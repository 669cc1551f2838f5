-------------------------- MODULE MCArtifactStore --------------------------
(***************************************************************************)
(* A blob, the manifest of it and a group of that manifest; one batch with *)
(* all three, one with the group alone.                                    *)
(***************************************************************************)
EXTENDS ArtifactStore, TLC

CONSTANTS blob, manifest, group, whole, top

MCKids == blob :> {} @@ manifest :> {blob} @@ group :> {manifest}
MCContents == whole :> {blob, manifest, group} @@ top :> {group}
=============================================================================
