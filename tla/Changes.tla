------------------------------ MODULE Changes ------------------------------
(***************************************************************************)
(* The change envelope that a delivery carries and the receiver's fence    *)
(* over it: syncservice/service.go and syncservice/fence.go.               *)
(*                                                                         *)
(* A change is abstracted to what the protocol tells apart: its kind, the  *)
(* base and source revisions, the lineage of the source history it was     *)
(* exported from (two exports of one revision number hold different        *)
(* payloads when the source was restored from a backup in between) and its *)
(* artifact roots.  The change id is a hash of all of these and of nothing *)
(* else (the peer is not an input), so the record itself stands for the    *)
(* id.  The service id, schema fingerprint and origin are fixed: one       *)
(* module instance is one service of one origin host.                      *)
(***************************************************************************)
EXTENDS Naturals

CONSTANT Root          \* artifact roots a change may carry

Kind == {"snapshot", "delta"}

(***************************************************************************)
(* The absence of a change: no pending reference, no receipt.  It has the  *)
(* shape of a change so that "a missing receipt counts as revision zero"   *)
(* needs no case of its own.                                               *)
(***************************************************************************)
NoChange == [kind |-> "none", base |-> 0, src |-> 0, gen |-> 0, roots |-> {}]

\* ChangeEnvelope.Validate: what an envelope that leaves the source satisfies.
Change ==
    {c \in [kind: Kind, base: Nat, src: Nat, gen: Nat, roots: SUBSET Root] :
        /\ c.src # 0
        /\ c.base <= c.src
        /\ c.kind = "snapshot" => c.base = 0
        /\ c.kind = "delta" => c.roots = {}}

Snapshot(rev, gen, roots) ==
    [kind |-> "snapshot", base |-> 0, src |-> rev, gen |-> gen, roots |-> roots]

Delta(since, rev, gen) ==
    [kind |-> "delta", base |-> since, src |-> rev, gen |-> gen, roots |-> {}]

\* PayloadDigest: it covers the payload and not the artifact list.
Digest(c) == <<c.kind, c.base, c.src, c.gen>>

\* Mutant of Fence: a change at the held revision is not stale.
FenceOffByOne(held, c) ==
    IF held = c                                       THEN "replay"
    ELSE IF c.src < held.src                          THEN "stale"
    ELSE IF c.kind = "delta" /\ c.base # held.src     THEN "needSnapshot"
    ELSE                                                   "apply"

(***************************************************************************)
(* Fence: the verdict of a receiver that holds the receipt of `held' on an *)
(* incoming change.                                                        *)
(***************************************************************************)
Fence(held, c) ==
    IF held = c                                       THEN "replay"
    ELSE IF c.src <= held.src                         THEN "stale"
    ELSE IF c.kind = "delta" /\ c.base # held.src     THEN "needSnapshot"
    ELSE                                                   "apply"

\* Mutant of ApplyResult: a held revision is an acknowledgement, whatever
\* payload it stands for, and roots that are still missing do not matter.
AnyPayloadAcked(held, has, c) ==
    LET verdict == Fence(held, c) IN
    IF verdict = "apply" THEN "applied"
    ELSE IF verdict = "stale" /\ held.src > c.src THEN "stale"
    ELSE IF verdict = "needSnapshot" THEN "needSnapshot" ELSE "acked"

(***************************************************************************)
(* What apply and apply.v2 answer when the receiver's store has the root   *)
(* closures in `has' complete.  The handler computes readiness itself and  *)
(* turns an acknowledgement of an incomplete change into ErrIncompleteAck. *)
(* A stale verdict that names the very payload of the change is an         *)
(* acknowledgement.                                                        *)
(***************************************************************************)
ApplyResult(held, has, c) ==
    LET verdict  == Fence(held, c)
        complete == c.roots \subseteq has
        fullAck  == \/ verdict = "replay"
                    \/ verdict = "stale" /\ held.src = c.src
    IN  CASE verdict = "needSnapshot"                    -> "needSnapshot"
          [] verdict = "apply" /\ complete               -> "applied"
          [] verdict = "apply" /\ ~complete              -> "partial"
          [] fullAck /\ ~complete                        -> "error"
          [] verdict = "replay" /\ complete              -> "acked"
          [] verdict = "stale" /\ (fullAck => complete)  ->
                IF fullAck /\ Digest(held) = Digest(c) THEN "acked" ELSE "stale"
=============================================================================
