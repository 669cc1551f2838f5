---------------------------- MODULE MCAcceptance ----------------------------
(***************************************************************************)
(* Acceptance with three snapshots over two roots and a delta.  The first  *)
(* snapshot may have been applied before, over v1 and without its root.    *)
(***************************************************************************)
EXTENDS Acceptance

CONSTANTS a, b

SomeOffers ==
    {Snapshot(1, 0, {a}), Snapshot(2, 0, {a, b}), Snapshot(3, 0, {b}),
     Delta(1, 2, 0)}

OldReceipts == {Snapshot(1, 0, {})}
=============================================================================
