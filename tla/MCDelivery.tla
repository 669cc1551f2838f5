----------------------------- MODULE MCDelivery -----------------------------
(***************************************************************************)
(* Delivery on small instances.                                            *)
(***************************************************************************)
EXTENDS Delivery

CONSTANTS a, b, p1

(* Consecutive snapshots share a root; the second drops one that the third
   has again. *)
TwoRoots == [n \in 1..MaxRev |-> IF n = 2 THEN {b} ELSE {a, b}]

(* Only the second snapshot has a root: its successors drop it. *)
OneRoot == [n \in 1..MaxRev |-> IF n = 2 THEN {a} ELSE {}]
=============================================================================
