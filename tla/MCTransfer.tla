----------------------------- MODULE MCTransfer -----------------------------
(***************************************************************************)
(* Transfer on small instances.                                            *)
(***************************************************************************)
EXTENDS Transfer, TLC

CONSTANTS snd, p1, p2

Symmetry == Permutations(Lane)
=============================================================================
