----------------------------- MODULE MCConverge -----------------------------
(***************************************************************************)
(* Converge on a few hosts; hosts are interchangeable.                     *)
(***************************************************************************)
EXTENDS Converge, TLC

HostSymmetry == Permutations(Hosts)
=============================================================================
