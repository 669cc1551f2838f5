------------------------------ MODULE MCWatch ------------------------------
(***************************************************************************)
(* Watch with two overlapping evaluations.                                 *)
(***************************************************************************)
EXTENDS Watch

CONSTANTS e1, e2
=============================================================================
