---------------------------- MODULE MCSupervisor ----------------------------
(***************************************************************************)
(* The supervisor with one service and one peer of two addresses.          *)
(***************************************************************************)
EXTENDS Supervisor, TLC
=============================================================================
