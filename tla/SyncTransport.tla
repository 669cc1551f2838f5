--------------------------- MODULE SyncTransport ---------------------------
(***************************************************************************)
(* The transports to a sync service: the child spawned on this host, and   *)
(* the ssh session to another.                                             *)
(*                                                                         *)
(* A transport holds one lock through a whole Do and through Close, so     *)
(* each is one step.  What a Do does is a set of outcomes: the transport   *)
(* after it and the result, "ok", "undispatched" (the peer has provably    *)
(* not seen the request) or "failed" (it may have).                        *)
(***************************************************************************)
EXTENDS Naturals

CONSTANT Addresses      \* how many addresses a registered host has

ASSUME AddressesAssumption == Addresses \in Nat \ {0}

\* A transport: its child process and the lane over it, the address it dials
\* next, and whether it is closed.
Transport == [child: BOOLEAN, lane: BOOLEAN, index: 1..Addresses, closed: BOOLEAN]

NewTransport == [child |-> FALSE, lane |-> FALSE, index |-> 1, closed |-> FALSE]

\* reset: the client closes its lane, then the child is stopped.
Reset(t) == [t EXCEPT !.lane = FALSE, !.child = FALSE]

Close(t) == IF t.closed THEN t ELSE [Reset(t) EXCEPT !.closed = TRUE]

Outcome(t, result) == [transport |-> t, result |-> result]

\* current, open: the child is started and the lane over it opened, if there
\* is none.
Opened(t) == [t EXCEPT !.child = TRUE, !.lane = TRUE]

\* Mutant of Refuses: a closed transport starts a new child.
RefusesNever(t) == FALSE

\* Do, on a transport that is closed.
Refuses(t) == t.closed

\* spawnedTransport.Do.  A start or an open that fails sends nothing.
SpawnedDo(t, mayFail) ==
    IF Refuses(t) THEN {Outcome(t, "undispatched")}
    ELSE {Outcome(Opened(t), "ok")}
         \cup (IF mayFail
               THEN {Outcome(Reset(t), "undispatched"), Outcome(Reset(t), "failed")}
               ELSE {})

\* The address after a call that reached nobody.
NextIndex(t) == IF t.index < Addresses THEN t.index + 1 ELSE t.index

\* remoteTransport.Do, where the addresses in dead are never reached.
RemoteDo(t, dead, mayFail) ==
    LET Unreached == Outcome([Reset(t) EXCEPT !.index = NextIndex(t)], "undispatched")
    IN  CASE Refuses(t)                    -> {Outcome(t, "undispatched")}
          [] ~t.lane /\ t.index \in dead   -> {Unreached}
          [] OTHER -> {Outcome(Opened(t), "ok")}
                      \cup (IF mayFail THEN {Unreached, Outcome(Reset(t), "failed")} ELSE {})
=============================================================================
