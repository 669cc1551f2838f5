---------------------------- MODULE Replication ----------------------------
(***************************************************************************)
(* What delivery promises, without saying how: a source publishes          *)
(* revisions, every peer's receipt only moves to a later revision that the *)
(* source has published, and the source counts a version as acknowledged   *)
(* only when the peer's receipt is that very version or a later revision.  *)
(* A version is a revision number with the lineage of the history it was   *)
(* written in; <<0, 0>> is no version.                                     *)
(***************************************************************************)
EXTENDS Naturals

CONSTANT Peers

VARIABLES
    tip,      \* the highest revision published so far
    receipt,  \* per peer, the version it holds
    acked     \* per peer, the version the source knows it to hold

replicationVars == <<tip, receipt, acked>>

Version == Nat \X Nat

Init ==
    /\ tip \in Nat
    /\ receipt \in [Peers -> Version]
    /\ acked \in [Peers -> Version]
    /\ \A p \in Peers : acked[p][1] <= receipt[p][1] /\ receipt[p][1] <= tip

Publish ==
    /\ tip' = tip + 1
    /\ UNCHANGED <<receipt, acked>>

\* A peer takes a later version; nothing makes it go back.
Take(p) ==
    /\ receipt'[p] \in Version
    /\ receipt'[p][1] > receipt[p][1]
    /\ receipt'[p][1] <= tip
    /\ \A q \in Peers \ {p} : receipt'[q] = receipt[q]
    /\ UNCHANGED <<tip, acked>>

\* The source learns of a version the peer holds, or held before a later one.
Confirm(p) ==
    LET v == acked'[p] IN
    /\ v \in Version
    /\ v[1] > acked[p][1]
    /\ v[1] < receipt[p][1] \/ v = receipt[p]
    /\ \A q \in Peers \ {p} : acked'[q] = acked[q]
    /\ UNCHANGED <<tip, receipt>>

Next == Publish \/ \E p \in Peers : Take(p) \/ Confirm(p)

Spec == Init /\ [][Next]_replicationVars
=============================================================================
