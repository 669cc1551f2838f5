--------------------------- MODULE DeliveryStore ---------------------------
(***************************************************************************)
(* The durable delivery-v2 state of daemon/delivery.go: one record per     *)
(* peer and one file per pending change.  Every operation runs under the   *)
(* store's file lock, reads the state, sweeps unreferenced pending files,  *)
(* applies itself, writes the state and sweeps again (withState), so an    *)
(* operation is atomic towards other lanes and only a failed write or a    *)
(* crash exposes its intermediate points.  The operators here are the      *)
(* pieces of one operation; module Delivery puts the failure points in.    *)
(***************************************************************************)
EXTENDS Changes

\* deliveryRecord: acked revision, AckedChangeID and the pending reference.
Record == [acked: Nat, ackedAs: Change \cup {NoChange}, pending: Change \cup {NoChange}]

\* find: the record of a lane the state does not mention yet.
EmptyRecord == [acked |-> 0, ackedAs |-> NoChange, pending |-> NoChange]

\* record.validate: a state file that holds a record failing this is unreadable.
Readable(rec) == rec.pending # NoChange => rec.pending.src > rec.acked

\* sweep: the pending files some record references, whoever's record it is.
Swept(files, records) ==
    {f \in files : \E p \in DOMAIN records : records[p].pending = f}

\* The errors of stage: errPendingChanged, errSourceRegressed, errSupersede.
MayStage(rec, expected, c) ==
    LET old == rec.pending IN
    /\ old = expected
    /\ c.src > rec.acked
    /\ old # NoChange =>
         /\ c.kind = "snapshot"
         /\ \/ c.src > old.src
            \/ c.src = old.src /\ old.kind = "delta"

Staged(rec, c) == [rec EXCEPT !.pending = c]

\* The errors of acknowledge once the reply is a plain acknowledgement.
MayAcknowledge(rec, c) == rec.pending = c

\* Mutant of Acknowledged: the pending reference is not cleared.
AcknowledgedStillPending(rec, c) == [rec EXCEPT !.acked = c.src, !.ackedAs = c]

Acknowledged(rec, c) ==
    [acked   |-> IF c.src > rec.acked THEN c.src ELSE rec.acked,
     ackedAs |-> c,
     pending |-> NoChange]
=============================================================================
