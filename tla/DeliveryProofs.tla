-------------------------- MODULE DeliveryProofs --------------------------
(***************************************************************************)
(* Proofs about module Delivery for every set of peers and every bound.    *)
(***************************************************************************)
EXTENDS Delivery, TLAPS

Maybe == Change \cup {NoChange}

-----------------------------------------------------------------------------
(***************************************************************************)
(* Facts about changes, records and the fence.                             *)
(***************************************************************************)
(* The absent change is not a change. *)
LEMMA NoChangeIsNone == NoChange \notin Change
  BY DEF NoChange, Change

(* The fields of a change, absent or not, have their types. *)
LEMMA ChangeFields ==
    ASSUME NEW c \in Maybe
    PROVE  /\ c.src \in Nat /\ c.gen \in Nat /\ c.roots \in SUBSET Root
           /\ c = NoChange => c.src = 0 /\ c.roots = {}
           /\ c # NoChange => c \in Change /\ c.src # 0
  BY DEF Maybe, NoChange, Change

(* Exports are changes of the current revision (validity of an envelope). *)
LEMMA ExportIsChange ==
    ASSUME TypeOK, NEW arts \in BOOLEAN, NEW since \in Nat,
           NEW c \in Exports(arts, since) \cup {FullExport(arts)}
    PROVE  /\ c \in Change
           /\ c.src = rev
           /\ ~arts => c.roots = {}
  <1>1. /\ rev \in 1..MaxRev /\ rev \in Nat /\ rev # 0
        /\ born[rev] \in Nat
        /\ RootsOf[rev] \in SUBSET Root
    BY BoundsAssumption, RootsAssumption DEF TypeOK
  <1>2. CASE c = FullExport(arts)
    BY <1>1, <1>2 DEF FullExport, Snapshot, Change, Kind
  <1>3. CASE since \in 1..rev /\ c = Delta(since, rev, born[rev])
    BY <1>1, <1>3 DEF Delta, Change, Kind
  <1> QED BY <1>2, <1>3 DEF Exports

-----------------------------------------------------------------------------
(***************************************************************************)
(* Type correctness.                                                       *)
(***************************************************************************)
(* A receipt that a v1 daemon left behind is a change. *)
LEMMA V1ReceiptIsChange ==
    ASSUME NEW r \in Nat, NEW h \in V1Receipts(r), h.base <= h.src
    PROVE  h \in Change /\ h.src <= r /\ h.gen = 0
  <1>1. CASE \E n \in 1..r : h = Snapshot(n, 0, {})
    BY <1>1 DEF Snapshot, Change, Kind
  <1>2. CASE \E b \in 1..r, n \in 1..r : h = Delta(b, n, 0)
    BY <1>2 DEF Delta, Change, Kind
  <1> QED BY <1>1, <1>2 DEF V1Receipts

(* The initial states are well typed: booted lanes over an empty or a
   migrated store. *)
LEMMA InitTypeOK == Init => TypeOK
  <1> SUFFICES ASSUME Init PROVE TypeOK
    OBVIOUS
  <1>1. rev \in 1..MaxRev /\ rev \in Nat
    BY BoundsAssumption DEF Init
  <1>2. held \in [Peers -> Change \cup {NoChange}]
    <2>1. \A p \in Peers : held[p] \in Change \cup {NoChange}
      BY <1>1, V1ReceiptIsChange DEF Init, FreshLane, MigratedLane
    <2> QED BY <2>1 DEF Init
  <1>3. records \in [Peers -> Record]
    BY <1>1 DEF Init, EmptyRecord, Record
  <1>4. NoRun \in Run
    BY DEF NoRun, Run
  <1>5. artifacts \in BOOLEAN
    BY CapableAssumption DEF Init
  <1>6. /\ tip \in 1..MaxRev /\ rev \in 1..tip
        /\ born \in [1..MaxRev -> Nat]
        /\ restores \in Nat
    BY <1>1 DEF Init
  <1>7. /\ pc \in [Peers -> Resting \cup Passing]
        /\ dirty \in [Peers -> BOOLEAN] /\ kick \in [Peers -> BOOLEAN]
        /\ arm \in [Peers -> {"none", "due", "retry"}]
        /\ status \in [Peers -> {"idle", "paused", "backoff"}]
    BY DEF Init, Booted, Resting
  <1>8. /\ settled \in [Peers -> BOOLEAN]
        /\ pinnedFor \in [Peers -> Change \cup {NoChange}]
        /\ run \in [Peers -> Run]
    BY <1>4 DEF Init, Booted
  <1>9. /\ files \subseteq Change
        /\ pins \in [Peers -> SUBSET Root]
        /\ has \in [Peers -> SUBSET Root]
        /\ late \in [Peers -> SUBSET Change]
        /\ owed \in [Peers -> BOOLEAN]
        /\ calm \in BOOLEAN
    BY DEF Init
  <1> QED
    BY <1>2, <1>3, <1>5, <1>6, <1>7, <1>8, <1>9 DEF TypeOK

-----------------------------------------------------------------------------
(***************************************************************************)
(* The inductive invariant.  It says what each program counter of a pass   *)
(* knows about the durable state and about what the lane remembers.        *)
(***************************************************************************)
\* A pass carries the pending change of its record from staging to the ack.
Carrying == {"pin", "gate", "transfer", "sent", "progress", "apply", "full", "ack"}

RunShape(p) ==
    /\ pc[p] = "repin" => run[p].change = records[p].pending
    /\ pc[p] \in {"union", "stage"} =>
          run[p].change \in Change /\ run[p].expected = records[p].pending
    /\ pc[p] \in Carrying => run[p].change \in Change /\ run[p].change = records[p].pending
    /\ pc[p] \in {"pin", "unpin"} => run[p].arts
    /\ pc[p] = "unpin" => records[p].pending = NoChange

(* The fields that the proof steps look at have their types. *)
LEMMA RunFields ==
    ASSUME TypeOK, NEW p \in Peers
    PROVE  /\ run[p] \in Run /\ run[p].change \in Maybe /\ run[p].expected \in Maybe
           /\ run[p].arts \in BOOLEAN /\ run[p].again \in BOOLEAN /\ run[p].sent \in BOOLEAN
           /\ records[p] \in Record /\ records[p].pending \in Maybe
           /\ records[p].ackedAs \in Maybe /\ records[p].acked \in Nat
           /\ held[p] \in Maybe
  BY DEF TypeOK, Run, Record, Maybe

\* The control state of the lanes, and everything else.
ControlOK ==
    /\ pc \in [Peers -> Resting \cup Passing]
    /\ arm \in [Peers -> {"none", "due", "retry"}]
    /\ status \in [Peers -> {"idle", "paused", "backoff"}]
    /\ run \in [Peers -> Run]

DataOK ==
    /\ tip \in 1..MaxRev /\ rev \in 1..tip
    /\ born \in [1..MaxRev -> Nat] /\ restores \in Nat
    /\ artifacts \in BOOLEAN
    /\ records \in [Peers -> Record] /\ files \subseteq Change
    /\ pins \in [Peers -> SUBSET Root]
    /\ dirty \in [Peers -> BOOLEAN] /\ kick \in [Peers -> BOOLEAN]
    /\ settled \in [Peers -> BOOLEAN]
    /\ pinnedFor \in [Peers -> Change \cup {NoChange}]
    /\ held \in [Peers -> Change \cup {NoChange}]
    /\ has \in [Peers -> SUBSET Root]
    /\ late \in [Peers -> SUBSET Change]
    /\ owed \in [Peers -> BOOLEAN] /\ calm \in BOOLEAN

(* The two halves are the type invariant. *)
LEMMA TypeHalves == /\ TypeOK <=> ControlOK /\ DataOK
                    /\ TypeOK' <=> ControlOK' /\ DataOK'
  BY DEF TypeOK, ControlOK, DataOK

(* Moving on within a pass keeps the control state typed. *)
LEMMA GoControl ==
    ASSUME ControlOK, NEW p \in Peers, NEW l \in Resting \cup Passing, NEW r \in Run,
           GoWith(p, l, r)
    PROVE  ControlOK'
  BY DEF ControlOK, GoWith, restVars

(* Ending a pass keeps the control state typed. *)
LEMMA RestControl ==
    ASSUME ControlOK, NEW p \in Peers, NEW st \in {"idle", "paused", "backoff"}, Rest(p, st)
    PROVE  ControlOK'
  <1>1. NoRun \in Run
    BY DEF NoRun, Run
  <1> QED BY <1>1 DEF ControlOK, Rest, Resting

(* Staging and acknowledging make records of records. *)
LEMMA RecordTypes ==
    ASSUME NEW rec \in Record, NEW c \in Change
    PROVE  /\ Staged(rec, c) \in Record
           /\ Acknowledged(rec, c) \in Record
           /\ Staged(rec, c) = [acked |-> rec.acked, ackedAs |-> rec.ackedAs, pending |-> c]
  <1>1. c.src \in Nat /\ rec.acked \in Nat /\ rec.ackedAs \in Change \cup {NoChange}
    BY ChangeFields DEF Record, Maybe
  <1>2. Staged(rec, c) = [acked |-> rec.acked, ackedAs |-> rec.ackedAs, pending |-> c]
    BY DEF Staged, Record
  <1>3. Staged(rec, c) \in Record
    BY <1>1, <1>2 DEF Record
  <1>4. Acknowledged(rec, c) \in Record
    BY <1>1 DEF Acknowledged, Record
  <1> QED BY <1>2, <1>3, <1>4

(* Every step of a pass keeps the control state typed. *)
LEMMA PassControl ==
    ASSUME TypeOK, NEW p \in Peers,
           PassStep(p) \/ StageTorn(p) \/ CallFails(p) \/ Pause(p) \/ CallOutlived(p)
    PROVE  ControlOK'
  <1> ControlOK /\ run[p] \in Run /\ records[p].pending \in Maybe /\ records[p].acked \in Nat
    BY TypeHalves, RunFields
  <1>a. ASSUME NEW l \in Resting \cup Passing, Go(p, l) PROVE ControlOK'
    BY <1>a, GoControl DEF Go
  <1>b. ASSUME Settle(p) \/ Fail(p) PROVE ControlOK'
    BY <1>b, RestControl DEF Settle, Fail
  <1> HIDE DEF ControlOK
  <1>1. CASE Detect(p)
    BY <1>1, <1>a, <1>b DEF Detect, Resting, Passing
  <1>2. CASE Clean(p)
    BY <1>2, <1>a, <1>b DEF Clean, Resting, Passing
  <1>3. CASE Prepare(p)
    <2>1. ASSUME NEW c \in Maybe, NEW e \in Maybe PROVE NewRun(c, e) \in Run
      BY DEF NewRun, Run, Maybe, TypeOK
    <2>2. \A c \in Exports(artifacts, records[p].acked) \cup {FullExport(artifacts)} : c \in Maybe
      BY ExportIsChange DEF TypeOK, Maybe
    <2>3. NoChange \in Maybe
      BY DEF Maybe
    <2>4. CASE Fail(p)
      BY <2>4, <1>b
    <2>5. CASE GoWith(p, "repin", NewRun(records[p].pending, NoChange))
      BY <2>1, <2>3, <2>5, GoControl DEF Passing
    <2>6. ASSUME NEW c \in Exports(artifacts, records[p].acked) \cup {FullExport(artifacts)},
                 GoWith(p, "union", NewRun(c, records[p].pending))
          PROVE  ControlOK'
      BY <2>1, <2>2, <2>6, GoControl DEF Passing
    <2> QED BY <1>3, <2>4, <2>5, <2>6 DEF Prepare
  <1>4. CASE Repin(p)
    BY <1>4, <1>a, <1>b DEF Repin, Resting, Passing, AfterStaging
  <1>5. CASE Union(p)
    BY <1>5, <1>a, <1>b DEF Union, Resting, Passing
  <1>6. CASE Stage(p)
    BY <1>6, <1>a, <1>b DEF Stage, Resting, Passing, AfterStaging
  <1>7. CASE StageRefused(p)
    BY <1>7, <1>a, <1>b DEF StageRefused, Resting, Passing
  <1>8. CASE StageTorn(p)
    BY <1>8, <1>a, <1>b DEF StageTorn, Resting, Passing
  <1>9. CASE Pin(p)
    BY <1>9, <1>a, <1>b DEF Pin, Resting, Passing, AfterStaging
  <1>10. CASE Gate(p)
    BY <1>10, <1>a, <1>b DEF Gate, Resting, Passing
  <1>11. CASE SendBatch(p)
    <2>1. [run[p] EXCEPT !.sent = TRUE] \in Run /\ NoRun \in Run
      BY DEF Run, NoRun
    <2>2. CASE GoWith(p, "clean", NoRun)
      BY <2>1, <2>2, GoControl DEF Passing
    <2>3. CASE GoWith(p, "sent", [run[p] EXCEPT !.sent = TRUE])
      BY <2>1, <2>3, GoControl DEF Passing
    <2> QED BY <1>11, <1>b, <2>2, <2>3 DEF SendBatch, Abandon
  <1>12. CASE BatchSent(p)
    <2>1. CASE GoWith(p, "clean", NoRun)
      BY <2>1, GoControl DEF Passing, Run, NoRun
    <2> QED BY <1>12, <1>a, <2>1 DEF BatchSent, Abandon, Passing
  <1>13. CASE TransferDone(p)
    BY <1>13, <1>a, <1>b DEF TransferDone, Resting, Passing
  <1>14. CASE Progress(p)
    BY <1>14, <1>a, <1>b DEF Progress, Resting, Passing
  <1>15. CASE Apply(p)
    BY <1>15, <1>a, <1>b DEF Apply, Resting, Passing
  <1>16. CASE ExportFull(p)
    <2>1. FullExport(run[p].arts) \in Change /\ run[p].change \in Maybe
      BY ExportIsChange, RunFields
    <2>2. [run[p] EXCEPT !.change = FullExport(run[p].arts), !.expected = run[p].change,
                         !.again = TRUE] \in Run
      BY <2>1 DEF Run, Maybe
    <2> QED BY <1>16, <2>2, GoControl DEF ExportFull, Passing
  <1>17. CASE Acknowledge(p)
    BY <1>17, <1>a, <1>b DEF Acknowledge, Resting, Passing
  <1>18. CASE Unpin(p)
    BY <1>18, <1>a, <1>b DEF Unpin, Resting, Passing
  <1>19. CASE CallFails(p)
    BY <1>19, <1>a, <1>b DEF CallFails, Resting, Passing
  <1>20. CASE Pause(p)
    BY <1>20, RestControl DEF Pause
  <1>21. CASE CallOutlived(p)
    BY <1>21, <1>a, <1>b DEF CallOutlived, Resting, Passing
  <1> QED BY <1>1, <1>2, <1>3, <1>4, <1>5, <1>6, <1>7, <1>8, <1>9, <1>10, <1>11, <1>12, <1>13, <1>14, <1>15, <1>16, <1>17, <1>18, <1>19, <1>20, <1>21 DEF PassStep

(* Every step of a pass keeps the rest of the state typed. *)
LEMMA PassData ==
    ASSUME TypeOK, NEW p \in Peers, RunShape(p),
           PassStep(p) \/ StageTorn(p) \/ CallFails(p) \/ Pause(p) \/ CallOutlived(p)
    PROVE  DataOK'
  <1> DataOK
    BY TypeHalves
  <1> USE RunFields, ChangeFields
  <1> USE DEF DataOK, sourceVars, storeVars, loopVars, pinVars, peerVars, envVars
  <1>1. CASE Detect(p)
    BY <1>1 DEF Detect
  <1>2. CASE Clean(p)
    BY <1>2 DEF Clean
  <1>3. CASE Prepare(p)
    BY <1>3 DEF Prepare, Swept
  <1>4. CASE Repin(p)
    BY <1>4 DEF Repin, Maybe
  <1>5. CASE Union(p)
    BY <1>5 DEF Union, Maybe
  <1>6. CASE Stage(p)
    BY <1>6, RecordTypes DEF Stage, Swept, RunShape
  <1>7. CASE StageRefused(p)
    BY <1>7 DEF StageRefused, Swept
  <1>8. CASE StageTorn(p)
    <2>1. run[p].change \in Change /\ Staged(records[p], run[p].change) \in Record
      BY <1>8, RecordTypes DEF StageTorn, RunShape
    <2>2. records' \in [Peers -> Record] /\ files' \subseteq Change
      BY <1>8, <2>1 DEF StageTorn, Swept
    <2> QED BY <1>8, <2>2 DEF StageTorn
  <1>9. CASE Pin(p)
    BY <1>9 DEF Pin, Maybe
  <1>10. CASE Gate(p)
    BY <1>10 DEF Gate
  <1>11. CASE SendBatch(p)
    <2>1. has' \in [Peers -> SUBSET Root]
      BY <1>11 DEF SendBatch, Abandon, Missing, Maybe
    <2>2. UNCHANGED <<sourceVars, storeVars, loopVars, pinVars, held, late, envVars>>
      BY <1>11 DEF SendBatch, Abandon
    <2> QED BY <2>1, <2>2
  <1>12. CASE BatchSent(p)
    BY <1>12 DEF BatchSent, Abandon
  <1>13. CASE TransferDone(p)
    BY <1>13 DEF TransferDone
  <1>14. CASE Progress(p)
    BY <1>14 DEF Progress, PeerApplies, RunShape, Carrying
  <1>15. CASE Apply(p)
    BY <1>15 DEF Apply, PeerApplies, RunShape, Carrying
  <1>16. CASE ExportFull(p)
    BY <1>16 DEF ExportFull
  <1>17. CASE Acknowledge(p)
    BY <1>17, RecordTypes DEF Acknowledge, Swept, RunShape, Carrying
  <1>18. CASE Unpin(p)
    BY <1>18 DEF Unpin
  <1>19. CASE CallFails(p)
    BY <1>19 DEF CallFails
  <1>20. CASE Pause(p)
    BY <1>20 DEF Pause
  <1>21. CASE CallOutlived(p)
    BY <1>21 DEF CallOutlived, InFlight, RunShape, Carrying
  <1> QED BY <1>1, <1>2, <1>3, <1>4, <1>5, <1>6, <1>7, <1>8, <1>9, <1>10, <1>11, <1>12, <1>13, <1>14, <1>15, <1>16, <1>17, <1>18, <1>19, <1>20, <1>21 DEF PassStep

(* Every step keeps the types. *)
LEMMA NextTypeOK ==
    ASSUME TypeOK, \A p \in Peers : RunShape(p), [Next]_vars
    PROVE  TypeOK'
  <1>1. CASE Advance
    BY <1>1, BoundsAssumption DEF Advance, TypeOK, storeVars, laneVars, peerVars
  <1>2. CASE Restore
    BY <1>2, BoundsAssumption DEF Restore, TypeOK, storeVars, laneVars, peerVars
  <1>3. CASE Upgrade
    BY <1>3 DEF Upgrade, TypeOK, storeVars, laneVars, peerVars, envVars
  <1>4. CASE CalmDown
    BY <1>4 DEF CalmDown, TypeOK, sourceVars, storeVars, laneVars, peerVars
  <1>5. CASE Crash
    <2>1. NoRun \in Run
      BY DEF NoRun, Run
    <2>2. \A p \in Peers : InFlight(p) \in SUBSET Change
      BY DEF InFlight, TypeOK, RunShape, Carrying
    <2> QED BY <1>5, <2>1, <2>2 DEF Crash, TypeOK, sourceVars, storeVars, envVars, Resting
  <1>6. ASSUME NEW p \in Peers, Kick(p) PROVE TypeOK'
    BY <1>6 DEF Kick, TypeOK, sourceVars, storeVars, restVars, pinVars, peerVars
  <1>7. ASSUME NEW p \in Peers, ReceiveKick(p) PROVE TypeOK'
    BY <1>7 DEF ReceiveKick, TypeOK, sourceVars, storeVars, pinVars, peerVars, envVars
  <1>8. ASSUME NEW p \in Peers, Fire(p) PROVE TypeOK'
    BY <1>8 DEF Fire, TypeOK, sourceVars, storeVars, loopVars, pinVars, peerVars, envVars, Passing
  <1>9. ASSUME NEW p \in Peers, LateApply(p) PROVE TypeOK'
    BY <1>9 DEF LateApply, PeerApplies, TypeOK, sourceVars, storeVars, laneVars, envVars
  <1>10. ASSUME NEW p \in Peers, PeerDropsRoot(p) PROVE TypeOK'
    BY <1>10 DEF PeerDropsRoot, TypeOK, sourceVars, storeVars, laneVars, envVars
  <1>11. ASSUME NEW p \in Peers,
                PassStep(p) \/ StageTorn(p) \/ CallFails(p) \/ Pause(p) \/ CallOutlived(p)
         PROVE  TypeOK'
    BY <1>11, PassControl, PassData, TypeHalves
  <1>12. CASE UNCHANGED vars
    BY <1>12 DEF vars, TypeOK, sourceVars, storeVars, laneVars, peerVars, envVars
  <1> QED
    BY <1>1, <1>2, <1>3, <1>4, <1>5, <1>6, <1>7, <1>8, <1>9, <1>10, <1>11, <1>12
    DEF Next, LaneFault

-----------------------------------------------------------------------------
(***************************************************************************)
(* Lanes: a step of one lane leaves every other lane alone.                *)
(***************************************************************************)
LaneStep(p) == Kick(p) \/ ReceiveKick(p) \/ Fire(p) \/ PassStep(p) \/ LaneFault(p)

\* What the invariants say of a lane is unchanged, and so is the source.
LaneKept(p) ==
    /\ pc'[p] = pc[p] /\ run'[p] = run[p] /\ records'[p] = records[p]
    /\ pins'[p] = pins[p] /\ settled'[p] = settled[p] /\ pinnedFor'[p] = pinnedFor[p]
    /\ dirty'[p] = dirty[p] /\ kick'[p] = kick[p] /\ arm'[p] = arm[p]
    /\ status'[p] = status[p] /\ owed'[p] = owed[p]
    /\ held'[p] = held[p] /\ late'[p] = late[p]

(* Lanes share the pending files and nothing else: a step of lane q keeps the
   state of every other lane, and no lane step moves the source. *)
LEMMA OtherLanes ==
    ASSUME TypeOK, NEW q \in Peers, LaneStep(q)
    PROVE  /\ \A p \in Peers \ {q} : LaneKept(p)
           /\ UNCHANGED sourceVars
  <1> USE DEF TypeOK, LaneKept, sourceVars, storeVars, loopVars, restVars, pinVars, peerVars,
              envVars, laneVars, GoWith, Go, Rest, Settle, Fail
  <1>1. CASE Kick(q)
    BY <1>1 DEF Kick
  <1>2. CASE ReceiveKick(q)
    BY <1>2 DEF ReceiveKick
  <1>3. CASE Fire(q)
    BY <1>3 DEF Fire
  <1>4. CASE LateApply(q)
    BY <1>4 DEF LateApply, PeerApplies
  <1>5. CASE PeerDropsRoot(q)
    BY <1>5 DEF PeerDropsRoot
  <1>6. CASE Detect(q)
    BY <1>6 DEF Detect
  <1>7. CASE Clean(q)
    BY <1>7 DEF Clean
  <1>8. CASE Prepare(q)
    BY <1>8 DEF Prepare
  <1>9. CASE Repin(q)
    BY <1>9 DEF Repin
  <1>10. CASE Union(q)
    BY <1>10 DEF Union
  <1>11. CASE Stage(q)
    BY <1>11 DEF Stage
  <1>12. CASE StageRefused(q)
    BY <1>12 DEF StageRefused
  <1>13. CASE StageTorn(q)
    BY <1>13 DEF StageTorn
  <1>14. CASE Pin(q)
    BY <1>14 DEF Pin
  <1>15. CASE Gate(q)
    BY <1>15 DEF Gate
  <1>16. CASE SendBatch(q)
    BY <1>16 DEF SendBatch, Abandon
  <1>17. CASE BatchSent(q)
    BY <1>17 DEF BatchSent, Abandon
  <1>18. CASE TransferDone(q)
    BY <1>18 DEF TransferDone
  <1>19. CASE Progress(q)
    BY <1>19 DEF Progress, PeerApplies
  <1>20. CASE Apply(q)
    BY <1>20 DEF Apply, PeerApplies
  <1>21. CASE ExportFull(q)
    BY <1>21 DEF ExportFull
  <1>22. CASE Acknowledge(q)
    BY <1>22 DEF Acknowledge
  <1>23. CASE Unpin(q)
    BY <1>23 DEF Unpin
  <1>24. CASE CallFails(q)
    BY <1>24 DEF CallFails
  <1>25. CASE Pause(q)
    BY <1>25 DEF Pause
  <1>26. CASE CallOutlived(q)
    BY <1>26 DEF CallOutlived
  <1> QED
    BY <1>1, <1>2, <1>3, <1>4, <1>5, <1>6, <1>7, <1>8, <1>9, <1>10, <1>11, <1>12,
         <1>13, <1>14, <1>15, <1>16, <1>17, <1>18, <1>19, <1>20, <1>21, <1>22,
         <1>23, <1>24, <1>25, <1>26
    DEF LaneStep, PassStep, LaneFault

(* Where a step of a pass leaves its lane. *)
LEMMA GoEffect ==
    ASSUME TypeOK, NEW p \in Peers
    PROVE  /\ \A l, r : GoWith(p, l, r) => pc'[p] = l /\ run'[p] = r
           /\ \A l : Go(p, l) => pc'[p] = l /\ run'[p] = run[p]
           /\ \A st : Rest(p, st) => pc'[p] = "idle" /\ status'[p] = st /\ run'[p] = NoRun
           /\ Settle(p) => pc'[p] = "idle" /\ status'[p] = "idle" /\ run'[p] = NoRun
           /\ Fail(p) => pc'[p] = "idle" /\ status'[p] = "backoff" /\ run'[p] = NoRun
  BY DEF TypeOK, GoWith, Go, Rest, Settle, Fail

-----------------------------------------------------------------------------
(***************************************************************************)
(* The run of a pass and its record agree.                                 *)
(***************************************************************************)
(* A step of a lane keeps the shape of its run. *)
LEMMA LaneRunShape ==
    ASSUME TypeOK, NEW p \in Peers, RunShape(p), LaneStep(p)
    PROVE  RunShape(p)'
  <1> USE GoEffect, RunFields DEF RunShape, Carrying
  <1> USE DEF storeVars, laneVars
  <1>1. CASE Kick(p)
    BY <1>1 DEF Kick
  <1>2. CASE ReceiveKick(p)
    BY <1>2 DEF ReceiveKick
  <1>3. CASE Fire(p)
    BY <1>3 DEF Fire, TypeOK
  <1>4. CASE LateApply(p)
    BY <1>4 DEF LateApply
  <1>5. CASE PeerDropsRoot(p)
    BY <1>5 DEF PeerDropsRoot
  <1>6. CASE Detect(p)
    BY <1>6 DEF Detect
  <1>7. CASE Clean(p)
    BY <1>7 DEF Clean
  <1>8. CASE Prepare(p)
    <2>1. records'[p] = records[p]
      BY <1>8 DEF Prepare
    <2>2. CASE GoWith(p, "repin", NewRun(records[p].pending, NoChange))
      BY <2>1, <2>2 DEF NewRun
    <2>3. ASSUME NEW c \in Exports(artifacts, records[p].acked) \cup {FullExport(artifacts)},
                 GoWith(p, "union", NewRun(c, records[p].pending))
          PROVE  RunShape(p)'
      <3>1. c \in Change
        BY ExportIsChange DEF TypeOK
      <3> QED BY <2>1, <2>3, <3>1 DEF NewRun
    <2> QED BY <1>8, <2>2, <2>3 DEF Prepare
  <1>9. CASE Repin(p)
    BY <1>9 DEF Repin, AfterStaging, Maybe
  <1>10. CASE Union(p)
    BY <1>10 DEF Union
  <1>11. CASE Stage(p)
    <2>1. run[p].change \in Change /\ records'[p] = Staged(records[p], run[p].change)
      BY <1>11 DEF Stage, TypeOK
    <2>2. records'[p].pending = run[p].change
      BY <2>1, RecordTypes
    <2> QED BY <1>11, <2>1, <2>2 DEF Stage, AfterStaging
  <1>12. CASE StageRefused(p)
    BY <1>12 DEF StageRefused
  <1>13. CASE StageTorn(p)
    BY <1>13 DEF StageTorn
  <1>14. CASE Pin(p)
    BY <1>14 DEF Pin, AfterStaging
  <1>15. CASE Gate(p)
    BY <1>15 DEF Gate
  <1>16. CASE SendBatch(p)
    <2>1. CASE GoWith(p, "sent", [run[p] EXCEPT !.sent = TRUE])
      BY <1>16, <2>1 DEF SendBatch, Abandon, Run
    <2> QED BY <1>16, <2>1 DEF SendBatch, Abandon
  <1>17. CASE BatchSent(p)
    BY <1>17 DEF BatchSent, Abandon
  <1>18. CASE TransferDone(p)
    BY <1>18 DEF TransferDone
  <1>19. CASE Progress(p)
    BY <1>19 DEF Progress
  <1>20. CASE Apply(p)
    BY <1>20 DEF Apply
  <1>21. CASE ExportFull(p)
    <2>1. FullExport(run[p].arts) \in Change
      BY ExportIsChange
    <2> DEFINE r == [run[p] EXCEPT !.change = FullExport(run[p].arts),
                                   !.expected = run[p].change, !.again = TRUE]
    <2>2. run[p] \in Run
      BY RunFields
    <2>3. r.change = FullExport(run[p].arts) /\ r.expected = run[p].change
      BY <2>2 DEF Run
    <2>4. pc'[p] = "union" /\ run'[p] = r /\ records' = records
      BY <1>21 DEF ExportFull
    <2>5. run[p].change = records[p].pending
      BY <1>21 DEF ExportFull
    <2> QED BY <2>1, <2>3, <2>4, <2>5
  <1>22. CASE Acknowledge(p)
    <2>1. records'[p] = Acknowledged(records[p], run[p].change)
      BY <1>22 DEF Acknowledge, TypeOK
    <2> QED BY <1>22, <2>1 DEF Acknowledge, Acknowledged
  <1>23. CASE Unpin(p)
    BY <1>23 DEF Unpin
  <1>24. CASE CallFails(p)
    BY <1>24 DEF CallFails
  <1>25. CASE Pause(p)
    BY <1>25 DEF Pause
  <1>26. CASE CallOutlived(p)
    BY <1>26 DEF CallOutlived
  <1> QED
    BY <1>1, <1>2, <1>3, <1>4, <1>5, <1>6, <1>7, <1>8, <1>9, <1>10, <1>11, <1>12,
         <1>13, <1>14, <1>15, <1>16, <1>17, <1>18, <1>19, <1>20, <1>21, <1>22,
         <1>23, <1>24, <1>25, <1>26
    DEF LaneStep, PassStep, LaneFault

\* The inductive invariant behind type correctness.
TypedRuns == TypeOK /\ \A p \in Peers : RunShape(p)

(* TypedRuns holds initially and every step keeps it. *)
LEMMA TypedRunsInductive ==
    /\ Init => TypedRuns
    /\ TypedRuns /\ [Next]_vars => TypedRuns'
  <1>1. Init => TypedRuns
    BY InitTypeOK DEF Init, Booted, TypedRuns, RunShape, Carrying
  <1>2. ASSUME TypedRuns, [Next]_vars PROVE TypedRuns'
    <2>1. TypeOK /\ TypeOK'
      BY <1>2, NextTypeOK DEF TypedRuns
    <2>2. ASSUME NEW p \in Peers PROVE RunShape(p)'
      <3>1. RunShape(p)
        BY <1>2 DEF TypedRuns
      <3>2. CASE Advance \/ Restore \/ Upgrade \/ CalmDown \/ UNCHANGED vars
        BY <3>1, <3>2 DEF Advance, Restore, Upgrade, CalmDown, vars, storeVars, laneVars, RunShape
      <3>3. CASE Crash
        BY <3>3 DEF Crash, RunShape, Carrying
      <3>4. ASSUME NEW q \in Peers, LaneStep(q) PROVE RunShape(p)'
        <4>1. CASE q = p
          BY <2>1, <3>1, <3>4, <4>1, LaneRunShape
        <4>2. CASE q # p
          <5>1. LaneKept(p)
            BY <2>1, <3>4, <4>2, OtherLanes
          <5> QED BY <3>1, <5>1 DEF LaneKept, RunShape
        <4> QED BY <4>1, <4>2
      <3> QED BY <1>2, <3>2, <3>3, <3>4 DEF Next, LaneStep
    <2> QED BY <2>1, <2>2 DEF TypedRuns
  <1> QED BY <1>1, <1>2

(* The program's state is well typed at all times: every envelope that is
   staged, delivered or recorded is one ChangeEnvelope.Validate accepts. *)
THEOREM TypeCorrect == Spec => []TypeOK
  <1>1. Spec => []TypedRuns
    BY TypedRunsInductive, PTL DEF Spec
  <1>2. TypedRuns => TypeOK
    BY DEF TypedRuns
  <1> QED BY <1>1, <1>2, PTL

-----------------------------------------------------------------------------
(***************************************************************************)
(* The safety invariants of module Delivery, proved for every set of peers *)
(* and every bound.  Each part of the inductive invariant says what the    *)
(* program counter of a pass knows about the durable state, about the peer *)
(* and about what the lane remembers.                                      *)
(***************************************************************************)

\* The part of a pass whose artifact runs have their pins settled.
Pinned == {"gate", "transfer", "sent", "progress", "apply", "full", "ack"}

Delivering == Carrying \cup {"repin", "union", "stage", "unpin"}

\* Nothing refers to a revision the source has not published.
Published(p) ==
    /\ held[p].src <= tip
    /\ records[p].pending.src <= tip
    /\ run[p].change.src <= tip
    /\ \A c \in late[p] : c.src <= tip

\* A reply that let the pass acknowledge still holds of the peer.
AckGrounded(p) ==
    /\ records[p].acked <= held[p].src
    /\ records[p].ackedAs # NoChange /\ held[p].src = records[p].acked =>
          Digest(held[p]) = Digest(records[p].ackedAs)
    /\ pc[p] = "ack" =>
          /\ run[p].change.src <= held[p].src
          /\ held[p].src = run[p].change.src => Digest(held[p]) = Digest(run[p].change)

\* The owner pins the pending roots, and the roots about to be staged.
RootsCovered(p) ==
    /\ records[p].pending.roots \subseteq pins[p]
    /\ pc[p] = "stage" /\ run[p].arts => run[p].change.roots \subseteq pins[p]
    /\ pc[p] \in {"union", "stage"} /\ ~run[p].arts => run[p].change.roots = {}

\* What the lane remembers of its pins is true.
PinsRemembered(p) ==
    /\ settled[p] /\ pinnedFor[p] = records[p].pending => pins[p] = pinnedFor[p].roots
    /\ run[p].arts => artifacts
    /\ ~artifacts => ~settled[p] /\ pins[p] = {}
    /\ pc[p] \in Delivering /\ ~run[p].arts => ~settled[p] /\ pins[p] = {}
    /\ pc[p] \in {"stage", "pin", "unpin"} /\ run[p].arts => ~settled[p]
    /\ pc[p] \in Pinned /\ run[p].arts => settled[p] /\ pinnedFor[p] = run[p].change

\* A kick that no pass has cleaned keeps the worker going.
KickKept(p) ==
    /\ pc[p] = "boot" => dirty[p]
    /\ pc[p] \notin {"idle", "clean"} /\ dirty[p] => kick[p]
    /\ pc[p] = "idle" /\ dirty[p] => kick[p] \/ arm[p] # "none"

\* A pass that no kick has overtaken delivers the current revision.
PassCurrent(p) ==
    ~dirty[p] /\ ~owed[p] =>
        /\ pc[p] \in Carrying \cup {"union", "stage"} => run[p].change.src >= rev
        /\ pc[p] = "repin" => IF run[p].change = NoChange THEN records[p].acked >= rev
                                                          ELSE run[p].change.src >= rev
        /\ pc[p] = "unpin" => records[p].acked >= rev
        /\ pc[p] = "idle" /\ status[p] = "idle" =>
              /\ records[p].acked >= rev
              /\ records[p].pending = NoChange
              /\ pins[p] = {}

LaneInv(p) ==
    /\ Readable(records[p])
    /\ Published(p)
    /\ AckGrounded(p)
    /\ RootsCovered(p)
    /\ PinsRemembered(p)
    /\ KickKept(p)
    /\ PassCurrent(p)

IndInv == TypedRuns /\ PendingIsOnDisk /\ \A p \in Peers : LaneInv(p)

-----------------------------------------------------------------------------
(***************************************************************************)
(* What the steps that write a record or a receipt do.                     *)
(***************************************************************************)
(* The fence lets a receipt move only to a later revision, and only a receipt
   of the very payload of a change acknowledges it. *)
LEMMA FenceAnswers ==
    ASSUME NEW h \in Maybe, NEW c \in Maybe, NEW roots
    PROVE  /\ ApplyResult(h, roots, c) = "applied" => c.src > h.src
           /\ ApplyResult(h, roots, c) = "acked" => h.src = c.src /\ Digest(h) = Digest(c)
  BY ChangeFields DEF ApplyResult, Fence, Digest

(* When a peer executes a call it keeps its receipt or takes the change. *)
LEMMA HeldEffect ==
    ASSUME TypeOK, NEW p \in Peers, NEW c \in Maybe, PeerApplies(p, c)
    PROVE  \/ held'[p] = held[p] /\ ApplyResult(held[p], has[p], c) # "applied"
           \/ held'[p] = c /\ c.src > held[p].src
  BY RunFields, FenceAnswers DEF PeerApplies, TypeOK

(* A successful or torn stage replaces the pending change by a later one. *)
LEMMA StageEffect ==
    ASSUME TypeOK, NEW p \in Peers, RunShape(p), Stage(p) \/ StageTorn(p)
    PROVE  /\ run[p].change \in Change
           /\ run[p].change.src > records[p].acked
           /\ run[p].expected = records[p].pending
           /\ records'[p].acked = records[p].acked
           /\ records'[p].ackedAs = records[p].ackedAs
           /\ records'[p].pending \in {records[p].pending, run[p].change}
           /\ Stage(p) => records'[p].pending = run[p].change
           /\ records[p].pending # NoChange =>
                 run[p].change.kind = "snapshot" /\ run[p].change.src >= records[p].pending.src
  <1>1. run[p].change \in Change /\ records[p] \in Record
    BY RunFields DEF RunShape, Stage, StageTorn
  <1>2. Staged(records[p], run[p].change) =
           [acked |-> records[p].acked, ackedAs |-> records[p].ackedAs, pending |-> run[p].change]
    BY <1>1, RecordTypes
  <1>3. \/ records'[p] = Staged(records[p], run[p].change)
        \/ records'[p] = records[p] /\ StageTorn(p)
    BY DEF Stage, StageTorn, TypeOK
  <1>4. Stage(p) => records'[p] = Staged(records[p], run[p].change)
    BY DEF Stage, TypeOK
  <1>5. MayStage(records[p], run[p].expected, run[p].change)
    BY DEF Stage, StageTorn
  <1>6. run[p].change.src \in Nat /\ records[p].pending.src \in Nat
    BY RunFields, ChangeFields
  <1> QED BY <1>1, <1>2, <1>3, <1>4, <1>5, <1>6 DEF MayStage

(* An acknowledgement records the change of the run and clears it. *)
LEMMA AckEffect ==
    ASSUME TypeOK, NEW p \in Peers, RunShape(p), Readable(records[p]), Acknowledge(p)
    PROVE  /\ records[p].pending = run[p].change /\ run[p].change \in Change
           /\ run[p].change.src > records[p].acked
           /\ records'[p].acked = run[p].change.src
           /\ records'[p].ackedAs = run[p].change
           /\ records'[p].pending = NoChange
  <1>1. records[p].pending = run[p].change /\ run[p].change \in Change
    BY DEF Acknowledge, RunShape, Carrying
  <1>2. run[p].change.src > records[p].acked
    BY <1>1, NoChangeIsNone DEF Readable
  <1>3. records'[p] = Acknowledged(records[p], run[p].change)
    BY DEF Acknowledge, TypeOK
  <1> QED BY <1>1, <1>2, <1>3 DEF Acknowledged

\* The steps that leave the record of their lane alone.
RecordKept(p) == records'[p] = records[p]

(* Only stage and acknowledge write a lane's record. *)
LEMMA RecordWriters ==
    ASSUME TypeOK, NEW p \in Peers, LaneStep(p), ~Stage(p), ~StageTorn(p), ~Acknowledge(p)
    PROVE  RecordKept(p)
  <1> USE DEF RecordKept, storeVars
  <1>1. CASE Kick(p)
    BY <1>1 DEF Kick
  <1>2. CASE ReceiveKick(p)
    BY <1>2 DEF ReceiveKick
  <1>3. CASE Fire(p)
    BY <1>3 DEF Fire
  <1>4. CASE LateApply(p)
    BY <1>4 DEF LateApply
  <1>5. CASE PeerDropsRoot(p)
    BY <1>5 DEF PeerDropsRoot
  <1>6. CASE Detect(p)
    BY <1>6 DEF Detect
  <1>7. CASE Clean(p)
    BY <1>7 DEF Clean
  <1>8. CASE Prepare(p)
    BY <1>8 DEF Prepare
  <1>9. CASE Repin(p)
    BY <1>9 DEF Repin
  <1>10. CASE Union(p)
    BY <1>10 DEF Union
  <1>11. CASE StageRefused(p)
    BY <1>11 DEF StageRefused
  <1>12. CASE Pin(p)
    BY <1>12 DEF Pin
  <1>13. CASE Gate(p)
    BY <1>13 DEF Gate
  <1>14. CASE SendBatch(p)
    BY <1>14 DEF SendBatch, Abandon
  <1>15. CASE BatchSent(p)
    BY <1>15 DEF BatchSent, Abandon
  <1>16. CASE TransferDone(p)
    BY <1>16 DEF TransferDone
  <1>17. CASE Progress(p)
    BY <1>17 DEF Progress
  <1>18. CASE Apply(p)
    BY <1>18 DEF Apply
  <1>19. CASE ExportFull(p)
    BY <1>19 DEF ExportFull
  <1>20. CASE Unpin(p)
    BY <1>20 DEF Unpin
  <1>21. CASE CallFails(p)
    BY <1>21 DEF CallFails
  <1>22. CASE Pause(p)
    BY <1>22 DEF Pause
  <1>23. CASE CallOutlived(p)
    BY <1>23 DEF CallOutlived
  <1> QED
    BY <1>1, <1>2, <1>3, <1>4, <1>5, <1>6, <1>7, <1>8, <1>9, <1>10, <1>11, <1>12,
         <1>13, <1>14, <1>15, <1>16, <1>17, <1>18, <1>19, <1>20, <1>21, <1>22,
         <1>23
    DEF LaneStep, PassStep, LaneFault

(* Only an executed apply call moves a receipt, and only to a later revision
   that the source has published. *)
LEMMA HeldGrows ==
    ASSUME TypeOK, NEW p \in Peers, RunShape(p), Published(p), LaneStep(p)
    PROVE  \/ held'[p] = held[p]
           \/ held'[p] \in Change /\ held'[p].src > held[p].src /\ held'[p].src <= tip
  <1>1. CASE Progress(p) \/ Apply(p)
    <2>1. run[p].change \in Change /\ run[p].change.src <= tip
      BY <1>1 DEF Progress, Apply, RunShape, Carrying, Published
    <2> QED BY <1>1, <2>1, HeldEffect DEF Progress, Apply, Maybe
  <1>2. CASE LateApply(p)
    <2>1. PICK c \in late[p] : PeerApplies(p, c)
      BY <1>2 DEF LateApply
    <2>2. c \in Change /\ c.src <= tip
      BY DEF TypeOK, Published
    <2> QED BY <2>1, <2>2, HeldEffect DEF Maybe
  <1>3. CASE ~Progress(p) /\ ~Apply(p) /\ ~LateApply(p)
    <2> USE DEF peerVars
    <2>1. CASE Kick(p)
      BY <2>1 DEF Kick
    <2>2. CASE ReceiveKick(p)
      BY <2>2 DEF ReceiveKick
    <2>3. CASE Fire(p)
      BY <2>3 DEF Fire
    <2>4. CASE PeerDropsRoot(p)
      BY <2>4 DEF PeerDropsRoot
    <2>5. CASE Detect(p)
      BY <2>5 DEF Detect
    <2>6. CASE Clean(p)
      BY <2>6 DEF Clean
    <2>7. CASE Prepare(p)
      BY <2>7 DEF Prepare
    <2>8. CASE Repin(p)
      BY <2>8 DEF Repin
    <2>9. CASE Union(p)
      BY <2>9 DEF Union
    <2>10. CASE Stage(p)
      BY <2>10 DEF Stage
    <2>11. CASE StageRefused(p)
      BY <2>11 DEF StageRefused
    <2>12. CASE StageTorn(p)
      BY <2>12 DEF StageTorn
    <2>13. CASE Pin(p)
      BY <2>13 DEF Pin
    <2>14. CASE Gate(p)
      BY <2>14 DEF Gate
    <2>15. CASE SendBatch(p)
      BY <2>15 DEF SendBatch, Abandon
    <2>16. CASE BatchSent(p)
      BY <2>16 DEF BatchSent, Abandon
    <2>17. CASE TransferDone(p)
      BY <2>17 DEF TransferDone
    <2>18. CASE ExportFull(p)
      BY <2>18 DEF ExportFull
    <2>19. CASE Acknowledge(p)
      BY <2>19 DEF Acknowledge
    <2>20. CASE Unpin(p)
      BY <2>20 DEF Unpin
    <2>21. CASE CallFails(p)
      BY <2>21 DEF CallFails
    <2>22. CASE Pause(p)
      BY <2>22 DEF Pause
    <2>23. CASE CallOutlived(p)
      BY <2>23 DEF CallOutlived
    <2> QED
      BY <1>3, <2>1, <2>2, <2>3, <2>4, <2>5, <2>6, <2>7, <2>8, <2>9, <2>10, <2>11,
           <2>12, <2>13, <2>14, <2>15, <2>16, <2>17, <2>18, <2>19,
           <2>20, <2>21, <2>22, <2>23
      DEF LaneStep, PassStep, LaneFault
  <1> QED BY <1>1, <1>2, <1>3

-----------------------------------------------------------------------------
(***************************************************************************)
(* Each part of the lane invariant is kept by the lane's own steps.        *)
(***************************************************************************)
(* Records stay readable. *)
LEMMA LaneReadable ==
    ASSUME TypeOK, NEW p \in Peers, RunShape(p), Readable(records[p]), LaneStep(p)
    PROVE  Readable(records'[p])
  <1>1. CASE Stage(p) \/ StageTorn(p)
    BY <1>1, StageEffect DEF Readable
  <1>2. CASE Acknowledge(p)
    BY <1>2, AckEffect DEF Readable
  <1> QED BY <1>1, <1>2, RecordWriters DEF RecordKept

(* No lane step refers to an unpublished revision. *)
LEMMA LanePublished ==
    ASSUME TypeOK, NEW p \in Peers, RunShape(p), Readable(records[p]), Published(p), LaneStep(p)
    PROVE  Published(p)'
  <1>0. /\ tip' = tip /\ tip \in Nat /\ rev \in Nat /\ rev <= tip
        /\ run[p].change \in Maybe /\ run[p].change.src \in Nat
        /\ NoRun.change.src = 0 /\ NoChange.src = 0
    BY OtherLanes, RunFields, ChangeFields, BoundsAssumption DEF sourceVars, TypeOK, NoRun, NoChange
  <1>1. records'[p].pending.src <= tip
    <2>1. CASE Stage(p) \/ StageTorn(p)
      BY <2>1, StageEffect DEF Published
    <2>2. CASE Acknowledge(p)
      BY <1>0, <2>2, AckEffect
    <2> QED BY <2>1, <2>2, RecordWriters DEF RecordKept, Published
  <1>2. held'[p].src <= tip
    BY HeldGrows DEF Published
  <1>3. \A c \in late'[p] : c.src <= tip
    <2>1. CASE CallOutlived(p)
      BY <2>1 DEF CallOutlived, InFlight, Published, TypeOK
    <2>2. CASE LateApply(p)
      BY <2>2 DEF LateApply, Published, TypeOK
    <2>3. CASE ~CallOutlived(p) /\ ~LateApply(p)
      <3>1. late' = late
        <4> USE DEF peerVars
        <4>1. CASE Kick(p)
          BY <4>1 DEF Kick
        <4>2. CASE ReceiveKick(p)
          BY <4>2 DEF ReceiveKick
        <4>3. CASE Fire(p)
          BY <4>3 DEF Fire
        <4>4. CASE PeerDropsRoot(p)
          BY <4>4 DEF PeerDropsRoot
        <4>5. CASE Detect(p)
          BY <4>5 DEF Detect
        <4>6. CASE Clean(p)
          BY <4>6 DEF Clean
        <4>7. CASE Prepare(p)
          BY <4>7 DEF Prepare
        <4>8. CASE Repin(p)
          BY <4>8 DEF Repin
        <4>9. CASE Union(p)
          BY <4>9 DEF Union
        <4>10. CASE Stage(p)
          BY <4>10 DEF Stage
        <4>11. CASE StageRefused(p)
          BY <4>11 DEF StageRefused
        <4>12. CASE StageTorn(p)
          BY <4>12 DEF StageTorn
        <4>13. CASE Pin(p)
          BY <4>13 DEF Pin
        <4>14. CASE Gate(p)
          BY <4>14 DEF Gate
        <4>15. CASE SendBatch(p)
          BY <4>15 DEF SendBatch, Abandon
        <4>16. CASE BatchSent(p)
          BY <4>16 DEF BatchSent, Abandon
        <4>17. CASE TransferDone(p)
          BY <4>17 DEF TransferDone
        <4>18. CASE Progress(p)
          BY <4>18 DEF Progress
        <4>19. CASE Apply(p)
          BY <4>19 DEF Apply
        <4>20. CASE ExportFull(p)
          BY <4>20 DEF ExportFull
        <4>21. CASE Acknowledge(p)
          BY <4>21 DEF Acknowledge
        <4>22. CASE Unpin(p)
          BY <4>22 DEF Unpin
        <4>23. CASE CallFails(p)
          BY <4>23 DEF CallFails
        <4>24. CASE Pause(p)
          BY <4>24 DEF Pause
        <4> QED
          BY <2>3, <4>1, <4>2, <4>3, <4>4, <4>5, <4>6, <4>7, <4>8, <4>9, <4>10, <4>11,
               <4>12, <4>13, <4>14, <4>15, <4>16, <4>17, <4>18, <4>19,
               <4>20, <4>21, <4>22, <4>23, <4>24
          DEF LaneStep, PassStep, LaneFault
      <3> QED BY <3>1 DEF Published
    <2> QED BY <2>1, <2>2, <2>3
  <1>4. run'[p].change.src <= tip
    <2> USE <1>0, GoEffect, RunFields DEF Published
    <2>1. CASE Kick(p)
      BY <2>1 DEF Kick, laneVars
    <2>2. CASE ReceiveKick(p)
      BY <2>2 DEF ReceiveKick
    <2>3. CASE Fire(p)
      BY <2>3 DEF Fire
    <2>4. CASE LateApply(p)
      BY <2>4 DEF LateApply, laneVars
    <2>5. CASE PeerDropsRoot(p)
      BY <2>5 DEF PeerDropsRoot, laneVars
    <2>6. CASE Detect(p)
      BY <2>6 DEF Detect
    <2>7. CASE Clean(p)
      BY <2>7 DEF Clean
    <2>8. CASE Prepare(p)
      <3>1. CASE GoWith(p, "repin", NewRun(records[p].pending, NoChange))
        BY <3>1 DEF NewRun
      <3>2. ASSUME NEW c \in Exports(artifacts, records[p].acked) \cup {FullExport(artifacts)},
                   GoWith(p, "union", NewRun(c, records[p].pending))
            PROVE  run'[p].change.src <= tip
        <4>1. c.src = rev
          BY ExportIsChange DEF TypeOK
        <4> QED BY <1>0, <3>2, <4>1 DEF NewRun
      <3> QED BY <1>0, <2>8, <3>1, <3>2 DEF Prepare
    <2>9. CASE Repin(p)
      BY <2>9 DEF Repin
    <2>10. CASE Union(p)
      BY <2>10 DEF Union
    <2>11. CASE Stage(p)
      BY <2>11 DEF Stage
    <2>12. CASE StageRefused(p)
      BY <2>12 DEF StageRefused
    <2>13. CASE StageTorn(p)
      BY <2>13 DEF StageTorn
    <2>14. CASE Pin(p)
      BY <2>14 DEF Pin
    <2>15. CASE Gate(p)
      BY <2>15 DEF Gate
    <2>16. CASE SendBatch(p)
      BY <2>16 DEF SendBatch, Abandon, Run
    <2>17. CASE BatchSent(p)
      BY <2>17 DEF BatchSent, Abandon
    <2>18. CASE TransferDone(p)
      BY <2>18 DEF TransferDone
    <2>19. CASE Progress(p)
      BY <2>19 DEF Progress
    <2>20. CASE Apply(p)
      BY <2>20 DEF Apply
    <2>21. CASE ExportFull(p)
      <3>1. FullExport(run[p].arts).src = rev
        BY ExportIsChange, RunFields
      <3>2. run'[p].change = FullExport(run[p].arts)
        BY <2>21 DEF ExportFull, Run
      <3> QED BY <1>0, <3>1, <3>2
    <2>22. CASE Acknowledge(p)
      BY <2>22 DEF Acknowledge
    <2>23. CASE Unpin(p)
      BY <2>23 DEF Unpin
    <2>24. CASE CallFails(p)
      BY <2>24 DEF CallFails
    <2>25. CASE Pause(p)
      BY <2>25 DEF Pause
    <2>26. CASE CallOutlived(p)
      BY <2>26 DEF CallOutlived
    <2> QED
      BY <2>1, <2>2, <2>3, <2>4, <2>5, <2>6, <2>7, <2>8, <2>9, <2>10, <2>11,
           <2>12, <2>13, <2>14, <2>15, <2>16, <2>17, <2>18, <2>19,
           <2>20, <2>21, <2>22, <2>23, <2>24, <2>25, <2>26
      DEF LaneStep, PassStep, LaneFault
  <1> QED BY <1>0, <1>1, <1>2, <1>3, <1>4 DEF Published

(* What a record acknowledges stays true of the peer. *)
LEMMA LaneAckGrounded ==
    ASSUME TypeOK, NEW p \in Peers, RunShape(p), Readable(records[p]), Published(p),
           AckGrounded(p), LaneStep(p)
    PROVE  AckGrounded(p)'
  <1>0. /\ held[p].src \in Nat /\ run[p].change \in Maybe /\ run[p].change.src \in Nat
        /\ records[p].acked \in Nat
    BY RunFields, ChangeFields
  <1>1. \/ held'[p] = held[p]
        \/ held'[p].src \in Nat /\ held'[p].src > held[p].src
    BY HeldGrows, ChangeFields DEF Maybe
  <1>2. /\ records'[p].acked <= held'[p].src
        /\ records'[p].ackedAs # NoChange /\ held'[p].src = records'[p].acked =>
              Digest(held'[p]) = Digest(records'[p].ackedAs)
    <2>1. CASE Stage(p) \/ StageTorn(p)
      BY <1>0, <1>1, <2>1, StageEffect DEF AckGrounded
    <2>2. CASE Acknowledge(p)
      <3>1. /\ records'[p].acked = run[p].change.src
            /\ records'[p].ackedAs = run[p].change
        BY <2>2, AckEffect
      <3>2. pc[p] = "ack"
        BY <2>2 DEF Acknowledge
      <3> QED BY <1>0, <1>1, <3>1, <3>2 DEF AckGrounded
    <2> QED BY <1>0, <1>1, <2>1, <2>2, RecordWriters DEF RecordKept, AckGrounded
  <1>3. ASSUME pc'[p] = "ack"
        PROVE  /\ run'[p].change.src <= held'[p].src
               /\ held'[p].src = run'[p].change.src => Digest(held'[p]) = Digest(run'[p].change)
    <2>1. \/ pc[p] = "ack" /\ run'[p] = run[p]
          \/ Apply(p) /\ run'[p] = run[p] /\
             ApplyResult(held[p], has[p], run[p].change) \in {"applied", "acked"}
      <3> USE <1>3, GoEffect DEF laneVars
      <3>1. CASE Kick(p)
        BY <3>1 DEF Kick
      <3>2. CASE ReceiveKick(p)
        BY <3>2 DEF ReceiveKick
      <3>3. CASE Fire(p)
        BY <3>3 DEF Fire, TypeOK
      <3>4. CASE LateApply(p)
        BY <3>4 DEF LateApply
      <3>5. CASE PeerDropsRoot(p)
        BY <3>5 DEF PeerDropsRoot
      <3>6. CASE Detect(p)
        BY <3>6 DEF Detect
      <3>7. CASE Clean(p)
        BY <3>7 DEF Clean
      <3>8. CASE Prepare(p)
        BY <3>8 DEF Prepare
      <3>9. CASE Repin(p)
        BY <3>9 DEF Repin, AfterStaging
      <3>10. CASE Union(p)
        BY <3>10 DEF Union
      <3>11. CASE Stage(p)
        BY <3>11 DEF Stage, AfterStaging
      <3>12. CASE StageRefused(p)
        BY <3>12 DEF StageRefused
      <3>13. CASE StageTorn(p)
        BY <3>13 DEF StageTorn
      <3>14. CASE Pin(p)
        BY <3>14 DEF Pin, AfterStaging
      <3>15. CASE Gate(p)
        BY <3>15 DEF Gate
      <3>16. CASE SendBatch(p)
        BY <3>16 DEF SendBatch, Abandon
      <3>17. CASE BatchSent(p)
        BY <3>17 DEF BatchSent, Abandon
      <3>18. CASE TransferDone(p)
        BY <3>18 DEF TransferDone
      <3>19. CASE Progress(p)
        BY <3>19 DEF Progress
      <3>20. CASE Apply(p)
        BY <3>20 DEF Apply
      <3>21. CASE ExportFull(p)
        BY <3>21 DEF ExportFull
      <3>22. CASE Acknowledge(p)
        BY <3>22 DEF Acknowledge
      <3>23. CASE Unpin(p)
        BY <3>23 DEF Unpin
      <3>24. CASE CallFails(p)
        BY <3>24 DEF CallFails
      <3>25. CASE Pause(p)
        BY <3>25 DEF Pause
      <3>26. CASE CallOutlived(p)
        BY <3>26 DEF CallOutlived
      <3> QED
        BY <3>1, <3>2, <3>3, <3>4, <3>5, <3>6, <3>7, <3>8, <3>9, <3>10, <3>11,
             <3>12, <3>13, <3>14, <3>15, <3>16, <3>17, <3>18, <3>19,
             <3>20, <3>21, <3>22, <3>23, <3>24, <3>25, <3>26
        DEF LaneStep, PassStep, LaneFault
    <2>2. CASE pc[p] = "ack" /\ run'[p] = run[p]
      BY <1>0, <1>1, <2>2 DEF AckGrounded
    <2>3. CASE Apply(p) /\ run'[p] = run[p] /\
               ApplyResult(held[p], has[p], run[p].change) \in {"applied", "acked"}
      <3>1. PeerApplies(p, run[p].change) /\ held[p] \in Maybe
        BY <2>3, RunFields DEF Apply
      <3>2. CASE ApplyResult(held[p], has[p], run[p].change) = "applied"
        BY <1>0, <2>3, <3>1, <3>2, HeldEffect
      <3>3. CASE ApplyResult(held[p], has[p], run[p].change) = "acked"
        BY <1>0, <2>3, <3>1, <3>3, FenceAnswers DEF PeerApplies
      <3> QED BY <2>3, <3>2, <3>3
    <2> QED BY <2>1, <2>2, <2>3
  <1> QED BY <1>2, <1>3 DEF AckGrounded

(* The owner's pins cover the pending roots through a replacement. *)
LEMMA LaneRootsCovered ==
    ASSUME TypeOK, NEW p \in Peers, RunShape(p), Readable(records[p]), RootsCovered(p), LaneStep(p)
    PROVE  RootsCovered(p)'
  <1>0. run[p] \in Run /\ NoChange.roots = {}
    BY RunFields DEF NoChange
  <1> USE <1>0, GoEffect DEF RootsCovered, storeVars, laneVars
  <1>1. CASE Kick(p)
    BY <1>1 DEF Kick
  <1>2. CASE ReceiveKick(p)
    BY <1>2 DEF ReceiveKick
  <1>3. CASE Fire(p)
    BY <1>3 DEF Fire, TypeOK
  <1>4. CASE LateApply(p)
    BY <1>4 DEF LateApply
  <1>5. CASE PeerDropsRoot(p)
    BY <1>5 DEF PeerDropsRoot
  <1>6. CASE Detect(p)
    BY <1>6 DEF Detect
  <1>7. CASE Clean(p)
    BY <1>7 DEF Clean
  <1>8. CASE Prepare(p)
    <2>1. records'[p] = records[p] /\ pins' = pins
      BY <1>8 DEF Prepare
    <2>2. ASSUME NEW c \in Exports(artifacts, records[p].acked) \cup {FullExport(artifacts)},
                 GoWith(p, "union", NewRun(c, records[p].pending))
          PROVE  RootsCovered(p)'
      <3>1. ~artifacts => c.roots = {}
        BY ExportIsChange, RunFields DEF TypeOK
      <3> QED BY <2>1, <2>2, <3>1 DEF NewRun
    <2> QED BY <1>8, <2>1, <2>2 DEF Prepare
  <1>9. CASE Repin(p)
    BY <1>9 DEF Repin, RunShape, TypeOK, AfterStaging
  <1>10. CASE Union(p)
    BY <1>10 DEF Union, RunShape, TypeOK
  <1>11. CASE Stage(p)
    <2>0. records'[p].pending = run[p].change
      BY <1>11, StageEffect
    <2>1. pins' = pins /\ pc'[p] \notin {"union", "stage"}
      BY <1>11 DEF Stage, AfterStaging
    <2>2. run[p].change.roots \subseteq pins[p]
      BY <1>11 DEF Stage
    <2> QED BY <2>0, <2>1, <2>2
  <1>12. CASE StageRefused(p)
    BY <1>12 DEF StageRefused
  <1>13. CASE StageTorn(p)
    <2>1. /\ records'[p].pending \in {records[p].pending, run[p].change} /\ pins' = pins
          /\ pc'[p] = "idle"
      BY <1>13, StageEffect DEF StageTorn
    <2>2. run[p].change.roots \subseteq pins[p]
      BY <1>13 DEF StageTorn
    <2> QED BY <2>1, <2>2
  <1>14. CASE Pin(p)
    BY <1>14 DEF Pin, RunShape, Carrying, TypeOK, AfterStaging
  <1>15. CASE Gate(p)
    BY <1>15 DEF Gate
  <1>16. CASE SendBatch(p)
    BY <1>16 DEF SendBatch, Abandon
  <1>17. CASE BatchSent(p)
    BY <1>17 DEF BatchSent, Abandon
  <1>18. CASE TransferDone(p)
    BY <1>18 DEF TransferDone
  <1>19. CASE Progress(p)
    BY <1>19 DEF Progress
  <1>20. CASE Apply(p)
    BY <1>20 DEF Apply
  <1>21. CASE ExportFull(p)
    <2>1. ~run[p].arts => FullExport(run[p].arts).roots = {}
      BY ExportIsChange, RunFields
    <2>2. /\ run'[p].change = FullExport(run[p].arts) /\ run'[p].arts = run[p].arts
          /\ pc'[p] = "union" /\ records' = records /\ pins' = pins
      <3> DEFINE r == [run[p] EXCEPT !.change = FullExport(run[p].arts),
                                     !.expected = run[p].change, !.again = TRUE]
      <3>1. r.change = FullExport(run[p].arts) /\ r.arts = run[p].arts
        BY DEF Run
      <3>2. pc'[p] = "union" /\ run'[p] = r /\ records' = records /\ pins' = pins
        BY <1>21 DEF ExportFull
      <3> QED BY <3>1, <3>2
    <2> QED BY <2>1, <2>2
  <1>22. CASE Acknowledge(p)
    <2>1. records'[p].pending = NoChange /\ pc'[p] \in {"idle", "unpin"}
      BY <1>22, AckEffect DEF Acknowledge
    <2> QED BY <2>1
  <1>23. CASE Unpin(p)
    BY <1>23 DEF Unpin, RunShape, TypeOK
  <1>24. CASE CallFails(p)
    BY <1>24 DEF CallFails
  <1>25. CASE Pause(p)
    BY <1>25 DEF Pause
  <1>26. CASE CallOutlived(p)
    BY <1>26 DEF CallOutlived
  <1> QED
    BY <1>1, <1>2, <1>3, <1>4, <1>5, <1>6, <1>7, <1>8, <1>9, <1>10, <1>11, <1>12,
         <1>13, <1>14, <1>15, <1>16, <1>17, <1>18, <1>19, <1>20, <1>21, <1>22,
         <1>23, <1>24, <1>25, <1>26
    DEF LaneStep, PassStep, LaneFault

(* No step of a lane loses a kick. *)
LEMMA LaneKickKept ==
    ASSUME TypeOK, NEW p \in Peers, KickKept(p), LaneStep(p)
    PROVE  KickKept(p)'
  <1> USE GoEffect DEF KickKept, loopVars, restVars, laneVars, TypeOK
  <1>1. CASE Kick(p)
    BY <1>1 DEF Kick
  <1>2. CASE ReceiveKick(p)
    BY <1>2 DEF ReceiveKick
  <1>3. CASE Fire(p)
    BY <1>3 DEF Fire
  <1>4. CASE LateApply(p)
    BY <1>4 DEF LateApply
  <1>5. CASE PeerDropsRoot(p)
    BY <1>5 DEF PeerDropsRoot
  <1>6. CASE Detect(p)
    BY <1>6 DEF Detect
  <1>7. CASE Clean(p)
    BY <1>7 DEF Clean
  <1>8. CASE Prepare(p)
    BY <1>8 DEF Prepare
  <1>9. CASE Repin(p)
    BY <1>9 DEF Repin, AfterStaging
  <1>10. CASE Union(p)
    BY <1>10 DEF Union
  <1>11. CASE Stage(p)
    BY <1>11 DEF Stage, AfterStaging
  <1>12. CASE StageRefused(p)
    BY <1>12 DEF StageRefused
  <1>13. CASE StageTorn(p)
    BY <1>13 DEF StageTorn
  <1>14. CASE Pin(p)
    BY <1>14 DEF Pin, AfterStaging
  <1>15. CASE Gate(p)
    BY <1>15 DEF Gate
  <1>16. CASE SendBatch(p)
    BY <1>16 DEF SendBatch, Abandon
  <1>17. CASE BatchSent(p)
    BY <1>17 DEF BatchSent, Abandon
  <1>18. CASE TransferDone(p)
    BY <1>18 DEF TransferDone
  <1>19. CASE Progress(p)
    BY <1>19 DEF Progress
  <1>20. CASE Apply(p)
    BY <1>20 DEF Apply
  <1>21. CASE ExportFull(p)
    BY <1>21 DEF ExportFull
  <1>22. CASE Acknowledge(p)
    BY <1>22 DEF Acknowledge
  <1>23. CASE Unpin(p)
    BY <1>23 DEF Unpin
  <1>24. CASE CallFails(p)
    BY <1>24 DEF CallFails, Calls
  <1>25. CASE Pause(p)
    BY <1>25 DEF Pause
  <1>26. CASE CallOutlived(p)
    BY <1>26 DEF CallOutlived
  <1> QED
    BY <1>1, <1>2, <1>3, <1>4, <1>5, <1>6, <1>7, <1>8, <1>9, <1>10, <1>11, <1>12,
         <1>13, <1>14, <1>15, <1>16, <1>17, <1>18, <1>19, <1>20, <1>21, <1>22,
         <1>23, <1>24, <1>25, <1>26
    DEF LaneStep, PassStep, LaneFault

(* What a lane remembers of its pins stays true. *)
LEMMA LanePinsRemembered ==
    ASSUME TypeOK, NEW p \in Peers, RunShape(p), Readable(records[p]), RootsCovered(p),
           PinsRemembered(p), LaneStep(p)
    PROVE  PinsRemembered(p)'
  <1>0. /\ run[p] \in Run /\ NoChange.roots = {} /\ NoRun.arts = FALSE
        /\ artifacts' = artifacts /\ artifacts \in BOOLEAN
    BY RunFields, OtherLanes DEF NoChange, NoRun, sourceVars, TypeOK
  <1> USE <1>0, GoEffect
      DEF PinsRemembered, storeVars, laneVars, pinVars, Delivering, Carrying, Pinned
  <1>1. CASE Kick(p)
    BY <1>1 DEF Kick
  <1>2. CASE ReceiveKick(p)
    BY <1>2 DEF ReceiveKick
  <1>3. CASE Fire(p)
    BY <1>3 DEF Fire, TypeOK
  <1>4. CASE LateApply(p)
    BY <1>4 DEF LateApply
  <1>5. CASE PeerDropsRoot(p)
    BY <1>5 DEF PeerDropsRoot
  <1>6. CASE Detect(p)
    BY <1>6 DEF Detect
  <1>7. CASE Clean(p)
    BY <1>7 DEF Clean
  <1>8. CASE Prepare(p)
    <2>1. UNCHANGED <<records, pins, settled, pinnedFor>>
      BY <1>8 DEF Prepare
    <2>2. \/ pc'[p] = "idle" /\ run'[p] = NoRun
          \/ pc'[p] \in {"repin", "union"} /\ run'[p].arts = artifacts
      <3>1. \A c, e : NewRun(c, e).arts = artifacts
        BY DEF NewRun
      <3>2. \/ Fail(p)
            \/ \E l \in {"repin", "union"} : \E c, e : GoWith(p, l, NewRun(c, e))
        BY <1>8 DEF Prepare
      <3> QED BY <3>1, <3>2
    <2> QED BY <2>1, <2>2
  <1>9. CASE Repin(p)
    <2>1. run[p].change = records[p].pending /\ records' = records
      BY <1>9 DEF Repin, RunShape
    <2>2. \/ pc'[p] = "idle" /\ run'[p] = NoRun
          \/ pc'[p] \in {"apply", "gate", "transfer"} /\ run'[p] = run[p]
      BY <1>9 DEF Repin, AfterStaging
    <2>3. CASE ~run[p].arts
      BY <1>9, <2>1, <2>2, <2>3 DEF Repin
    <2>4. CASE run[p].arts /\ settled[p] /\ pinnedFor[p] = run[p].change
      BY <1>9, <2>1, <2>2, <2>4 DEF Repin
    <2>5. CASE run[p].arts /\ ~(settled[p] /\ pinnedFor[p] = run[p].change)
      BY <1>9, <2>1, <2>2, <2>5 DEF Repin, TypeOK
    <2> QED BY <2>3, <2>4, <2>5
  <1>10. CASE Union(p)
    <2>0. \/ pc'[p] = "idle" /\ run'[p] = NoRun
          \/ pc'[p] = "stage" /\ run'[p] = run[p]
      BY <1>10 DEF Union
    <2>1. records' = records /\ pinnedFor' = pinnedFor /\ pc[p] = "union"
      BY <1>10 DEF Union
    <2>2. run[p].arts => settled'[p] = FALSE
      BY <1>10 DEF Union, TypeOK
    <2>3. ~run[p].arts => settled' = settled /\ pins' = pins
      BY <1>10 DEF Union
    <2> QED BY <2>0, <2>1, <2>2, <2>3
  <1>11. CASE Stage(p)
    <2>1. ~settled[p] /\ UNCHANGED <<pins, settled, pinnedFor>>
      BY <1>11 DEF Stage
    <2>2. run'[p] = run[p] /\ pc'[p] = IF run[p].arts THEN "pin" ELSE "apply"
      BY <1>11 DEF Stage, AfterStaging
    <2> QED BY <1>11, <2>1, <2>2 DEF Stage
  <1>12. CASE StageRefused(p)
    BY <1>12 DEF StageRefused
  <1>13. CASE StageTorn(p)
    <2>1. ~settled[p] /\ UNCHANGED <<pins, settled, pinnedFor>>
      BY <1>13 DEF StageTorn
    <2>2. run'[p] = NoRun /\ pc'[p] = "idle"
      BY <1>13 DEF StageTorn
    <2> QED BY <2>1, <2>2
  <1>14. CASE Pin(p)
    <2>1. /\ run[p].arts /\ records' = records /\ run[p].change = records[p].pending
          /\ pins'[p] = run[p].change.roots
      BY <1>14 DEF Pin, RunShape, TypeOK
    <2>2. \/ /\ settled'[p] = TRUE /\ pinnedFor'[p] = run[p].change
             /\ pc'[p] \in {"gate", "transfer"} /\ run'[p] = run[p]
          \/ UNCHANGED pinVars /\ pc'[p] = "idle" /\ run'[p] = NoRun
      BY <1>14, <2>1 DEF Pin, AfterStaging, TypeOK
    <2> QED BY <1>14, <2>1, <2>2 DEF Pin
  <1>15. CASE Gate(p)
    BY <1>15 DEF Gate
  <1>16. CASE SendBatch(p)
    <2>1. UNCHANGED <<records, pins, settled, pinnedFor>>
      BY <1>16 DEF SendBatch, Abandon
    <2>2. \/ pc'[p] \in {"clean", "idle"} /\ run'[p] = NoRun
          \/ pc'[p] = "sent" /\ run'[p].arts = run[p].arts /\ run'[p].change = run[p].change
      BY <1>16 DEF SendBatch, Abandon, Run
    <2> QED BY <1>16, <2>1, <2>2 DEF SendBatch
  <1>17. CASE BatchSent(p)
    BY <1>17 DEF BatchSent, Abandon
  <1>18. CASE TransferDone(p)
    BY <1>18 DEF TransferDone
  <1>19. CASE Progress(p)
    BY <1>19 DEF Progress
  <1>20. CASE Apply(p)
    BY <1>20 DEF Apply
  <1>21. CASE ExportFull(p)
    <2>1. pc'[p] = "union" /\ UNCHANGED <<records, pins, settled, pinnedFor>>
      BY <1>21 DEF ExportFull
    <2>2. run'[p].arts = run[p].arts
      <3> DEFINE r == [run[p] EXCEPT !.change = FullExport(run[p].arts),
                                     !.expected = run[p].change, !.again = TRUE]
      <3>1. r.arts = run[p].arts
        BY DEF Run
      <3>2. run'[p] = r
        BY <1>21 DEF ExportFull
      <3> QED BY <3>1, <3>2
    <2> QED BY <1>21, <2>1, <2>2 DEF ExportFull
  <1>22. CASE Acknowledge(p)
    <2>1. /\ records'[p].pending = NoChange /\ run[p].change # NoChange
          /\ run[p].change = records[p].pending
      BY <1>22, AckEffect, NoChangeIsNone
    <2>2. UNCHANGED <<pins, pinnedFor>> /\ pc[p] = "ack"
      BY <1>22 DEF Acknowledge
    <2>3. \/ /\ pc'[p] = IF run[p].arts THEN "unpin" ELSE "idle"
             /\ settled'[p] = FALSE
             /\ run'[p] = IF run[p].arts THEN run[p] ELSE NoRun
          \/ pc'[p] = "idle" /\ settled' = settled /\ run'[p] = NoRun
      BY <1>22, <2>2 DEF Acknowledge, TypeOK
    <2> QED BY <2>1, <2>2, <2>3
  <1>23. CASE Unpin(p)
    <2>1. /\ records' = records /\ records[p].pending = NoChange /\ run[p].arts
          /\ pins'[p] = {} /\ pc'[p] = "idle" /\ run'[p] = NoRun
      BY <1>23 DEF Unpin, RunShape, TypeOK
    <2>2. \/ settled'[p] = TRUE /\ pinnedFor'[p] = NoChange
          \/ UNCHANGED pinVars
      BY <1>23 DEF Unpin, TypeOK
    <2> QED BY <1>23, <2>1, <2>2 DEF Unpin
  <1>24. CASE CallFails(p)
    <2>1. /\ UNCHANGED <<records, pins, pinnedFor>> /\ pc'[p] = "idle" /\ run'[p] = NoRun
          /\ settled'[p] \in {settled[p], FALSE}
      BY <1>24 DEF CallFails, TypeOK
    <2> QED BY <2>1
  <1>25. CASE Pause(p)
    BY <1>25 DEF Pause
  <1>26. CASE CallOutlived(p)
    BY <1>26 DEF CallOutlived
  <1> QED
    BY <1>1, <1>2, <1>3, <1>4, <1>5, <1>6, <1>7, <1>8, <1>9, <1>10, <1>11, <1>12,
         <1>13, <1>14, <1>15, <1>16, <1>17, <1>18, <1>19, <1>20, <1>21, <1>22,
         <1>23, <1>24, <1>25, <1>26
    DEF LaneStep, PassStep, LaneFault

(* A pass that no kick overtakes delivers the source's revision. *)
LEMMA LanePassCurrent ==
    ASSUME TypeOK, NEW p \in Peers, RunShape(p), Readable(records[p]), PinsRemembered(p),
           KickKept(p), PassCurrent(p), LaneStep(p)
    PROVE  PassCurrent(p)'
  <1>0. /\ run[p] \in Run /\ rev' = rev /\ rev \in Nat
        /\ run[p].change.src \in Nat /\ records[p].acked \in Nat
        /\ records[p].pending.src \in Nat
        /\ NoChange.roots = {} /\ NoChange.src = 0
    BY RunFields, ChangeFields, OtherLanes, BoundsAssumption DEF NoChange, sourceVars, TypeOK
  <1> USE <1>0, GoEffect
      DEF PassCurrent, storeVars, laneVars, loopVars, envVars, Carrying
  <1>1. CASE Kick(p)
    BY <1>1 DEF Kick, TypeOK
  <1>2. CASE ReceiveKick(p)
    BY <1>2 DEF ReceiveKick
  <1>3. CASE Fire(p)
    BY <1>3 DEF Fire, TypeOK
  <1>4. CASE LateApply(p)
    BY <1>4 DEF LateApply
  <1>5. CASE PeerDropsRoot(p)
    BY <1>5 DEF PeerDropsRoot
  <1>6. CASE Detect(p)
    BY <1>6 DEF Detect, KickKept
  <1>7. CASE Clean(p)
    BY <1>7 DEF Clean
  <1>8. CASE Prepare(p)
    <2>1. UNCHANGED <<records, pins, dirty, owed>>
      BY <1>8 DEF Prepare
    <2>2. CASE Fail(p)
      BY <2>1, <2>2
    <2>3. CASE rev = Floor(records[p]) /\ GoWith(p, "repin", NewRun(records[p].pending, NoChange))
      <3>1. IF records[p].pending = NoChange THEN records[p].acked >= rev
                                             ELSE records[p].pending.src >= rev
        BY <2>3 DEF Floor, Readable
      <3>2. pc'[p] = "repin" /\ run'[p].change = records[p].pending
        BY <2>3 DEF NewRun
      <3> QED BY <2>1, <3>1, <3>2
    <2>4. ASSUME NEW c \in Exports(artifacts, records[p].acked) \cup {FullExport(artifacts)},
                 GoWith(p, "union", NewRun(c, records[p].pending))
          PROVE  PassCurrent(p)'
      <3>1. c.src = rev
        BY ExportIsChange DEF TypeOK
      <3>2. pc'[p] = "union" /\ run'[p].change = c
        BY <2>4 DEF NewRun
      <3> QED BY <2>1, <3>1, <3>2
    <2> QED BY <1>8, <2>2, <2>3, <2>4 DEF Prepare
  <1>9. CASE Repin(p)
    <2>1. /\ UNCHANGED <<records, dirty, owed>> /\ run[p].change = records[p].pending
          /\ pc[p] = "repin"
      BY <1>9 DEF Repin, RunShape
    <2>2. CASE pc'[p] \in {"apply", "gate", "transfer"} /\ run'[p] = run[p] /\ run[p].change # NoChange
      BY <2>1, <2>2
    <2>3. CASE pc'[p] = "idle" /\ status'[p] = "idle" /\ run[p].change = NoChange
      <3>1. pins'[p] = {}
        BY <1>9, <2>1, <2>3 DEF Repin, PinsRemembered, Delivering, TypeOK
      <3> QED BY <2>1, <2>3, <3>1
    <2>4. CASE Fail(p)
      BY <2>4
    <2> QED BY <1>9, <2>2, <2>3, <2>4 DEF Repin, AfterStaging
  <1>10. CASE Union(p)
    BY <1>10 DEF Union
  <1>11. CASE Stage(p)
    <2>1. /\ UNCHANGED <<dirty, owed>> /\ pc[p] = "stage" /\ run'[p] = run[p]
          /\ pc'[p] \in {"pin", "apply", "gate", "transfer"}
      BY <1>11 DEF Stage, AfterStaging
    <2> QED BY <2>1
  <1>12. CASE StageRefused(p)
    BY <1>12 DEF StageRefused
  <1>13. CASE StageTorn(p)
    <2>1. pc'[p] = "idle" /\ status'[p] = "backoff"
      BY <1>13 DEF StageTorn
    <2> QED BY <2>1
  <1>14. CASE Pin(p)
    BY <1>14 DEF Pin, AfterStaging
  <1>15. CASE Gate(p)
    BY <1>15 DEF Gate
  <1>16. CASE SendBatch(p)
    <2>1. UNCHANGED <<records, pins, dirty, owed>> /\ pc[p] = "transfer"
      BY <1>16 DEF SendBatch, Abandon
    <2>2. \/ pc'[p] = "clean"
          \/ pc'[p] = "idle" /\ status'[p] = "backoff"
          \/ pc'[p] = "sent" /\ run'[p].change = run[p].change
      BY <1>16 DEF SendBatch, Abandon, Run
    <2> QED BY <2>1, <2>2
  <1>17. CASE BatchSent(p)
    BY <1>17 DEF BatchSent, Abandon
  <1>18. CASE TransferDone(p)
    BY <1>18 DEF TransferDone
  <1>19. CASE Progress(p)
    BY <1>19 DEF Progress
  <1>20. CASE Apply(p)
    BY <1>20 DEF Apply
  <1>21. CASE ExportFull(p)
    <2>1. UNCHANGED <<dirty, owed>> /\ pc'[p] = "union"
      BY <1>21 DEF ExportFull
    <2>2. FullExport(run[p].arts).src = rev
      BY ExportIsChange, RunFields
    <2>3. run'[p].change = FullExport(run[p].arts)
      BY <1>21 DEF ExportFull, Run
    <2> QED BY <2>1, <2>2, <2>3
  <1>22. CASE Acknowledge(p)
    <2>1. records'[p].acked = run[p].change.src /\ records'[p].pending = NoChange
      BY <1>22, AckEffect
    <2>2. UNCHANGED <<dirty, owed, pins>> /\ pc[p] = "ack"
      BY <1>22 DEF Acknowledge
    <2>3. \/ pc'[p] = "unpin"
          \/ ~run[p].arts /\ pc'[p] = "idle"
          \/ pc'[p] = "idle" /\ status'[p] = "backoff"
      BY <1>22 DEF Acknowledge
    <2>4. ~run[p].arts => pins[p] = {}
      BY <2>2 DEF PinsRemembered, Delivering
    <2> QED BY <2>1, <2>2, <2>3, <2>4
  <1>23. CASE Unpin(p)
    <2>1. /\ UNCHANGED <<records, dirty, owed>> /\ pc[p] = "unpin" /\ pc'[p] = "idle"
          /\ pins'[p] = {} /\ records[p].pending = NoChange
      BY <1>23 DEF Unpin, RunShape, TypeOK
    <2> QED BY <2>1
  <1>24. CASE CallFails(p)
    BY <1>24 DEF CallFails, Calls
  <1>25. CASE Pause(p)
    BY <1>25 DEF Pause
  <1>26. CASE CallOutlived(p)
    BY <1>26 DEF CallOutlived
  <1> QED
    BY <1>1, <1>2, <1>3, <1>4, <1>5, <1>6, <1>7, <1>8, <1>9, <1>10, <1>11, <1>12,
         <1>13, <1>14, <1>15, <1>16, <1>17, <1>18, <1>19, <1>20, <1>21, <1>22,
         <1>23, <1>24, <1>25, <1>26
    DEF LaneStep, PassStep, LaneFault

-----------------------------------------------------------------------------
(***************************************************************************)
(* The pending files, which the lanes share.                               *)
(***************************************************************************)
(* A sweep by any lane spares the files every record references. *)
LEMMA FilesKept ==
    ASSUME TypeOK, PendingIsOnDisk, NEW q \in Peers, RunShape(q), LaneStep(q)
    PROVE  PendingIsOnDisk'
  <1>0. DOMAIN records = Peers
    BY DEF TypeOK
  <1> USE <1>0 DEF PendingIsOnDisk, storeVars
  <1>1. CASE Kick(q)
    BY <1>1 DEF Kick
  <1>2. CASE ReceiveKick(q)
    BY <1>2 DEF ReceiveKick
  <1>3. CASE Fire(q)
    BY <1>3 DEF Fire
  <1>4. CASE LateApply(q)
    BY <1>4 DEF LateApply
  <1>5. CASE PeerDropsRoot(q)
    BY <1>5 DEF PeerDropsRoot
  <1>6. CASE Detect(q)
    BY <1>6 DEF Detect
  <1>7. CASE Clean(q)
    BY <1>7 DEF Clean
  <1>8. CASE Prepare(q)
    BY <1>8 DEF Prepare, Swept
  <1>9. CASE Repin(q)
    BY <1>9 DEF Repin
  <1>10. CASE Union(q)
    BY <1>10 DEF Union
  <1>11. CASE Stage(q)
    <2>1. ASSUME NEW p \in Peers, records'[p].pending # NoChange
          PROVE  records'[p].pending \in files'
      <3>1. records'[p].pending \in files \cup {run[q].change}
        <4>1. CASE p = q
          BY <1>11, <4>1, StageEffect
        <4>2. CASE p # q
          BY <1>11, <2>1, <4>2 DEF Stage, TypeOK
        <4> QED BY <4>1, <4>2
      <3>2. DOMAIN records' = Peers /\ files' = Swept(files \cup {run[q].change}, records')
        BY <1>11 DEF Stage
      <3> QED BY <3>1, <3>2 DEF Swept
    <2> QED BY <2>1
  <1>12. CASE StageRefused(q)
    BY <1>12 DEF StageRefused, Swept
  <1>13. CASE StageTorn(q)
    <2>1. ASSUME NEW p \in Peers, records'[p].pending # NoChange
          PROVE  records'[p].pending \in files'
      <3>1. files' = Swept(files, records) \cup {run[q].change}
        BY <1>13 DEF StageTorn
      <3>2. records'[p].pending \in {records[p].pending, run[q].change}
        <4>1. CASE p = q
          BY <1>13, <4>1, StageEffect
        <4>2. CASE p # q
          BY <1>13, <4>2 DEF StageTorn, TypeOK
        <4> QED BY <4>1, <4>2
      <3> QED BY <2>1, <3>1, <3>2 DEF Swept
    <2> QED BY <2>1
  <1>14. CASE Pin(q)
    BY <1>14 DEF Pin
  <1>15. CASE Gate(q)
    BY <1>15 DEF Gate
  <1>16. CASE SendBatch(q)
    BY <1>16 DEF SendBatch, Abandon
  <1>17. CASE BatchSent(q)
    BY <1>17 DEF BatchSent, Abandon
  <1>18. CASE TransferDone(q)
    BY <1>18 DEF TransferDone
  <1>19. CASE Progress(q)
    BY <1>19 DEF Progress
  <1>20. CASE Apply(q)
    BY <1>20 DEF Apply
  <1>21. CASE ExportFull(q)
    BY <1>21 DEF ExportFull
  <1>22. CASE Acknowledge(q)
    <2>1. ASSUME NEW p \in Peers, records'[p].pending # NoChange
          PROVE  records'[p].pending \in files'
      <3>1. p # q
        BY <1>22, <2>1 DEF Acknowledge, Acknowledged, TypeOK
      <3>2. records'[p] = records[p] /\ DOMAIN records' = Peers
        BY <1>22, <3>1 DEF Acknowledge, TypeOK
      <3>3. files' = Swept(files, records') \/ files' = Swept(files, records)
        BY <1>22 DEF Acknowledge
      <3> QED BY <2>1, <3>2, <3>3 DEF Swept
    <2> QED BY <2>1
  <1>23. CASE Unpin(q)
    BY <1>23 DEF Unpin
  <1>24. CASE CallFails(q)
    BY <1>24 DEF CallFails
  <1>25. CASE Pause(q)
    BY <1>25 DEF Pause
  <1>26. CASE CallOutlived(q)
    BY <1>26 DEF CallOutlived
  <1> QED
    BY <1>1, <1>2, <1>3, <1>4, <1>5, <1>6, <1>7, <1>8, <1>9, <1>10, <1>11, <1>12,
         <1>13, <1>14, <1>15, <1>16, <1>17, <1>18, <1>19, <1>20, <1>21, <1>22,
         <1>23, <1>24, <1>25, <1>26
    DEF LaneStep, PassStep, LaneFault

-----------------------------------------------------------------------------
(***************************************************************************)
(* The invariant is inductive.                                             *)
(***************************************************************************)
(* A lane keeps its invariant through its own steps. *)
LEMMA LaneInvKept ==
    ASSUME TypeOK, NEW p \in Peers, RunShape(p), LaneInv(p), LaneStep(p)
    PROVE  LaneInv(p)'
  BY LaneReadable, LanePublished, LaneAckGrounded, LaneRootsCovered, LanePinsRemembered,
     LaneKickKept, LanePassCurrent
  DEF LaneInv

(* A lane keeps its invariant through the steps of the others. *)
LEMMA LaneInvFramed ==
    ASSUME NEW p \in Peers, LaneInv(p), LaneKept(p), UNCHANGED sourceVars
    PROVE  LaneInv(p)'
  <1> USE DEF LaneInv, LaneKept, sourceVars
  <1>1. Readable(records'[p]) /\ Published(p)' /\ AckGrounded(p)'
    BY DEF Published, AckGrounded
  <1>2. RootsCovered(p)' /\ PinsRemembered(p)'
    BY DEF RootsCovered, PinsRemembered
  <1>3. KickKept(p)' /\ PassCurrent(p)'
    BY DEF KickKept, PassCurrent
  <1> QED BY <1>1, <1>2, <1>3

(* A lane keeps its invariant when the source or the environment moves. *)
LEMMA LaneInvSource ==
    ASSUME TypeOK, NEW p \in Peers, LaneInv(p), Advance \/ Restore \/ Upgrade \/ CalmDown
    PROVE  LaneInv(p)'
  <1>0. /\ UNCHANGED <<storeVars, laneVars, peerVars>>
        /\ tip \in Nat /\ tip' \in Nat /\ tip' >= tip
    <2>1. UNCHANGED <<storeVars, laneVars, peerVars>>
      BY DEF Advance, Restore, Upgrade, CalmDown
    <2>2. tip \in Nat /\ rev \in Nat
      BY BoundsAssumption DEF TypeOK
    <2>3. tip' = tip \/ tip' = IF rev + 1 > tip THEN rev + 1 ELSE tip
      BY DEF Advance, Restore, Upgrade, CalmDown, sourceVars
    <2> QED BY <2>1, <2>2, <2>3
  <1>1. /\ held[p].src \in Nat /\ records[p].pending.src \in Nat /\ run[p].change.src \in Nat
        /\ \A c \in late[p] : c.src \in Nat
    BY RunFields, ChangeFields DEF TypeOK, Maybe
  <1>2. Readable(records'[p]) /\ AckGrounded(p)' /\ RootsCovered(p)' /\ KickKept(p)'
    BY <1>0 DEF LaneInv, AckGrounded, RootsCovered, KickKept, storeVars, laneVars, peerVars
  <1>3. Published(p)'
    BY <1>0, <1>1 DEF LaneInv, Published, storeVars, laneVars, peerVars
  <1>4. PinsRemembered(p)'
    <2>1. artifacts' = artifacts \/ (~artifacts /\ artifacts')
      BY DEF Advance, Restore, Upgrade, CalmDown, sourceVars
    <2> QED BY <1>0, <2>1 DEF LaneInv, PinsRemembered, storeVars, laneVars
  <1>5. PassCurrent(p)'
    <2>1. CASE Advance \/ Restore
      BY <2>1 DEF Advance, Restore, PassCurrent
    <2>2. CASE Upgrade \/ CalmDown
      BY <2>2 DEF Upgrade, CalmDown, PassCurrent, LaneInv, sourceVars, storeVars, laneVars, envVars
    <2> QED BY <2>1, <2>2
  <1> QED BY <1>2, <1>3, <1>4, <1>5 DEF LaneInv

(* A crash forgets what the lane knew, and the invariant asks nothing of it. *)
LEMMA LaneInvCrash ==
    ASSUME TypeOK, NEW p \in Peers, RunShape(p), LaneInv(p), Crash
    PROVE  LaneInv(p)'
  <1>0. /\ pc'[p] = "boot" /\ run'[p] = NoRun /\ dirty'[p] /\ kick'[p] /\ ~settled'[p]
        /\ UNCHANGED <<sourceVars, records, pins, held>>
        /\ late'[p] \subseteq late[p] \cup {run[p].change}
        /\ NoRun.arts = FALSE /\ NoRun.change.src = 0 /\ tip \in Nat
    BY BoundsAssumption DEF Crash, storeVars, InFlight, NoRun, NoChange, TypeOK
  <1>1. Readable(records'[p]) /\ Published(p)' /\ AckGrounded(p)'
    BY <1>0 DEF LaneInv, Published, AckGrounded, sourceVars
  <1>2. RootsCovered(p)' /\ PinsRemembered(p)'
    BY <1>0 DEF LaneInv, RootsCovered, PinsRemembered, Delivering, Carrying, Pinned, sourceVars
  <1>3. KickKept(p)' /\ PassCurrent(p)'
    BY <1>0 DEF KickKept, PassCurrent
  <1> QED BY <1>1, <1>2, <1>3 DEF LaneInv

(* The initial states satisfy the invariant. *)
LEMMA InitIndInv == Init => IndInv
  <1> SUFFICES ASSUME Init PROVE IndInv
    OBVIOUS
  <1>1. TypedRuns /\ TypeOK
    BY TypedRunsInductive DEF TypedRuns
  <1>2. ASSUME NEW p \in Peers PROVE LaneInv(p)
    <2>1. /\ pc[p] = "boot" /\ run[p] = NoRun /\ dirty[p] /\ kick[p] /\ ~settled[p]
          /\ pins[p] = {} /\ late[p] = {} /\ tip = rev
          /\ NoRun.change.src = 0 /\ NoRun.arts = FALSE /\ NoChange.src = 0 /\ NoChange.roots = {}
          /\ rev \in Nat /\ tip \in Nat
      BY <1>1, BoundsAssumption DEF Init, Booted, NoRun, NoChange, TypeOK
    <2>2. FreshLane(records[p], held[p]) \/ MigratedLane(records[p], held[p])
      BY DEF Init
    <2>3. /\ records[p].pending = NoChange /\ records[p].ackedAs = NoChange
          /\ records[p].acked <= held[p].src
      <3>1. CASE FreshLane(records[p], held[p])
        BY <2>1, <3>1 DEF FreshLane, EmptyRecord
      <3>2. CASE MigratedLane(records[p], held[p])
        <4>1. PICK a \in 0..rev : records[p] = [EmptyRecord EXCEPT !.acked = a]
          BY <3>2 DEF MigratedLane
        <4>2. records[p].acked \in Nat /\ held[p].src \in Nat
          BY <1>1, RunFields, ChangeFields
        <4> QED BY <3>2, <4>1, <4>2 DEF MigratedLane, EmptyRecord
      <3> QED BY <2>2, <3>1, <3>2
    <2>4. held[p].src <= tip
      BY <2>1, <2>2, V1ReceiptIsChange DEF FreshLane, MigratedLane
    <2>5. Readable(records[p]) /\ Published(p) /\ AckGrounded(p)
      BY <2>1, <2>3, <2>4 DEF Readable, Published, AckGrounded
    <2>6. RootsCovered(p) /\ PinsRemembered(p)
      BY <2>1, <2>3 DEF RootsCovered, PinsRemembered, Delivering, Carrying, Pinned
    <2>7. KickKept(p) /\ PassCurrent(p)
      BY <2>1 DEF KickKept, PassCurrent
    <2> QED BY <2>5, <2>6, <2>7 DEF LaneInv
  <1>3. PendingIsOnDisk
    BY DEF Init, PendingIsOnDisk, EmptyRecord
  <1> QED BY <1>1, <1>2, <1>3 DEF IndInv

(* Every step keeps the invariant. *)
LEMMA NextIndInv ==
    ASSUME IndInv, [Next]_vars
    PROVE  IndInv'
  <1>0. TypeOK /\ TypedRuns'
    BY TypedRunsInductive DEF IndInv, TypedRuns
  <1>1. ASSUME NEW p \in Peers PROVE LaneInv(p)'
    <2>0. RunShape(p) /\ LaneInv(p)
      BY DEF IndInv, TypedRuns
    <2>1. CASE Advance \/ Restore \/ Upgrade \/ CalmDown
      BY <1>0, <2>0, <2>1, LaneInvSource
    <2>2. CASE Crash
      BY <1>0, <2>0, <2>2, LaneInvCrash
    <2>3. ASSUME NEW q \in Peers, LaneStep(q) PROVE LaneInv(p)'
      <3>1. CASE q = p
        BY <1>0, <2>0, <2>3, <3>1, LaneInvKept
      <3>2. CASE q # p
        BY <1>0, <2>0, <2>3, <3>2, OtherLanes, LaneInvFramed
      <3> QED BY <3>1, <3>2
    <2>4. CASE UNCHANGED vars
      <3>1. LaneKept(p) /\ UNCHANGED sourceVars
        BY <2>4 DEF vars, storeVars, laneVars, peerVars, envVars, LaneKept
      <3> QED BY <2>0, <3>1, LaneInvFramed
    <2> QED BY <2>1, <2>2, <2>3, <2>4 DEF Next, LaneStep
  <1>2. PendingIsOnDisk'
    <2>1. PendingIsOnDisk /\ \A q \in Peers : RunShape(q)
      BY DEF IndInv, TypedRuns
    <2>2. CASE Advance \/ Restore \/ Upgrade \/ CalmDown \/ Crash \/ UNCHANGED vars
      BY <2>1, <2>2 DEF Advance, Restore, Upgrade, CalmDown, Crash, vars, storeVars, PendingIsOnDisk
    <2>3. ASSUME NEW q \in Peers, LaneStep(q) PROVE PendingIsOnDisk'
      BY <1>0, <2>1, <2>3, FilesKept
    <2> QED BY <2>2, <2>3 DEF Next, LaneStep
  <1> QED BY <1>0, <1>1, <1>2 DEF IndInv

(* The inductive invariant holds at all times. *)
LEMMA Invariance == Spec => []IndInv
  BY InitIndInv, NextIndInv, PTL DEF Spec

-----------------------------------------------------------------------------
(***************************************************************************)
(* The theorems.                                                           *)
(***************************************************************************)
(* The delivery state file never becomes unreadable: no record has a pending
   change at or below its acked revision. *)
THEOREM RecordsStayReadable == Spec => []RecordsReadable
  <1>1. IndInv => RecordsReadable
    BY DEF IndInv, LaneInv, RecordsReadable
  <1> QED BY <1>1, Invariance, PTL

(* load never misses a file: what a record references is on disk, through
   torn writes, crashes and the sweeps of any number of lanes. *)
THEOREM PendingStaysOnDisk == Spec => []PendingIsOnDisk
  <1>1. IndInv => PendingIsOnDisk
    BY DEF IndInv
  <1> QED BY <1>1, Invariance, PTL

(* The artifact store may never collect a root of an undelivered change. *)
THEOREM RootsStayPinned == Spec => []PendingRootsPinned
  <1>1. IndInv => PendingRootsPinned
    BY DEF IndInv, LaneInv, RootsCovered, PendingRootsPinned
  <1> QED BY <1>1, Invariance, PTL

(* The PinsSet call that reconcilePins skips would have changed nothing. *)
THEOREM SkippedPinsAreExact == Spec => []SettledPinsAreExact
  <1>1. IndInv => SettledPinsAreExact
    BY DEF IndInv, LaneInv, PinsRemembered, SettledPinsAreExact
  <1> QED BY <1>1, Invariance, PTL

(* The acked revision is one the peer holds, on the acknowledged payload or
   past it, whatever calls were lost, repeated or executed late. *)
THEOREM AcksAreTrue == Spec => []AckedIsHeld
  <1>1. IndInv => AckedIsHeld
    BY DEF IndInv, LaneInv, AckGrounded, AckedIsHeld
  <1> QED BY <1>1, Invariance, PTL

(* WaitIdle's reading of an idle lane is right: everything it was kicked for
   is delivered, nothing is pending and nothing is pinned. *)
THEOREM IdleIsDelivered == Spec => []IdleMeansDelivered
  <1>1. IndInv => IdleMeansDelivered
    BY DEF IndInv, LaneInv, PassCurrent, IdleMeansDelivered
  <1> QED BY <1>1, Invariance, PTL

(* No wakeup is lost between the kick channel, the timers and a pass. *)
THEOREM NoLostWakeup == Spec => []DirtyLaneWillRun
  <1>1. IndInv => DirtyLaneWillRun
    BY DEF IndInv, LaneInv, KickKept, DirtyLaneWillRun
  <1> QED BY <1>1, Invariance, PTL

(* A pending change leaves its record only for a snapshot that covers it, or
   once the peer holds its revision. *)
THEOREM ChangesAreNotDropped == Spec => NoChangeIsDropped
  <1> DEFINE Kept(p) ==
        LET old == records[p].pending
            new == records'[p].pending
        IN  old # NoChange /\ new # old =>
              \/ new = NoChange /\ records'[p].acked >= old.src /\ held[p].src >= old.src
              \/ new.kind = "snapshot" /\ new.src >= old.src
  <1>1. ASSUME IndInv, [Next]_vars, NEW p \in Peers PROVE Kept(p)
    <2>0. TypeOK /\ RunShape(p) /\ Readable(records[p]) /\ AckGrounded(p)
      BY <1>1 DEF IndInv, TypedRuns, LaneInv
    <2>1. CASE Advance \/ Restore \/ Upgrade \/ CalmDown \/ Crash \/ UNCHANGED vars
      BY <2>1 DEF Advance, Restore, Upgrade, CalmDown, Crash, vars, storeVars
    <2>2. ASSUME NEW q \in Peers, LaneStep(q), q # p PROVE Kept(p)
      BY <2>0, <2>2, OtherLanes DEF LaneKept
    <2>3. CASE Stage(p) \/ StageTorn(p)
      BY <2>0, <2>3, StageEffect
    <2>4. CASE Acknowledge(p)
      <3>1. pc[p] = "ack"
        BY <2>4 DEF Acknowledge
      <3>2. run[p].change.src \in Nat
        BY <2>0, RunFields, ChangeFields
      <3> QED BY <2>0, <2>4, <3>1, <3>2, AckEffect, RunFields, ChangeFields DEF AckGrounded
    <2>5. CASE LaneStep(p) /\ ~Stage(p) /\ ~StageTorn(p) /\ ~Acknowledge(p)
      BY <2>0, <2>5, RecordWriters DEF RecordKept
    <2> QED BY <1>1, <2>1, <2>2, <2>3, <2>4, <2>5 DEF Next, LaneStep
  <1>2. IndInv /\ [Next]_vars => \A p \in Peers : Kept(p)
    BY <1>1
  <1>3. Spec => [][Next]_vars
    BY DEF Spec
  <1> QED BY <1>2, <1>3, Invariance, PTL DEF NoChangeIsDropped

-----------------------------------------------------------------------------
(***************************************************************************)
(* The scheduler, its store and the fencing peers implement the abstract   *)
(* replication of module Replication.  The mapping forgets everything but  *)
(* the versions that the peers hold and that the records acknowledge.      *)
(***************************************************************************)

Receipts == [p \in Peers |-> <<held[p].src, held[p].gen>>]

Acks == [p \in Peers |-> <<records[p].acked, records[p].ackedAs.gen>>]

(* A version is a pair of numbers. *)
LEMMA VersionsTyped ==
    ASSUME TypeOK, NEW p \in Peers
    PROVE  /\ Receipts[p] = <<held[p].src, held[p].gen>>
           /\ Acks[p] = <<records[p].acked, records[p].ackedAs.gen>>
           /\ Receipts[p] \in Nat \X Nat
           /\ Acks[p] \in Nat \X Nat
  <1>1. /\ held[p].src \in Nat /\ held[p].gen \in Nat
        /\ records[p].acked \in Nat /\ records[p].ackedAs.gen \in Nat
    BY RunFields, ChangeFields
  <1> QED BY <1>1 DEF Receipts, Acks

(* The initial states are initial states of the abstract replication. *)
LEMMA InitRefines == Init => Abstract!Init
  <1> SUFFICES ASSUME Init PROVE Abstract!Init
    OBVIOUS
  <1>1. IndInv /\ TypeOK
    BY InitIndInv DEF IndInv, TypedRuns
  <1>2. Receipts \in [Peers -> Nat \X Nat] /\ Acks \in [Peers -> Nat \X Nat]
    BY <1>1, VersionsTyped DEF Receipts, Acks
  <1>3. \A p \in Peers : Acks[p][1] <= Receipts[p][1] /\ Receipts[p][1] <= tip
    BY <1>1, VersionsTyped DEF IndInv, LaneInv, AckGrounded, Published
  <1>4. tip \in Nat
    BY <1>1, BoundsAssumption DEF TypeOK
  <1> QED BY <1>2, <1>3, <1>4 DEF Abstract!Init, Abstract!Version, Receipts, Acks

(* Every step is a step of the abstract replication or leaves it alone. *)
LEMMA NextRefines ==
    ASSUME IndInv, [Next]_vars
    PROVE  [Abstract!Next]_(Abstract!replicationVars)
  <1>0. /\ TypeOK /\ TypeOK' /\ tip \in Nat
        /\ \A p \in Peers : RunShape(p) /\ LaneInv(p)
    <2>1. TypeOK /\ TypeOK' /\ \A p \in Peers : RunShape(p) /\ LaneInv(p)
      BY TypedRunsInductive DEF IndInv, TypedRuns
    <2>2. tip \in Nat
      BY <2>1, BoundsAssumption DEF TypeOK
    <2> QED BY <2>1, <2>2
  <1>1. ASSUME tip' = tip, UNCHANGED <<Receipts, Acks>>
        PROVE  UNCHANGED Abstract!replicationVars
    BY <1>1 DEF Abstract!replicationVars, Receipts, Acks
  <1>2. CASE Advance
    <2>1. UNCHANGED <<Receipts, Acks>>
      BY <1>2 DEF Advance, storeVars, peerVars, Receipts, Acks
    <2>2. tip' = tip \/ tip' = tip + 1
      BY <1>0, <1>2, BoundsAssumption DEF Advance, TypeOK
    <2>3. CASE tip' = tip + 1
      BY <2>1, <2>3 DEF Abstract!Next, Abstract!Publish, Receipts, Acks
    <2> QED BY <1>1, <2>1, <2>2, <2>3
  <1>3. CASE Restore \/ Upgrade \/ CalmDown \/ Crash \/ UNCHANGED vars
    <2>1. tip' = tip /\ held' = held /\ records' = records
      BY <1>3 DEF Restore, Upgrade, CalmDown, Crash, vars, sourceVars, storeVars, peerVars
    <2> QED BY <1>1, <2>1 DEF Receipts, Acks
  <1>4. ASSUME NEW q \in Peers, LaneStep(q)
        PROVE  [Abstract!Next]_(Abstract!replicationVars)
    <2>0. /\ tip' = tip
          /\ \A p \in Peers \ {q} : held'[p] = held[p] /\ records'[p] = records[p]
      BY <1>0, <1>4, OtherLanes DEF LaneKept, sourceVars
    <2>1. \A p \in Peers \ {q} : Receipts'[p] = Receipts[p] /\ Acks'[p] = Acks[p]
      BY <2>0 DEF Receipts, Acks
    <2>2. /\ Receipts'[q] = <<held'[q].src, held'[q].gen>>
          /\ Acks'[q] = <<records'[q].acked, records'[q].ackedAs.gen>>
      BY DEF Receipts, Acks
    <2>3. RunShape(q) /\ Readable(records[q]) /\ Published(q) /\ AckGrounded(q)
      BY <1>0 DEF LaneInv
    <2>4. CASE Acknowledge(q)
      <3>1. Receipts' = Receipts
        BY <2>4 DEF Acknowledge, peerVars, Receipts
      <3>2. /\ records'[q].acked = run[q].change.src
            /\ records'[q].ackedAs = run[q].change
            /\ run[q].change.src > records[q].acked
        BY <1>0, <2>3, <2>4, AckEffect
      <3>3. pc[q] = "ack"
        BY <2>4 DEF Acknowledge
      <3>4. /\ run[q].change.src \in Nat /\ run[q].change.gen \in Nat
            /\ held[q].src \in Nat /\ records[q].acked \in Nat
        BY <1>0, RunFields, ChangeFields
      <3>5. \/ run[q].change.src < held[q].src
            \/ run[q].change.src = held[q].src /\ run[q].change.gen = held[q].gen
        BY <2>3, <3>3, <3>4 DEF AckGrounded, Digest
      <3>6. /\ Acks'[q] \in Nat \X Nat
            /\ Acks'[q][1] > Acks[q][1]
            /\ Acks'[q][1] < Receipts[q][1] \/ Acks'[q] = Receipts[q]
        BY <1>0, <2>2, <3>2, <3>4, <3>5, VersionsTyped
      <3>7. Abstract!Confirm(q)
        BY <2>0, <2>1, <3>1, <3>6 DEF Abstract!Confirm, Abstract!Version, Receipts, Acks
      <3> QED BY <3>7 DEF Abstract!Next
    <2>5. CASE ~Acknowledge(q)
      <3>1. Acks' = Acks
        <4>1. records'[q].acked = records[q].acked /\ records'[q].ackedAs = records[q].ackedAs
          BY <1>0, <1>4, <2>3, <2>5, StageEffect, RecordWriters DEF RecordKept
        <4>2. \A p \in Peers : Acks'[p] = Acks[p]
          BY <2>1, <4>1 DEF Acks
        <4> QED BY <4>2 DEF Acks
      <3>2. CASE held'[q] = held[q]
        <4>1. \A p \in Peers : Receipts'[p] = Receipts[p]
          BY <2>1, <3>2 DEF Receipts
        <4>2. Receipts' = Receipts
          BY <4>1 DEF Receipts
        <4> QED BY <1>1, <2>0, <3>1, <4>2
      <3>3. CASE /\ held'[q] \in Change /\ held'[q].src > held[q].src
                 /\ held'[q].src <= tip
        <4>1. held'[q].src \in Nat /\ held'[q].gen \in Nat
          BY <3>3, ChangeFields DEF Maybe
        <4>2. /\ Receipts'[q] \in Nat \X Nat
              /\ Receipts'[q][1] > Receipts[q][1]
              /\ Receipts'[q][1] <= tip
          BY <1>0, <2>2, <3>3, <4>1, VersionsTyped
        <4>3. Abstract!Take(q)
          BY <2>0, <2>1, <3>1, <4>2 DEF Abstract!Take, Abstract!Version, Receipts, Acks
        <4> QED BY <4>3 DEF Abstract!Next
      <3> QED BY <1>0, <1>4, <2>3, <3>2, <3>3, HeldGrows
    <2> QED BY <2>4, <2>5
  <1> QED BY <1>2, <1>3, <1>4 DEF Next, LaneStep

(* Delivery implements Replication: receipts only move forward to published
   revisions, and an acknowledgement names a version the peer holds. *)
THEOREM DeliveryImplementsReplication == Spec => Refinement
  <1>1. Spec => Init /\ [][Next]_vars
    BY DEF Spec
  <1> QED BY <1>1, InitRefines, NextRefines, Invariance, PTL DEF Refinement
=============================================================================
