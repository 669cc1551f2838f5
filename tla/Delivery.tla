------------------------------ MODULE Delivery ------------------------------
(***************************************************************************)
(* The delivery scheduler of daemon/deliverer.go: one worker ("lane") per  *)
(* peer carries the changes of one service from this host to that peer     *)
(* over the durable state of daemon/delivery.go, and the peer fences them  *)
(* (syncservice/fence.go, syncservice/register_artifact.go).               *)
(*                                                                         *)
(* A worker's pass is cut at every call that leaves the worker: each RPC   *)
(* to the local service or the peer, and each store operation.  Any such   *)
(* call may fail before or after it took effect, a call to the peer may be *)
(* executed long after the worker gave up on it, and the daemon may crash  *)
(* anywhere.  Durations are abstracted away: a timer that is armed may     *)
(* fire at any time.                                                       *)
(*                                                                         *)
(* Left to other modules: how the objects of one root travel (batches and  *)
(* parts), the network policy behind a pause, the receiver's own pins.     *)
(***************************************************************************)
EXTENDS DeliveryStore, FiniteSets

CONSTANTS
    Peers,         \* the peers of the service's lanes
    MaxRev,        \* bound on the source's revisions
    MaxRestores,   \* bound on restores of the source from a backup
    RootsOf,       \* RootsOf[n]: the roots of a full snapshot of revision n
    Capable,       \* initial values of the service's export.v2 capability
    MaxLate,       \* bound on the given-up calls in flight to one peer
    Starts         \* which stores the daemon may find: "empty", "migrated"

ASSUME BoundsAssumption == MaxRev \in Nat \ {0} /\ MaxRestores \in Nat /\ MaxLate \in Nat

ASSUME RootsAssumption == RootsOf \in [1..MaxRev -> SUBSET Root]

ASSUME CapableAssumption == Capable \in SUBSET BOOLEAN

ASSUME StartsAssumption == Starts \in SUBSET {"empty", "migrated"}

VARIABLES
    (* The local service: current and highest revision, the lineage each
       revision number was last written in, the number of restores, export.v2 capability. *)
    rev, tip, born, restores, artifacts,
    (* Durable on this host: delivery records, pending files, and the roots
       each lane's owner pins in the service's artifact store. *)
    records, files, pins,
    (* Volatile, per lane: program counter, dirtyAt set, kick channel full,
       armed timer, resting live.state, pinsSettled, pinnedFor, deliveryRun. *)
    pc, dirty, kick, arm, status, settled, pinnedFor, run,
    (* The peers: receipt held for this origin, complete roots, and calls the
       sender gave up on that may still be executed. *)
    held, has, late,
    (* Environment: revisions a lane has not been kicked for yet, and whether
       faults have stopped for good. *)
    owed, calm

sourceVars == <<rev, tip, born, restores, artifacts>>
storeVars  == <<records, files, pins>>
loopVars   == <<dirty, kick>>
restVars   == <<arm, status>>
pinVars    == <<settled, pinnedFor>>
laneVars   == <<pc, dirty, kick, arm, status, settled, pinnedFor, run>>
peerVars   == <<held, has, late>>
envVars    == <<owed, calm>>
vars       == <<sourceVars, storeVars, laneVars, peerVars, envVars>>

Resting == {"boot", "idle"}

Passing == {"clean", "prepare", "repin", "union", "stage", "pin", "gate", "transfer",
            "sent", "progress", "apply", "full", "ack", "unpin"}

\* deliveryRun, with the arguments of the replace in progress.
NoRun == [arts |-> FALSE, change |-> NoChange, expected |-> NoChange,
          sent |-> FALSE, again |-> FALSE]

Run == [arts: BOOLEAN, change: Change \cup {NoChange}, expected: Change \cup {NoChange},
        sent: BOOLEAN, again: BOOLEAN]

TypeOK ==
    /\ tip \in 1..MaxRev
    /\ rev \in 1..tip
    /\ born \in [1..MaxRev -> Nat]
    /\ restores \in Nat
    /\ artifacts \in BOOLEAN
    /\ records \in [Peers -> Record]
    /\ files \subseteq Change
    /\ pins \in [Peers -> SUBSET Root]
    /\ pc \in [Peers -> Resting \cup Passing]
    /\ dirty \in [Peers -> BOOLEAN]
    /\ kick \in [Peers -> BOOLEAN]
    /\ arm \in [Peers -> {"none", "due", "retry"}]
    /\ status \in [Peers -> {"idle", "paused", "backoff"}]
    /\ settled \in [Peers -> BOOLEAN]
    /\ pinnedFor \in [Peers -> Change \cup {NoChange}]
    /\ run \in [Peers -> Run]
    /\ held \in [Peers -> Change \cup {NoChange}]
    /\ has \in [Peers -> SUBSET Root]
    /\ late \in [Peers -> SUBSET Change]
    /\ owed \in [Peers -> BOOLEAN]
    /\ calm \in BOOLEAN

-----------------------------------------------------------------------------
(***************************************************************************)
(* Initial states.  Either the store is empty and no peer has heard of     *)
(* this origin, or the store was migrated from delivery-v1: migrate keeps  *)
(* the acked revision and drops the pending change, which the peer may     *)
(* have applied already.                                                   *)
(***************************************************************************)
V1Receipts(r) ==
    {Snapshot(n, 0, {}) : n \in 1..r} \cup {Delta(b, n, 0) : b \in 1..r, n \in 1..r}

MigratedLane(rec, h) ==
    /\ \E a \in 0..rev : rec = [EmptyRecord EXCEPT !.acked = a]
    /\ h \in V1Receipts(rev)
    /\ h.base <= h.src
    /\ h.src >= rec.acked

FreshLane(rec, h) == rec = EmptyRecord /\ h = NoChange

(* A lane as the scheduler builds it: start has poked it, so it is dirty. *)
Booted ==
    /\ pc = [p \in Peers |-> "boot"]
    /\ dirty = [p \in Peers |-> TRUE]
    /\ kick = [p \in Peers |-> TRUE]
    /\ arm = [p \in Peers |-> "none"]
    /\ status = [p \in Peers |-> "idle"]
    /\ settled = [p \in Peers |-> FALSE]
    /\ pinnedFor = [p \in Peers |-> NoChange]
    /\ run = [p \in Peers |-> NoRun]

Init ==
    /\ rev \in 1..MaxRev
    /\ tip = rev
    /\ born = [n \in 1..MaxRev |-> 0]
    /\ restores = 0
    /\ artifacts \in Capable
    /\ held \in [Peers -> V1Receipts(rev) \cup {NoChange}]
    /\ records \in [Peers -> {[EmptyRecord EXCEPT !.acked = a] : a \in 0..rev}]
    /\ \/ "empty" \in Starts /\ rev = 1 /\ \A p \in Peers : FreshLane(records[p], held[p])
       \/ "migrated" \in Starts /\ \A p \in Peers : MigratedLane(records[p], held[p])
    /\ files = {}
    /\ pins = [p \in Peers |-> {}]
    /\ Booted
    /\ has = [p \in Peers |-> {}]
    /\ late = [p \in Peers |-> {}]
    /\ owed = [p \in Peers |-> FALSE]
    /\ calm = FALSE

-----------------------------------------------------------------------------
(***************************************************************************)
(* The local service and its kicks.                                        *)
(***************************************************************************)
\* The service commits a new revision; the lanes hear of it by a later kick.
Advance ==
    /\ rev < MaxRev
    /\ rev' = rev + 1
    /\ tip' = IF rev + 1 > tip THEN rev + 1 ELSE tip
    /\ born' = [born EXCEPT ![rev + 1] = restores]
    /\ owed' = [p \in Peers |-> TRUE]
    /\ UNCHANGED <<restores, artifacts, storeVars, laneVars, peerVars, calm>>

\* The service's data is restored from a backup: its revision goes back.
Restore ==
    /\ ~calm
    /\ restores < MaxRestores
    /\ \E r \in 1..(rev - 1) : rev' = r
    /\ restores' = restores + 1
    /\ owed' = [p \in Peers |-> TRUE]
    /\ UNCHANGED <<tip, born, artifacts, storeVars, laneVars, peerVars, calm>>

\* The consumer is upgraded in place to one that serves export.v2.
Upgrade ==
    /\ ~artifacts
    /\ TRUE \in Capable
    /\ artifacts' = TRUE
    /\ UNCHANGED <<rev, tip, born, restores, storeVars, laneVars, peerVars, envVars>>

\* poke: mark the lane dirty and fill its one-slot kick channel.
Kick(p) ==
    /\ dirty' = [dirty EXCEPT ![p] = TRUE]
    /\ kick' = [kick EXCEPT ![p] = TRUE]
    /\ owed' = [owed EXCEPT ![p] = FALSE]
    /\ UNCHANGED <<sourceVars, storeVars, pc, restVars, pinVars, run, peerVars, calm>>

-----------------------------------------------------------------------------
(***************************************************************************)
(* How a step of a pass ends.  Go moves the worker on; Rest ends the pass  *)
(* and puts the worker back into its select loop: settle leaves nothing    *)
(* armed, pause and fail arm the retry timer.                              *)
(***************************************************************************)
GoWith(p, label, r) ==
    /\ pc' = [pc EXCEPT ![p] = label]
    /\ run' = [run EXCEPT ![p] = r]
    /\ UNCHANGED restVars

Go(p, label) == GoWith(p, label, run[p])

\* Mutant of Rest: a pass that fails or pauses arms no retry.
RestUnarmed(p, state) ==
    /\ pc' = [pc EXCEPT ![p] = "idle"]
    /\ run' = [run EXCEPT ![p] = NoRun]
    /\ status' = [status EXCEPT ![p] = state]
    /\ arm' = [arm EXCEPT ![p] = "none"]

Rest(p, state) ==
    /\ pc' = [pc EXCEPT ![p] = "idle"]
    /\ run' = [run EXCEPT ![p] = NoRun]
    /\ status' = [status EXCEPT ![p] = state]
    /\ arm' = [arm EXCEPT ![p] = IF state = "idle" THEN "none" ELSE "retry"]

Settle(p) == Rest(p, "idle")

Fail(p) == Rest(p, "backoff")

\* awaitCapabilities: the worker serves no kick until it detected the local
\* service's capabilities once.
Detect(p) ==
    /\ pc[p] = "boot"
    /\ Go(p, "idle")
    /\ UNCHANGED <<sourceVars, storeVars, loopVars, pinVars, peerVars, envVars>>

\* Mutant of ReceiveKick: taking the kick already counts as running it.
ReceiveKickAndClean(p) ==
    /\ pc[p] = "idle"
    /\ kick[p]
    /\ kick' = [kick EXCEPT ![p] = FALSE]
    /\ dirty' = [dirty EXCEPT ![p] = FALSE]
    /\ arm' = [arm EXCEPT ![p] = IF @ = "none" THEN "due" ELSE @]
    /\ UNCHANGED <<sourceVars, storeVars, pc, status, pinVars, run, peerVars, envVars>>

\* work, the kick case: arm the coalescing timer unless a timer is armed.
ReceiveKick(p) ==
    /\ pc[p] = "idle"
    /\ kick[p]
    /\ kick' = [kick EXCEPT ![p] = FALSE]
    /\ arm' = [arm EXCEPT ![p] = IF @ = "none" THEN "due" ELSE @]
    /\ UNCHANGED <<sourceVars, storeVars, pc, dirty, status, pinVars, run, peerVars, envVars>>

\* work, the due, retry and wake cases: disarm everything and start a pass.
Fire(p) ==
    /\ pc[p] = "idle"
    /\ arm[p] # "none"
    /\ arm' = [arm EXCEPT ![p] = "none"]
    /\ pc' = [pc EXCEPT ![p] = "clean"]
    /\ UNCHANGED <<sourceVars, storeVars, loopVars, status, pinVars, run, peerVars, envVars>>

\* Mutant of Clean: the channel is drained but the lane stays dirty.
CleanDrainsOnly(p) ==
    /\ pc[p] = "clean"
    /\ kick' = [kick EXCEPT ![p] = FALSE]
    /\ Go(p, "prepare")
    /\ UNCHANGED <<sourceVars, storeVars, dirty, pinVars, peerVars, envVars>>

\* deliverOnce: forget the kicks that the export about to happen will cover.
Clean(p) ==
    /\ pc[p] = "clean"
    /\ dirty' = [dirty EXCEPT ![p] = FALSE]
    /\ kick' = [kick EXCEPT ![p] = FALSE]
    /\ Go(p, "prepare")
    /\ UNCHANGED <<sourceVars, storeVars, pinVars, peerVars, envVars>>

-----------------------------------------------------------------------------
(***************************************************************************)
(* prepare, replace and reconcilePins.                                     *)
(***************************************************************************)
FullExport(arts) ==
    Snapshot(rev, born[rev], IF arts THEN RootsOf[rev] ELSE {})

\* What the service may answer to an export since an acked revision: an
\* export since zero is always full, and a delta never precedes its base.
Exports(arts, since) ==
    {FullExport(arts)} \cup
    (IF since \in 1..rev THEN {Delta(since, rev, born[rev])} ELSE {})

Floor(rec) == IF rec.pending.src > rec.acked THEN rec.pending.src ELSE rec.acked

NewRun(change, expected) ==
    [arts |-> artifacts, change |-> change, expected |-> expected,
     sent |-> FALSE, again |-> FALSE]

\* prepare: detect, load and export, then decide what this pass delivers.
\* (Loading and exporting commute: only this worker writes its record.)
Prepare(p) ==
    LET rec == records[p] IN
    /\ pc[p] = "prepare"
    /\ rec.pending # NoChange => rec.pending \in files
    /\ files' = Swept(files, records)
    /\ \/ /\ rev < Floor(rec)
          /\ Fail(p)
       \/ /\ rev = Floor(rec)
          /\ GoWith(p, "repin", NewRun(rec.pending, NoChange))
       \/ /\ rev > Floor(rec)
          /\ \E c \in IF rec.pending = NoChange THEN Exports(artifacts, rec.acked)
                                                ELSE {FullExport(artifacts)} :
                GoWith(p, "union", NewRun(c, rec.pending))
    /\ UNCHANGED <<sourceVars, records, pins, loopVars, pinVars, peerVars, envVars>>

\* Where a pass whose pending change is in place goes next: artifact runs
\* pass the network gate, and one that answers needSnapshot has passed it.
AfterStaging(r) ==
    IF ~r.arts THEN "apply" ELSE IF r.again THEN "transfer" ELSE "gate"

\* reconcilePins: point the lane's owner at exactly the pending roots, unless
\* this daemon already did so for this change.  A lane with nothing pending
\* ends its pass here.
Repin(p) ==
    LET r    == run[p]
        skip == ~r.arts \/ (settled[p] /\ pinnedFor[p] = r.change)
    IN
    /\ pc[p] = "repin"
    /\ pins' = IF skip THEN pins ELSE [pins EXCEPT ![p] = r.change.roots]
    /\ \/ /\ settled' = IF skip THEN settled ELSE [settled EXCEPT ![p] = TRUE]
          /\ pinnedFor' = IF skip THEN pinnedFor ELSE [pinnedFor EXCEPT ![p] = r.change]
          /\ IF r.change = NoChange THEN Settle(p) ELSE Go(p, AfterStaging(r))
       \/ ~skip /\ ~calm /\ Fail(p) /\ UNCHANGED pinVars
    /\ UNCHANGED <<sourceVars, records, files, loopVars, peerVars, envVars>>

\* Mutant of Union: only the new roots are pinned before the store changes.
UnionNewOnly(p) ==
    LET r == run[p] IN
    /\ pc[p] = "union"
    /\ pins' = IF r.arts THEN [pins EXCEPT ![p] = r.change.roots] ELSE pins
    /\ settled' = IF r.arts THEN [settled EXCEPT ![p] = FALSE] ELSE settled
    /\ Go(p, "stage")
    /\ UNCHANGED <<sourceVars, records, files, loopVars, pinnedFor, peerVars, envVars>>

\* Mutant of Union: the lane goes on believing its pins are settled.
UnionStillSettled(p) ==
    LET r == run[p] IN
    /\ pc[p] = "union"
    /\ pins' = IF r.arts THEN [pins EXCEPT ![p] = r.expected.roots \cup r.change.roots] ELSE pins
    /\ Go(p, "stage")
    /\ UNCHANGED <<sourceVars, records, files, loopVars, pinVars, peerVars, envVars>>

\* replace, before the store changes: pin the old and the new roots together.
Union(p) ==
    LET r == run[p] IN
    /\ pc[p] = "union"
    /\ pins' = IF r.arts THEN [pins EXCEPT ![p] = r.expected.roots \cup r.change.roots] ELSE pins
    /\ settled' = IF r.arts THEN [settled EXCEPT ![p] = FALSE] ELSE settled
    /\ \/ Go(p, "stage")
       \/ r.arts /\ ~calm /\ Fail(p)
    /\ UNCHANGED <<sourceVars, records, files, loopVars, pinnedFor, peerVars, envVars>>

\* stage: the pending file is durable before the record that references it.
Stage(p) ==
    LET r   == run[p]
        new == [records EXCEPT ![p] = Staged(records[p], r.change)]
    IN
    /\ pc[p] = "stage"
    /\ MayStage(records[p], r.expected, r.change)
    /\ records' = new
    /\ files' = Swept(files \cup {r.change}, new)
    /\ Go(p, IF r.arts THEN "pin" ELSE AfterStaging(r))
    /\ UNCHANGED <<sourceVars, pins, loopVars, pinVars, peerVars, envVars>>

\* stage returns one of its errors and writes nothing.
StageRefused(p) ==
    /\ pc[p] = "stage"
    /\ ~MayStage(records[p], run[p].expected, run[p].change)
    /\ files' = Swept(files, records)
    /\ Fail(p)
    /\ UNCHANGED <<sourceVars, records, pins, loopVars, pinVars, peerVars, envVars>>

\* Mutant of StageTorn: the record is written before the pending file.
StageRecordFirst(p) ==
    LET c == run[p].change IN
    /\ pc[p] = "stage"
    /\ ~calm
    /\ MayStage(records[p], run[p].expected, c)
    /\ files' = Swept(files, records)
    /\ records' = [records EXCEPT ![p] = Staged(records[p], c)]
    /\ Fail(p)
    /\ UNCHANGED <<sourceVars, pins, loopVars, pinVars, peerVars, envVars>>

\* A write of stage fails: the pending file is there, and the record either
\* is not yet written, or is and only the trailing sweep failed.
StageTorn(p) ==
    LET c == run[p].change IN
    /\ pc[p] = "stage"
    /\ ~calm
    /\ MayStage(records[p], run[p].expected, c)
    /\ files' = Swept(files, records) \cup {c}
    /\ \/ UNCHANGED records
       \/ records' = [records EXCEPT ![p] = Staged(records[p], c)]
    /\ Fail(p)
    /\ UNCHANGED <<sourceVars, pins, loopVars, pinVars, peerVars, envVars>>

\* replace, after the store changed: drop the old roots.
Pin(p) ==
    LET r == run[p] IN
    /\ pc[p] = "pin"
    /\ pins' = [pins EXCEPT ![p] = r.change.roots]
    /\ \/ /\ settled' = [settled EXCEPT ![p] = TRUE]
          /\ pinnedFor' = [pinnedFor EXCEPT ![p] = r.change]
          /\ Go(p, AfterStaging(r))
       \/ ~calm /\ Fail(p) /\ UNCHANGED pinVars
    /\ UNCHANGED <<sourceVars, records, files, loopVars, peerVars, envVars>>

-----------------------------------------------------------------------------
(***************************************************************************)
(* gate and transfer.  The unit of transfer is a root: a batch completes   *)
(* one root at the peer.                                                   *)
(***************************************************************************)
Missing(p) == run[p].change.roots \ has[p]

\* gate: both ends admit the transfer.
Gate(p) ==
    /\ pc[p] = "gate"
    /\ Go(p, "transfer")
    /\ UNCHANGED <<sourceVars, storeVars, loopVars, pinVars, peerVars, envVars>>

\* Mutant of Superseded: a kick stops a transfer that has sent nothing yet.
SupersededAtOnce(p) == dirty[p]

\* superseded: once a batch was sent, a kick sends the worker back to clean.
Superseded(p) == run[p].sent /\ dirty[p]

Abandon(p) ==
    /\ GoWith(p, "clean", NoRun)
    /\ UNCHANGED <<sourceVars, storeVars, loopVars, pinVars, peerVars, envVars>>

\* transfer, enumerate, page, send, commit: send one batch unless superseded.
SendBatch(p) ==
    /\ pc[p] = "transfer"
    /\ \E r \in Missing(p) :
        IF Superseded(p)
        THEN Abandon(p)
        ELSE /\ has' = [has EXCEPT ![p] = @ \cup {r}]
             /\ \/ GoWith(p, "sent", [run[p] EXCEPT !.sent = TRUE])
                \/ ~calm /\ Fail(p)
             /\ UNCHANGED <<sourceVars, storeVars, loopVars, pinVars, held, late, envVars>>

\* page, after a batch: look for a kick again; when some but not all roots
\* are complete, show the peer the roots that are (a progressive apply).
BatchSent(p) ==
    /\ pc[p] = "sent"
    /\ IF Superseded(p)
       THEN Abandon(p)
       ELSE /\ Go(p, IF Missing(p) = {} THEN "transfer" ELSE "progress")
            /\ UNCHANGED <<sourceVars, storeVars, loopVars, pinVars, peerVars, envVars>>

TransferDone(p) ==
    /\ pc[p] = "transfer"
    /\ Missing(p) = {}
    /\ Go(p, "apply")
    /\ UNCHANGED <<sourceVars, storeVars, loopVars, pinVars, peerVars, envVars>>

-----------------------------------------------------------------------------
(***************************************************************************)
(* The peer executes an apply call and the worker takes the answer.  The   *)
(* two are one step: what may happen between them also happens after it.   *)
(***************************************************************************)
PeerApplies(p, c) ==
    held' = IF ApplyResult(held[p], has[p], c) = "applied"
            THEN [held EXCEPT ![p] = c] ELSE held

\* A progressive apply: every answer but an error is ignored.
Progress(p) ==
    LET c == run[p].change IN
    /\ pc[p] = "progress"
    /\ PeerApplies(p, c)
    /\ IF ApplyResult(held[p], has[p], c) = "error" THEN Fail(p) ELSE Go(p, "transfer")
    /\ UNCHANGED <<sourceVars, storeVars, loopVars, pinVars, has, late, envVars>>

\* Mutant of Apply: a partial apply counts as an acknowledgement.
ApplyPartialAcked(p) ==
    LET c      == run[p].change
        answer == ApplyResult(held[p], has[p], c)
    IN
    /\ pc[p] = "apply"
    /\ PeerApplies(p, c)
    /\ \/ answer \in {"applied", "acked", "partial"} /\ Go(p, "ack")
       \/ answer = "needSnapshot" /\ ~run[p].again /\ Go(p, "full")
       \/ answer \in {"stale", "error"} /\ Fail(p)
    /\ UNCHANGED <<sourceVars, storeVars, loopVars, pinVars, has, late, envVars>>

\* apply: the answer decides between acknowledge, a full snapshot (once) and
\* a failed pass.
Apply(p) ==
    LET c      == run[p].change
        answer == ApplyResult(held[p], has[p], c)
    IN
    /\ pc[p] = "apply"
    /\ PeerApplies(p, c)
    /\ \/ answer \in {"applied", "acked"} /\ Go(p, "ack")
       \/ answer = "needSnapshot" /\ ~run[p].again /\ Go(p, "full")
       \/ /\ answer \in {"stale", "partial", "error"} \/ (answer = "needSnapshot" /\ run[p].again)
          /\ Fail(p)
    /\ UNCHANGED <<sourceVars, storeVars, loopVars, pinVars, has, late, envVars>>

\* apply, the NeedSnapshot branch: export in full and replace the delta.
ExportFull(p) ==
    /\ pc[p] = "full"
    /\ GoWith(p, "union", [run[p] EXCEPT !.change = FullExport(run[p].arts),
                                         !.expected = run[p].change,
                                         !.again = TRUE])
    /\ UNCHANGED <<sourceVars, storeVars, loopVars, pinVars, peerVars, envVars>>

\* Mutant of Acknowledge: it removes its own pending file instead of sweeping.
AcknowledgeRemovesFile(p) ==
    LET r == run[p] IN
    /\ pc[p] = "ack"
    /\ MayAcknowledge(records[p], r.change)
    /\ records' = [records EXCEPT ![p] = Acknowledged(records[p], r.change)]
    /\ files' = files \ {r.change}
    /\ settled' = IF r.arts THEN [settled EXCEPT ![p] = FALSE] ELSE settled
    /\ IF r.arts THEN Go(p, "unpin") ELSE Settle(p)
    /\ UNCHANGED <<sourceVars, pins, loopVars, pinnedFor, peerVars, envVars>>

\* acknowledge: record the revision, drop the pending change and its file.
\* The error after a successful write (a failed sweep) leaves it recorded.
Acknowledge(p) ==
    LET r   == run[p]
        new == [records EXCEPT ![p] = Acknowledged(records[p], r.change)]
    IN
    /\ pc[p] = "ack"
    /\ MayAcknowledge(records[p], r.change)
    /\ records' = new
    /\ \/ /\ files' = Swept(files, new)
          /\ settled' = IF r.arts THEN [settled EXCEPT ![p] = FALSE] ELSE settled
          /\ IF r.arts THEN Go(p, "unpin") ELSE Settle(p)
       \/ ~calm /\ files' = Swept(files, records) /\ Fail(p) /\ UNCHANGED settled
    /\ UNCHANGED <<sourceVars, pins, loopVars, pinnedFor, peerVars, envVars>>

\* apply, last: release the lane's pins.
Unpin(p) ==
    /\ pc[p] = "unpin"
    /\ pins' = [pins EXCEPT ![p] = {}]
    /\ \/ /\ settled' = [settled EXCEPT ![p] = TRUE]
          /\ pinnedFor' = [pinnedFor EXCEPT ![p] = NoChange]
          /\ Settle(p)
       \/ ~calm /\ Fail(p) /\ UNCHANGED pinVars
    /\ UNCHANGED <<sourceVars, records, files, loopVars, peerVars, envVars>>

-----------------------------------------------------------------------------
(***************************************************************************)
(* Faults.                                                                 *)
(***************************************************************************)
Calls == {"prepare", "repin", "union", "stage", "pin", "gate", "transfer",
          "progress", "apply", "full", "ack", "unpin"}

\* A call fails without having had an effect: the pass ends in backoff.  Of
\* replace and of the final release, pinsSettled is already cleared.
CallFails(p) ==
    /\ ~calm
    /\ pc[p] \in Calls
    /\ settled' = IF pc[p] = "union" /\ run[p].arts THEN [settled EXCEPT ![p] = FALSE] ELSE settled
    /\ Fail(p)
    /\ UNCHANGED <<sourceVars, storeVars, loopVars, pinnedFor, peerVars, envVars>>

\* The network policy, or a peer that is down or too old, pauses an artifact
\* run at the gate or at any admission before a peer call.
Pause(p) ==
    /\ ~calm
    /\ run[p].arts
    /\ pc[p] \in {"gate", "transfer", "progress", "apply"}
    /\ Rest(p, "paused")
    /\ UNCHANGED <<sourceVars, storeVars, loopVars, pinVars, peerVars, envVars>>

\* A call the worker no longer waits for may still reach the peer.
InFlight(p) ==
    IF pc[p] \in {"progress", "apply"} /\ Cardinality(late[p]) < MaxLate
    THEN late[p] \cup {run[p].change} ELSE late[p]

\* The worker gives up on an apply call that the peer may execute later.
CallOutlived(p) ==
    /\ ~calm
    /\ pc[p] \in {"progress", "apply"}
    /\ late' = [late EXCEPT ![p] = InFlight(p)]
    /\ Fail(p)
    /\ UNCHANGED <<sourceVars, storeVars, loopVars, pinVars, held, has, envVars>>

LateApply(p) ==
    /\ \E c \in late[p] :
        /\ PeerApplies(p, c)
        /\ late' = [late EXCEPT ![p] = @ \ {c}]
    /\ UNCHANGED <<sourceVars, storeVars, laneVars, has, envVars>>

\* The peer's garbage collector drops a root nothing pins there.
PeerDropsRoot(p) ==
    /\ ~calm
    /\ \E r \in has[p] : has' = [has EXCEPT ![p] = @ \ {r}]
    /\ UNCHANGED <<sourceVars, storeVars, laneVars, held, late, envVars>>

\* The daemon dies and is started again; apply calls in flight stay in flight.
Crash ==
    /\ ~calm
    /\ pc' = [p \in Peers |-> "boot"]
    /\ dirty' = [p \in Peers |-> TRUE]
    /\ kick' = [p \in Peers |-> TRUE]
    /\ arm' = [p \in Peers |-> "none"]
    /\ status' = [p \in Peers |-> "idle"]
    /\ settled' = [p \in Peers |-> FALSE]
    /\ pinnedFor' = [p \in Peers |-> NoChange]
    /\ run' = [p \in Peers |-> NoRun]
    /\ late' = [p \in Peers |-> InFlight(p)]
    /\ UNCHANGED <<sourceVars, storeVars, held, has, envVars>>

\* From here on nothing fails any more.
CalmDown ==
    /\ ~calm
    /\ calm' = TRUE
    /\ UNCHANGED <<sourceVars, storeVars, laneVars, peerVars, owed>>

-----------------------------------------------------------------------------
\* The steps a running worker takes by itself.
PassStep(p) ==
    \/ Detect(p) \/ Clean(p) \/ Prepare(p) \/ Repin(p)
    \/ Union(p) \/ Stage(p) \/ StageRefused(p) \/ Pin(p) \/ Gate(p)
    \/ SendBatch(p) \/ BatchSent(p) \/ TransferDone(p) \/ Progress(p)
    \/ Apply(p) \/ ExportFull(p) \/ Acknowledge(p) \/ Unpin(p)

LaneFault(p) ==
    \/ StageTorn(p) \/ CallFails(p) \/ Pause(p) \/ CallOutlived(p)
    \/ LateApply(p) \/ PeerDropsRoot(p)

Next ==
    \/ Advance \/ Restore \/ Upgrade \/ Crash \/ CalmDown
    \/ \E p \in Peers : Kick(p) \/ ReceiveKick(p) \/ Fire(p) \/ PassStep(p) \/ LaneFault(p)

Spec == Init /\ [][Next]_vars

(***************************************************************************)
(* Fairness.  A goroutine that can run does, an armed timer fires whatever *)
(* kicks keep arriving, and the watcher kicks a lane for every revision.   *)
(***************************************************************************)
Fairness ==
    \A p \in Peers :
        /\ WF_vars(PassStep(p))
        /\ WF_vars(ReceiveKick(p))
        /\ WF_vars(Fire(p))
        /\ WF_vars(Kick(p) /\ owed[p])

FairSpec == Spec /\ Fairness

-----------------------------------------------------------------------------
(***************************************************************************)
(* Safety.                                                                 *)
(***************************************************************************)
(* No record ever has a pending change at or below its acked revision.  One
   such record would make readDeliveryState refuse the whole state file, and
   with it every lane of every service on the host. *)
RecordsReadable == \A p \in Peers : Readable(records[p])

(* The file of every pending change a record references is on disk, through
   torn writes, crashes and the sweeps of other lanes that staged the same
   change id: load could not read the lane's change otherwise. *)
PendingIsOnDisk ==
    \A p \in Peers : records[p].pending # NoChange => records[p].pending \in files

(* The local artifact store never may collect a root of a change that is
   still to be delivered: replace pins both sets around the store write. *)
PendingRootsPinned ==
    \A p \in Peers : records[p].pending.roots \subseteq pins[p]

(* The PinsSet that reconcilePins skips, because this daemon remembers
   settling the pins for the change at hand, would have changed nothing. *)
SettledPinsAreExact ==
    \A p \in Peers :
        settled[p] /\ pinnedFor[p] = records[p].pending => pins[p] = pinnedFor[p].roots

(* The acked revision of a record is one its peer holds, on the acknowledged
   payload or past it, whatever calls were lost, repeated or late. *)
AckedIsHeld ==
    \A p \in Peers :
        LET rec == records[p] IN
        /\ rec.acked <= held[p].src
        /\ rec.ackedAs # NoChange /\ held[p].src = rec.acked =>
              Digest(held[p]) = Digest(rec.ackedAs)

(* The contract of Harness.WaitIdle: a lane with no kick queued and no pass
   running that rests idle has delivered every revision it was kicked for,
   has nothing pending and has released its pins. *)
IdleMeansDelivered ==
    \A p \in Peers :
        (pc[p] = "idle" /\ ~dirty[p] /\ status[p] = "idle" /\ ~owed[p]) =>
            /\ records[p].acked >= rev
            /\ records[p].pending = NoChange
            /\ pins[p] = {}

(* No wakeup is lost: a worker waiting in its select loop with an unrun kick
   has the kick in its channel or a timer that will start a pass. *)
DirtyLaneWillRun ==
    \A p \in Peers : pc[p] = "idle" /\ dirty[p] => kick[p] \/ arm[p] # "none"

(* A pending change leaves its record only once the peer holds its revision,
   or for a snapshot that covers it. *)
NoChangeIsDropped ==
    [][\A p \in Peers :
        LET old == records[p].pending
            new == records'[p].pending
        IN  old # NoChange /\ new # old =>
              \/ new = NoChange /\ records'[p].acked >= old.src /\ held[p].src >= old.src
              \/ new.kind = "snapshot" /\ new.src >= old.src]_vars

(***************************************************************************)
(* Delivery implements the abstract replication of module Replication.     *)
(***************************************************************************)
Abstract == INSTANCE Replication WITH
    receipt <- [p \in Peers |-> <<held[p].src, held[p].gen>>],
    acked   <- [p \in Peers |-> <<records[p].acked, records[p].ackedAs.gen>>]

(* Every step of the scheduler, its store and the peers is a step the
   abstract replication allows, or none of its business. *)
Refinement == Abstract!Init /\ [][Abstract!Next]_(Abstract!replicationVars)

(***************************************************************************)
(* Liveness.                                                               *)
(***************************************************************************)
(* Once faults stop, every peer ends up on the source's last revision and
   stays there, however often the lanes are kicked meanwhile. *)
PeersCatchUp == <>calm => <>[](\A p \in Peers : held[p].src = rev)

(* When the store started empty, the source learns of it as well and every
   lane comes to rest on an acknowledged last revision.  (A migrated store has
   forgotten changes that a peer may hold; it can wait for the next revision.) *)
LanesSettle ==
    (\A p \in Peers : held[p] = NoChange) /\ <>calm =>
        <>[](\A p \in Peers : records[p].acked = rev /\ records[p].pending = NoChange)
=============================================================================
