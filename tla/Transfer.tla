------------------------------ MODULE Transfer ------------------------------
(***************************************************************************)
(* Bulk transfer under the network policy: the gate, admit, transfer and   *)
(* send of daemon/deliverer.go on one sending host, with a lane per peer,  *)
(* the receivers' handlers of artifact/register.go and apply.v2, and the   *)
(* outgoing batch the lanes share.                                         *)
(*                                                                         *)
(* A run is cut at every call.  A call's handler and the sender's reading  *)
(* of its answer are one step: the sender does nothing in between.  Every  *)
(* lane lacks the same objects, so that all of them send one batch.  What  *)
(* a change holds, and what becomes of it, is in Delivery.                 *)
(***************************************************************************)
EXTENDS NetPolicy, FiniteSets

CONSTANTS
    Self,       \* the sending host
    Lane,       \* its lanes, each named for its peer
    Part,       \* the parts of the batch
    MaxLate     \* bound on the calls of a lane that outlive it, and on stray drops

ASSUME TransferAssumption == Host = Lane \cup {Self} /\ Self \notin Lane /\ MaxLate \in Nat

VARIABLES
    (* Sender: a run per lane, and whether the channel the lane last got from
       its monitor is closed. *)
    run, wake,
    (* The batch: who holds it, whether a holder committed it (sharedBatch),
       whether it is in the outbox, drops whose caller is gone, and whether
       one of those hit it since it was last built. *)
    holders, committed, outbox, drops, torn,
    (* Receivers: parts staged, batch committed, change applied, and calls
       whose caller is gone. *)
    staged, stored, applied, late

senderVars == <<run, wake>>
batchVars  == <<holders, committed, outbox, drops, torn>>
peerVars   == <<staged, stored, applied, late>>
vars       == <<netVars, senderVars, batchVars, peerVars>>

Stages == {"have", "begin", "put", "commit", "apply"}

Rests == {"idle", "paused", "pausedLocal", "restart", "backoff"}

(* A run: where it is, the bulk call it is at, the epochs it was admitted
   under, the peer's state as last observed, whether its session is up, where
   it rests after letting go of the batch; and, as history, which of the two
   hosts has been restricted since it was admitted. *)
Run == [pc: Rests \cup {"probe", "gate", "admit", "call", "hold", "build", "read", "release"},
        stage: Stages, left: SUBSET Part, local: Nat, peer: Nat,
        seen: [clear: BOOLEAN, epoch: Nat],
        session: BOOLEAN, then: Rests \cup {"admit"}, cut: SUBSET {"local", "peer"}]

NoRun == [pc |-> "backoff", stage |-> "have", left |-> {}, local |-> 0, peer |-> 0,
          seen |-> [clear |-> FALSE, epoch |-> 0], session |-> FALSE, then |-> "idle",
          cut |-> {}]

Request == [lane: Lane, stage: Stages, part: SUBSET Part, admitted: Nat, cut: BOOLEAN]

TypeOK ==
    /\ NetTypeOK
    /\ run \in [Lane -> Run]
    /\ wake \in [Lane -> BOOLEAN]
    /\ holders \subseteq Lane
    /\ {committed, outbox, torn} \subseteq BOOLEAN
    /\ drops \in 0..MaxLate
    /\ staged \in [Lane -> SUBSET Part]
    /\ stored \in [Lane -> BOOLEAN]
    /\ applied \in [Lane -> BOOLEAN]
    /\ late \subseteq Request

Init ==
    /\ NetInit
    /\ run = [l \in Lane |-> NoRun]
    /\ wake = [l \in Lane |-> FALSE]
    /\ holders = {} /\ committed = FALSE /\ outbox = FALSE /\ drops = 0 /\ torn = FALSE
    /\ staged = [l \in Lane |-> {}]
    /\ stored = [l \in Lane |-> FALSE]
    /\ applied = [l \in Lane |-> FALSE]
    /\ late = {}

-----------------------------------------------------------------------------
(***************************************************************************)
(* Steps of a run.                                                         *)
(***************************************************************************)
At(l, pc) == run[l].pc = pc

Goes(l, r) == run' = [run EXCEPT ![l] = r]

\* The run ends in a rest, after it has let go of the batch; then forgets all
\* but the rest.
Rested(l, rest) ==
    IF l \in holders THEN [run[l] EXCEPT !.pc = "release", !.then = rest]
    ELSE [NoRun EXCEPT !.pc = rest]

\* The rest of a paused run: a restriction that has cleared restarts the
\* transfer, any other waits for its recheck or for a change of this host's
\* network.
PauseFor(local, r) ==
    IF ~Unrestricted(local) THEN "pausedLocal"
    ELSE IF local.epoch # r.local THEN "restart"
    ELSE IF ~r.seen.clear THEN "paused"
    ELSE "restart"

\* interrupted: this host is restricted, or was since the admission.
Interrupted(local, r) == ~Unrestricted(local) \/ local.epoch # r.local

\* Mutant of Closed: only a restriction closes the channels.
ClosedByRestriction(l) == wake[l] \/ mon'[Self].epoch # mon[Self].epoch

\* notify: a change of this host's monitor closes the channels it gave out.
Closed(l) == wake[l] \/ mon'[Self] # mon[Self]

\* Current on the sender, by a lane, which keeps the channel.
ObserveLocal(l) ==
    /\ Free(Self)
    /\ mon' = [mon EXCEPT ![Self] = Refreshed(Self)]
    /\ wake' = [k \in Lane |-> k # l /\ Closed(k)]

SeenBy(h) == [clear |-> Unrestricted(Refreshed(h)), epoch |-> Refreshed(h).epoch]

netRest == <<file, editMark, saving, stat>>

\* work: the retry timer of a resting lane, or the wake channel of a paused one.
Due(l) ==
    /\ run[l].pc \in Rests \ {"idle"}
    /\ Goes(l, [NoRun EXCEPT !.pc = "probe"])
    /\ UNCHANGED <<netVars, wake, batchVars, peerVars>>

\* gate: Capabilities and NetStatus on a session of the run's own.
Probe(l) ==
    /\ At(l, "probe")
    /\ Free(l)
    /\ mon' = [mon EXCEPT ![l] = Refreshed(l)]
    /\ Goes(l, [run[l] EXCEPT !.pc = "gate", !.session = TRUE, !.seen = SeenBy(l)])
    /\ UNCHANGED <<netRest, events, wake, batchVars, peerVars>>

\* gate: the epochs of both hosts are the ones the run is admitted under.
Gate(l) ==
    /\ At(l, "gate")
    /\ ObserveLocal(l)
    /\ LET local == Refreshed(Self)
           r     == [run[l] EXCEPT !.local = local.epoch, !.peer = run[l].seen.epoch,
                                   !.cut = @ \ {"local"}]
       IN  Goes(l, IF Unrestricted(local) /\ r.seen.clear
                   THEN [r EXCEPT !.pc = "admit"]
                   ELSE [NoRun EXCEPT !.pc = PauseFor(local, r)])
    /\ UNCHANGED <<netRest, events, batchVars, peerVars>>

\* admit: the peer's state is too old and is probed again.
Reprobe(l) ==
    /\ At(l, "admit")
    /\ run[l].session
    /\ Free(l)
    /\ mon' = [mon EXCEPT ![l] = Refreshed(l)]
    /\ Goes(l, [run[l] EXCEPT !.seen = SeenBy(l)])
    /\ UNCHANGED <<netRest, events, wake, batchVars, peerVars>>

\* admit: nothing was restricted, on either host, since the run was admitted.
Admissible(l) ==
    LET local == Refreshed(Self)
        r     == run[l]
    IN  /\ ~Interrupted(local, r)
        /\ r.seen.clear /\ r.seen.epoch = r.peer

Admit(l) ==
    /\ At(l, "admit")
    /\ Admissible(l)
    /\ ObserveLocal(l)
    /\ Goes(l, [run[l] EXCEPT !.pc = "call"])
    /\ UNCHANGED <<netRest, events, batchVars, peerVars>>

AdmitPauses(l) ==
    /\ At(l, "admit")
    /\ ~Admissible(l)
    /\ ObserveLocal(l)
    /\ Goes(l, Rested(l, PauseFor(Refreshed(Self), run[l])))
    /\ UNCHANGED <<netRest, events, batchVars, peerVars>>

\* Hold the batch for this lane, then build it or find it built.
HoldBatch(l) ==
    /\ At(l, "hold")
    /\ holders' = holders \cup {l}
    /\ Goes(l, [run[l] EXCEPT !.pc = "build"])
    /\ UNCHANGED <<netVars, wake, committed, outbox, drops, torn, peerVars>>

BuildBatch(l) ==
    /\ At(l, "build")
    /\ outbox' = TRUE
    /\ torn' = FALSE
    /\ Goes(l, [run[l] EXCEPT !.pc = "admit", !.stage = "begin"])
    /\ UNCHANGED <<netVars, wake, holders, committed, drops, peerVars>>

\* BatchRead of the next part; without the batch the run fails.
ReadPart(l) ==
    /\ At(l, "read")
    /\ Goes(l, IF outbox THEN [run[l] EXCEPT !.pc = "admit"] ELSE Rested(l, "backoff"))
    /\ UNCHANGED <<netVars, wake, batchVars, peerVars>>

\* Mutant of DropsBatch: every lane that has committed drops the batch.
DropsBatchWhenDone(l, done) == committed \/ done

\* The last holder drops a batch that some holder committed.
DropsBatch(l, done) == holders = {l} /\ (committed \/ done)

\* releaseBatch.  The drop may fail, or be carried out after its caller gave
\* up, which ends a run that has not ended yet.
ReleaseBatch(l) ==
    /\ At(l, "release")
    /\ LET done == run[l].then = "admit"
           drop == DropsBatch(l, done)
       IN  /\ holders' = holders \ {l}
           /\ committed' = (holders # {l} /\ (committed \/ done))
           /\ \/ /\ outbox' = (outbox /\ ~drop)
                 /\ Goes(l, IF done THEN [run[l] EXCEPT !.pc = "admit", !.stage = "apply"]
                            ELSE [NoRun EXCEPT !.pc = run[l].then])
                 /\ UNCHANGED <<drops, events>>
              \/ /\ drop /\ Happens
                 /\ Goes(l, [NoRun EXCEPT !.pc = IF ~done THEN run[l].then
                                                 ELSE IF Interrupted(mon[Self], run[l])
                                                 THEN PauseFor(mon[Self], run[l])
                                                 ELSE "backoff"])
                 /\ drops' \in {drops, drops + 1} \cap 0..MaxLate
                 /\ UNCHANGED outbox
    /\ UNCHANGED <<netRest, mon, wake, torn, peerVars>>

StrayDrop ==
    /\ drops > 0
    /\ drops' = drops - 1
    /\ torn' = (torn \/ outbox)
    /\ outbox' = FALSE
    /\ UNCHANGED <<netVars, senderVars, holders, committed, peerVars>>
-----------------------------------------------------------------------------
(***************************************************************************)
(* Bulk calls: a request carries the peer's epoch of the admission, and    *)
(* the receiver refuses it before it looks at anything else.  (The sender's*)
(* declared state, which begin and put carry too, is the one it was        *)
(* admitted with, and unrestricted.)                                       *)
(***************************************************************************)
\* Mutant of Refusal: only the present state counts.
RefusalNow(l, admitted) == ~Unrestricted(Refreshed(l))

Refusal(l, admitted) == ~Unrestricted(Refreshed(l)) \/ Refreshed(l).epoch # admitted

\* The part a put carries, as a set.
Next1(left) == IF left = {} THEN {} ELSE {CHOOSE i \in left : TRUE}

\* What a stage does at the receiver.  A part of a committed batch is accepted
\* and not written; a batch commits once all of it is there.
Effect(l, stage, part) ==
    /\ staged' = [staged EXCEPT ![l] = IF stage = "put" /\ ~stored[l] THEN @ \cup part
                                       ELSE IF stage = "commit" /\ @ = Part THEN {}
                                       ELSE @]
    /\ stored' = [stored EXCEPT ![l] = @ \/ (stage = "commit" /\ staged[l] = Part)]
    /\ applied' = [applied EXCEPT ![l] = @ \/ stage = "apply"]

\* Where the run goes after a call that was taken: it sends the objects the
\* peer lacks, in the parts the peer does not hold.
After(l) ==
    LET r    == [run[l] EXCEPT !.pc = "admit"]
        seen == [r EXCEPT !.seen = SeenBy(l),
                          !.left = IF r.stage = "put" THEN @ \ Next1(@)
                                   ELSE IF stored[l] THEN {} ELSE Part \ staged[l]]
    IN  CASE r.stage = "have"   -> IF stored[l] THEN [r EXCEPT !.stage = "apply"]
                                   ELSE [r EXCEPT !.pc = "hold"]
          [] r.stage \in {"begin", "put"} ->
                IF seen.left = {} THEN [seen EXCEPT !.stage = "commit"]
                ELSE [seen EXCEPT !.stage = "put", !.pc = "read"]
          [] r.stage = "commit" -> IF stored'[l] THEN [r EXCEPT !.pc = "release", !.then = "admit"]
                                   ELSE Rested(l, "backoff")
          [] r.stage = "apply"  -> [NoRun EXCEPT !.pc = "idle"]

Serve(l) ==
    /\ At(l, "call")
    /\ run[l].session
    /\ Free(l)
    /\ ~Refusal(l, run[l].peer)
    /\ mon' = [mon EXCEPT ![l] = Refreshed(l)]
    /\ Effect(l, run[l].stage, Next1(run[l].left))
    /\ Goes(l, After(l))
    /\ UNCHANGED <<netRest, events, wake, batchVars, late>>

\* Mutant of ServeRefuses: a refused call is tried again under the same admission.
ServeRefusesInPlace(l) ==
    /\ At(l, "call")
    /\ run[l].session
    /\ Free(l)
    /\ Refusal(l, run[l].peer)
    /\ mon' = [mon EXCEPT ![l] = Refreshed(l)]
    /\ UNCHANGED <<netRest, events, senderVars, batchVars, peerVars>>

\* The typed refusal: the receiver is restricted, or was.
ServeRefuses(l) ==
    /\ At(l, "call")
    /\ run[l].session
    /\ Free(l)
    /\ Refusal(l, run[l].peer)
    /\ mon' = [mon EXCEPT ![l] = Refreshed(l)]
    /\ Goes(l, Rested(l, IF Unrestricted(Refreshed(l)) THEN "restart" ELSE "paused"))
    /\ UNCHANGED <<netRest, events, wake, batchVars, peerVars>>

\* The request of a run that gives up on its call may still be on its way.
MayOutlive(l) ==
    \/ UNCHANGED late
    \/ /\ At(l, "call") /\ run[l].session
       /\ Cardinality({q \in late : q.lane = l}) < MaxLate
       /\ late' = late \cup {[lane |-> l, stage |-> run[l].stage,
                              part |-> Next1(run[l].left), admitted |-> run[l].peer,
                              cut |-> "peer" \in run[l].cut]}

LateServe(q) ==
    /\ q \in late
    /\ Free(q.lane)
    /\ ~Refusal(q.lane, q.admitted)
    /\ mon' = [mon EXCEPT ![q.lane] = Refreshed(q.lane)]
    /\ Effect(q.lane, q.stage, q.part)
    /\ late' = late \ {q}
    /\ UNCHANGED <<netRest, events, senderVars, batchVars>>

\* watchLocal: this host was restricted since the admission, which cancels
\* the transfer and the call it is at.  apply is not watched.
WatchLocal(l) ==
    /\ run[l].pc \in {"admit", "call", "hold", "build", "read"} /\ run[l].stage # "apply"
    /\ Free(Self)
    /\ LET local == Refreshed(Self)
       IN  /\ Interrupted(local, run[l])
           /\ mon' = [mon EXCEPT ![Self] = local]
           /\ wake' = [k \in Lane |-> Closed(k)]
           /\ Goes(l, Rested(l, PauseFor(local, run[l])))
    /\ MayOutlive(l)
    /\ UNCHANGED <<netRest, events, batchVars, staged, stored, applied>>

\* A session that has ended fails its calls; any other call may fail.
Fails(l) == IF run[l].session THEN Happens ELSE UNCHANGED events

\* unreachable: a probe that fails pauses the run.
ProbeFails(l) ==
    /\ run[l].pc \in {"probe", "admit"}
    /\ IF At(l, "probe") THEN Happens ELSE Fails(l)
    /\ ObserveLocal(l)
    /\ Goes(l, Rested(l, IF Unrestricted(Refreshed(Self)) THEN "paused" ELSE "pausedLocal"))
    /\ UNCHANGED <<netRest, batchVars, peerVars>>

\* A bulk call fails, or one to the local store (build, read).
CallFails(l) ==
    /\ \/ At(l, "call") /\ Fails(l) /\ MayOutlive(l)
       \/ run[l].pc \in {"build", "read"} /\ Happens /\ UNCHANGED late
    /\ Goes(l, Rested(l, "backoff"))
    /\ UNCHANGED <<netRest, mon, wake, batchVars, staged, stored, applied>>

\* A receiver's process restarts; its sessions end, and so do the calls in it.
Restart(p) ==
    /\ Happens
    /\ mon' = [mon EXCEPT ![p] = Reopened(p)]
    /\ stat' = [stat EXCEPT ![p] = Unlocked]
    /\ run' = [run EXCEPT ![p].session = FALSE, ![p].cut = @ \cup {"peer"}]
    /\ late' = {q \in late : q.lane # p}
    /\ UNCHANGED <<file, editMark, saving, wake, batchVars, staged, stored, applied>>

LaneStep(l) ==
    \/ Due(l) \/ Probe(l) \/ Gate(l) \/ Admit(l) \/ AdmitPauses(l) \/ HoldBatch(l)
    \/ BuildBatch(l) \/ ReadPart(l) \/ ReleaseBatch(l) \/ Serve(l) \/ ServeRefuses(l)
    \/ WatchLocal(l)

\* A step of a monitor or of its environment.  A change of this host's monitor
\* closes the channels the lanes hold; what it restricts cuts into the runs
\* and the calls that were admitted before.
Network ==
    /\ NetStep
    /\ wake' = [l \in Lane |-> Closed(l)]
    /\ run' = [l \in Lane |->
                  [run[l] EXCEPT !.cut = IF run[l].pc \in Rests \cup {"probe"} THEN {}
                                         ELSE @ \cup (IF Restricts(Self) THEN {"local"} ELSE {})
                                                \cup (IF Restricts(l) THEN {"peer"} ELSE {})]]
    /\ late' = {[q EXCEPT !.cut = @ \/ Restricts(q.lane)] : q \in late}
    /\ UNCHANGED <<batchVars, staged, stored, applied>>

Next ==
    \/ Network
    \/ \E l \in Lane : LaneStep(l) \/ Reprobe(l) \/ ProbeFails(l) \/ CallFails(l) \/ Restart(l)
    \/ \E q \in late : LateServe(q)
    \/ StrayDrop

Spec == Init /\ [][Next]_vars

(***************************************************************************)
(* Fairness.  A worker's goroutine runs, its timer fires, a peer answers,  *)
(* and a monitor sweeps its setting every second.  A call on a session     *)
(* that has ended fails.  Strong for a lane, which competes with the       *)
(* watcher for the monitor's lock: a Go mutex starves nobody.              *)
(***************************************************************************)
FailsBroken(l) == ~run[l].session /\ CallFails(l)

Fairness ==
    /\ \A l \in Lane : SF_vars(LaneStep(l) \/ FailsBroken(l))
    /\ \A h \in Host : WF_vars(Network /\ (WatchStat(h) \/ WatchLoad(h)))

FairSpec == Spec /\ Fairness

-----------------------------------------------------------------------------
(* A receiver takes a bulk call only if nothing restricted its network since
   the run that sent it was admitted: no path update, and no setting the
   operator saved in full, even one taken back or deleted before the monitor
   looked, and also when the call arrives after its run has ended, or the
   receiver has restarted and counts epochs anew. *)
TakenUnrestricted ==
    [][/\ \A l \in Lane : Serve(l) => "peer" \notin run[l].cut
       /\ \A q \in late : LateServe(q) => ~q.cut]_vars

(* A run sends its next bulk call only if nothing restricted this host's
   network since it was admitted. *)
SentUnrestricted ==
    [][\A l \in Lane : Admit(l) => "local" \notin run[l].cut]_vars

(* The batch a lane has built stays in the outbox until the lane lets go of
   it, whatever the lanes it shares the batch with do, unless a drop that
   outlived its caller hits it. *)
HeldBatchStays ==
    \A l \in holders : run[l].pc \in {"admit", "call", "read"} => outbox \/ torn

(* A lane that waits for this host's network is woken by its change: once
   the monitor has seen the restriction end, the wake channel is closed. *)
LocalPauseWakes ==
    \A l \in Lane : At(l, "pausedLocal") /\ Unrestricted(mon[Self]) => wake[l]

(* Once both networks stay unrestricted, every lane finishes its transfer,
   through refusals, restarts, lost calls and batches dropped under it. *)
TransfersFinish ==
    \A l \in Lane : <>[](Unrestricted(mon[Self]) /\ Unrestricted(mon[l])) => <>(applied[l] /\ At(l, "idle"))
=============================================================================
