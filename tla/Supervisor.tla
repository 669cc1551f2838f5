----------------------------- MODULE Supervisor -----------------------------
(***************************************************************************)
(* The daemon's supervisor: generations of watch engines and delivery      *)
(* lanes, the reload that swaps them, the reconcile and kick verbs, and    *)
(* shutdown.                                                               *)
(*                                                                         *)
(* What a lane or an engine does is cut down to what a swap can disturb:   *)
(* a run of a lane exports the revision of its service, and calls its      *)
(* service and its peer over the transports of SyncTransport; an engine    *)
(* lists, watches, and leaves evaluations behind that no one waits for.    *)
(* Which evaluations find nothing to tell is the business of Watch.        *)
(***************************************************************************)
EXTENDS Naturals, FiniteSets, SyncTransport

CONSTANTS
    Service,    \* consumers whose manifest may be registered
    Peer,       \* hosts that may be in the mesh
    Dead,       \* addresses of the peers that nothing reaches
    MaxGen,     \* bound on the generations
    MaxEdits,   \* bound on registrations, mesh edits and changes of a service
    MaxFaults   \* bound on the failures

ASSUME SupervisorAssumption ==
    /\ Dead \subseteq 1..Addresses
    /\ MaxGen \in Nat \ {0} /\ MaxEdits \in Nat /\ MaxFaults \in Nat

Gen  == 1..MaxGen
Lane == Service \X Peer

VARIABLES
    disk,       \* the registered manifests, and the hosts of the mesh
    sup,        \* the supervisor: see Sup
    gens,       \* per generation, the services and peers it was built for
    lane,       \* per generation and lane, the worker
    engine,     \* per generation and service, the watch goroutine
    eval,       \* per generation and service, an evaluation is due
    local,      \* per generation and service, the transport to the service
    call,       \* the verb that holds the exclusive mutex of the dispatcher
    nudge,      \* a reload request waits for it
    kick,       \* a kick request, and the scheduler it was handed
    rev,        \* per service, the revision of its content
    acked,      \* per lane, the revision that its peer has
    (* Ghosts, per lane: the revision that somebody kicked the lane for, and
       the one that the watch of its service has seen and no error dropped. *)
    kicked, noticed,
    edits, faults

revVars  == <<rev, acked, kicked, noticed>>
workVars == <<lane, engine, eval, local, revVars>>
vars == <<disk, sup, gens, workVars, call, nudge, kick, edits, faults>>

Sup == [mu: BOOLEAN, gen: 0..MaxGen, running: BOOLEAN, mesh: SUBSET Peer,
        closed: BOOLEAN, settled: BOOLEAN]

\* A worker: where it is, its dirty mark, the revision its run has exported,
\* and the transport of the run.
Off == [pc |-> "off", dirty |-> FALSE, exported |-> 0, remote |-> NewTransport]

NoCall == [verb |-> "none", pc |-> "none", manifests |-> {}]
NoKick == [gen |-> 0, service |-> "none"]

TypeOK ==
    /\ disk \in [manifests: SUBSET Service, hosts: SUBSET Peer]
    /\ sup \in Sup
    /\ gens \in [Gen -> [services: SUBSET Service, peers: SUBSET Peer, canceled: BOOLEAN]]
    /\ lane \in [Gen -> [Lane -> [pc: {"off", "detect", "idle", "run", "gone"},
                                  dirty: BOOLEAN, exported: Nat, remote: Transport]]]
    /\ engine \in [Gen -> [Service -> {"off", "list", "watch", "backoff", "gone"}]]
    /\ eval \in [Gen -> [Service -> BOOLEAN]]
    /\ local \in [Gen -> [Service -> Transport]]
    /\ call \in [verb: {"none", "reload", "reconcile"},
                 pc: {"none", "start", "swap", "drain", "build", "kick"},
                 manifests: SUBSET Service]
    /\ nudge \in BOOLEAN
    /\ kick \in [gen: 0..MaxGen, service: Service \cup {"none"}]
    /\ rev \in [Service -> Nat]
    /\ acked \in [Lane -> Nat] /\ kicked \in [Lane -> Nat] /\ noticed \in [Lane -> Nat]
    /\ edits \in 0..MaxEdits /\ faults \in 0..MaxFaults

\* activateServe: the daemon starts with a reload.
Init ==
    /\ disk \in [manifests: SUBSET Service, hosts: {Peer}]
    /\ sup = [mu |-> FALSE, gen |-> 0, running |-> FALSE, mesh |-> {},
              closed |-> FALSE, settled |-> FALSE]
    /\ gens = [g \in Gen |-> [services |-> {}, peers |-> {}, canceled |-> FALSE]]
    /\ lane = [g \in Gen |-> [l \in Lane |-> Off]]
    /\ engine = [g \in Gen |-> [s \in Service |-> "off"]]
    /\ eval = [g \in Gen |-> [s \in Service |-> FALSE]]
    /\ local = [g \in Gen |-> [s \in Service |-> NewTransport]]
    /\ call = [NoCall EXCEPT !.verb = "reload", !.pc = "start"]
    /\ nudge = FALSE
    /\ kick = NoKick
    /\ rev = [s \in Service |-> 0]
    /\ acked = [l \in Lane |-> 0]
    /\ kicked = [l \in Lane |-> 0] /\ noticed = [l \in Lane |-> 0]
    /\ edits = 0 /\ faults = 0

Fault == faults < MaxFaults /\ faults' = faults + 1
Edit  == edits < MaxEdits /\ edits' = edits + 1

MayFail == faults < MaxFaults

\* A failure is counted, a success is not.
Counted(result) == faults' = IF result = "ok" THEN faults ELSE faults + 1

-----------------------------------------------------------------------------
(***************************************************************************)
(* What others do: consumers register and change, the mesh is edited.      *)
(***************************************************************************)
\* RegisterManifest, UnregisterManifest: the file, then the nudge, which is
\* lost when the daemon cannot be reached.
Register(s) ==
    /\ Edit
    /\ disk' = [disk EXCEPT !.manifests = IF s \in @ THEN @ \ {s} ELSE @ \cup {s}]
    /\ nudge' \in {nudge, TRUE}
    /\ UNCHANGED <<sup, gens, workVars, call, kick, faults>>

EditMesh(p) ==
    /\ Edit
    /\ disk' = [disk EXCEPT !.hosts = IF p \in @ THEN @ \ {p} ELSE @ \cup {p}]
    /\ UNCHANGED <<sup, gens, workVars, call, nudge, kick, faults>>

Change(s) ==
    /\ Edit
    /\ rev' = [rev EXCEPT ![s] = @ + 1]
    /\ UNCHANGED <<disk, sup, gens, lane, engine, eval, local, acked, kicked, noticed, call,
                   nudge, kick, faults>>

-----------------------------------------------------------------------------
(***************************************************************************)
(* The exclusive verbs.                                                    *)
(***************************************************************************)
\* Dispatch: one exclusive handler at a time.
Dispatch(verb) ==
    /\ call = NoCall
    /\ verb = "reload" => nudge
    /\ call' = [NoCall EXCEPT !.verb = verb, !.pc = "start"]
    /\ nudge' = IF verb = "reload" THEN FALSE ELSE nudge
    /\ UNCHANGED <<disk, sup, gens, workVars, kick, edits, faults>>

\* reload reads the manifests before it takes the lock.
Discover ==
    /\ call.pc = "start" /\ call.verb = "reload"
    /\ call' = [call EXCEPT !.pc = "swap", !.manifests = disk.manifests]
    /\ UNCHANGED <<disk, sup, gens, workVars, nudge, kick, edits, faults>>

\* reconcile, after every consumer was reconciled over a transport of its own:
\* a mesh that moved is reloaded.
Compare ==
    /\ call.pc = "start" /\ call.verb = "reconcile"
    /\ call' = IF sup.mesh # disk.hosts
               THEN [call EXCEPT !.pc = "swap", !.manifests = disk.manifests]
               ELSE [call EXCEPT !.pc = "kick"]
    /\ UNCHANGED <<disk, sup, gens, workVars, nudge, kick, edits, faults>>

\* A daemon whose first reload fails does not start.
Failed(s) == IF sup.gen = 0 THEN [s EXCEPT !.closed = TRUE, !.settled = TRUE] ELSE s

\* The manifests or the mesh cannot be read: nothing is swapped.
StartFails ==
    /\ call.pc = "start"
    /\ Fault
    /\ sup' = Failed(sup)
    /\ call' = NoCall
    /\ UNCHANGED <<disk, gens, workVars, nudge, kick, edits>>

\* reload takes the lock and cancels the generation.
Swap ==
    /\ call.pc = "swap"
    /\ ~sup.mu
    /\ IF sup.closed THEN call' = NoCall /\ UNCHANGED <<sup, gens>>
       ELSE /\ sup' = [sup EXCEPT !.mu = TRUE]
            /\ gens' = [g \in Gen |-> [gens[g] EXCEPT !.canceled = @ \/ g = sup.gen]]
            /\ call' = [call EXCEPT !.pc = "drain"]
    /\ UNCHANGED <<disk, workVars, nudge, kick, edits, faults>>

\* The wait group of a generation: its lanes and its watch goroutines.
Joined(g) ==
    /\ \A l \in Lane : lane[g][l].pc \in {"off", "gone"}
    /\ \A s \in Service : engine[g][s] \in {"off", "gone"}

\* The clients of the latest generation are closed.
CloseClients ==
    local' = [g \in Gen |-> [s \in Service |->
                 IF g = sup.gen THEN Close(local[g][s]) ELSE local[g][s]]]

\* reload waits for the generation under the lock, then closes its clients.
Drain ==
    /\ call.pc = "drain"
    /\ sup.gen # 0 => Joined(sup.gen)
    /\ CloseClients
    /\ sup' = [sup EXCEPT !.running = FALSE]
    /\ call' = [call EXCEPT !.pc = "build"]
    /\ UNCHANGED <<disk, gens, lane, engine, eval, revVars, nudge, kick, edits, faults>>

\* Mutant of Started: a lane waits for its first kick.
StartedClean == [Off EXCEPT !.pc = "detect"]

\* A kick of the lanes K is for what their services hold now.
Kicks(K) == kicked' = [l \in Lane |-> IF l \in K THEN rev[l[1]] ELSE kicked[l]]

\* start: every lane is poked before its worker runs.
Started == [Off EXCEPT !.pc = "detect", !.dirty = TRUE]

\* Where the verb goes on: reconcile kicks, reload is done.
After == IF call.verb = "reconcile" THEN [call EXCEPT !.pc = "kick"] ELSE NoCall

\* reload: the next generation.
Build ==
    /\ call.pc = "build"
    /\ sup.gen < MaxGen
    /\ LET g == sup.gen + 1
       IN  /\ gens' = [gens EXCEPT ![g] = [services |-> call.manifests, peers |-> disk.hosts,
                                           canceled |-> FALSE]]
           /\ lane' = [lane EXCEPT ![g] = [l \in Lane |->
                          IF l \in call.manifests \X disk.hosts THEN Started ELSE Off]]
           /\ Kicks(call.manifests \X disk.hosts)
           /\ engine' = [engine EXCEPT ![g] = [s \in Service |->
                            IF s \in call.manifests THEN "list" ELSE "off"]]
           /\ sup' = [sup EXCEPT !.mu = FALSE, !.gen = g, !.running = TRUE,
                                 !.mesh = disk.hosts]
    /\ call' = After
    /\ UNCHANGED <<disk, eval, local, rev, acked, noticed, nudge, kick, edits, faults>>

\* Mutant of Unlocked: the error path keeps the lock.
UnlockedOnSuccess == sup

\* The deferred unlock of a reload that fails.
Unlocked == [sup EXCEPT !.mu = FALSE]

\* reload: the mesh cannot be read; there is no generation now.
BuildFails ==
    /\ call.pc = "build"
    /\ Fault
    /\ sup' = Failed(Unlocked)
    /\ call' = NoCall
    /\ UNCHANGED <<disk, gens, workVars, nudge, kick, edits>>

\* The lanes of the scheduler of a generation.
Lanes(g) == gens[g].services \X gens[g].peers

\* poke, on the lanes of a scheduler.
Poked(g, s) ==
    [lane EXCEPT ![g] = [l \in Lane |->
        IF l[1] = s /\ lane[g][l].pc # "off" THEN [lane[g][l] EXCEPT !.dirty = TRUE]
        ELSE lane[g][l]]]

\* reconcile: every lane of the running scheduler is kicked.
KickAll ==
    /\ call.pc = "kick"
    /\ ~sup.mu
    /\ IF sup.running
       THEN /\ lane' = [lane EXCEPT ![sup.gen] = [l \in Lane |->
                           IF @[l].pc = "off" THEN @[l] ELSE [@[l] EXCEPT !.dirty = TRUE]]]
            /\ Kicks(Lanes(sup.gen))
       ELSE UNCHANGED <<lane, kicked>>
    /\ call' = NoCall
    /\ UNCHANGED <<disk, sup, gens, engine, eval, local, rev, acked, noticed, nudge, kick, edits,
                   faults>>

-----------------------------------------------------------------------------
(***************************************************************************)
(* The kick verb: deliveries hands out the scheduler under the lock, and   *)
(* the kick comes after it, whatever became of that scheduler.             *)
(***************************************************************************)
\* The lanes of a service there.
LanesOf(g, s) == {l \in Lanes(g) : l[1] = s}

Deliveries(s) ==
    /\ kick = NoKick
    /\ ~sup.mu /\ sup.running
    /\ kick' = [gen |-> sup.gen, service |-> s]
    /\ Kicks(LanesOf(sup.gen, s))
    /\ UNCHANGED <<disk, sup, gens, lane, engine, eval, local, rev, acked, noticed, call, nudge,
                   edits, faults>>

Kick ==
    /\ kick # NoKick
    /\ lane' = Poked(kick.gen, kick.service)
    /\ kick' = NoKick
    /\ UNCHANGED <<disk, sup, gens, engine, eval, local, revVars, call, nudge, edits, faults>>

-----------------------------------------------------------------------------
(***************************************************************************)
(* A lane of a generation.                                                 *)
(***************************************************************************)
LaneAt(g, l, pc) == lane[g][l].pc = pc /\ ~gens[g].canceled

Moves(g, l, w) == lane' = [lane EXCEPT ![g][l] = w]

\* A call to the service over the transport of the generation.
LocalDo(g, s) == SpawnedDo(local[g][s], MayFail)

\* awaitCapabilities: until the service answers.
Detect(g, l) ==
    /\ LaneAt(g, l, "detect")
    /\ \E o \in LocalDo(g, l[1]) :
        /\ local' = [local EXCEPT ![g][l[1]] = o.transport]
        /\ Counted(o.result)
        /\ Moves(g, l, IF o.result = "ok" THEN [lane[g][l] EXCEPT !.pc = "idle"] ELSE lane[g][l])
    /\ UNCHANGED <<disk, sup, gens, engine, eval, revVars, call, nudge, kick, edits>>

\* work, deliverOnce, prepare: the lane is cleaned, and runs when the revision
\* it exports is one that the peer lacks.  A failure is retried.
Begin(g, l) ==
    /\ LaneAt(g, l, "idle") /\ lane[g][l].dirty
    /\ \E o \in LocalDo(g, l[1]) :
        /\ local' = [local EXCEPT ![g][l[1]] = o.transport]
        /\ Counted(o.result)
        /\ Moves(g, l, CASE o.result # "ok" -> lane[g][l]
                         [] acked[l] < rev[l[1]] ->
                              [lane[g][l] EXCEPT !.pc = "run", !.dirty = FALSE,
                                                 !.exported = rev[l[1]], !.remote = NewTransport]
                         [] OTHER -> [lane[g][l] EXCEPT !.dirty = FALSE])
    /\ UNCHANGED <<disk, sup, gens, engine, eval, revVars, call, nudge, kick, edits>>

\* The end of an attempt: the transport is closed, and forgotten.
Attempted(g, l, again) ==
    [lane[g][l] EXCEPT !.pc = "idle", !.dirty = @ \/ again, !.exported = 0,
                       !.remote = NewTransport]

\* deliverPending: a call to the peer, of those that come before the apply
\* or the apply itself.  One that fails ends the attempt; the apply leaves the
\* peer with the revision that the run has exported.
Deliver(g, l) ==
    /\ LaneAt(g, l, "run")
    /\ \E o \in RemoteDo(lane[g][l].remote, Dead, MayFail), last \in BOOLEAN :
        /\ o.result = "ok" /\ lane[g][l].remote.lane => last
        /\ Moves(g, l, CASE o.result # "ok" -> Attempted(g, l, TRUE)
                         [] last   -> Attempted(g, l, FALSE)
                         [] OTHER  -> [lane[g][l] EXCEPT !.remote = o.transport])
        /\ acked' = IF o.result = "ok" /\ last
                    THEN [acked EXCEPT ![l] = lane[g][l].exported] ELSE acked
        /\ faults' = IF o.result = "ok" \/ lane[g][l].remote.index \in Dead THEN faults
                     ELSE faults + 1
    /\ UNCHANGED <<disk, sup, gens, engine, eval, local, rev, kicked, noticed, call, nudge, kick,
                   edits>>

\* The context of the generation is done.
LaneLeaves(g, l) ==
    /\ lane[g][l].pc \in {"detect", "idle", "run"}
    /\ gens[g].canceled
    /\ Moves(g, l, [Off EXCEPT !.pc = "gone"])
    /\ UNCHANGED <<disk, sup, gens, engine, eval, local, revVars, call, nudge, kick, edits, faults>>

-----------------------------------------------------------------------------
(***************************************************************************)
(* A watch goroutine of a generation: superviseWatch.                      *)
(***************************************************************************)
EngineAt(g, s, pc) == engine[g][s] = pc /\ ~gens[g].canceled

Turns(g, s, pc) == engine' = [engine EXCEPT ![g][s] = pc]

\* listForEngine.
List(g, s) ==
    /\ EngineAt(g, s, "list")
    /\ \E o \in LocalDo(g, s) :
        /\ local' = [local EXCEPT ![g][s] = o.transport]
        /\ Counted(o.result)
        /\ Turns(g, s, IF o.result = "ok" THEN "watch" ELSE "backoff")
    /\ UNCHANGED <<disk, sup, gens, lane, eval, revVars, call, nudge, kick, edits>>

BackendExits(g, s) ==
    /\ EngineAt(g, s, "watch")
    /\ Fault
    /\ Turns(g, s, "backoff")
    /\ UNCHANGED <<disk, sup, gens, lane, eval, local, revVars, call, nudge, kick, edits>>

\* sleepCtx, then another run.
Restart(g, s) ==
    /\ EngineAt(g, s, "backoff")
    /\ Turns(g, s, "list")
    /\ UNCHANGED <<disk, sup, gens, lane, eval, local, revVars, call, nudge, kick, edits, faults>>

EngineLeaves(g, s) ==
    /\ engine[g][s] \in {"list", "watch", "backoff"}
    /\ gens[g].canceled
    /\ Turns(g, s, "gone")
    /\ UNCHANGED <<disk, sup, gens, lane, eval, local, revVars, call, nudge, kick, edits, faults>>

\* OnEvent: an evaluation is due, on a timer.
OnEvent(g, s) ==
    /\ EngineAt(g, s, "watch")
    /\ ~eval[g][s]
    /\ \E l \in LanesOf(g, s) : noticed[l] < rev[s]
    /\ eval' = [eval EXCEPT ![g][s] = TRUE]
    /\ noticed' = [l \in Lane |-> IF l \in LanesOf(g, s) THEN rev[s] ELSE noticed[l]]
    /\ UNCHANGED <<disk, sup, gens, lane, engine, local, rev, acked, kicked, call, nudge, kick,
                   edits, faults>>

\* The evaluation, which no wait group knows: it lists the service, and kicks
\* the lanes of its own generation.  When the gate's list and the resolver's
\* both fail, it drops what was noticed until the next event; calls fail
\* anyhow once the context of the generation is done.
Evaluate(g, s) ==
    /\ eval[g][s]
    /\ \E o \in SpawnedDo(local[g][s], MayFail \/ gens[g].canceled) :
        /\ local' = [local EXCEPT ![g][s] = o.transport]
        /\ IF o.result = "ok"
           THEN lane' = Poked(g, s) /\ Kicks(LanesOf(g, s)) /\ UNCHANGED <<noticed, faults>>
           ELSE /\ UNCHANGED <<lane, kicked>>
                /\ IF gens[g].canceled THEN UNCHANGED <<noticed, faults>>
                   ELSE /\ noticed' = [l \in Lane |-> IF l[1] = s THEN 0 ELSE noticed[l]]
                        /\ faults' = faults + 1
    /\ eval' = [eval EXCEPT ![g][s] = FALSE]
    /\ UNCHANGED <<disk, sup, gens, engine, rev, acked, call, nudge, kick, edits>>

-----------------------------------------------------------------------------
(***************************************************************************)
(* Shutdown: the lifetime of the activation ends, close and wait.          *)
(***************************************************************************)
CloseSup ==
    /\ ~sup.mu /\ ~sup.closed
    /\ sup' = [sup EXCEPT !.closed = TRUE]
    /\ gens' = [g \in Gen |-> [gens[g] EXCEPT !.canceled = @ \/ g = sup.gen]]
    /\ UNCHANGED <<disk, workVars, call, nudge, kick, edits, faults>>

Wait ==
    /\ sup.closed /\ ~sup.settled /\ ~sup.mu
    /\ sup.gen # 0 => Joined(sup.gen)
    /\ CloseClients
    /\ sup' = [sup EXCEPT !.settled = TRUE, !.running = FALSE]
    /\ UNCHANGED <<disk, gens, lane, engine, eval, revVars, call, nudge, kick, edits, faults>>

\* Drain and Close of the product.
Shutdown == CloseSup \/ Wait

Verb == Discover \/ Compare \/ Swap \/ Drain \/ Build \/ KickAll

LaneStep(g, l) == Detect(g, l) \/ Begin(g, l) \/ Deliver(g, l) \/ LaneLeaves(g, l)

EngineStep(g, s) == List(g, s) \/ Restart(g, s) \/ EngineLeaves(g, s)

Next ==
    \/ \E s \in Service : Register(s) \/ Change(s) \/ Deliveries(s)
    \/ \E p \in Peer : EditMesh(p)
    \/ \E verb \in {"reload", "reconcile"} : Dispatch(verb)
    \/ Verb \/ StartFails \/ BuildFails \/ Kick
    \/ \E g \in Gen, l \in Lane : LaneStep(g, l)
    \/ \E g \in Gen, s \in Service :
        EngineStep(g, s) \/ BackendExits(g, s) \/ OnEvent(g, s) \/ Evaluate(g, s)
    \/ Shutdown

Spec == Init /\ [][Next]_vars

(***************************************************************************)
(* Fairness: the handler of a verb, the workers, the timers and the kick   *)
(* that was handed a scheduler go on.  Nobody has to call a verb, and a    *)
(* nudge that arrived is dispatched.                                       *)
(***************************************************************************)
Fairness ==
    /\ WF_vars(Verb) /\ WF_vars(Kick) /\ WF_vars(Dispatch("reload")) /\ WF_vars(Wait)
    /\ \A g \in Gen, l \in Lane : WF_vars(LaneStep(g, l))
    /\ \A g \in Gen, s \in Service : WF_vars(EngineStep(g, s)) /\ WF_vars(Evaluate(g, s))

FairSpec == Spec /\ Fairness

-----------------------------------------------------------------------------
\* A generation whose clients have been closed, or that was replaced.
Retired(g) ==
    \/ g < sup.gen
    \/ g = sup.gen /\ (sup.settled \/ (~sup.mu /\ ~sup.running))

(* No process outlives its generation: once a reload or a shutdown is through
   with a generation, no child of its service transports and no ssh session
   of its lanes is alive, whatever its evaluations and the kicks that hold
   its scheduler still do. *)
RetiredOwnsNothing ==
    \A g \in Gen : Retired(g) =>
        /\ \A s \in Service : ~local[g][s].child
        /\ \A l \in Lane : ~lane[g][l].remote.child

(* A reload never waits forever for what it swaps, and a verb that fails
   leaves the daemon ready for the next. *)
VerbsFinish == call # NoCall ~> call = NoCall

\* The supervisor runs a generation with the lane.
Serves(l) == sup.running /\ ~sup.closed /\ l \in Lanes(sup.gen)

\* The lane was kicked for revision r or a later one, by a verb, an evaluation
\* or the start of a generation, or the watch of its service saw it and no
\* error dropped that.
Due(l, r) == kicked[l] >= r \/ noticed[l] >= r

(* What a lane was kicked for its peer gets, in that revision or a later one,
   also when the kick lands in the middle of a run, or on the scheduler of a
   generation that a reload has retired; and so does what the watch of its
   service saw, unless an error of the evaluation drops it: as long as the
   daemon goes on to serve the lane. *)
SwapKeepsKicks ==
    \A l \in Lane, r \in 1..MaxEdits :
        <>[]Serves(l) => (Due(l, r) ~> acked[l] >= r \/ ~Due(l, r))
=============================================================================
