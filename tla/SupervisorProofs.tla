-------------------------- MODULE SupervisorProofs --------------------------
(***************************************************************************)
(* A generation the supervisor is through with owns no process, for any    *)
(* services, peers, addresses and bounds.                                  *)
(***************************************************************************)
EXTENDS Supervisor, TLAPS

(* The lock is held by a verb that drains or builds; a supervisor that is
   closed is not swapped, and after a drain no generation runs. *)
Locked ==
    /\ sup.mu <=> call.pc \in {"drain", "build"}
    /\ sup.mu => ~sup.closed
    /\ sup.settled => sup.closed
    /\ call.pc = "build" => ~sup.running

(* What is drained has been canceled. *)
Canceled ==
    (call.pc = "drain" \/ sup.closed) /\ sup.gen # 0 => gens[sup.gen].canceled

(* A transport that is closed has no child, and belongs to a generation that
   has been canceled: no worker runs into it. *)
ClosedOwnsNothing ==
    \A g \in Gen : \A s \in Service : local[g][s].closed =>
        ~local[g][s].child /\ gens[g].canceled /\ g <= sup.gen

(* A lane has a session to its peer only in an attempt. *)
SessionsRun ==
    \A g \in Gen : \A l \in Lane :
        /\ lane[g][l].pc # "run" => ~lane[g][l].remote.child
        /\ ~lane[g][l].remote.closed

(* The supervisor is through with a generation: also under the lock, between
   the drain and the next generation. *)
Through(g) == g < sup.gen \/ (g = sup.gen /\ (sup.settled \/ ~sup.running))

(* Its clients are closed, so that a late evaluation cannot start a child, and
   its lanes are gone, so that a late kick cannot wake one. *)
ThroughIsOver ==
    \A g \in Gen : Through(g) =>
        /\ \A s \in Service : local[g][s].closed
        /\ \A l \in Lane : lane[g][l].pc \in {"off", "gone"}

IndInv ==
    /\ TypeOK
    /\ Locked
    /\ Canceled
    /\ ClosedOwnsNothing
    /\ SessionsRun
    /\ ThroughIsOver

-----------------------------------------------------------------------------
(***************************************************************************)
(* Transports.                                                             *)
(***************************************************************************)
(* A transport that was never used. *)
LEMMA NewTransportType ==
    NewTransport \in Transport /\ ~NewTransport.child /\ ~NewTransport.closed
BY AddressesAssumption DEF NewTransport, Transport

(* A transport with its child, and one that was reset. *)
LEMMA OpenedType ==
    ASSUME NEW t \in Transport
    PROVE  /\ Opened(t) \in Transport /\ Opened(t).closed = t.closed
           /\ Reset(t) \in Transport /\ Reset(t).closed = t.closed /\ ~Reset(t).child
BY DEF Opened, Reset, Transport

(* spawnedTransport.Do neither closes a transport nor opens a closed one, and
   fails only where it may. *)
LEMMA SpawnedFacts ==
    ASSUME NEW t \in Transport, NEW mayFail, NEW o \in SpawnedDo(t, mayFail)
    PROVE  /\ o.transport \in Transport
           /\ o.transport.closed = t.closed
           /\ t.closed => o.transport = t
           /\ o.result = "ok" \/ t.closed \/ mayFail
BY OpenedType DEF SpawnedDo, Refuses, Outcome

(* remoteTransport.Do, on a transport that is open. *)
LEMMA RemoteFacts ==
    ASSUME NEW t \in Transport, ~t.closed, NEW mayFail, NEW o \in RemoteDo(t, Dead, mayFail)
    PROVE  /\ o.transport \in Transport
           /\ ~o.transport.closed
           /\ o.result = "ok" \/ t.index \in Dead \/ mayFail
<1>1. NextIndex(t) \in 1..Addresses
    BY AddressesAssumption DEF NextIndex, Transport
<1> DEFINE u == [Reset(t) EXCEPT !.index = NextIndex(t)]
<1>2. u \in Transport /\ ~u.closed
    BY <1>1, OpenedType DEF Transport
<1> HIDE DEF u
<1>3. o \in {Outcome(u, "undispatched"), Outcome(Opened(t), "ok"), Outcome(Reset(t), "failed")}
    BY DEF RemoteDo, Refuses, u
<1>4. o.transport \in Transport /\ ~o.transport.closed
    BY <1>2, <1>3, OpenedType DEF Outcome
<1>5. o.result = "ok" \/ t.index \in Dead \/ mayFail
    BY DEF RemoteDo, Refuses, Outcome
<1>6. QED
    BY <1>4, <1>5

(* Close: no child is left, if a closed transport had none. *)
LEMMA CloseFacts ==
    ASSUME NEW t \in Transport, t.closed => ~t.child
    PROVE  Close(t) \in Transport /\ Close(t).closed /\ ~Close(t).child
<1>1. Reset(t) \in Transport /\ ~Reset(t).child
    BY OpenedType
<1>2. LET u == [Reset(t) EXCEPT !.closed = TRUE]
      IN  u \in Transport /\ u.closed /\ ~u.child
    BY <1>1 DEF Transport
<1>3. QED
    BY <1>2 DEF Close

-----------------------------------------------------------------------------
(***************************************************************************)
(* Lanes and clients.                                                      *)
(***************************************************************************)
Worker == [pc: {"off", "detect", "idle", "run", "gone"}, dirty: BOOLEAN, exported: Nat,
           remote: Transport]

LanesTyped  == lane \in [Gen -> [Lane -> Worker]]
LocalsTyped == local \in [Gen -> [Service -> Transport]]

(* A worker that is off, started or gone. *)
LEMMA OffType ==
    /\ Off \in Worker /\ Off.pc = "off" /\ Off.remote = NewTransport
    /\ Started \in Worker /\ Started.pc = "detect" /\ Started.remote = NewTransport
    /\ LET w == [Off EXCEPT !.pc = "gone"]
       IN  w \in Worker /\ w.pc = "gone" /\ w.remote = NewTransport
BY NewTransportType DEF Off, Started, Worker

(* What a worker may become: it has no session unless it runs. *)
Sound(w) == w \in Worker /\ (w.pc # "run" => ~w.remote.child) /\ ~w.remote.closed

(* Every worker is sound, and one that is off or gone stays so. *)
LaneQuiet ==
    /\ LanesTyped'
    /\ \A g \in Gen : \A l \in Lane :
        /\ Sound(lane[g][l])'
        /\ lane[g][l].pc \in {"off", "gone"} => lane'[g][l].pc \in {"off", "gone"}

(* No client is closed or opened. *)
LocalQuiet ==
    /\ LocalsTyped'
    /\ \A g \in Gen : \A s \in Service :
        /\ local'[g][s].closed = local[g][s].closed
        /\ local[g][s].closed => local'[g][s] = local[g][s]

(* The types of the workers and of the clients. *)
LEMMA WorkTyped ==
    ASSUME IndInv
    PROVE  /\ LanesTyped /\ LocalsTyped
           /\ \A g \in Gen : \A l \in Lane : Sound(lane[g][l])
<1>1. LanesTyped /\ LocalsTyped
    BY DEF IndInv, TypeOK, LanesTyped, LocalsTyped, Worker
<1>2. \A g \in Gen : \A l \in Lane : lane[g][l] \in Worker
    BY <1>1 DEF LanesTyped
<1>3. QED
    BY <1>1, <1>2 DEF IndInv, SessionsRun, Sound

(* One worker moves. *)
LEMMA MovesQuiet ==
    ASSUME IndInv, NEW g \in Gen, NEW l \in Lane, NEW w, Sound(w),
           lane[g][l].pc \in {"detect", "idle", "run"}, Moves(g, l, w)
    PROVE  LaneQuiet
<1>1. lane \in [Gen -> [Lane -> Worker]] /\ w \in Worker
    BY WorkTyped DEF LanesTyped, Sound
<1>2. lane' = [lane EXCEPT ![g] = [lane[g] EXCEPT ![l] = w]]
    BY DEF Moves
<1>3. lane' \in [Gen -> [Lane -> Worker]]
    BY <1>1, <1>2
<1>4. \A h \in Gen : \A k \in Lane :
          lane'[h][k] = IF h = g /\ k = l THEN w ELSE lane[h][k]
    BY <1>1, <1>2
<1>5. \A h \in Gen : \A k \in Lane :
          /\ Sound(lane'[h][k])
          /\ lane[h][k].pc \in {"off", "gone"} => lane'[h][k].pc \in {"off", "gone"}
    BY <1>4, WorkTyped
<1>6. QED
    BY <1>3, <1>5 DEF LaneQuiet, LanesTyped, Sound, Worker, Transport

(* The workers stay. *)
LEMMA LanesStay ==
    ASSUME IndInv, UNCHANGED lane
    PROVE  LaneQuiet
BY WorkTyped DEF LaneQuiet, LanesTyped, Sound

(* A worker that is poked. *)
LEMMA DirtySound ==
    ASSUME NEW w, Sound(w)
    PROVE  LET v == [w EXCEPT !.dirty = TRUE] IN Sound(v) /\ v.pc = w.pc
BY DEF Sound, Worker

(* Every worker may be poked. *)
LEMMA DirtyTyped ==
    ASSUME IndInv, NEW h \in Gen, NEW k \in Lane
    PROVE  [lane[h][k] EXCEPT !.dirty = TRUE] \in Worker
<1>1. Sound(lane[h][k])
    BY WorkTyped
<1>2. Sound([lane[h][k] EXCEPT !.dirty = TRUE])
    BY <1>1, DirtySound
<1>3. QED
    BY <1>2 DEF Sound

(* Workers are poked: the flag is all that moves. *)
LEMMA PokedQuiet ==
    ASSUME IndInv,
           lane' \in [Gen -> [Lane -> Worker]],
           \A h \in Gen : \A k \in Lane :
               lane'[h][k] \in {lane[h][k], [lane[h][k] EXCEPT !.dirty = TRUE]}
    PROVE  LaneQuiet
<1>1. \A h \in Gen : \A k \in Lane :
          /\ Sound(lane'[h][k])
          /\ lane'[h][k].pc = lane[h][k].pc
    <2> SUFFICES ASSUME NEW h \in Gen, NEW k \in Lane
                 PROVE  Sound(lane'[h][k]) /\ lane'[h][k].pc = lane[h][k].pc
        OBVIOUS
    <2>1. Sound(lane[h][k])
        BY WorkTyped
    <2>2. CASE lane'[h][k] = lane[h][k]
        BY <2>1, <2>2
    <2>3. CASE lane'[h][k] = [lane[h][k] EXCEPT !.dirty = TRUE]
        BY <2>1, <2>3, DirtySound
    <2>4. QED
        BY <2>2, <2>3
<1>2. QED
    BY <1>1 DEF LaneQuiet, LanesTyped, Sound

(* One client is called. *)
LEMMA LocalCalled ==
    ASSUME IndInv, NEW g \in Gen, NEW s \in Service, NEW mayFail,
           NEW o \in SpawnedDo(local[g][s], mayFail),
           local' = [local EXCEPT ![g][s] = o.transport]
    PROVE  LocalQuiet
<1>1. local \in [Gen -> [Service -> Transport]]
    BY WorkTyped DEF LocalsTyped
<1>2. /\ o.transport \in Transport
      /\ o.transport.closed = local[g][s].closed
      /\ local[g][s].closed => o.transport = local[g][s]
    BY <1>1, SpawnedFacts
<1>3. local' \in [Gen -> [Service -> Transport]]
    BY <1>1, <1>2
<1>4. \A h \in Gen : \A k \in Service :
          local'[h][k] = IF h = g /\ k = s THEN o.transport ELSE local[h][k]
    BY <1>1
<1>5. QED
    BY <1>2, <1>3, <1>4 DEF LocalQuiet, LocalsTyped

(* The clients stay. *)
LEMMA LocalsStay ==
    ASSUME IndInv, UNCHANGED local
    PROVE  LocalQuiet
BY WorkTyped DEF LocalQuiet, LocalsTyped

-----------------------------------------------------------------------------
(* A step that leaves the supervisor and its generations alone. *)
LEMMA QuietStep ==
    ASSUME IndInv, TypeOK', UNCHANGED <<sup, gens>>, LaneQuiet, LocalQuiet,
           \/ call' = call
           \/ call.pc \notin {"drain", "build"} /\ call'.pc \notin {"drain", "build"}
    PROVE  IndInv'
<1>1. Locked'
    BY DEF IndInv, Locked
<1>2. Canceled'
    BY DEF IndInv, Canceled
<1>3. ClosedOwnsNothing'
    BY DEF IndInv, ClosedOwnsNothing, LocalQuiet
<1>4. SessionsRun'
    BY DEF SessionsRun, LaneQuiet, Sound
<1>5. ThroughIsOver'
    BY DEF IndInv, ThroughIsOver, Through, LaneQuiet, LocalQuiet
<1>6. QED
    BY <1>1, <1>2, <1>3, <1>4, <1>5 DEF IndInv

-----------------------------------------------------------------------------
(***************************************************************************)
(* Bounds, and what others do.                                             *)
(***************************************************************************)
(* Faults and edits are bounded. *)
LEMMA Bounded ==
    ASSUME TypeOK
    PROVE  /\ Fault => faults' \in 0..MaxFaults
           /\ Edit => edits' \in 0..MaxEdits
           /\ MayFail => faults + 1 \in 0..MaxFaults
BY SupervisorAssumption DEF TypeOK, Fault, Edit, MayFail

(* The revisions of the services, and what the lanes have of them. *)
RevsTyped ==
    /\ rev \in [Service -> Nat]
    /\ acked \in [Lane -> Nat] /\ kicked \in [Lane -> Nat] /\ noticed \in [Lane -> Nat]

(* The revision that a lane is kicked for. *)
LEMMA RevType ==
    ASSUME TypeOK, NEW l \in Lane
    PROVE  l[1] \in Service /\ rev[l[1]] \in Nat
BY DEF TypeOK, Lane

(* A kick is for a revision. *)
LEMMA KicksType ==
    ASSUME TypeOK, NEW K, Kicks(K)
    PROVE  kicked' \in [Lane -> Nat]
BY RevType DEF Kicks, TypeOK

(* The revisions stay. *)
LEMMA RevsStay ==
    ASSUME TypeOK, UNCHANGED revVars
    PROVE  RevsTyped'
BY DEF TypeOK, RevsTyped, revVars

(* The initial state. *)
LEMMA InitInv == Init => IndInv
<1> SUFFICES ASSUME Init PROVE IndInv
    OBVIOUS
<1>1. 0 \in 0..MaxGen /\ 0 \in 0..MaxEdits /\ 0 \in 0..MaxFaults
    BY SupervisorAssumption
<1>2. sup \in Sup /\ call \in [verb: {"none", "reload", "reconcile"},
                 pc: {"none", "start", "swap", "drain", "build", "kick"},
                 manifests: SUBSET Service]
      /\ kick \in [gen: 0..MaxGen, service: Service \cup {"none"}]
    BY <1>1 DEF Init, Sup, NoCall, NoKick
<1>3. LanesTyped /\ LocalsTyped
    BY OffType, NewTransportType DEF Init, LanesTyped, LocalsTyped
<1>4. /\ disk \in [manifests: SUBSET Service, hosts: SUBSET Peer]
      /\ gens \in [Gen -> [services: SUBSET Service, peers: SUBSET Peer, canceled: BOOLEAN]]
      /\ engine \in [Gen -> [Service -> {"off", "list", "watch", "backoff", "gone"}]]
    BY DEF Init
<1>5. /\ eval \in [Gen -> [Service -> BOOLEAN]]
      /\ nudge \in BOOLEAN
      /\ rev \in [Service -> Nat]
      /\ acked \in [Lane -> Nat] /\ kicked \in [Lane -> Nat] /\ noticed \in [Lane -> Nat]
    BY DEF Init
<1>6. TypeOK
    BY <1>1, <1>2, <1>3, <1>4, <1>5 DEF Init, TypeOK, LanesTyped, LocalsTyped, Worker
<1>7. Locked /\ Canceled
    BY DEF Init, Locked, Canceled, NoCall
<1>8. ClosedOwnsNothing /\ SessionsRun
    BY OffType, NewTransportType DEF Init, ClosedOwnsNothing, SessionsRun
<1>9. ThroughIsOver
    BY DEF Init, ThroughIsOver, Through, Gen
<1>10. QED
    BY <1>6, <1>7, <1>8, <1>9 DEF IndInv

(* Registrations, edits of the mesh and changes of a service. *)
LEMMA OthersStep ==
    ASSUME IndInv,
           \/ \E s \in Service : Register(s) \/ Change(s) \/ Deliveries(s)
           \/ \E p \in Peer : EditMesh(p)
    PROVE  IndInv'
<1>0. TypeOK
    BY DEF IndInv
<1>1. UNCHANGED <<sup, gens, lane, engine, eval, local, call, faults>>
    BY DEF Register, Change, Deliveries, EditMesh, workVars
<1>2. disk' \in [manifests: SUBSET Service, hosts: SUBSET Peer]
    <2>0. disk \in [manifests: SUBSET Service, hosts: SUBSET Peer]
        BY <1>0 DEF TypeOK
    <2>1. ASSUME NEW s \in Service, Register(s)
          PROVE  disk' \in [manifests: SUBSET Service, hosts: SUBSET Peer]
        BY <2>0, <2>1 DEF Register
    <2>2. ASSUME NEW p \in Peer, EditMesh(p)
          PROVE  disk' \in [manifests: SUBSET Service, hosts: SUBSET Peer]
        BY <2>0, <2>2 DEF EditMesh
    <2>3. ASSUME NEW s \in Service, Change(s) \/ Deliveries(s)
          PROVE  disk' \in [manifests: SUBSET Service, hosts: SUBSET Peer]
        BY <2>0, <2>3 DEF Change, Deliveries
    <2>4. QED
        BY <2>1, <2>2, <2>3
<1>3. edits' \in 0..MaxEdits
    BY <1>0, Bounded DEF Register, Change, Deliveries, EditMesh, TypeOK
<1>4. nudge' \in BOOLEAN
    BY <1>0, Zenon DEF Register, Change, Deliveries, EditMesh, TypeOK
<1>5. kick' \in [gen: 0..MaxGen, service: Service \cup {"none"}]
    <2>0. sup.gen \in 0..MaxGen /\ kick \in [gen: 0..MaxGen, service: Service \cup {"none"}]
        BY <1>0 DEF TypeOK, Sup
    <2>1. ASSUME NEW s \in Service, Deliveries(s)
          PROVE  kick' \in [gen: 0..MaxGen, service: Service \cup {"none"}]
        BY <2>0, <2>1 DEF Deliveries
    <2>2. ASSUME NEW s \in Service, Register(s) \/ Change(s)
          PROVE  kick' = kick
        BY <2>2 DEF Register, Change
    <2>3. ASSUME NEW p \in Peer, EditMesh(p)
          PROVE  kick' = kick
        BY <2>3 DEF EditMesh
    <2>4. QED
        BY <2>0, <2>1, <2>2, <2>3
<1>6. rev' \in [Service -> Nat] /\ UNCHANGED <<acked, noticed>>
    <2>1. UNCHANGED <<acked, noticed>>
        BY DEF Register, Change, Deliveries, EditMesh, workVars, revVars
    <2>2. ASSUME NEW s \in Service, Change(s)
          PROVE  rev' \in [Service -> Nat]
        BY <1>0, <2>2 DEF Change, TypeOK
    <2>3. ASSUME NEW s \in Service, Register(s) \/ Deliveries(s)
          PROVE  rev' = rev
        BY <2>3 DEF Register, Deliveries, workVars, revVars
    <2>4. ASSUME NEW p \in Peer, EditMesh(p)
          PROVE  rev' = rev
        BY <2>4 DEF EditMesh, workVars, revVars
    <2>5. rev \in [Service -> Nat]
        BY <1>0 DEF TypeOK
    <2>6. QED
        BY <2>1, <2>2, <2>3, <2>4, <2>5
<1>7. kicked' \in [Lane -> Nat]
    BY <1>0, KicksType DEF Register, Change, Deliveries, EditMesh, TypeOK, workVars, revVars
<1>8. TypeOK'
    BY <1>0, <1>1, <1>2, <1>3, <1>4, <1>5, <1>6, <1>7 DEF TypeOK
<1>9. QED
    BY <1>1, <1>8, LanesStay, LocalsStay, QuietStep

(* The verbs, where they hold no lock. *)
LEMMA VerbQuietStep ==
    ASSUME IndInv, (\E verb \in {"reload", "reconcile"} : Dispatch(verb)) \/ Discover \/ Compare
    PROVE  IndInv'
<1>0. TypeOK
    BY DEF IndInv
<1>1. UNCHANGED <<disk, sup, gens, lane, engine, eval, local, revVars, kick, edits, faults>>
    BY DEF Dispatch, Discover, Compare, workVars
<1>2. call' \in [verb: {"none", "reload", "reconcile"},
                 pc: {"none", "start", "swap", "drain", "build", "kick"},
                 manifests: SUBSET Service]
    BY <1>0 DEF Dispatch, Discover, Compare, NoCall, TypeOK
<1>3. nudge' \in BOOLEAN
    BY <1>0, Zenon DEF Dispatch, Discover, Compare, TypeOK
<1>4. TypeOK'
    BY <1>0, <1>1, <1>2, <1>3 DEF TypeOK, revVars
<1>5. call.pc \notin {"drain", "build"} /\ call'.pc \notin {"drain", "build"}
    <2>0. call \in [verb: {"none", "reload", "reconcile"},
                    pc: {"none", "start", "swap", "drain", "build", "kick"},
                    manifests: SUBSET Service]
        BY <1>0 DEF TypeOK
    <2>1. CASE \E verb \in {"reload", "reconcile"} : Dispatch(verb)
        BY <2>1 DEF Dispatch, NoCall
    <2>2. CASE Discover
        BY <2>0, <2>2 DEF Discover
    <2>3. CASE Compare
        BY <2>0, <2>3 DEF Compare
    <2>4. QED
        BY <2>1, <2>2, <2>3
<1>6. QED
    BY <1>1, <1>4, <1>5, LanesStay, LocalsStay, QuietStep

-----------------------------------------------------------------------------
(***************************************************************************)
(* Kicks.                                                                  *)
(***************************************************************************)
(* poke reaches the lanes of one scheduler. *)
LEMMA PokedLanes ==
    ASSUME IndInv, NEW g, NEW s, lane' = Poked(g, s)
    PROVE  LaneQuiet
<1>1. lane \in [Gen -> [Lane -> Worker]]
    BY WorkTyped DEF LanesTyped
<1>2. \A h \in Gen : \A k \in Lane : [lane[h][k] EXCEPT !.dirty = TRUE] \in Worker
    BY DirtyTyped
<1>3. DOMAIN lane' = Gen
    BY <1>1 DEF Poked
<1>4. \A h \in Gen : h # g => lane'[h] = lane[h]
    BY <1>1 DEF Poked
<1>5. g \in Gen => lane'[g] = [l \in Lane |->
            IF l[1] = s /\ lane[g][l].pc # "off" THEN [lane[g][l] EXCEPT !.dirty = TRUE]
            ELSE lane[g][l]]
    BY <1>1 DEF Poked
<1>6. \A h \in Gen : \A k \in Lane :
          lane'[h][k] \in {lane[h][k], [lane[h][k] EXCEPT !.dirty = TRUE]}
    <2> TAKE h \in Gen
    <2>1. CASE h # g
        BY <1>4, <2>1
    <2>2. CASE h = g
        BY <1>5, <2>2
    <2>3. QED
        BY <2>1, <2>2
<1>7. lane' = [h \in Gen |-> lane'[h]]
    BY <1>1 DEF Poked
<1>8. \A h \in Gen : lane'[h] \in [Lane -> Worker]
    BY <1>1, <1>2, <1>4, <1>5
<1>9. lane' \in [Gen -> [Lane -> Worker]]
    BY <1>7, <1>8
<1>10. QED
    BY <1>6, <1>9, PokedQuiet

(* The kick verb, whatever became of the scheduler it was handed. *)
LEMMA KickStep ==
    ASSUME IndInv, Kick
    PROVE  IndInv'
<1>0. TypeOK
    BY DEF IndInv
<1>1. UNCHANGED <<disk, sup, gens, engine, eval, local, revVars, call, nudge, edits, faults>>
    BY DEF Kick
<1>2. LaneQuiet
    BY PokedLanes DEF Kick
<1>3. kick' \in [gen: 0..MaxGen, service: Service \cup {"none"}]
    BY SupervisorAssumption DEF Kick, NoKick
<1>4. TypeOK'
    BY <1>0, <1>1, <1>2, <1>3 DEF TypeOK, LaneQuiet, LanesTyped, Worker, revVars
<1>5. QED
    BY <1>1, <1>2, <1>4, LocalsStay, QuietStep

(* reconcile: every lane of the running scheduler. *)
LEMMA KickAllStep ==
    ASSUME IndInv, KickAll
    PROVE  IndInv'
<1>0. TypeOK
    BY DEF IndInv
<1>1. UNCHANGED <<disk, sup, gens, engine, eval, local, rev, acked, noticed, nudge, kick, edits,
                  faults>>
    BY DEF KickAll
<1>2. call' = NoCall /\ call.pc = "kick" /\ NoCall.pc = "none"
    BY DEF KickAll, NoCall
<1>3. LaneQuiet
    <2>1. CASE ~sup.running
        BY <2>1, LanesStay DEF KickAll
    <2>2. CASE sup.running
        <3> DEFINE g == sup.gen
        <3>1. lane \in [Gen -> [Lane -> Worker]]
            BY WorkTyped DEF LanesTyped
        <3>2. \A h \in Gen : \A k \in Lane : [lane[h][k] EXCEPT !.dirty = TRUE] \in Worker
            BY DirtyTyped
        <3>3. lane' = [lane EXCEPT ![g] = [l \in Lane |->
                         IF lane[g][l].pc = "off" THEN lane[g][l]
                         ELSE [lane[g][l] EXCEPT !.dirty = TRUE]]]
            BY <2>2 DEF KickAll
        <3> HIDE DEF g
        <3>4. \A h \in Gen : h # g => lane'[h] = lane[h]
            BY <3>1, <3>3
        <3>5. g \in Gen => lane'[g] = [l \in Lane |->
                         IF lane[g][l].pc = "off" THEN lane[g][l]
                         ELSE [lane[g][l] EXCEPT !.dirty = TRUE]]
            BY <3>1, <3>3
        <3>6. \A h \in Gen : \A k \in Lane :
                  lane'[h][k] \in {lane[h][k], [lane[h][k] EXCEPT !.dirty = TRUE]}
            <4> TAKE h \in Gen
            <4>1. CASE h # g
                BY <3>4, <4>1
            <4>2. CASE h = g
                BY <3>5, <4>2
            <4>3. QED
                BY <4>1, <4>2
        <3>7. lane' = [h \in Gen |-> lane'[h]]
            BY <3>1, <3>3
        <3>8. \A h \in Gen : lane'[h] \in [Lane -> Worker]
            BY <3>1, <3>2, <3>4, <3>5
        <3>9. lane' \in [Gen -> [Lane -> Worker]]
            BY <3>7, <3>8
        <3>10. QED
            BY <3>6, <3>9, PokedQuiet
    <2>3. QED
        BY <2>1, <2>2
<1>4. call' \in [verb: {"none", "reload", "reconcile"},
                 pc: {"none", "start", "swap", "drain", "build", "kick"},
                 manifests: SUBSET Service]
    BY <1>2 DEF NoCall
<1>5. kicked' \in [Lane -> Nat]
    <2>1. CASE sup.running
        BY <1>0, <2>1, KicksType DEF KickAll
    <2>2. CASE ~sup.running
        BY <1>0, <2>2 DEF KickAll, TypeOK
    <2>3. QED
        BY <2>1, <2>2
<1>6. TypeOK'
    BY <1>0, <1>1, <1>3, <1>4, <1>5 DEF TypeOK, LaneQuiet, LanesTyped, Worker
<1>7. QED
    BY <1>1, <1>2, <1>3, <1>6, LocalsStay, QuietStep

-----------------------------------------------------------------------------
(***************************************************************************)
(* Workers of a generation.                                                *)
(***************************************************************************)
(* A call of a worker fails only where it may: its client is not closed. *)
LEMMA CountedType ==
    ASSUME IndInv, NEW g \in Gen, NEW s \in Service, ~gens[g].canceled,
           NEW o \in LocalDo(g, s), Counted(o.result)
    PROVE  faults' \in 0..MaxFaults
<1>1. local[g][s] \in Transport /\ ~local[g][s].closed
    BY WorkTyped DEF LocalsTyped, IndInv, ClosedOwnsNothing
<1>2. o.result = "ok" \/ MayFail
    BY <1>1, SpawnedFacts DEF LocalDo
<1>3. QED
    BY <1>2, Bounded DEF IndInv, TypeOK, Counted

(* A worker goes on: only it, its client, what its peer has and the faults. *)
LEMMA WorkerStep ==
    ASSUME IndInv, LaneQuiet, LocalQuiet, faults' \in 0..MaxFaults, RevsTyped',
           UNCHANGED <<disk, sup, gens, engine, eval, call, nudge, kick, edits>>
    PROVE  IndInv'
<1>1. TypeOK'
    BY DEF IndInv, TypeOK, LaneQuiet, LanesTyped, LocalQuiet, LocalsTyped, Worker, RevsTyped
<1>2. QED
    BY <1>1, QuietStep

(* awaitCapabilities. *)
LEMMA DetectStep ==
    ASSUME IndInv, NEW g \in Gen, NEW l \in Lane, Detect(g, l)
    PROVE  IndInv'
<1>1. /\ lane[g][l].pc = "detect" /\ ~gens[g].canceled /\ l[1] \in Service
      /\ Sound(lane[g][l])
    BY WorkTyped DEF Detect, LaneAt, Lane
<1>2. PICK o \in LocalDo(g, l[1]) :
          /\ local' = [local EXCEPT ![g][l[1]] = o.transport]
          /\ Counted(o.result)
          /\ Moves(g, l, IF o.result = "ok" THEN [lane[g][l] EXCEPT !.pc = "idle"] ELSE lane[g][l])
    BY DEF Detect
<1>3. LocalQuiet
    BY <1>1, <1>2, LocalCalled DEF LocalDo
<1>4. faults' \in 0..MaxFaults
    BY <1>1, <1>2, CountedType
<1>5. Sound([lane[g][l] EXCEPT !.pc = "idle"])
    BY <1>1 DEF Sound, Worker
<1>6. LaneQuiet
    BY <1>1, <1>2, <1>5, MovesQuiet
<1>7. QED
    BY <1>3, <1>4, <1>6, WorkerStep, RevsStay DEF Detect, IndInv

(* work, deliverOnce, prepare. *)
LEMMA BeginStep ==
    ASSUME IndInv, NEW g \in Gen, NEW l \in Lane, Begin(g, l)
    PROVE  IndInv'
<1>1. /\ lane[g][l].pc = "idle" /\ ~gens[g].canceled /\ l[1] \in Service
      /\ Sound(lane[g][l])
    BY WorkTyped DEF Begin, LaneAt, Lane
<1> DEFINE ran == [lane[g][l] EXCEPT !.pc = "run", !.dirty = FALSE,
                                     !.exported = rev[l[1]], !.remote = NewTransport]
<1> DEFINE clean == [lane[g][l] EXCEPT !.dirty = FALSE]
<1>2. PICK o \in LocalDo(g, l[1]) :
          /\ local' = [local EXCEPT ![g][l[1]] = o.transport]
          /\ Counted(o.result)
          /\ Moves(g, l, lane[g][l]) \/ Moves(g, l, ran) \/ Moves(g, l, clean)
    BY DEF Begin
<1>3. LocalQuiet
    BY <1>1, <1>2, LocalCalled DEF LocalDo
<1>4. faults' \in 0..MaxFaults
    BY <1>1, <1>2, CountedType
<1>5. Sound(ran) /\ Sound(clean)
    <2>1. rev[l[1]] \in Nat
        BY RevType DEF IndInv
    <2>2. QED
        BY <1>1, <2>1, NewTransportType DEF Sound, Worker
<1> HIDE DEF ran, clean
<1>6. LaneQuiet
    BY <1>1, <1>2, <1>5, MovesQuiet
<1>7. QED
    BY <1>3, <1>4, <1>6, WorkerStep, RevsStay DEF Begin, IndInv

(* deliverPending: the session is the attempt's. *)
LEMMA DeliverStep ==
    ASSUME IndInv, NEW g \in Gen, NEW l \in Lane, Deliver(g, l)
    PROVE  IndInv'
<1>1. lane[g][l].pc = "run" /\ Sound(lane[g][l]) /\ TypeOK
    BY WorkTyped DEF Deliver, LaneAt, IndInv
<1>2. lane[g][l].remote \in Transport /\ ~lane[g][l].remote.closed /\ lane[g][l] \in Worker
    BY <1>1 DEF Sound, Worker
<1>3. PICK o \in RemoteDo(lane[g][l].remote, Dead, MayFail), last \in BOOLEAN :
          /\ \/ Moves(g, l, Attempted(g, l, TRUE))
             \/ Moves(g, l, Attempted(g, l, FALSE))
             \/ Moves(g, l, [lane[g][l] EXCEPT !.remote = o.transport])
          /\ faults' = IF o.result = "ok" \/ lane[g][l].remote.index \in Dead THEN faults
                       ELSE faults + 1
    BY DEF Deliver
<1>4. o.transport \in Transport /\ ~o.transport.closed
    BY <1>2, RemoteFacts
<1>5. faults' \in 0..MaxFaults
    <2>1. o.result = "ok" \/ lane[g][l].remote.index \in Dead \/ MayFail
        BY <1>2, RemoteFacts
    <2>2. QED
        BY <1>1, <1>3, <2>1, Bounded DEF TypeOK
<1>6. \A again \in BOOLEAN : Sound(Attempted(g, l, again))
    BY <1>2, NewTransportType DEF Sound, Worker, Attempted
<1>7. Sound([lane[g][l] EXCEPT !.remote = o.transport])
    BY <1>1, <1>2, <1>4 DEF Sound, Worker
<1>8. LaneQuiet
    BY <1>1, <1>3, <1>6, <1>7, MovesQuiet
<1>9. RevsTyped'
    <2>1. lane[g][l].exported \in Nat
        BY <1>2 DEF Worker
    <2>2. acked' \in [Lane -> Nat]
        BY <1>1, <2>1 DEF Deliver, TypeOK
    <2>3. QED
        BY <1>1, <2>2 DEF Deliver, TypeOK, RevsTyped
<1>10. QED
    BY <1>5, <1>8, <1>9, LocalsStay, WorkerStep DEF Deliver

(* The worker leaves, and its session ends with it. *)
LEMMA LaneLeavesStep ==
    ASSUME IndInv, NEW g \in Gen, NEW l \in Lane, LaneLeaves(g, l)
    PROVE  IndInv'
<1>1. Sound([Off EXCEPT !.pc = "gone"])
    BY OffType, NewTransportType DEF Sound
<1>2. LaneQuiet
    BY <1>1, MovesQuiet DEF LaneLeaves
<1>3. QED
    BY <1>2, LocalsStay, WorkerStep, RevsStay DEF LaneLeaves, IndInv, TypeOK

(***************************************************************************)
(* Watch goroutines of a generation.                                       *)
(***************************************************************************)
(* A watch goroutine goes on: only it, its client, its evaluation, the lanes
   it pokes, and what it noticed or kicked. *)
LEMMA WatcherStep ==
    ASSUME IndInv, LaneQuiet, LocalQuiet, faults' \in 0..MaxFaults,
           engine' \in [Gen -> [Service -> {"off", "list", "watch", "backoff", "gone"}]],
           eval' \in [Gen -> [Service -> BOOLEAN]], RevsTyped',
           UNCHANGED <<disk, sup, gens, call, nudge, kick, edits>>
    PROVE  IndInv'
<1>1. TypeOK'
    BY DEF IndInv, TypeOK, LaneQuiet, LanesTyped, LocalQuiet, LocalsTyped, Worker, RevsTyped
<1>2. QED
    BY <1>1, QuietStep

(* The program counters of the watch goroutines. *)
LEMMA TurnsType ==
    ASSUME IndInv, NEW g \in Gen, NEW s \in Service,
           NEW pc \in {"off", "list", "watch", "backoff", "gone"}, Turns(g, s, pc)
    PROVE  engine' \in [Gen -> [Service -> {"off", "list", "watch", "backoff", "gone"}]]
BY DEF IndInv, TypeOK, Turns

(* listForEngine. *)
LEMMA ListStep ==
    ASSUME IndInv, NEW g \in Gen, NEW s \in Service, List(g, s)
    PROVE  IndInv'
<1>1. ~gens[g].canceled
    BY DEF List, EngineAt
<1>2. PICK o \in LocalDo(g, s) :
          /\ local' = [local EXCEPT ![g][s] = o.transport]
          /\ Counted(o.result)
          /\ Turns(g, s, IF o.result = "ok" THEN "watch" ELSE "backoff")
    BY DEF List
<1>3. LocalQuiet
    BY <1>2, LocalCalled DEF LocalDo
<1>4. faults' \in 0..MaxFaults
    BY <1>1, <1>2, CountedType
<1>5. engine' \in [Gen -> [Service -> {"off", "list", "watch", "backoff", "gone"}]]
    BY <1>2, TurnsType
<1>6. QED
    BY <1>3, <1>4, <1>5, LanesStay, WatcherStep, RevsStay DEF List, IndInv, TypeOK

(* superviseWatch: exits, restarts, and the end of the generation. *)
LEMMA TurnsStep ==
    ASSUME IndInv, NEW g \in Gen, NEW s \in Service,
           BackendExits(g, s) \/ Restart(g, s) \/ EngineLeaves(g, s)
    PROVE  IndInv'
<1>1. engine' \in [Gen -> [Service -> {"off", "list", "watch", "backoff", "gone"}]]
    BY TurnsType DEF BackendExits, Restart, EngineLeaves
<1>2. faults' \in 0..MaxFaults
    BY Bounded DEF BackendExits, Restart, EngineLeaves, IndInv, TypeOK
<1>3. UNCHANGED <<disk, sup, gens, lane, eval, local, revVars, call, nudge, kick, edits>>
    BY DEF BackendExits, Restart, EngineLeaves
<1>4. QED
    BY <1>1, <1>2, <1>3, LanesStay, LocalsStay, WatcherStep, RevsStay DEF IndInv, TypeOK

(* An evaluation is due. *)
LEMMA EvalType ==
    ASSUME IndInv, NEW g \in Gen, NEW s \in Service, NEW due \in BOOLEAN,
           eval' = [eval EXCEPT ![g][s] = due]
    PROVE  eval' \in [Gen -> [Service -> BOOLEAN]]
BY DEF IndInv, TypeOK

(* OnEvent. *)
LEMMA OnEventStep ==
    ASSUME IndInv, NEW g \in Gen, NEW s \in Service, OnEvent(g, s)
    PROVE  IndInv'
<1>1. eval' \in [Gen -> [Service -> BOOLEAN]]
    BY EvalType DEF OnEvent
<1>2. RevsTyped'
    <2>1. rev[s] \in Nat
        BY DEF IndInv, TypeOK
    <2>2. noticed' \in [Lane -> Nat]
        BY <2>1 DEF OnEvent, IndInv, TypeOK
    <2>3. QED
        BY <2>2 DEF OnEvent, IndInv, TypeOK, RevsTyped
<1>3. QED
    BY <1>1, <1>2, LanesStay, LocalsStay, WatcherStep DEF OnEvent, IndInv, TypeOK

(* An evaluation that outlived its generation finds its client closed. *)
LEMMA EvaluateStep ==
    ASSUME IndInv, NEW g \in Gen, NEW s \in Service, Evaluate(g, s)
    PROVE  IndInv'
<1>1. PICK o \in SpawnedDo(local[g][s], MayFail \/ gens[g].canceled) :
          /\ local' = [local EXCEPT ![g][s] = o.transport]
          /\ IF o.result = "ok"
             THEN lane' = Poked(g, s) /\ Kicks(LanesOf(g, s)) /\ UNCHANGED <<noticed, faults>>
             ELSE /\ UNCHANGED <<lane, kicked>>
                  /\ IF gens[g].canceled THEN UNCHANGED <<noticed, faults>>
                     ELSE /\ noticed' = [l \in Lane |-> IF l[1] = s THEN 0 ELSE noticed[l]]
                          /\ faults' = faults + 1
    BY DEF Evaluate
<1>2. LocalQuiet
    BY <1>1, LocalCalled
<1>3. LaneQuiet
    BY <1>1, PokedLanes, LanesStay
<1>4. eval' \in [Gen -> [Service -> BOOLEAN]]
    BY EvalType DEF Evaluate
<1>5. RevsTyped'
    <2>1. kicked' \in [Lane -> Nat]
        BY <1>1, KicksType DEF IndInv, TypeOK
    <2>2. noticed' \in [Lane -> Nat]
        <3>1. noticed \in [Lane -> Nat]
            BY DEF IndInv, TypeOK
        <3>2. \/ noticed' = noticed
              \/ noticed' = [l \in Lane |-> IF l[1] = s THEN 0 ELSE noticed[l]]
            BY <1>1
        <3>3. QED
            BY <3>1, <3>2
    <2>3. QED
        BY <2>1, <2>2 DEF Evaluate, IndInv, TypeOK, RevsTyped
<1>6. faults' \in 0..MaxFaults
    <2>1. local[g][s] \in Transport /\ (local[g][s].closed => gens[g].canceled)
        BY WorkTyped DEF LocalsTyped, IndInv, ClosedOwnsNothing
    <2>2. o.result = "ok" \/ gens[g].canceled \/ MayFail
        BY <2>1, SpawnedFacts
    <2>3. QED
        BY <1>1, <2>2, Bounded DEF IndInv, TypeOK
<1>7. QED
    BY <1>2, <1>3, <1>4, <1>5, <1>6, WatcherStep DEF Evaluate, IndInv, TypeOK

-----------------------------------------------------------------------------
(***************************************************************************)
(* The steps that swap, end or begin a generation.                         *)
(***************************************************************************)
Calls == [verb: {"none", "reload", "reconcile"},
          pc: {"none", "start", "swap", "drain", "build", "kick"},
          manifests: SUBSET Service]

(* A verb that is over. *)
LEMMA NoCallType == NoCall \in Calls /\ NoCall.pc = "none"
BY DEF NoCall, Calls

(* What the types say of the supervisor. *)
LEMMA SupTyped ==
    ASSUME IndInv
    PROVE  /\ sup \in Sup /\ call \in Calls /\ sup.gen \in 0..MaxGen /\ MaxGen \in Nat
           /\ \A g \in Gen : g \in Nat /\ g # 0
           /\ gens \in [Gen -> [services: SUBSET Service, peers: SUBSET Peer, canceled: BOOLEAN]]
<1>1. sup \in Sup /\ call \in Calls
    BY DEF IndInv, TypeOK, Calls
<1>2. QED
    BY <1>1, SupervisorAssumption DEF IndInv, TypeOK, Sup, Gen

(* A failure of the first reload: the daemon does not start. *)
LEMMA FailedFacts ==
    ASSUME NEW s \in Sup
    PROVE  /\ Failed(s) \in Sup /\ Failed(s).mu = s.mu /\ Failed(s).gen = s.gen
           /\ Failed(s).running = s.running
           /\ sup.gen # 0 => Failed(s) = s
           /\ sup.gen = 0 => Failed(s).closed /\ Failed(s).settled
BY DEF Failed, Sup

(* The manifests or the mesh cannot be read. *)
LEMMA StartFailsStep ==
    ASSUME IndInv, StartFails
    PROVE  IndInv'
<1>1. /\ UNCHANGED <<disk, gens, lane, engine, eval, local, revVars, nudge, kick, edits>>
      /\ call.pc = "start" /\ call' = NoCall /\ sup' = Failed(sup)
    BY DEF StartFails, workVars
<1>2. sup \in Sup /\ sup' \in Sup /\ call' \in Calls /\ call'.pc = "none" /\ sup.gen \in Nat
    BY <1>1, SupTyped, FailedFacts, NoCallType
<1>3. faults' \in 0..MaxFaults
    BY Bounded DEF StartFails, IndInv
<1>4. TypeOK'
    BY <1>1, <1>2, <1>3 DEF IndInv, TypeOK, Calls, revVars
<1>5. ~sup.mu /\ ~sup'.mu /\ sup'.gen = sup.gen
    BY <1>1, <1>2, FailedFacts DEF IndInv, Locked
<1>6. CASE sup.gen # 0
    <2>1. sup' = sup
        BY <1>1, <1>2, <1>6, FailedFacts
    <2>2. QED
        BY <1>1, <1>2, <1>4, <2>1, LanesStay, LocalsStay, QuietStep
<1>7. CASE sup.gen = 0
    <2>1. sup'.closed /\ sup'.settled
        BY <1>1, <1>2, <1>7, FailedFacts
    <2>2. Locked' /\ Canceled'
        BY <1>2, <1>5, <1>7, <2>1 DEF Locked, Canceled
    <2>3. ClosedOwnsNothing' /\ SessionsRun'
        BY <1>1, <1>5 DEF IndInv, ClosedOwnsNothing, SessionsRun
    <2>4. ThroughIsOver'
        BY <1>1, <1>5, <1>7, SupTyped DEF ThroughIsOver, Through
    <2>5. QED
        BY <1>4, <2>2, <2>3, <2>4 DEF IndInv
<1>8. QED
    BY <1>6, <1>7

(* The generation that runs is canceled. *)
CancelsLatest == gens' = [g \in Gen |-> [gens[g] EXCEPT !.canceled = @ \/ g = sup.gen]]

(* What was canceled stays so. *)
LEMMA CancelFacts ==
    ASSUME IndInv, CancelsLatest
    PROVE  /\ gens' \in [Gen -> [services: SUBSET Service, peers: SUBSET Peer, canceled: BOOLEAN]]
           /\ \A g \in Gen : gens[g].canceled => gens'[g].canceled
           /\ sup.gen # 0 => gens'[sup.gen].canceled
<1>1. /\ gens \in [Gen -> [services: SUBSET Service, peers: SUBSET Peer, canceled: BOOLEAN]]
      /\ sup.gen # 0 => sup.gen \in Gen
    BY SupTyped DEF Gen
<1>2. \A g \in Gen : gens'[g] = [gens[g] EXCEPT !.canceled = (gens[g].canceled \/ g = sup.gen)]
    BY DEF CancelsLatest
<1>3. \A g \in Gen :
          /\ gens'[g] \in [services: SUBSET Service, peers: SUBSET Peer, canceled: BOOLEAN]
          /\ gens[g].canceled => gens'[g].canceled
          /\ g = sup.gen => gens'[g].canceled
    <2> TAKE g \in Gen
    <2> DEFINE b == gens[g].canceled \/ g = sup.gen
    <2>1. b \in BOOLEAN /\ gens'[g] = [gens[g] EXCEPT !.canceled = b]
        BY <1>2
    <2>2. (gens[g].canceled => b) /\ (g = sup.gen => b)
        OBVIOUS
    <2> HIDE DEF b
    <2>3. /\ gens'[g] \in [services: SUBSET Service, peers: SUBSET Peer, canceled: BOOLEAN]
          /\ gens'[g].canceled = b
        BY <1>1, <2>1
    <2>4. QED
        BY <2>2, <2>3
<1>4. gens' = [g \in Gen |-> gens'[g]]
    BY DEF CancelsLatest
<1>5. gens' \in [Gen -> [services: SUBSET Service, peers: SUBSET Peer, canceled: BOOLEAN]]
    BY <1>3, <1>4
<1>6. QED
    BY <1>1, <1>3, <1>5

(* reload takes the lock. *)
LEMMA SwapStep ==
    ASSUME IndInv, Swap
    PROVE  IndInv'
<1>0. /\ UNCHANGED <<disk, lane, engine, eval, local, revVars, nudge, kick, edits, faults>>
      /\ call.pc = "swap" /\ ~sup.mu
    BY DEF Swap, workVars
<1>1. sup \in Sup /\ call \in Calls
    BY SupTyped
<1>2. CASE sup.closed
    <2>1. call' = NoCall /\ UNCHANGED <<sup, gens>>
        BY <1>2 DEF Swap
    <2>2. TypeOK'
        BY <1>0, <2>1, NoCallType DEF IndInv, TypeOK, Calls, revVars
    <2>3. QED
        BY <1>0, <2>1, <2>2, NoCallType, LanesStay, LocalsStay, QuietStep
<1>3. CASE ~sup.closed
    <2>1. /\ sup' = [sup EXCEPT !.mu = TRUE] /\ CancelsLatest
          /\ call' = [call EXCEPT !.pc = "drain"]
        BY <1>3 DEF Swap, CancelsLatest
    <2>2. /\ sup' \in Sup /\ sup'.mu /\ sup'.gen = sup.gen /\ sup'.closed = sup.closed
          /\ sup'.settled = sup.settled /\ sup'.running = sup.running
        BY <1>1, <2>1 DEF Sup
    <2>3. call' \in Calls /\ call'.pc = "drain"
        BY <1>1, <2>1 DEF Calls
    <2>4. TypeOK'
        BY <1>0, <2>1, <2>2, <2>3, CancelFacts DEF IndInv, TypeOK, Calls, revVars
    <2>5. Locked' /\ Canceled'
        BY <1>3, <2>1, <2>2, <2>3, CancelFacts DEF IndInv, Locked, Canceled
    <2>6. ClosedOwnsNothing' /\ SessionsRun'
        BY <1>0, <2>1, <2>2, CancelFacts DEF IndInv, ClosedOwnsNothing, SessionsRun
    <2>7. ThroughIsOver'
        BY <1>0, <2>2 DEF IndInv, ThroughIsOver, Through
    <2>8. QED
        BY <2>4, <2>5, <2>6, <2>7 DEF IndInv
<1>4. QED
    BY <1>2, <1>3

(* The clients of the latest generation are closed, the others stay. *)
LEMMA CloseClientsFacts ==
    ASSUME IndInv, CloseClients
    PROVE  /\ LocalsTyped'
           /\ \A g \in Gen : \A s \in Service :
                /\ g = sup.gen => local'[g][s].closed /\ ~local'[g][s].child
                /\ g # sup.gen => local'[g][s] = local[g][s]
<1>1. local \in [Gen -> [Service -> Transport]]
    BY WorkTyped DEF LocalsTyped
<1>2. \A g \in Gen : \A s \in Service :
          /\ Close(local[g][s]) \in Transport /\ Close(local[g][s]).closed
          /\ ~Close(local[g][s]).child
    BY <1>1, CloseFacts DEF IndInv, ClosedOwnsNothing
<1>3. \A g \in Gen : \A s \in Service :
          local'[g][s] = IF g = sup.gen THEN Close(local[g][s]) ELSE local[g][s]
    BY DEF CloseClients
<1>4. local' \in [Gen -> [Service -> Transport]]
    BY <1>1, <1>2 DEF CloseClients
<1>5. QED
    BY <1>2, <1>3, <1>4 DEF LocalsTyped

(* A generation that has been joined, with its clients closed, is over. *)
LEMMA JoinedIsOver ==
    ASSUME IndInv, CloseClients, UNCHANGED <<lane, gens>>,
           sup.gen # 0 => Joined(sup.gen) /\ gens[sup.gen].canceled,
           sup'.gen = sup.gen
    PROVE  ClosedOwnsNothing' /\ SessionsRun' /\ ThroughIsOver'
<1>1. /\ sup.gen \in 0..MaxGen
      /\ \A g \in Gen : g \in Nat /\ g # 0
    BY SupTyped
<1>2. ClosedOwnsNothing'
    <2> SUFFICES ASSUME NEW g \in Gen, NEW s \in Service, local'[g][s].closed
                 PROVE  ~local'[g][s].child /\ gens'[g].canceled /\ g <= sup'.gen
        BY DEF ClosedOwnsNothing
    <2>1. CASE g = sup.gen
        BY <1>1, <2>1, CloseClientsFacts
    <2>2. CASE g # sup.gen
        BY <2>2, CloseClientsFacts DEF IndInv, ClosedOwnsNothing
    <2>3. QED
        BY <2>1, <2>2
<1>3. SessionsRun'
    BY DEF IndInv, SessionsRun
<1>4. ThroughIsOver'
    <2> SUFFICES ASSUME NEW g \in Gen, Through(g)'
                 PROVE  /\ \A s \in Service : local'[g][s].closed
                        /\ \A l \in Lane : lane'[g][l].pc \in {"off", "gone"}
        BY DEF ThroughIsOver
    <2>1. CASE g = sup.gen
        BY <1>1, <2>1, CloseClientsFacts DEF Joined
    <2>2. CASE g # sup.gen
        <3>1. Through(g)
            BY <2>2 DEF Through
        <3>2. QED
            BY <2>2, <3>1, CloseClientsFacts DEF IndInv, ThroughIsOver
    <2>3. QED
        BY <2>1, <2>2
<1>5. QED
    BY <1>2, <1>3, <1>4

(* reload waits for the generation, then closes its clients. *)
LEMMA DrainStep ==
    ASSUME IndInv, Drain
    PROVE  IndInv'
<1>0. /\ UNCHANGED <<disk, gens, lane, engine, eval, revVars, nudge, kick, edits, faults>>
      /\ call.pc = "drain" /\ CloseClients
      /\ sup' = [sup EXCEPT !.running = FALSE] /\ call' = [call EXCEPT !.pc = "build"]
      /\ sup.gen # 0 => Joined(sup.gen) /\ gens[sup.gen].canceled
    BY DEF Drain, IndInv, Canceled
<1>1. sup \in Sup /\ call \in Calls
    BY SupTyped
<1>2. /\ sup' \in Sup /\ sup'.mu = sup.mu /\ sup'.gen = sup.gen /\ sup'.closed = sup.closed
      /\ sup'.settled = sup.settled /\ ~sup'.running
    BY <1>0, <1>1 DEF Sup
<1>3. call' \in Calls /\ call'.pc = "build"
    BY <1>0, <1>1 DEF Calls
<1>4. TypeOK'
    BY <1>0, <1>2, <1>3, CloseClientsFacts DEF IndInv, TypeOK, Calls, LocalsTyped, revVars
<1>5. Locked' /\ Canceled'
    BY <1>0, <1>2, <1>3 DEF IndInv, Locked, Canceled
<1>6. QED
    BY <1>0, <1>2, <1>4, <1>5, JoinedIsOver DEF IndInv

(* wait, after close: the same, without a lock. *)
LEMMA WaitStep ==
    ASSUME IndInv, Wait
    PROVE  IndInv'
<1>0. /\ UNCHANGED <<disk, gens, lane, engine, eval, revVars, call, nudge, kick, edits, faults>>
      /\ CloseClients /\ sup.closed /\ ~sup.mu
      /\ sup' = [sup EXCEPT !.settled = TRUE, !.running = FALSE]
      /\ sup.gen # 0 => Joined(sup.gen) /\ gens[sup.gen].canceled
    BY DEF Wait, IndInv, Canceled
<1>1. sup \in Sup
    BY SupTyped
<1>2. /\ sup' \in Sup /\ sup'.mu = sup.mu /\ sup'.gen = sup.gen /\ sup'.closed = sup.closed
      /\ sup'.settled /\ ~sup'.running
    BY <1>0, <1>1 DEF Sup
<1>3. TypeOK'
    BY <1>0, <1>2, CloseClientsFacts DEF IndInv, TypeOK, LocalsTyped, revVars
<1>4. Locked' /\ Canceled'
    BY <1>0, <1>2 DEF IndInv, Locked, Canceled
<1>5. QED
    BY <1>0, <1>2, <1>3, <1>4, JoinedIsOver DEF IndInv

(* close: the lifetime of the activation ends. *)
LEMMA CloseSupStep ==
    ASSUME IndInv, CloseSup
    PROVE  IndInv'
<1>0. /\ UNCHANGED <<disk, lane, engine, eval, local, revVars, call, nudge, kick, edits, faults>>
      /\ ~sup.mu /\ CancelsLatest /\ sup' = [sup EXCEPT !.closed = TRUE]
    BY DEF CloseSup, workVars, CancelsLatest
<1>1. sup \in Sup
    BY SupTyped
<1>2. /\ sup' \in Sup /\ sup'.mu = sup.mu /\ sup'.gen = sup.gen /\ sup'.closed
      /\ sup'.settled = sup.settled /\ sup'.running = sup.running
    BY <1>0, <1>1 DEF Sup
<1>3. TypeOK'
    BY <1>0, <1>2, CancelFacts DEF IndInv, TypeOK, revVars
<1>4. Locked' /\ Canceled'
    BY <1>0, <1>2, CancelFacts DEF IndInv, Locked, Canceled
<1>5. ClosedOwnsNothing' /\ SessionsRun'
    BY <1>0, <1>2, CancelFacts DEF IndInv, ClosedOwnsNothing, SessionsRun
<1>6. ThroughIsOver'
    BY <1>0, <1>2 DEF IndInv, ThroughIsOver, Through
<1>7. QED
    BY <1>3, <1>4, <1>5, <1>6 DEF IndInv

(* reload: the next generation starts where nothing of an older one is left. *)
LEMMA BuildStep ==
    ASSUME IndInv, Build
    PROVE  IndInv'
<1> DEFINE n == sup.gen + 1
<1> DEFINE fresh == [l \in Lane |->
                          IF l \in call.manifests \X disk.hosts THEN Started ELSE Off]
<1>0. /\ UNCHANGED <<disk, eval, local, rev, acked, noticed, nudge, kick, edits, faults>>
      /\ call.pc = "build" /\ call' = After /\ sup.gen < MaxGen
      /\ gens' = [gens EXCEPT ![n] = [services |-> call.manifests, peers |-> disk.hosts,
                                      canceled |-> FALSE]]
      /\ lane' = [lane EXCEPT ![n] = fresh]
      /\ engine' = [engine EXCEPT ![n] = [s \in Service |->
                        IF s \in call.manifests THEN "list" ELSE "off"]]
      /\ sup' = [sup EXCEPT !.mu = FALSE, !.gen = n, !.running = TRUE, !.mesh = disk.hosts]
    BY DEF Build
<1>1. /\ sup \in Sup /\ call \in Calls /\ sup.gen \in 0..MaxGen /\ MaxGen \in Nat
      /\ gens \in [Gen -> [services: SUBSET Service, peers: SUBSET Peer, canceled: BOOLEAN]]
      /\ \A g \in Gen : g \in Nat /\ g # 0
    BY SupTyped
<1>2. n \in Gen /\ n \in 0..MaxGen /\ disk.hosts \in SUBSET Peer /\ call.manifests \in SUBSET Service
    BY <1>0, <1>1 DEF Gen, IndInv, TypeOK, Calls
<1>3. /\ sup' \in Sup /\ ~sup'.mu /\ sup'.gen = n /\ sup'.running
      /\ sup'.closed = sup.closed /\ sup'.settled = sup.settled
    BY <1>0, <1>1, <1>2 DEF Sup
<1>4. ~sup.closed /\ ~sup.settled /\ ~sup.running
    BY <1>0 DEF IndInv, Locked
<1>5. call' \in Calls /\ call'.pc \in {"kick", "none"}
    BY <1>0, <1>1, NoCallType DEF After, Calls
<1>6. /\ gens' \in [Gen -> [services: SUBSET Service, peers: SUBSET Peer, canceled: BOOLEAN]]
      /\ \A g \in Gen : g # n => gens'[g] = gens[g]
    BY <1>0, <1>1, <1>2
<1>7. /\ fresh \in [Lane -> Worker]
      /\ \A l \in Lane : fresh[l].remote = NewTransport
    BY OffType
<1>8. lane \in [Gen -> [Lane -> Worker]]
    BY WorkTyped DEF LanesTyped
<1> HIDE DEF fresh
<1>9. /\ lane' \in [Gen -> [Lane -> Worker]] /\ lane'[n] = fresh
      /\ \A g \in Gen : g # n => lane'[g] = lane[g]
    BY <1>0, <1>2, <1>7, <1>8
<1>10. engine' \in [Gen -> [Service -> {"off", "list", "watch", "backoff", "gone"}]]
    BY <1>0, <1>2 DEF IndInv, TypeOK
<1>11. TypeOK'
    <2>1. kicked' \in [Lane -> Nat]
        BY KicksType DEF Build, IndInv
    <2>2. QED
        BY <1>0, <1>3, <1>5, <1>6, <1>9, <1>10, <2>1 DEF IndInv, TypeOK, Calls, Worker
<1>12. Locked' /\ Canceled'
    BY <1>3, <1>4, <1>5 DEF Locked, Canceled
<1>13. ClosedOwnsNothing'
    <2> SUFFICES ASSUME NEW g \in Gen, NEW s \in Service, local[g][s].closed
                 PROVE  ~local[g][s].child /\ gens'[g].canceled /\ g <= n
        BY <1>0, <1>3 DEF ClosedOwnsNothing
    <2>1. ~local[g][s].child /\ gens[g].canceled /\ g <= sup.gen
        BY DEF IndInv, ClosedOwnsNothing
    <2>2. g # n /\ g <= n
        BY <1>1, <2>1
    <2>3. QED
        BY <1>6, <2>1, <2>2
<1>14. SessionsRun'
    <2> SUFFICES ASSUME NEW g \in Gen, NEW l \in Lane
                 PROVE  /\ lane'[g][l].pc # "run" => ~lane'[g][l].remote.child
                        /\ ~lane'[g][l].remote.closed
        BY DEF SessionsRun
    <2>1. CASE g = n
        BY <1>7, <1>9, <2>1, NewTransportType
    <2>2. CASE g # n
        BY <1>9, <2>2 DEF IndInv, SessionsRun
    <2>3. QED
        BY <2>1, <2>2
<1>15. ThroughIsOver'
    <2> SUFFICES ASSUME NEW g \in Gen, Through(g)'
                 PROVE  /\ \A s \in Service : local'[g][s].closed
                        /\ \A l \in Lane : lane'[g][l].pc \in {"off", "gone"}
        BY DEF ThroughIsOver
    <2>1. g < n
        BY <1>1, <1>3, <1>4 DEF Through
    <2>2. Through(g) /\ g # n
        BY <1>1, <1>4, <2>1 DEF Through
    <2>3. QED
        BY <1>0, <1>9, <2>2 DEF IndInv, ThroughIsOver
<1>16. QED
    BY <1>11, <1>12, <1>13, <1>14, <1>15 DEF IndInv

(* reload: the mesh cannot be read, and the lock is given back. *)
LEMMA BuildFailsStep ==
    ASSUME IndInv, BuildFails
    PROVE  IndInv'
<1>0. /\ UNCHANGED <<disk, gens, lane, engine, eval, local, revVars, nudge, kick, edits>>
      /\ call.pc = "build" /\ sup' = Failed(Unlocked) /\ call' = NoCall
    BY DEF BuildFails, workVars
<1>1. /\ sup \in Sup /\ sup.gen \in 0..MaxGen /\ \A g \in Gen : g \in Nat /\ g # 0
      /\ call' \in Calls /\ call'.pc = "none"
    BY <1>0, SupTyped, NoCallType
<1>2. /\ Unlocked \in Sup /\ ~Unlocked.mu /\ Unlocked.gen = sup.gen
      /\ Unlocked.closed = sup.closed /\ Unlocked.settled = sup.settled
      /\ Unlocked.running = sup.running
    BY <1>1 DEF Unlocked, Sup
<1>3. /\ sup' \in Sup /\ ~sup'.mu /\ sup'.gen = sup.gen /\ sup'.running = sup.running
      /\ sup.gen # 0 => sup'.closed = sup.closed /\ sup'.settled = sup.settled
      /\ sup.gen = 0 => sup'.closed /\ sup'.settled
    BY <1>0, <1>2, FailedFacts
<1>4. ~sup.closed /\ ~sup.settled /\ ~sup.running
    BY <1>0 DEF IndInv, Locked
<1>5. faults' \in 0..MaxFaults
    BY Bounded DEF BuildFails, IndInv
<1>6. TypeOK'
    BY <1>0, <1>1, <1>3, <1>5 DEF IndInv, TypeOK, Calls, revVars
<1>7. Locked' /\ Canceled'
    BY <1>1, <1>3, <1>4 DEF Locked, Canceled
<1>8. ClosedOwnsNothing' /\ SessionsRun'
    BY <1>0, <1>3 DEF IndInv, ClosedOwnsNothing, SessionsRun
<1>9. ThroughIsOver'
    BY <1>0, <1>1, <1>3, <1>4 DEF IndInv, ThroughIsOver, Through
<1>10. QED
    BY <1>6, <1>7, <1>8, <1>9 DEF IndInv

-----------------------------------------------------------------------------
(***************************************************************************)
(* The theorems.                                                           *)
(***************************************************************************)
(* The invariant is inductive: an action at a time. *)
LEMMA NextInv == IndInv /\ [Next]_vars => IndInv'
<1> SUFFICES ASSUME IndInv, [Next]_vars PROVE IndInv'
    OBVIOUS
<1>1. CASE UNCHANGED vars
    <2>1. TypeOK' /\ UNCHANGED <<sup, gens, call, lane, local>>
        BY <1>1 DEF vars, workVars, revVars, IndInv, TypeOK
    <2>2. QED
        BY <2>1, LanesStay, LocalsStay, QuietStep
<1>2. CASE \/ \E s \in Service : Register(s) \/ Change(s) \/ Deliveries(s)
           \/ \E p \in Peer : EditMesh(p)
    BY <1>2, OthersStep
<1>3. CASE (\E verb \in {"reload", "reconcile"} : Dispatch(verb)) \/ Discover \/ Compare
    BY <1>3, VerbQuietStep
<1>4. CASE Swap \/ Drain \/ Build \/ KickAll \/ StartFails \/ BuildFails \/ Kick
    BY <1>4, SwapStep, DrainStep, BuildStep, KickAllStep, StartFailsStep, BuildFailsStep, KickStep
<1>5. ASSUME NEW g \in Gen, NEW l \in Lane, LaneStep(g, l)
      PROVE  IndInv'
    BY <1>5, DetectStep, BeginStep, DeliverStep, LaneLeavesStep DEF LaneStep
<1>6. ASSUME NEW g \in Gen, NEW s \in Service,
             EngineStep(g, s) \/ BackendExits(g, s) \/ OnEvent(g, s) \/ Evaluate(g, s)
      PROVE  IndInv'
    BY <1>6, ListStep, TurnsStep, OnEventStep, EvaluateStep DEF EngineStep
<1>7. CASE Shutdown
    BY <1>7, CloseSupStep, WaitStep DEF Shutdown
<1>8. QED
    BY <1>1, <1>2, <1>3, <1>4, <1>5, <1>6, <1>7, Zenon DEF Next, Verb

(* The invariant of the supervisor. *)
LEMMA Invariance == Spec => []IndInv
BY InitInv, NextInv, PTL DEF Spec

(* Every variable keeps its type, the bounds on failures included: a worker
   never calls a client that the supervisor closed. *)
THEOREM SupervisorTyped == Spec => []TypeOK
<1>1. IndInv => TypeOK
    BY DEF IndInv
<1>2. QED
    BY <1>1, Invariance, PTL

(* reload, close and wait: a generation that was swapped out or shut down has
   no child of its service transports and no ssh session of its lanes, for any
   services, peers and generations, whatever its late evaluations and kicks
   do. *)
THEOREM RetiredIsOver == Spec => []RetiredOwnsNothing
<1>1. IndInv => RetiredOwnsNothing
    <2> SUFFICES ASSUME IndInv, NEW g \in Gen, Retired(g)
                 PROVE  /\ \A s \in Service : ~local[g][s].child
                        /\ \A l \in Lane : ~lane[g][l].remote.child
        BY DEF RetiredOwnsNothing
    <2>1. Through(g)
        BY DEF Retired, Through
    <2>2. QED
        BY <2>1 DEF IndInv, ThroughIsOver, ClosedOwnsNothing, SessionsRun
<1>2. QED
    BY <1>1, Invariance, PTL
=============================================================================
