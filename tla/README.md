# synckit, specified in TLA+

synckit keeps the data of small services in step between the hosts of one user.
This directory holds TLA+ modules for the parts of it that decide whether data
arrives, TLC configurations that check them on small instances, and TLAPS proofs
for every instance. Paths below are relative to `src/`. `PROJECT.json` maps every
definition to the lines it models.

## 1. The system

| Component | State | Operations | Talks to | What is hard |
|---|---|---|---|---|
| Change envelope and fence (`syncservice/service.go`, `fence.go`) | none | `Validate`, `NewExported*`, `Fence` | used by sender and receiver | one revision number can name two payloads after a restore |
| Delivery store (`daemon/delivery.go`) | a record per peer, a file per pending change | `stage`, `acknowledge`, `load`, `sweep`, `migrate` | lanes, through a file lock | crash between two files, a file shared by lanes |
| Delivery scheduler (`daemon/deliverer.go`) | a worker ("lane") per service and peer: dirty mark, kick channel, timers, pin memory | `Kick`, `work`, `deliverOnce`, `prepare`, `replace`, `gate`, `transfer`, `apply` | local service and peer by RPC, store, network policy | lost wakeups, lost or late calls, three-call updates |
| Artifact consumer (`syncservice/register_artifact.go`) | pin owners in the artifact store, the consumer's receipt | `apply.v2` | artifact store, consumer | the collector and crashes between the steps |
| Artifact store and batches (`artifact/`) | objects, pins, incoming and outgoing batches | put, batch begin/part/commit, `SetPins`, `GC` | consumer, scheduler | publication order, collection against puts |
| Convergent registry (`cregistry/`) | a last-write-wins map with tombstones | `Add`, `Remove`, `Merge`, `Compact` | reconcile pass | ties, horizon |
| Reconcile pass (`converge/`) | state file of each host, its lock | `Reconcile` | peers by fetch | mutations during a pass, failing peers |
| Watch engine (`watch/`), its glue (`daemon/serve.go`) and breaker (`daemon/breaker.go`) | timers, last fingerprints, memo, open breaker | `OnEvent`, `fire`, `evaluate`, `Notify`, `retry` | consumer `List`, lanes, local reconcile | overlapping evaluations, echoes |
| Supervisor (`daemon/serve.go`) | a generation of engines and lanes, its clients, the mesh it was built for | `reload`, `reconcile`, `deliveries`, `close`, `wait`, `listForEngine` | all of the above | swap of generations under load |
| Network policy (`netpolicy/`) | path state, manual setting and its edit mark, restricted epoch, wake channels | `Current`, `publish`, `refreshManual`, `SaveManual`, `Evaluate` | scheduler, receiver | changes between admission and use, pulses between samples |
| Consent (`consent/`, `daemon/consent.go`) | grants, prompt lock, the legs of an ask at peers and phones | `Decide`, `Relay`, `route`, `askPhones` | presence, prompter, peers by ssh, phones | concurrent asks, lost answers, sheets nobody touches |
| Transport and RPC (`internal/synctransport/`, `rpc/`) | address in use, child process | call, failover | everything | a request whose fate is unknown |
| Host registry, mesh trust, install, TUI, helpers | files | sequential commands | | mostly I/O |

A file event reaches the watch engine, which debounces it, asks the consumer's
gate and fingerprint, and kicks the lanes of all peers. A lane exports the change,
stages it in the store, sends missing artifacts and calls `apply` at the peer,
whose handler pins the roots, asks the consumer and answers. Host registries are
reconciled independently, by pulls.

What makes each part correct:

* **Delivery**: a change that was staged is delivered or replaced by one that
  covers it; an acknowledgement is true; whatever is pending can be read and its
  roots cannot be collected; a lane at rest has delivered; peers catch up.
* **Acceptance**: the roots behind a receipt stay complete and pinned; owners do
  not pile up.
* **Converge**: registries depend on the set of mutations only; nothing regresses;
  removed items stay removed under compaction; hosts converge.
* **Watch**: a change gets to the lanes; the breaker recovers with one retry per
  outage; the engine's own echo dies.
* **Artifact store**: what a reader sees survives a loss of power; no present
  manifest lacks a child; what is pinned or young keeps its closure; a committed
  batch is all there; no claim leaks.
* **Network policy and transfer**: nothing bulky is sent or taken after a network was
  restricted since the admission, however short the restriction was; a lane that
  waits for the network is woken; transfers finish; a lane keeps the batch it holds.
* **Consent**: an approval is a person's, for this ask or by a live grant of the same
  requestor; a denial stands; every ask is decided.
* **Supervisor and transport**: nothing of a generation outlives it; a swap loses no
  kick; no verb hangs.

## 2. Modules

| Module | Models | State → code |
|---|---|---|
| `Changes` | envelope, `Fence`, what `apply` answers | a change is the record itself, which stands for its id |
| `DeliveryStore` | pieces of the store's operations | `Record` is `deliveryRecord`, `Readable` is `validate` |
| `Delivery` | lanes over the store, peers, faults | `records`, `files` durable; `pc`, `dirty`, `kick`, `arm`, `status`, `settled`, `pinnedFor`, `run` are the `lane` and the locals of `work`; `held`, `has`, `late` are the peer |
| `Replication` | the abstract promise of delivery | `receipt` and `acked` versions per peer |
| `Acceptance` | `applyArtifacts`, step by step | `accepted`, `ackedRoots` are pin owners, `receipt`, `recorded` the consumer |
| `ArtifactStore` | `Put*`, receive batches, pins, `GC`, `Open` over a file system that loses what was not synced | `file` is `objects/`, `disk` what of it is durable, `mark` is `unsynced/`; `young` is the time stamp against `GCGrace`; `publishing` the claims; `job`, `commit`, `doomed` the locals of a Put, of `CommitBatch`, of `GC` |
| `CRegistry` | `cregistry.go` | entries with stamps, value tie break |
| `Converge` | `converge.Reconcile` on several hosts | `reg` is the state file, `merged`, `todo` the pass |
| `Watch` | engine, gate, memo, notifiers, breaker | `timer`, `strays`, `last`, `defers`; `pc` per evaluation; `open`, `retries`, `probe` |
| `NetPolicy` | the monitors of `netpolicy/`, one per host | `mon` is `observed` with its manual source, `file`, `editMark`, `saving` the operator's setting, `stat` the refresh the watcher has under the lock |
| `Transfer` | `gate` to `send` of the scheduler on `NetPolicy`, the receivers' handlers, the shared batch | `run` is `deliveryRun`, `wake` the lane's channel; `holders`, `committed` are `sharedBatch`, `outbox` the built batch; `staged`, `stored`, `applied` the receiver; `late`, `drops` calls whose caller is gone |
| `Consent` | engines of a mesh, the Router, relay legs, phones | `ask` is a `Decide` in progress, `leg` the commands it started, `sheet` who holds `promptMu`, `grants`, `presence` |
| `SyncTransport` | spawned and remote transports | child, lane, address index, closed; what a `Do` may do, as outcomes |
| `Supervisor` | generations, verbs, shutdown, on `SyncTransport` | `sup` is `supervisor`, `gens`, `lane`, `engine`, `eval`, `local` the generations, `call` the exclusive handler, `kick` a kick between `deliveries` and `Kick` |
| `DeliveryProofs`, `ArtifactStoreProofs`, `ConvergeProofs`, `AcceptanceProofs`, `WatchProofs`, `TransferProofs`, `ConsentProofs`, `SupervisorProofs` | theorems about the module each is named after | |
| `MC*` | instances for TLC | |

Granularity. A worker's pass is cut at every RPC and every store operation, an
evaluation of the engine at every lock and call, a reconcile pass at every fetch,
the save and every item. An operation under the store's lock is one step, with
torn variants for writes that fail half-way (`StageTorn`, the second disjunct of
`Acknowledge`). Each call may fail without effect, fail after its effect, or be
executed after the caller gave up (`CallOutlived`, `LateApply`), and the daemon may
crash between any two steps.

Abstractions worth knowing:

* Durations are gone: an armed timer may fire at any time. Backoff and pause
  lengths therefore do not matter to any property.
* A payload is its lineage: `gen` counts restores of the source, so that two
  exports of one revision number differ exactly when a restore lies between them.
* In `Delivery` the unit of transfer is a root, and `Pause` may happen wherever the
  code asks for admission. `Transfer` is the part below it: the batches that lanes
  share and the network state behind a pause.
* The two exports of a superseding `prepare` are one step, and loading and
  exporting commute because only the worker writes its record. A missing pending
  file is a guard of `Prepare`; `PendingIsOnDisk` shows that the guard always holds.
* A consumer that loses `export.v2` again is not modelled (`Upgrade` goes one way).
* `apply.v2` is registered as exclusive, and the dispatcher serialises exclusive
  handlers (`rpc/dispatch.go` 63-72), so `Acceptance` has one call at a time. Roots
  are derived from the payload, as `ArtifactConsumer` requires (`OffersAssumption`).
* In `ArtifactStore` an object is what it names and has one kind. Every write is cut
  into mark, rename, sync and unmark, each of which may fail; a commit publishes
  object by object, level by level. `gcMu` is the guard `Shared` on the one side and
  `Exclusive` on the other, `incomingMu` is "no commit underway". Batches are sets,
  with children before their manifests; one that has a manifest without its children
  is refused (`requireChildren`). The commit's scans run while `gcMu` is held, when
  presence only grows, so they are one step. A reader looks at the file and then at
  the mark: what it concludes is `Present` at the second look, or was removed since.
  After a loss of power any name that was made or removed without a sync may be
  there or not, and so may any mark. Any staging and any marker may have outlived
  `StagingTTL` when the collector looks. Temporary files, the landing itself and the
  outbox are left out. The history variable `torn` records that a sweep stopped
  half-way. From `durable` the model takes that `WriteFile` syncs the bytes before
  the rename and the directory after it, and that `Remove` syncs the directory.
* In `Converge`, local mutations and compaction are read-modify-writes of the state
  file under the same `WithLock`; an id that is absent is the zero entry; results
  per item and the peer status are only logged and are left out. The clock of a host
  is off by `Skew` either way, both when it stamps a mutation and when it compacts:
  `Compact` is handed the wall clock of its caller.
* `Watch` has one item, and every new content has a new fingerprint. A kick tells
  the lanes about the content at that time. `Seed` has no caller outside the tests.
  An error of `List` in `Resolve` drops the change until the next event, as the code
  says it does; the ghost `dropped` records it. It also records that an evaluation took
  a stash which a deferred one had left behind, after a failed gate check or because the
  two overlapped: what that fingerprint hides waits for the next event or timer, and
  `ChangeIsUnderway` and `ChangesReachPeers` exempt it.

* `NetPolicy` judges a state by `Unrestricted` alone. `Current` is one step under the
  monitor's lock; the watcher's refresh is cut between the stat and the load, because
  the operator's writes take no lock. A setting that cannot be read is left out.
* In `Transfer` a handler and the sender's reading of its answer are one step, all
  lanes lack the same objects, and the history field `cut` records which of the two
  hosts has been restricted since the run was admitted.
* `Consent` has three kinds of presence, so that "a live console" (`Live`) and "the
  attended console" (`Attended`) come apart. A leg that its ask gave up on goes on at
  the peer until its session closes. `said` and `heard` are history.
* In `Supervisor` a service has a revision (`rev`), which each change raises, and a peer
  has one of it (`acked`). A run is a call to the service, which exports the revision
  of that moment, and one or two calls to the peer; the last leaves the peer with what
  was exported, so a change and a kick that come in the middle of the run need the
  dirty mark. A transport holds its lock through a `Do`, so a call is one step.
  `kicked` and `noticed` are history: the revision a lane was last kicked for, and the
  one that the watch of its service saw. An evaluation calls the service, and kicks; in
  a generation that lives, one whose lists fail drops what was noticed, as `Resolve`
  does, and in one that is canceled its calls may fail at any time. That an evaluation
  may be deferred, or find nothing to tell, is in `Watch`.

## 3. Runs

`tlc -config X.cfg M` in this directory. States are distinct states.

| Run | Instance | States | Shows |
|---|---|---|---|
| `delivery_lane` | one peer, revisions 1..3 of which the second has a root, one restore, one late call, empty or migrated store, with `export.v2`, without it and upgraded in place | 2.7M | all safety properties of a lane, acknowledgements are true across histories, refinement of `Replication` |
| `delivery_live` | one peer, revisions 1..3, no late calls, fair | 232k | peers catch up, lanes settle |
| `acceptance` | three snapshots over two roots, a delta, a v1 receipt | 47k | held roots are safe, owners are released at the right time |
| `store` | a blob, the manifest of it and a group of that manifest; a batch of all three and one of the group; one writer, one commit, one staging | 341k | all properties of the store |
| `store_gc` | same | | violation, see findings |
| `converge` | two hosts, one item, two values, three mutations with skewed and equal stamps, fair | 76k | last-write-wins, monotonic state files, convergence |
| `converge_compact` | two hosts, clock to 6, lag 2, skew 1, horizon 4 | 1.5M | no resurrection |
| `watch` | two overlapping evaluations, two contents, one deferral, one stray timer, fair | 423k | all properties of the engine and breaker |
| `transfer` | one lane, a batch of one part, two events (path, setting, failure, restart), one late call, fair | 223k | the policy holds on both ends, waiting lanes wake, transfers finish |
| `transfer_shared` | two lanes on one batch, one event, one stray drop, symmetric lanes | 334k | a lane keeps its batch |
| `consent` | two hosts and a phone; a plain ask and one that is plain, local only, signed or for phones only; two dial addresses, three legs, one fault, fair | 131k | all properties of consent |
| `supervisor` | one service, one peer with two addresses, three generations, two edits, one fault, fair | 162k | all properties of generations |

Why the bounds are enough. Three revisions and a restore let a pending change be
superseded while an older call is in flight, let a delta be refused for a snapshot
that a restore has put behind it, let a root come and go, and let a revision number
name two payloads; in `delivery_live` snapshots share roots and drop some of them. A late
call and the current one arrive at the peer in either order. The runs have one lane; that lanes share the store, and the pending
files in it, is covered by the proofs, which are for any set of peers. In `converge`, three
mutations give every relation between a pair of stamps and a third to overtake them;
relaying over more hosts is covered by the algebra of `Merge`, which is proved. In
`store`, three objects give two levels of children and all ways to strand, withdraw
and collect a part of them, the writer and the commit contend for each claim, and the
second batch finds its children in the store or not. In `converge_compact` the clock runs past the
horizon; with a horizon of 3, one less than the lag plus twice the skew, TLC finds a
resurrection.
Two evaluations give one that is overtaken; one deferral gives both branches of
`deferBusy`, and `MaxStrays` bounds how many timers have escaped the map while
events arrive. In `transfer` two events make a restriction and its end, a setting and
its deletion, or a failure and a restart meet in one run; two lanes need only one,
because what they share is the batch. In `consent` the second ask meets the grant, the
sheet and the relay of the first, on either host; three legs and two addresses give a
relay that is run again and a walk that goes on. In `supervisor` three generations are
one that is retired, one that is swapped and one that is built; two edits are a change
that a run exports and one that comes after, or a change and a registration.

Deadlock checking is off where everything may be at rest for good: in `watch`, in
`transfer*` when all is applied, in `consent` when all asks are decided, and in
`supervisor` after shutdown or when a bound is reached.

The type invariants (`TypeOK`) of all these modules are theorems.

Every property of a passing run has a mutant in `PROJECT.json`: a plausible mistake
in one definition under which TLC finds the property violated.

### Fairness

* `Delivery`: weak fairness of each worker's own steps, of receiving a kick and of
  timers (goroutines and Go timers), and of the kick the watcher owes for a new
  revision. Liveness is stated under `<>calm`: faults stop at some time. Nothing is
  assumed about superseding kicks, which may go on for ever.
* `Converge`: weak fairness of a pass that runs; strong fairness of a host's own
  schedule taking the lock. Weak fairness would not do, because passes that peers
  trigger take the lock in between, and these skip the peer that triggered them.
* `Watch`: the backend delivers its events, timers fire, goroutines run. The gate is
  under no obligation ever to answer "not busy".
* `Transfer`: strong fairness of a lane's steps, which compete with the watcher for the
  monitor's lock (a Go mutex starves nobody); weak fairness of the monitor's sweep. A
  call on a session that ended fails. Failures, events and restarts are bounded.
* `Consent`: an engine works on its asks, windows and timeouts pass, a closed session
  is noticed at the peer. Nobody has to answer a sheet.
* `Supervisor`: a handler runs on, workers and timers run, a nudge that arrived is
  dispatched. Nobody has to call a verb.

## 4. Proofs

`tlapm M.tla` checks the proofs of a module. All of them hold for every value of the
constants that satisfies the `ASSUME`s of the modules: any set of peers or
hosts, any revisions, restores, late calls, roots, items and values.

**Delivery.** `DeliveryProofs!TypeCorrect` gives the type invariant.
The module proves all eight safety properties from one inductive invariant

    IndInv == TypedRuns /\ PendingIsOnDisk /\ \A p \in Peers : LaneInv(p)

`LaneInv` says, per lane: the record is readable (`Readable`); revisions in records,
runs, receipts and late calls have been published, so a peer never is ahead of the
source's history (`Published`); what the record counts as acknowledged is grounded
in the receipt, and so is a run about to acknowledge (`AckGrounded`); the pins cover
the pending roots at each point of `replace` (`RootsCovered`); the remembered pins
are the real ones (`PinsRemembered`); a dirty lane has a wakeup (`KickKept`); and a
pass that is to settle has seen the last revision it was kicked for, or is dirty
again (`PassCurrent`). The properties themselves are not inductive: that an
acknowledgement is true depends on where the pass is and what may still be in flight,
and that idle means delivered on what the pass saw when it was cleaned.
The action property `NoChangeIsDropped` follows from the same invariant.

`DeliveryImplementsReplication` shows that every step is a step of
`Replication` or none, under `receipt <- <<held.src, held.gen>>`,
`acked <- <<acked, ackedAs.gen>>`.

**Artifact store.** `ArtifactStoreProofs` has one inductive invariant

    StoreInv == TypeOK /\ ClaimsAreOwned /\ JobStages /\ CommitStages
                /\ Quiet /\ PresentIsDurable /\ CommitSees

That what is present is durable is not inductive by itself: an unmark must know that
its own sync came before it (`JobStages`, `CommitStages`), that nobody else is at the
same object (`ClaimsAreOwned`), and that no operation is underway when the collector
or `Open` removes all marks (`Quiet`). `CommitSees` adds what a commit has behind it,
from which `CommittedIsPresent` follows. A second part adds `ClosureInv`:
children are written and landed before their manifests (`JobKids`, `CommitKids`); all
that is in place or durable names only what is both (`RestKids`), which is what makes
a loss of power harmless; a withdrawn name that may come back is marked, so that the
next collection syncs before it removes (`WithdrawnIsMarked`); and what a sweep leaves
names only what it leaves (`SweepKids`, from `ReachIsClosed`). `KeptSurvives` follows
from `DoomedIsUnreached` and the fact that only a sweep takes away what is present.

**Converge.** `MergeCommutes`, `MergeAssociates` and `MergeAbsorbs` make `Merge` a
join. `IndInv == TypeOK /\ \A h : HostInv(h)` relates every state file and every
merge in progress to the set of mutations that reached it. From it follow
`RegistriesReadTheirMutations`, `SameMutationsSameRegistry` (strong convergence) and
`RegistriesOnlyGrow`, under the assumption `Horizon = 0`, that is without compaction.

`PassItemsAreCurrent` needs no assumption. With compaction a registry no longer reads
its mutations, and `RemovedItemsStayRemoved` has its own invariant

    CompactInv == TypeOK /\ (\A h : PassInv(h)) /\ RemovalsBuried

under the assumption `HorizonCovers`: the horizon is 0, which turns compaction off, or
at least the longest time between two complete passes (`MaxLag`) plus twice the skew of
the clocks. A removal is stamped at most the skew before its time, and the host that
compacts has a clock at most the skew ahead. By the time the tombstone is past the
horizon there, every host has completed a pass over all others that
started after it was made (`PassGathers`, `PassReachesAll`, `SyncedSaw`), so every host has seen
it; nobody then holds an older add (`RemovalsBuried`), and a merge of two registries
that bury a removal buries it (`BuriedMerge`). The comment on `Compact` asks the same of
its callers (`cregistry.go` 122-123: well above the longest time a peer is offline); with a
horizon one less TLC finds a resurrection.

**Acceptance.** `HeldRootsSafe` speaks of states in which nothing is recorded over the
receipt, and the steps towards such a state are the hard part. `IndInv` adds that the
roots of what the consumer holds are pinned by an accepted or the acked owner
(`HeldKept`), that the change underway has its accepted owner and that what was found
ready of it stays (`CurKept`, `ReadyKept`), that the owners read at the start of the
call are still those of now (`PriorCurrent`), that an answer is true of what the consumer
holds (`AnswerTrue`, `RecordDue`), and that what a release is about to remove does not
alone keep roots that are held (`ReleaseSafe`). The two action properties follow from the
last two.

**Watch.** `ChangeIsUnderway` counts every evaluation that has not decided, and so is
not inductive: one that decides on a stale fingerprint lets a change fall.
`Carried` counts only those that will tell it (`WillTell`): at a stash or a record with
the present fingerprint, or about to take from the memo the present one or none of their
own. `NothingAhead`, `StashOwned` and `RecordedIsTold` say that nobody is ahead of the
content, whose the stash is, and that a recorded fingerprint was told. The breaker's
`OneRetryPerOutage` is inductive by itself.

**Transfer.** The centre is `Safe(h, e, cut)`: the monitor of `h` has counted past
epoch `e`; or it is at `e` and unrestricted, and if something has restricted the host
since, the stamp of the setting differs from the one the monitor remembers, so that its
next look will count it. `AdmittedSafely` and `LateSafely` say this of every run and of
every call that outlived one, with `NetInv` behind them: stamps only grow, and a setting
whose stamp the monitor has is known to it. A look of the monitor preserves `Safe`,
and a call that is admitted after a look with an equal epoch is uncut, which is
`TakenUnrestricted` and `SentUnrestricted`. A receiver that restarts counts epochs anew,
but it also ends the sessions and the calls in them, so nothing of the old count is left
to be compared with the new one. `HeldBatchStays` needs where a holder can be
(`HoldersFit`), and `LocalPauseWakes` that a lane which will rest after letting go of the
batch already is subject to the wakeup (`PausesWake`).

**Consent.** Steps are split into quiet ones, which record what a person said or move an
ask on, and the few that approve (`ApproveStep`) or deny (`DenyStep`). `LegsSaid` grounds
what a leg brings back in what a person said, `Undecided` keeps an ask that is not done
without an approval and without a denial heard, and `GrantsEarned` and `VerdictsEarned` say that a grant or a verdict
stands on an ask that a person approved, also after the grant has expired.

**Supervisor.** `RetiredOwnsNothing` exempts the generation a reload is working on.
`ThroughIsOver` extends it to the states under the lock: clients closed, so that a late
evaluation starts no child, and lanes gone, so that a late kick wakes none. It rests on
`Locked` (who holds the lock when), `Canceled` (a generation that is being drained was
canceled), `ClosedOwnsNothing` (a closed transport has no child) and `SessionsRun` (a
lane has a session only in an attempt).

**Only model-checked**: the liveness properties `PeersCatchUp`, `LanesSettle`,
`Converged`, `ChangesReachPeers`, `BreakerRecovers`, `EchoDies`, `TransfersFinish`,
`AsksAreDecided`, `VerbsFinish` and `SwapKeepsKicks`, because fairness is out of the
prover's reach. Every invariant and every action property of the passing runs is a
theorem.

## 5. Findings

One comment says more than the code does, and a run shows it.

* `store_gc`. `artifact/store.go` 77-79 says the store is always closed under its
  manifests, and `artifact/gc.go` 30-31 that no surviving manifest ever loses a
  child. A sweep removes in the order of digests; one that fails or is killed between
  a child and its manifest leaves the manifest present alone, and `PutGroup` and
  `CommitBatch` accept it as a child. `Complete` sees the gap, so no readiness is
  reported wrongly, and pinned or young closures are never touched (`KeptSurvives`).

### Further configurations

Four more configurations check a stronger sentence than the code keeps, each taken
from a comment. TLC finds a counterexample in each; they are kept to be read, and are
no part of the set of runs.

* `MCAcceptance_doc.cfg`. `register_artifact.go` 35-38 lists when an accepted owner is
  released. A partial apply, which acknowledges nothing, also releases every
  accepted owner of the origin and moves the acked pins (lines 114-123). The same
  path explains the premise of `HeldRootsSafe`: a late replay of an old receipt,
  after a newer change was recorded in part, moves the acked pins back.
* `MCWatch_memo.cfg`. `daemon/serve.go` 507-510 says a stashed fingerprint never serves
  another evaluation. A deferred evaluation leaves its stash; when the next gate
  check fails, the stash serves that one, and may swallow a change.
* `MCWatch_breaker.cfg`. `daemon/breaker.go` 50-52 says the retry timer owns the next
  attempt while the breaker is open. Between the retry's success and `closed`, it
  does not.
* `MCSupervisor_failover.cfg`. `synctransport/transport.go` 202-207 names the address
  that cannot be reached as the case failover exists for. The address index lives in
  the transport, every attempt of a lane dials a transport of its own, and the first
  call that fails ends the attempt: with a first address that is never reached the
  lane dials it for ever.

### Noticed on the way

Network policy: `manualSource.refresh` takes the stamp and then reads the file; a save
that lands between the two, with the file absent at the first look, is seen one sweep
later, and a transient error of `LoadManual` after the stamp was stored keeps the host
metered until the next edit. Both err on the safe side.

Consent: `ExecSSH` runs the relay command again when ssh exits with 255, also after the
peer has answered, so that a person may see a second sheet, and a denial that was lost
on the way may be followed by an approval (`DenialStands` speaks of denials the engine
learned of). A leg that timed out leaves its sheet up until the session closes. The
grant and the presence are looked at before the queue of `promptMu`, so a second ask
prompts although the first was granted meanwhile.

Supervisor: a reload that cannot read the mesh leaves no generation; as the mesh it
compares with is unchanged, a reconcile does not build one either, and lanes come back
with the next registration or edit of the mesh.

Store and delivery: `recommit` touches files and ignores marks, so
it can report an object present that a failed publication left hidden. After a migration from v1, a lane whose peer
already holds the last revision as a snapshot can stay in backoff (a fresh delta is
answered stale with another digest) until the next revision, although the peer has the data; this is why
`LanesSettle` speaks of stores that started empty. `SettledPinsAreExact` needs its
premise that the remembered change is the pending one: `reconcilePins` does not
clear the memory before its own call, which is harmless, because it is retried.

## 6. Not modelled

* Encoding, digests, manifests and packs (`artifact/ref.go`, `pack.go`, `codec/`,
  `manifest/`): pure functions. The models take an object as what it names.
* Installation, bootstrap, discovery, host and status commands (`daemon/install.go`,
  `bootstrap.go`, `host.go`, `hostregistry/discover.go`, `state.go`): sequential reads
  and writes by one command at a time; the lock they share is in `Converge`.
* Mesh trust (`meshtrust/`): parsing and checking of certificates.
* The terminal interface (`tui/`) and command entry points.
* The watch backend (`watchbackend/`): what it guarantees depends on the queues of the
  kernel; `Watch` takes "a change raises an event" as fairness. When the inotify queue
  overflows and takes a `DELETE_SELF` with it, a stale path stays in the watch list and
  the sweep does not add it again.
* Push notifications, signatures and the reading of presence: I/O around `Consent`.

`PROJECT.json` lists each component with its status.

## 7. Plan

Done: all modules of section 2, and the proofs of all safety properties.

What is left, in this order:

1. `Acceptance` on top of `ArtifactStore` in place of its own abstract store, and
   `Transfer` in the place of `Pause` and `SendBatch` in `Delivery`.
2. The host registry's commands over the state lock.
