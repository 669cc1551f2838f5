------------------------------- MODULE Watch -------------------------------
(***************************************************************************)
(* One watched item from the file event to the kick: the debouncing engine *)
(* of watch/engine.go, the gate, resolver and fingerprint memo that        *)
(* daemon/serve.go puts around it, and the breaker of daemon/breaker.go    *)
(* in front of the local reconcile.                                        *)
(*                                                                         *)
(* A timer that fires starts an evaluation in a goroutine of its own, so   *)
(* evaluations of the item overlap when a List call takes longer than the  *)
(* debounce window.  An evaluation is cut at every lock it takes and every *)
(* call it makes.  Durations are abstracted away: an armed timer may fire  *)
(* at any time.  A new content has a new fingerprint (Change).             *)
(***************************************************************************)
EXTENDS Naturals, FiniteSets

CONSTANTS
    Evals,      \* evaluations that may run at the same time
    MaxFp,      \* bound on the item's contents
    MaxDefer,   \* most deferrals that fit into gateMaxDefer
    MaxStrays   \* bound on the stray timers while events arrive

ASSUME WatchAssumption ==
    {MaxFp, MaxStrays} \subseteq Nat /\ MaxDefer \in Nat \ {0} /\ Evals \cap {"none", "gone"} = {}

VARIABLES
    (* The item: its fingerprint at the consumer, and whether a file event
       has not reached the engine yet. *)
    fp, event,
    (* Engine: the timer of the timers map (none, armed, or spent and not yet
       deleted), armed timers the map no longer holds, lastDigest, and the
       number of deferrals since deferredSince was set. *)
    timer, strays, last, defers,
    (* Evaluations: program counter, fingerprint at hand, gate's answer; and
       the fingerprint memo, with the evaluation that put it there. *)
    pc, got, busy, memo,
    (* Breaker of the local peer: open, armed retry timers, retry in progress. *)
    open, retries, probe,
    (* Ghosts: the content the peers were last kicked for, whether an error
       ended an evaluation since the last event, and whether a local reconcile
       was suppressed and none started since. *)
    told, dropped, uncovered,
    (* Environment: whether calls have stopped failing for good. *)
    calm

itemVars    == <<fp, event>>
engineVars  == <<timer, strays, last, defers>>
evalVars    == <<pc, got, busy, memo>>
breakerVars == <<open, retries, probe>>
ghostVars   == <<told, dropped, uncovered>>
vars        == <<itemVars, engineVars, evalVars, breakerVars, ghostVars, calm>>

NoStash == [fp |-> 0, by |-> "none"]

Stashes == [fp: 0..MaxFp, by: Evals \cup {"none", "gone"}]

\* Where an evaluation is that has not kicked the peers yet.
Deciding == {"fire", "gate", "stash", "defer", "rearm", "take", "list", "record", "notify"}

TypeOK ==
    /\ fp \in 0..MaxFp /\ event \in BOOLEAN
    /\ timer \in {"none", "armed", "spent"}
    /\ strays \in Nat
    /\ last \in 0..MaxFp
    /\ defers \in 0..MaxDefer
    /\ pc \in [Evals -> {"free", "local", "call", "failed"} \cup Deciding]
    /\ got \in [Evals -> 0..MaxFp]
    /\ busy \in [Evals -> BOOLEAN]
    /\ memo \in Stashes
    /\ open \in BOOLEAN
    /\ retries \in Nat
    /\ probe \in {"none", "call", "close"}
    /\ told \in 0..MaxFp /\ dropped \in BOOLEAN /\ uncovered \in BOOLEAN
    /\ calm \in BOOLEAN

\* The engine starts with nothing recorded: the item resolves to "".
Init ==
    /\ fp = 0 /\ event = FALSE
    /\ timer = "none" /\ strays = 0 /\ last = 0 /\ defers = 0
    /\ pc = [e \in Evals |-> "free"]
    /\ got = [e \in Evals |-> 0]
    /\ busy = [e \in Evals |-> FALSE]
    /\ memo = NoStash
    /\ open = FALSE /\ retries = 0 /\ probe = "none"
    /\ told = 0 /\ dropped = FALSE /\ uncovered = FALSE
    /\ calm = FALSE

-----------------------------------------------------------------------------
(***************************************************************************)
(* Events and timers.                                                      *)
(***************************************************************************)
\* The item's content changes, which the watch backend sees.
Change ==
    /\ fp < MaxFp
    /\ fp' = fp + 1
    /\ event' = TRUE
    /\ UNCHANGED <<engineVars, evalVars, breakerVars, ghostVars, calm>>

\* OnEvent: reset the mapped timer, spent or not, or put a new one there.
OnEvent ==
    /\ event
    /\ strays < MaxStrays
    /\ event' = FALSE
    /\ timer' = "armed"
    /\ dropped' = FALSE
    /\ UNCHANGED <<fp, strays, last, defers, evalVars, breakerVars, told, uncovered, calm>>

\* A timer's goroutine starts.
Start(e) ==
    /\ pc[e] = "free"
    /\ \/ timer = "armed" /\ timer' = "spent" /\ UNCHANGED strays
       \/ strays > 0 /\ strays' = strays - 1 /\ UNCHANGED timer
    /\ pc' = [pc EXCEPT ![e] = "fire"]
    /\ UNCHANGED <<itemVars, last, defers, got, busy, memo, breakerVars, ghostVars, calm>>

\* fire: delete whatever timer the map holds; one that an event has reset or
\* put there in the meantime stays armed.
Fire(e) ==
    /\ pc[e] = "fire"
    /\ strays' = IF timer = "armed" THEN strays + 1 ELSE strays
    /\ timer' = "none"
    /\ pc' = [pc EXCEPT ![e] = "gate"]
    /\ UNCHANGED <<itemVars, last, defers, got, busy, memo, breakerVars, ghostVars, calm>>

-----------------------------------------------------------------------------
(***************************************************************************)
(* evaluate.                                                               *)
(***************************************************************************)
\* manifestGate.Busy, the List call.  A gate error counts as not busy.
GateList(e) ==
    /\ pc[e] = "gate"
    /\ \/ /\ got' = [got EXCEPT ![e] = fp]
          /\ \E b \in BOOLEAN : busy' = [busy EXCEPT ![e] = b]
          /\ pc' = [pc EXCEPT ![e] = "stash"]
       \/ /\ ~calm
          /\ busy' = [busy EXCEPT ![e] = FALSE]
          /\ pc' = [pc EXCEPT ![e] = "defer"]
          /\ UNCHANGED got
    /\ UNCHANGED <<itemVars, engineVars, memo, breakerVars, ghostVars, calm>>

\* fingerprintMemo.put.
Stash(e) ==
    /\ pc[e] = "stash"
    /\ memo' = [fp |-> got[e], by |-> e]
    /\ got' = [got EXCEPT ![e] = 0]
    /\ pc' = [pc EXCEPT ![e] = "defer"]
    /\ UNCHANGED <<itemVars, engineVars, busy, breakerVars, ghostVars, calm>>

\* Mutant of DeferBusy: every deferral restarts the deferral clock.
DeferBusyAfresh(e) ==
    /\ pc[e] = "defer"
    /\ pc' = [pc EXCEPT ![e] = IF busy[e] THEN "rearm" ELSE "take"]
    /\ busy' = [busy EXCEPT ![e] = FALSE]
    /\ UNCHANGED <<itemVars, engineVars, got, memo, breakerVars, ghostVars, calm>>

\* deferBusy, under the engine's lock: a busy item is deferred until
\* gateMaxDefer has passed since the first deferral.
DeferBusy(e) ==
    /\ pc[e] = "defer"
    /\ \/ /\ ~busy[e] \/ defers > 0
          /\ defers' = 0
          /\ pc' = [pc EXCEPT ![e] = "take"]
       \/ /\ busy[e] /\ defers < MaxDefer
          /\ defers' = defers + 1
          /\ pc' = [pc EXCEPT ![e] = "rearm"]
    /\ busy' = [busy EXCEPT ![e] = FALSE]
    /\ UNCHANGED <<itemVars, timer, strays, last, got, memo, breakerVars, ghostVars, calm>>

\* Mutant of Rearm: a deferred evaluation waits for the next event.
RearmNever(e) ==
    /\ pc[e] = "rearm"
    /\ memo' = IF memo.by = e THEN [memo EXCEPT !.by = "gone"] ELSE memo
    /\ pc' = [pc EXCEPT ![e] = "free"]
    /\ UNCHANGED <<itemVars, engineVars, got, busy, breakerVars, ghostVars, calm>>

\* rearm ends a deferred evaluation.  What it stashed stays in the memo.
Rearm(e) ==
    /\ pc[e] = "rearm"
    /\ timer' = "armed"
    /\ memo' = IF memo.by = e THEN [memo EXCEPT !.by = "gone"] ELSE memo
    /\ pc' = [pc EXCEPT ![e] = "free"]
    /\ UNCHANGED <<itemVars, strays, last, defers, got, busy, breakerVars, ghostVars, calm>>

\* manifestResolver.Resolve: take the stashed fingerprint, whoever's it is.
Take(e) ==
    /\ pc[e] = "take"
    /\ IF memo = NoStash
       THEN /\ pc' = [pc EXCEPT ![e] = "list"]
            /\ UNCHANGED <<got, dropped>>
       ELSE /\ pc' = [pc EXCEPT ![e] = "record"]
            /\ got' = [got EXCEPT ![e] = memo.fp]
            /\ dropped' = (dropped \/ memo.by = "gone")
    /\ memo' = NoStash
    /\ UNCHANGED <<itemVars, engineVars, busy, breakerVars, told, uncovered, calm>>

\* Resolve without a stash; an error ends the evaluation, and is not retried.
ResolveList(e) ==
    /\ pc[e] = "list"
    /\ \/ /\ got' = [got EXCEPT ![e] = fp]
          /\ pc' = [pc EXCEPT ![e] = "record"]
          /\ UNCHANGED dropped
       \/ /\ ~calm
          /\ pc' = [pc EXCEPT ![e] = "free"]
          /\ dropped' = TRUE
          /\ UNCHANGED got
    /\ UNCHANGED <<itemVars, engineVars, busy, memo, breakerVars, told, uncovered, calm>>

\* Mutant of Record: what the peers are told about is not recorded.
RecordNothing(e) ==
    /\ pc[e] = "record"
    /\ got' = [got EXCEPT ![e] = 0]
    /\ pc' = [pc EXCEPT ![e] = IF last = got[e] THEN "free" ELSE "notify"]
    /\ UNCHANGED <<itemVars, engineVars, busy, memo, breakerVars, ghostVars, calm>>

\* evaluate, under the engine's lock: dedupe, or record before notifying.
Record(e) ==
    /\ pc[e] = "record"
    /\ last' = got[e]
    /\ got' = [got EXCEPT ![e] = 0]
    /\ pc' = [pc EXCEPT ![e] = IF last = got[e] THEN "free" ELSE "notify"]
    /\ UNCHANGED <<itemVars, timer, strays, defers, busy, memo, breakerVars, ghostVars, calm>>

-----------------------------------------------------------------------------
(***************************************************************************)
(* notifyPeers: kick the delivery lane of every peer, and reconcile the    *)
(* local consumer through the breaker.                                     *)
(***************************************************************************)
\* A kicked lane exports the item as it is then or later.
KickPeers(e) ==
    /\ pc[e] = "notify"
    /\ told' = fp
    /\ dropped' = FALSE
    /\ pc' = [pc EXCEPT ![e] = "local"]
    /\ UNCHANGED <<itemVars, engineVars, got, busy, memo, breakerVars, uncovered, calm>>

\* breakerNotifier.Notify: an open breaker suppresses the local reconcile.
Notify(e) ==
    /\ pc[e] = "local"
    /\ pc' = [pc EXCEPT ![e] = IF open THEN "free" ELSE "call"]
    /\ uncovered' = (uncovered \/ open)
    /\ UNCHANGED <<itemVars, engineVars, got, busy, memo, breakerVars, told, dropped, calm>>

\* localReconciler.Notify; a reconcile that writes the item's files raises
\* an event for them.
LocalReconcile(e) ==
    /\ pc[e] = "call"
    /\ uncovered' = FALSE
    /\ event' \in {event, TRUE}
    /\ \/ pc' = [pc EXCEPT ![e] = "free"]
       \/ ~calm /\ pc' = [pc EXCEPT ![e] = "failed"]
    /\ UNCHANGED <<fp, engineVars, got, busy, memo, breakerVars, told, dropped, calm>>

\* Mutant of Opened: a peer that is open already is opened again.
OpenedAgain(e) ==
    /\ pc[e] = "failed"
    /\ pc' = [pc EXCEPT ![e] = "free"]
    /\ open' = TRUE
    /\ retries' = retries + 1
    /\ UNCHANGED <<itemVars, engineVars, got, busy, memo, probe, ghostVars, calm>>

\* opened: open the breaker and arm its retry, unless it is open already.
Opened(e) ==
    /\ pc[e] = "failed"
    /\ pc' = [pc EXCEPT ![e] = "free"]
    /\ open' = TRUE
    /\ retries' = IF open THEN retries ELSE retries + 1
    /\ UNCHANGED <<itemVars, engineVars, got, busy, memo, probe, ghostVars, calm>>

RetryFires ==
    /\ retries > 0 /\ probe = "none"
    /\ retries' = retries - 1
    /\ probe' = "call"
    /\ UNCHANGED <<itemVars, engineVars, evalVars, open, ghostVars, calm>>

\* Mutant of Retry: a failed probe arms no further one.
RetryOnce ==
    /\ probe = "call"
    /\ uncovered' = FALSE
    /\ event' \in {event, TRUE}
    /\ \/ probe' = "close"
       \/ ~calm /\ probe' = "none"
    /\ UNCHANGED <<fp, engineVars, evalVars, open, retries, told, dropped, calm>>

\* retry: reconcile everything; a failure arms the next retry.
Retry ==
    /\ probe = "call"
    /\ uncovered' = FALSE
    /\ event' \in {event, TRUE}
    /\ \/ probe' = "close" /\ UNCHANGED retries
       \/ /\ ~calm
          /\ probe' = "none"
          /\ retries' = IF open THEN retries + 1 ELSE retries
    /\ UNCHANGED <<fp, engineVars, evalVars, open, told, dropped, calm>>

Closed ==
    /\ probe = "close"
    /\ open' = FALSE
    /\ probe' = "none"
    /\ UNCHANGED <<itemVars, engineVars, evalVars, retries, ghostVars, calm>>

-----------------------------------------------------------------------------
\* From here on no call fails any more.
CalmDown ==
    /\ ~calm
    /\ calm' = TRUE
    /\ UNCHANGED <<itemVars, engineVars, evalVars, breakerVars, ghostVars>>

EvalStep(e) ==
    \/ Fire(e) \/ GateList(e) \/ Stash(e) \/ DeferBusy(e) \/ Rearm(e) \/ Take(e)
    \/ ResolveList(e) \/ Record(e) \/ KickPeers(e) \/ Notify(e) \/ LocalReconcile(e)
    \/ Opened(e)

BreakerStep == RetryFires \/ Retry \/ Closed

Next ==
    \/ Change \/ OnEvent \/ BreakerStep \/ CalmDown
    \/ \E e \in Evals : Start(e) \/ EvalStep(e)

Spec == Init /\ [][Next]_vars

(***************************************************************************)
(* Fairness.  The backend delivers its events, armed timers fire, and a    *)
(* goroutine that can run does.                                            *)
(***************************************************************************)
Fairness ==
    /\ WF_vars(OnEvent)
    /\ WF_vars(\E e \in Evals : Start(e))
    /\ WF_vars(BreakerStep)
    /\ \A e \in Evals : WF_vars(EvalStep(e))

FairSpec == Spec /\ Fairness

-----------------------------------------------------------------------------
(* A change the peers were not kicked for is on its way: its event, a timer
   or an evaluation is pending, through resets of spent timers, deletions of
   another evaluation's timer and deferrals, unless an error swallowed it, or
   an evaluation took for it a stash that a deferred one left behind. *)
ChangeIsUnderway ==
    told # fp /\ ~dropped =>
        event \/ timer = "armed" \/ strays > 0 \/ \E e \in Evals : pc[e] \in Deciding

(* The breaker has exactly one retry outstanding while it is open, and none
   while it is closed, however many notifies fail at the same time. *)
OneRetryPerOutage ==
    retries + Cardinality({probe} \ {"none"}) = IF open THEN 1 ELSE 0

(* A change reaches the lanes although the gate may report busy forever,
   unless on the way an error swallows it, or an evaluation takes for it a
   stash that a deferred one left behind. *)
ChangesReachPeers == told # fp ~> told = fp \/ dropped

(* Once calls stop failing, the breaker closes and stays closed. *)
BreakerRecovers == <>calm => <>[]~open

(* Once calls stop failing the engine comes to rest: the echo of a reconcile that the engine itself
   caused is recognized and does not cause another one. *)
EchoDies ==
    <>calm => <>[](~event /\ timer = "none" /\ strays = 0 /\ \A e \in Evals : pc[e] = "free")

(* The comment on fingerprintMemo: a stashed fingerprint never serves an
   evaluation other than the one that produced it. *)
StashServesItsOwn ==
    [][\A e \in Evals : Take(e) /\ memo # NoStash => memo.by = e]_vars

(* The comment on breakerNotifier.Notify: while the breaker is open, the
   retry timer owns the next attempt of what it suppresses. *)
SuppressedIsRetried == uncovered => retries > 0 \/ probe = "call"
=============================================================================
