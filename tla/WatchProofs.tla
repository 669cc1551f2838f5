---------------------------- MODULE WatchProofs ----------------------------
(***************************************************************************)
(* No change of a watched item is lost on its way to the lanes, and the    *)
(* breaker keeps one retry per outage: for any number of evaluations that  *)
(* overlap, any contents, deferrals and stray timers.                      *)
(***************************************************************************)
EXTENDS Watch, FiniteSetTheorems, TLAPS

(* Nothing is ahead of the item: not what an evaluation has read, nor what is
   stashed, recorded, or was told. *)
NothingAhead ==
    /\ \A e \in Evals : got[e] <= fp
    /\ memo.fp <= fp /\ last <= fp /\ told <= fp

(* A stash has an owner that has not taken it yet, or has left it behind. *)
StashOwned ==
    /\ memo.by = "none" => memo = NoStash
    /\ \A e \in Evals : memo.by = e => pc[e] \in {"defer", "rearm", "take"}

(* What was recorded and not told is being told. *)
RecordedIsTold == told < last => \E e \in Evals : pc[e] = "notify"

(* An evaluation that will kick the peers or see the item as it is: it still
   has to read it, has read it as it is, or, when it comes to take the stash,
   will take the present content, or somebody else's stash, or none.  (The
   one whose stash it takes will find none.) *)
WillTell(e) ==
    \/ pc[e] \in {"fire", "gate", "rearm", "list", "notify"}
    \/ pc[e] \in {"stash", "record"} /\ got[e] = fp
    \/ pc[e] \in {"defer", "take"} /\ (memo.fp = fp \/ memo.by # e)

(* A change that was not told has a carrier. *)
Carried ==
    told # fp /\ ~dropped =>
        event \/ timer = "armed" \/ strays > 0 \/ \E e \in Evals : WillTell(e)

IndInv ==
    TypeOK /\ NothingAhead /\ StashOwned /\ RecordedIsTold /\ Carried /\ OneRetryPerOutage

-----------------------------------------------------------------------------
(***************************************************************************)
(* The breaker.                                                            *)
(***************************************************************************)
(* The retry in progress counts as one. *)
LEMMA ProbeCount ==
    ASSUME NEW x
    PROVE  Cardinality({x} \ {"none"}) = IF x = "none" THEN 0 ELSE 1
<1>1. CASE x = "none"
    <2>1. {x} \ {"none"} = {}
        BY <1>1
    <2>2. QED
        BY <1>1, <2>1, FS_EmptySet
<1>2. CASE x # "none"
    <2>1. {x} \ {"none"} = {x}
        BY <1>2
    <2>2. QED
        BY <1>2, <2>1, FS_Singleton
<1>3. QED
    BY <1>1, <1>2

(* One retry per outage, with the retry in progress spelled out. *)
LEMMA OneRetryMeans ==
    OneRetryPerOutage <=>
        retries + (IF probe = "none" THEN 0 ELSE 1) = (IF open THEN 1 ELSE 0)
BY ProbeCount DEF OneRetryPerOutage

(* One retry per outage is inductive, given the types. *)
LEMMA OneRetryStep ==
    ASSUME TypeOK, OneRetryPerOutage, [Next]_vars
    PROVE  OneRetryPerOutage'
<1> DEFINE Count == retries + (IF probe = "none" THEN 0 ELSE 1)
<1>1. Count = IF open THEN 1 ELSE 0
    BY OneRetryMeans
<1>2. retries \in Nat /\ probe \in {"none", "call", "close"} /\ open \in BOOLEAN
    BY DEF TypeOK
<1>3. SUFFICES Count' = IF open' THEN 1 ELSE 0
    BY ProbeCount DEF OneRetryPerOutage
<1>4. CASE RetryFires
    BY <1>1, <1>2, <1>4 DEF RetryFires
<1>5. CASE Retry
    BY <1>1, <1>2, <1>5 DEF Retry
<1>6. CASE Closed
    BY <1>1, <1>2, <1>6 DEF Closed
<1>7. ASSUME NEW e \in Evals, Opened(e) PROVE Count' = IF open' THEN 1 ELSE 0
    BY <1>1, <1>2, <1>7 DEF Opened
<1>8. CASE UNCHANGED breakerVars
    BY <1>1, <1>8 DEF breakerVars
<1>9. QED
    BY <1>4, <1>5, <1>6, <1>7, <1>8 DEF Next, EvalStep, BreakerStep, vars, Change, OnEvent,
        CalmDown, Start, Fire, GateList, Stash, DeferBusy, Rearm, Take, ResolveList, Record,
        KickPeers, Notify, LocalReconcile

-----------------------------------------------------------------------------
(***************************************************************************)
(* The types.                                                              *)
(***************************************************************************)
(* The variables that are Booleans, and the rest. *)
Flags ==
    /\ event \in BOOLEAN /\ open \in BOOLEAN /\ dropped \in BOOLEAN
    /\ uncovered \in BOOLEAN /\ calm \in BOOLEAN

Counters ==
    /\ fp \in 0..MaxFp /\ last \in 0..MaxFp /\ told \in 0..MaxFp
    /\ timer \in {"none", "armed", "spent"}
    /\ strays \in Nat /\ retries \in Nat
    /\ defers \in 0..MaxDefer
    /\ probe \in {"none", "call", "close"}

(* The flags stay Boolean. *)
LEMMA FlagsStep == Flags /\ [Next]_vars => Flags'
<1> SUFFICES ASSUME Flags, [Next]_vars PROVE Flags'
    OBVIOUS
<1> USE DEF Flags, itemVars, engineVars, evalVars, breakerVars, ghostVars
<1>1. CASE Change \/ OnEvent \/ CalmDown \/ UNCHANGED vars
    BY <1>1, Zenon DEF Change, OnEvent, CalmDown, vars
<1>2. CASE BreakerStep
    BY <1>2, Zenon DEF BreakerStep, RetryFires, Retry, Closed
<1>3. ASSUME NEW e \in Evals, Start(e) PROVE Flags'
    BY <1>3, Zenon DEF Start
<1>4. ASSUME NEW e \in Evals, Fire(e) \/ GateList(e) \/ Stash(e) PROVE Flags'
    BY <1>4, Zenon DEF Fire, GateList, Stash
<1>5. ASSUME NEW e \in Evals, DeferBusy(e) \/ Rearm(e) PROVE Flags'
    BY <1>5, Zenon DEF DeferBusy, Rearm
<1>6. ASSUME NEW e \in Evals, Take(e) \/ ResolveList(e) \/ Record(e) PROVE Flags'
    BY <1>6, Zenon DEF Take, ResolveList, Record
<1>7. ASSUME NEW e \in Evals, KickPeers(e) \/ Notify(e) \/ LocalReconcile(e) \/ Opened(e)
      PROVE  Flags'
    BY <1>7, Zenon DEF KickPeers, Notify, LocalReconcile, Opened
<1>8. QED
    BY <1>1, <1>2, <1>3, <1>4, <1>5, <1>6, <1>7 DEF Next, EvalStep


(* The counters stay within their bounds. *)
LEMMA CountersStep == TypeOK /\ [Next]_vars => Counters'
<1> SUFFICES ASSUME TypeOK, [Next]_vars PROVE Counters'
    OBVIOUS
<1>1. MaxFp \in Nat /\ MaxDefer \in Nat
    BY WatchAssumption
<1>2. Counters /\ got \in [Evals -> 0..MaxFp]
    BY DEF TypeOK, Counters
<1> USE <1>1, <1>2 DEF Counters
<1>3. CASE UNCHANGED <<fp, last, told, timer, strays, retries, defers, probe>>
    BY <1>3
<1>4. CASE Change \/ OnEvent
    BY <1>4 DEF Change, OnEvent, engineVars, breakerVars, ghostVars
<1>5. CASE RetryFires
    BY <1>5 DEF RetryFires, itemVars, engineVars, ghostVars
<1>6. CASE Retry
    BY <1>6 DEF Retry, engineVars
<1>7. CASE Closed
    BY <1>7 DEF Closed, itemVars, engineVars, ghostVars
<1>8. ASSUME NEW e \in Evals, Start(e) PROVE Counters'
    BY <1>8 DEF Start, itemVars, breakerVars, ghostVars
<1>9. ASSUME NEW e \in Evals, Fire(e) PROVE Counters'
    BY <1>9 DEF Fire, itemVars, breakerVars, ghostVars
<1>10. ASSUME NEW e \in Evals, DeferBusy(e) PROVE Counters'
    BY <1>10 DEF DeferBusy, itemVars, breakerVars, ghostVars
<1>11. ASSUME NEW e \in Evals, Rearm(e) PROVE Counters'
    BY <1>11 DEF Rearm, itemVars, breakerVars, ghostVars
<1>12. ASSUME NEW e \in Evals, Record(e) PROVE Counters'
    BY <1>12 DEF Record, itemVars, breakerVars, ghostVars
<1>13. ASSUME NEW e \in Evals, KickPeers(e) PROVE Counters'
    BY <1>13 DEF KickPeers, itemVars, engineVars, breakerVars
<1>14. ASSUME NEW e \in Evals, Opened(e) PROVE Counters'
    BY <1>14 DEF Opened, itemVars, engineVars, ghostVars
<1>15. QED
    BY <1>3, <1>4, <1>5, <1>6, <1>7, <1>8, <1>9, <1>10, <1>11, <1>12, <1>13, <1>14, Zenon
    DEF Next, EvalStep, BreakerStep, vars, CalmDown, GateList, Stash, Take, ResolveList,
        Notify, LocalReconcile, itemVars, engineVars, breakerVars, ghostVars

\* The evaluations and their memo.
Evaluations ==
    /\ pc \in [Evals -> {"free", "local", "call", "failed"} \cup Deciding]
    /\ got \in [Evals -> 0..MaxFp]
    /\ busy \in [Evals -> BOOLEAN]
    /\ memo \in Stashes

(* The evaluations and what they hold keep their types. *)
LEMMA EvaluationsStep == TypeOK /\ [Next]_vars => Evaluations'
<1> SUFFICES ASSUME TypeOK, [Next]_vars PROVE Evaluations'
    OBVIOUS
<1>1. MaxFp \in Nat /\ fp \in 0..MaxFp /\ Evaluations
    BY WatchAssumption DEF TypeOK, Evaluations
<1> USE <1>1 DEF Evaluations, Deciding
<1>2. CASE UNCHANGED evalVars
    BY <1>2 DEF evalVars
<1>3. ASSUME NEW e \in Evals, Start(e) \/ Fire(e) PROVE Evaluations'
    BY <1>3 DEF Start, Fire
<1>4. ASSUME NEW e \in Evals, GateList(e) PROVE Evaluations'
    BY <1>4 DEF GateList
<1>5. ASSUME NEW e \in Evals, Stash(e) PROVE Evaluations'
    BY <1>5 DEF Stash, Stashes
<1>6. ASSUME NEW e \in Evals, DeferBusy(e) PROVE Evaluations'
    BY <1>6 DEF DeferBusy
<1>7. ASSUME NEW e \in Evals, Rearm(e) PROVE Evaluations'
    BY <1>7 DEF Rearm, Stashes
<1>8. ASSUME NEW e \in Evals, Take(e) PROVE Evaluations'
    BY <1>8 DEF Take, Stashes, NoStash
<1>9. ASSUME NEW e \in Evals, ResolveList(e) \/ Record(e) PROVE Evaluations'
    BY <1>9 DEF ResolveList, Record
<1>10. ASSUME NEW e \in Evals, KickPeers(e) \/ Notify(e) PROVE Evaluations'
    BY <1>10 DEF KickPeers, Notify
<1>11. ASSUME NEW e \in Evals, LocalReconcile(e) \/ Opened(e) PROVE Evaluations'
    BY <1>11 DEF LocalReconcile, Opened
<1>12. QED
    BY <1>2, <1>3, <1>4, <1>5, <1>6, <1>7, <1>8, <1>9, <1>10, <1>11, Zenon
    DEF Next, EvalStep, BreakerStep, vars, Change, OnEvent, CalmDown, RetryFires, Retry, Closed

(* Every step keeps the types. *)
LEMMA TypeStep == TypeOK /\ [Next]_vars => TypeOK'
<1>1. TypeOK <=> Flags /\ Counters /\ Evaluations
    BY DEF TypeOK, Flags, Counters, Evaluations
<1>2. TypeOK' <=> Flags' /\ Counters' /\ Evaluations'
    BY DEF TypeOK, Flags, Counters, Evaluations
<1>3. QED
    BY <1>1, <1>2, FlagsStep, CountersStep, EvaluationsStep


-----------------------------------------------------------------------------
(***************************************************************************)
(* The way of a change.                                                    *)
(***************************************************************************)
\* The part of the types these steps need.
Typed ==
    /\ fp \in Nat /\ last \in Nat /\ told \in Nat /\ strays \in Nat
    /\ pc \in [Evals -> {"free", "local", "call", "failed"} \cup Deciding]
    /\ got \in [Evals -> Nat]
    /\ memo \in [fp: Nat, by: Evals \cup {"none", "gone"}]
    /\ Evals \cap {"none", "gone"} = {}

(* The facts that the steps below need of the types. *)
LEMMA TypedFacts == TypeOK => Typed
BY WatchAssumption DEF TypeOK, Typed, Stashes

(* No step lets a fingerprint run ahead of the content. *)
LEMMA NothingAheadStep ==
    ASSUME Typed, NothingAhead, [Next]_vars
    PROVE  NothingAhead'
<1> USE DEF NothingAhead, Typed
<1>1. CASE UNCHANGED <<fp, got, memo, last, told>>
    BY <1>1
<1>2. CASE Change
    BY <1>2 DEF Change, engineVars, evalVars, ghostVars
<1>3. ASSUME NEW e \in Evals, GateList(e) PROVE NothingAhead'
    BY <1>3 DEF GateList, itemVars, engineVars, ghostVars
<1>4. ASSUME NEW e \in Evals, Stash(e) PROVE NothingAhead'
    BY <1>4 DEF Stash, itemVars, engineVars, ghostVars
<1>5. ASSUME NEW e \in Evals, Rearm(e) PROVE NothingAhead'
    BY <1>5 DEF Rearm, itemVars, ghostVars
<1>6. ASSUME NEW e \in Evals, Take(e) PROVE NothingAhead'
    BY <1>6 DEF Take, NoStash, itemVars, engineVars
<1>7. ASSUME NEW e \in Evals, ResolveList(e) PROVE NothingAhead'
    BY <1>7 DEF ResolveList, itemVars, engineVars
<1>8. ASSUME NEW e \in Evals, Record(e) PROVE NothingAhead'
    BY <1>8 DEF Record, itemVars, ghostVars
<1>9. ASSUME NEW e \in Evals, KickPeers(e) PROVE NothingAhead'
    BY <1>9 DEF KickPeers, itemVars, engineVars
<1>10. QED
    BY <1>1, <1>2, <1>3, <1>4, <1>5, <1>6, <1>7, <1>8, <1>9, Zenon
    DEF Next, EvalStep, BreakerStep, vars, OnEvent, CalmDown, RetryFires, Retry, Closed,
        Start, Fire, DeferBusy, Notify, LocalReconcile, Opened,
        itemVars, engineVars, evalVars, ghostVars

(* No step leaves a stash without the evaluation that owns it. *)
LEMMA StashOwnedStep ==
    ASSUME Typed, StashOwned, [Next]_vars
    PROVE  StashOwned'
<1> USE DEF StashOwned, Typed, NoStash
<1>1. CASE UNCHANGED evalVars
    BY <1>1 DEF evalVars
<1>2. ASSUME NEW e \in Evals, Start(e) \/ Fire(e) PROVE StashOwned'
    BY <1>2 DEF Start, Fire
<1>3. ASSUME NEW e \in Evals, GateList(e) PROVE StashOwned'
    BY <1>3 DEF GateList
<1>4. ASSUME NEW e \in Evals, Stash(e) PROVE StashOwned'
    BY <1>4 DEF Stash
<1>5. ASSUME NEW e \in Evals, DeferBusy(e) PROVE StashOwned'
    BY <1>5 DEF DeferBusy
<1>6. ASSUME NEW e \in Evals, Rearm(e) PROVE StashOwned'
    BY <1>6 DEF Rearm
<1>7. ASSUME NEW e \in Evals, Take(e) PROVE StashOwned'
    BY <1>7 DEF Take
<1>8. ASSUME NEW e \in Evals, ResolveList(e) \/ Record(e) PROVE StashOwned'
    BY <1>8 DEF ResolveList, Record
<1>9. ASSUME NEW e \in Evals, KickPeers(e) \/ Notify(e) PROVE StashOwned'
    BY <1>9 DEF KickPeers, Notify
<1>10. ASSUME NEW e \in Evals, LocalReconcile(e) \/ Opened(e) PROVE StashOwned'
    BY <1>10 DEF LocalReconcile, Opened
<1>11. QED
    BY <1>1, <1>2, <1>3, <1>4, <1>5, <1>6, <1>7, <1>8, <1>9, <1>10, Zenon
    DEF Next, EvalStep, BreakerStep, vars, Change, OnEvent, CalmDown, RetryFires, Retry, Closed

\* No evaluation that is about to tell the peers stops short of it.
KeepsTelling == \A e \in Evals : pc[e] = "notify" => pc'[e] = "notify"

(* No step leaves a recorded fingerprint that nobody is about to tell. *)
LEMMA RecordedIsToldStep ==
    ASSUME Typed, NothingAhead, RecordedIsTold, [Next]_vars
    PROVE  RecordedIsTold'
<1> USE DEF RecordedIsTold, Typed
<1>1. CASE UNCHANGED <<last, told>> /\ KeepsTelling
    BY <1>1 DEF KeepsTelling
<1>2. ASSUME NEW e \in Evals, Record(e) PROVE RecordedIsTold'
    BY <1>2 DEF Record, ghostVars
<1>3. ASSUME NEW e \in Evals, KickPeers(e) PROVE RecordedIsTold'
    BY <1>3 DEF KickPeers, engineVars, NothingAhead
<1>4. ASSUME UNCHANGED evalVars PROVE KeepsTelling
    BY <1>4 DEF evalVars, KeepsTelling
<1>5. ASSUME NEW e \in Evals,
             Start(e) \/ Fire(e) \/ GateList(e) \/ Stash(e) \/ DeferBusy(e) \/ Rearm(e)
             \/ Take(e) \/ ResolveList(e) \/ Notify(e) \/ LocalReconcile(e) \/ Opened(e)
      PROVE  KeepsTelling
    BY <1>5 DEF KeepsTelling, Start, Fire, GateList, Stash, DeferBusy, Rearm, Take,
        ResolveList, Notify, LocalReconcile, Opened
<1>6. CASE \A e \in Evals : ~Record(e) /\ ~KickPeers(e)
    <2>1. KeepsTelling
        BY <1>4, <1>5, <1>6 DEF Next, EvalStep, BreakerStep, vars, Change, OnEvent, CalmDown,
            RetryFires, Retry, Closed
    <2>2. UNCHANGED <<last, told>>
        BY <1>6 DEF Next, EvalStep, BreakerStep, vars, Change, OnEvent, CalmDown, RetryFires,
            Retry, Closed, Start, Fire, GateList, Stash, DeferBusy, Rearm, Take, ResolveList,
            Notify, LocalReconcile, Opened, engineVars, ghostVars
    <2>3. QED
        BY <1>1, <2>1, <2>2
<1>7. QED
    BY <1>2, <1>3, <1>6

\* What carries a change now.
Carrier == event \/ timer = "armed" \/ strays > 0 \/ \E e \in Evals : WillTell(e)

(* Somebody carries the change from then on, when nothing was told or read
   wrongly. *)
LEMMA CarriedStep ==
    ASSUME Typed, NothingAhead, StashOwned, RecordedIsTold, Carried, Flags, [Next]_vars
    PROVE  Carried'
<1> SUFFICES ASSUME told' # fp', ~dropped' PROVE Carrier'
    BY DEF Carried, Carrier
<1>1. CASE Change
    BY <1>1 DEF Change, Carrier
<1>2. CASE OnEvent
    BY <1>2 DEF OnEvent, Carrier
<1>3. ASSUME NEW e \in Evals, Rearm(e) PROVE Carrier'
    BY <1>3 DEF Rearm, Carrier
<1>4. ASSUME NEW e \in Evals, KickPeers(e) PROVE Carrier'
    BY <1>4 DEF KickPeers, itemVars
<1>5. CASE ~Change /\ ~OnEvent /\ \A e \in Evals : ~Rearm(e) /\ ~KickPeers(e)
    <2>1. fp' = fp /\ told' = told
        BY <1>5 DEF Next, EvalStep, BreakerStep, vars, CalmDown, RetryFires, Retry,
            Closed, Start, Fire, GateList, Stash, DeferBusy, Take, ResolveList, Record,
            Notify, LocalReconcile, Opened, itemVars, ghostVars
    <2>2. ~dropped
        <3>1. CASE UNCHANGED dropped
            BY <3>1
        <3>2. ASSUME NEW e \in Evals, Take(e) \/ ResolveList(e) PROVE ~dropped
            BY <3>2, Zenon DEF Take, ResolveList
        <3>3. QED
            BY <1>5, <3>1, <3>2 DEF Next, EvalStep, BreakerStep, vars, CalmDown, RetryFires,
                Retry, Closed, Start, Fire, GateList, Stash, DeferBusy, Record, Notify,
                LocalReconcile, Opened, ghostVars
    <2>3. Carrier
        BY <2>1, <2>2 DEF Carried, Carrier
    <2> HIDE DEF Carrier
    <2>4. CASE UNCHANGED <<timer, strays, pc, got, memo>> /\ (event => event')
        BY <2>1, <2>3, <2>4 DEF Carrier, WillTell
    <2>5. ASSUME NEW e \in Evals, Start(e) \/ Fire(e) PROVE Carrier'
        BY <2>5 DEF Start, Fire, Carrier, WillTell, Typed
    <2>6. ASSUME NEW e \in Evals, GateList(e) PROVE Carrier'
        BY <2>6 DEF GateList, Carrier, WillTell, Typed, StashOwned, itemVars
    <2>7. ASSUME NEW e \in Evals, Stash(e) PROVE Carrier'
        BY <2>1, <2>3, <2>7 DEF Stash, Carrier, WillTell, Typed, itemVars, engineVars
    <2>8. ASSUME NEW e \in Evals, DeferBusy(e) PROVE Carrier'
        BY <2>1, <2>3, <2>8 DEF DeferBusy, Carrier, WillTell, Typed, itemVars
    <2>9. ASSUME NEW e \in Evals, Take(e) PROVE Carrier'
        <3>1. CASE memo = NoStash
            BY <2>9, <3>1 DEF Take, Carrier, WillTell, Typed
        <3>2. CASE memo # NoStash /\ memo.by \in Evals \ {e}
            BY <2>9, <3>2 DEF Take, Carrier, WillTell, Typed, StashOwned, NoStash
        <3>3. CASE memo # NoStash /\ memo.by = e
            BY <2>1, <2>3, <2>9, <3>3
            DEF Take, Carrier, WillTell, Typed, NoStash, itemVars, engineVars
        <3>4. CASE memo.by = "gone"
            <4>1. memo # NoStash
                BY <3>4 DEF NoStash
            <4>2. QED
                BY <2>9, <3>4, <4>1, Zenon DEF Take
        <3>5. QED
            BY <3>1, <3>2, <3>3, <3>4 DEF Typed, StashOwned
    <2>10. ASSUME NEW e \in Evals, ResolveList(e) PROVE Carrier'
        BY <2>1, <2>10 DEF ResolveList, Carrier, WillTell, Typed
    <2>11. ASSUME NEW e \in Evals, Record(e) PROVE Carrier'
        <3>1. CASE last # got[e]
            BY <2>11, <3>1 DEF Record, Carrier, WillTell, Typed
        <3>2. CASE last = got[e] /\ got[e] = fp
            BY <2>1, <2>11, <3>2
            DEF Record, Carrier, WillTell, Typed, RecordedIsTold, NothingAhead
        <3>3. CASE got[e] # fp
            BY <2>1, <2>3, <2>11, <3>3 DEF Record, Carrier, WillTell, Typed, itemVars
        <3>4. QED
            BY <3>1, <3>2, <3>3
    <2>12. ASSUME NEW e \in Evals, Notify(e) \/ LocalReconcile(e) \/ Opened(e) PROVE Carrier'
        <3>1. UNCHANGED <<timer, strays, got, memo>>
            BY <2>12 DEF Notify, LocalReconcile, Opened, engineVars
        <3>2. event => event'
            <4>1. event' \in {event, TRUE}
                BY <2>12, Zenon DEF Notify, LocalReconcile, Opened, itemVars
            <4>2. QED
                BY <4>1
        <3>3. \A x \in Evals : pc[x] \in Deciding => pc'[x] = pc[x]
            BY <2>12 DEF Notify, LocalReconcile, Opened, Typed, Deciding
        <3>4. QED
            BY <2>1, <2>3, <3>1, <3>2, <3>3 DEF Carrier, WillTell, Deciding
    <2>13. ASSUME RetryFires \/ Retry \/ Closed \/ CalmDown \/ UNCHANGED vars
           PROVE  UNCHANGED <<timer, strays, pc, got, memo>> /\ (event => event')
        <3>1. UNCHANGED <<timer, strays, pc, got, memo>>
            BY <2>13 DEF RetryFires, Retry, Closed, CalmDown, vars, engineVars, evalVars
        <3>2. event' \in {event, TRUE}
            BY <2>13, Zenon DEF RetryFires, Retry, Closed, CalmDown, vars, itemVars
        <3>3. event => event'
            BY <3>2
        <3>4. QED
            BY <3>1, <3>3
    <2>14. QED
        BY <1>5, <2>4, <2>5, <2>6, <2>7, <2>8, <2>9, <2>10, <2>11, <2>12, <2>13
        DEF Next, EvalStep, BreakerStep
<1>6. QED
    BY <1>1, <1>2, <1>3, <1>4, <1>5


-----------------------------------------------------------------------------
(* The engine starts with nothing changed. *)
LEMMA InitInv == Init => IndInv
<1> SUFFICES ASSUME Init PROVE IndInv
    OBVIOUS
<1>1. MaxFp \in Nat /\ MaxDefer \in Nat
    BY WatchAssumption
<1>2. TypeOK
    <2>1. Flags
        BY DEF Init, Flags
    <2>2. Counters
        BY <1>1 DEF Init, Counters
    <2>3. Evaluations
        BY <1>1 DEF Init, Evaluations, Stashes, NoStash
    <2>4. QED
        BY <2>1, <2>2, <2>3 DEF TypeOK, Flags, Counters, Evaluations
<1>3. OneRetryPerOutage
    BY OneRetryMeans DEF Init
<1>4. told = fp /\ last = fp /\ memo = NoStash /\ fp = 0 /\ \A e \in Evals : got[e] = 0
    BY DEF Init
<1>5. Evals \cap {"none", "gone"} = {}
    BY WatchAssumption
<1>6. QED
    BY <1>2, <1>3, <1>4, <1>5 DEF IndInv, NothingAhead, StashOwned, RecordedIsTold, Carried, NoStash

(* Every step keeps the invariant. *)
LEMMA NextInv == IndInv /\ [Next]_vars => IndInv'
BY TypedFacts, TypeStep, NothingAheadStep, StashOwnedStep, RecordedIsToldStep, CarriedStep,
    OneRetryStep DEF IndInv, TypeOK, Flags

(* The invariant holds of every reachable state. *)
LEMMA Invariance == Spec => []IndInv
BY InitInv, NextInv, PTL DEF Spec

(* Every state of the engine and the breaker is well typed. *)
THEOREM WatchTyped == Spec => []TypeOK
<1>1. IndInv => TypeOK
    BY DEF IndInv
<1>2. QED
    BY <1>1, Invariance, PTL

(* No change is lost between the file event and the kick, however evaluations
   of the item overlap, take each other's stashes and delete each other's
   timers, unless an error swallowed it. *)
THEOREM NoChangeIsLost == Spec => []ChangeIsUnderway
<1>1. IndInv => ChangeIsUnderway
    BY DEF IndInv, Carried, WillTell, ChangeIsUnderway, Deciding
<1>2. QED
    BY <1>1, Invariance, PTL

(* An open breaker has exactly one retry, a closed one none. *)
THEOREM OneRetry == Spec => []OneRetryPerOutage
<1>1. IndInv => OneRetryPerOutage
    BY DEF IndInv
<1>2. QED
    BY <1>1, Invariance, PTL

=============================================================================
