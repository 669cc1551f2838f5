------------------------------ MODULE Converge ------------------------------
(***************************************************************************)
(* The pull-only reconcile of converge/converge.go over the registries of  *)
(* module CRegistry.  A pass of a host holds the host's state lock         *)
(* (hostregistry WithLock) from load to the last item: it loads the        *)
(* registry, fetches and merges one peer after the other, saves once and   *)
(* reconciles the present items.  Between any two of these steps other     *)
(* hosts run passes, users mutate registries elsewhere, fetches fail and   *)
(* hosts crash.  Local mutations and compactions are read-modify-writes of *)
(* the same state file, so they wait for the lock.                         *)
(***************************************************************************)
EXTENDS CRegistry, FiniteSets

CONSTANTS
    Hosts,
    MaxOps,     \* bound on the mutations made
    MaxNow,     \* bound on the clock
    Skew,       \* how far a host's clock may be off, either way
    MaxLag,     \* longest time between two complete passes of a host
    Horizon     \* the tombstone horizon, or 0 when nobody compacts

ASSUME BoundsAssumption ==
    {MaxOps, MaxNow, Skew, MaxLag, Horizon} \subseteq Nat

VARIABLES
    reg,      \* durable: the registry in each host's state file
    pc,       \* where each host's pass is
    todo,     \* peers still to fetch, then items still to reconcile
    merged,   \* the registry being merged
    (* Ghosts: the mutations that reached each state file and each merge, when
       a pass began, whether it reached every peer, and when the last such
       pass of a host began. *)
    seen, gathered, began, full, synced,
    (* Environment: the time, and whether faults have stopped for good. *)
    now, calm

passVars == <<pc, todo, merged, gathered, began, full>>
vars     == <<reg, seen, synced, passVars, now, calm>>

\* What a host's clock may read now.
Stamp == {s \in 1..(MaxNow + Skew) : s + Skew >= now /\ s <= now + Skew}

TypeOK ==
    /\ reg \in [Hosts -> Registry]
    /\ pc \in [Hosts -> {"idle", "pull", "items"}]
    /\ todo \in [Hosts -> SUBSET (Hosts \cup Item)]
    /\ \A h \in Hosts : todo[h] \subseteq IF pc[h] = "items" THEN Item ELSE Hosts
    /\ merged \in [Hosts -> Registry]
    /\ seen \in [Hosts -> SUBSET Mutation]
    /\ gathered \in [Hosts -> SUBSET Mutation]
    /\ began \in [Hosts -> Nat]
    /\ full \in [Hosts -> BOOLEAN]
    /\ synced \in [Hosts -> Nat]
    /\ now \in Nat
    /\ calm \in BOOLEAN

Init ==
    /\ reg = [h \in Hosts |-> New]
    /\ pc = [h \in Hosts |-> "idle"]
    /\ todo = [h \in Hosts |-> {}]
    /\ merged = [h \in Hosts |-> New]
    /\ seen = [h \in Hosts |-> {}]
    /\ gathered = [h \in Hosts |-> {}]
    /\ began = [h \in Hosts |-> 0]
    /\ full = [h \in Hosts |-> FALSE]
    /\ synced = [h \in Hosts |-> 1]
    /\ now = 1
    /\ calm = FALSE

-----------------------------------------------------------------------------
\* Mutant of Unlocked: a pass takes the lock only to save.
UnlockedWhilePulling(h) == pc[h] \in {"idle", "pull"}

\* Mutant of Unlocked: the lock is released once the registry is saved.
UnlockedAfterSave(h) == pc[h] \in {"idle", "items"}

\* The state lock is free: WithLock.
Unlocked(h) == pc[h] = "idle"

MayMutate == Cardinality(UNION {seen[h] : h \in Hosts}) < MaxOps

\* A consumer adds an item on a host; a stale add changes nothing.
LocalAdd(h, i, v, at) ==
    /\ Unlocked(h)
    /\ MayMutate
    /\ reg' = [reg EXCEPT ![h] = Add(reg[h], i, v, at)]
    /\ seen' = IF at > reg[h][i].added
               THEN [seen EXCEPT ![h] = @ \cup {Adding(i, v, at)}] ELSE seen
    /\ UNCHANGED <<passVars, synced, now, calm>>

LocalRemove(h, i, at) ==
    /\ Unlocked(h)
    /\ MayMutate
    /\ reg' = [reg EXCEPT ![h] = Remove(reg[h], i, at)]
    /\ seen' = [seen EXCEPT ![h] = @ \cup {Removing(i, at)}]
    /\ UNCHANGED <<passVars, synced, now, calm>>

\* A consumer compacts a host's registry, by the host's own clock.
LocalCompact(h, at) ==
    /\ Unlocked(h)
    /\ Horizon > 0
    /\ reg' = [reg EXCEPT ![h] = Compact(reg[h], at, Horizon)]
    /\ UNCHANGED <<seen, passVars, synced, now, calm>>

-----------------------------------------------------------------------------
(***************************************************************************)
(* Reconcile.                                                              *)
(***************************************************************************)
EndPass(h) ==
    /\ pc' = [pc EXCEPT ![h] = "idle"]
    /\ todo' = [todo EXCEPT ![h] = {}]
    /\ merged' = [merged EXCEPT ![h] = New]
    /\ gathered' = [gathered EXCEPT ![h] = {}]
    /\ began' = [began EXCEPT ![h] = 0]
    /\ full' = [full EXCEPT ![h] = FALSE]

\* Take the lock and load; o = h stands for a local trigger.
Begin(h, o) ==
    /\ Unlocked(h)
    /\ pc' = [pc EXCEPT ![h] = "pull"]
    /\ todo' = [todo EXCEPT ![h] = Hosts \ {h, o}]
    /\ merged' = [merged EXCEPT ![h] = reg[h]]
    /\ gathered' = [gathered EXCEPT ![h] = seen[h]]
    /\ began' = [began EXCEPT ![h] = now]
    /\ full' = [full EXCEPT ![h] = (o = h)]
    /\ UNCHANGED <<reg, seen, synced, now, calm>>

\* Fetch one peer's state file and merge it; a running pass there is no matter.
Fetch(h, p) ==
    /\ pc[h] = "pull"
    /\ p \in todo[h]
    /\ todo' = [todo EXCEPT ![h] = @ \ {p}]
    /\ merged' = [merged EXCEPT ![h] = Merge(merged[h], reg[p])]
    /\ gathered' = [gathered EXCEPT ![h] = @ \cup seen[p]]
    /\ UNCHANGED <<reg, seen, synced, pc, began, full, now, calm>>

\* An unreachable peer is skipped.
FetchFails(h, p) ==
    /\ ~calm
    /\ pc[h] = "pull"
    /\ p \in todo[h]
    /\ todo' = [todo EXCEPT ![h] = @ \ {p}]
    /\ full' = [full EXCEPT ![h] = FALSE]
    /\ UNCHANGED <<reg, seen, synced, pc, merged, gathered, began, now, calm>>

\* Save the merged registry and go on to the items that are present in it.
\* A failed save ends the pass, whether or not the file was replaced.
Save(h) ==
    /\ pc[h] = "pull"
    /\ todo[h] = {}
    /\ reg' = [reg EXCEPT ![h] = merged[h]]
    /\ seen' = [seen EXCEPT ![h] = gathered[h]]
    /\ \/ /\ pc' = [pc EXCEPT ![h] = "items"]
          /\ todo' = [todo EXCEPT ![h] = {i \in Item : Present(merged[h][i])}]
          /\ synced' = IF full[h] THEN [synced EXCEPT ![h] = began[h]] ELSE synced
          /\ UNCHANGED <<merged, gathered, began, full>>
       \/ ~calm /\ EndPass(h) /\ UNCHANGED synced
    /\ UNCHANGED <<now, calm>>

\* Driver.Reconcile for one present item, whether it succeeds or not.
ReconcileItem(h) ==
    /\ pc[h] = "items"
    /\ \E i \in todo[h] : todo' = [todo EXCEPT ![h] = @ \ {i}]
    /\ UNCHANGED <<reg, seen, synced, pc, merged, gathered, began, full, now, calm>>

Finish(h) ==
    /\ pc[h] = "items"
    /\ todo[h] = {}
    /\ EndPass(h)
    /\ UNCHANGED <<reg, seen, synced, now, calm>>

\* The host crashes, its context ends, or load or save fails without effect:
\* the pass is gone and the lock with it.
Abort(h) ==
    /\ ~calm
    /\ pc[h] # "idle"
    /\ EndPass(h)
    /\ UNCHANGED <<reg, seen, synced, now, calm>>

(***************************************************************************)
(* Time passes, no further than the deployment's promise that every host   *)
(* completes a pass over all its peers every MaxLag.                       *)
(***************************************************************************)
Tick ==
    /\ now < MaxNow
    /\ \A h \in Hosts : now + 1 <= synced[h] + MaxLag
    /\ now' = now + 1
    /\ UNCHANGED <<reg, seen, synced, passVars, calm>>

\* From here on nothing fails any more.
CalmDown ==
    /\ ~calm
    /\ calm' = TRUE
    /\ UNCHANGED <<reg, seen, synced, passVars, now>>

PassStep(h) ==
    \/ \E p \in Hosts : Fetch(h, p)
    \/ Save(h) \/ ReconcileItem(h) \/ Finish(h)

Next ==
    \/ Tick \/ CalmDown
    \/ \E h \in Hosts :
        \/ \E at \in Stamp :
            \/ LocalCompact(h, at)
            \/ \E i \in Item :
                LocalRemove(h, i, at) \/ \E v \in Value : LocalAdd(h, i, v, at)
        \/ \E o \in Hosts : Begin(h, o) \/ FetchFails(h, o)
        \/ PassStep(h) \/ Abort(h)

Spec == Init /\ [][Next]_vars

(***************************************************************************)
(* Fairness.  A pass that runs goes on, and a host's own schedule gets the *)
(* lock again and again, however many passes its peers trigger meanwhile.  *)
(***************************************************************************)
Fairness == \A h \in Hosts : WF_vars(PassStep(h)) /\ SF_vars(Begin(h, h))

FairSpec == Spec /\ Fairness

-----------------------------------------------------------------------------
(* Without compaction, a host's registry is exactly what last-write-wins
   makes of the mutations that reached it, whatever order, grouping and
   repetition the passes, failures and crashes gave them: two hosts that
   have seen the same mutations have the same registry. *)
LastWriteWins ==
    \A h \in Hosts, i \in Item : Reads(reg[h][i], i, seen[h])

\* Entry e is at or below f in the lattice of entries.
Below(e, f) ==
    /\ e.added < f.added \/ (e.added = f.added /\ e.value <= f.value)
    /\ e.removed <= f.removed

(* Without compaction, no pass ever takes back a mutation or another host's
   merge that the state file already holds. *)
NeverRegresses ==
    [][\A h \in Hosts, i \in Item : Below(reg[h][i], reg'[h][i])]_vars

(* Driver.Reconcile works on the entries the state file holds at that time. *)
ItemsAreCurrent ==
    \A h \in Hosts : pc[h] = "items" => merged[h] = reg[h]

(* An item that a host has seen removed comes back there only by a newer add,
   although tombstones are compacted away: the horizon covers the time a
   removal needs to reach every host, and the clocks of the host that stamped
   it and of the host that compacts. *)
RemovedStaysRemoved ==
    [][\A h \in Hosts, i \in Item :
         ~Present(reg[h][i]) /\ Present(reg'[h][i]) =>
            \A m \in Removals(i, seen[h]) : m.at < reg'[h][i].added]_vars

(* Once faults stop, all hosts end up with one registry, by pulls alone. *)
Converged == <>calm => <>[](\A h, k \in Hosts : reg[h] = reg[k])
=============================================================================
