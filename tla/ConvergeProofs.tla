--------------------------- MODULE ConvergeProofs ---------------------------
(***************************************************************************)
(* The merge of cregistry is a lattice join, and a mesh of hosts that only *)
(* pull keeps every registry equal to the last-write-wins reading of the   *)
(* mutations that reached it.                                              *)
(***************************************************************************)
EXTENDS Converge, TLAPS

(***************************************************************************)
(* The join of entries.                                                    *)
(***************************************************************************)
(* joinEntry of two entries is an entry. *)
LEMMA JoinType ==
    ASSUME NEW e \in Entry, NEW f \in Entry
    PROVE  joinEntry(e, f) \in Entry
BY ValueAssumption DEF Entry, joinEntry, Larger, winningValue

(* The fields of an entry are naturals. *)
LEMMA EntryFields ==
    ASSUME NEW e \in Entry
    PROVE  e.added \in Nat /\ e.removed \in Nat /\ e.value \in Nat
BY ValueAssumption DEF Entry

(* The fields of a join, with the definitions of its parts expanded. *)
LEMMA JoinFields ==
    ASSUME NEW e \in Entry, NEW f \in Entry
    PROVE  LET j == joinEntry(e, f) IN
           /\ j.added = IF e.added >= f.added THEN e.added ELSE f.added
           /\ j.removed = IF e.removed >= f.removed THEN e.removed ELSE f.removed
           /\ j.value = IF e.added > f.added THEN e.value
                        ELSE IF f.added > e.added THEN f.value
                        ELSE IF e.value >= f.value THEN e.value ELSE f.value
BY DEF joinEntry, Larger, winningValue

(* Entries are equal when their fields are. *)
LEMMA SameEntry ==
    ASSUME NEW e \in Entry, NEW f \in Entry,
           e.added = f.added, e.removed = f.removed, e.value = f.value
    PROVE  e = f
BY DEF Entry

(* joinEntry is commutative. *)
LEMMA JoinCommutes ==
    ASSUME NEW e \in Entry, NEW f \in Entry
    PROVE  joinEntry(e, f) = joinEntry(f, e)
<1> DEFINE j == joinEntry(e, f)  k == joinEntry(f, e)
<1>1. j \in Entry /\ k \in Entry
    BY JoinType
<1>2. j.added = k.added /\ j.removed = k.removed /\ j.value = k.value
    BY JoinFields, EntryFields
<1> HIDE DEF j, k
<1>3. j = k
    BY <1>1, <1>2, SameEntry
<1>4. QED
    BY <1>3 DEF j, k

(* joinEntry is associative. *)
LEMMA JoinAssociates ==
    ASSUME NEW e \in Entry, NEW f \in Entry, NEW g \in Entry
    PROVE  joinEntry(joinEntry(e, f), g) = joinEntry(e, joinEntry(f, g))
<1> DEFINE ef == joinEntry(e, f)  fg == joinEntry(f, g)
<1>1. ef \in Entry /\ fg \in Entry
    BY JoinType
<1>2. /\ ef.added = IF e.added >= f.added THEN e.added ELSE f.added
      /\ ef.removed = IF e.removed >= f.removed THEN e.removed ELSE f.removed
      /\ ef.value = IF e.added > f.added THEN e.value
                    ELSE IF f.added > e.added THEN f.value
                    ELSE IF e.value >= f.value THEN e.value ELSE f.value
      /\ fg.added = IF f.added >= g.added THEN f.added ELSE g.added
      /\ fg.removed = IF f.removed >= g.removed THEN f.removed ELSE g.removed
      /\ fg.value = IF f.added > g.added THEN f.value
                    ELSE IF g.added > f.added THEN g.value
                    ELSE IF f.value >= g.value THEN f.value ELSE g.value
    BY JoinFields
<1> HIDE DEF ef, fg
<1> DEFINE l == joinEntry(ef, g)  r == joinEntry(e, fg)
<1>3. l \in Entry /\ r \in Entry
    BY <1>1, JoinType
<1>4. /\ l.added = IF ef.added >= g.added THEN ef.added ELSE g.added
      /\ l.removed = IF ef.removed >= g.removed THEN ef.removed ELSE g.removed
      /\ l.value = IF ef.added > g.added THEN ef.value
                   ELSE IF g.added > ef.added THEN g.value
                   ELSE IF ef.value >= g.value THEN ef.value ELSE g.value
      /\ r.added = IF e.added >= fg.added THEN e.added ELSE fg.added
      /\ r.removed = IF e.removed >= fg.removed THEN e.removed ELSE fg.removed
      /\ r.value = IF e.added > fg.added THEN e.value
                   ELSE IF fg.added > e.added THEN fg.value
                   ELSE IF e.value >= fg.value THEN e.value ELSE fg.value
    BY <1>1, JoinFields
<1> HIDE DEF l, r
<1>5. /\ e.added \in Nat /\ e.removed \in Nat /\ e.value \in Nat
      /\ f.added \in Nat /\ f.removed \in Nat /\ f.value \in Nat
      /\ g.added \in Nat /\ g.removed \in Nat /\ g.value \in Nat
    BY EntryFields
<1>6. l.added = r.added /\ l.removed = r.removed
    BY <1>2, <1>4, <1>5
<1>7. l.value = r.value
    BY <1>2, <1>4, <1>5
<1>8. l = r
    BY <1>3, <1>6, <1>7, SameEntry
<1>9. QED
    BY <1>8 DEF l, r, ef, fg

(* Joining an entry again changes nothing. *)
LEMMA JoinAbsorbs ==
    ASSUME NEW e \in Entry, NEW f \in Entry
    PROVE  joinEntry(joinEntry(e, f), f) = joinEntry(e, f)
<1> DEFINE j == joinEntry(e, f)
<1>1. j \in Entry
    BY JoinType
<1>2. /\ j.added = IF e.added >= f.added THEN e.added ELSE f.added
      /\ j.removed = IF e.removed >= f.removed THEN e.removed ELSE f.removed
      /\ j.value = IF e.added > f.added THEN e.value
                   ELSE IF f.added > e.added THEN f.value
                   ELSE IF e.value >= f.value THEN e.value ELSE f.value
    BY JoinFields
<1> HIDE DEF j
<1> DEFINE k == joinEntry(j, f)
<1>3. k \in Entry
    BY <1>1, JoinType
<1>4. /\ k.added = IF j.added >= f.added THEN j.added ELSE f.added
      /\ k.removed = IF j.removed >= f.removed THEN j.removed ELSE f.removed
      /\ k.value = IF j.added > f.added THEN j.value
                   ELSE IF f.added > j.added THEN f.value
                   ELSE IF j.value >= f.value THEN j.value ELSE f.value
    BY <1>1, JoinFields
<1> HIDE DEF k
<1>5. k.added = j.added /\ k.removed = j.removed /\ k.value = j.value
    BY <1>2, <1>4, EntryFields
<1>6. k = j
    BY <1>1, <1>3, <1>5, SameEntry
<1>7. QED
    BY <1>6 DEF j, k

(* Merge does not depend on the sides: Merge(a, b) and Merge(b, a) agree on
   every stamp and, by the tiebreak on encodings, on every value. *)
THEOREM MergeCommutes ==
    ASSUME NEW a \in Registry, NEW b \in Registry
    PROVE  Merge(a, b) = Merge(b, a)
<1>1. ASSUME NEW i \in Item PROVE joinEntry(a[i], b[i]) = joinEntry(b[i], a[i])
    BY JoinCommutes DEF Registry
<1>2. QED
    BY <1>1 DEF Merge

(* Registries may be merged in any grouping, so in any order of passes. *)
THEOREM MergeAssociates ==
    ASSUME NEW a \in Registry, NEW b \in Registry, NEW c \in Registry
    PROVE  Merge(Merge(a, b), c) = Merge(a, Merge(b, c))
<1>1. ASSUME NEW i \in Item PROVE joinEntry(joinEntry(a[i], b[i]), c[i]) = joinEntry(a[i], joinEntry(b[i], c[i]))
    BY JoinAssociates DEF Registry
<1>2. QED
    BY <1>1 DEF Merge

(* A registry that was merged before changes nothing when merged again. *)
THEOREM MergeAbsorbs ==
    ASSUME NEW a \in Registry, NEW b \in Registry
    PROVE  Merge(Merge(a, b), b) = Merge(a, b)
<1>1. ASSUME NEW i \in Item PROVE joinEntry(joinEntry(a[i], b[i]), b[i]) = joinEntry(a[i], b[i])
    BY JoinAbsorbs DEF Registry
<1>2. QED
    BY <1>1 DEF Merge

(* An entry is below its join with any other. *)
LEMMA BelowJoin ==
    ASSUME NEW e \in Entry, NEW f \in Entry
    PROVE  Below(e, joinEntry(e, f))
BY JoinFields, EntryFields DEF Below

(* An entry is below itself. *)
LEMMA BelowSelf ==
    ASSUME NEW e \in Entry
    PROVE  Below(e, e)
BY EntryFields DEF Below

(* Below is transitive. *)
LEMMA BelowTrans ==
    ASSUME NEW e \in Entry, NEW f \in Entry, NEW g \in Entry, Below(e, f), Below(f, g)
    PROVE  Below(e, g)
<1>1. /\ e.added \in Nat /\ e.removed \in Nat /\ e.value \in Nat
      /\ f.added \in Nat /\ f.removed \in Nat /\ f.value \in Nat
      /\ g.added \in Nat /\ g.removed \in Nat /\ g.value \in Nat
    BY EntryFields
<1>2. QED
    BY <1>1 DEF Below

(* The join reads the union of what its arguments read. *)
LEMMA ReadsJoin ==
    ASSUME NEW e \in Entry, NEW f \in Entry, NEW i \in Item,
           NEW S \in SUBSET Mutation, NEW T \in SUBSET Mutation,
           Reads(e, i, S), Reads(f, i, T)
    PROVE  Reads(joinEntry(e, f), i, S \cup T)
<1> DEFINE j == joinEntry(e, f)
<1>1. /\ j.added = Larger(e.added, f.added)
      /\ j.removed = Larger(e.removed, f.removed)
      /\ j.value = winningValue(e, f)
    BY DEF joinEntry
<1>2. /\ Adds(i, S \cup T) = Adds(i, S) \cup Adds(i, T)
      /\ Removals(i, S \cup T) = Removals(i, S) \cup Removals(i, T)
    BY DEF Adds, Removals
<1>3. /\ \A m \in Adds(i, S) \cup Adds(i, T) : m.at \in Nat \ {0} /\ m.value \in Nat
      /\ \A m \in Removals(i, S) \cup Removals(i, T) : m.at \in Nat
    BY ValueAssumption DEF Adds, Removals, Mutation
<1>4. e.added \in Nat /\ f.added \in Nat /\ e.removed \in Nat /\ f.removed \in Nat
      /\ e.value \in Nat /\ f.value \in Nat
    BY ValueAssumption DEF Entry
<1>5. \A m \in Adds(i, S \cup T) : m.at < j.added \/ (m.at = j.added /\ m.value <= j.value)
    <2>1. ASSUME NEW m \in Adds(i, S)
          PROVE  m.at < j.added \/ (m.at = j.added /\ m.value <= j.value)
        <3>1. m.at < e.added \/ (m.at = e.added /\ m.value <= e.value)
            BY <2>1 DEF Reads
        <3>2. QED
            BY <3>1, <1>1, <1>3, <1>4 DEF Larger, winningValue
    <2>2. ASSUME NEW m \in Adds(i, T)
          PROVE  m.at < j.added \/ (m.at = j.added /\ m.value <= j.value)
        <3>1. m.at < f.added \/ (m.at = f.added /\ m.value <= f.value)
            BY <2>2 DEF Reads
        <3>2. QED
            BY <3>1, <1>1, <1>3, <1>4 DEF Larger, winningValue
    <2>3. QED
        BY <2>1, <2>2, <1>2
<1>6. \/ j.added = 0 /\ j.value = Zero
      \/ \E m \in Adds(i, S \cup T) : m.at = j.added /\ m.value = j.value
    <2>1. \/ j.added = e.added /\ j.value = e.value
          \/ j.added = f.added /\ j.value = f.value
        BY <1>1, <1>4 DEF Larger, winningValue
    <2>2. /\ \/ e.added = 0 /\ e.value = Zero
             \/ \E m \in Adds(i, S) : m.at = e.added /\ m.value = e.value
          /\ \/ f.added = 0 /\ f.value = Zero
             \/ \E m \in Adds(i, T) : m.at = f.added /\ m.value = f.value
        BY DEF Reads
    <2>3. QED
        BY <2>1, <2>2, <1>2
<1>7. \A m \in Removals(i, S \cup T) : m.at <= j.removed
    <2>1. /\ \A m \in Removals(i, S) : m.at <= e.removed
          /\ \A m \in Removals(i, T) : m.at <= f.removed
        BY DEF Reads
    <2>2. QED
        <3>1. ASSUME NEW m \in Removals(i, S) PROVE m.at <= j.removed
            BY <3>1, <2>1, <1>1, <1>3, <1>4 DEF Larger
        <3>2. ASSUME NEW m \in Removals(i, T) PROVE m.at <= j.removed
            BY <3>2, <2>1, <1>1, <1>3, <1>4 DEF Larger
        <3>3. QED
            BY <3>1, <3>2, <1>2
<1>8. \/ j.removed = 0
      \/ \E m \in Removals(i, S \cup T) : m.at = j.removed
    <2>1. /\ e.removed = 0 \/ \E m \in Removals(i, S) : m.at = e.removed
          /\ f.removed = 0 \/ \E m \in Removals(i, T) : m.at = f.removed
        BY DEF Reads
    <2>2. j.removed = e.removed \/ j.removed = f.removed
        BY <1>1 DEF Larger
    <2>3. QED
        BY <2>1, <2>2, <1>2
<1>9. QED
    BY <1>5, <1>6, <1>7, <1>8 DEF Reads

(* A set of mutations has one reading: replicas that have seen the same
   mutations hold the same entry. *)
LEMMA ReadsUnique ==
    ASSUME NEW e \in Entry, NEW f \in Entry, NEW i \in Item,
           NEW S \in SUBSET Mutation, Reads(e, i, S), Reads(f, i, S)
    PROVE  e = f
<1>1. e.added \in Nat /\ f.added \in Nat /\ e.removed \in Nat /\ f.removed \in Nat
      /\ e.value \in Nat /\ f.value \in Nat
    BY ValueAssumption DEF Entry
<1>2. /\ \A m \in Adds(i, S) : m.at \in Nat \ {0} /\ m.value \in Nat
      /\ \A m \in Removals(i, S) : m.at \in Nat \ {0}
    BY ValueAssumption DEF Adds, Removals, Mutation
<1>3. e.added = f.added /\ e.value = f.value
    <2>1. /\ \A m \in Adds(i, S) : m.at < e.added \/ (m.at = e.added /\ m.value <= e.value)
          /\ \A m \in Adds(i, S) : m.at < f.added \/ (m.at = f.added /\ m.value <= f.value)
        BY DEF Reads
    <2>2. \/ e.added = 0 /\ e.value = Zero
          \/ \E m \in Adds(i, S) : m.at = e.added /\ m.value = e.value
        BY DEF Reads
    <2>3. \/ f.added = 0 /\ f.value = Zero
          \/ \E m \in Adds(i, S) : m.at = f.added /\ m.value = f.value
        BY DEF Reads
    <2>4. QED
        BY <2>1, <2>2, <2>3, <1>1, <1>2
<1>4. e.removed = f.removed
    <2>1. /\ \A m \in Removals(i, S) : m.at <= e.removed /\ m.at <= f.removed
          /\ e.removed = 0 \/ \E m \in Removals(i, S) : m.at = e.removed
          /\ f.removed = 0 \/ \E m \in Removals(i, S) : m.at = f.removed
        BY DEF Reads
    <2>2. QED
        BY <2>1, <1>1, <1>2
<1>5. QED
    BY <1>3, <1>4 DEF Entry
-----------------------------------------------------------------------------
(***************************************************************************)
(* Types.                                                                  *)
(***************************************************************************)
(* The operations on registries return registries. *)
LEMMA OperationTypes ==
    ASSUME NEW r \in Registry, NEW q \in Registry, NEW i \in Item, NEW v \in Value,
           NEW at \in Nat, NEW t \in Nat
    PROVE  /\ Add(r, i, v, at) \in Registry
           /\ Remove(r, i, at) \in Registry
           /\ Compact(r, t, Horizon) \in Registry
           /\ Merge(r, q) \in Registry
<1>1. Add(r, i, v, at) \in Registry
    BY DEF Add, Registry, Entry
<1>2. Remove(r, i, at) \in Registry
    BY DEF Remove, Registry, Entry
<1>3. Compact(r, t, Horizon) \in Registry
    BY ValueAssumption DEF Compact, Registry, Entry, NoEntry
<1>4. Merge(r, q) \in Registry
    BY JoinType DEF Merge, Registry
<1>5. QED
    BY <1>1, <1>2, <1>3, <1>4

(* Stamps and bounds are naturals. *)
LEMMA StampType ==
    ASSUME now \in Nat
    PROVE  Stamp \subseteq Nat \ {0}
BY BoundsAssumption DEF Stamp

(* The empty registry is a registry. *)
LEMMA NewType == New \in Registry
BY ValueAssumption DEF New, Registry, Entry, NoEntry

(* Every step keeps the types. *)
LEMMA TypeStep ==
    ASSUME TypeOK, [Next]_vars
    PROVE  TypeOK'
<1> USE DEF TypeOK
<1>0. CASE UNCHANGED vars
    BY <1>0 DEF vars, passVars
<1>1. CASE Tick
    BY <1>1 DEF Tick, passVars
<1>2. CASE CalmDown
    BY <1>2 DEF CalmDown, passVars
<1>3. ASSUME NEW h \in Hosts, NEW i \in Item, NEW at \in Stamp, LocalRemove(h, i, at) PROVE TypeOK'
    <2>1. Remove(reg[h], i, at) \in Registry /\ Removing(i, at) \in Mutation
        BY OperationTypes, StampType, ValueAssumption DEF Removing, Mutation
    <2>2. QED
        BY <1>3, <2>1 DEF LocalRemove, passVars
<1>4. ASSUME NEW h \in Hosts, NEW i \in Item, NEW v \in Value, NEW at \in Stamp, LocalAdd(h, i, v, at) PROVE TypeOK'
    <2>1. Add(reg[h], i, v, at) \in Registry /\ Adding(i, v, at) \in Mutation
        BY OperationTypes, StampType DEF Adding, Mutation
    <2>2. QED
        BY <1>4, <2>1 DEF LocalAdd, passVars
<1>5. ASSUME NEW h \in Hosts, NEW at \in Stamp, LocalCompact(h, at) PROVE TypeOK'
    <2>1. Compact(reg[h], at, Horizon) \in Registry
        BY ValueAssumption DEF Compact, Registry, Entry, NoEntry
    <2>2. QED
        BY <1>5, <2>1 DEF LocalCompact, passVars
<1>6. ASSUME NEW h \in Hosts, NEW o \in Hosts, Begin(h, o) PROVE TypeOK'
    BY <1>6 DEF Begin
<1>7. ASSUME NEW h \in Hosts, NEW p \in Hosts, FetchFails(h, p) PROVE TypeOK'
    BY <1>7 DEF FetchFails
<1>8. ASSUME NEW h \in Hosts, NEW p \in Hosts, Fetch(h, p) PROVE TypeOK'
    <2>1. Merge(merged[h], reg[p]) \in Registry
        BY JoinType DEF Merge, Registry
    <2>2. QED
        BY <1>8, <2>1 DEF Fetch
<1>9. ASSUME NEW h \in Hosts, Save(h) PROVE TypeOK'
    <2>1. CASE EndPass(h)
        BY <1>9, <2>1, NewType DEF Save, EndPass
    <2>2. CASE ~EndPass(h)
        BY <1>9, <2>2 DEF Save
    <2>3. QED
        BY <2>1, <2>2
<1>10. ASSUME NEW h \in Hosts, ReconcileItem(h) PROVE TypeOK'
    BY <1>10 DEF ReconcileItem
<1>11. ASSUME NEW h \in Hosts, Finish(h) PROVE TypeOK'
    BY <1>11, NewType DEF Finish, EndPass
<1>12. ASSUME NEW h \in Hosts, Abort(h) PROVE TypeOK'
    BY <1>12, NewType DEF Abort, EndPass
<1>13. QED
    BY <1>0, <1>1, <1>2, <1>3, <1>4, <1>5, <1>6, <1>7, <1>8, <1>9, <1>10, <1>11, <1>12 DEF Next, PassStep

(* A new mesh is typed. *)
LEMMA InitTyped ==
    ASSUME Init
    PROVE  TypeOK
<1>1. reg \in [Hosts -> Registry] /\ merged \in [Hosts -> Registry]
    BY NewType DEF Init
<1>2. /\ seen \in [Hosts -> SUBSET Mutation] /\ gathered \in [Hosts -> SUBSET Mutation]
      /\ began \in [Hosts -> Nat] /\ synced \in [Hosts -> Nat] /\ now \in Nat
    BY DEF Init
<1>3. /\ pc \in [Hosts -> {"idle", "pull", "items"}]
      /\ full \in [Hosts -> BOOLEAN] /\ calm \in BOOLEAN
    BY DEF Init
<1>4. /\ todo \in [Hosts -> SUBSET (Hosts \cup Item)]
      /\ \A h \in Hosts : todo[h] = {}
    BY DEF Init
<1>5. QED
    BY <1>1, <1>2, <1>3, <1>4 DEF TypeOK

(* The state of the mesh keeps its types. *)
THEOREM TypeCorrect == Spec => []TypeOK
<1>1. Init => TypeOK
    BY InitTyped
<1>2. TypeOK /\ [Next]_vars => TypeOK'
    BY TypeStep
<1>3. QED
    BY <1>1, <1>2, PTL DEF Spec

-----------------------------------------------------------------------------
(***************************************************************************)
(* What a pass holds: its merge reads what it gathered, and is at or above *)
(* the state file it will replace, because the lock keeps everybody else   *)
(* from writing that file.                                                 *)
(***************************************************************************)
PassReads(h) ==
    pc[h] # "idle" =>
        \A i \in Item : /\ Reads(merged[h][i], i, gathered[h])
                       /\ Below(reg[h][i], merged[h][i])

HostInv(h) ==
    /\ pc[h] = "items" => merged[h] = reg[h]
    /\ \A i \in Item : Reads(reg[h][i], i, seen[h])
    /\ PassReads(h)

IndInv == TypeOK /\ \A h \in Hosts : HostInv(h)

\* What a step does to one host: it keeps the invariant and takes nothing back.
HostStep(h) == HostInv(h)' /\ \A i \in Item : Below(reg[h][i], reg'[h][i])

(* The empty registry reads the empty set of mutations. *)
LEMMA NewReads == \A i \in Item : Reads(New[i], i, {})
BY DEF New, NoEntry, Reads, Adds, Removals

(* A local add that takes effect reads the mutations so far and itself. *)
LEMMA ReadsAdd ==
    ASSUME NEW r \in Registry, NEW i \in Item, NEW v \in Value, NEW at \in Nat \ {0},
           NEW S \in SUBSET Mutation, at > r[i].added,
           \A k \in Item : Reads(r[k], k, S),
           NEW k \in Item
    PROVE  /\ Reads(Add(r, i, v, at)[k], k, S \cup {Adding(i, v, at)})
           /\ Below(r[k], Add(r, i, v, at)[k])
<1> DEFINE T == S \cup {Adding(i, v, at)}  q == Add(r, i, v, at)
<1>1. r[k] \in Entry /\ r[i] \in Entry
    BY DEF Registry
<1>2. Removals(k, T) = Removals(k, S)
    BY DEF Removals, Adding
<1>3. CASE k # i
    <2>1. Adds(k, T) = Adds(k, S) /\ q[k] = r[k]
        BY <1>3 DEF Adds, Adding, Add, Registry
    <2>2. QED
        BY <2>1, <1>1, <1>2, BelowSelf DEF Reads
<1>4. CASE k = i
    <2>1. q[k] = [r[i] EXCEPT !.added = at, !.value = v]
        BY <1>4 DEF Add, Registry
    <2>2. q[k].added = at /\ q[k].value = v /\ q[k].removed = r[k].removed
        BY <2>1, <1>1, <1>4 DEF Entry
    <2>3. Adds(k, T) = Adds(k, S) \cup {Adding(i, v, at)}
        BY <1>4 DEF Adds, Adding
    <2>4. \A m \in Adds(k, S) : m.at < at
        <3>1. \A m \in Adds(k, S) : m.at <= r[k].added /\ m.at \in Nat
            BY EntryFields, <1>1 DEF Reads, Adds, Mutation
        <3>2. QED
            BY <3>1, <1>1, <1>4, EntryFields
    <2>5. Adding(i, v, at).at = at /\ Adding(i, v, at).value = v
        BY DEF Adding
    <2>6. /\ \A m \in Adds(k, T) : m.at < at \/ (m.at = at /\ m.value <= v)
          /\ \E m \in Adds(k, T) : m.at = at /\ m.value = v
        BY <2>3, <2>4, <2>5, ValueAssumption
    <2>7. /\ \A m \in Removals(k, T) : m.at <= r[k].removed
          /\ r[k].removed = 0 \/ \E m \in Removals(k, T) : m.at = r[k].removed
        BY <1>2 DEF Reads
    <2>8. Reads(q[k], k, T)
        BY <2>2, <2>6, <2>7 DEF Reads
    <2>9. Below(r[k], q[k])
        BY <2>2, <1>1, <1>4, EntryFields DEF Below
    <2>10. QED
        BY <2>8, <2>9
<1>5. QED
    BY <1>3, <1>4

(* A local removal reads the mutations so far and itself. *)
LEMMA ReadsRemove ==
    ASSUME NEW r \in Registry, NEW i \in Item, NEW at \in Nat \ {0},
           NEW S \in SUBSET Mutation,
           \A k \in Item : Reads(r[k], k, S),
           NEW k \in Item
    PROVE  /\ Reads(Remove(r, i, at)[k], k, S \cup {Removing(i, at)})
           /\ Below(r[k], Remove(r, i, at)[k])
<1> DEFINE T == S \cup {Removing(i, at)}  q == Remove(r, i, at)
<1>1. r[k] \in Entry /\ r[i] \in Entry
    BY DEF Registry
<1>2. Adds(k, T) = Adds(k, S)
    BY DEF Adds, Removing
<1>3. CASE k # i
    <2>1. Removals(k, T) = Removals(k, S) /\ q[k] = r[k]
        BY <1>3 DEF Removals, Removing, Remove, Registry
    <2>2. QED
        BY <2>1, <1>1, <1>2, BelowSelf DEF Reads
<1>4. CASE k = i
    <2>1. q[k] = IF at > r[k].removed THEN [r[k] EXCEPT !.removed = at] ELSE r[k]
        BY <1>4 DEF Remove, Registry
    <2>2. /\ q[k].added = r[k].added /\ q[k].value = r[k].value
          /\ q[k].removed = IF at > r[k].removed THEN at ELSE r[k].removed
        BY <2>1, <1>1 DEF Entry
    <2>3. Removals(k, T) = Removals(k, S) \cup {Removing(i, at)}
        BY <1>4 DEF Removals, Removing
    <2>4. /\ \A m \in Removals(k, S) : m.at <= r[k].removed /\ m.at \in Nat
          /\ r[k].removed = 0 \/ \E m \in Removals(k, S) : m.at = r[k].removed
        BY DEF Reads, Removals, Mutation
    <2>5. Removing(i, at).at = at
        BY DEF Removing
    <2>6. r[k].removed \in Nat /\ r[k].added \in Nat /\ r[k].value \in Nat
        BY <1>1, EntryFields
    <2>7. \A m \in Removals(k, T) : m.at <= q[k].removed
        BY <2>2, <2>3, <2>4, <2>5, <2>6
    <2>8. q[k].removed = 0 \/ \E m \in Removals(k, T) : m.at = q[k].removed
        BY <2>2, <2>3, <2>4, <2>5, <2>6
    <2>9. Reads(q[k], k, T)
        BY <2>2, <2>7, <2>8, <1>2 DEF Reads
    <2>10. Below(r[k], q[k])
        BY <2>2, <2>6 DEF Below
    <2>11. QED
        BY <2>9, <2>10
<1>5. QED
    BY <1>3, <1>4

(* A step that leaves a host's registry and pass alone. *)
LEMMA Frame ==
    ASSUME TypeOK, NEW h \in Hosts, HostInv(h),
           reg'[h] = reg[h], seen'[h] = seen[h], pc'[h] = pc[h],
           merged'[h] = merged[h], gathered'[h] = gathered[h]
    PROVE  HostStep(h)
<1>1. \A i \in Item : reg[h][i] \in Entry
    BY DEF TypeOK, Registry
<1>2. QED
    BY <1>1, BelowSelf DEF HostInv, HostStep, PassReads

(* A step that ends a host's pass and leaves its state file alone. *)
LEMMA FrameIdle ==
    ASSUME TypeOK, NEW h \in Hosts, HostInv(h),
           reg'[h] = reg[h], seen'[h] = seen[h], pc'[h] = "idle"
    PROVE  HostStep(h)
<1>1. \A i \in Item : reg[h][i] \in Entry
    BY DEF TypeOK, Registry
<1>2. QED
    BY <1>1, BelowSelf DEF HostInv, HostStep, PassReads

(* Without compaction, every step keeps every host's invariant. *)
LEMMA HostSteps ==
    ASSUME Horizon = 0, IndInv, [Next]_vars, NEW k \in Hosts
    PROVE  HostStep(k)
<1>0. TypeOK /\ HostInv(k)
    BY DEF IndInv
<1>a. CASE UNCHANGED vars \/ Tick \/ CalmDown
    BY <1>0, <1>a, Frame DEF vars, passVars, Tick, CalmDown
<1>1. ASSUME NEW h \in Hosts, NEW i \in Item, NEW at \in Stamp, LocalRemove(h, i, at)
      PROVE  HostStep(k)
    <2>1. CASE k # h
        BY <1>0, <1>1, <2>1, Frame DEF LocalRemove, passVars, TypeOK
    <2>2. CASE k = h
        <3>1. at \in Nat \ {0} /\ reg[h] \in Registry /\ seen[h] \in SUBSET Mutation
            BY <1>0, StampType DEF TypeOK
        <3>2. /\ reg'[h] = Remove(reg[h], i, at)
              /\ seen'[h] = seen[h] \cup {Removing(i, at)}
              /\ pc'[h] = "idle"
            BY <1>0, <1>1 DEF LocalRemove, Unlocked, passVars, TypeOK
        <3>3. \A j \in Item : Reads(reg[h][j], j, seen[h])
            BY <1>0, <2>2 DEF HostInv
        <3>4. \A j \in Item : Reads(reg'[h][j], j, seen'[h]) /\ Below(reg[h][j], reg'[h][j])
            <4>1. ASSUME NEW j \in Item
                  PROVE  /\ Reads(Remove(reg[h], i, at)[j], j, seen[h] \cup {Removing(i, at)})
                         /\ Below(reg[h][j], Remove(reg[h], i, at)[j])
                BY <3>1, <3>3, ReadsRemove
            <4>2. QED
                BY <3>2, <4>1
        <3>5. QED
            BY <2>2, <3>2, <3>4 DEF HostStep, HostInv, PassReads
    <2>3. QED
        BY <2>1, <2>2
<1>2. ASSUME NEW h \in Hosts, NEW i \in Item, NEW v \in Value, NEW at \in Stamp,
             LocalAdd(h, i, v, at)
      PROVE  HostStep(k)
    <2>1. CASE k # h
        BY <1>0, <1>2, <2>1, Frame DEF LocalAdd, passVars, TypeOK
    <2>2. CASE k = h /\ ~(at > reg[h][i].added)
        <3>1. reg'[h] = reg[h] /\ seen'[h] = seen[h] /\ pc'[h] = "idle"
            BY <1>0, <1>2, <2>2 DEF LocalAdd, Add, Unlocked, passVars, TypeOK
        <3>2. QED
            BY <1>0, <2>2, <3>1, FrameIdle
    <2>3. CASE k = h /\ at > reg[h][i].added
        <3>1. at \in Nat \ {0} /\ reg[h] \in Registry /\ seen[h] \in SUBSET Mutation
            BY <1>0, StampType DEF TypeOK
        <3>2. /\ reg'[h] = Add(reg[h], i, v, at)
              /\ seen'[h] = seen[h] \cup {Adding(i, v, at)}
              /\ pc'[h] = "idle"
            BY <1>0, <1>2, <2>3 DEF LocalAdd, Unlocked, passVars, TypeOK
        <3>3. \A j \in Item : Reads(reg[h][j], j, seen[h])
            BY <1>0, <2>3 DEF HostInv
        <3>4. \A j \in Item : Reads(reg'[h][j], j, seen'[h]) /\ Below(reg[h][j], reg'[h][j])
            <4>1. ASSUME NEW j \in Item
                  PROVE  /\ Reads(Add(reg[h], i, v, at)[j], j, seen[h] \cup {Adding(i, v, at)})
                         /\ Below(reg[h][j], Add(reg[h], i, v, at)[j])
                BY <2>3, <3>1, <3>3, ReadsAdd
            <4>2. QED
                BY <3>2, <4>1
        <3>5. QED
            BY <2>3, <3>2, <3>4 DEF HostStep, HostInv, PassReads
    <2>4. QED
        BY <2>1, <2>2, <2>3
<1>3. ASSUME NEW h \in Hosts, NEW at \in Stamp, LocalCompact(h, at) PROVE FALSE
    BY <1>3 DEF LocalCompact
<1>4. ASSUME NEW h \in Hosts, NEW o \in Hosts, Begin(h, o) PROVE HostStep(k)
    <2>1. CASE k # h
        BY <1>0, <1>4, <2>1, Frame DEF Begin, TypeOK
    <2>2. CASE k = h
        <3>1. /\ reg'[h] = reg[h] /\ seen'[h] = seen[h] /\ pc'[h] = "pull"
              /\ merged'[h] = reg[h] /\ gathered'[h] = seen[h]
            BY <1>0, <1>4 DEF Begin, TypeOK
        <3>2. \A i \in Item : reg[h][i] \in Entry
            BY <1>0 DEF TypeOK, Registry
        <3>3. QED
            BY <1>0, <2>2, <3>1, <3>2, BelowSelf DEF HostInv, HostStep, PassReads
    <2>3. QED
        BY <2>1, <2>2
<1>5. ASSUME NEW h \in Hosts, NEW p \in Hosts, FetchFails(h, p) PROVE HostStep(k)
    BY <1>0, <1>5, Frame DEF FetchFails
<1>6. ASSUME NEW h \in Hosts, NEW p \in Hosts, Fetch(h, p) PROVE HostStep(k)
    <2>1. CASE k # h
        BY <1>0, <1>6, <2>1, Frame DEF Fetch, TypeOK
    <2>2. CASE k = h
        <3>1. /\ reg'[h] = reg[h] /\ seen'[h] = seen[h] /\ pc'[h] = "pull" /\ pc[h] = "pull"
              /\ merged'[h] = Merge(merged[h], reg[p]) /\ gathered'[h] = gathered[h] \cup seen[p]
            BY <1>0, <1>6 DEF Fetch, TypeOK
        <3>2. ASSUME NEW i \in Item
              PROVE  /\ Reads(merged'[h][i], i, gathered'[h])
                     /\ Below(reg'[h][i], merged'[h][i])
                     /\ Below(reg[h][i], reg'[h][i])
            <4>1. merged'[h][i] = joinEntry(merged[h][i], reg[p][i])
                BY <3>1 DEF Merge
            <4>2. merged[h][i] \in Entry /\ reg[p][i] \in Entry /\ reg[h][i] \in Entry
                BY <1>0 DEF TypeOK, Registry
            <4>3. gathered[h] \in SUBSET Mutation /\ seen[p] \in SUBSET Mutation
                BY <1>0 DEF TypeOK
            <4>4. /\ Reads(merged[h][i], i, gathered[h]) /\ Below(reg[h][i], merged[h][i])
                  /\ Reads(reg[p][i], i, seen[p])
                BY <3>1 DEF IndInv, HostInv, PassReads
            <4>5. Reads(merged'[h][i], i, gathered'[h])
                BY <3>1, <4>1, <4>2, <4>3, <4>4, ReadsJoin
            <4>6. Below(merged[h][i], merged'[h][i]) /\ merged'[h][i] \in Entry
                BY <4>1, <4>2, BelowJoin, JoinType
            <4>7. Below(reg[h][i], merged'[h][i])
                BY <4>2, <4>4, <4>6, BelowTrans
            <4>8. QED
                BY <3>1, <4>2, <4>5, <4>7, BelowSelf
        <3>3. QED
            BY <1>0, <2>2, <3>1, <3>2 DEF HostInv, HostStep, PassReads
    <2>3. QED
        BY <2>1, <2>2
<1>7. ASSUME NEW h \in Hosts, Save(h) PROVE HostStep(k)
    <2>1. CASE k # h
        BY <1>0, <1>7, <2>1, Frame DEF Save, EndPass, TypeOK
    <2>2. CASE k = h
        <3>1. /\ reg'[h] = merged[h] /\ seen'[h] = gathered[h] /\ pc[h] = "pull"
              /\ \/ pc'[h] = "idle"
                 \/ pc'[h] = "items" /\ merged'[h] = merged[h] /\ gathered'[h] = gathered[h]
            BY <1>0, <1>7 DEF Save, EndPass, TypeOK
        <3>2. \A i \in Item : /\ Reads(merged[h][i], i, gathered[h])
                             /\ Below(reg[h][i], merged[h][i])
                             /\ merged[h][i] \in Entry
            BY <1>0, <2>2, <3>1 DEF HostInv, PassReads, TypeOK, Registry
        <3>3. QED
            BY <2>2, <3>1, <3>2, BelowSelf DEF HostInv, HostStep, PassReads
    <2>3. QED
        BY <2>1, <2>2
<1>8. ASSUME NEW h \in Hosts, ReconcileItem(h) PROVE HostStep(k)
    BY <1>0, <1>8, Frame DEF ReconcileItem
<1>9. ASSUME NEW h \in Hosts, Finish(h) \/ Abort(h) PROVE HostStep(k)
    <2>1. CASE k # h
        BY <1>0, <1>9, <2>1, Frame DEF Finish, Abort, EndPass, TypeOK
    <2>2. CASE k = h
        BY <1>0, <1>9, <2>2, FrameIdle DEF Finish, Abort, EndPass, TypeOK
    <2>3. QED
        BY <2>1, <2>2
<1>10. QED
    BY <1>a, <1>1, <1>2, <1>3, <1>4, <1>5, <1>6, <1>7, <1>8, <1>9 DEF Next, PassStep

(* The invariant holds of every reachable state. *)
LEMMA Invariant ==
    ASSUME Horizon = 0
    PROVE  Spec => []IndInv
<1>1. Init => \A h \in Hosts : HostInv(h)
    BY NewReads DEF Init, HostInv, PassReads
<1>2. IndInv /\ [Next]_vars => (\A h \in Hosts : HostInv(h))'
    BY HostSteps DEF HostStep
<1>3. TypeOK /\ [Next]_vars => TypeOK'
    BY TypeStep
<1>4. QED
    BY <1>1, <1>2, <1>3, TypeCorrect, PTL DEF Spec, IndInv

(* Without compaction, every registry is the last-write-wins reading of the
   mutations that reached its host, whatever the passes, failed fetches and
   crashes on the way. *)
THEOREM RegistriesReadTheirMutations ==
    ASSUME Horizon = 0
    PROVE  Spec => []LastWriteWins
<1>1. IndInv => LastWriteWins
    BY DEF IndInv, HostInv, LastWriteWins
<1>2. QED
    BY <1>1, Invariant, PTL

(* Strong convergence: hosts that have seen the same mutations hold the same
   registry. *)
THEOREM SameMutationsSameRegistry ==
    ASSUME TypeOK, LastWriteWins, NEW h \in Hosts, NEW k \in Hosts, seen[h] = seen[k]
    PROVE  reg[h] = reg[k]
<1>1. reg[h] \in Registry /\ reg[k] \in Registry /\ seen[k] \in SUBSET Mutation
    BY DEF TypeOK
<1>2. ASSUME NEW i \in Item PROVE reg[h][i] = reg[k][i]
    BY <1>1, ReadsUnique DEF LastWriteWins, Registry
<1>3. QED
    BY <1>1, <1>2 DEF Registry

(* Without compaction, no step takes back what a state file holds. *)
THEOREM RegistriesOnlyGrow ==
    ASSUME Horizon = 0
    PROVE  Spec => NeverRegresses
<1>1. IndInv /\ [Next]_vars => \A h \in Hosts, i \in Item : Below(reg[h][i], reg'[h][i])
    BY HostSteps DEF HostStep
<1>2. QED
    BY <1>1, Invariant, PTL DEF Spec, NeverRegresses

-----------------------------------------------------------------------------
(***************************************************************************)
(* The items that a pass works on, with compaction or without.             *)
(***************************************************************************)
(* Only the pass itself writes the state file while it works on the items. *)
THEOREM PassItemsAreCurrent == Spec => []ItemsAreCurrent
<1>1. Init => ItemsAreCurrent
    BY DEF Init, ItemsAreCurrent
<1>2. ASSUME TypeOK, ItemsAreCurrent, [Next]_vars
      PROVE  ItemsAreCurrent'
    <2> SUFFICES ASSUME NEW k \in Hosts, pc'[k] = "items"
                 PROVE  merged'[k] = reg'[k]
        BY DEF ItemsAreCurrent
    <2> USE <1>2
    <2>0. pc[k] = "items" => merged[k] = reg[k]
        BY DEF ItemsAreCurrent
    <2>a. CASE UNCHANGED vars \/ Tick \/ CalmDown
        BY <2>0, <2>a DEF vars, passVars, Tick, CalmDown
    <2>1. ASSUME NEW h \in Hosts, NEW i \in Item, NEW at \in Stamp, LocalRemove(h, i, at)
          PROVE  merged'[k] = reg'[k]
        BY <2>0, <2>1 DEF LocalRemove, Unlocked, passVars, TypeOK
    <2>2. ASSUME NEW h \in Hosts, NEW i \in Item, NEW v \in Value, NEW at \in Stamp,
                 LocalAdd(h, i, v, at)
          PROVE  merged'[k] = reg'[k]
        BY <2>0, <2>2 DEF LocalAdd, Unlocked, passVars, TypeOK
    <2>3. ASSUME NEW h \in Hosts, NEW at \in Stamp, LocalCompact(h, at)
          PROVE  merged'[k] = reg'[k]
        BY <2>0, <2>3 DEF LocalCompact, Unlocked, passVars, TypeOK
    <2>4. ASSUME NEW h \in Hosts, NEW o \in Hosts, Begin(h, o) \/ FetchFails(h, o) \/ Fetch(h, o)
          PROVE  merged'[k] = reg'[k]
        BY <2>0, <2>4 DEF Begin, FetchFails, Fetch, TypeOK
    <2>5. ASSUME NEW h \in Hosts, Save(h)
          PROVE  merged'[k] = reg'[k]
        <3>1. CASE k # h
            BY <2>0, <2>5, <3>1 DEF Save, EndPass, TypeOK
        <3>2. CASE k = h
            BY <2>5, <3>2 DEF Save, EndPass, TypeOK
        <3>3. QED
            BY <3>1, <3>2
    <2>6. ASSUME NEW h \in Hosts, ReconcileItem(h) \/ Finish(h) \/ Abort(h)
          PROVE  merged'[k] = reg'[k]
        BY <2>0, <2>6 DEF ReconcileItem, Finish, Abort, EndPass, TypeOK
    <2>7. QED
        BY <2>a, <2>1, <2>2, <2>3, <2>4, <2>5, <2>6 DEF Next, PassStep
<1>3. QED
    BY <1>1, <1>2, TypeCorrect, PTL DEF Spec

-----------------------------------------------------------------------------
(***************************************************************************)
(* Compaction.  A tombstone goes only when its removal is in the file of   *)
(* every host: a removal cannot be stamped more than Skew before its time, *)
(* and every host has since completed a pass over all the others.          *)
(***************************************************************************)
(* Every mutation that reached a state file. *)
Made == UNION {seen[h] : h \in Hosts}

(* A pass loses nothing that its host has seen; and the deployment's promise,
   that the last complete pass of a host is no older than MaxLag. *)
PassGathers(h) ==
    /\ gathered[h] \subseteq Made
    /\ pc[h] # "idle" => seen[h] \subseteq gathered[h]
    /\ began[h] <= now /\ synced[h] <= now /\ now <= synced[h] + MaxLag
    /\ pc[h] # "idle" => synced[h] <= began[h]

(* A complete pass has, or is about to fetch, every mutation that was made
   before it began. *)
PassReachesAll(h) ==
    pc[h] = "pull" /\ full[h] =>
        \A m \in Made : m.at + Skew < began[h] =>
            m \in gathered[h] \/ \E p \in todo[h] : m \in seen[p]

(* So a host has seen what was made before its last complete pass began. *)
SyncedSaw(h) == \A m \in Made : m.at + Skew < synced[h] => m \in seen[h]

PassInv(h) == PassGathers(h) /\ PassReachesAll(h) /\ SyncedSaw(h)

(* Compact may have dropped the tombstone of a removal by time t, on a host
   whose clock is ahead. *)
Expired(m, t) == Horizon > 0 /\ m.at + Horizon < t + Skew

(* A registry that has seen the mutations S holds the tombstone of a removal
   until it expires, and holds the item present only by a newer add. *)
Buried(r, S, t) ==
    \A i \in Item : \A m \in Removals(i, S) :
        /\ m.at <= r[i].removed \/ Expired(m, t)
        /\ Present(r[i]) => m.at < r[i].added

RemovalsBuried ==
    \A h \in Hosts : Buried(reg[h], seen[h], now) /\ Buried(merged[h], gathered[h], now)

CompactInv == TypeOK /\ (\A h \in Hosts : PassInv(h)) /\ RemovalsBuried

(* A mutation that is new in a step is stamped no earlier than Skew before. *)
SeenGrows ==
    /\ \A h \in Hosts : seen[h] \subseteq seen'[h]
    /\ \A m \in Made' : m \in Made \/ m.at + Skew >= now
    /\ now <= now'

(* The mutations have natural stamps. *)
LEMMA MadeTyped ==
    ASSUME TypeOK
    PROVE  \A m \in Made : m.at \in Nat
BY DEF TypeOK, Made, Mutation

(* What a host knows stays, when its pass is left alone. *)
LEMMA PassFrame ==
    ASSUME TypeOK, TypeOK', SeenGrows, NEW k \in Hosts, PassInv(k),
           pc'[k] = pc[k], todo'[k] = todo[k], gathered'[k] = gathered[k],
           began'[k] = began[k], full'[k] = full[k], synced'[k] = synced[k],
           pc[k] # "idle" => seen'[k] = seen[k],
           now' <= synced[k] + MaxLag
    PROVE  PassInv(k)'
<1>1. /\ now \in Nat /\ now' \in Nat /\ began[k] \in Nat /\ synced[k] \in Nat
      /\ Skew \in Nat /\ MaxLag \in Nat
    BY BoundsAssumption DEF TypeOK
<1>2. Made \subseteq Made' /\ \A m \in Made' : m.at \in Nat
    BY DEF SeenGrows, Made, TypeOK, Mutation
<1>3. PassGathers(k)'
    BY <1>1, <1>2 DEF PassInv, PassGathers, SeenGrows
<1>4. ASSUME NEW m \in Made', m.at + Skew < began[k] \/ m.at + Skew < synced[k]
      PROVE  m \in Made
    BY <1>1, <1>2, <1>4 DEF PassInv, PassGathers, SeenGrows
<1>5. PassReachesAll(k)'
    <2>1. pc[k] = "pull" => todo[k] \subseteq Hosts
        BY DEF TypeOK
    <2>2. QED
        BY <1>4, <2>1 DEF PassInv, PassReachesAll, SeenGrows
<1>6. SyncedSaw(k)'
    BY <1>4 DEF PassInv, SyncedSaw, SeenGrows
<1>7. QED
    BY <1>3, <1>5, <1>6 DEF PassInv

(* It stays when the pass ends, too. *)
LEMMA PassEnds ==
    ASSUME TypeOK, TypeOK', SeenGrows, NEW k \in Hosts, PassInv(k),
           pc'[k] = "idle", gathered'[k] = {}, began'[k] = 0,
           synced'[k] = synced[k], now' = now
    PROVE  PassInv(k)'
<1>1. /\ now \in Nat /\ synced[k] \in Nat /\ Skew \in Nat /\ MaxLag \in Nat
    BY BoundsAssumption DEF TypeOK
<1>2. \A m \in Made' : m.at \in Nat
    BY DEF Made, TypeOK, Mutation
<1>3. PassGathers(k)' /\ PassReachesAll(k)'
    BY <1>1 DEF PassInv, PassGathers, PassReachesAll
<1>4. SyncedSaw(k)'
    BY <1>1, <1>2 DEF PassInv, PassGathers, SyncedSaw, SeenGrows
<1>5. QED
    BY <1>3, <1>4 DEF PassInv

(* What all hosts know stays, when no pass is touched. *)
LEMMA PassesStay ==
    ASSUME TypeOK, TypeOK', SeenGrows, \A k \in Hosts : PassInv(k),
           UNCHANGED <<passVars, synced>>,
           \A k \in Hosts : /\ pc[k] # "idle" => seen'[k] = seen[k]
                            /\ now' <= synced[k] + MaxLag
    PROVE  \A k \in Hosts : PassInv(k)'
BY PassFrame DEF passVars

(* A step without a mutation. *)
LEMMA SeenStays ==
    ASSUME TypeOK, UNCHANGED seen, now <= now'
    PROVE  SeenGrows
BY DEF SeenGrows, Made

(* A step in which one host has seen more. *)
LEMMA SeenAt ==
    ASSUME TypeOK, NEW h \in Hosts, NEW S, seen' = [seen EXCEPT ![h] = S], seen[h] \subseteq S,
           \A m \in S : m \in Made \/ m.at + Skew >= now, UNCHANGED now
    PROVE  /\ SeenGrows
           /\ seen'[h] = S /\ \A k \in Hosts : k # h => seen'[k] = seen[k]
<1>1. now \in Nat /\ seen \in [Hosts -> SUBSET Mutation]
    BY DEF TypeOK
<1>2. seen'[h] = S /\ \A k \in Hosts : k # h => seen'[k] = seen[k]
    BY <1>1
<1>3. \A m \in Made' : m \in Made \/ m.at + Skew >= now
    BY <1>2 DEF Made
<1>4. QED
    BY <1>1, <1>2, <1>3 DEF SeenGrows

(* Every step keeps what the hosts know, and takes nothing from what they have
   seen. *)
LEMMA PassStepInv ==
    ASSUME TypeOK, TypeOK', \A k \in Hosts : PassInv(k), [Next]_vars
    PROVE  SeenGrows /\ \A k \in Hosts : PassInv(k)'
<1>0. /\ now \in Nat /\ now' \in Nat /\ Skew \in Nat /\ MaxLag \in Nat
      /\ \A k \in Hosts : began[k] \in Nat /\ synced[k] \in Nat /\ now <= synced[k] + MaxLag
    BY BoundsAssumption DEF TypeOK, PassInv, PassGathers
<1>a. CASE UNCHANGED vars \/ Tick \/ CalmDown
    <2>1. /\ UNCHANGED <<seen, passVars, synced>> /\ now <= now'
          /\ \A k \in Hosts : now' <= synced[k] + MaxLag
        BY <1>0, <1>a DEF vars, Tick, CalmDown
    <2>2. SeenGrows
        BY <2>1, SeenStays
    <2>3. QED
        BY <2>1, <2>2, PassesStay
<1>1. ASSUME NEW h \in Hosts, NEW i \in Item, NEW at \in Stamp, LocalRemove(h, i, at)
      PROVE  SeenGrows /\ \A k \in Hosts : PassInv(k)'
    <2>1. /\ seen' = [seen EXCEPT ![h] = seen[h] \cup {Removing(i, at)}] /\ pc[h] = "idle"
          /\ UNCHANGED <<passVars, synced, now>>
        BY <1>1 DEF LocalRemove, Unlocked
    <2>2. \A m \in seen[h] \cup {Removing(i, at)} : m \in Made \/ m.at + Skew >= now
        BY DEF Removing, Stamp, Made
    <2>3. SeenGrows /\ \A k \in Hosts : k # h => seen'[k] = seen[k]
        BY <2>1, <2>2, SeenAt
    <2>4. QED
        BY <1>0, <2>1, <2>3, PassesStay
<1>2. ASSUME NEW h \in Hosts, NEW i \in Item, NEW v \in Value, NEW at \in Stamp, LocalAdd(h, i, v, at)
      PROVE  SeenGrows /\ \A k \in Hosts : PassInv(k)'
    <2>1. pc[h] = "idle" /\ UNCHANGED <<passVars, synced, now>>
        BY <1>2 DEF LocalAdd, Unlocked
    <2>2. CASE UNCHANGED seen
        <3>1. SeenGrows
            BY <1>0, <2>1, <2>2, SeenStays
        <3>2. QED
            BY <1>0, <2>1, <2>2, <3>1, PassesStay
    <2>3. CASE seen' = [seen EXCEPT ![h] = seen[h] \cup {Adding(i, v, at)}]
        <3>1. \A m \in seen[h] \cup {Adding(i, v, at)} : m \in Made \/ m.at + Skew >= now
            BY DEF Adding, Stamp, Made
        <3>2. SeenGrows /\ \A k \in Hosts : k # h => seen'[k] = seen[k]
            BY <2>1, <2>3, <3>1, SeenAt
        <3>3. QED
            BY <1>0, <2>1, <3>2, PassesStay
    <2>4. QED
        BY <1>2, <2>2, <2>3 DEF LocalAdd
<1>3. ASSUME NEW h \in Hosts, NEW at \in Stamp, LocalCompact(h, at)
      PROVE  SeenGrows /\ \A k \in Hosts : PassInv(k)'
    <2>1. UNCHANGED <<seen, passVars, synced, now>>
        BY <1>3 DEF LocalCompact
    <2>2. SeenGrows
        BY <1>0, <2>1, SeenStays
    <2>3. QED
        BY <1>0, <2>1, <2>2, PassesStay
<1>4. ASSUME UNCHANGED seen, NEW h \in Hosts, PassInv(h)', UNCHANGED <<synced, now>>,
             \A k \in Hosts : k # h =>
                /\ pc'[k] = pc[k] /\ todo'[k] = todo[k] /\ gathered'[k] = gathered[k]
                /\ began'[k] = began[k] /\ full'[k] = full[k]
      PROVE  SeenGrows /\ \A k \in Hosts : PassInv(k)'
    <2>1. SeenGrows
        BY <1>0, <1>4, SeenStays
    <2>2. QED
        BY <1>0, <1>4, <2>1, PassFrame
<1>5. ASSUME NEW h \in Hosts, NEW o \in Hosts, Begin(h, o)
      PROVE  SeenGrows /\ \A k \in Hosts : PassInv(k)'
    <2>1. /\ pc'[h] = "pull" /\ todo'[h] = Hosts \ {h, o} /\ gathered'[h] = seen[h]
          /\ began'[h] = now /\ full'[h] = (o = h) /\ UNCHANGED <<seen, synced, now>>
          /\ \A k \in Hosts : k # h =>
                /\ pc'[k] = pc[k] /\ todo'[k] = todo[k] /\ gathered'[k] = gathered[k]
                /\ began'[k] = began[k] /\ full'[k] = full[k]
        BY <1>5 DEF Begin, TypeOK
    <2>2. PassGathers(h)' /\ SyncedSaw(h)'
        BY <1>0, <2>1 DEF PassInv, PassGathers, SyncedSaw, Made
    <2>3. PassReachesAll(h)'
        <3>1. ASSUME full'[h], NEW m \in Made'
              PROVE  m \in gathered'[h] \/ \E q \in todo'[h] : m \in seen'[q]
            <4>1. PICK q \in Hosts : m \in seen[q]
                BY <2>1, <3>1 DEF Made
            <4>2. todo'[h] = Hosts \ {h}
                BY <2>1, <3>1
            <4>3. QED
                BY <2>1, <4>1, <4>2
        <3>2. QED
            BY <3>1 DEF PassReachesAll
    <2>4. QED
        BY <1>4, <2>1, <2>2, <2>3 DEF PassInv
<1>6. ASSUME NEW h \in Hosts, NEW p \in Hosts, Fetch(h, p) \/ FetchFails(h, p)
      PROVE  SeenGrows /\ \A k \in Hosts : PassInv(k)'
    <2>1. /\ pc[h] = "pull" /\ pc'[h] = "pull" /\ todo'[h] = todo[h] \ {p}
          /\ began'[h] = began[h] /\ UNCHANGED <<seen, synced, now>>
          /\ \/ gathered'[h] = gathered[h] \cup seen[p] /\ full'[h] = full[h]
             \/ gathered'[h] = gathered[h] /\ ~full'[h]
          /\ \A k \in Hosts : k # h =>
                /\ pc'[k] = pc[k] /\ todo'[k] = todo[k] /\ gathered'[k] = gathered[k]
                /\ began'[k] = began[k] /\ full'[k] = full[k]
        BY <1>6 DEF Fetch, FetchFails, TypeOK
    <2>2. PassGathers(h)' /\ SyncedSaw(h)'
        BY <1>0, <2>1 DEF PassInv, PassGathers, SyncedSaw, Made
    <2>3. PassReachesAll(h)'
        <3>1. ASSUME full'[h], NEW m \in Made', m.at + Skew < began'[h]
              PROVE  m \in gathered'[h] \/ \E q \in todo'[h] : m \in seen'[q]
            <4>1. full[h] /\ gathered'[h] = gathered[h] \cup seen[p]
                BY <2>1, <3>1
            <4>2. m \in Made
                BY <2>1, <3>1 DEF Made
            <4>3. m \in gathered[h] \/ \E q \in todo[h] : m \in seen[q]
                BY <2>1, <3>1, <4>1, <4>2 DEF PassInv, PassReachesAll
            <4>4. QED
                BY <2>1, <4>1, <4>3
        <3>2. QED
            BY <3>1 DEF PassReachesAll
    <2>4. QED
        BY <1>4, <2>1, <2>2, <2>3 DEF PassInv
<1>7. ASSUME NEW h \in Hosts, ReconcileItem(h)
      PROVE  SeenGrows /\ \A k \in Hosts : PassInv(k)'
    <2>1. /\ pc[h] = "items" /\ UNCHANGED <<pc, gathered, began, full, seen, synced, now>>
          /\ \A k \in Hosts : k # h => todo'[k] = todo[k]
        BY <1>7 DEF ReconcileItem, TypeOK
    <2>2. PassInv(h)'
        BY <2>1 DEF PassInv, PassGathers, PassReachesAll, SyncedSaw, Made
    <2>3. QED
        BY <1>4, <2>1, <2>2
<1>8. ASSUME NEW h \in Hosts, Finish(h) \/ Abort(h)
      PROVE  SeenGrows /\ \A k \in Hosts : PassInv(k)'
    <2>1. /\ pc'[h] = "idle" /\ gathered'[h] = {} /\ began'[h] = 0 /\ UNCHANGED <<seen, synced, now>>
          /\ \A k \in Hosts : k # h =>
                /\ pc'[k] = pc[k] /\ todo'[k] = todo[k] /\ gathered'[k] = gathered[k]
                /\ began'[k] = began[k] /\ full'[k] = full[k]
        BY <1>8 DEF Finish, Abort, EndPass, TypeOK
    <2>2. SeenGrows
        BY <1>0, <2>1, SeenStays
    <2>3. PassInv(h)'
        BY <2>1, <2>2, PassEnds
    <2>4. QED
        BY <1>4, <2>1, <2>3
<1>9. ASSUME NEW h \in Hosts, Save(h)
      PROVE  SeenGrows /\ \A k \in Hosts : PassInv(k)'
    <2>1. /\ pc[h] = "pull" /\ todo[h] = {} /\ UNCHANGED now
          /\ seen' = [seen EXCEPT ![h] = gathered[h]]
        BY <1>9 DEF Save
    <2>2. seen[h] \subseteq gathered[h] /\ gathered[h] \subseteq Made
        BY <2>1 DEF PassInv, PassGathers
    <2>3. SeenGrows /\ seen'[h] = gathered[h] /\ \A k \in Hosts : k # h => seen'[k] = seen[k]
        BY <2>1, <2>2, SeenAt
    <2>4. Made' \subseteq Made /\ Made \subseteq Made'
        BY <2>2, <2>3 DEF Made
    <2>5. ASSUME NEW k \in Hosts, k # h
          PROVE  PassInv(k)'
        <3>1. /\ pc'[k] = pc[k] /\ todo'[k] = todo[k] /\ gathered'[k] = gathered[k]
              /\ began'[k] = began[k] /\ full'[k] = full[k] /\ synced'[k] = synced[k]
            BY <1>9, <2>5 DEF Save, EndPass, TypeOK
        <3>2. QED
            BY <1>0, <2>1, <2>3, <2>5, <3>1, PassFrame
    <2>6. CASE EndPass(h) /\ UNCHANGED synced
        <3>1. pc'[h] = "idle" /\ gathered'[h] = {} /\ began'[h] = 0
            BY <2>6 DEF EndPass, TypeOK
        <3>2. PassInv(h)'
            BY <2>1, <2>3, <2>6, <3>1, PassEnds
        <3>3. QED
            BY <2>3, <2>5, <3>2
    <2>7. CASE /\ pc' = [pc EXCEPT ![h] = "items"]
               /\ synced' = IF full[h] THEN [synced EXCEPT ![h] = began[h]] ELSE synced
               /\ UNCHANGED <<merged, gathered, began, full>>
        <3>1. /\ pc'[h] = "items" /\ gathered'[h] = gathered[h] /\ began'[h] = began[h]
              /\ \/ full[h] /\ synced'[h] = began[h]
                 \/ synced'[h] = synced[h]
            BY <2>7 DEF TypeOK
        <3>2. synced'[h] <= now /\ SyncedSaw(h)'
            BY <2>1, <2>2, <2>3, <2>4, <3>1 DEF PassInv, PassGathers, PassReachesAll, SyncedSaw
        <3>3. now <= synced'[h] + MaxLag
            BY <1>0, <2>1, <3>1 DEF PassInv, PassGathers
        <3>g. synced'[h] <= began[h] /\ began[h] <= now
            BY <1>0, <2>1, <3>1 DEF PassInv, PassGathers
        <3>4. PassGathers(h)' /\ PassReachesAll(h)'
            BY <2>1, <2>2, <2>3, <2>4, <3>1, <3>2, <3>3, <3>g DEF PassGathers, PassReachesAll
        <3>5. QED
            BY <2>3, <2>5, <3>2, <3>4 DEF PassInv
    <2>8. QED
        BY <1>9, <2>6, <2>7 DEF Save
<1>10. QED
    BY <1>a, <1>1, <1>2, <1>3, <1>5, <1>6, <1>7, <1>8, <1>9 DEF Next, PassStep

(* The horizon covers the time a removal needs to reach every host, as measured
   by a clock that stamped it late and another that compacts early. *)
HorizonCovers == Horizon = 0 \/ Horizon >= MaxLag + 2 * Skew

(* A removal whose tombstone may be gone is known to every host. *)
LEMMA ExpiredIsKnown ==
    ASSUME HorizonCovers, TypeOK, \A k \in Hosts : PassInv(k),
           NEW m \in Made, Expired(m, now), NEW k \in Hosts
    PROVE  m \in seen[k]
<1>1. /\ now \in Nat /\ synced[k] \in Nat /\ m.at \in Nat /\ Skew \in Nat /\ MaxLag \in Nat
      /\ Horizon \in Nat
    BY BoundsAssumption, MadeTyped DEF TypeOK
<1>2. m.at + Skew < synced[k]
    BY <1>1 DEF HorizonCovers, Expired, PassInv, PassGathers
<1>3. QED
    BY <1>2 DEF PassInv, SyncedSaw

(* Tombstones only expire as time goes by. *)
LEMMA BuriedLater ==
    ASSUME NEW r, NEW S \in SUBSET Mutation, NEW t \in Nat, NEW u \in Nat, t <= u, Buried(r, S, t)
    PROVE  Buried(r, S, u)
<1>1. \A m \in S : m.at \in Nat
    BY DEF Mutation
<1>2. Horizon \in Nat /\ Skew \in Nat
    BY BoundsAssumption
<1>3. \A m \in S : Expired(m, t) => Expired(m, u)
    BY <1>1, <1>2 DEF Expired
<1>4. QED
    BY <1>3 DEF Buried, Removals

(* Nothing was removed from the empty registry. *)
LEMMA BuriedNew ==
    ASSUME NEW t
    PROVE  Buried(New, {}, t)
BY DEF Buried, Removals

(* Remove leaves a tombstone. *)
LEMMA BuriedRemove ==
    ASSUME NEW r \in Registry, NEW S \in SUBSET Mutation, NEW t \in Nat, Buried(r, S, t),
           NEW i \in Item, NEW at \in Nat
    PROVE  Buried(Remove(r, i, at), S \cup {Removing(i, at)}, t)
<1> DEFINE q == Remove(r, i, at)
<1>1. \A m \in S : m.at \in Nat
    BY DEF Mutation
<1>2. \A j \in Item : r[j].added \in Nat /\ r[j].removed \in Nat
    BY DEF Registry, Entry
<1>3. /\ q[i].added = r[i].added /\ q[i].removed = Larger(r[i].removed, at)
      /\ \A j \in Item : j # i => q[j] = r[j]
    BY <1>2 DEF Remove, Registry, Entry, Larger
<1>4. Removing(i, at).at = at /\ Removing(i, at).item = i
    BY DEF Removing
<1> HIDE DEF q
<1>5. ASSUME NEW j \in Item, NEW m \in Removals(j, S \cup {Removing(i, at)})
      PROVE  (m.at <= q[j].removed \/ Expired(m, t)) /\ (Present(q[j]) => m.at < q[j].added)
    <2>1. CASE m \in S
        <3>1. /\ m.at <= r[j].removed \/ Expired(m, t)
              /\ Present(r[j]) => m.at < r[j].added
            BY <1>5, <2>1 DEF Buried, Removals
        <3>2. CASE j # i
            BY <1>3, <3>1, <3>2
        <3>3. CASE j = i
            BY <1>1, <1>2, <1>3, <2>1, <3>1, <3>3 DEF Larger, Present
        <3>4. QED
            BY <3>2, <3>3
    <2>2. CASE m = Removing(i, at)
        <3>1. j = i /\ m.at = at
            BY <1>4, <1>5, <2>2 DEF Removals
        <3>2. QED
            BY <1>2, <1>3, <3>1 DEF Larger, Present
    <2>3. QED
        BY <1>5, <2>1, <2>2 DEF Removals
<1>6. QED
    BY <1>5 DEF Buried, q

(* An add is newer than every removal whose tombstone is gone. *)
LEMMA BuriedAdd ==
    ASSUME HorizonCovers, TypeOK, NEW r \in Registry, NEW S \in SUBSET Mutation, Buried(r, S, now),
           NEW i \in Item, NEW v \in Value, NEW at \in Stamp
    PROVE  /\ Buried(Add(r, i, v, at), S, now)
           /\ Buried(Add(r, i, v, at), S \cup {Adding(i, v, at)}, now)
<1> DEFINE q == Add(r, i, v, at)
<1>0. /\ now \in Nat /\ at \in Nat /\ at + Skew >= now /\ Skew \in Nat /\ MaxLag \in Nat
      /\ Horizon \in Nat
    BY BoundsAssumption, StampType DEF TypeOK, Stamp
<1>1. \A m \in S : m.at \in Nat
    BY DEF Mutation
<1>2. \A j \in Item : r[j].added \in Nat /\ r[j].removed \in Nat
    BY DEF Registry, Entry
<1>3. /\ q[i].removed = r[i].removed /\ q[i].added = Larger(at, r[i].added)
      /\ \A j \in Item : j # i => q[j] = r[j]
    <2>1. CASE at > r[i].added
        <3> DEFINE e == [r[i] EXCEPT !.added = at, !.value = v]
        <3>1. q = [r EXCEPT ![i] = e]
            BY <2>1 DEF Add
        <3>2. e.removed = r[i].removed /\ e.added = at
            BY DEF Registry, Entry
        <3> HIDE DEF e
        <3>3. QED
            BY <1>0, <1>2, <2>1, <3>1, <3>2 DEF Registry, Larger
    <2>2. CASE ~(at > r[i].added)
        <3>1. q = r
            BY <2>2 DEF Add
        <3>2. QED
            BY <1>0, <1>2, <2>2, <3>1 DEF Larger
    <2>3. QED
        BY <2>1, <2>2
<1> HIDE DEF q
<1>4. ASSUME NEW j \in Item, NEW m \in Removals(j, S)
      PROVE  (m.at <= q[j].removed \/ Expired(m, now)) /\ (Present(q[j]) => m.at < q[j].added)
    <2>1. /\ m.at <= r[j].removed \/ Expired(m, now)
          /\ Present(r[j]) => m.at < r[j].added
        BY <1>4 DEF Buried
    <2>2. m.at \in Nat
        BY <1>1, <1>4 DEF Removals
    <2>3. CASE j # i
        BY <1>3, <2>1, <2>3
    <2>4. CASE j = i
        <3>1. Expired(m, now) => m.at < at
            BY <1>0, <2>2 DEF Expired, HorizonCovers
        <3>2. QED
            BY <1>0, <1>2, <1>3, <2>1, <2>2, <2>4, <3>1 DEF Present, Larger
    <2>5. QED
        BY <2>3, <2>4
<1>5. \A j \in Item : Removals(j, S \cup {Adding(i, v, at)}) \subseteq Removals(j, S)
    BY DEF Removals, Adding
<1>6. QED
    BY <1>4, <1>5 DEF Buried, q

(* Compact drops only tombstones that expire. *)
LEMMA BuriedCompact ==
    ASSUME TypeOK, Horizon > 0, NEW r \in Registry, NEW S \in SUBSET Mutation, Buried(r, S, now),
           NEW at \in Stamp
    PROVE  Buried(Compact(r, at, Horizon), S, now)
<1> DEFINE q == Compact(r, at, Horizon)
<1>0. now \in Nat /\ Horizon \in Nat /\ Skew \in Nat /\ at \in Nat /\ at <= now + Skew
    BY BoundsAssumption, StampType DEF TypeOK, Stamp
<1>1. \A m \in S : m.at \in Nat
    BY DEF Mutation
<1>2. \A j \in Item : r[j].added \in Nat /\ r[j].removed \in Nat
    BY DEF Registry, Entry
<1>3. \A j \in Item : q[j] = r[j] \/ (q[j] = NoEntry /\ r[j].removed + Horizon < at)
    <2> SUFFICES ASSUME NEW j \in Item
                 PROVE  q[j] = r[j] \/ (q[j] = NoEntry /\ r[j].removed + Horizon < at)
        OBVIOUS
    <2>1. q[j] = IF Present(r[j]) \/ r[j].removed + Horizon >= at THEN r[j] ELSE NoEntry
        BY DEF Compact
    <2>2. QED
        BY <1>0, <1>2, <2>1
<1>n. NoEntry.added = 0 /\ NoEntry.removed = 0
    BY DEF NoEntry
<1> HIDE DEF q
<1>4. ASSUME NEW j \in Item, NEW m \in Removals(j, S)
      PROVE  (m.at <= q[j].removed \/ Expired(m, now)) /\ (Present(q[j]) => m.at < q[j].added)
    <2>1. /\ m.at <= r[j].removed \/ Expired(m, now)
          /\ Present(r[j]) => m.at < r[j].added
        BY <1>4 DEF Buried
    <2>2. m.at \in Nat
        BY <1>1, <1>4 DEF Removals
    <2>3. CASE q[j] = r[j]
        BY <2>1, <2>3
    <2>4. CASE q[j] = NoEntry /\ r[j].removed + Horizon < at
        BY <1>0, <1>2, <1>n, <2>1, <2>2, <2>4 DEF Present, Expired
    <2>5. QED
        BY <1>3, <2>3, <2>4
<1>5. QED
    BY <1>4 DEF Buried, q

(* Merge brings no removed item back: what one side has dropped the tombstone
   of, the other has seen removed, too. *)
LEMMA BuriedMerge ==
    ASSUME NEW r \in Registry, NEW S \in SUBSET Mutation, NEW q \in Registry, NEW T \in SUBSET Mutation,
           NEW t, Buried(r, S, t), Buried(q, T, t),
           \A m \in S \cup T : Expired(m, t) => m \in S /\ m \in T
    PROVE  Buried(Merge(r, q), S \cup T, t)
<1> DEFINE u == Merge(r, q)
<1>1. \A m \in S \cup T : m.at \in Nat
    BY DEF Mutation
<1>2. \A j \in Item : /\ r[j].added \in Nat /\ r[j].removed \in Nat
                      /\ q[j].added \in Nat /\ q[j].removed \in Nat
    BY DEF Registry, Entry
<1>3. \A j \in Item : /\ u[j].added = Larger(r[j].added, q[j].added)
                      /\ u[j].removed = Larger(r[j].removed, q[j].removed)
    BY DEF Merge, joinEntry
<1> HIDE DEF u
<1>4. ASSUME NEW j \in Item, NEW m \in Removals(j, S \cup T)
      PROVE  (m.at <= u[j].removed \/ Expired(m, t)) /\ (Present(u[j]) => m.at < u[j].added)
    <2>1. m \in S \cup T /\ m.at \in Nat
        BY <1>1, <1>4 DEF Removals
    <2>2. m \in S => /\ m.at <= r[j].removed \/ Expired(m, t)
                     /\ Present(r[j]) => m.at < r[j].added
        BY <1>4 DEF Buried, Removals
    <2>3. m \in T => /\ m.at <= q[j].removed \/ Expired(m, t)
                     /\ Present(q[j]) => m.at < q[j].added
        BY <1>4 DEF Buried, Removals
    <2>4. CASE Expired(m, t)
        BY <1>2, <1>3, <2>1, <2>2, <2>3, <2>4 DEF Larger, Present
    <2>5. CASE ~Expired(m, t)
        BY <1>2, <1>3, <2>1, <2>2, <2>3, <2>5 DEF Larger, Present
    <2>6. QED
        BY <2>4, <2>5
<1>5. QED
    BY <1>4 DEF Buried, u

(* Every step keeps the removals buried. *)
LEMMA BuriedStep ==
    ASSUME HorizonCovers, CompactInv, TypeOK', [Next]_vars
    PROVE  RemovalsBuried'
<1>0. /\ TypeOK /\ \A k \in Hosts : PassInv(k)
      /\ \A k \in Hosts : Buried(reg[k], seen[k], now) /\ Buried(merged[k], gathered[k], now)
    BY DEF CompactInv, RemovalsBuried
<1>1. /\ now \in Nat /\ now' \in Nat /\ now <= now'
      /\ \A k \in Hosts : /\ reg[k] \in Registry /\ merged[k] \in Registry
                          /\ seen[k] \in SUBSET Mutation /\ gathered[k] \in SUBSET Mutation
    BY <1>0, PassStepInv DEF TypeOK, SeenGrows
<1>2. ASSUME NEW k \in Hosts
      PROVE  Buried(reg[k], seen[k], now') /\ Buried(merged[k], gathered[k], now')
    BY <1>0, <1>1, BuriedLater
<1>f. ASSUME NEW h \in Hosts,
             \A k \in Hosts : k # h => /\ reg'[k] = reg[k] /\ seen'[k] = seen[k]
                                       /\ merged'[k] = merged[k] /\ gathered'[k] = gathered[k],
             Buried(reg'[h], seen'[h], now'), Buried(merged'[h], gathered'[h], now')
      PROVE  RemovalsBuried'
    <2>1. \A k \in Hosts : Buried(reg'[k], seen'[k], now') /\ Buried(merged'[k], gathered'[k], now')
        BY <1>2, <1>f
    <2>2. QED
        BY <2>1 DEF RemovalsBuried, Buried, Expired
<1>a. CASE UNCHANGED <<reg, seen, merged, gathered>>
    BY <1>2, <1>a DEF RemovalsBuried, Buried, Expired
<1>3. ASSUME NEW h \in Hosts, NEW i \in Item, NEW at \in Stamp, LocalRemove(h, i, at)
      PROVE  RemovalsBuried'
    <2>1. /\ reg'[h] = Remove(reg[h], i, at) /\ seen'[h] = seen[h] \cup {Removing(i, at)}
          /\ UNCHANGED <<merged, gathered, now>>
          /\ \A k \in Hosts : k # h => reg'[k] = reg[k] /\ seen'[k] = seen[k]
        BY <1>0, <1>3 DEF LocalRemove, passVars, TypeOK
    <2>2. Buried(Remove(reg[h], i, at), seen[h] \cup {Removing(i, at)}, now)
        BY <1>0, <1>1, StampType, BuriedRemove
    <2>3. QED
        BY <1>0, <1>f, <2>1, <2>2
<1>4. ASSUME NEW h \in Hosts, NEW i \in Item, NEW v \in Value, NEW at \in Stamp, LocalAdd(h, i, v, at)
      PROVE  RemovalsBuried'
    <2>1. /\ reg'[h] = Add(reg[h], i, v, at)
          /\ seen'[h] = seen[h] \/ seen'[h] = seen[h] \cup {Adding(i, v, at)}
          /\ UNCHANGED <<merged, gathered, now>>
          /\ \A k \in Hosts : k # h => reg'[k] = reg[k] /\ seen'[k] = seen[k]
        BY <1>0, <1>4 DEF LocalAdd, passVars, TypeOK
    <2>2. /\ Buried(Add(reg[h], i, v, at), seen[h], now)
          /\ Buried(Add(reg[h], i, v, at), seen[h] \cup {Adding(i, v, at)}, now)
        BY <1>0, <1>1, BuriedAdd
    <2>3. QED
        BY <1>0, <1>f, <2>1, <2>2
<1>5. ASSUME NEW h \in Hosts, NEW at \in Stamp, LocalCompact(h, at)
      PROVE  RemovalsBuried'
    <2>1. /\ reg'[h] = Compact(reg[h], at, Horizon) /\ Horizon > 0
          /\ UNCHANGED <<seen, merged, gathered, now>>
          /\ \A k \in Hosts : k # h => reg'[k] = reg[k]
        BY <1>0, <1>5 DEF LocalCompact, passVars, TypeOK
    <2>2. Buried(Compact(reg[h], at, Horizon), seen[h], now)
        BY <1>0, <1>1, <2>1, BuriedCompact
    <2>3. QED
        BY <1>0, <1>f, <2>1, <2>2
<1>6. ASSUME NEW h \in Hosts, NEW o \in Hosts, Begin(h, o)
      PROVE  RemovalsBuried'
    <2>1. /\ merged'[h] = reg[h] /\ gathered'[h] = seen[h] /\ UNCHANGED <<reg, seen, now>>
          /\ \A k \in Hosts : k # h => merged'[k] = merged[k] /\ gathered'[k] = gathered[k]
        BY <1>0, <1>6 DEF Begin, TypeOK
    <2>2. QED
        BY <1>0, <1>f, <2>1
<1>7. ASSUME NEW h \in Hosts, NEW p \in Hosts, Fetch(h, p)
      PROVE  RemovalsBuried'
    <2>1. /\ merged'[h] = Merge(merged[h], reg[p]) /\ gathered'[h] = gathered[h] \cup seen[p]
          /\ UNCHANGED <<reg, seen, now>> /\ pc[h] = "pull"
          /\ \A k \in Hosts : k # h => merged'[k] = merged[k] /\ gathered'[k] = gathered[k]
        BY <1>0, <1>7 DEF Fetch, TypeOK
    <2>2. seen[h] \subseteq gathered[h] /\ gathered[h] \subseteq Made /\ seen[p] \subseteq Made
        BY <1>0, <2>1 DEF PassInv, PassGathers, Made
    <2>3. \A m \in gathered[h] \cup seen[p] :
              Expired(m, now) => m \in gathered[h] /\ m \in seen[p]
        BY <1>0, <2>2, ExpiredIsKnown
    <2>4. Buried(Merge(merged[h], reg[p]), gathered[h] \cup seen[p], now)
        BY <1>0, <1>1, <2>3, BuriedMerge
    <2>5. QED
        BY <1>0, <1>f, <2>1, <2>4
<1>8. ASSUME NEW h \in Hosts, EndPass(h), UNCHANGED now,
             \/ UNCHANGED <<reg, seen>>
             \/ reg' = [reg EXCEPT ![h] = merged[h]] /\ seen' = [seen EXCEPT ![h] = gathered[h]]
      PROVE  RemovalsBuried'
    <2>1. /\ merged'[h] = New /\ gathered'[h] = {}
          /\ \A k \in Hosts : k # h => /\ merged'[k] = merged[k] /\ gathered'[k] = gathered[k]
                                       /\ reg'[k] = reg[k] /\ seen'[k] = seen[k]
          /\ \/ reg'[h] = reg[h] /\ seen'[h] = seen[h]
             \/ reg'[h] = merged[h] /\ seen'[h] = gathered[h]
        BY <1>0, <1>8 DEF EndPass, TypeOK
    <2>2. Buried(merged'[h], gathered'[h], now')
        BY <2>1, BuriedNew
    <2>3. QED
        BY <1>2, <1>f, <2>1, <2>2
<1>9. ASSUME NEW h \in Hosts, Save(h)
      PROVE  RemovalsBuried'
    <2>1. CASE EndPass(h)
        BY <1>8, <1>9, <2>1 DEF Save
    <2>2. CASE UNCHANGED <<merged, gathered>>
        <3>1. /\ reg'[h] = merged[h] /\ seen'[h] = gathered[h] /\ UNCHANGED now
              /\ \A k \in Hosts : k # h => reg'[k] = reg[k] /\ seen'[k] = seen[k]
            BY <1>0, <1>9 DEF Save, TypeOK
        <3>2. QED
            BY <1>0, <1>f, <2>2, <3>1
    <2>3. QED
        BY <1>9, <2>1, <2>2 DEF Save
<1>10. CASE UNCHANGED vars \/ Tick \/ CalmDown
    BY <1>10, <1>a DEF vars, passVars, Tick, CalmDown
<1>11. ASSUME NEW h \in Hosts, NEW o \in Hosts, FetchFails(h, o) \/ ReconcileItem(h)
      PROVE  RemovalsBuried'
    BY <1>11, <1>a DEF FetchFails, ReconcileItem
<1>12. ASSUME NEW h \in Hosts, Finish(h) \/ Abort(h)
      PROVE  RemovalsBuried'
    BY <1>8, <1>12 DEF Finish, Abort
<1>13. QED
    BY <1>3, <1>4, <1>5, <1>6, <1>7, <1>9, <1>10, <1>11, <1>12 DEF Next, PassStep

(* The invariant of a mesh that compacts holds of every reachable state. *)
LEMMA CompactInvariant ==
    ASSUME HorizonCovers
    PROVE  Spec => []CompactInv
<1>1. Init => CompactInv
    <2> SUFFICES ASSUME Init PROVE CompactInv
        OBVIOUS
    <2>1. TypeOK
        BY InitTyped
    <2>2. ASSUME NEW h \in Hosts
          PROVE  PassInv(h)
        <3>1. MaxLag \in Nat
            BY BoundsAssumption
        <3>2. Made = {}
            BY DEF Init, Made
        <3>3. QED
            BY <3>1, <3>2 DEF Init, PassInv, PassGathers, PassReachesAll, SyncedSaw
    <2>3. RemovalsBuried
        BY BuriedNew DEF Init, RemovalsBuried
    <2>4. QED
        BY <2>1, <2>2, <2>3 DEF CompactInv
<1>2. CompactInv /\ [Next]_vars => CompactInv'
    <2> SUFFICES ASSUME CompactInv, [Next]_vars PROVE CompactInv'
        OBVIOUS
    <2>1. TypeOK'
        BY TypeStep DEF CompactInv
    <2>2. \A k \in Hosts : PassInv(k)'
        BY <2>1, PassStepInv DEF CompactInv
    <2>3. RemovalsBuried'
        BY <2>1, BuriedStep
    <2>4. QED
        BY <2>1, <2>2, <2>3 DEF CompactInv
<1>3. QED
    BY <1>1, <1>2, PTL DEF Spec

(* Compact: with a horizon of at least the longest time between two complete
   passes plus twice the skew of the clocks, a removed item comes back only by an add
   that is newer than every removal its host has seen. *)
THEOREM RemovedItemsStayRemoved ==
    ASSUME HorizonCovers
    PROVE  Spec => RemovedStaysRemoved
<1>1. ASSUME CompactInv, [Next]_vars
      PROVE  \A h \in Hosts, i \in Item :
                ~Present(reg[h][i]) /\ Present(reg'[h][i]) =>
                    \A m \in Removals(i, seen[h]) : m.at < reg'[h][i].added
    <2>1. TypeOK'
        BY <1>1, TypeStep DEF CompactInv
    <2>2. RemovalsBuried' /\ SeenGrows
        BY <1>1, <2>1, BuriedStep, PassStepInv DEF CompactInv
    <2>3. ASSUME NEW h \in Hosts, NEW i \in Item, Present(reg'[h][i]), NEW m \in Removals(i, seen[h])
          PROVE  m.at < reg'[h][i].added
        <3>1. m \in Removals(i, seen'[h])
            BY <2>2, <2>3 DEF SeenGrows, Removals
        <3>2. QED
            BY <2>2, <2>3, <3>1 DEF RemovalsBuried, Buried
    <2>4. QED
        BY <2>3
<1>2. QED
    BY <1>1, CompactInvariant, PTL DEF Spec, RemovedStaysRemoved
=============================================================================
