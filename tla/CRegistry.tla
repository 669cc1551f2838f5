----------------------------- MODULE CRegistry -----------------------------
(***************************************************************************)
(* The convergent registry of cregistry/cregistry.go: a last-write-wins    *)
(* element set.  A registry maps every item to an entry; an item the Go    *)
(* map does not hold has the zero entry, which no operation ever stores.   *)
(* Values are their rank in the order of canonical JSON encodings, the     *)
(* only thing the merge looks at.                                          *)
(***************************************************************************)
EXTENDS Naturals

CONSTANTS
    Item,      \* item ids
    Value,     \* values an item may carry, by the rank of their encoding
    Zero       \* the rank of the zero value

ASSUME ValueAssumption == Value \subseteq Nat /\ Zero \in Value

Entry == [added: Nat, removed: Nat, value: Value]

NoEntry == [added |-> 0, removed |-> 0, value |-> Zero]

Registry == [Item -> Entry]

New == [i \in Item |-> NoEntry]

\* Present: on a tie the removal wins.
Present(e) == e.added > e.removed

\* Mutant of Add: an add at the current stamp replaces the value.
AddOnTie(r, i, v, at) ==
    IF at >= r[i].added
    THEN [r EXCEPT ![i] = [@ EXCEPT !.added = at, !.value = v]] ELSE r

Add(r, i, v, at) ==
    IF at > r[i].added
    THEN [r EXCEPT ![i] = [@ EXCEPT !.added = at, !.value = v]] ELSE r

Remove(r, i, at) ==
    IF at > r[i].removed THEN [r EXCEPT ![i] = [@ EXCEPT !.removed = at]] ELSE r

\* Mutant of Compact: a tombstone goes as soon as it reaches the horizon.
CompactAtHorizon(r, now, horizon) ==
    [i \in Item |-> IF Present(r[i]) \/ r[i].removed + horizon > now THEN r[i] ELSE NoEntry]

\* Compact: drop the tombstones older than the horizon.
Compact(r, now, horizon) ==
    [i \in Item |-> IF Present(r[i]) \/ r[i].removed + horizon >= now THEN r[i] ELSE NoEntry]

Larger(a, b) == IF a >= b THEN a ELSE b

\* Mutant of winningValue: on a tie the left side wins.
winningValueLeft(a, b) == IF a.added >= b.added THEN a.value ELSE b.value

\* The value of the newer add; of two equally new ones, the larger encoding.
winningValue(a, b) ==
    IF a.added > b.added THEN a.value
    ELSE IF b.added > a.added THEN b.value
    ELSE Larger(a.value, b.value)

joinEntry(a, b) ==
    [added   |-> Larger(a.added, b.added),
     removed |-> Larger(a.removed, b.removed),
     value   |-> winningValue(a, b)]

Merge(a, b) == [i \in Item |-> joinEntry(a[i], b[i])]

-----------------------------------------------------------------------------
(***************************************************************************)
(* The reference reading.  A mutation is an add or a removal of an item    *)
(* with a stamp; Reads(e, i, S) says that e is what last-write-wins makes  *)
(* of item i from the set of mutations S, in whatever order and grouping   *)
(* they arrived.                                                           *)
(***************************************************************************)
Adding(i, v, at) == [op |-> "add", item |-> i, at |-> at, value |-> v]

Removing(i, at) == [op |-> "remove", item |-> i, at |-> at, value |-> Zero]

Mutation == [op: {"add", "remove"}, item: Item, at: Nat \ {0}, value: Value]

Adds(i, S) == {m \in S : m.op = "add" /\ m.item = i}

Removals(i, S) == {m \in S : m.op = "remove" /\ m.item = i}

Reads(e, i, S) ==
    /\ \A m \in Adds(i, S) : m.at < e.added \/ (m.at = e.added /\ m.value <= e.value)
    /\ \/ e.added = 0 /\ e.value = Zero
       \/ \E m \in Adds(i, S) : m.at = e.added /\ m.value = e.value
    /\ \A m \in Removals(i, S) : m.at <= e.removed
    /\ \/ e.removed = 0
       \/ \E m \in Removals(i, S) : m.at = e.removed
=============================================================================
