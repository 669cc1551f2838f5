----------------------------- MODULE NetPolicy -----------------------------
(***************************************************************************)
(* The network cost monitors of netpolicy/, one per host, and the manual   *)
(* setting they merge in: a file the operator saves or deletes, with an    *)
(* edit mark beside it.  A State is judged by Unrestricted alone, so the   *)
(* flags of the OS path are one Boolean, "clear".                          *)
(*                                                                         *)
(* Current refreshes the manual source and returns the state under one     *)
(* lock.  The monitor's own watcher refreshes too; its refresh is cut      *)
(* between the stat of the file and the rest, because the operator's       *)
(* writes are in no lock.                                                  *)
(***************************************************************************)
EXTENDS Naturals

CONSTANTS
    Host,       \* the hosts with a monitor
    MaxEvents   \* bound on what the environment does (see events)

ASSUME NetAssumption == MaxEvents \in Nat

VARIABLES
    file,       \* per host, the manual setting: its kind, and a stamp for its identity (0: absent)
    editMark,   \* per host, the token beside it
    saving,     \* per host, the setting whose edit mark SaveManual has yet to write, or "none"
    mon,        \* per host, the monitor
    stat,       \* per host, the stamp the watcher's refresh holds under the lock, or Unlocked
    events      \* what the environment has done so far

netVars == <<file, editMark, saving, mon, stat, events>>

Unlocked == MaxEvents + 1

Monitor == [clear: BOOLEAN, metered: BOOLEAN, stamp: 0..MaxEvents, mark: 0..MaxEvents,
            epoch: Nat]

NetTypeOK ==
    /\ file \in [Host -> [kind: {"absent", "off", "on"}, stamp: 0..MaxEvents]]
    /\ editMark \in [Host -> 0..MaxEvents]
    /\ saving \in [Host -> {"none", "off", "on"}]
    /\ mon \in [Host -> Monitor]
    /\ stat \in [Host -> 0..Unlocked]
    /\ events \in 0..MaxEvents

\* newObserved and the first path update; no setting was ever saved.
NetInit ==
    /\ file = [h \in Host |-> [kind |-> "absent", stamp |-> 0]]
    /\ editMark = [h \in Host |-> 0]
    /\ saving = [h \in Host |-> "none"]
    /\ mon = [h \in Host |-> [clear |-> TRUE, metered |-> FALSE, stamp |-> 0, mark |-> 0,
                              epoch |-> 0]]
    /\ stat = [h \in Host |-> Unlocked]
    /\ events = 0

Happens == events < MaxEvents /\ events' = events + 1

-----------------------------------------------------------------------------
Unrestricted(m) == m.clear /\ ~m.metered

\* Mutant of RefreshedFrom: only a setting that is found on counts.
RefreshedIfMetered(h, s) ==
    LET m       == mon[h]
        mark    == IF s = 0 THEN editMark[h] ELSE 0
        metered == file[h].kind = "on"
    IN  IF m.stamp = s /\ m.mark = mark THEN m
        ELSE [m EXCEPT !.stamp = s, !.mark = mark, !.metered = metered,
                       !.epoch = IF metered THEN @ + 1 ELSE @]

\* refresh and refreshManualLocked after the file's stamp was found to be s.
\* The edit mark is read only when the file is absent.  A change counts as a
\* restriction unless it clears a metered mark that was already observed.
RefreshedFrom(h, s) ==
    LET m       == mon[h]
        mark    == IF s = 0 THEN editMark[h] ELSE 0
        metered == file[h].kind = "on"
    IN  IF m.stamp = s /\ m.mark = mark THEN m
        ELSE [m EXCEPT !.stamp = s, !.mark = mark, !.metered = metered,
                       !.epoch = IF metered \/ ~m.metered THEN @ + 1 ELSE @]

Refreshed(h) == RefreshedFrom(h, file[h].stamp)

Free(h) == stat[h] = Unlocked

\* publish: a path update of the OS.
Published(m, clear) ==
    LET s == [m EXCEPT !.clear = clear]
    IN  [s EXCEPT !.epoch = IF Unrestricted(s) THEN @ ELSE @ + 1]

PathUpdate(h, clear) ==
    /\ Happens
    /\ Free(h)
    /\ mon' = [mon EXCEPT ![h] = Published(@, clear)]
    /\ UNCHANGED <<file, editMark, saving, stat>>

\* SaveManual, the setting: every write makes a file of its own.
SaveManual(h, kind) ==
    /\ Happens
    /\ saving[h] = "none"
    /\ file' = [file EXCEPT ![h] = [kind |-> kind, stamp |-> events + 1]]
    /\ saving' = [saving EXCEPT ![h] = kind]
    /\ UNCHANGED <<editMark, mon, stat>>

\* SaveManual, the edit mark.
SaveMark(h) ==
    /\ saving[h] # "none"
    /\ editMark' = [editMark EXCEPT ![h] = events]
    /\ saving' = [saving EXCEPT ![h] = "none"]
    /\ UNCHANGED <<file, mon, stat, events>>

\* The operator deletes the setting by hand.
DeleteManual(h) ==
    /\ Happens
    /\ file[h].kind # "absent"
    /\ file' = [file EXCEPT ![h] = [kind |-> "absent", stamp |-> 0]]
    /\ UNCHANGED <<editMark, saving, mon, stat>>

\* refreshManual on the watcher's goroutine, for an event or the sweep.  One
\* that finds the stamp of a file it has read is over at once.
WatchStat(h) ==
    /\ Free(h)
    /\ Refreshed(h) # mon[h] \/ file[h].kind = "absent"
    /\ stat' = [stat EXCEPT ![h] = file[h].stamp]
    /\ UNCHANGED <<file, editMark, saving, mon, events>>

WatchLoad(h) ==
    /\ ~Free(h)
    /\ mon' = [mon EXCEPT ![h] = RefreshedFrom(h, stat[h])]
    /\ stat' = [stat EXCEPT ![h] = Unlocked]
    /\ UNCHANGED <<file, editMark, saving, events>>

\* The process of the monitor ends and starts: a new monitor has seen no path,
\* and counts its epochs from zero.
Reopened(h) ==
    [clear |-> FALSE, metered |-> file[h].kind = "on", stamp |-> file[h].stamp,
     mark |-> IF file[h].stamp = 0 THEN editMark[h] ELSE 0, epoch |-> 0]

\* The operator or the OS restricts the host in this step: a path update that
\* leaves it so, or a setting "on" that is now saved in full.
Restricts(h) ==
    \/ PathUpdate(h, FALSE)
    \/ SaveMark(h) /\ saving[h] = "on"

NetStep ==
    \E h \in Host :
        \/ \E clear \in BOOLEAN : PathUpdate(h, clear)
        \/ \E kind \in {"off", "on"} : SaveManual(h, kind)
        \/ SaveMark(h) \/ DeleteManual(h) \/ WatchStat(h) \/ WatchLoad(h)
=============================================================================
