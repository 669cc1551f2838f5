--------------------------- MODULE TransferProofs ---------------------------
(***************************************************************************)
(* Bulk transfer under the network policy, for any lanes, parts, numbers   *)
(* of network events and of late calls.                                    *)
(***************************************************************************)
EXTENDS Transfer, TLAPS

(***************************************************************************)
(* The monitors.                                                           *)
(***************************************************************************)
(* Stamps and marks count up: a setting is written under a stamp that no
   monitor holds, and a mark that is due is written as one that no monitor has
   read. *)
StampsGrow(h) ==
    /\ file[h].stamp <= events /\ mon[h].stamp <= events
    /\ editMark[h] <= events /\ mon[h].mark <= editMark[h]
    /\ saving[h] # "none" => editMark[h] < events
    /\ ~Free(h) => stat[h] <= events

(* A setting that is still being saved is in place, unless it was deleted; and
   a monitor that holds the stamp of a setting knows what it says. *)
SettingKnown(h) ==
    /\ file[h].stamp = 0 <=> file[h].kind = "absent"
    /\ saving[h] # "none" => file[h].kind \in {saving[h], "absent"}
    /\ mon[h].stamp = file[h].stamp /\ file[h].kind = "on" => mon[h].metered

NetInv == \A h \in Host : StampsGrow(h) /\ SettingKnown(h)

(* The monitor is behind what the operator has saved in full; no deletion and
   no later setting can hide that from it. *)
Behind(h) ==
    \/ mon[h].stamp # 0 /\ mon[h].stamp # file[h].stamp
    \/ mon[h].stamp = 0 /\ mon[h].mark # editMark[h]

(* A host admitted something under epoch e.  Either its monitor has counted a
   restriction since, or it has not; then it is unrestricted, and a restriction
   there was is one that it will count as soon as it looks. *)
Safe(h, e, cut) ==
    \/ mon[h].epoch > e
    \/ mon[h].epoch = e /\ Unrestricted(mon[h]) /\ (cut => Behind(h))

-----------------------------------------------------------------------------
(***************************************************************************)
(* The runs.                                                               *)
(***************************************************************************)
Active == {"admit", "call", "hold", "build", "read", "release"}

(* The epochs that a run is admitted under are safe ones. *)
RunSafe(l, r) ==
    /\ r.pc \in Active => Safe(Self, r.local, "local" \in r.cut)
    /\ r.pc \in Active /\ r.session => Safe(l, r.peer, "peer" \in r.cut)
    /\ r.pc = "gate" /\ r.session /\ r.seen.clear => Safe(l, r.seen.epoch, "peer" \in r.cut)
    /\ r.pc = "probe" /\ "peer" \in r.cut => ~mon[l].clear

AdmittedSafely == \A l \in Lane : RunSafe(l, run[l])

(* So are those of the calls that outlive their run. *)
LateSafely == \A q \in late : Safe(q.lane, q.admitted, q.cut)

(* A lane that holds the batch builds it, sends it, or is about to let go. *)
Sending == {"admit", "call", "read"}

Fits(r) ==
    \/ r.pc \in {"build", "release"}
    \/ r.pc \in Sending /\ r.stage \in {"begin", "put", "commit"}

HoldersFit == \A l \in holders : Fits(run[l])

(* A lane that rests for this host's network, or will once it has let go of the
   batch, is woken. *)
Pausing(r) == r.pc = "pausedLocal" \/ (r.pc = "release" /\ r.then = "pausedLocal")

PausesWake == \A l \in Lane : Pausing(run[l]) /\ Unrestricted(mon[Self]) => wake[l]

IndInv ==
    /\ TypeOK
    /\ NetInv
    /\ AdmittedSafely
    /\ LateSafely
    /\ HoldersFit
    /\ HeldBatchStays
    /\ PausesWake

-----------------------------------------------------------------------------
(***************************************************************************)
(* What a monitor does.                                                    *)
(***************************************************************************)
(* The types of a host's monitor and setting. *)
LEMMA NetTyped ==
    ASSUME NetTypeOK, NEW h \in Host
    PROVE  /\ mon[h] \in Monitor
           /\ mon[h].epoch \in Nat /\ mon[h].stamp \in 0..MaxEvents /\ mon[h].mark \in 0..MaxEvents
           /\ file[h] \in [kind: {"absent", "off", "on"}, stamp: 0..MaxEvents]
           /\ file[h].stamp \in 0..MaxEvents /\ editMark[h] \in 0..MaxEvents
           /\ saving[h] \in {"none", "off", "on"} /\ stat[h] \in 0..Unlocked
           /\ events \in 0..MaxEvents /\ MaxEvents \in Nat
<1>1. mon[h] \in Monitor /\ file[h] \in [kind: {"absent", "off", "on"}, stamp: 0..MaxEvents]
    BY DEF NetTypeOK
<1>2. QED
    BY <1>1, NetAssumption DEF NetTypeOK, Monitor

(* refresh: nothing new, or a reading that counts unless it takes a metered
   mark away. *)
LEMMA RefreshFacts ==
    ASSUME NetTypeOK, NEW h \in Host, NEW s \in 0..MaxEvents
    PROVE  LET m == RefreshedFrom(h, s)
           IN  /\ m \in Monitor
               /\ m.clear = mon[h].clear
               /\ m.epoch >= mon[h].epoch
               /\ \/ /\ m = mon[h]
                     /\ mon[h].stamp = s
                     /\ mon[h].mark = IF s = 0 THEN editMark[h] ELSE 0
                  \/ /\ m.stamp = s
                     /\ m.mark = IF s = 0 THEN editMark[h] ELSE 0
                     /\ m.metered <=> file[h].kind = "on"
                     /\ m.metered \/ ~mon[h].metered => m.epoch = mon[h].epoch + 1
<1>1. /\ mon[h] \in Monitor /\ mon[h].epoch \in Nat /\ editMark[h] \in 0..MaxEvents
      /\ 0 \in 0..MaxEvents
    BY NetTyped
<1> DEFINE m == RefreshedFrom(h, s)
<1> DEFINE mark == IF s = 0 THEN editMark[h] ELSE 0
<1>2. mark \in 0..MaxEvents
    BY <1>1
<1>3. CASE mon[h].stamp = s /\ mon[h].mark = mark
    <2>1. m = mon[h]
        BY <1>3 DEF RefreshedFrom
    <2>2. QED
        BY <1>1, <1>3, <2>1
<1>4. CASE ~(mon[h].stamp = s /\ mon[h].mark = mark)
    <2> DEFINE metered == file[h].kind = "on"
    <2> DEFINE epoch == IF metered \/ ~mon[h].metered THEN mon[h].epoch + 1 ELSE mon[h].epoch
    <2>1. m = [mon[h] EXCEPT !.stamp = s, !.mark = mark, !.metered = metered, !.epoch = epoch]
        BY <1>4 DEF RefreshedFrom
    <2>2. metered \in BOOLEAN /\ epoch \in Nat /\ epoch >= mon[h].epoch
        BY <1>1
    <2>3. metered \/ ~mon[h].metered => epoch = mon[h].epoch + 1
        OBVIOUS
    <2>4. metered <=> file[h].kind = "on"
        OBVIOUS
    <2> HIDE DEF m, mark, metered, epoch
    <2>5. /\ m \in Monitor /\ m.clear = mon[h].clear /\ m.epoch = epoch
          /\ m.stamp = s /\ m.mark = mark /\ m.metered = metered
        BY <1>1, <1>2, <2>1, <2>2 DEF Monitor
    <2>6. QED
        BY <2>2, <2>3, <2>4, <2>5 DEF m, mark
<1>5. QED
    BY <1>3, <1>4

(* Current and the watcher: a refresh of one host, from a stamp it found. *)
Refreshes(h, s) == mon' = [mon EXCEPT ![h] = RefreshedFrom(h, s)]

(* The setting and its mark stay; something else may happen. *)
SettingsStay ==
    /\ UNCHANGED <<file, editMark, saving>>
    /\ events' \in {events, events + 1}

(* A refresh leaves the other monitors alone. *)
LEMMA RefreshTyped ==
    ASSUME NetTypeOK, NEW h \in Host, NEW s \in 0..MaxEvents, Refreshes(h, s)
    PROVE  /\ mon' \in [Host -> Monitor]
           /\ mon'[h] = RefreshedFrom(h, s)
           /\ \A k \in Host : k # h => mon'[k] = mon[k]
<1>1. RefreshedFrom(h, s) \in Monitor
    BY RefreshFacts
<1>2. QED
    BY <1>1 DEF Refreshes, NetTypeOK

(* A refresh keeps what is known of stamps and settings. *)
LEMMA RefreshNet ==
    ASSUME NetTypeOK, NetInv, NEW h \in Host, NEW s \in 0..MaxEvents, s <= events,
           Refreshes(h, s), SettingsStay, NEW k \in Host, Free(k)' \/ stat'[k] = stat[k]
    PROVE  (StampsGrow(k) /\ SettingKnown(k))'
<1>1. /\ mon'[h] = RefreshedFrom(h, s)
      /\ k # h => mon'[k] = mon[k]
    BY RefreshTyped
<1>2. StampsGrow(k) /\ SettingKnown(k)
    BY DEF NetInv
<1>3. ~Free(k)' => ~Free(k) /\ stat'[k] = stat[k]
    BY DEF Free, Unlocked
<1>0. /\ events \in Nat /\ editMark[k] \in Nat /\ file[k].stamp \in Nat /\ mon[k].stamp \in Nat
      /\ stat[k] \in Nat
    BY NetTyped DEF Unlocked
<1>4. CASE k # h
    BY <1>0, <1>1, <1>2, <1>3, <1>4 DEF StampsGrow, SettingKnown, SettingsStay
<1>5. CASE k = h
    <2>1. /\ events \in Nat /\ editMark[h] \in Nat /\ s \in Nat
        BY NetTyped
    <2>2. mon'[h].stamp \in Nat /\ mon'[h].stamp <= events /\ mon'[h].mark <= editMark[h]
        BY <1>0, <1>1, <1>2, <1>5, <2>1, RefreshFacts DEF StampsGrow
    <2>3. mon'[h].stamp = file[h].stamp /\ file[h].kind = "on" => mon'[h].metered
        BY <1>1, <1>2, <1>5, RefreshFacts DEF SettingKnown
    <2>4. StampsGrow(k)'
        BY <1>0, <1>2, <1>3, <1>5, <2>2 DEF StampsGrow, SettingsStay
    <2>5. SettingKnown(k)'
        BY <1>2, <1>5, <2>3 DEF SettingKnown, SettingsStay
    <2>6. QED
        BY <2>4, <2>5
<1>6. QED
    BY <1>4, <1>5

(* Safe, after a step. *)
SafeNext(h, e, cut) ==
    \/ mon'[h].epoch > e
    \/ mon'[h].epoch = e /\ Unrestricted(mon'[h]) /\ (cut => Behind(h)')

(* A refresh keeps an admission safe: what it was behind of it counts. *)
LEMMA RefreshSafe ==
    ASSUME NetTypeOK, NEW h \in Host, NEW s \in 0..MaxEvents,
           Refreshes(h, s), SettingsStay,
           NEW k \in Host, NEW e \in Nat, NEW cut, Safe(k, e, cut)
    PROVE  SafeNext(k, e, cut)
<1>1. /\ mon'[h] = RefreshedFrom(h, s)
      /\ k # h => mon'[k] = mon[k]
    BY RefreshTyped
<1>2. /\ mon[h].epoch \in Nat /\ mon[h] \in Monitor
      /\ mon'[h].epoch >= mon[h].epoch /\ mon'[h] \in Monitor
    BY <1>1, NetTyped, RefreshFacts
<1>3. CASE k # h \/ mon'[h] = mon[h]
    <2>1. mon'[k] = mon[k]
        BY <1>1, <1>3
    <2>2. QED
        BY <2>1 DEF Safe, SafeNext, Behind, SettingsStay
<1>4. CASE k = h /\ mon[h].epoch > e
    BY <1>2, <1>4, RefreshFacts DEF Safe, SafeNext, Monitor
<1>5. CASE k = h /\ mon[h].epoch = e /\ mon'[h] # mon[h] /\ Unrestricted(mon[h])
    <2>1. mon'[h].epoch = mon[h].epoch + 1
        BY <1>1, <1>5, RefreshFacts DEF Unrestricted
    <2>2. QED
        BY <1>2, <1>5, <2>1 DEF Safe, SafeNext
<1>6. QED
    BY <1>3, <1>4, <1>5 DEF Safe

(* A host that is safe and refuses nothing was not restricted. *)
LEMMA SafeIsUncut ==
    ASSUME NetTypeOK, NEW h \in Host, NEW e \in Nat, NEW cut, Safe(h, e, cut),
           Refreshed(h).epoch = e
    PROVE  ~cut
<1>0. mon[h].epoch \in Nat /\ file[h].stamp \in 0..MaxEvents
    BY NetTyped
<1>1. Refreshed(h).epoch >= mon[h].epoch
    BY <1>0, RefreshFacts DEF Refreshed
<1>2. mon[h].epoch = e /\ Unrestricted(mon[h]) /\ (cut => Behind(h))
    BY <1>0, <1>1 DEF Safe
<1>3. Behind(h) => Refreshed(h).epoch = mon[h].epoch + 1
    BY <1>0, <1>2, RefreshFacts DEF Refreshed, Behind, Unrestricted
<1>4. QED
    BY <1>0, <1>2, <1>3

(***************************************************************************)
(* What happens around a monitor.                                          *)
(***************************************************************************)
(* The steps of one host. *)
HostStep(h) ==
    \/ \E clear \in BOOLEAN : PathUpdate(h, clear)
    \/ \E kind \in {"off", "on"} : SaveManual(h, kind)
    \/ SaveMark(h) \/ DeleteManual(h) \/ WatchStat(h) \/ WatchLoad(h)

(* publish: an update that leaves the host restricted counts. *)
LEMMA PublishedFacts ==
    ASSUME NEW m \in Monitor, NEW clear \in BOOLEAN
    PROVE  LET n == Published(m, clear)
           IN  /\ n \in Monitor
               /\ n.stamp = m.stamp /\ n.mark = m.mark /\ n.metered = m.metered
               /\ n.epoch \in {m.epoch, m.epoch + 1}
               /\ n.epoch = m.epoch => Unrestricted(n)
               /\ ~clear => n.epoch = m.epoch + 1
<1> DEFINE s == [m EXCEPT !.clear = clear]
<1> DEFINE epoch == IF Unrestricted(s) THEN m.epoch ELSE m.epoch + 1
<1>1. /\ s \in Monitor /\ s.clear = clear /\ s.epoch = m.epoch /\ s.stamp = m.stamp
      /\ s.mark = m.mark /\ s.metered = m.metered /\ m.epoch \in Nat
    BY DEF Monitor
<1>2. epoch \in Nat /\ epoch \in {m.epoch, m.epoch + 1} /\ (epoch = m.epoch => Unrestricted(s))
    BY <1>1
<1>3. ~clear => epoch = m.epoch + 1
    BY <1>1 DEF Unrestricted
<1>4. Published(m, clear) = [s EXCEPT !.epoch = epoch]
    BY <1>1 DEF Published
<1> HIDE DEF s, epoch
<1>5. LET n == [s EXCEPT !.epoch = epoch]
      IN  /\ n \in Monitor /\ n.epoch = epoch /\ n.clear = s.clear
          /\ n.stamp = s.stamp /\ n.mark = s.mark /\ n.metered = s.metered
    BY <1>1, <1>2 DEF Monitor
<1>6. QED
    BY <1>1, <1>2, <1>3, <1>4, <1>5 DEF Unrestricted

(* What happens at a host leaves the others alone. *)
LEMMA HostTyped ==
    ASSUME NetTypeOK, NetInv, NEW h \in Host, HostStep(h)
    PROVE  /\ NetTypeOK'
           /\ \A k \in Host \ {h} :
                /\ mon'[k] = mon[k] /\ file'[k] = file[k] /\ editMark'[k] = editMark[k]
                /\ saving'[k] = saving[k] /\ stat'[k] = stat[k]
           /\ events' \in {events, events + 1}
<1>0. /\ mon[h] \in Monitor /\ file[h].stamp \in 0..MaxEvents /\ stat[h] \in 0..Unlocked
      /\ events \in 0..MaxEvents /\ MaxEvents \in Nat
      /\ mon \in [Host -> Monitor] /\ stat \in [Host -> 0..Unlocked]
      /\ file \in [Host -> [kind: {"absent", "off", "on"}, stamp: 0..MaxEvents]]
      /\ editMark \in [Host -> 0..MaxEvents] /\ saving \in [Host -> {"none", "off", "on"}]
    BY NetTyped DEF NetTypeOK
<1>1. ASSUME NEW clear \in BOOLEAN, PathUpdate(h, clear)
      PROVE  /\ mon' \in [Host -> Monitor] /\ \A k \in Host \ {h} : mon'[k] = mon[k]
             /\ events' \in 0..MaxEvents /\ events' = events + 1
             /\ UNCHANGED <<file, editMark, saving, stat>>
    BY <1>0, <1>1, PublishedFacts DEF PathUpdate, Happens
<1>2. ASSUME NEW kind \in {"off", "on"}, SaveManual(h, kind)
      PROVE  /\ file' \in [Host -> [kind: {"absent", "off", "on"}, stamp: 0..MaxEvents]]
             /\ saving' \in [Host -> {"none", "off", "on"}]
             /\ \A k \in Host \ {h} : file'[k] = file[k] /\ saving'[k] = saving[k]
             /\ events' \in 0..MaxEvents /\ events' = events + 1
             /\ UNCHANGED <<editMark, mon, stat>>
    <2>1. /\ events' = events + 1 /\ events' \in 0..MaxEvents /\ events + 1 \in 0..MaxEvents
          /\ UNCHANGED <<editMark, mon, stat>>
        BY <1>0, <1>2 DEF SaveManual, Happens
    <2>2. [kind |-> kind, stamp |-> events + 1] \in [kind: {"absent", "off", "on"}, stamp: 0..MaxEvents]
        BY <2>1
    <2>3. QED
        BY <1>0, <1>2, <2>1, <2>2 DEF SaveManual
<1>3. CASE SaveMark(h)
    BY <1>0, <1>3 DEF SaveMark, NetTypeOK
<1>4. CASE DeleteManual(h)
    <2>1. /\ events' = events + 1 /\ events' \in 0..MaxEvents /\ 0 \in 0..MaxEvents
          /\ UNCHANGED <<editMark, saving, mon, stat>>
        BY <1>0, <1>4 DEF DeleteManual, Happens
    <2>2. /\ file' \in [Host -> [kind: {"absent", "off", "on"}, stamp: 0..MaxEvents]]
          /\ \A k \in Host \ {h} : file'[k] = file[k]
        BY <1>0, <1>4, <2>1 DEF DeleteManual
    <2>3. QED
        BY <1>0, <2>1, <2>2 DEF NetTypeOK
<1>5. CASE WatchStat(h)
    <2>1. file[h].stamp \in 0..Unlocked
        BY <1>0 DEF Unlocked
    <2>2. QED
        BY <1>0, <1>5, <2>1 DEF WatchStat, NetTypeOK
<1>6. CASE WatchLoad(h)
    <2>1. stat[h] \in 0..MaxEvents /\ Unlocked \in 0..Unlocked
        BY <1>0, <1>6 DEF WatchLoad, Free, Unlocked
    <2>2. mon' \in [Host -> Monitor] /\ \A k \in Host \ {h} : mon'[k] = mon[k]
        BY <1>6, <2>1, RefreshTyped DEF WatchLoad, Refreshes
    <2>3. QED
        BY <1>0, <1>6, <2>1, <2>2 DEF WatchLoad, NetTypeOK
<1>7. CASE \E clear \in BOOLEAN : PathUpdate(h, clear)
    BY <1>0, <1>1, <1>7 DEF NetTypeOK
<1>8. CASE \E kind \in {"off", "on"} : SaveManual(h, kind)
    BY <1>0, <1>2, <1>8 DEF NetTypeOK
<1>9. QED
    BY <1>3, <1>4, <1>5, <1>6, <1>7, <1>8 DEF HostStep

(* What happens at a host keeps what is known of its stamps and setting. *)
LEMMA HostNet ==
    ASSUME NetTypeOK, NetInv, NEW h \in Host, HostStep(h)
    PROVE  NetInv'
<1>0. /\ mon[h] \in Monitor /\ mon[h].stamp \in Nat /\ mon[h].mark \in Nat
      /\ file[h].stamp \in Nat /\ editMark[h] \in Nat /\ stat[h] \in 0..Unlocked
      /\ events \in Nat /\ events \in 0..MaxEvents /\ MaxEvents \in Nat
      /\ Host = DOMAIN mon /\ Host = DOMAIN file /\ Host = DOMAIN editMark
      /\ Host = DOMAIN saving /\ Host = DOMAIN stat
    BY NetTyped DEF NetTypeOK
<1>h. StampsGrow(h) /\ SettingKnown(h)
    BY DEF NetInv
<1>1. ASSUME NEW clear \in BOOLEAN, PathUpdate(h, clear)
      PROVE  (StampsGrow(h) /\ SettingKnown(h))'
    <2>1. mon'[h] = Published(mon[h], clear)
        BY <1>0, <1>1 DEF PathUpdate
    <2>2. mon'[h].stamp = mon[h].stamp /\ mon'[h].mark = mon[h].mark /\ mon'[h].metered = mon[h].metered
        BY <1>0, <2>1, PublishedFacts
    <2>3. events' = events + 1 /\ UNCHANGED <<file, editMark, saving, stat>>
        BY <1>1 DEF PathUpdate, Happens
    <2>4. StampsGrow(h)'
        BY <1>0, <1>h, <2>2, <2>3 DEF StampsGrow, Free, Unlocked
    <2>5. SettingKnown(h)'
        BY <1>h, <2>2, <2>3 DEF SettingKnown
    <2>6. QED
        BY <2>4, <2>5
<1>2. ASSUME NEW kind \in {"off", "on"}, SaveManual(h, kind)
      PROVE  (StampsGrow(h) /\ SettingKnown(h))'
    <2>1. /\ file'[h] = [kind |-> kind, stamp |-> events + 1] /\ saving'[h] = kind
          /\ events' = events + 1 /\ UNCHANGED <<editMark, mon, stat>>
        BY <1>0, <1>2 DEF SaveManual, Happens
    <2>2. file'[h].kind = kind /\ file'[h].stamp = events + 1
        BY <2>1
    <2>3. StampsGrow(h)'
        BY <1>0, <1>h, <2>1, <2>2 DEF StampsGrow, Free, Unlocked
    <2>4. SettingKnown(h)'
        BY <1>0, <1>h, <2>1, <2>2 DEF SettingKnown, StampsGrow
    <2>5. QED
        BY <2>3, <2>4
<1>3. ASSUME SaveMark(h)
      PROVE  (StampsGrow(h) /\ SettingKnown(h))'
    <2>1. /\ editMark'[h] = events /\ saving'[h] = "none"
          /\ UNCHANGED <<file, mon, stat, events>>
        BY <1>0, <1>3 DEF SaveMark
    <2>2. StampsGrow(h)'
        BY <1>0, <1>h, <2>1 DEF StampsGrow, Free, Unlocked
    <2>3. SettingKnown(h)'
        BY <1>h, <2>1 DEF SettingKnown
    <2>4. QED
        BY <2>2, <2>3
<1>4. ASSUME DeleteManual(h)
      PROVE  (StampsGrow(h) /\ SettingKnown(h))'
    <2>1. /\ file'[h] = [kind |-> "absent", stamp |-> 0]
          /\ events' = events + 1 /\ UNCHANGED <<editMark, saving, mon, stat>>
        BY <1>0, <1>4 DEF DeleteManual, Happens
    <2>2. file'[h].kind = "absent" /\ file'[h].stamp = 0
        BY <2>1
    <2>3. StampsGrow(h)'
        BY <1>0, <1>h, <2>1, <2>2 DEF StampsGrow, Free, Unlocked
    <2>4. SettingKnown(h)'
        BY <1>h, <2>1, <2>2 DEF SettingKnown
    <2>5. QED
        BY <2>3, <2>4
<1>5. ASSUME WatchStat(h)
      PROVE  (StampsGrow(h) /\ SettingKnown(h))'
    <2>1. stat'[h] = file[h].stamp /\ UNCHANGED <<file, editMark, saving, mon, events>>
        BY <1>0, <1>5 DEF WatchStat
    <2>2. StampsGrow(h)'
        BY <1>0, <1>h, <2>1 DEF StampsGrow
    <2>3. SettingKnown(h)'
        BY <1>h, <2>1 DEF SettingKnown
    <2>4. QED
        BY <2>2, <2>3
<1>6. ASSUME WatchLoad(h)
      PROVE  (StampsGrow(h) /\ SettingKnown(h))'
    <2>1. stat[h] \in 0..MaxEvents /\ stat[h] <= events
        BY <1>0, <1>h, <1>6 DEF WatchLoad, Free, Unlocked, StampsGrow
    <2>2. Refreshes(h, stat[h]) /\ SettingsStay /\ Free(h)'
        BY <1>0, <1>6 DEF WatchLoad, Refreshes, SettingsStay, Free, Unlocked
    <2>3. QED
        BY <2>1, <2>2, RefreshNet
<1>7. (StampsGrow(h) /\ SettingKnown(h))'
    BY <1>1, <1>2, <1>3, <1>4, <1>5, <1>6 DEF HostStep
<1>8. ASSUME NEW k \in Host, k # h
      PROVE  (StampsGrow(k) /\ SettingKnown(k))'
    <2>1. StampsGrow(k) /\ SettingKnown(k)
        BY DEF NetInv
    <2>2. /\ mon'[k] = mon[k] /\ file'[k] = file[k] /\ editMark'[k] = editMark[k]
          /\ saving'[k] = saving[k] /\ stat'[k] = stat[k] /\ events' \in {events, events + 1}
        BY <1>8, HostTyped
    <2>3. mon[k].stamp \in Nat /\ file[k].stamp \in Nat /\ editMark[k] \in Nat /\ stat[k] \in Nat
        BY NetTyped DEF Unlocked
    <2>4. StampsGrow(k)'
        BY <1>0, <2>1, <2>2, <2>3 DEF StampsGrow, Free, Unlocked
    <2>5. SettingKnown(k)'
        BY <2>1, <2>2 DEF SettingKnown
    <2>6. QED
        BY <2>4, <2>5
<1>9. QED
    BY <1>7, <1>8 DEF NetInv

(* What happens at a host keeps an admission safe: the monitor counts a
   restriction of the path at once, and is behind a setting that is now saved
   in full. *)
LEMMA HostSafe ==
    ASSUME NetTypeOK, NetInv, NEW h \in Host, HostStep(h),
           NEW k \in Host, NEW e \in Nat, NEW cut \in BOOLEAN, NEW next \in BOOLEAN,
           next => cut \/ Restricts(k), Safe(k, e, cut)
    PROVE  SafeNext(k, e, next)
<1>0. /\ mon[h] \in Monitor /\ mon[h].stamp \in Nat /\ mon[h].mark \in Nat
      /\ mon[k].epoch \in Nat /\ mon[h].epoch \in Nat
      /\ file[h].stamp \in Nat /\ editMark[h] \in Nat /\ stat[h] \in 0..Unlocked
      /\ events \in Nat /\ events \in 0..MaxEvents /\ MaxEvents \in Nat
      /\ Host = DOMAIN mon /\ Host = DOMAIN file /\ Host = DOMAIN editMark
      /\ Host = DOMAIN saving /\ Host = DOMAIN stat
    BY NetTyped DEF NetTypeOK
<1>h. StampsGrow(h) /\ SettingKnown(h)
    BY DEF NetInv
<1>p. PathUpdate(h, FALSE) => events' = events + 1 /\ mon'[h].epoch = mon[h].epoch + 1
    BY <1>0, PublishedFacts DEF PathUpdate, Happens
<1>m. /\ SaveMark(h) => events' = events /\ editMark'[h] = events
      /\ SaveMark(h) => saving[h] # "none" /\ saving'[h] = "none"
    BY <1>0 DEF SaveMark
<1>1. CASE k # h
    <2>1. /\ mon'[k] = mon[k] /\ file'[k] = file[k] /\ editMark'[k] = editMark[k]
          /\ saving'[k] = saving[k]
        BY <1>1, HostTyped
    <2>2. ~(SaveMark(k) /\ saving[k] = "on")
        BY <1>0, <2>1 DEF SaveMark
    <2>3. PathUpdate(k, FALSE) => mon'[k].epoch = mon[k].epoch + 1
        <3>1. mon[k] \in Monitor
            BY NetTyped
        <3>2. QED
            BY <1>0, <3>1, PublishedFacts DEF PathUpdate
    <2>n. mon'[k].epoch # mon[k].epoch + 1
        BY <1>0, <2>1
    <2>4. ~Restricts(k)
        BY <2>2, <2>3, <2>n, Zenon DEF Restricts
    <2>5. QED
        BY <2>1, <2>4 DEF Safe, SafeNext, Behind
<1>2. ASSUME k = h, NEW clear \in BOOLEAN, PathUpdate(h, clear)
      PROVE  SafeNext(h, e, next)
    <2>1. mon'[h] = Published(mon[h], clear) /\ UNCHANGED <<file, editMark, saving>>
        BY <1>0, <1>2 DEF PathUpdate
    <2>2. /\ mon'[h].stamp = mon[h].stamp /\ mon'[h].mark = mon[h].mark
          /\ mon'[h].epoch \in {mon[h].epoch, mon[h].epoch + 1}
          /\ mon'[h].epoch = mon[h].epoch => Unrestricted(mon'[h])
        BY <1>0, <2>1, PublishedFacts
    <2>3. ~SaveMark(h)
        BY <1>m, <2>1
    <2>4. Behind(h) => Behind(h)'
        BY <2>1, <2>2 DEF Behind
    <2>5. Restricts(h) => mon'[h].epoch = mon[h].epoch + 1
        BY <1>p, <2>3 DEF Restricts
    <2>6. QED
        BY <1>0, <1>2, <2>2, <2>4, <2>5 DEF Safe, SafeNext
<1>3. ASSUME k = h, UNCHANGED mon, ~Restricts(h), Behind(h) => Behind(h)'
      PROVE  SafeNext(h, e, next)
    BY <1>3 DEF Safe, SafeNext
<1>4. ASSUME UNCHANGED mon, UNCHANGED editMark \/ UNCHANGED saving
      PROVE  ~Restricts(h)
    <2>1. ~PathUpdate(h, FALSE)
        <3>1. mon'[h].epoch # mon[h].epoch + 1
            BY <1>0, <1>4
        <3>2. QED
            BY <1>p, <3>1, Zenon
    <2>2. ~SaveMark(h)
        BY <1>0, <1>h, <1>m, <1>4 DEF StampsGrow
    <2>3. QED
        BY <2>1, <2>2 DEF Restricts
<1>5. ASSUME k = h, NEW kind \in {"off", "on"}, SaveManual(h, kind)
      PROVE  SafeNext(h, e, next)
    <2>1. /\ file'[h].stamp = events + 1 /\ UNCHANGED <<editMark, mon>>
        BY <1>0, <1>5 DEF SaveManual, Happens
    <2>2. Behind(h) => Behind(h)'
        BY <1>0, <1>h, <2>1 DEF Behind, StampsGrow
    <2>3. QED
        BY <1>3, <1>4, <1>5, <2>1, <2>2
<1>6. CASE k = h /\ SaveMark(h)
    <2>1. /\ editMark'[h] = events /\ UNCHANGED <<file, mon, events>> /\ saving[h] # "none"
        BY <1>0, <1>6 DEF SaveMark
    <2>2. Behind(h) => Behind(h)'
        BY <1>0, <1>h, <2>1 DEF Behind, StampsGrow
    <2>3. ~PathUpdate(h, FALSE)
        <3>1. events' # events + 1
            BY <1>0, <2>1
        <3>2. QED
            BY <1>p, <3>1, Zenon
    <2>4. ASSUME saving[h] = "on", Unrestricted(mon[h])
          PROVE  Behind(h)'
        <3>1. mon[h].stamp = 0 => mon[h].mark < events
            BY <1>0, <1>h, <2>1 DEF StampsGrow
        <3>2. mon[h].stamp # 0 => mon[h].stamp # file[h].stamp
            BY <1>h, <2>4 DEF SettingKnown, Unrestricted
        <3>3. QED
            BY <1>0, <2>1, <3>1, <3>2 DEF Behind
    <2>5. QED
        BY <1>6, <2>1, <2>2, <2>3, <2>4 DEF Safe, SafeNext, Restricts
<1>7. CASE k = h /\ DeleteManual(h)
    <2>1. /\ file'[h].stamp = 0 /\ UNCHANGED <<editMark, mon>>
        BY <1>0, <1>7 DEF DeleteManual
    <2>2. Behind(h) => Behind(h)'
        BY <1>0, <2>1 DEF Behind
    <2>3. QED
        BY <1>3, <1>4, <1>7, <2>1, <2>2
<1>8. CASE k = h /\ WatchStat(h)
    <2>1. UNCHANGED <<file, editMark, mon>>
        BY <1>8 DEF WatchStat
    <2>2. QED
        BY <1>3, <1>4, <1>8, <2>1 DEF Behind
<1>9. CASE k = h /\ WatchLoad(h)
    <2>1. stat[h] \in 0..MaxEvents
        BY <1>0, <1>9 DEF WatchLoad, Free, Unlocked
    <2>2. Refreshes(h, stat[h]) /\ SettingsStay /\ events' = events
        BY <1>9 DEF WatchLoad, Refreshes, SettingsStay
    <2>3. SafeNext(h, e, cut)
        BY <1>9, <2>1, <2>2, RefreshSafe
    <2>4. ~(SaveMark(h) /\ saving[h] = "on")
        BY <1>m, <2>2 DEF SettingsStay
    <2>5. ~PathUpdate(h, FALSE)
        <3>1. events' # events + 1
            BY <1>0, <2>2
        <3>2. QED
            BY <1>p, <3>1, Zenon
    <2>6. QED
        BY <1>9, <2>3, <2>4, <2>5 DEF Restricts, SafeNext
<1>10. QED
    BY <1>1, <1>2, <1>5, <1>6, <1>7, <1>8, <1>9 DEF HostStep

-----------------------------------------------------------------------------
(***************************************************************************)
(* What a step of a lane does to the monitors: it looks at one of them, or  *)
(* at none.                                                                 *)
(***************************************************************************)
Looks(h) ==
    /\ UNCHANGED netRest
    /\ events' \in 0..MaxEvents /\ events' \in {events, events + 1}
    /\ mon' = mon \/ Refreshes(h, file[h].stamp)

(* A look keeps what is known of the monitors. *)
LEMMA LookNet ==
    ASSUME NetTypeOK, NetInv, NEW h \in Host, Looks(h)
    PROVE  /\ NetTypeOK' /\ NetInv'
           /\ \A k \in Host : mon'[k].clear = mon[k].clear
           /\ \A k \in Host : k # h => mon'[k] = mon[k]
<1>0. file[h].stamp \in 0..MaxEvents /\ file[h].stamp <= events
    BY NetTyped DEF NetInv, StampsGrow
<1>1. SettingsStay /\ UNCHANGED stat
    BY DEF Looks, netRest, SettingsStay
<1>2. CASE mon' = mon
    <2>1. ASSUME NEW k \in Host
          PROVE  (StampsGrow(k) /\ SettingKnown(k))'
        <3>1. StampsGrow(k) /\ SettingKnown(k)
            BY DEF NetInv
        <3>2. /\ events \in Nat /\ editMark[k] \in Nat /\ file[k].stamp \in Nat
              /\ mon[k].stamp \in Nat /\ stat[k] \in Nat
            BY NetTyped DEF Unlocked
        <3>3. StampsGrow(k)'
            BY <1>1, <1>2, <3>1, <3>2 DEF StampsGrow, SettingsStay, Free, Unlocked
        <3>4. SettingKnown(k)'
            BY <1>1, <1>2, <3>1 DEF SettingKnown, SettingsStay
        <3>5. QED
            BY <3>3, <3>4
    <2>2. NetInv'
        BY <2>1 DEF NetInv
    <2>3. NetTypeOK'
        BY <1>1, <1>2 DEF NetTypeOK, SettingsStay, Looks, Unlocked
    <2>4. QED
        BY <1>2, <2>2, <2>3
<1>3. CASE Refreshes(h, file[h].stamp)
    <2>1. NetInv'
        BY <1>0, <1>1, <1>3, RefreshNet DEF NetInv
    <2>2. /\ mon' \in [Host -> Monitor] /\ mon'[h].clear = mon[h].clear
          /\ \A k \in Host : k # h => mon'[k] = mon[k]
        BY <1>0, <1>3, RefreshTyped, RefreshFacts
    <2>3. NetTypeOK'
        BY <1>1, <2>2 DEF NetTypeOK, SettingsStay, Looks, Unlocked
    <2>4. QED
        BY <2>1, <2>2, <2>3
<1>4. QED
    BY <1>2, <1>3 DEF Looks

(* A look keeps an admission safe. *)
LEMMA LookSafe ==
    ASSUME NetTypeOK, NetInv, NEW h \in Host, Looks(h),
           NEW k \in Host, NEW e \in Nat, NEW cut, Safe(k, e, cut)
    PROVE  SafeNext(k, e, cut)
<1>1. CASE mon' = mon
    BY <1>1 DEF Looks, netRest, Safe, SafeNext, Behind
<1>2. CASE Refreshes(h, file[h].stamp)
    <2>1. file[h].stamp \in 0..MaxEvents /\ SettingsStay
        BY NetTyped DEF Looks, netRest, SettingsStay
    <2>2. QED
        BY <1>2, <2>1, RefreshSafe
<1>3. QED
    BY <1>1, <1>2 DEF Looks

-----------------------------------------------------------------------------
(***************************************************************************)
(* What a step of a lane does to its run.                                   *)
(***************************************************************************)
(* RunSafe, after a step. *)
RunSafeNext(l, r) ==
    /\ r.pc \in Active => SafeNext(Self, r.local, "local" \in r.cut)
    /\ r.pc \in Active /\ r.session => SafeNext(l, r.peer, "peer" \in r.cut)
    /\ r.pc = "gate" /\ r.session /\ r.seen.clear => SafeNext(l, r.seen.epoch, "peer" \in r.cut)
    /\ r.pc = "probe" /\ "peer" \in r.cut => ~mon'[l].clear

(* The lanes' peers, and this host, have a monitor. *)
LEMMA Hosts == Self \in Host /\ \A l \in Lane : l \in Host /\ l # Self
BY TransferAssumption

(* A run that a look leaves alone stays safe. *)
LEMMA RunStays ==
    ASSUME NetTypeOK, NetInv, NEW h \in Host, Looks(h),
           NEW l \in Lane, NEW r \in Run, RunSafe(l, r)
    PROVE  RunSafeNext(l, r)
<1> DEFINE local == "local" \in r.cut
           peer == "peer" \in r.cut
<1>1. /\ r.pc \in Active => Safe(Self, r.local, local)
      /\ r.pc \in Active /\ r.session => Safe(l, r.peer, peer)
      /\ r.pc = "gate" /\ r.session /\ r.seen.clear => Safe(l, r.seen.epoch, peer)
      /\ r.pc = "probe" /\ peer => ~mon[l].clear
    BY DEF RunSafe
<1>2. r.local \in Nat /\ r.peer \in Nat /\ r.seen.epoch \in Nat
    BY DEF Run
<1>3. (mon'[l]).clear = mon[l].clear /\ Self \in Host /\ l \in Host
    BY LookNet, Hosts
<1> HIDE DEF local, peer
<1>4. r.pc \in Active => SafeNext(Self, r.local, local)
    BY <1>1, <1>2, <1>3, LookSafe
<1>5. r.pc \in Active /\ r.session => SafeNext(l, r.peer, peer)
    BY <1>1, <1>2, <1>3, LookSafe
<1>6. r.pc = "gate" /\ r.session /\ r.seen.clear => SafeNext(l, r.seen.epoch, peer)
    BY <1>1, <1>2, <1>3, LookSafe
<1>7. r.pc = "probe" /\ peer => ~mon'[l].clear
    BY <1>1, <1>3
<1>8. QED
    BY <1>4, <1>5, <1>6, <1>7, Zenon DEF RunSafeNext, local, peer

(* A run rests, or goes on under the admission it has. *)
Continues(l, r) ==
    \/ r.pc \in Rests
    \/ /\ run[l].pc \in Active /\ r.pc \in Active
       /\ r.local = run[l].local /\ r.peer = run[l].peer
       /\ r.session = run[l].session /\ r.cut = run[l].cut

(* Then its admission stays safe. *)
LEMMA ContinuesSafely ==
    ASSUME NetTypeOK, NetInv, AdmittedSafely, NEW h \in Host, Looks(h),
           NEW l \in Lane, run[l] \in Run, NEW r \in Run, Continues(l, r)
    PROVE  RunSafeNext(l, r)
<1>1. CASE r.pc \in Rests
    BY <1>1 DEF RunSafeNext, Rests, Active
<1>2. CASE r.pc \notin Rests
    <2>1. RunSafeNext(l, run[l])
        BY RunStays DEF AdmittedSafely
    <2>2. QED
        BY <1>2, <2>1 DEF RunSafeNext, Active, Continues
<1>3. QED
    BY <1>1, <1>2

(* A run of one lane is replaced. *)
Moves(l, r) == r \in Run /\ Goes(l, r)

(* The runs stay typed and admitted safely when one of them is replaced by a
   safe one. *)
LEMMA RunsSafe ==
    ASSUME NetTypeOK, NetInv, AdmittedSafely, run \in [Lane -> Run], NEW h \in Host, Looks(h),
           NEW l \in Lane, NEW r, Moves(l, r), RunSafeNext(l, r)
    PROVE  run' \in [Lane -> Run] /\ AdmittedSafely'
<1>1. /\ run' \in [Lane -> Run] /\ run'[l] = r
      /\ \A k \in Lane : k # l => run'[k] = run[k]
    BY DEF Moves, Goes
<1>2. ASSUME NEW k \in Lane
      PROVE  RunSafeNext(k, run'[k])
    <2>1. CASE k = l
        BY <1>1, <2>1
    <2>2. CASE k # l
        <3>1. run[k] \in Run /\ RunSafe(k, run[k])
            BY DEF AdmittedSafely
        <3>2. QED
            BY <1>1, <2>2, <3>1, RunStays
    <2>3. QED
        BY <2>1, <2>2
<1>3. QED
    BY <1>1, <1>2 DEF AdmittedSafely, RunSafe, Safe, Behind, RunSafeNext, SafeNext

(* The calls that outlive their runs stay safe. *)
LEMMA LateStays ==
    ASSUME NetTypeOK, NetInv, LateSafely, late \subseteq Request, NEW h \in Host, Looks(h),
           late' \subseteq late
    PROVE  late' \subseteq Request /\ LateSafely'
<1>1. ASSUME NEW q \in late'
      PROVE  SafeNext(q.lane, q.admitted, q.cut)
    <2>1. q \in Request /\ Safe(q.lane, q.admitted, q.cut)
        BY <1>1 DEF LateSafely
    <2>2. q.lane \in Host /\ q.admitted \in Nat
        BY <2>1, Hosts DEF Request
    <2>3. QED
        BY <2>1, <2>2, LookSafe
<1>2. QED
    BY <1>1 DEF LateSafely, Safe, Behind, SafeNext

(* So does a call that its run gives up on. *)
LEMMA LateGrows ==
    ASSUME NetTypeOK, NetInv, AdmittedSafely, LateSafely, late \subseteq Request,
           NEW l \in Lane, run[l] \in Run, NEW h \in Host, Looks(h), MayOutlive(l)
    PROVE  late' \subseteq Request /\ LateSafely'
<1>1. CASE UNCHANGED late
    BY <1>1, LateStays
<1>2. CASE late' # late
    <2> DEFINE q == [lane |-> l, stage |-> run[l].stage, part |-> Next1(run[l].left),
                     admitted |-> run[l].peer, cut |-> "peer" \in run[l].cut]
    <2>1. late' = late \cup {q} /\ run[l].pc = "call" /\ run[l].session
        BY <1>2 DEF MayOutlive, At
    <2>2. run[l].left \subseteq Part /\ run[l].peer \in Nat /\ run[l].stage \in Stages
        BY DEF Run
    <2>3. Next1(run[l].left) \subseteq Part
        BY <2>2 DEF Next1
    <2>4. q \in Request
        BY <2>2, <2>3 DEF Request
    <2>5. SafeNext(l, run[l].peer, "peer" \in run[l].cut)
        <3>1. RunSafeNext(l, run[l])
            BY RunStays DEF AdmittedSafely
        <3>2. QED
            BY <2>1, <3>1 DEF RunSafeNext, Active
    <2>6. q.lane = l /\ q.admitted = run[l].peer /\ q.cut = ("peer" \in run[l].cut)
        OBVIOUS
    <2> HIDE DEF q
    <2>7. SafeNext(q.lane, q.admitted, q.cut)
        BY <2>5, <2>6
    <2>8. ASSUME NEW c \in late
          PROVE  SafeNext(c.lane, c.admitted, c.cut)
        <3>1. c \in Request /\ Safe(c.lane, c.admitted, c.cut)
            BY <2>8 DEF LateSafely
        <3>2. c.lane \in Host /\ c.admitted \in Nat
            BY <3>1, Hosts DEF Request
        <3>3. QED
            BY <3>1, <3>2, LookSafe
    <2>9. \A c \in late' : SafeNext(c.lane, c.admitted, c.cut)
        BY <2>1, <2>7, <2>8
    <2>10. QED
        BY <2>1, <2>4, <2>9 DEF LateSafely, Safe, Behind, SafeNext
<1>3. QED
    BY <1>1, <1>2

(* A run goes on with the batch it holds, or lets go of it. *)
KeepsBatch(l, r) ==
    l \in holders => Fits(r) /\ (r.pc \in Sending => run[l].pc \in Sending)

(* Then what is known of the batch stays. *)
LEMMA BatchStays ==
    ASSUME HoldersFit, HeldBatchStays, holders \subseteq Lane, run \in [Lane -> Run],
           NEW l \in Lane, NEW r, Moves(l, r), KeepsBatch(l, r), UNCHANGED batchVars
    PROVE  HoldersFit' /\ HeldBatchStays'
<1>1. /\ run'[l] = r /\ \A k \in Lane : k # l => run'[k] = run[k]
      /\ UNCHANGED <<holders, outbox, torn>>
    BY DEF Moves, Goes, batchVars
<1>2. HoldersFit'
    BY <1>1 DEF HoldersFit, KeepsBatch, Fits
<1>3. HeldBatchStays'
    BY <1>1 DEF HeldBatchStays, KeepsBatch, Sending
<1>4. QED
    BY <1>2, <1>3

(* A step that leaves this host's monitor and the channels alone rests only
   runs that were paused before, or while the host is restricted. *)
LEMMA WakeStays ==
    ASSUME PausesWake, run \in [Lane -> Run], NEW l \in Lane, NEW r, Moves(l, r),
           UNCHANGED wake, mon'[Self] = mon[Self],
           Pausing(r) => Pausing(run[l]) \/ ~Unrestricted(mon[Self])
    PROVE  PausesWake'
<1>1. run'[l] = r /\ \A k \in Lane : k # l => run'[k] = run[k]
    BY DEF Moves, Goes
<1>2. ASSUME NEW k \in Lane, Pausing(run'[k]), Unrestricted(mon'[Self])
      PROVE  wake'[k]
    <2>1. Pausing(run[k])
        BY <1>1, <1>2
    <2>2. wake[k]
        BY <1>2, <2>1 DEF PausesWake
    <2>3. QED
        BY <2>2
<1>3. QED
    BY <1>2, Zenon DEF PausesWake, Pausing, Unrestricted

(* A step that looks at this host's monitor closes the channels when it changes,
   and rests a run for it only while it is restricted. *)
LEMMA WakeCloses ==
    ASSUME PausesWake, run \in [Lane -> Run], NEW l \in Lane, NEW r, Moves(l, r),
           \/ wake' = [k \in Lane |-> k # l /\ Closed(k)]
           \/ wake' = [k \in Lane |-> Closed(k)],
           Pausing(r) => ~Unrestricted(mon'[Self])
    PROVE  PausesWake' /\ wake' \in [Lane -> BOOLEAN]
<1>1. run'[l] = r /\ \A k \in Lane : k # l => run'[k] = run[k]
    BY DEF Moves, Goes
<1>2. ASSUME NEW k \in Lane, Pausing(run'[k]), Unrestricted(mon'[Self])
      PROVE  wake'[k]
    <2>1. k # l /\ Pausing(run[k])
        BY <1>1, <1>2
    <2>2. mon'[Self] = mon[Self] => wake[k]
        BY <1>2, <2>1 DEF PausesWake
    <2>3. Closed(k)
        BY <2>2 DEF Closed
    <2>4. QED
        BY <2>1, <2>3
<1>3. wake' \in [Lane -> BOOLEAN]
    <2>1. \A k \in Lane : Closed(k) \in BOOLEAN
        BY DEF Closed
    <2>2. QED
        BY <2>1, Zenon
<1>4. QED
    BY <1>2, <1>3, Zenon DEF PausesWake, Pausing, Unrestricted

(* The rests of a run. *)
LEMMA PauseFacts ==
    ASSUME NEW local, NEW r
    PROVE  /\ PauseFor(local, r) \in Rests
           /\ PauseFor(local, r) = "pausedLocal" => ~Unrestricted(local)
BY DEF PauseFor, Rests

(* A run without a batch rests at once. *)
LEMMA NoRunFacts ==
    ASSUME NEW pc \in Rests \cup {"probe"}
    PROVE  LET r == [NoRun EXCEPT !.pc = pc]
           IN  r \in Run /\ r.pc = pc /\ r.cut = {}
BY DEF NoRun, Run, Stages, Rests

(* A run with one lets go of it first. *)
LEMMA RestedFacts ==
    ASSUME NEW l \in Lane, run[l] \in Run, HoldersFit, NEW rest \in Rests
    PROVE  LET r == Rested(l, rest)
           IN  /\ r \in Run /\ Continues(l, r) /\ KeepsBatch(l, r)
               /\ Pausing(r) => rest = "pausedLocal"
<1>1. CASE l \notin holders
    <2>1. Rested(l, rest) = [NoRun EXCEPT !.pc = rest]
        BY <1>1 DEF Rested
    <2>2. QED
        BY <1>1, <2>1, NoRunFacts DEF Continues, KeepsBatch, Pausing, Rests
<1>2. CASE l \in holders
    <2> DEFINE r == [run[l] EXCEPT !.pc = "release", !.then = rest]
    <2>1. Rested(l, rest) = r
        BY <1>2 DEF Rested
    <2>2. /\ r \in Run /\ r.pc = "release" /\ r.then = rest /\ r.local = run[l].local
          /\ r.peer = run[l].peer /\ r.session = run[l].session /\ r.cut = run[l].cut
        BY DEF Run
    <2>3. run[l].pc \in Active
        BY <1>2 DEF HoldersFit, Fits, Sending, Active
    <2> HIDE DEF r
    <2>4. QED
        BY <2>1, <2>2, <2>3 DEF Continues, KeepsBatch, Fits, Sending, Pausing, Active
<1>3. QED
    BY <1>1, <1>2

-----------------------------------------------------------------------------
(***************************************************************************)
(* The steps of a lane that leave the batch alone.                          *)
(***************************************************************************)
(* What the receivers keep, and the calls on their way. *)
PeersFit ==
    /\ staged \in [Lane -> SUBSET Part] /\ stored \in [Lane -> BOOLEAN]
    /\ applied \in [Lane -> BOOLEAN] /\ late \subseteq Request /\ LateSafely

(* What the channels are worth. *)
WakesFit == wake \in [Lane -> BOOLEAN] /\ PausesWake

(* A run is replaced by a safe one that goes on with the batch it holds. *)
LEMMA LaneStays ==
    ASSUME IndInv, NEW h \in Host, Looks(h), NEW l \in Lane, NEW r, Moves(l, r),
           RunSafeNext(l, r), KeepsBatch(l, r), UNCHANGED batchVars, PeersFit', WakesFit'
    PROVE  IndInv'
<1>1. NetTypeOK' /\ NetInv'
    BY LookNet DEF IndInv, TypeOK
<1>2. run' \in [Lane -> Run] /\ AdmittedSafely'
    BY RunsSafe DEF IndInv, TypeOK
<1>3. HoldersFit' /\ HeldBatchStays'
    BY BatchStays DEF IndInv, TypeOK
<1>4. /\ holders' \subseteq Lane /\ {committed', outbox', torn'} \subseteq BOOLEAN
      /\ drops' \in 0..MaxLate
    BY DEF IndInv, TypeOK, batchVars
<1>5. QED
    BY <1>1, <1>2, <1>3, <1>4 DEF IndInv, TypeOK, PeersFit, WakesFit

(* What the receivers keep is typed after a step that leaves it alone. *)
LEMMA PeersStay ==
    ASSUME IndInv, NEW h \in Host, Looks(h), UNCHANGED <<staged, stored, applied>>,
           late' \subseteq late \/ \E l \in Lane : MayOutlive(l)
    PROVE  PeersFit'
<1>1. late' \subseteq Request /\ LateSafely'
    BY LateStays, LateGrows DEF IndInv, TypeOK
<1>2. QED
    BY <1>1 DEF IndInv, TypeOK, PeersFit

(* Current, by a lane or in a handler: a look at one monitor. *)
LEMMA LookAt ==
    ASSUME NetTypeOK, NEW h \in Host, mon' = [mon EXCEPT ![h] = Refreshed(h)],
           UNCHANGED netRest, UNCHANGED events \/ Happens
    PROVE  Looks(h) /\ mon'[h] = Refreshed(h)
<1>1. events' \in 0..MaxEvents /\ events' \in {events, events + 1}
    BY NetAssumption DEF NetTypeOK, Happens
<1>2. QED
    BY <1>1 DEF Looks, Refreshes, Refreshed, NetTypeOK

(* A lane rests, having looked at this host's monitor, at its peer's, or at none. *)
LEMMA RestsWell ==
    ASSUME IndInv, NEW h \in Host, Looks(h), NEW l \in Lane, NEW rest \in Rests,
           Goes(l, Rested(l, rest)), UNCHANGED batchVars, PeersFit',
           \/ /\ UNCHANGED wake /\ mon'[Self] = mon[Self]
              /\ rest = "pausedLocal" => ~Unrestricted(mon[Self])
           \/ /\ \/ wake' = [k \in Lane |-> k # l /\ Closed(k)]
                 \/ wake' = [k \in Lane |-> Closed(k)]
              /\ rest = "pausedLocal" => ~Unrestricted(mon'[Self])
    PROVE  IndInv'
<1> DEFINE r == Rested(l, rest)
<1>1. run[l] \in Run /\ run \in [Lane -> Run]
    BY DEF IndInv, TypeOK
<1>2. /\ r \in Run /\ Continues(l, r) /\ KeepsBatch(l, r) /\ Goes(l, r)
      /\ Pausing(r) => rest = "pausedLocal"
    BY <1>1, RestedFacts DEF IndInv
<1> HIDE DEF r
<1>3. Moves(l, r)
    BY <1>2 DEF Moves
<1>4. RunSafeNext(l, r)
    BY <1>1, <1>2, ContinuesSafely DEF IndInv, TypeOK
<1>5. WakesFit'
    <2>1. PausesWake /\ wake \in [Lane -> BOOLEAN]
        BY DEF IndInv, TypeOK
    <2>2. CASE /\ UNCHANGED wake /\ mon'[Self] = mon[Self]
               /\ rest = "pausedLocal" => ~Unrestricted(mon[Self])
        BY <1>1, <1>2, <1>3, <2>1, <2>2, WakeStays DEF WakesFit
    <2>3. CASE /\ \/ wake' = [k \in Lane |-> k # l /\ Closed(k)]
                  \/ wake' = [k \in Lane |-> Closed(k)]
               /\ rest = "pausedLocal" => ~Unrestricted(mon'[Self])
        BY <1>1, <1>2, <1>3, <2>1, <2>3, WakeCloses DEF WakesFit
    <2>4. QED
        BY <2>2, <2>3
<1>6. QED
    BY <1>2, <1>3, <1>4, <1>5, LaneStays

(* A lane goes on, having looked at its peer's monitor or at none. *)
LEMMA GoesOn ==
    ASSUME IndInv, NEW h \in Host, Looks(h), NEW l \in Lane, NEW r, Moves(l, r),
           RunSafeNext(l, r), KeepsBatch(l, r), UNCHANGED batchVars, PeersFit', ~Pausing(r),
           \/ UNCHANGED wake /\ mon'[Self] = mon[Self]
           \/ wake' = [k \in Lane |-> k # l /\ Closed(k)]
    PROVE  IndInv'
<1>1. PausesWake /\ wake \in [Lane -> BOOLEAN] /\ run \in [Lane -> Run]
    BY DEF IndInv, TypeOK
<1>2. WakesFit'
    BY <1>1, WakeStays, WakeCloses DEF WakesFit
<1>3. QED
    BY <1>2, LaneStays

(* work, for a resting lane. *)
LEMMA DueStep ==
    ASSUME IndInv, NEW l \in Lane, Due(l)
    PROVE  IndInv'
<1> DEFINE r == [NoRun EXCEPT !.pc = "probe"]
<1>1. r \in Run /\ r.pc = "probe" /\ r.cut = {}
    BY NoRunFacts
<1>2. Goes(l, r) /\ run[l].pc \in Rests /\ UNCHANGED <<netVars, wake, batchVars, peerVars>>
    BY DEF Due
<1> HIDE DEF r
<1>3. Looks(Self) /\ Self \in Host
    BY <1>2, Hosts DEF Looks, netVars, netRest, IndInv, TypeOK, NetTypeOK
<1>4. RunSafeNext(l, r) /\ ~Pausing(r)
    BY <1>1 DEF RunSafeNext, Active, Pausing
<1>5. l \notin holders
    BY <1>2 DEF IndInv, HoldersFit, Fits, Sending, Rests
<1>6. PeersFit'
    BY <1>2, <1>3, PeersStay DEF peerVars
<1>7. QED
    BY <1>1, <1>2, <1>3, <1>4, <1>5, <1>6, GoesOn DEF Moves, KeepsBatch, netVars

(* gate, the peer's state. *)
LEMMA ProbeStep ==
    ASSUME IndInv, NEW l \in Lane, Probe(l)
    PROVE  IndInv'
<1> DEFINE clear == Unrestricted(Refreshed(l))
           epoch == Refreshed(l).epoch
           r == [run[l] EXCEPT !.pc = "gate", !.session = TRUE, !.seen = SeenBy(l)]
<1>1. /\ Goes(l, r) /\ run[l].pc = "probe" /\ mon' = [mon EXCEPT ![l] = Refreshed(l)]
      /\ UNCHANGED <<netRest, events, wake, batchVars, peerVars>>
    BY DEF Probe, At
<1>2. NetTypeOK /\ NetInv /\ run[l] \in Run /\ RunSafe(l, run[l]) /\ l \in Host /\ l # Self
    BY Hosts DEF IndInv, TypeOK, AdmittedSafely
<1>3. Looks(l) /\ mon'[l] = Refreshed(l)
    BY <1>1, <1>2, LookAt
<1>4. /\ mon'[Self] = mon[Self] /\ mon'[l].clear = mon[l].clear /\ mon'[l].epoch \in Nat
    <2>1. NetTypeOK' /\ mon'[Self] = mon[Self] /\ mon'[l].clear = mon[l].clear
        BY <1>2, <1>3, LookNet, Hosts
    <2>2. mon'[l] \in Monitor
        BY <1>2, <2>1 DEF NetTypeOK
    <2>3. QED
        BY <2>1, <2>2 DEF Monitor
<1>5. clear \in BOOLEAN /\ epoch \in Nat /\ SeenBy(l) = [clear |-> clear, epoch |-> epoch]
    BY <1>3, <1>4, Zenon DEF SeenBy, Unrestricted
<1>6. /\ clear => mon'[l].clear /\ Unrestricted(mon'[l])
      /\ epoch = mon'[l].epoch
    BY <1>3 DEF Unrestricted
<1> HIDE DEF clear, epoch
<1>s. /\ SeenBy(l) \in [clear: BOOLEAN, epoch: Nat]
      /\ SeenBy(l).clear = clear /\ SeenBy(l).epoch = epoch
    BY <1>5
<1>7. /\ r \in Run /\ r.pc = "gate" /\ r.cut = run[l].cut
      /\ r.seen.clear = clear /\ r.seen.epoch = epoch
    <2>1. r \in Run
        BY <1>2, <1>s DEF Run
    <2>2. r.pc = "gate" /\ r.cut = run[l].cut /\ r.seen = SeenBy(l)
        BY <1>2 DEF Run
    <2>3. QED
        BY <1>s, <2>1, <2>2
<1> HIDE DEF r
<1>8. clear => "peer" \notin run[l].cut
    BY <1>1, <1>2, <1>4, <1>6 DEF RunSafe
<1>9. RunSafeNext(l, r) /\ ~Pausing(r)
    BY <1>6, <1>7, <1>8 DEF RunSafeNext, SafeNext, Active, Pausing
<1>10. l \notin holders
    BY <1>1 DEF IndInv, HoldersFit, Fits, Sending
<1>11. PeersFit'
    BY <1>1, <1>2, <1>3, PeersStay DEF peerVars
<1>12. QED
    BY <1>1, <1>2, <1>3, <1>4, <1>7, <1>9, <1>10, <1>11, GoesOn DEF Moves, KeepsBatch

(* admit, the peer's state again. *)
LEMMA ReprobeStep ==
    ASSUME IndInv, NEW l \in Lane, Reprobe(l)
    PROVE  IndInv'
<1> DEFINE clear == Unrestricted(Refreshed(l))
           epoch == Refreshed(l).epoch
           r == [run[l] EXCEPT !.seen = SeenBy(l)]
<1>1. /\ Goes(l, r) /\ run[l].pc = "admit" /\ mon' = [mon EXCEPT ![l] = Refreshed(l)]
      /\ UNCHANGED <<netRest, events, wake, batchVars, peerVars>>
    BY DEF Reprobe, At
<1>2. NetTypeOK /\ NetInv /\ run[l] \in Run /\ l \in Host /\ l # Self
    BY Hosts DEF IndInv, TypeOK
<1>3. Looks(l) /\ mon'[l] = Refreshed(l)
    BY <1>1, <1>2, LookAt
<1>4. mon'[Self] = mon[Self] /\ mon'[l].epoch \in Nat
    <2>1. NetTypeOK' /\ mon'[Self] = mon[Self]
        BY <1>2, <1>3, LookNet, Hosts
    <2>2. mon'[l] \in Monitor
        BY <1>2, <2>1 DEF NetTypeOK
    <2>3. QED
        BY <2>1, <2>2 DEF Monitor
<1>5. clear \in BOOLEAN /\ epoch \in Nat /\ SeenBy(l) = [clear |-> clear, epoch |-> epoch]
    BY <1>3, <1>4, Zenon DEF SeenBy, Unrestricted
<1> HIDE DEF clear, epoch
<1>6. /\ r \in Run /\ r.pc = "admit" /\ r.cut = run[l].cut /\ r.session = run[l].session
      /\ r.local = run[l].local /\ r.peer = run[l].peer /\ r.stage = run[l].stage
    BY <1>1, <1>2, <1>5 DEF Run
<1> HIDE DEF r
<1>7. Continues(l, r) /\ KeepsBatch(l, r) /\ ~Pausing(r)
    BY <1>1, <1>6 DEF Continues, KeepsBatch, IndInv, HoldersFit, Fits, Sending, Active, Pausing
<1>8. RunSafeNext(l, r)
    BY <1>2, <1>3, <1>6, <1>7, ContinuesSafely DEF IndInv
<1>9. PeersFit'
    BY <1>1, <1>2, <1>3, PeersStay DEF peerVars
<1>10. QED
    BY <1>1, <1>2, <1>3, <1>4, <1>6, <1>7, <1>8, <1>9, GoesOn DEF Moves

(* Current on this host, by a lane. *)
LEMMA ObserveFacts ==
    ASSUME NetTypeOK, NetInv, NEW l \in Lane, ObserveLocal(l), UNCHANGED netRest,
           UNCHANGED events \/ Happens
    PROVE  /\ Self \in Host /\ Looks(Self) /\ mon'[Self] = Refreshed(Self)
           /\ mon'[Self].epoch \in Nat /\ mon'[l] = mon[l]
           /\ wake' = [k \in Lane |-> k # l /\ Closed(k)]
<1>1. /\ mon' = [mon EXCEPT ![Self] = Refreshed(Self)]
      /\ wake' = [k \in Lane |-> k # l /\ Closed(k)]
    BY DEF ObserveLocal
<1>2. Self \in Host /\ l \in Host /\ l # Self
    BY Hosts
<1>3. Looks(Self) /\ mon'[Self] = Refreshed(Self)
    BY <1>1, <1>2, LookAt
<1>4. NetTypeOK' /\ mon'[l] = mon[l]
    BY <1>2, <1>3, LookNet
<1>5. mon'[Self].epoch \in Nat
    BY <1>2, <1>4 DEF NetTypeOK, Monitor
<1>6. QED
    BY <1>1, <1>2, <1>3, <1>4, <1>5

(* gate, the admission. *)
LEMMA GateStep ==
    ASSUME IndInv, NEW l \in Lane, Gate(l)
    PROVE  IndInv'
<1> DEFINE local == Refreshed(Self)
           r == [run[l] EXCEPT !.local = local.epoch, !.peer = run[l].seen.epoch,
                               !.cut = @ \ {"local"}]
           a == [r EXCEPT !.pc = "admit"]
           p == PauseFor(local, r)
           n == [NoRun EXCEPT !.pc = p]
<1>1. /\ run[l].pc = "gate" /\ UNCHANGED <<batchVars, peerVars>>
      /\ Goes(l, IF Unrestricted(local) /\ r.seen.clear THEN a ELSE n)
    BY DEF Gate, At
<1>2. NetTypeOK /\ NetInv /\ run[l] \in Run /\ l \in Host
    BY Hosts DEF IndInv, TypeOK
<1>3. /\ Self \in Host /\ Looks(Self) /\ mon'[Self] = local
      /\ local.epoch \in Nat /\ mon'[l] = mon[l]
      /\ wake' = [k \in Lane |-> k # l /\ Closed(k)]
    BY <1>2, ObserveFacts DEF Gate
<1>4. l \notin holders
    BY <1>1 DEF IndInv, HoldersFit, Fits, Sending
<1>5. PeersFit'
    BY <1>1, <1>3, PeersStay DEF peerVars
<1>6. p \in Rests /\ (p = "pausedLocal" => ~Unrestricted(local))
    BY PauseFacts
<1>7. /\ r \in Run /\ r.local = local.epoch /\ r.peer = run[l].seen.epoch
      /\ r.cut = run[l].cut \ {"local"} /\ r.session = run[l].session /\ r.seen = run[l].seen
    BY <1>2, <1>3 DEF Run
<1>8. RunSafeNext(l, run[l])
    BY <1>2, <1>3, RunStays DEF IndInv, AdmittedSafely
<1> HIDE DEF local, r, p
<1>9. CASE Unrestricted(local) /\ r.seen.clear
    <2>1. /\ a \in Run /\ a.pc = "admit" /\ a.local = local.epoch
          /\ a.peer = run[l].seen.epoch /\ a.cut = run[l].cut \ {"local"}
          /\ a.session = run[l].session
        BY <1>7 DEF Run
    <2>2. Goes(l, a)
        BY <1>1, <1>9
    <2> HIDE DEF a
    <2>3. a.session => SafeNext(l, a.peer, "peer" \in a.cut)
        BY <1>1, <1>7, <1>8, <1>9, <2>1 DEF RunSafeNext
    <2>4. SafeNext(Self, a.local, "local" \in a.cut)
        BY <1>3, <1>9, <2>1 DEF SafeNext
    <2>5. RunSafeNext(l, a) /\ ~Pausing(a)
        BY <2>1, <2>3, <2>4 DEF RunSafeNext, Pausing
    <2>6. QED
        BY <1>1, <1>3, <1>4, <1>5, <2>1, <2>2, <2>5, GoesOn DEF Moves, KeepsBatch
<1>10. CASE ~(Unrestricted(local) /\ r.seen.clear)
    <2>1. Goes(l, Rested(l, p))
        BY <1>1, <1>4, <1>10 DEF Rested
    <2>2. QED
        BY <1>1, <1>3, <1>5, <1>6, <2>1, RestsWell
<1>11. QED
    BY <1>9, <1>10

(* A run goes on to its next call, or to what comes before it. *)
LEMMA AdmitStep ==
    ASSUME IndInv, NEW l \in Lane, Admit(l)
    PROVE  IndInv'
<1> DEFINE r == [run[l] EXCEPT !.pc = "call"]
<1>1. Goes(l, r) /\ run[l].pc = "admit" /\ UNCHANGED <<batchVars, peerVars>>
    BY DEF Admit, At
<1>2. NetTypeOK /\ NetInv /\ run[l] \in Run
    BY DEF IndInv, TypeOK
<1>3. /\ Self \in Host /\ Looks(Self) /\ wake' = [k \in Lane |-> k # l /\ Closed(k)]
    BY <1>2, ObserveFacts DEF Admit
<1>4. /\ r \in Run /\ r.pc = "call" /\ r.cut = run[l].cut /\ r.session = run[l].session
      /\ r.local = run[l].local /\ r.peer = run[l].peer /\ r.stage = run[l].stage
    BY <1>2 DEF Run
<1> HIDE DEF r
<1>5. Continues(l, r) /\ KeepsBatch(l, r) /\ ~Pausing(r)
    BY <1>1, <1>4 DEF Continues, KeepsBatch, IndInv, HoldersFit, Fits, Sending, Active, Pausing
<1>6. RunSafeNext(l, r)
    BY <1>2, <1>3, <1>4, <1>5, ContinuesSafely DEF IndInv
<1>7. PeersFit'
    BY <1>1, <1>3, PeersStay DEF peerVars
<1>8. QED
    BY <1>1, <1>3, <1>4, <1>5, <1>6, <1>7, GoesOn DEF Moves

(* admit, what it finds restricted. *)
LEMMA AdmitPausesStep ==
    ASSUME IndInv, NEW l \in Lane, AdmitPauses(l)
    PROVE  IndInv'
<1> DEFINE p == PauseFor(Refreshed(Self), run[l])
<1>1. Goes(l, Rested(l, p)) /\ UNCHANGED <<batchVars, peerVars>>
    BY DEF AdmitPauses
<1>2. NetTypeOK /\ NetInv
    BY DEF IndInv, TypeOK
<1>3. /\ Self \in Host /\ Looks(Self) /\ mon'[Self] = Refreshed(Self)
      /\ wake' = [k \in Lane |-> k # l /\ Closed(k)]
    BY <1>2, ObserveFacts DEF AdmitPauses
<1>4. p \in Rests /\ (p = "pausedLocal" => ~Unrestricted(mon'[Self]))
    BY <1>3, PauseFacts
<1> HIDE DEF p
<1>5. PeersFit'
    BY <1>1, <1>3, PeersStay DEF peerVars
<1>6. QED
    BY <1>1, <1>3, <1>4, <1>5, RestsWell

(* unreachable. *)
LEMMA ProbeFailsStep ==
    ASSUME IndInv, NEW l \in Lane, ProbeFails(l)
    PROVE  IndInv'
<1> DEFINE p == IF Unrestricted(Refreshed(Self)) THEN "paused" ELSE "pausedLocal"
<1>1. /\ Goes(l, Rested(l, p)) /\ UNCHANGED <<batchVars, peerVars>>
      /\ UNCHANGED events \/ Happens
    BY DEF ProbeFails, Fails
<1>2. NetTypeOK /\ NetInv
    BY DEF IndInv, TypeOK
<1>3. /\ Self \in Host /\ Looks(Self) /\ mon'[Self] = Refreshed(Self)
      /\ wake' = [k \in Lane |-> k # l /\ Closed(k)]
    BY <1>1, <1>2, ObserveFacts DEF ProbeFails
<1>4. p \in Rests /\ (p = "pausedLocal" => ~Unrestricted(mon'[Self]))
    BY <1>3 DEF Rests
<1> HIDE DEF p
<1>5. PeersFit'
    BY <1>1, <1>3, PeersStay DEF peerVars
<1>6. QED
    BY <1>1, <1>3, <1>4, <1>5, RestsWell

(* watchLocal. *)
LEMMA WatchLocalStep ==
    ASSUME IndInv, NEW l \in Lane, WatchLocal(l)
    PROVE  IndInv'
<1> DEFINE p == PauseFor(Refreshed(Self), run[l])
<1>1. /\ Goes(l, Rested(l, p)) /\ UNCHANGED <<netRest, events, batchVars>>
      /\ UNCHANGED <<staged, stored, applied>> /\ MayOutlive(l)
      /\ mon' = [mon EXCEPT ![Self] = Refreshed(Self)]
      /\ wake' = [k \in Lane |-> Closed(k)]
    BY DEF WatchLocal
<1>2. NetTypeOK /\ Self \in Host
    BY Hosts DEF IndInv, TypeOK
<1>3. Looks(Self) /\ mon'[Self] = Refreshed(Self)
    BY <1>1, <1>2, LookAt
<1>4. p \in Rests /\ (p = "pausedLocal" => ~Unrestricted(mon'[Self]))
    BY <1>3, PauseFacts
<1> HIDE DEF p
<1>5. PeersFit'
    BY <1>1, <1>2, <1>3, PeersStay
<1>6. QED
    BY <1>1, <1>2, <1>3, <1>4, <1>5, RestsWell

(* The receiver's refusal. *)
LEMMA ServeRefusesStep ==
    ASSUME IndInv, NEW l \in Lane, ServeRefuses(l)
    PROVE  IndInv'
<1> DEFINE p == IF Unrestricted(Refreshed(l)) THEN "restart" ELSE "paused"
<1>1. /\ Goes(l, Rested(l, p)) /\ UNCHANGED <<netRest, events, wake, batchVars, peerVars>>
      /\ mon' = [mon EXCEPT ![l] = Refreshed(l)]
    BY DEF ServeRefuses
<1>2. NetTypeOK /\ NetInv /\ l \in Host /\ l # Self /\ Self \in Host
    BY Hosts DEF IndInv, TypeOK
<1>3. Looks(l) /\ mon'[Self] = mon[Self]
    BY <1>1, <1>2, LookAt, LookNet
<1>4. p \in Rests /\ p # "pausedLocal"
    BY DEF Rests
<1> HIDE DEF p
<1>5. PeersFit'
    BY <1>1, <1>2, <1>3, PeersStay DEF peerVars
<1>6. QED
    BY <1>1, <1>2, <1>3, <1>4, <1>5, RestsWell

(* A step that looks at no monitor. *)
LEMMA NoLook ==
    ASSUME NetTypeOK, UNCHANGED <<netRest, mon>>, UNCHANGED events \/ Happens
    PROVE  Self \in Host /\ Looks(Self) /\ mon'[Self] = mon[Self]
BY Hosts, NetAssumption DEF NetTypeOK, Happens, Looks

(* A call to the peer or to the store fails. *)
LEMMA CallFailsStep ==
    ASSUME IndInv, NEW l \in Lane, CallFails(l)
    PROVE  IndInv'
<1>1. /\ Goes(l, Rested(l, "backoff")) /\ UNCHANGED <<netRest, mon, wake, batchVars>>
      /\ UNCHANGED <<staged, stored, applied>> /\ MayOutlive(l)
      /\ UNCHANGED events \/ Happens
    BY DEF CallFails, Fails, MayOutlive
<1>2. Self \in Host /\ Looks(Self) /\ mon'[Self] = mon[Self]
    BY <1>1, NoLook DEF IndInv, TypeOK
<1>3. PeersFit'
    BY <1>1, <1>2, PeersStay
<1>4. "backoff" \in Rests /\ "backoff" # "pausedLocal"
    BY DEF Rests
<1>5. QED
    BY <1>1, <1>2, <1>3, <1>4, RestsWell

(* BatchRead. *)
LEMMA ReadPartStep ==
    ASSUME IndInv, NEW l \in Lane, ReadPart(l)
    PROVE  IndInv'
<1> DEFINE r == [run[l] EXCEPT !.pc = "admit"]
<1>1. /\ Goes(l, IF outbox THEN r ELSE Rested(l, "backoff")) /\ run[l].pc = "read"
      /\ UNCHANGED <<netVars, wake, batchVars, peerVars>>
    BY DEF ReadPart, At
<1>2. Self \in Host /\ Looks(Self) /\ mon'[Self] = mon[Self]
    BY <1>1, NoLook DEF IndInv, TypeOK, netVars, netRest
<1>3. PeersFit'
    BY <1>1, <1>2, PeersStay DEF peerVars
<1>4. CASE ~outbox
    <2>1. "backoff" \in Rests /\ "backoff" # "pausedLocal"
        BY DEF Rests
    <2>2. Goes(l, Rested(l, "backoff"))
        BY <1>1, <1>4
    <2>3. QED
        BY <1>1, <1>2, <1>3, <2>1, <2>2, RestsWell
<1>5. CASE outbox
    <2>1. NetTypeOK /\ NetInv /\ run[l] \in Run /\ Goes(l, r)
        BY <1>1, <1>5 DEF IndInv, TypeOK
    <2>2. /\ r \in Run /\ r.pc = "admit" /\ r.cut = run[l].cut /\ r.session = run[l].session
          /\ r.local = run[l].local /\ r.peer = run[l].peer /\ r.stage = run[l].stage
        BY <2>1 DEF Run
    <2> HIDE DEF r
    <2>3. Continues(l, r) /\ KeepsBatch(l, r) /\ ~Pausing(r)
        BY <1>1, <2>2 DEF Continues, KeepsBatch, IndInv, HoldersFit, Fits, Sending, Active, Pausing
    <2>4. RunSafeNext(l, r)
        BY <1>2, <2>1, <2>2, <2>3, ContinuesSafely DEF IndInv
    <2>5. QED
        BY <1>1, <1>2, <1>3, <2>1, <2>2, <2>3, <2>4, GoesOn DEF Moves
<1>6. QED
    BY <1>4, <1>5

(* The receivers keep parts of the batch. *)
LEMMA EffectTyped ==
    ASSUME TypeOK, NEW l \in Lane, NEW stage, NEW part \in SUBSET Part, Effect(l, stage, part)
    PROVE  /\ staged' \in [Lane -> SUBSET Part] /\ stored' \in [Lane -> BOOLEAN]
           /\ applied' \in [Lane -> BOOLEAN]
<1>1. /\ staged \in [Lane -> SUBSET Part] /\ stored \in [Lane -> BOOLEAN]
      /\ applied \in [Lane -> BOOLEAN]
    BY DEF TypeOK
<1>2. staged' \in [Lane -> SUBSET Part]
    BY <1>1 DEF Effect
<1>3. stored' \in [Lane -> BOOLEAN]
    <2> DEFINE b == stored[l] \/ (stage = "commit" /\ staged[l] = Part)
    <2>1. b \in BOOLEAN /\ stored' = [stored EXCEPT ![l] = b]
        BY DEF Effect
    <2> HIDE DEF b
    <2>2. QED
        BY <1>1, <2>1
<1>4. applied' \in [Lane -> BOOLEAN]
    <2> DEFINE b == applied[l] \/ stage = "apply"
    <2>1. b \in BOOLEAN /\ applied' = [applied EXCEPT ![l] = b]
        BY DEF Effect
    <2> HIDE DEF b
    <2>2. QED
        BY <1>1, <2>1
<1>5. QED
    BY <1>2, <1>3, <1>4

(* The state a peer is observed in. *)
LEMMA SeenTyped ==
    ASSUME NetTypeOK, NEW l \in Lane
    PROVE  SeenBy(l) \in [clear: BOOLEAN, epoch: Nat]
<1> DEFINE clear == Unrestricted(Refreshed(l))
           epoch == Refreshed(l).epoch
<1>1. l \in Host /\ file[l].stamp \in 0..MaxEvents
    BY NetTyped, Hosts
<1>2. Refreshed(l) \in Monitor
    BY <1>1, RefreshFacts DEF Refreshed
<1>3. clear \in BOOLEAN /\ SeenBy(l) = [clear |-> clear, epoch |-> epoch]
    BY Zenon DEF SeenBy, Unrestricted
<1>4. epoch \in Nat
    BY <1>2 DEF Monitor
<1> HIDE DEF clear, epoch
<1>5. QED
    BY <1>3, <1>4

(* A run after a call that was taken goes on under the same admission, with the
   batch it holds. *)
LEMMA AfterFacts ==
    ASSUME TypeOK, HoldersFit, NEW l \in Lane, run[l].pc = "call"
    PROVE  After(l) \in Run /\ Continues(l, After(l)) /\ KeepsBatch(l, After(l)) /\ ~Pausing(After(l))
<1> DEFINE c == run[l]
           r == [c EXCEPT !.pc = "admit"]
           left == IF c.stage = "put" THEN c.left \ Next1(c.left)
                   ELSE IF stored[l] THEN {} ELSE Part \ staged[l]
           seen == [r EXCEPT !.seen = SeenBy(l), !.left = left]
<1>1. /\ c \in Run /\ c.stage \in Stages /\ c.left \subseteq Part /\ c.pc = "call"
      /\ l \in holders => c.stage \in {"begin", "put", "commit"}
    BY DEF TypeOK, Run, HoldersFit, Fits
<1>2. left \in SUBSET Part
    BY <1>1
<1>3. SeenBy(l) \in [clear: BOOLEAN, epoch: Nat]
    BY SeenTyped DEF TypeOK
<1>4. /\ r \in Run /\ r.pc = "admit" /\ r.cut = c.cut /\ r.session = c.session
      /\ r.local = c.local /\ r.peer = c.peer /\ r.stage = c.stage /\ r.left = c.left
    BY <1>1 DEF Run
<1>5. CASE c.stage = "have"
    <2> DEFINE a == [r EXCEPT !.stage = "apply"]
               b == [r EXCEPT !.pc = "hold"]
    <2>1. After(l) = IF stored[l] THEN a ELSE b
        BY <1>4, <1>5 DEF After
    <2>2. /\ a \in Run /\ a.pc = "admit" /\ a.cut = c.cut /\ a.session = c.session
          /\ a.local = c.local /\ a.peer = c.peer
        BY <1>4 DEF Run, Stages
    <2>3. /\ b \in Run /\ b.pc = "hold" /\ b.cut = c.cut /\ b.session = c.session
          /\ b.local = c.local /\ b.peer = c.peer
        BY <1>4 DEF Run
    <2>4. l \notin holders
        BY <1>1, <1>5
    <2> HIDE DEF a, b, r
    <2>5. QED
        BY <1>1, <2>1, <2>2, <2>3, <2>4 DEF Continues, KeepsBatch, Active, Pausing
<1>6. CASE c.stage \in {"begin", "put"}
    <2> DEFINE a == [seen EXCEPT !.stage = "commit"]
               b == [seen EXCEPT !.stage = "put", !.pc = "read"]
    <2>1. /\ seen.left = left
          /\ After(l) = IF seen.left = {} THEN a ELSE b
        BY <1>4, <1>6 DEF After, Run
    <2> HIDE DEF left
    <2>2. /\ seen \in Run /\ seen.pc = "admit" /\ seen.cut = c.cut /\ seen.session = c.session
          /\ seen.local = c.local /\ seen.peer = c.peer
        BY <1>2, <1>3, <1>4 DEF Run
    <2> HIDE DEF seen
    <2>3. /\ a \in Run /\ a.pc = "admit" /\ a.cut = c.cut /\ a.session = c.session
          /\ a.local = c.local /\ a.peer = c.peer /\ a.stage = "commit"
        BY <2>2 DEF Run, Stages
    <2>4. /\ b \in Run /\ b.pc = "read" /\ b.cut = c.cut /\ b.session = c.session
          /\ b.local = c.local /\ b.peer = c.peer /\ b.stage = "put"
        BY <2>2 DEF Run, Stages
    <2> HIDE DEF a, b
    <2>5. QED
        BY <1>1, <2>1, <2>3, <2>4 DEF Continues, KeepsBatch, Fits, Sending, Active, Pausing
<1>7. CASE c.stage = "commit"
    <2> DEFINE a == [r EXCEPT !.pc = "release", !.then = "admit"]
    <2>1. After(l) = IF stored'[l] THEN a ELSE Rested(l, "backoff")
        BY <1>4, <1>7 DEF After
    <2>2. /\ a \in Run /\ a.pc = "release" /\ a.cut = c.cut /\ a.session = c.session
          /\ a.local = c.local /\ a.peer = c.peer /\ a.then = "admit"
        BY <1>4 DEF Run
    <2> HIDE DEF a, r
    <2>3. Continues(l, a) /\ KeepsBatch(l, a) /\ ~Pausing(a)
        BY <1>1, <2>2 DEF Continues, KeepsBatch, Fits, Sending, Active, Pausing
    <2>4. LET b == Rested(l, "backoff")
          IN  b \in Run /\ Continues(l, b) /\ KeepsBatch(l, b) /\ ~Pausing(b)
        <3>1. "backoff" \in Rests /\ "backoff" # "pausedLocal"
            BY DEF Rests
        <3>2. QED
            BY <1>1, <3>1, RestedFacts
    <2>5. QED
        BY <2>1, <2>2, <2>3, <2>4
<1>8. CASE c.stage = "apply"
    <2> DEFINE n == [NoRun EXCEPT !.pc = "idle"]
    <2>1. After(l) = n
        BY <1>4, <1>8 DEF After
    <2>2. "idle" \in Rests
        BY DEF Rests
    <2>3. n \in Run /\ n.pc = "idle"
        BY <2>2, NoRunFacts
    <2>4. l \notin holders
        BY <1>1, <1>8
    <2> HIDE DEF n
    <2>5. QED
        BY <2>1, <2>2, <2>3, <2>4 DEF Continues, KeepsBatch, Pausing
<1>9. QED
    BY <1>1, <1>5, <1>6, <1>7, <1>8 DEF Stages

(* A call that the receiver takes. *)
LEMMA ServeStep ==
    ASSUME IndInv, NEW l \in Lane, Serve(l)
    PROVE  IndInv'
<1> DEFINE r == After(l)
<1>1. /\ Goes(l, r) /\ run[l].pc = "call" /\ UNCHANGED <<netRest, events, wake, batchVars, late>>
      /\ mon' = [mon EXCEPT ![l] = Refreshed(l)] /\ Effect(l, run[l].stage, Next1(run[l].left))
    BY DEF Serve, At
<1>2. /\ NetTypeOK /\ NetInv /\ l \in Host /\ l # Self /\ Self \in Host /\ TypeOK
      /\ run[l] \in Run /\ run[l].left \in SUBSET Part
    BY Hosts DEF IndInv, TypeOK, Run
<1>3. Looks(l) /\ mon'[Self] = mon[Self]
    BY <1>1, <1>2, LookAt, LookNet
<1>4. Next1(run[l].left) \in SUBSET Part
    BY <1>2 DEF Next1
<1>5. PeersFit'
    BY <1>1, <1>2, <1>3, <1>4, EffectTyped, LateStays DEF PeersFit, IndInv, TypeOK
<1>6. r \in Run /\ Continues(l, r) /\ KeepsBatch(l, r) /\ ~Pausing(r)
    BY <1>1, <1>2, AfterFacts DEF IndInv
<1> HIDE DEF r
<1>7. RunSafeNext(l, r)
    BY <1>2, <1>3, <1>6, ContinuesSafely DEF IndInv
<1>8. QED
    BY <1>1, <1>2, <1>3, <1>5, <1>6, <1>7, GoesOn DEF Moves

(* A step that leaves the runs alone. *)
LEMMA RunsStay ==
    ASSUME IndInv, NEW h \in Host, Looks(h), UNCHANGED run
    PROVE  NetTypeOK' /\ NetInv' /\ AdmittedSafely'
<1>1. NetTypeOK' /\ NetInv'
    BY LookNet DEF IndInv, TypeOK
<1>2. ASSUME NEW l \in Lane
      PROVE  RunSafeNext(l, run'[l])
    <2>1. run[l] \in Run /\ RunSafe(l, run[l]) /\ NetTypeOK /\ NetInv
        BY DEF IndInv, TypeOK, AdmittedSafely
    <2>2. QED
        BY <2>1, RunStays
<1>3. AdmittedSafely'
    BY <1>2 DEF AdmittedSafely, RunSafe, Safe, Behind, RunSafeNext, SafeNext
<1>4. QED
    BY <1>1, <1>3

(* A late call that the receiver takes. *)
LEMMA LateServeStep ==
    ASSUME IndInv, NEW q \in late, LateServe(q)
    PROVE  IndInv'
<1>1. /\ UNCHANGED <<netRest, events, senderVars, batchVars>> /\ late' = late \ {q}
      /\ mon' = [mon EXCEPT ![q.lane] = Refreshed(q.lane)] /\ Effect(q.lane, q.stage, q.part)
    BY DEF LateServe
<1>2. /\ q.lane \in Lane /\ q.part \in SUBSET Part
    BY DEF IndInv, TypeOK, Request
<1>3. /\ NetTypeOK /\ NetInv /\ q.lane \in Host /\ q.lane # Self /\ Self \in Host /\ TypeOK
    BY <1>2, Hosts DEF IndInv, TypeOK
<1>4. Looks(q.lane) /\ mon'[Self] = mon[Self]
    BY <1>1, <1>3, LookAt, LookNet
<1>5. PeersFit'
    BY <1>1, <1>2, <1>3, <1>4, EffectTyped, LateStays DEF PeersFit, IndInv, TypeOK
<1>6. NetTypeOK' /\ NetInv' /\ AdmittedSafely'
    BY <1>1, <1>3, <1>4, RunsStay DEF senderVars
<1>7. HoldersFit' /\ HeldBatchStays'
    BY <1>1 DEF senderVars, batchVars, IndInv, HoldersFit, HeldBatchStays, Fits
<1>8. PausesWake'
    BY <1>1, <1>4, Zenon DEF senderVars, IndInv, PausesWake, Pausing, Unrestricted
<1>9. QED
    BY <1>1, <1>5, <1>6, <1>7, <1>8 DEF senderVars, batchVars, IndInv, TypeOK, PeersFit

-----------------------------------------------------------------------------
(***************************************************************************)
(* The steps that change the batch.                                        *)
(***************************************************************************)
BatchFits ==
    /\ holders \subseteq Lane /\ {committed, outbox, torn} \subseteq BOOLEAN
    /\ drops \in 0..MaxLate /\ HoldersFit /\ HeldBatchStays

(* A run goes on, and what is known of the batch stays. *)
LEMMA BatchMoves ==
    ASSUME IndInv, NEW l \in Lane, NEW r, Moves(l, r), Continues(l, r), BatchFits',
           UNCHANGED <<netRest, mon, wake, peerVars>>, UNCHANGED events \/ Happens,
           Pausing(r) => Pausing(run[l]) \/ ~Unrestricted(mon[Self])
    PROVE  IndInv'
<1>1. Self \in Host /\ Looks(Self) /\ mon'[Self] = mon[Self]
    BY NoLook DEF IndInv, TypeOK
<1>2. NetTypeOK' /\ NetInv'
    BY <1>1, LookNet DEF IndInv, TypeOK
<1>3. /\ PausesWake /\ wake \in [Lane -> BOOLEAN] /\ run \in [Lane -> Run] /\ run[l] \in Run
      /\ NetTypeOK /\ NetInv /\ AdmittedSafely /\ r \in Run
    BY DEF IndInv, TypeOK, Moves
<1>4. RunSafeNext(l, r)
    BY <1>1, <1>3, ContinuesSafely
<1>5. run' \in [Lane -> Run] /\ AdmittedSafely'
    BY <1>1, <1>3, <1>4, RunsSafe
<1>6. PausesWake'
    BY <1>1, <1>3, WakeStays
<1>7. PeersFit'
    BY <1>1, PeersStay DEF peerVars
<1>8. QED
    BY <1>2, <1>3, <1>5, <1>6, <1>7 DEF IndInv, TypeOK, PeersFit, BatchFits

(* hold. *)
LEMMA HoldBatchStep ==
    ASSUME IndInv, NEW l \in Lane, HoldBatch(l)
    PROVE  IndInv'
<1> DEFINE r == [run[l] EXCEPT !.pc = "build"]
<1>1. /\ Goes(l, r) /\ run[l].pc = "hold" /\ holders' = holders \cup {l}
      /\ UNCHANGED <<netVars, wake, committed, outbox, drops, torn, peerVars>>
    BY DEF HoldBatch, At
<1>2. run[l] \in Run /\ run \in [Lane -> Run]
    BY DEF IndInv, TypeOK
<1>3. /\ r \in Run /\ r.pc = "build" /\ r.cut = run[l].cut /\ r.session = run[l].session
      /\ r.local = run[l].local /\ r.peer = run[l].peer
    BY <1>2 DEF Run
<1> HIDE DEF r
<1>4. Moves(l, r) /\ Continues(l, r) /\ ~Pausing(r)
    BY <1>1, <1>3 DEF Moves, Continues, Active, Pausing
<1>5. run'[l] = r /\ \A k \in Lane : k # l => run'[k] = run[k]
    BY <1>1, <1>2 DEF Goes
<1>6. HoldersFit'
    BY <1>1, <1>3, <1>5 DEF IndInv, TypeOK, HoldersFit, Fits
<1>7. HeldBatchStays'
    BY <1>1, <1>3, <1>5 DEF IndInv, TypeOK, HeldBatchStays
<1>8. BatchFits'
    BY <1>1, <1>6, <1>7 DEF BatchFits, IndInv, TypeOK
<1>9. QED
    BY <1>1, <1>4, <1>8, BatchMoves DEF netVars, netRest

(* BatchBegin and the rest of a build. *)
LEMMA BuildBatchStep ==
    ASSUME IndInv, NEW l \in Lane, BuildBatch(l)
    PROVE  IndInv'
<1> DEFINE r == [run[l] EXCEPT !.pc = "admit", !.stage = "begin"]
<1>1. /\ Goes(l, r) /\ run[l].pc = "build" /\ outbox' = TRUE /\ torn' = FALSE
      /\ UNCHANGED <<netVars, wake, holders, committed, drops, peerVars>>
    BY DEF BuildBatch, At
<1>2. run[l] \in Run /\ run \in [Lane -> Run]
    BY DEF IndInv, TypeOK
<1>3. /\ r \in Run /\ r.pc = "admit" /\ r.cut = run[l].cut /\ r.session = run[l].session
      /\ r.local = run[l].local /\ r.peer = run[l].peer /\ r.stage = "begin"
    BY <1>2 DEF Run, Stages
<1> HIDE DEF r
<1>4. Moves(l, r) /\ Continues(l, r) /\ ~Pausing(r)
    BY <1>1, <1>3 DEF Moves, Continues, Active, Pausing
<1>5. run'[l] = r /\ \A k \in Lane : k # l => run'[k] = run[k]
    BY <1>1, <1>2 DEF Goes
<1>6. HoldersFit'
    BY <1>1, <1>3, <1>5 DEF IndInv, TypeOK, HoldersFit, Fits, Sending
<1>7. HeldBatchStays'
    BY <1>1 DEF HeldBatchStays
<1>8. BatchFits'
    BY <1>1, <1>6, <1>7 DEF BatchFits, IndInv, TypeOK
<1>9. QED
    BY <1>1, <1>4, <1>8, BatchMoves DEF netVars, netRest

(* releaseBatch. *)
LEMMA ReleaseBatchStep ==
    ASSUME IndInv, NEW l \in Lane, ReleaseBatch(l)
    PROVE  IndInv'
<1> DEFINE done == run[l].then = "admit"
           drop == DropsBatch(l, done)
           next == [run[l] EXCEPT !.pc = "admit", !.stage = "apply"]
           lost == IF ~done THEN run[l].then
                   ELSE IF Interrupted(mon[Self], run[l]) THEN PauseFor(mon[Self], run[l])
                   ELSE "backoff"
<1>1. /\ run[l].pc = "release" /\ holders' = holders \ {l}
      /\ committed' = (holders # {l} /\ (committed \/ done))
      /\ UNCHANGED <<netRest, mon, wake, torn, peerVars>>
    BY DEF ReleaseBatch, At
<1>2. \/ /\ outbox' = (outbox /\ ~drop)
         /\ Goes(l, IF done THEN next ELSE [NoRun EXCEPT !.pc = run[l].then])
         /\ UNCHANGED <<drops, events>>
      \/ /\ drop /\ Happens
         /\ Goes(l, [NoRun EXCEPT !.pc = lost])
         /\ drops' \in {drops, drops + 1} \cap 0..MaxLate
         /\ UNCHANGED outbox
    BY DEF ReleaseBatch
<1>3. /\ run[l] \in Run /\ run \in [Lane -> Run] /\ run[l].then \in Rests \cup {"admit"}
    BY DEF IndInv, TypeOK, Run
<1>4. ASSUME NEW r, Moves(l, r)
      PROVE  BatchFits'
    <2>1. \A k \in Lane : k # l => run'[k] = run[k]
        BY <1>3, <1>4 DEF Moves, Goes
    <2>2. HoldersFit'
        BY <1>1, <2>1 DEF IndInv, TypeOK, HoldersFit, Fits
    <2>3. drop => holders' = {}
        BY <1>1 DEF DropsBatch
    <2>4. outbox' = outbox \/ outbox' = FALSE
        <3>1. outbox \in BOOLEAN
            BY DEF IndInv, TypeOK
        <3>2. QED
            BY <1>2, <3>1
    <2>5. drop \/ outbox' = outbox
        <3>1. outbox \in BOOLEAN
            BY DEF IndInv, TypeOK
        <3>2. QED
            BY <1>2, <3>1
    <2>6. HeldBatchStays'
        BY <1>1, <2>1, <2>3, <2>5 DEF IndInv, TypeOK, HeldBatchStays
    <2>7. committed' \in BOOLEAN /\ torn' \in BOOLEAN /\ outbox' \in BOOLEAN
        BY <1>1, <2>4 DEF IndInv, TypeOK
    <2>8. drops' \in 0..MaxLate /\ holders' \subseteq Lane
        BY <1>1, <1>2 DEF IndInv, TypeOK
    <2>9. QED
        BY <2>2, <2>6, <2>7, <2>8 DEF BatchFits
<1>5. ASSUME NEW rest \in Rests, Goes(l, [NoRun EXCEPT !.pc = rest]), UNCHANGED events \/ Happens,
             rest = "pausedLocal" => run[l].then = "pausedLocal" \/ ~Unrestricted(mon[Self])
      PROVE  IndInv'
    <2> DEFINE r == [NoRun EXCEPT !.pc = rest]
    <2>1. r \in Run /\ r.pc = rest
        BY NoRunFacts
    <2>2. Moves(l, r)
        BY <1>5, <2>1 DEF Moves
    <2> HIDE DEF r
    <2>3. Continues(l, r) /\ (Pausing(r) => Pausing(run[l]) \/ ~Unrestricted(mon[Self]))
        BY <1>1, <1>5, <2>1 DEF Continues, Pausing, Rests
    <2>4. QED
        BY <1>1, <1>4, <1>5, <2>2, <2>3, BatchMoves
<1>6. ASSUME done, Goes(l, next), UNCHANGED events
      PROVE  IndInv'
    <2>1. /\ next \in Run /\ next.pc = "admit" /\ next.cut = run[l].cut
          /\ next.session = run[l].session /\ next.local = run[l].local /\ next.peer = run[l].peer
        BY <1>3 DEF Run, Stages
    <2> HIDE DEF next
    <2>2. Moves(l, next) /\ Continues(l, next) /\ ~Pausing(next)
        BY <1>1, <1>6, <2>1 DEF Moves, Continues, Active, Pausing
    <2>3. QED
        BY <1>1, <1>4, <1>6, <2>2, BatchMoves
<1>7. lost \in Rests /\ (lost = "pausedLocal" => run[l].then = "pausedLocal" \/ ~Unrestricted(mon[Self]))
    BY <1>3, PauseFacts DEF Rests
<1> HIDE DEF next, lost, drop
<1>8. CASE ~done
    BY <1>2, <1>3, <1>5, <1>7, <1>8
<1>9. CASE done
    BY <1>2, <1>5, <1>6, <1>7, <1>9
<1>10. QED
    BY <1>8, <1>9

(* A drop whose caller is gone. *)
LEMMA StrayDropStep ==
    ASSUME IndInv, StrayDrop
    PROVE  IndInv'
<1>1. /\ drops > 0 /\ drops' = drops - 1 /\ torn' = (torn \/ outbox) /\ outbox' = FALSE
      /\ UNCHANGED <<netVars, senderVars, holders, committed, peerVars>>
    BY DEF StrayDrop
<1>2. Self \in Host /\ Looks(Self) /\ mon'[Self] = mon[Self]
    BY <1>1, NoLook DEF IndInv, TypeOK, netVars, netRest
<1>3. NetTypeOK' /\ NetInv' /\ AdmittedSafely'
    BY <1>1, <1>2, RunsStay DEF senderVars
<1>4. PeersFit'
    BY <1>1, <1>2, PeersStay DEF peerVars
<1>5. HoldersFit' /\ HeldBatchStays'
    BY <1>1 DEF senderVars, IndInv, HoldersFit, HeldBatchStays, Fits
<1>6. PausesWake'
    BY <1>1, <1>2, Zenon DEF senderVars, IndInv, PausesWake, Pausing, Unrestricted
<1>7. drops' \in 0..MaxLate /\ torn' \in BOOLEAN
    BY <1>1, TransferAssumption DEF IndInv, TypeOK
<1>8. QED
    BY <1>1, <1>3, <1>4, <1>5, <1>6, <1>7 DEF senderVars, IndInv, TypeOK, PeersFit

-----------------------------------------------------------------------------
(***************************************************************************)
(* A receiver's restart, and the networks.                                 *)
(***************************************************************************)
(* A process restarts with a monitor that has seen no path. *)
LEMMA ReopenedNet ==
    ASSUME NetTypeOK, NetInv, NEW p \in Host, Happens,
           mon' = [mon EXCEPT ![p] = Reopened(p)], stat' = [stat EXCEPT ![p] = Unlocked],
           UNCHANGED <<file, editMark, saving>>
    PROVE  /\ NetTypeOK' /\ NetInv' /\ ~mon'[p].clear
           /\ \A k \in Host : k # p => mon'[k] = mon[k]
<1>0. /\ events \in Nat /\ events' \in 0..MaxEvents /\ events' = events + 1
      /\ 0 \in 0..MaxEvents /\ Unlocked \in 0..Unlocked
    BY NetAssumption DEF NetTypeOK, Happens, Unlocked
<1>1. \A k \in Host : /\ StampsGrow(k) /\ SettingKnown(k)
                      /\ file[k].stamp \in 0..MaxEvents /\ editMark[k] \in 0..MaxEvents
                      /\ mon[k].stamp \in Nat /\ stat[k] \in Nat
    BY NetTyped DEF NetInv, Unlocked
<1> DEFINE on == file[p].kind = "on"
           mark == IF file[p].stamp = 0 THEN editMark[p] ELSE 0
           m == [clear |-> FALSE, metered |-> on, stamp |-> file[p].stamp, mark |-> mark, epoch |-> 0]
<1>2. on \in BOOLEAN /\ mark \in 0..MaxEvents /\ mark <= editMark[p] /\ Reopened(p) = m
    BY <1>0, <1>1 DEF Reopened
<1>3. mon'[p] = m /\ \A k \in Host : k # p => mon'[k] = mon[k]
    BY <1>2 DEF NetTypeOK
<1> HIDE DEF on, mark
<1>4. m \in Monitor /\ ~m.clear /\ m.metered = on /\ m.stamp = file[p].stamp /\ m.mark = mark
    BY <1>0, <1>1, <1>2 DEF Monitor
<1> HIDE DEF m
<1>5. NetTypeOK'
    BY <1>0, <1>2, <1>4 DEF NetTypeOK, Unlocked
<1>6. ASSUME NEW k \in Host
      PROVE  (StampsGrow(k) /\ SettingKnown(k))'
    <2>1. stat'[k] = stat[k] \/ Free(k)'
        BY DEF NetTypeOK, Free, Unlocked
    <2>2. CASE k # p
        <3>1. mon'[k] = mon[k]
            BY <1>3, <2>2
        <3>2. StampsGrow(k)'
            BY <1>0, <1>1, <2>1, <3>1 DEF StampsGrow, Free, Unlocked
        <3>3. SettingKnown(k)'
            BY <1>1, <3>1 DEF SettingKnown
        <3>4. QED
            BY <3>2, <3>3
    <2>3. CASE k = p
        <3>1. mon'[k].stamp = file[k].stamp /\ mon'[k].mark <= editMark[k]
            BY <1>2, <1>3, <1>4, <2>3
        <3>2. file[k].kind = "on" => mon'[k].metered
            BY <1>3, <1>4, <2>3 DEF on
        <3>3. StampsGrow(k)'
            BY <1>0, <1>1, <2>1, <3>1 DEF StampsGrow, Free, Unlocked
        <3>4. SettingKnown(k)'
            BY <1>1, <3>2 DEF SettingKnown
        <3>5. QED
            BY <3>3, <3>4
    <2>4. QED
        BY <2>2, <2>3
<1>7. QED
    BY <1>3, <1>4, <1>5, <1>6 DEF NetInv

(* The runs of the receiver's lane lose their session, and its calls are gone. *)
LEMMA RestartStep ==
    ASSUME IndInv, NEW p \in Lane, Restart(p)
    PROVE  IndInv'
<1> DEFINE r == [run[p] EXCEPT !.session = FALSE, !.cut = @ \cup {"peer"}]
<1>1. /\ Happens /\ mon' = [mon EXCEPT ![p] = Reopened(p)] /\ stat' = [stat EXCEPT ![p] = Unlocked]
      /\ late' = {q \in late : q.lane # p}
      /\ UNCHANGED <<file, editMark, saving, wake, batchVars, staged, stored, applied>>
    BY DEF Restart
<1>2. /\ NetTypeOK /\ NetInv /\ p \in Host /\ p # Self /\ Self \in Host
      /\ run \in [Lane -> Run] /\ run[p] \in Run
    BY Hosts DEF IndInv, TypeOK
<1>3. /\ NetTypeOK' /\ NetInv' /\ ~mon'[p].clear /\ mon'[Self] = mon[Self]
      /\ \A k \in Lane : k # p => mon'[k] = mon[k]
    BY <1>1, <1>2, ReopenedNet, Hosts
<1>4. /\ r \in Run /\ r.pc = run[p].pc /\ r.stage = run[p].stage /\ r.then = run[p].then
      /\ ~r.session /\ r.local = run[p].local /\ r.cut = run[p].cut \cup {"peer"}
    BY <1>2 DEF Run
<1>5. run'[p] = r /\ \A k \in Lane : k # p => run'[k] = run[k]
    BY <1>2 DEF Restart
<1>6. run' \in [Lane -> Run]
    <2>1. run' = [run EXCEPT ![p] = r]
        BY <1>2 DEF Restart
    <2> HIDE DEF r
    <2>2. QED
        BY <1>2, <1>4, <2>1
<1> HIDE DEF r
<1>7. ASSUME NEW l \in Lane
      PROVE  RunSafeNext(l, run'[l])
    <2>1. RunSafe(l, run[l])
        BY DEF IndInv, AdmittedSafely
    <2>2. CASE l # p
        <3>1. run'[l] = run[l] /\ mon'[l] = mon[l]
            BY <1>3, <1>5, <2>2
        <3>2. QED
            BY <1>1, <1>3, <2>1, <3>1 DEF RunSafe, RunSafeNext, Safe, SafeNext, Behind
    <2>3. CASE l = p
        <3>1. "local" \in r.cut <=> "local" \in run[p].cut
            BY <1>4
        <3>2. r.pc \in Active => SafeNext(Self, r.local, "local" \in r.cut)
            BY <1>1, <1>3, <1>4, <2>1, <2>3, <3>1 DEF RunSafe, Safe, SafeNext, Behind
        <3>3. QED
            BY <1>3, <1>4, <1>5, <2>3, <3>2 DEF RunSafeNext
    <2>4. QED
        BY <2>2, <2>3
<1>8. AdmittedSafely'
    BY <1>7 DEF AdmittedSafely, RunSafe, Safe, Behind, RunSafeNext, SafeNext
<1>9. LateSafely' /\ late' \subseteq Request
    <2>1. ASSUME NEW q \in late'
          PROVE  SafeNext(q.lane, q.admitted, q.cut)
        <3>1. q \in Request /\ q.lane # p /\ Safe(q.lane, q.admitted, q.cut)
            BY <1>1, <2>1 DEF IndInv, TypeOK, LateSafely
        <3>2. q.lane \in Lane
            BY <3>1 DEF Request
        <3>3. mon'[q.lane] = mon[q.lane]
            BY <1>3, <3>1, <3>2
        <3>4. QED
            BY <1>1, <3>1, <3>3 DEF Safe, SafeNext, Behind
    <2>2. QED
        BY <1>1, <2>1 DEF IndInv, TypeOK, LateSafely, Safe, Behind, SafeNext
<1>10. HoldersFit' /\ HeldBatchStays'
    <2>1. \A k \in Lane : run'[k].pc = run[k].pc /\ run'[k].stage = run[k].stage
        BY <1>4, <1>5
    <2>2. QED
        BY <1>1, <2>1 DEF batchVars, IndInv, TypeOK, HoldersFit, HeldBatchStays, Fits
<1>11. PausesWake'
    <2>1. ASSUME NEW k \in Lane, Pausing(run'[k]), Unrestricted(mon'[Self])
          PROVE  wake'[k]
        <3>1. Pausing(run[k])
            BY <1>4, <1>5, <2>1 DEF Pausing
        <3>2. wake[k]
            BY <1>3, <2>1, <3>1 DEF IndInv, PausesWake
        <3>3. QED
            BY <1>1, <3>2
    <2>2. QED
        BY <2>1, Zenon DEF PausesWake, Pausing, Unrestricted
<1>12. QED
    BY <1>1, <1>3, <1>6, <1>8, <1>9, <1>10, <1>11 DEF batchVars, IndInv, TypeOK

(* What happens at a host cuts into the runs, which stay safe. *)
LEMMA NetworkStep ==
    ASSUME IndInv, Network
    PROVE  IndInv'
<1>1. PICK h \in Host : HostStep(h)
    BY DEF Network, NetStep, HostStep
<1>2. NetTypeOK /\ NetInv /\ run \in [Lane -> Run] /\ late \subseteq Request
    BY DEF IndInv, TypeOK
<1>3. NetTypeOK' /\ NetInv'
    BY <1>1, <1>2, HostTyped, HostNet
<1>4. /\ wake' = [l \in Lane |-> Closed(l)]
      /\ late' = {[q EXCEPT !.cut = @ \/ Restricts(q.lane)] : q \in late}
      /\ UNCHANGED <<batchVars, staged, stored, applied>>
    BY DEF Network
<1> DEFINE Cut(l) == IF run[l].pc \in Rests \cup {"probe"} THEN {}
                     ELSE run[l].cut \cup (IF Restricts(Self) THEN {"local"} ELSE {})
                                     \cup (IF Restricts(l) THEN {"peer"} ELSE {})
<1>5. ASSUME NEW l \in Lane
      PROVE  /\ run'[l] \in Run /\ run'[l].pc = run[l].pc /\ run'[l].stage = run[l].stage
             /\ run'[l].then = run[l].then /\ run'[l].session = run[l].session
             /\ run'[l].local = run[l].local /\ run'[l].peer = run[l].peer
             /\ run'[l].seen = run[l].seen /\ run'[l].cut = Cut(l)
    <2>1. run[l] \in Run /\ run[l].cut \subseteq {"local", "peer"}
        BY <1>2 DEF Run
    <2>2. Cut(l) \in SUBSET {"local", "peer"}
        BY <2>1
    <2>3. run'[l] = [run[l] EXCEPT !.cut = Cut(l)]
        BY DEF Network
    <2> HIDE DEF Cut
    <2>4. QED
        BY <2>1, <2>2, <2>3 DEF Run
<1>6. run' \in [Lane -> Run]
    <2>1. run' = [l \in Lane |-> run'[l]]
        BY DEF Network
    <2>2. QED
        BY <1>5, <2>1
<1>7. ASSUME NEW l \in Lane
      PROVE  RunSafeNext(l, run'[l])
    <2> DEFINE local == "local" \in run[l].cut
               peer  == "peer" \in run[l].cut
               local2 == "local" \in Cut(l)
               peer2  == "peer" \in Cut(l)
    <2>0. local \in BOOLEAN /\ peer \in BOOLEAN /\ local2 \in BOOLEAN /\ peer2 \in BOOLEAN
        OBVIOUS
    <2>1. (local2 => local \/ Restricts(Self)) /\ (peer2 => peer \/ Restricts(l))
        OBVIOUS
    <2>2. run[l] \in Run /\ run[l].local \in Nat /\ run[l].peer \in Nat /\ run[l].seen.epoch \in Nat
        BY <1>2 DEF Run
    <2>3. /\ run[l].pc \in Active => Safe(Self, run[l].local, local)
          /\ run[l].pc \in Active /\ run[l].session => Safe(l, run[l].peer, peer)
          /\ run[l].pc = "gate" /\ run[l].session /\ run[l].seen.clear
                => Safe(l, run[l].seen.epoch, peer)
        BY DEF IndInv, AdmittedSafely, RunSafe
    <2>4. Self \in Host /\ l \in Host
        BY Hosts
    <2>p. run[l].pc = "probe" => ~peer2
        OBVIOUS
    <2> HIDE DEF local, peer, local2, peer2
    <2>5. run[l].pc \in Active => SafeNext(Self, run[l].local, local2)
        BY <1>1, <1>2, <2>0, <2>1, <2>2, <2>3, <2>4, HostSafe
    <2>6. run[l].pc \in Active /\ run[l].session => SafeNext(l, run[l].peer, peer2)
        BY <1>1, <1>2, <2>0, <2>1, <2>2, <2>3, <2>4, HostSafe
    <2>7. run[l].pc = "gate" /\ run[l].session /\ run[l].seen.clear
                => SafeNext(l, run[l].seen.epoch, peer2)
        BY <1>1, <1>2, <2>0, <2>1, <2>2, <2>3, <2>4, HostSafe
    <2>8. local2 = ("local" \in run'[l].cut) /\ peer2 = ("peer" \in run'[l].cut)
        BY <1>5 DEF local2, peer2
    <2>9. QED
        BY <1>5, <2>5, <2>6, <2>7, <2>8, <2>p DEF RunSafeNext
<1>8. AdmittedSafely'
    BY <1>7 DEF AdmittedSafely, RunSafe, Safe, Behind, RunSafeNext, SafeNext
<1>9. ASSUME NEW q \in late
      PROVE  LET c == [q EXCEPT !.cut = @ \/ Restricts(q.lane)]
             IN  /\ c \in Request /\ c.lane = q.lane /\ c.admitted = q.admitted
                 /\ SafeNext(q.lane, q.admitted, c.cut)
    <2> DEFINE cut2 == q.cut \/ Restricts(q.lane)
               c == [q EXCEPT !.cut = cut2]
    <2>1. q \in Request /\ Safe(q.lane, q.admitted, q.cut)
        BY <1>2, <1>9 DEF IndInv, LateSafely
    <2>2. q.lane \in Host /\ q.admitted \in Nat /\ q.cut \in BOOLEAN
        BY <2>1, Hosts DEF Request
    <2>3. cut2 \in BOOLEAN /\ (cut2 => q.cut \/ Restricts(q.lane))
        OBVIOUS
    <2>4. c = [q EXCEPT !.cut = @ \/ Restricts(q.lane)]
        BY <2>1 DEF Request
    <2> HIDE DEF cut2
    <2>5. SafeNext(q.lane, q.admitted, cut2)
        BY <1>1, <1>2, <2>1, <2>2, <2>3, HostSafe
    <2>6. c \in Request /\ c.lane = q.lane /\ c.admitted = q.admitted /\ c.cut = cut2
        BY <2>1, <2>3 DEF Request
    <2> HIDE DEF c
    <2>7. QED
        BY <2>4, <2>5, <2>6
<1>10. LateSafely' /\ late' \subseteq Request
    <2>1. \A c \in late' : c \in Request /\ SafeNext(c.lane, c.admitted, c.cut)
        BY <1>4, <1>9
    <2>2. QED
        BY <2>1 DEF LateSafely, Safe, Behind, SafeNext
<1>11. HoldersFit' /\ HeldBatchStays'
    BY <1>4, <1>5 DEF batchVars, IndInv, TypeOK, HoldersFit, HeldBatchStays, Fits
<1>12. PausesWake' /\ wake' \in [Lane -> BOOLEAN]
    <2>1. ASSUME NEW k \in Lane, Pausing(run'[k]), Unrestricted(mon'[Self])
          PROVE  wake'[k]
        <3>1. Pausing(run[k])
            BY <1>5, <2>1 DEF Pausing
        <3>2. mon'[Self] = mon[Self] => wake[k]
            BY <2>1, <3>1 DEF IndInv, PausesWake
        <3>3. Closed(k)
            BY <3>2 DEF Closed
        <3>4. QED
            BY <1>4, <3>3
    <2>2. \A k \in Lane : Closed(k) \in BOOLEAN
        BY DEF Closed
    <2>3. wake' \in [Lane -> BOOLEAN]
        BY <1>4, <2>2, Zenon
    <2>4. QED
        BY <2>1, <2>3, Zenon DEF PausesWake, Pausing, Unrestricted
<1>13. QED
    BY <1>3, <1>4, <1>6, <1>8, <1>10, <1>11, <1>12 DEF batchVars, IndInv, TypeOK

-----------------------------------------------------------------------------
(***************************************************************************)
(* The invariant, and what it says of the calls.                           *)
(***************************************************************************)
(* Nobody has begun, and no setting was saved. *)
LEMMA InitInv ==
    ASSUME Init
    PROVE  IndInv
<1>0. 0 \in 0..MaxEvents /\ 0 \in Nat /\ Unlocked \in 0..Unlocked /\ 0 \in 0..MaxLate
    BY NetAssumption, TransferAssumption DEF Unlocked
<1>1. NetTypeOK
    <2>1. [clear |-> TRUE, metered |-> FALSE, stamp |-> 0, mark |-> 0, epoch |-> 0] \in Monitor
        BY <1>0 DEF Monitor
    <2>2. QED
        BY <1>0, <2>1 DEF Init, NetInit, NetTypeOK
<1>2. NetInv
    <2>1. ASSUME NEW h \in Host
          PROVE  StampsGrow(h) /\ SettingKnown(h)
        <3>1. /\ file[h] = [kind |-> "absent", stamp |-> 0] /\ editMark[h] = 0
              /\ saving[h] = "none" /\ stat[h] = Unlocked /\ events = 0
              /\ mon[h] = [clear |-> TRUE, metered |-> FALSE, stamp |-> 0, mark |-> 0, epoch |-> 0]
            BY DEF Init, NetInit
        <3>2. QED
            BY <3>1 DEF StampsGrow, SettingKnown, Free
    <2>2. QED
        BY <2>1 DEF NetInv
<1>3. ASSUME NEW l \in Lane
      PROVE  run[l] \in Run /\ run[l].pc = "backoff"
    <2>1. run[l] = NoRun
        BY DEF Init
    <2>2. QED
        BY <2>1 DEF NoRun, Run, Stages, Rests
<1>4. run \in [Lane -> Run]
    <2>1. run = [l \in Lane |-> run[l]]
        BY DEF Init
    <2>2. QED
        BY <1>3, <2>1
<1>5. TypeOK
    BY <1>0, <1>1, <1>4 DEF Init, TypeOK
<1>6. AdmittedSafely
    BY <1>3 DEF AdmittedSafely, RunSafe, Active
<1>7. LateSafely /\ HoldersFit /\ HeldBatchStays
    BY DEF Init, LateSafely, HoldersFit, HeldBatchStays
<1>8. PausesWake
    BY <1>3 DEF PausesWake, Pausing
<1>9. QED
    BY <1>2, <1>5, <1>6, <1>7, <1>8 DEF IndInv

(* A step that changes nothing. *)
LEMMA StutterStep ==
    ASSUME IndInv, UNCHANGED vars
    PROVE  IndInv'
<1>1. /\ UNCHANGED <<file, editMark, saving, mon, stat, events>>
      /\ UNCHANGED <<run, wake, holders, committed, outbox, drops, torn>>
      /\ UNCHANGED <<staged, stored, applied, late>>
    BY DEF vars, netVars, senderVars, batchVars, peerVars
<1>2. Self \in Host /\ Looks(Self) /\ mon'[Self] = mon[Self]
    BY <1>1, NoLook DEF IndInv, TypeOK, netRest
<1>3. NetTypeOK' /\ NetInv' /\ AdmittedSafely'
    BY <1>1, <1>2, RunsStay
<1>4. PeersFit'
    BY <1>1, <1>2, PeersStay
<1>5. HoldersFit' /\ HeldBatchStays'
    BY <1>1 DEF IndInv, HoldersFit, HeldBatchStays, Fits
<1>6. PausesWake'
    BY <1>1, Zenon DEF IndInv, PausesWake, Pausing, Unrestricted
<1>7. QED
    BY <1>1, <1>3, <1>4, <1>5, <1>6 DEF IndInv, TypeOK, PeersFit

(* Every step keeps the invariant. *)
LEMMA NextInv ==
    ASSUME IndInv, [Next]_vars
    PROVE  IndInv'
<1>1. ASSUME NEW l \in Lane, LaneStep(l)
      PROVE  IndInv'
    BY <1>1, DueStep, ProbeStep, GateStep, AdmitStep, AdmitPausesStep, HoldBatchStep,
       BuildBatchStep, ReadPartStep, ReleaseBatchStep, ServeStep, ServeRefusesStep,
       WatchLocalStep, Zenon DEF LaneStep
<1>2. ASSUME NEW l \in Lane, Reprobe(l) \/ ProbeFails(l) \/ CallFails(l) \/ Restart(l)
      PROVE  IndInv'
    BY <1>2, ReprobeStep, ProbeFailsStep, CallFailsStep, RestartStep, Zenon
<1>3. CASE UNCHANGED vars
    BY <1>3, StutterStep
<1>4. CASE Next
    BY <1>1, <1>2, <1>4, NetworkStep, LateServeStep, StrayDropStep, Zenon DEF Next
<1>5. QED
    BY <1>3, <1>4

(* The invariant holds of every reachable state. *)
LEMMA Invariance == Spec => []IndInv
<1>1. Init => IndInv
    BY InitInv
<1>2. IndInv /\ [Next]_vars => IndInv'
    BY NextInv
<1>3. QED
    BY <1>1, <1>2, PTL DEF Spec

(* Type correctness: monitors, runs, the batch, what the receivers keep and the
   calls that outlive their runs. *)
THEOREM TransferTyped == Spec => []TypeOK
<1>1. IndInv => TypeOK
    BY DEF IndInv
<1>2. QED
    BY <1>1, Invariance, PTL

(* releaseBatch: the lanes that share a batch never drop it under one another;
   only a drop that outlived its caller can. *)
THEOREM HeldBatchesStay == Spec => []HeldBatchStays
<1>1. IndInv => HeldBatchStays
    BY DEF IndInv
<1>2. QED
    BY <1>1, Invariance, PTL

(* work, for a lane that is paused for this host's network: no change of the
   network is lost between the lane's look and its wait. *)
THEOREM LocalPausesWake == Spec => []LocalPauseWakes
<1>1. IndInv => LocalPauseWakes
    BY DEF IndInv, PausesWake, Pausing, LocalPauseWakes, At
<1>2. QED
    BY <1>1, Invariance, PTL

(* The handlers of bulk calls take none that was restricted on the way. *)
THEOREM CallsAreUncut == Spec => TakenUnrestricted
<1>1. ASSUME IndInv, NEW l \in Lane, Serve(l)
      PROVE  "peer" \notin run[l].cut
    <2> DEFINE cut == "peer" \in run[l].cut
    <2>1. run[l].pc = "call" /\ run[l].session /\ Refreshed(l).epoch = run[l].peer
        BY <1>1 DEF Serve, At, Refusal
    <2>2. Safe(l, run[l].peer, cut)
        BY <1>1, <2>1 DEF IndInv, AdmittedSafely, RunSafe, Active
    <2>3. NetTypeOK /\ l \in Host /\ run[l].peer \in Nat
        BY <1>1, Hosts DEF IndInv, TypeOK, Run
    <2> HIDE DEF cut
    <2>4. ~cut
        BY <2>1, <2>2, <2>3, SafeIsUncut
    <2>5. QED
        BY <2>4 DEF cut
<1>2. ASSUME IndInv, NEW q \in late, LateServe(q)
      PROVE  ~q.cut
    <2>1. Refreshed(q.lane).epoch = q.admitted
        BY <1>2 DEF LateServe, Refusal
    <2>2. NetTypeOK /\ q.lane \in Host /\ q.admitted \in Nat /\ Safe(q.lane, q.admitted, q.cut)
        BY <1>2, Hosts DEF IndInv, TypeOK, LateSafely, Request
    <2>3. QED
        BY <2>1, <2>2, SafeIsUncut
<1>3. IndInv => [/\ \A l \in Lane : Serve(l) => "peer" \notin run[l].cut
                 /\ \A q \in late : LateServe(q) => ~q.cut]_vars
    BY <1>1, <1>2
<1>4. QED
    BY <1>3, Invariance, PTL DEF TakenUnrestricted

(* admit sends none either. *)
THEOREM SendsAreUncut == Spec => SentUnrestricted
<1>1. ASSUME IndInv, NEW l \in Lane, Admit(l)
      PROVE  "local" \notin run[l].cut
    <2> DEFINE cut == "local" \in run[l].cut
    <2>1. run[l].pc = "admit" /\ Refreshed(Self).epoch = run[l].local
        BY <1>1 DEF Admit, At, Admissible, Interrupted
    <2>2. Safe(Self, run[l].local, cut)
        BY <1>1, <2>1 DEF IndInv, AdmittedSafely, RunSafe, Active
    <2>3. NetTypeOK /\ Self \in Host /\ run[l].local \in Nat
        BY <1>1, Hosts DEF IndInv, TypeOK, Run
    <2> HIDE DEF cut
    <2>4. ~cut
        BY <2>1, <2>2, <2>3, SafeIsUncut
    <2>5. QED
        BY <2>4 DEF cut
<1>2. IndInv => [\A l \in Lane : Admit(l) => "local" \notin run[l].cut]_vars
    BY <1>1
<1>3. QED
    BY <1>2, Invariance, PTL DEF SentUnrestricted
=============================================================================
