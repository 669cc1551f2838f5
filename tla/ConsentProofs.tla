--------------------------- MODULE ConsentProofs ---------------------------
(***************************************************************************)
(* The verdicts of consent are sound, for any mesh, asks, registries of    *)
(* peers, addresses and legs.                                              *)
(***************************************************************************)
EXTENDS Consent, SequenceTheorems, TLAPS

(* The types, and the bounds they rest on: an ask that waits for a leg has
   one, and has the peer of it at the head of its walk. *)
LegsFit(a) ==
    /\ Len(leg[a]) <= MaxLegs
    /\ At(a, "leg") => leg[a] # <<>> /\ ask[a].left # <<>>

TypeInv == TypeOK /\ \A a \in Ask : LegsFit(a)

(* An ask that is over and was approved by a person, at the place it names. *)
Earned(b) == At(b, "done") /\ ask[b].by \in said[b]

(* A leg reports an approval only if one was given where it runs. *)
LegsSaid ==
    \A a \in Ask : \A n \in 1..Now(a) :
        leg[a][n].reply = "ok" => leg[a][n].at \in said[a]

(* No verdict, and no denial heard, before the ask is over. *)
Undecided == \A a \in Ask : ~At(a, "done") => ask[a].verdict # "ok" /\ ~heard[a]

(* A grant stands on an ask of its host that a person approved. *)
GrantsEarned ==
    \A h \in Host : \A k \in grants[h] :
        \E b \in Ask : Origin(b) = h /\ Key(b) = k /\ Earned(b)

(* An approval stands on a person's, or on a grant that did when it was
   served: the grant may be gone since. *)
ApprovedBy(a) ==
    \/ Earned(a)
    \/ /\ ask[a].by = "cache" /\ ~request[a].attests
       /\ \E b \in Ask : Origin(b) = Origin(a) /\ Key(b) = Key(a) /\ Earned(b)

VerdictsEarned == \A a \in Ask : ask[a].verdict = "ok" => ApprovedBy(a)

IndInv ==
    /\ TypeInv
    /\ LegsSaid
    /\ Undecided
    /\ GrantsEarned
    /\ VerdictsEarned
    /\ DenialStands

-----------------------------------------------------------------------------
(***************************************************************************)
(* Records and sequences of the model.                                     *)
(***************************************************************************)
(* What an ask ends as is work. *)
LEMMA EndsType ==
    ASSUME NEW a, NEW v \in Verdicts
    PROVE  /\ Ends(a, v) \in Work
           /\ Ends(a, v).pc = "done" /\ Ends(a, v).verdict = v
<1>1. <<>> \in Seq(Host \cup Phone)
    BY EmptySeq
<1>2. NewWork \in Work
    BY <1>1, ConsentAssumption DEF NewWork, Work
<1>3. QED
    BY <1>2 DEF Ends, Work

(* An approval by p is work. *)
LEMMA ApprovedType ==
    ASSUME NEW a, NEW p \in Host \cup Phone \cup {"cache", "none"}
    PROVE  LET w == [Ends(a, "ok") EXCEPT !.by = p]
           IN  w \in Work /\ w.pc = "done" /\ w.verdict = "ok" /\ w.by = p
BY EndsType DEF Work, Verdicts

(* A new leg is a leg, and has not replied. *)
LEMMA NewLegType ==
    ASSUME NEW p \in Host \cup Phone,
           NEW pc \in {"start", "wait", "sheet", "done"}
    PROVE  NewLeg(p, pc) \in Leg /\ NewLeg(p, pc).reply = "none"
BY DEF NewLeg, Leg

(* A leg that is over is a leg, and its reply is gone. *)
LEMMA GoneType == Gone \in Leg /\ Gone.reply = "none"
BY DEF Gone, NewLeg, Leg

(* A leg that is given up on is a leg; it stays where it is, and its reply is
   gone if it had one. *)
LEMMA LostType ==
    ASSUME NEW l \in Leg
    PROVE  /\ Lost(l) \in Leg
           /\ Lost(l).reply = "none" \/ (Lost(l).reply = l.reply /\ Lost(l).at = l.at)
<1>2. LET k == [l EXCEPT !.lost = TRUE] IN k \in Leg /\ k.reply = l.reply /\ k.at = l.at
    BY DEF Leg
<1>3. QED
    BY GoneType, <1>2 DEF Lost

(* A non-empty sequence of legs has a last one. *)
LEMMA LastLeg ==
    ASSUME NEW s \in Seq(Leg), s # <<>>
    PROVE  Len(s) \in 1..Len(s) /\ s[Len(s)] \in Leg
BY EmptySeq, ElementOfSeq, LenProperties

(***************************************************************************)
(* Effects.                                                                *)
(***************************************************************************)
(* What the types say of one ask. *)
LEMMA TypedAsk ==
    ASSUME TypeInv, NEW a \in Ask
    PROVE  /\ request[a] \in Request /\ Origin(a) \in Host
           /\ Key(a) \in STRING \X STRING
           /\ ask[a] \in Work /\ leg[a] \in Seq(Leg) /\ Now(a) \in Nat
           /\ said[a] \in SUBSET (Host \cup Phone) /\ heard[a] \in BOOLEAN
<1>1. request[a] \in Request
    BY ConsentAssumption DEF TypeInv, TypeOK
<1>2. Origin(a) \in Host /\ Key(a) \in STRING \X STRING
    BY <1>1 DEF Origin, Key, Request
<1>3. leg[a] \in Seq(Leg)
    BY DEF TypeInv, TypeOK
<1>4. QED
    BY <1>1, <1>2, <1>3, LenProperties DEF TypeInv, TypeOK, Now

(* The work of one ask moves. *)
LEMMA GoesFacts ==
    ASSUME TypeInv, NEW a \in Ask, NEW w \in Work, Goes(a, w)
    PROVE  /\ ask' \in [Ask -> Work]
           /\ ask'[a] = w
           /\ \A b \in Ask : b # a => ask'[b] = ask[b]
BY DEF TypeInv, TypeOK, Goes

(* One leg of an ask is replaced. *)
Replaces(a, n, l) == leg' = [leg EXCEPT ![a] = [leg[a] EXCEPT ![n] = l]]

(* The other legs, and those of the other asks, stay. *)
LEMMA LegReplaced ==
    ASSUME TypeInv, NEW a \in Ask, NEW n \in 1..Now(a), NEW l \in Leg,
           Replaces(a, n, l)
    PROVE  /\ leg' \in [Ask -> Seq(Leg)]
           /\ \A b \in Ask : Len(leg'[b]) = Len(leg[b])
           /\ \A b \in Ask : b # a => leg'[b] = leg[b]
           /\ \A i \in 1..Now(a) : leg'[a][i] = IF i = n THEN l ELSE leg[a][i]
<1>0. leg \in [Ask -> Seq(Leg)] /\ leg[a] \in Seq(Leg) /\ n \in 1..Len(leg[a])
    BY DEF TypeInv, TypeOK, Now
<1> DEFINE s == [leg[a] EXCEPT ![n] = l]
<1>1. /\ s \in Seq(Leg) /\ Len(s) = Len(leg[a])
      /\ \A i \in 1..Len(leg[a]) : s[i] = IF i = n THEN l ELSE leg[a][i]
    BY <1>0, ExceptSeq
<1>2. leg' = [leg EXCEPT ![a] = s]
    BY DEF Replaces
<1> HIDE DEF s
<1>3. leg'[a] = s /\ \A b \in Ask : b # a => leg'[b] = leg[b]
    BY <1>0, <1>2
<1>4. leg' \in [Ask -> Seq(Leg)]
    BY <1>0, <1>1, <1>2
<1>5. QED
    BY <1>1, <1>3, <1>4 DEF Now

(* A leg is added to those of an ask. *)
Appends(a, s, l) == leg' = [leg EXCEPT ![a] = Append(s, l)]

(* The legs before it are those of s, and those of the other asks stay. *)
LEMMA LegAppended ==
    ASSUME TypeInv, NEW a \in Ask, NEW s \in Seq(Leg), NEW l \in Leg, Len(s) = Now(a),
           Appends(a, s, l)
    PROVE  /\ leg' \in [Ask -> Seq(Leg)]
           /\ leg'[a] # <<>> /\ Len(leg'[a]) = Now(a) + 1
           /\ \A b \in Ask : b # a => leg'[b] = leg[b]
           /\ \A i \in 1..Now(a) : leg'[a][i] = s[i]
           /\ leg'[a][Now(a) + 1] = l
<1>0. leg \in [Ask -> Seq(Leg)]
    BY DEF TypeInv, TypeOK
<1> DEFINE t == Append(s, l)
<1>1. /\ t \in Seq(Leg) /\ t # <<>> /\ Len(t) = Now(a) + 1
      /\ \A i \in 1..Now(a) : t[i] = s[i]
      /\ t[Now(a) + 1] = l
    BY AppendProperties
<1>2. leg' = [leg EXCEPT ![a] = t]
    BY DEF Appends
<1> HIDE DEF t
<1>3. leg'[a] = t /\ \A b \in Ask : b # a => leg'[b] = leg[b]
    BY <1>0, <1>2
<1>4. leg' \in [Ask -> Seq(Leg)]
    BY <1>0, <1>1, <1>2
<1>5. QED
    BY <1>1, <1>3, <1>4

-----------------------------------------------------------------------------
(***************************************************************************)
(* Steps that approve nothing.                                             *)
(***************************************************************************)
(* An ask goes on, or ends without an approval. *)
AskQuiet ==
    \A b \in Ask : ask'[b] = ask[b] \/ (~At(b, "done") /\ ask'[b].verdict # "ok")

(* A leg that reports an approval did so before, or one was given there. *)
LegQuiet ==
    \A b \in Ask : \A n \in 1..Len(leg'[b]) :
        \/ leg'[b][n].reply # "ok" \/ leg'[b][n].at \in said'[b]
        \/ n \in 1..Now(b) /\ leg'[b][n].reply = leg[b][n].reply /\ leg'[b][n].at = leg[b][n].at

(* What an ask has earned it keeps. *)
LEMMA EarnedKept ==
    ASSUME TypeInv, request' = request, NEW b \in Ask, Earned(b),
           ask'[b] = ask[b], said[b] \subseteq said'[b]
    PROVE  Earned(b)' /\ Origin(b)' = Origin(b) /\ Key(b)' = Key(b)
BY DEF Earned, At, Origin, Key

(* What is beside the asks and their legs: nothing is heard, no grant comes up,
   and nobody takes an approval back. *)
RestQuiet ==
    /\ request' = request /\ heard' = heard
    /\ presence' \in [Host -> {"here", "other", "away"}]
    /\ sheet' \in [Host -> SUBSET Flights]
    /\ grants' \in [Host -> SUBSET (STRING \X STRING)]
    /\ \A h \in Host : grants'[h] \subseteq grants[h]
    /\ said' \in [Ask -> SUBSET (Host \cup Phone)]
    /\ \A b \in Ask : said[b] \subseteq said'[b]
    /\ faults' \in 0..MaxFaults

(* A step that approves nothing and hears nothing keeps the invariant. *)
LEMMA QuietStep ==
    ASSUME IndInv, RestQuiet, AskQuiet, LegQuiet,
           ask' \in [Ask -> Work], leg' \in [Ask -> Seq(Leg)],
           \A b \in Ask : LegsFit(b)'
    PROVE  IndInv'
<1> USE DEF RestQuiet
<1>0. TypeInv'
    BY DEF IndInv, TypeInv, TypeOK
<1>1. LegsSaid'
    BY DEF IndInv, LegsSaid, LegQuiet, Now
<1>2. Undecided'
    BY DEF IndInv, Undecided, AskQuiet, At
<1>3. \A b \in Ask : Earned(b) => Earned(b)' /\ Origin(b)' = Origin(b) /\ Key(b)' = Key(b)
    BY EarnedKept DEF IndInv, AskQuiet, Earned
<1>4. GrantsEarned'
    BY <1>3 DEF IndInv, GrantsEarned
<1>5. VerdictsEarned'
    <2> SUFFICES ASSUME NEW a \in Ask, ask'[a].verdict = "ok" PROVE ApprovedBy(a)'
        BY DEF VerdictsEarned
    <2>1. ask'[a] = ask[a] /\ ApprovedBy(a)
        BY DEF IndInv, VerdictsEarned, AskQuiet
    <2>2. Origin(a)' = Origin(a) /\ Key(a)' = Key(a)
        BY DEF Origin, Key
    <2>3. QED
        BY <2>1, <2>2, <1>3 DEF ApprovedBy
<1>6. DenialStands'
    BY DEF IndInv, DenialStands, Undecided, AskQuiet
<1>7. QED
    BY <1>0, <1>1, <1>2, <1>4, <1>5, <1>6 DEF IndInv

(***************************************************************************)
(* Where an ask may go.                                                    *)
(***************************************************************************)
(* Work that waits for no leg and approves nothing. *)
Walks(w) == w \in Work /\ w.pc # "leg" /\ w.verdict # "ok"

(* An ask that fails, or that finds nobody. *)
LEMMA EndsWalks ==
    ASSUME NEW a, NEW v \in Verdicts, v # "ok"
    PROVE  Walks(Ends(a, v))
BY EndsType DEF Walks

(* An ask that goes on, in place. *)
LEMMA StageWalks ==
    ASSUME IndInv, NEW a \in Ask, ~At(a, "done"),
           NEW pc \in {"probe", "wait", "sheet", "walk"}
    PROVE  Walks([ask[a] EXCEPT !.pc = pc])
<1>1. ask[a] \in Work /\ ask[a].verdict # "ok"
    BY TypedAsk DEF IndInv, Undecided
<1>2. QED
    BY <1>1 DEF Walks, Work

(* The route of an ask is one over hosts. *)
LEMMA OnwardWalks ==
    ASSUME IndInv, NEW a \in Ask, ~At(a, "done")
    PROVE  Walks(Onward(a))
<1>1. ask[a] \in Work /\ ask[a].verdict # "ok" /\ Origin(a) \in Host
    BY TypedAsk DEF IndInv, Undecided
<1>2. Peers[Origin(a)] \in Seq(Host \cup Phone)
    BY <1>1, ConsentAssumption, SeqMonotonic
<1>3. Walks([ask[a] EXCEPT !.pc = "walk", !.left = Peers[Origin(a)]])
    BY <1>1, <1>2 DEF Walks, Work
<1>4. Walks(Ends(a, "unavailable"))
    BY EndsWalks DEF Verdicts
<1>5. QED
    BY <1>3, <1>4 DEF Onward

(* The next candidate. *)
LEMMA Next1Walks ==
    ASSUME IndInv, NEW a \in Ask, ~At(a, "done"), ask[a].left # <<>>
    PROVE  Walks(Next1(a))
<1>1. ask[a] \in Work /\ ask[a].verdict # "ok"
    BY TypedAsk DEF IndInv, Undecided
<1>2. ask[a].left \in Seq(Host \cup Phone)
    BY <1>1 DEF Work
<1>3. Tail(ask[a].left) \in Seq(Host \cup Phone)
    BY <1>2, HeadTailProperties
<1> DEFINE t == Tail(ask[a].left)
<1>4. Next1(a) = [ask[a] EXCEPT !.pc = "walk", !.left = t, !.dials = 0]
    BY DEF Next1
<1>5. t \in Seq(Host \cup Phone) /\ 0 \in 0..MaxDials
    BY <1>3, ConsentAssumption
<1> HIDE DEF t
<1>6. QED
    BY <1>1, <1>4, <1>5 DEF Walks, Work

(* An ask goes on and its legs stay. *)
LEMMA AskGoes ==
    ASSUME IndInv, NEW a \in Ask, NEW w, Walks(w), ~At(a, "done"), Goes(a, w), UNCHANGED leg
    PROVE  /\ ask' \in [Ask -> Work]
           /\ \A b \in Ask : LegsFit(b)'
           /\ AskQuiet /\ LegQuiet
<1>1. /\ ask' \in [Ask -> Work] /\ ask'[a] = w
      /\ \A b \in Ask : b # a => ask'[b] = ask[b]
    BY GoesFacts DEF IndInv, Walks
<1>2. \A b \in Ask : LegsFit(b)'
    BY <1>1 DEF IndInv, TypeInv, LegsFit, At, Walks
<1>3. AskQuiet
    BY <1>1 DEF AskQuiet, Walks
<1>4. LegQuiet
    BY DEF LegQuiet, Now
<1>5. QED
    BY <1>1, <1>2, <1>3, <1>4

(* A leg goes on, without a new approval, and its ask stays. *)
LEMMA LegGoes ==
    ASSUME IndInv, NEW a \in Ask, NEW n \in 1..Now(a), NEW l \in Leg, UNCHANGED ask,
           \/ l.reply # "ok" \/ l.at \in said'[a]
           \/ l.reply = leg[a][n].reply /\ l.at = leg[a][n].at,
           Replaces(a, n, l)
    PROVE  /\ leg' \in [Ask -> Seq(Leg)]
           /\ \A b \in Ask : LegsFit(b)'
           /\ AskQuiet /\ LegQuiet
<1>1. /\ leg' \in [Ask -> Seq(Leg)]
      /\ \A b \in Ask : Len(leg'[b]) = Len(leg[b])
      /\ \A b \in Ask : b # a => leg'[b] = leg[b]
      /\ \A i \in 1..Now(a) : leg'[a][i] = IF i = n THEN l ELSE leg[a][i]
    BY LegReplaced DEF IndInv
<1>2. leg'[a] # <<>>
    BY <1>1, EmptySeq, TypedAsk DEF IndInv, Now
<1>3. \A b \in Ask : LegsFit(b)'
    BY <1>1, <1>2 DEF IndInv, TypeInv, LegsFit, At
<1>4. AskQuiet
    BY DEF AskQuiet
<1>5. LegQuiet
    BY <1>1 DEF LegQuiet, Now
<1>6. QED
    BY <1>1, <1>3, <1>4, <1>5

(* An ask goes on, and is through with its leg. *)
LEMMA BothGo ==
    ASSUME IndInv, NEW a \in Ask, NEW w, Walks(w), At(a, "leg"), Goes(a, w),
           NEW l \in Leg,
           l.reply # "ok" \/ (l.reply = LegOf(a).reply /\ l.at = LegOf(a).at),
           Replaces(a, Now(a), l)
    PROVE  /\ ask' \in [Ask -> Work] /\ leg' \in [Ask -> Seq(Leg)]
           /\ \A b \in Ask : LegsFit(b)'
           /\ AskQuiet /\ LegQuiet
<1>0. Now(a) \in 1..Now(a)
    BY LastLeg, TypedAsk DEF IndInv, TypeInv, LegsFit, Now
<1>1. /\ ask' \in [Ask -> Work] /\ ask'[a] = w
      /\ \A b \in Ask : b # a => ask'[b] = ask[b]
    BY GoesFacts DEF IndInv, Walks
<1>2. /\ leg' \in [Ask -> Seq(Leg)]
      /\ \A b \in Ask : Len(leg'[b]) = Len(leg[b])
      /\ \A b \in Ask : b # a => leg'[b] = leg[b]
      /\ \A i \in 1..Now(a) : leg'[a][i] = IF i = Now(a) THEN l ELSE leg[a][i]
    BY <1>0, LegReplaced DEF IndInv
<1>3. \A b \in Ask : LegsFit(b)'
    BY <1>1, <1>2 DEF IndInv, TypeInv, LegsFit, At, Walks
<1>4. AskQuiet
    BY <1>1 DEF AskQuiet, Walks, At
<1>5. LegQuiet
    BY <1>2 DEF LegQuiet, Now, LegOf
<1>6. QED
    BY <1>1, <1>2, <1>3, <1>4, <1>5

(* The ask gives up on its leg. *)
LEMMA LoseFacts ==
    ASSUME IndInv, NEW a \in Ask, At(a, "leg")
    PROVE  /\ Now(a) \in 1..Now(a) /\ LegOf(a) \in Leg
           /\ ask[a].left # <<>>
           /\ Lost(LegOf(a)) \in Leg
           /\ \/ Lost(LegOf(a)).reply # "ok"
              \/ Lost(LegOf(a)).reply = LegOf(a).reply /\ Lost(LegOf(a)).at = LegOf(a).at
           /\ Lose(a) => Replaces(a, Now(a), Lost(LegOf(a)))
<1>1. Now(a) \in 1..Now(a) /\ LegOf(a) \in Leg /\ ask[a].left # <<>>
    BY LastLeg, TypedAsk DEF IndInv, TypeInv, LegsFit, Now, LegOf
<1>2. Lose(a) => Replaces(a, Now(a), Lost(LegOf(a)))
    BY DEF Lose, LegOf, Replaces
<1>3. QED
    BY <1>1, <1>2, LostType

(* A leg replies: a lost one to nobody. *)
LEMMA RepliesFacts ==
    ASSUME TypeInv, NEW a \in Ask, NEW n \in 1..Now(a),
           NEW reply \in {"none", "ok", "denied", "unavailable"}, Replies(a, n, reply),
           leg[a][n].pc # "gone"
    PROVE  \E l \in Leg : /\ Replaces(a, n, l)
                          /\ \/ l.reply # "ok"
                             \/ l.reply = reply /\ l.at = leg[a][n].at
<1>1. leg[a][n] \in Leg
    BY TypedAsk, ElementOfSeq DEF Now
<1> DEFINE l == IF leg[a][n].lost THEN Gone
                ELSE [leg[a][n] EXCEPT !.pc = "done", !.reply = reply]
<1>2. Replaces(a, n, l)
    BY DEF Replies, Replaces
<1>3. l \in Leg /\ (l.reply # "ok" \/ (l.reply = reply /\ l.at = leg[a][n].at))
    BY <1>1, GoneType DEF Leg
<1>4. QED
    BY <1>2, <1>3

(***************************************************************************)
(* Sheets, faults and what stays.                                          *)
(***************************************************************************)
(* A sheet goes up at a host. *)
LEMMA SheetUp ==
    ASSUME TypeInv, NEW h, NEW a \in Ask, NEW n \in 0..MaxLegs,
           sheet' = [sheet EXCEPT ![h] = {<<a, n>>}]
    PROVE  sheet' \in [Host -> SUBSET Flights]
<1>1. {<<a, n>>} \in SUBSET Flights
    BY DEF Flights
<1>2. QED
    BY <1>1 DEF TypeInv, TypeOK

(* A sheet goes down. *)
LEMMA SheetDown ==
    ASSUME TypeInv, NEW a, NEW n, Down(a, n)
    PROVE  sheet' \in [Host -> SUBSET Flights]
BY DEF TypeInv, TypeOK, Down

(* Faults are bounded. *)
LEMMA FaultType ==
    ASSUME TypeInv, Fault \/ UNCHANGED faults
    PROVE  faults' \in 0..MaxFaults
BY ConsentAssumption DEF TypeInv, TypeOK, Fault

(* Only the sheets and the faults move. *)
LEMMA RestStays ==
    ASSUME TypeInv, UNCHANGED <<request, presence, grants, said, heard>>,
           sheet' \in [Host -> SUBSET Flights], Fault \/ UNCHANGED faults
    PROVE  RestQuiet
BY FaultType DEF RestQuiet, TypeInv, TypeOK

(* Only the faults move. *)
LEMMA RestStill ==
    ASSUME TypeInv, UNCHANGED <<request, presence, sheet, grants, said, heard>>,
           Fault \/ UNCHANGED faults
    PROVE  RestQuiet
BY RestStays DEF TypeInv, TypeOK

(* An ask goes on, and nothing else but the sheets. *)
LEMMA AskQuietly ==
    ASSUME IndInv, NEW a \in Ask, NEW w, Walks(w), ~At(a, "done"), Goes(a, w), UNCHANGED leg,
           RestQuiet
    PROVE  IndInv'
BY AskGoes, QuietStep DEF IndInv, TypeInv, TypeOK

(* A leg goes on, and nothing else but the sheets. *)
LEMMA LegQuietly ==
    ASSUME IndInv, NEW a \in Ask, NEW n \in 1..Now(a), NEW l \in Leg, UNCHANGED ask,
           \/ l.reply # "ok" \/ l.at \in said'[a]
           \/ l.reply = leg[a][n].reply /\ l.at = leg[a][n].at,
           Replaces(a, n, l), RestQuiet
    PROVE  IndInv'
BY LegGoes, QuietStep DEF IndInv, TypeInv, TypeOK

(* An ask is through with its leg, without an approval. *)
LEMMA BothQuietly ==
    ASSUME IndInv, NEW a \in Ask, NEW w, Walks(w), At(a, "leg"), Goes(a, w),
           NEW l \in Leg,
           l.reply # "ok" \/ (l.reply = LegOf(a).reply /\ l.at = LegOf(a).at),
           Replaces(a, Now(a), l), RestQuiet
    PROVE  IndInv'
BY BothGo, QuietStep

-----------------------------------------------------------------------------
(***************************************************************************)
(* The steps of an ask.                                                    *)
(***************************************************************************)
(* The initial state. *)
LEMMA InitInv == Init => IndInv
<1> SUFFICES ASSUME Init PROVE IndInv
    OBVIOUS
<1>1. <<>> \in Seq(Leg) /\ Len(<<>>) = 0 /\ <<>> \in Seq(Host \cup Phone)
    BY EmptySeq
<1>2. NewWork \in Work /\ NewWork.pc = "new" /\ NewWork.verdict = "none"
    BY <1>1, ConsentAssumption DEF NewWork, Work
<1>3. TypeOK
    BY <1>1, <1>2, ConsentAssumption DEF Init, TypeOK
<1>4. \A a \in Ask : LegsFit(a)
    BY <1>1, <1>2, ConsentAssumption DEF Init, LegsFit, At
<1>5. LegsSaid
    BY <1>1 DEF Init, LegsSaid, Now
<1>6. Undecided /\ GrantsEarned /\ VerdictsEarned /\ DenialStands
    BY <1>2 DEF Init, Undecided, GrantsEarned, VerdictsEarned, DenialStands
<1>7. QED
    BY <1>3, <1>4, <1>5, <1>6 DEF IndInv, TypeInv

(* Decide: a grant that is served was earned by a person. *)
LEMMA StartStep ==
    ASSUME IndInv, NEW a \in Ask, Start(a)
    PROVE  IndInv'
<1>0. TypeInv /\ ~At(a, "done") /\ RestQuiet
    BY RestStill DEF IndInv, Start, At
<1>1. CASE ~request[a].attests /\ Granted(a)
    <2> DEFINE w == [Ends(a, "ok") EXCEPT !.by = "cache"]
    <2>0. w \in Work /\ w.pc = "done" /\ w.verdict = "ok" /\ w.by = "cache"
        BY ApprovedType
    <2>1. Goes(a, w)
        BY <1>1 DEF Start
    <2> HIDE DEF w
    <2>2. /\ ask' \in [Ask -> Work] /\ ask'[a] = w
          /\ \A b \in Ask : b # a => ask'[b] = ask[b]
        BY <1>0, <2>0, <2>1, GoesFacts
    <2>3. UNCHANGED <<request, presence, leg, sheet, grants, said, heard, faults>>
        BY DEF Start
    <2>4. \A b \in Ask : LegsFit(b)'
        BY <2>0, <2>2, <2>3 DEF IndInv, TypeInv, LegsFit, At
    <2>5. TypeInv'
        BY <2>2, <2>3, <2>4 DEF IndInv, TypeInv, TypeOK
    <2>6. LegsSaid'
        BY <2>3 DEF IndInv, LegsSaid, Now
    <2>7. Undecided'
        BY <2>0, <2>2, <2>3 DEF IndInv, Undecided, At
    <2>8. \A b \in Ask : Earned(b) => Earned(b)'
        BY <1>0, <2>2, <2>3 DEF Earned, At
    <2>9. \A b \in Ask : Origin(b)' = Origin(b) /\ Key(b)' = Key(b)
        BY <2>3 DEF Origin, Key
    <2>10. GrantsEarned'
        BY <2>3, <2>8, <2>9 DEF IndInv, GrantsEarned
    <2>11. \E b \in Ask : Origin(b) = Origin(a) /\ Key(b) = Key(a) /\ Earned(b)
        BY <1>0, <1>1, TypedAsk DEF IndInv, GrantsEarned, Granted
    <2>12. ApprovedBy(a)'
        BY <1>1, <2>0, <2>2, <2>3, <2>8, <2>9, <2>11 DEF ApprovedBy
    <2>13. \A b \in Ask : b # a /\ ApprovedBy(b) => ApprovedBy(b)'
        BY <2>2, <2>3, <2>8, <2>9 DEF ApprovedBy
    <2>14. VerdictsEarned'
        BY <2>2, <2>12, <2>13 DEF IndInv, VerdictsEarned
    <2>15. DenialStands'
        BY <1>0, <2>2, <2>3 DEF IndInv, DenialStands, Undecided
    <2>16. QED
        BY <2>5, <2>6, <2>7, <2>10, <2>14, <2>15 DEF IndInv
<1>2. CASE ~(~request[a].attests /\ Granted(a))
    <2>1. Goes(a, [ask[a] EXCEPT !.pc = "probe"]) /\ UNCHANGED leg
        BY <1>2 DEF Start
    <2>2. QED
        BY <1>0, <2>1, StageWalks, AskQuietly
<1>3. QED
    BY <1>1, <1>2

(* Decide: an attended host prompts. *)
LEMMA ProbeSelfStep ==
    ASSUME IndInv, NEW a \in Ask, ProbeSelf(a)
    PROVE  IndInv'
<1>0. ~At(a, "done") /\ RestQuiet /\ UNCHANGED leg
    BY RestStill DEF IndInv, ProbeSelf, At
<1>1. \E w : Walks(w) /\ Goes(a, w)
    BY <1>0, StageWalks, OnwardWalks DEF ProbeSelf
<1>2. QED
    BY <1>0, <1>1, AskQuietly

(* prompt: the sheet goes up. *)
LEMMA PromptStep ==
    ASSUME IndInv, NEW a \in Ask, Prompt(a)
    PROVE  IndInv'
<1>0. ~At(a, "done") /\ UNCHANGED <<request, presence, leg, grants, said, heard, faults>>
    BY DEF Prompt, At
<1>1. \E w : Walks(w) /\ Goes(a, w)
    BY <1>0, StageWalks, EndsWalks DEF Prompt, Verdicts
<1>2. sheet' \in [Host -> SUBSET Flights]
    <2>1. CASE ask[a].ended
        BY <2>1 DEF Prompt, IndInv, TypeInv, TypeOK
    <2>2. CASE ~ask[a].ended
        <3>1. 0 \in 0..MaxLegs /\ sheet' = [sheet EXCEPT ![Origin(a)] = {<<a, 0>>}]
            BY <2>2, ConsentAssumption DEF Prompt
        <3>2. QED
            BY <3>1, SheetUp DEF IndInv
    <2>3. QED
        BY <2>1, <2>2
<1>3. RestQuiet
    BY <1>0, <1>2, RestStays DEF IndInv
<1>4. QED
    BY <1>0, <1>1, <1>3, AskQuietly

(* Route: the walk goes past a candidate. *)
LEMMA SkipStep ==
    ASSUME IndInv, NEW a \in Ask, Skip(a)
    PROVE  IndInv'
<1>1. RestQuiet
    BY RestStill DEF IndInv, Skip
<1>2. ~At(a, "done") /\ ask[a].left # <<>> /\ Goes(a, Next1(a)) /\ UNCHANGED leg
    BY DEF Skip, At
<1>3. QED
    BY <1>1, <1>2, Next1Walks, AskQuietly

(* Route is exhausted. *)
LEMMA ExhaustedStep ==
    ASSUME IndInv, NEW a \in Ask, Exhausted(a)
    PROVE  IndInv'
<1>1. RestQuiet /\ ~At(a, "done") /\ UNCHANGED leg
    BY RestStill DEF IndInv, Exhausted, At
<1>2. ask[a] \in Work /\ ask[a].verdict # "ok" /\ ask[a].pc = "walk" /\ request[a] \in Request
    BY <1>1, TypedAsk DEF IndInv, Undecided, Exhausted, At
<1>3. request[a].phones \in Seq(Host \cup Phone)
    BY <1>2, SeqMonotonic DEF Request
<1>4. Walks([ask[a] EXCEPT !.left = request[a].phones, !.phoned = TRUE])
    BY <1>2, <1>3 DEF Walks, Work
<1>5. \E w : Walks(w) /\ Goes(a, w)
    BY <1>4, EndsWalks DEF Exhausted, Verdicts
<1>6. QED
    BY <1>1, <1>5, AskQuietly

(* Probe, Self, Resolve or the local helper fails. *)
LEMMA FailsStep ==
    ASSUME IndInv, NEW a \in Ask, Fails(a)
    PROVE  IndInv'
<1>1. RestQuiet
    BY RestStill DEF IndInv, Fails
<1>2. ~At(a, "done") /\ Goes(a, Ends(a, "error")) /\ UNCHANGED leg
    BY DEF Fails, At
<1>3. Walks(Ends(a, "error"))
    BY EndsWalks DEF Verdicts
<1>4. QED
    BY <1>1, <1>2, <1>3, AskQuietly

(* relay, Ask: the leg's time is over. *)
LEMMA TimeoutStep ==
    ASSUME IndInv, NEW a \in Ask, Timeout(a)
    PROVE  IndInv'
<1>1. RestQuiet
    BY RestStill DEF IndInv, Timeout
<1>2. At(a, "leg") /\ ~At(a, "done") /\ Goes(a, Next1(a)) /\ Lose(a)
    BY DEF Timeout, At
<1>3. Walks(Next1(a))
    BY <1>2, LoseFacts, Next1Walks
<1>4. QED
    BY <1>1, <1>2, <1>3, LoseFacts, BothQuietly

(* Dispatch: the time of the request is over. *)
LEMMA OverStep ==
    ASSUME IndInv, NEW a \in Ask, NEW deadline \in BOOLEAN, Over(a, deadline)
    PROVE  IndInv'
<1>1. RestQuiet
    BY RestStays, SheetDown DEF IndInv, Over
<1>2. ~At(a, "done") /\ ask[a] \in Work /\ ask[a].verdict # "ok"
    BY TypedAsk DEF IndInv, Undecided, Over, At
<1>3. \A v \in {"unavailable", "error"} : Walks(Ends(a, v))
    BY EndsWalks DEF Verdicts
<1>4. CASE At(a, "leg")
    <2>1. \E w : Walks(w) /\ Goes(a, w)
        BY <1>3, <1>4 DEF Over, At
    <2>2. Lose(a)
        BY <1>4 DEF Over
    <2>3. QED
        BY <1>1, <1>4, <2>1, <2>2, LoseFacts, BothQuietly
<1>5. CASE ~At(a, "leg")
    <2>1. At(a, "wait") => Walks([ask[a] EXCEPT !.ended = TRUE])
        BY <1>2 DEF Walks, Work, At
    <2>2. \E w : Walks(w) /\ Goes(a, w)
        BY <1>3, <2>1 DEF Over
    <2>3. UNCHANGED leg
        BY <1>5 DEF Over
    <2>4. QED
        BY <1>1, <1>2, <2>2, <2>3, AskQuietly
<1>6. QED
    BY <1>4, <1>5

(* A leg is launched. *)
LEMMA LaunchGoes ==
    ASSUME IndInv, NEW a \in Ask, NEW w \in Work, NEW s \in Seq(Leg), NEW l \in Leg,
           ~At(a, "done"), w.verdict # "ok", w.left # <<>>, Goes(a, w),
           Len(s) = Now(a), Now(a) < MaxLegs, l.reply # "ok",
           \A n \in 1..Now(a) :
               \/ s[n].reply # "ok"
               \/ s[n].reply = leg[a][n].reply /\ s[n].at = leg[a][n].at,
           Appends(a, s, l), RestQuiet
    PROVE  IndInv'
<1>0. TypeInv
    BY DEF IndInv
<1>1. /\ ask' \in [Ask -> Work] /\ ask'[a] = w
      /\ \A b \in Ask : b # a => ask'[b] = ask[b]
    BY <1>0, GoesFacts
<1>2. /\ leg' \in [Ask -> Seq(Leg)]
      /\ leg'[a] # <<>> /\ Len(leg'[a]) = Now(a) + 1
      /\ \A b \in Ask : b # a => leg'[b] = leg[b]
      /\ \A i \in 1..Now(a) : leg'[a][i] = s[i]
      /\ leg'[a][Now(a) + 1] = l
    BY <1>0, LegAppended
<1>3. Now(a) \in Nat
    BY <1>0, TypedAsk
<1>4. \A b \in Ask : LegsFit(b)'
    <2> SUFFICES ASSUME NEW b \in Ask PROVE LegsFit(b)'
        OBVIOUS
    <2>1. CASE b # a
        <3>1. ask'[b] = ask[b] /\ leg'[b] = leg[b] /\ LegsFit(b)
            BY <1>0, <1>1, <1>2, <2>1 DEF TypeInv
        <3>2. QED
            BY <3>1 DEF LegsFit, At
    <2>2. CASE b = a
        <3>1. Len(leg'[a]) <= MaxLegs
            BY <1>2, <1>3, ConsentAssumption
        <3>2. QED
            BY <1>1, <1>2, <2>2, <3>1 DEF LegsFit, At
    <2>3. QED
        BY <2>1, <2>2
<1>5. AskQuiet
    BY <1>1 DEF AskQuiet
<1>6. LegQuiet
    <2> SUFFICES ASSUME NEW b \in Ask, NEW n \in 1..Len(leg'[b])
                 PROVE  \/ leg'[b][n].reply # "ok"
                        \/ /\ n \in 1..Now(b) /\ leg'[b][n].reply = leg[b][n].reply
                           /\ leg'[b][n].at = leg[b][n].at
        BY DEF LegQuiet
    <2>1. CASE b # a
        BY <1>2, <2>1 DEF Now
    <2>2. CASE b = a
        BY <1>2, <1>3, <2>2
    <2>3. QED
        BY <2>1, <2>2
<1>7. QED
    BY <1>1, <1>2, <1>4, <1>5, <1>6, QuietStep

(* Route: a candidate gets a leg, or is passed by. *)
LEMMA RelayStep ==
    ASSUME IndInv, NEW a \in Ask, Relay(a)
    PROVE  IndInv'
<1> DEFINE p == Head(ask[a].left)
<1> DEFINE pass == ~Candidate(a, p) \/ (p \in Host /\ presence[p] = "away")
<1>1. RestQuiet
    BY RestStill DEF IndInv, Relay
<1>2. /\ ~At(a, "done") /\ ask[a].left # <<>> /\ ask[a] \in Work /\ ask[a].verdict # "ok"
      /\ leg[a] \in Seq(Leg)
    BY TypedAsk DEF IndInv, Undecided, Relay, At
<1>3. CASE pass
    BY <1>1, <1>2, <1>3, Next1Walks, AskQuietly DEF Relay
<1>4. CASE ~pass
    <2> DEFINE l == NewLeg(p, IF p \in Host THEN "start" ELSE "sheet")
    <2> DEFINE w == [ask[a] EXCEPT !.pc = "leg", !.dials = 1]
    <2>1. p \in Host \cup Phone
        BY <1>2, HeadTailProperties DEF Work
    <2>2. l \in Leg /\ l.reply # "ok"
        BY <2>1, NewLegType
    <2>3. w \in Work /\ w.verdict # "ok" /\ w.left # <<>>
        <3>1. 1 \in 0..MaxDials
            BY ConsentAssumption
        <3>2. w.left = ask[a].left /\ w.verdict = ask[a].verdict
            BY <1>2 DEF Work
        <3>3. w \in Work
            BY <1>2, <3>1 DEF Work
        <3>4. QED
            BY <1>2, <3>2, <3>3
    <2>4. /\ Goes(a, w) /\ Now(a) < MaxLegs
          /\ Appends(a, leg[a], l)
        BY <1>4 DEF Relay, Launch, Appends
    <2> HIDE DEF w, l, p
    <2>5. Len(leg[a]) = Now(a)
        BY DEF Now
    <2>6. QED
        BY <1>1, <1>2, <2>2, <2>3, <2>4, <2>5, LaunchGoes
<1>5. QED
    BY <1>3, <1>4

(* ExecSSH: the session drops. *)
LEMMA DropStep ==
    ASSUME IndInv, NEW a \in Ask, Drop(a)
    PROVE  IndInv'
<1>1. RestQuiet
    BY RestStill DEF IndInv, Drop
<1>2. /\ At(a, "leg") /\ ~At(a, "done") /\ ask[a] \in Work /\ ask[a].verdict # "ok"
      /\ leg[a] \in Seq(Leg) /\ LegOf(a).at \in Host
    BY TypedAsk DEF IndInv, Undecided, Drop, At
<1>3. CASE Lose(a) /\ Goes(a, Ends(a, "error"))
    <2>1. Walks(Ends(a, "error"))
        BY EndsWalks DEF Verdicts
    <2>2. QED
        BY <1>1, <1>2, <1>3, <2>1, LoseFacts, BothQuietly
<1>4. CASE ~(Lose(a) /\ Goes(a, Ends(a, "error")))
    <2> DEFINE l == NewLeg(LegOf(a).at, "start")
    <2> DEFINE w == [ask[a] EXCEPT !.dials = @ + 1]
    <2> DEFINE s == [leg[a] EXCEPT ![Now(a)] = Lost(LegOf(a))]
    <2>1. /\ ask[a].dials < MaxDials /\ Now(a) < MaxLegs /\ Goes(a, w)
          /\ leg' = [leg EXCEPT ![a] = Append([leg[a] EXCEPT ![Now(a)] = Lost(@)], l)]
        BY <1>4 DEF Drop
    <2>0. Appends(a, s, l)
        BY <2>1 DEF LegOf, Appends
    <2>2. l \in Leg /\ l.reply # "ok"
        BY <1>2, NewLegType
    <2>3. w \in Work /\ w.verdict # "ok" /\ w.left # <<>>
        <3>1. ask[a].dials + 1 \in 0..MaxDials
            BY <1>2, <2>1, ConsentAssumption DEF Work
        <3>2. w.left = ask[a].left /\ w.verdict = ask[a].verdict
            BY <1>2 DEF Work
        <3>3. w \in Work
            BY <1>2, <3>1 DEF Work
        <3>4. QED
            BY <1>2, <3>2, <3>3, LoseFacts
    <2>4. /\ s \in Seq(Leg) /\ Len(s) = Len(leg[a])
          /\ \A i \in 1..Len(leg[a]) : s[i] = IF i = Now(a) THEN Lost(LegOf(a)) ELSE leg[a][i]
        BY <1>2, LoseFacts, ExceptSeq DEF Now
    <2> HIDE DEF w, l, s
    <2>5. \A n \in 1..Now(a) :
              \/ s[n].reply # "ok"
              \/ s[n].reply = leg[a][n].reply /\ s[n].at = leg[a][n].at
        BY <1>2, <2>4, LoseFacts DEF Now, LegOf
    <2>6. QED
        BY <1>1, <1>2, <2>0, <2>1, <2>2, <2>3, <2>4, <2>5, LaunchGoes DEF Now
<1>5. QED
    BY <1>3, <1>4

-----------------------------------------------------------------------------
(***************************************************************************)
(* The steps of a leg.                                                     *)
(***************************************************************************)
(* The legs of an ask are numbered by what a flight may bear. *)
LEMMA LegNumber ==
    ASSUME TypeInv, NEW a \in Ask, NEW n \in 1..Now(a)
    PROVE  leg[a][n] \in Leg /\ n \in 0..MaxLegs
<1>1. leg[a] \in Seq(Leg) /\ Now(a) <= MaxLegs /\ Now(a) \in Nat
    BY TypedAsk DEF TypeInv, LegsFit, Now
<1>2. QED
    BY <1>1, ElementOfSeq, ConsentAssumption DEF Now

(* Relay: the probe at the peer. *)
LEMMA LegProbeStep ==
    ASSUME IndInv, NEW a \in Ask, NEW n \in 1..Now(a), LegProbe(a, n)
    PROVE  IndInv'
<1>0. TypeInv /\ leg[a][n] \in Leg /\ leg[a][n].pc = "start" /\ UNCHANGED ask
    BY LegNumber DEF IndInv, LegProbe, LegAt
<1>1. RestQuiet
    BY <1>0, RestStill DEF LegProbe
<1>2. CASE Replies(a, n, "unavailable")
    BY <1>0, <1>1, <1>2, RepliesFacts, LegQuietly
<1>3. CASE leg' = [leg EXCEPT ![a][n].pc = "wait"]
    <2> DEFINE l == [leg[a][n] EXCEPT !.pc = "wait"]
    <2>1. l \in Leg /\ l.reply = leg[a][n].reply /\ l.at = leg[a][n].at
        BY <1>0 DEF Leg
    <2>2. Replaces(a, n, l)
        BY <1>3 DEF Replaces
    <2> HIDE DEF l
    <2>3. QED
        BY <1>0, <1>1, <2>1, <2>2, LegQuietly
<1>4. QED
    BY <1>2, <1>3 DEF LegProbe

(* prompt, at the peer. *)
LEMMA LegPromptStep ==
    ASSUME IndInv, NEW a \in Ask, NEW n \in 1..Now(a), LegPrompt(a, n)
    PROVE  IndInv'
<1>0. /\ TypeInv /\ leg[a][n] \in Leg /\ leg[a][n].pc = "wait" /\ n \in 0..MaxLegs
      /\ UNCHANGED <<request, presence, ask, grants, said, heard, faults>>
    BY LegNumber DEF IndInv, LegPrompt, LegAt
<1>1. CASE leg[a][n].closed
    <2>1. Replies(a, n, "unavailable") /\ UNCHANGED sheet
        BY <1>1 DEF LegPrompt
    <2>2. RestQuiet
        BY <1>0, <2>1, RestStill
    <2>3. QED
        BY <1>0, <2>1, <2>2, RepliesFacts, LegQuietly
<1>2. CASE ~leg[a][n].closed
    <2> DEFINE l == [leg[a][n] EXCEPT !.pc = "sheet"]
    <2>1. l \in Leg /\ l.reply = leg[a][n].reply /\ l.at = leg[a][n].at
        BY <1>0 DEF Leg
    <2>2. Replaces(a, n, l) /\ sheet' = [sheet EXCEPT ![leg[a][n].at] = {<<a, n>>}]
        BY <1>2 DEF LegPrompt, Replaces
    <2> HIDE DEF l
    <2>3. sheet' \in [Host -> SUBSET Flights]
        BY <1>0, <2>2, SheetUp
    <2>4. RestQuiet
        BY <1>0, <2>3, RestStays
    <2>5. QED
        BY <1>0, <2>1, <2>2, <2>4, LegQuietly
<1>3. QED
    BY <1>1, <1>2

(* The session of a lost leg closes. *)
LEMMA LegClosesStep ==
    ASSUME IndInv, NEW a \in Ask, NEW n \in 1..Now(a), LegCloses(a, n)
    PROVE  IndInv'
<1>0. TypeInv /\ leg[a][n] \in Leg /\ UNCHANGED ask
    BY LegNumber DEF IndInv, LegCloses
<1>1. RestQuiet
    BY <1>0, RestStays, SheetDown DEF LegCloses
<1> DEFINE l == IF leg[a][n].pc = "wait" THEN [leg[a][n] EXCEPT !.closed = TRUE] ELSE Gone
<1>2. l \in Leg /\ (l.reply # "ok" \/ (l.reply = leg[a][n].reply /\ l.at = leg[a][n].at))
    BY <1>0, GoneType DEF Leg
<1>3. Replaces(a, n, l)
    BY DEF LegCloses, Replaces
<1> HIDE DEF l
<1>4. QED
    BY <1>0, <1>1, <1>2, <1>3, LegQuietly

(* What a person says is remembered. *)
LEMMA SaysFacts ==
    ASSUME TypeInv, NEW a \in Ask, NEW p \in Host \cup Phone, NEW v, Says(a, p, v)
    PROVE  /\ said' \in [Ask -> SUBSET (Host \cup Phone)]
           /\ \A b \in Ask : said[b] \subseteq said'[b]
           /\ v = "ok" => p \in said'[a]
BY DEF TypeInv, TypeOK, Says

(* handleRelay, runRelay: only an approval at this leg is reported as one. *)
LEMMA LegAnswerStep ==
    ASSUME IndInv, NEW a \in Ask, NEW n \in 1..Now(a), NEW v \in Verdicts, LegAnswer(a, n, v)
    PROVE  IndInv'
<1> DEFINE p == leg[a][n].at
<1>0. /\ TypeInv /\ leg[a][n] \in Leg /\ leg[a][n].pc = "sheet" /\ p \in Host \cup Phone
      /\ UNCHANGED <<request, presence, ask, grants, heard>>
    BY LegNumber DEF IndInv, LegAnswer, LegAt, Leg
<1>1. /\ said' \in [Ask -> SUBSET (Host \cup Phone)]
      /\ \A b \in Ask : said[b] \subseteq said'[b]
      /\ v = "ok" => p \in said'[a]
    BY <1>0, SaysFacts DEF LegAnswer
<1>2. sheet' \in [Host -> SUBSET Flights] /\ faults' \in 0..MaxFaults
    BY <1>0, SheetDown, FaultType DEF LegAnswer
<1>3. RestQuiet
    BY <1>0, <1>1, <1>2 DEF RestQuiet, TypeInv, TypeOK
<1>4. PICK reply \in {"ok", "denied", "unavailable"} :
          Replies(a, n, reply) /\ (reply = "ok" => v = "ok")
    BY DEF LegAnswer, Verdicts
<1>5. PICK l \in Leg : /\ Replaces(a, n, l)
                       /\ l.reply # "ok" \/ (l.reply = reply /\ l.at = p)
    BY <1>0, <1>4, RepliesFacts
<1>6. l.reply # "ok" \/ l.at \in said'[a]
    BY <1>1, <1>4, <1>5
<1>7. QED
    BY <1>0, <1>3, <1>5, <1>6, LegQuietly

-----------------------------------------------------------------------------
(***************************************************************************)
(* Verdicts.                                                               *)
(***************************************************************************)
(* An ask is approved by a person, and the grant it earns is live. *)
LEMMA ApproveStep ==
    ASSUME IndInv, TypeInv', LegsSaid', NEW a \in Ask, ~At(a, "done"),
           ask'[a].pc = "done", ask'[a].by \in said'[a], ~heard'[a],
           \A b \in Ask : b # a => ask'[b] = ask[b] /\ heard'[b] = heard[b],
           request' = request, \A b \in Ask : said[b] \subseteq said'[b], Approve(a)
    PROVE  IndInv'
<1>0. TypeInv
    BY DEF IndInv
<1>1. Undecided'
    BY DEF IndInv, Undecided, At
<1>2. Earned(a)'
    BY DEF Earned, At
<1>3. \A b \in Ask : Earned(b) => Earned(b)'
    BY DEF Earned, At
<1>4. \A b \in Ask : Origin(b)' = Origin(b) /\ Key(b)' = Key(b)
    BY DEF Origin, Key
<1>5. GrantsEarned'
    <2> SUFFICES ASSUME NEW h \in Host, NEW k \in grants'[h]
                 PROVE  \E b \in Ask : (Origin(b) = h /\ Key(b) = k /\ Earned(b))'
        BY DEF GrantsEarned
    <2>1. k \in grants[h] \/ (h = Origin(a) /\ k = Key(a))
        BY <1>0 DEF Approve, TypeInv, TypeOK
    <2>2. QED
        BY <1>2, <1>3, <1>4, <2>1 DEF IndInv, GrantsEarned
<1>6. \A b \in Ask : b # a /\ ApprovedBy(b) => ApprovedBy(b)'
    BY <1>3, <1>4 DEF ApprovedBy
<1>7. VerdictsEarned'
    BY <1>2, <1>6 DEF IndInv, VerdictsEarned, ApprovedBy
<1>8. DenialStands'
    BY DEF IndInv, DenialStands
<1>9. QED
    BY <1>1, <1>5, <1>7, <1>8 DEF IndInv

(* An ask is denied. *)
LEMMA DenyStep ==
    ASSUME IndInv, TypeInv', LegsSaid', NEW a \in Ask, ~At(a, "done"),
           ask'[a].pc = "done", ask'[a].verdict # "ok",
           \A b \in Ask : b # a => ask'[b] = ask[b] /\ heard'[b] = heard[b],
           request' = request, \A b \in Ask : said[b] \subseteq said'[b], UNCHANGED grants
    PROVE  IndInv'
<1>1. Undecided'
    BY DEF IndInv, Undecided, At
<1>3. \A b \in Ask : Earned(b) => Earned(b)'
    BY DEF Earned, At
<1>4. \A b \in Ask : Origin(b)' = Origin(b) /\ Key(b)' = Key(b)
    BY DEF Origin, Key
<1>5. GrantsEarned'
    BY <1>3, <1>4 DEF IndInv, GrantsEarned
<1>6. \A b \in Ask : b # a /\ ApprovedBy(b) => ApprovedBy(b)'
    BY <1>3, <1>4 DEF ApprovedBy
<1>7. VerdictsEarned'
    BY <1>6 DEF IndInv, VerdictsEarned
<1>8. DenialStands'
    BY DEF IndInv, DenialStands
<1>9. QED
    BY <1>1, <1>5, <1>7, <1>8 DEF IndInv

(* What an ask hears. *)
LEMMA HearsFacts ==
    ASSUME TypeInv, NEW a \in Ask, NEW v, Hears(a, v)
    PROVE  /\ heard' \in [Ask -> BOOLEAN]
           /\ \A b \in Ask : b # a => heard'[b] = heard[b]
           /\ v # "denied" => heard'[a] = heard[a]
           /\ v # "denied" => heard' = heard
<1>1. heard \in [Ask -> BOOLEAN]
    BY DEF TypeInv, TypeOK
<1>2. heard' = [heard EXCEPT ![a] = (heard[a] \/ v = "denied")]
    BY DEF Hears
<1>3. heard' \in [Ask -> BOOLEAN]
    BY <1>1, <1>2
<1>4. \A b \in Ask : b # a => heard'[b] = heard[b]
    BY <1>1, <1>2
<1>5. v # "denied" => heard'[a] = heard[a]
    BY <1>1, <1>2
<1>6. v # "denied" => heard' = heard
    BY <1>1, <1>3, <1>4, <1>5
<1>7. QED
    BY <1>3, <1>4, <1>5, <1>6

(* The grant that an approval earns has its type. *)
LEMMA ApproveType ==
    ASSUME TypeInv, NEW a \in Ask, Approve(a)
    PROVE  grants' \in [Host -> SUBSET (STRING \X STRING)]
BY TypedAsk DEF Approve, TypeInv, TypeOK

(* Decide: what the prompter answered. *)
LEMMA AnswerStep ==
    ASSUME IndInv, NEW a \in Ask, NEW v \in Verdicts, Answer(a, v)
    PROVE  IndInv'
<1>0. /\ TypeInv /\ ~At(a, "done") /\ ~heard[a] /\ Origin(a) \in Host
      /\ UNCHANGED <<request, presence, leg>>
    BY TypedAsk DEF IndInv, Undecided, Answer, At
<1>1. /\ said' \in [Ask -> SUBSET (Host \cup Phone)]
      /\ \A b \in Ask : said[b] \subseteq said'[b]
      /\ v = "ok" => Origin(a) \in said'[a]
    BY <1>0, SaysFacts DEF Answer
<1>2. /\ heard' \in [Ask -> BOOLEAN]
      /\ \A b \in Ask : b # a => heard'[b] = heard[b]
      /\ v # "denied" => heard'[a] = heard[a]
      /\ v # "denied" => heard' = heard
    BY <1>0, HearsFacts DEF Answer
<1>3. sheet' \in [Host -> SUBSET Flights] /\ faults' \in 0..MaxFaults
    BY <1>0, FaultType DEF Answer, TypeInv, TypeOK
<1>4. LegsSaid'
    BY <1>0, <1>1 DEF IndInv, LegsSaid, Now
<1>5. ASSUME NEW w \in Work, w.pc # "leg", Goes(a, w),
             grants' \in [Host -> SUBSET (STRING \X STRING)]
      PROVE  /\ TypeInv' /\ ask'[a] = w
             /\ \A b \in Ask : b # a => ask'[b] = ask[b]
    <2>1. /\ ask' \in [Ask -> Work] /\ ask'[a] = w
          /\ \A b \in Ask : b # a => ask'[b] = ask[b]
        BY <1>0, <1>5, GoesFacts
    <2>2. \A b \in Ask : LegsFit(b)'
        BY <1>0, <1>5, <2>1 DEF TypeInv, LegsFit, At
    <2>3. QED
        BY <1>0, <1>1, <1>2, <1>3, <1>5, <2>1, <2>2 DEF TypeInv, TypeOK
<1>6. CASE v = "ok" /\ Approve(a)
    <2> DEFINE w == [Ends(a, "ok") EXCEPT !.by = Origin(a)]
    <2>1. CASE Goes(a, w)
        <3>1. w \in Work /\ w.pc = "done" /\ w.by = Origin(a)
            BY <1>0, ApprovedType
        <3> HIDE DEF w
        <3>2. /\ TypeInv' /\ ask'[a] = w
              /\ \A b \in Ask : b # a => ask'[b] = ask[b]
            BY <1>0, <1>5, <1>6, <2>1, <3>1, ApproveType
        <3>3. QED
            BY <1>0, <1>1, <1>2, <1>4, <1>6, <3>1, <3>2, ApproveStep
    <2>2. CASE ~Goes(a, w)
        <3>1. Goes(a, Ends(a, "error")) /\ UNCHANGED grants
            BY <1>6, <2>2 DEF Answer
        <3>2. Ends(a, "error") \in Work /\ Walks(Ends(a, "error"))
            BY EndsType, EndsWalks DEF Verdicts
        <3>3. RestQuiet
            BY <1>0, <1>1, <1>2, <1>3, <1>6, <3>1 DEF RestQuiet, TypeInv, TypeOK
        <3>4. QED
            BY <1>0, <3>1, <3>2, <3>3, AskQuietly
    <2>3. QED
        BY <2>1, <2>2
<1>7. CASE v = "ok" /\ ~Approve(a)
    <2>1. Goes(a, Ends(a, "error")) /\ UNCHANGED grants
        BY <1>7 DEF Answer
    <2>2. Walks(Ends(a, "error"))
        BY EndsWalks DEF Verdicts
    <2>3. RestQuiet
        BY <1>0, <1>1, <1>2, <1>3, <1>7, <2>1 DEF RestQuiet, TypeInv, TypeOK
    <2>4. QED
        BY <1>0, <2>1, <2>2, <2>3, AskQuietly
<1>8. CASE v \in {"unavailable", "error"}
    <2>1. UNCHANGED grants
        BY <1>8 DEF Answer
    <2>2. \E w : Walks(w) /\ Goes(a, w)
        BY <1>0, <1>8, OnwardWalks, EndsWalks DEF Answer, Verdicts
    <2>3. RestQuiet
        BY <1>0, <1>1, <1>2, <1>3, <1>8, <2>1 DEF RestQuiet, TypeInv, TypeOK
    <2>4. QED
        BY <1>0, <2>2, <2>3, AskQuietly
<1>9. CASE v = "denied"
    <2>1. Goes(a, Ends(a, "denied")) /\ UNCHANGED grants
        BY <1>9 DEF Answer
    <2>2. /\ Ends(a, "denied") \in Work /\ Ends(a, "denied").pc = "done"
          /\ Ends(a, "denied").verdict = "denied"
        BY EndsType DEF Verdicts
    <2>3. /\ TypeInv' /\ ask'[a] = Ends(a, "denied")
          /\ \A b \in Ask : b # a => ask'[b] = ask[b]
        BY <1>0, <1>5, <2>1, <2>2 DEF TypeInv, TypeOK
    <2>4. QED
        BY <1>0, <1>1, <1>2, <1>4, <2>1, <2>2, <2>3, DenyStep
<1>10. QED
    BY <1>6, <1>7, <1>8, <1>9 DEF Verdicts

(* relay: the reply of the leg. *)
LEMMA DeliverStep ==
    ASSUME IndInv, NEW a \in Ask, Deliver(a)
    PROVE  IndInv'
<1> DEFINE reply == LegOf(a).reply
<1>0. /\ TypeInv /\ At(a, "leg") /\ ~At(a, "done") /\ ~heard[a] /\ LegOf(a).pc = "done"
      /\ UNCHANGED <<request, presence, sheet, said, faults>>
    BY DEF IndInv, Undecided, Deliver, At
<1>1. Now(a) \in 1..Now(a) /\ LegOf(a) \in Leg /\ ask[a].left # <<>>
    BY <1>0, LoseFacts
<1>2. LegOf(a).at \in Host \cup Phone /\ reply \in {"none", "ok", "denied", "unavailable"}
    BY <1>0, <1>1 DEF Leg
<1>3. Replaces(a, Now(a), Gone)
    BY DEF Deliver, Replaces
<1>4. /\ leg' \in [Ask -> Seq(Leg)]
      /\ \A b \in Ask : Len(leg'[b]) = Len(leg[b])
      /\ \A b \in Ask : b # a => leg'[b] = leg[b]
      /\ \A i \in 1..Now(a) : leg'[a][i] = IF i = Now(a) THEN Gone ELSE leg[a][i]
    BY <1>0, <1>1, <1>3, GoneType, LegReplaced
<1>5. LegsSaid'
    BY <1>0, <1>4, GoneType DEF IndInv, LegsSaid, Now
<1>6. /\ heard' \in [Ask -> BOOLEAN]
      /\ \A b \in Ask : b # a => heard'[b] = heard[b]
      /\ reply # "denied" => heard'[a] = heard[a]
      /\ reply # "denied" => heard' = heard
    BY <1>0, HearsFacts DEF Deliver
<1>7. ASSUME NEW w \in Work, w.pc # "leg", Goes(a, w),
             grants' \in [Host -> SUBSET (STRING \X STRING)]
      PROVE  /\ TypeInv' /\ ask'[a] = w
             /\ \A b \in Ask : b # a => ask'[b] = ask[b]
    <2>1. /\ ask' \in [Ask -> Work] /\ ask'[a] = w
          /\ \A b \in Ask : b # a => ask'[b] = ask[b]
        BY <1>0, <1>7, GoesFacts
    <2>2. \A b \in Ask : LegsFit(b)'
        BY <1>0, <1>4, <1>7, <2>1 DEF TypeInv, LegsFit, At
    <2>3. QED
        BY <1>0, <1>4, <1>6, <1>7, <2>1, <2>2 DEF TypeInv, TypeOK
<1>8. CASE reply = "ok"
    <2> DEFINE w == [Ends(a, "ok") EXCEPT !.by = LegOf(a).at]
    <2>1. Goes(a, w) /\ Approve(a)
        BY <1>8 DEF Deliver, Answered
    <2>2. w \in Work /\ w.pc = "done" /\ w.by = LegOf(a).at
        BY <1>2, ApprovedType
    <2> HIDE DEF w
    <2>3. /\ TypeInv' /\ ask'[a] = w
          /\ \A b \in Ask : b # a => ask'[b] = ask[b]
        BY <1>0, <1>7, <2>1, <2>2, ApproveType
    <2>4. LegOf(a).at \in said'[a]
        BY <1>0, <1>1, <1>8 DEF IndInv, LegsSaid, LegOf
    <2>5. QED
        BY <1>0, <1>5, <1>6, <1>8, <2>1, <2>2, <2>3, <2>4, ApproveStep
<1>9. CASE reply = "denied"
    <2>1. Goes(a, Ends(a, "denied")) /\ UNCHANGED grants
        BY <1>9 DEF Deliver, Answered
    <2>2. /\ Ends(a, "denied") \in Work /\ Ends(a, "denied").pc = "done"
          /\ Ends(a, "denied").verdict = "denied"
        BY EndsType DEF Verdicts
    <2>3. /\ TypeInv' /\ ask'[a] = Ends(a, "denied")
          /\ \A b \in Ask : b # a => ask'[b] = ask[b]
        BY <1>0, <1>7, <2>1, <2>2 DEF TypeInv, TypeOK
    <2>4. QED
        BY <1>0, <1>5, <1>6, <2>1, <2>2, <2>3, DenyStep
<1>10. CASE reply \notin {"ok", "denied"}
    <2>1. Goes(a, Next1(a)) /\ UNCHANGED grants
        BY <1>10 DEF Deliver, Answered
    <2>2. Walks(Next1(a))
        BY <1>0, <1>1, Next1Walks
    <2>3. RestQuiet
        BY <1>0, <1>6, <1>10, <2>1 DEF RestQuiet, TypeInv, TypeOK
    <2>4. QED
        BY <1>0, <1>3, <2>1, <2>2, <2>3, GoneType, BothQuietly
<1>11. QED
    BY <1>8, <1>9, <1>10

-----------------------------------------------------------------------------
(***************************************************************************)
(* The surroundings, and the theorems.                                     *)
(***************************************************************************)
(* A grant expires: the approvals it was served for stand. *)
LEMMA ExpireStep ==
    ASSUME IndInv, NEW h \in Host, NEW k \in grants[h], Expire(h, k)
    PROVE  IndInv'
<1>1. RestQuiet
    BY DEF Expire, RestQuiet, IndInv, TypeInv, TypeOK
<1>2. AskQuiet /\ LegQuiet
    BY DEF Expire, AskQuiet, LegQuiet, Now
<1>3. ask' \in [Ask -> Work] /\ leg' \in [Ask -> Seq(Leg)] /\ \A b \in Ask : LegsFit(b)'
    BY DEF Expire, IndInv, TypeInv, TypeOK, LegsFit, At
<1>4. QED
    BY <1>1, <1>2, <1>3, QuietStep

(* People come and go. *)
LEMMA MoveStep ==
    ASSUME IndInv, NEW h \in Host, NEW who \in {"here", "other", "away"}, Move(h, who)
    PROVE  IndInv'
<1>1. RestQuiet
    BY FaultType DEF Move, RestQuiet, IndInv, TypeInv, TypeOK
<1>2. AskQuiet /\ LegQuiet
    BY DEF Move, AskQuiet, LegQuiet, Now
<1>3. ask' \in [Ask -> Work] /\ leg' \in [Ask -> Seq(Leg)] /\ \A b \in Ask : LegsFit(b)'
    BY DEF Move, IndInv, TypeInv, TypeOK, LegsFit, At
<1>4. QED
    BY <1>1, <1>2, <1>3, QuietStep

(* The invariant is inductive: an action at a time. *)
LEMMA NextInv == IndInv /\ [Next]_vars => IndInv'
<1> SUFFICES ASSUME IndInv, [Next]_vars PROVE IndInv'
    OBVIOUS
<1>1. CASE UNCHANGED vars
    <2>1. RestQuiet
        BY <1>1 DEF vars, RestQuiet, IndInv, TypeInv, TypeOK
    <2>2. AskQuiet /\ LegQuiet
        BY <1>1 DEF vars, AskQuiet, LegQuiet, Now
    <2>3. ask' \in [Ask -> Work] /\ leg' \in [Ask -> Seq(Leg)] /\ \A b \in Ask : LegsFit(b)'
        BY <1>1 DEF vars, IndInv, TypeInv, TypeOK, LegsFit, At
    <2>4. QED
        BY <2>1, <2>2, <2>3, QuietStep
<1>2. ASSUME NEW a \in Ask, AskStep(a) \/ Skip(a) \/ Drop(a) \/ Fails(a)
      PROVE  IndInv'
    BY <1>2, StartStep, ProbeSelfStep, PromptStep, RelayStep, ExhaustedStep, DeliverStep,
       TimeoutStep, SkipStep, DropStep, FailsStep DEF AskStep
<1>3. ASSUME NEW a \in Ask, NEW v \in Verdicts, Answer(a, v)
      PROVE  IndInv'
    BY <1>3, AnswerStep
<1>4. ASSUME NEW a \in Ask, NEW n \in 1..Now(a), NEW v \in Verdicts, LegAnswer(a, n, v)
      PROVE  IndInv'
    BY <1>4, LegAnswerStep
<1>5. ASSUME NEW a \in Ask, NEW n \in 1..Now(a), LegStep(a, n)
      PROVE  IndInv'
    BY <1>5, LegProbeStep, LegPromptStep, LegClosesStep DEF LegStep
<1>6. ASSUME NEW a \in Ask, NEW deadline \in BOOLEAN, Over(a, deadline)
      PROVE  IndInv'
    BY <1>6, OverStep
<1>7. ASSUME NEW h \in Host, NEW k \in grants[h], Expire(h, k)
      PROVE  IndInv'
    BY <1>7, ExpireStep
<1>8. ASSUME NEW h \in Host, NEW who \in {"here", "other", "away"}, Move(h, who)
      PROVE  IndInv'
    BY <1>8, MoveStep
<1>9. QED
    BY <1>1, <1>2, <1>3, <1>4, <1>5, <1>6, <1>7, <1>8, Zenon DEF Next

(* The invariant of the engines. *)
LEMMA Invariance == Spec => []IndInv
BY InitInv, NextInv, PTL DEF Spec

(* Every variable keeps its type: in particular an ask never has more legs than
   it may, and never waits for a leg it does not have. *)
THEOREM ConsentTyped == Spec => []TypeOK
<1>1. IndInv => TypeOK
    BY DEF IndInv, TypeInv
<1>2. QED
    BY <1>1, Invariance, PTL

(* Decide, Relay and approve: an approval is a person's, given for this ask at
   the place it names, or for an earlier one of the same requestor and subject;
   the grant of the latter may have expired since. *)
THEOREM ApprovalsAreHuman == Spec => []ApprovalIsHuman
<1>1. IndInv => ApprovalIsHuman
    BY DEF IndInv, VerdictsEarned, ApprovedBy, Earned, ApprovalIsHuman
<1>2. QED
    BY <1>1, Invariance, PTL

(* Decide and relay: once an engine has learned of a denial, its ask is never
   approved, by no leg that is still under way and by no phone. *)
THEOREM DenialsStand == Spec => []DenialStands
<1>1. IndInv => DenialStands
    BY DEF IndInv
<1>2. QED
    BY <1>1, Invariance, PTL
=============================================================================
