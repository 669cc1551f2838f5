------------------------------ MODULE Consent ------------------------------
(***************************************************************************)
(* The consent engines of a mesh: Decide on the host that asks, the        *)
(* Router's walk over the other hosts, the Relay leg on each of them, and  *)
(* the phones of an attesting ask.                                         *)
(*                                                                         *)
(* A sheet is a prompt on a host's screen; promptMu of that host guards    *)
(* it.  Who is at a host is one of three: "here" is attended, "other" is a *)
(* live console of another user, "away" is any console that is not live.   *)
(* A leg is one execution of the relay command on a host, or one request   *)
(* parked for a phone; a leg that its ask gave up on is lost, and goes on  *)
(* until its session closes.                                               *)
(***************************************************************************)
EXTENDS Naturals, Sequences, FiniteSets

CONSTANTS
    Host,       \* hosts with an engine
    Phone,      \* phones that may be asked
    Ask,        \* the asks
    Requests,   \* what the asks may be: functions from Ask to Request
    Peers,      \* per host, the other hosts in the order of its registry
    MaxDials,   \* dial addresses of a host
    MaxLegs,    \* bound on the legs of an ask
    MaxFaults   \* bound on the failures, and on changes of who is where

Request == [origin: Host, requestor: STRING, subject: STRING, attests: BOOLEAN,
            ttl: BOOLEAN, localOnly: BOOLEAN, approvers: SUBSET Host, phones: Seq(Phone)]

ASSUME ConsentAssumption ==
    /\ \A r \in Requests : r \in [Ask -> Request]
    /\ Peers \in [Host -> Seq(Host)]
    /\ MaxDials \in Nat \ {0} /\ MaxLegs \in Nat /\ MaxFaults \in Nat

VARIABLES
    request,    \* per ask, what it is
    presence,   \* per host, who is there
    ask,        \* per ask, the engine's work on it
    leg,        \* per ask, its legs
    sheet,      \* per host, the flight that holds promptMu: its sheet is up
    grants,     \* per host, the grants that are live
    said,       \* per ask, where people approved it (history)
    heard,      \* per ask, whether its engine learned of a denial (history)
    faults

vars == <<request, presence, ask, leg, sheet, grants, said, heard, faults>>

Verdicts == {"ok", "denied", "unavailable", "error"}

Work == [pc: {"new", "probe", "wait", "sheet", "walk", "leg", "done"},
         left: Seq(Host \cup Phone), dials: 0..MaxDials, phoned: BOOLEAN, ended: BOOLEAN,
         verdict: Verdicts \cup {"none"}, by: Host \cup Phone \cup {"cache", "none"}]

NewWork == [pc |-> "new", left |-> <<>>, dials |-> 0, phoned |-> FALSE, ended |-> FALSE,
            verdict |-> "none", by |-> "none"]

Leg == {l \in [pc: {"start", "wait", "sheet", "done", "gone"}, at: Host \cup Phone \cup {"none"},
               lost: BOOLEAN, closed: BOOLEAN, reply: {"none", "ok", "denied", "unavailable"}] :
            l.pc # "gone" => l.at \in Host \cup Phone}

NewLeg(p, pc) == [pc |-> pc, at |-> p, lost |-> FALSE, closed |-> FALSE, reply |-> "none"]

\* A leg that is over and has no more effect.
Gone == NewLeg("none", "gone")

(* A flight is an ask, under 0, or one of its legs, under its number. *)
Flights == Ask \X (0..MaxLegs)

TypeOK ==
    /\ request \in Requests
    /\ presence \in [Host -> {"here", "other", "away"}]
    /\ ask \in [Ask -> Work]
    /\ leg \in [Ask -> Seq(Leg)]
    /\ sheet \in [Host -> SUBSET Flights]
    /\ grants \in [Host -> SUBSET (STRING \X STRING)]
    /\ said \in [Ask -> SUBSET (Host \cup Phone)]
    /\ heard \in [Ask -> BOOLEAN]
    /\ faults \in 0..MaxFaults

Init ==
    /\ request \in Requests
    /\ presence \in [Host -> {"here", "away"}]
    /\ ask = [a \in Ask |-> NewWork]
    /\ leg = [a \in Ask |-> <<>>]
    /\ sheet = [h \in Host |-> {}]
    /\ grants = [h \in Host |-> {}]
    /\ said = [a \in Ask |-> {}]
    /\ heard = [a \in Ask |-> FALSE]
    /\ faults = 0

Fault == faults < MaxFaults /\ faults' = faults + 1

-----------------------------------------------------------------------------
Origin(a) == request[a].origin
Key(a)    == <<request[a].requestor, request[a].subject>>
At(a, pc) == ask[a].pc = pc

Goes(a, w) == ask' = [ask EXCEPT ![a] = w]

Ends(a, verdict) == [NewWork EXCEPT !.pc = "done", !.verdict = verdict]

\* Mutant of Granted: any requestor is served.
GrantedToAny(a) == \E k \in grants[Origin(a)] : k[2] = request[a].subject

\* Granted.
Granted(a) == Key(a) \in grants[Origin(a)]

\* approve: the grant an approval earns.
Approve(a) ==
    grants' = [grants EXCEPT ![Origin(a)] =
                  IF request[a].ttl /\ ~request[a].attests THEN @ \cup {Key(a)} ELSE @]

\* route: the peers the ask may go to.  The others are taken out when the walk
\* comes to them.
Candidate(a, p) == p \in Phone \/ p \in request[a].approvers

\* What comes after a local gate that cannot fire.
Onward(a) ==
    IF request[a].localOnly THEN Ends(a, "unavailable")
    ELSE [ask[a] EXCEPT !.pc = "walk", !.left = Peers[Origin(a)]]

\* Decide: a live grant is served.
Start(a) ==
    /\ At(a, "new")
    /\ Goes(a, IF ~request[a].attests /\ Granted(a)
               THEN [Ends(a, "ok") EXCEPT !.by = "cache"]
               ELSE [ask[a] EXCEPT !.pc = "probe"])
    /\ UNCHANGED <<request, presence, leg, sheet, grants, said, heard, faults>>

\* Decide: an attended host prompts, behind promptMu.
ProbeSelf(a) ==
    /\ At(a, "probe")
    /\ Goes(a, IF presence[Origin(a)] = "here" THEN [ask[a] EXCEPT !.pc = "wait"]
               ELSE Onward(a))
    /\ UNCHANGED <<request, presence, leg, sheet, grants, said, heard, faults>>

\* prompt: promptMu is free.  The lock does not look at the context; the
\* prompter does, and shows nothing for a request that is over.
Prompt(a) ==
    /\ At(a, "wait")
    /\ sheet[Origin(a)] = {}
    /\ IF ask[a].ended THEN Goes(a, Ends(a, "error")) /\ UNCHANGED sheet
       ELSE /\ Goes(a, [ask[a] EXCEPT !.pc = "sheet"])
            /\ sheet' = [sheet EXCEPT ![Origin(a)] = {<<a, 0>>}]
    /\ UNCHANGED <<request, presence, leg, grants, said, heard, faults>>

Says(a, p, v) == said' = [said EXCEPT ![a] = IF v = "ok" THEN @ \cup {p} ELSE @]

Hears(a, v) == heard' = [heard EXCEPT ![a] = @ \/ v = "denied"]

\* Decide: what the prompter answered.  An approval is lost when the host does
\* not know its own name.
Answer(a, v) ==
    /\ At(a, "sheet")
    /\ sheet' = [sheet EXCEPT ![Origin(a)] = {}]
    /\ Says(a, Origin(a), v)
    /\ Hears(a, v)
    /\ \/ /\ Goes(a, CASE v = "ok"          -> [Ends(a, "ok") EXCEPT !.by = Origin(a)]
                       [] v = "unavailable" -> Onward(a)
                       [] OTHER             -> Ends(a, v))
          /\ IF v = "ok" THEN Approve(a) ELSE UNCHANGED grants
          /\ UNCHANGED faults
       \/ v = "ok" /\ Fault /\ Goes(a, Ends(a, "error")) /\ UNCHANGED grants
    /\ UNCHANGED <<request, presence, leg>>

-----------------------------------------------------------------------------
(***************************************************************************)
(* The walk.                                                               *)
(***************************************************************************)
Now(a)  == Len(leg[a])
LegOf(a) == leg[a][Now(a)]

\* The walk moves on: past the phones nobody is left.
Next1(a) == [ask[a] EXCEPT !.pc = "walk", !.left = Tail(@), !.dials = 0]

Launch(a, l, dials) ==
    /\ Now(a) < MaxLegs
    /\ leg' = [leg EXCEPT ![a] = Append(@, l)]
    /\ Goes(a, [ask[a] EXCEPT !.pc = "leg", !.dials = dials])

\* Route: a candidate with a live console gets a relay leg, any other is
\* skipped.
Relay(a) ==
    /\ At(a, "walk")
    /\ ask[a].left # <<>>
    /\ LET p == Head(ask[a].left)
       IN  IF ~Candidate(a, p) \/ (p \in Host /\ presence[p] = "away")
           THEN Goes(a, Next1(a)) /\ UNCHANGED leg
           ELSE Launch(a, NewLeg(p, IF p \in Host THEN "start" ELSE "sheet"), 1)
    /\ UNCHANGED <<request, presence, sheet, grants, said, heard, faults>>

\* The probe of a candidate fails in a way the walk goes around; a phone
\* cannot be pushed to.
Skip(a) ==
    /\ At(a, "walk")
    /\ ask[a].left # <<>>
    /\ Fault
    /\ Goes(a, Next1(a))
    /\ UNCHANGED <<request, presence, leg, sheet, grants, said, heard>>

\* Route is exhausted: an attesting ask goes on to its phones, once.
Exhausted(a) ==
    /\ At(a, "walk")
    /\ ask[a].left = <<>>
    /\ Goes(a, IF request[a].attests /\ request[a].phones # <<>> /\ ~ask[a].phoned
               THEN [ask[a] EXCEPT !.left = request[a].phones, !.phoned = TRUE]
               ELSE Ends(a, "unavailable"))
    /\ UNCHANGED <<request, presence, leg, sheet, grants, said, heard, faults>>

\* The ask gives up on its leg.  A phone's leg ends with it.
Lost(l) == IF l.pc = "done" \/ l.at \in Phone THEN Gone ELSE [l EXCEPT !.lost = TRUE]

Lose(a) == leg' = [leg EXCEPT ![a][Now(a)] = Lost(@)]

\* Mutant of Answered: a denial sends the ask on to the next candidate.
AnsweredNext(a, reply) ==
    IF reply = "ok" THEN [Ends(a, "ok") EXCEPT !.by = LegOf(a).at] ELSE Next1(a)

\* relay: what the walk makes of a reply.
Answered(a, reply) ==
    CASE reply = "ok"     -> [Ends(a, "ok") EXCEPT !.by = LegOf(a).at]
      [] reply = "denied" -> Ends(a, "denied")
      [] OTHER            -> Next1(a)

\* relay: the reply of the leg.
Deliver(a) ==
    /\ At(a, "leg")
    /\ LegOf(a).pc = "done"
    /\ LET reply == LegOf(a).reply
       IN  /\ Goes(a, Answered(a, reply))
           /\ IF reply = "ok" THEN Approve(a) ELSE UNCHANGED grants
           /\ Hears(a, reply)
    /\ leg' = [leg EXCEPT ![a][Now(a)] = Gone]
    /\ UNCHANGED <<request, presence, sheet, said, faults>>

\* relay, Ask: the leg's time is over; an answer on its way is lost in this.
Timeout(a) ==
    /\ At(a, "leg")
    /\ Lose(a)
    /\ Goes(a, Next1(a))
    /\ UNCHANGED <<request, presence, sheet, grants, said, heard, faults>>

\* ExecSSH: the session of the leg drops, and the command is run again over
\* the next address; without one, or for any other failure, the ask fails.
Drop(a) ==
    /\ At(a, "leg")
    /\ LegOf(a).at \in Host
    /\ Fault
    /\ \/ /\ ask[a].dials < MaxDials /\ Now(a) < MaxLegs
          /\ leg' = [leg EXCEPT ![a] = Append([leg[a] EXCEPT ![Now(a)] = Lost(@)],
                                              NewLeg(LegOf(a).at, "start"))]
          /\ Goes(a, [ask[a] EXCEPT !.dials = @ + 1])
       \/ Lose(a) /\ Goes(a, Ends(a, "error"))
    /\ UNCHANGED <<request, presence, sheet, grants, said, heard>>

-----------------------------------------------------------------------------
(***************************************************************************)
(* A leg, at the peer.                                                     *)
(***************************************************************************)
LegAt(a, n, pc) == n \in 1..Now(a) /\ leg[a][n].pc = pc

Replies(a, n, reply) ==
    leg' = [leg EXCEPT ![a][n] = IF @.lost THEN Gone ELSE [@ EXCEPT !.pc = "done", !.reply = reply]]

\* Relay: a host nobody attends is unavailable, and so is one that fails.
LegProbe(a, n) ==
    /\ LegAt(a, n, "start")
    /\ \/ /\ presence[leg[a][n].at] = "here"
          /\ leg' = [leg EXCEPT ![a][n].pc = "wait"]
          /\ UNCHANGED faults
       \/ /\ presence[leg[a][n].at] # "here"
          /\ Replies(a, n, "unavailable")
          /\ UNCHANGED faults
       \/ Fault /\ Replies(a, n, "unavailable")
    /\ UNCHANGED <<request, presence, ask, sheet, grants, said, heard>>

LegPrompt(a, n) ==
    /\ LegAt(a, n, "wait")
    /\ sheet[leg[a][n].at] = {}
    /\ IF leg[a][n].closed THEN Replies(a, n, "unavailable") /\ UNCHANGED sheet
       ELSE /\ leg' = [leg EXCEPT ![a][n].pc = "sheet"]
            /\ sheet' = [sheet EXCEPT ![leg[a][n].at] = {<<a, n>>}]
    /\ UNCHANGED <<request, presence, ask, grants, said, heard, faults>>

\* Mutant of Down: an ask that is over leaves its sheet up.
DownWhenAnswered(a, n) ==
    sheet' = [h \in Host |-> IF n = 0 THEN sheet[h] ELSE sheet[h] \ {<<a, n>>}]

\* The sheet goes down.
Down(a, n) ==
    sheet' = [h \in Host |-> sheet[h] \ {<<a, n>>}]

\* ServeHTTP: a phone gives one answer, and no other than these two.
MaySay(p, v) == p \in Phone => v \in {"ok", "denied"}

\* handleRelay and runRelay: a failure is folded into unavailable, also one
\* that comes after the approval.
LegAnswer(a, n, v) ==
    /\ LegAt(a, n, "sheet")
    /\ MaySay(leg[a][n].at, v)
    /\ Down(a, n)
    /\ Says(a, leg[a][n].at, v)
    /\ \/ Replies(a, n, IF v = "error" THEN "unavailable" ELSE v) /\ UNCHANGED faults
       \/ /\ v = "ok" /\ leg[a][n].at \in Host /\ Fault
          /\ Replies(a, n, "unavailable")
    /\ UNCHANGED <<request, presence, ask, grants, heard>>

\* The session of a lost leg closes at the peer, which takes its sheet down.
LegCloses(a, n) ==
    /\ n \in 1..Now(a)
    /\ leg[a][n].lost /\ ~leg[a][n].closed
    /\ leg' = [leg EXCEPT ![a][n] = IF @.pc = "wait" THEN [@ EXCEPT !.closed = TRUE] ELSE Gone]
    /\ Down(a, n)
    /\ UNCHANGED <<request, presence, ask, grants, said, heard, faults>>

-----------------------------------------------------------------------------
(***************************************************************************)
(* The end of a request's time, and its surroundings.                      *)
(***************************************************************************)
\* Dispatch: the window of the request passes, or its caller goes away.  The
\* sheet goes down; an ask in the queue of promptMu stays in it.  A walk takes
\* the deadline for candidates that do not answer, and fails when canceled.
Over(a, deadline) ==
    /\ ask[a].pc \in {"probe", "wait", "sheet", "walk", "leg"} /\ ~ask[a].ended
    /\ Goes(a, IF At(a, "wait") THEN [ask[a] EXCEPT !.ended = TRUE]
               ELSE Ends(a, IF /\ ask[a].pc \in {"walk", "leg"}
                               /\ deadline \/ (At(a, "leg") /\ LegOf(a).at \in Phone)
                            THEN "unavailable" ELSE "error"))
    /\ IF At(a, "leg") THEN Lose(a) ELSE UNCHANGED leg
    /\ Down(a, 0)
    /\ UNCHANGED <<request, presence, grants, said, heard, faults>>

\* Probe, Self, Resolve or the local helper fails: fatal.
Fails(a) ==
    /\ ask[a].pc \in {"probe", "walk"}
    /\ Fault
    /\ Goes(a, Ends(a, "error"))
    /\ UNCHANGED <<request, presence, leg, sheet, grants, said, heard>>

Expire(h, k) ==
    /\ k \in grants[h]
    /\ grants' = [grants EXCEPT ![h] = @ \ {k}]
    /\ UNCHANGED <<request, presence, ask, leg, sheet, said, heard, faults>>

Move(h, who) ==
    /\ Fault
    /\ presence' = [presence EXCEPT ![h] = who]
    /\ UNCHANGED <<request, ask, leg, sheet, grants, said, heard>>

AskStep(a) ==
    \/ Start(a) \/ ProbeSelf(a) \/ Prompt(a) \/ Relay(a) \/ Exhausted(a) \/ Deliver(a)
    \/ Timeout(a)

LegStep(a, n) == LegProbe(a, n) \/ LegPrompt(a, n) \/ LegCloses(a, n)

Next ==
    \/ \E a \in Ask :
        \/ AskStep(a) \/ Skip(a) \/ Drop(a) \/ Fails(a)
        \/ \E v \in Verdicts : Answer(a, v) \/ \E n \in 1..Now(a) : LegAnswer(a, n, v)
        \/ \E n \in 1..Now(a) : LegStep(a, n)
        \/ \E deadline \in BOOLEAN : Over(a, deadline)
    \/ \E h \in Host :
        \/ \E k \in grants[h] : Expire(h, k)
        \/ \E who \in {"here", "other", "away"} : Move(h, who)

Spec == Init /\ [][Next]_vars

(***************************************************************************)
(* Fairness: an engine works on its asks, a timer fires, a closed session  *)
(* is noticed.  Nobody has to answer a sheet.                              *)
(***************************************************************************)
Fairness ==
    \A a \in Ask :
        /\ WF_vars(AskStep(a))
        /\ WF_vars(Over(a, TRUE))
        /\ \A n \in 1..MaxLegs : WF_vars(LegStep(a, n))

FairSpec == Spec /\ Fairness

-----------------------------------------------------------------------------
(* An approval is a person's: the one of the host or phone it names, for this
   very ask; or, for an ask that wants no signature, one that the same
   requestor was given here for the same subject, by a person. *)
ApprovalIsHuman ==
    \A a \in Ask : ask[a].verdict = "ok" =>
        \/ ask[a].by \in said[a]
        \/ /\ ask[a].by = "cache" /\ ~request[a].attests
           /\ \E b \in Ask : /\ Origin(b) = Origin(a) /\ Key(b) = Key(a)
                             /\ ask[b].by \in said[b]

(* A denial is terminal: once the engine of an ask learns of one, from its own
   sheet, from a peer or from a phone, the ask is never approved. *)
DenialStands == \A a \in Ask : heard[a] => ask[a].verdict # "ok"

(* Every ask is answered, although nobody may touch a sheet, and sheets of
   other asks are in the way. *)
AsksAreDecided == \A a \in Ask : At(a, "probe") ~> At(a, "done")
=============================================================================
