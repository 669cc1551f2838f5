-------------------------- MODULE AcceptanceProofs --------------------------
(***************************************************************************)
(* The receiving side of apply.v2 never loses the content behind a         *)
(* receipt, for any roots, any changes an origin may offer in any order,   *)
(* and any receipts of the time before apply.v2.                           *)
(***************************************************************************)
EXTENDS Acceptance, TLAPS

\* The change was acknowledged in full.
Acked == FullAck /\ ~Incomplete /\ ~Refused

\* Somebody keeps the roots of the change: nobody has to, its own accepted
\* owner, or the acked owner.
Kept(c) == c.roots = {} \/ c \in accepted \/ c.roots \subseteq ackedRoots

(* What the consumer holds is complete and kept. *)
HeldKept == receipt = recorded => receipt.roots \subseteq has /\ Kept(receipt)

(* The change at hand was offered, and has its owner from its pin on. *)
CurKept ==
    /\ pc # "idle" => cur \in Offers
    /\ pc \in {"ready", "consume", "judge", "record"} => cur.roots = {} \/ cur \in accepted

(* What was found ready stays in the store. *)
ReadyKept ==
    /\ pc \in {"idle", "pin", "ready"} => ready = {}
    /\ pc \in {"consume", "judge", "record"} => ready \subseteq cur.roots \cap has

(* The owners found at the start are those of now, but for the change at hand. *)
PriorCurrent ==
    /\ pc \in {"pin", "ready", "consume", "judge", "record"} => accepted \subseteq prior \cup {cur}
    /\ pc \in {"pin", "ready", "consume"} \/ (pc = "judge" /\ answer = "error") =>
          (receipt = recorded =>
              receipt.roots = {} \/ receipt \in prior \/ receipt.roots \subseteq ackedRoots)

(* What an answer says of the consumer. *)
AnswerTrue ==
    pc \in {"judge", "record"} =>
        /\ answer # "none"
        /\ answer = "applied" => receipt = cur
        /\ answer = "replay" => receipt = cur
        /\ answer \in {"stale", "needSnapshot", "refused"} => receipt # cur
        /\ answer = "partial" => receipt # recorded

(* What goes on record was acknowledged, or is held in part. *)
RecordDue == pc = "record" => answer = "partial" \/ Acked

(* What is released keeps no held roots; all owners go after an
   acknowledgement, at most the change's own otherwise. *)
ReleaseSafe ==
    pc = "release" =>
        /\ receipt = recorded /\ receipt \in todo =>
              receipt.roots = {} \/ receipt.roots \subseteq ackedRoots
        /\ todo \subseteq {cur} \/ answer = "partial" \/ Acked
        /\ Acked => accepted \subseteq todo

IndInv ==
    /\ TypeOK
    /\ HeldKept /\ CurKept /\ ReadyKept /\ PriorCurrent /\ AnswerTrue /\ RecordDue /\ ReleaseSafe

-----------------------------------------------------------------------------
(***************************************************************************)
(* The operators.                                                          *)
(***************************************************************************)
(* Fence: a change is a replay of itself and of nothing else. *)
LEMMA FenceVerdicts ==
    ASSUME NEW held, NEW c
    PROVE  /\ Fence(held, c) \in {"replay", "stale", "needSnapshot", "apply"}
           /\ Fence(held, c) = "replay" <=> held = c
BY DEF Fence

(* An offered change carries roots, and is none of the receipts of the time
   before unless it has no roots; a receipt of one of its payloads is its own
   or has no roots. *)
LEMMA OfferFacts ==
    ASSUME NEW c \in Offers, NEW r \in Offers \cup V1Receipts \cup {NoChange}
    PROVE  /\ c.roots \subseteq Root
           /\ Digest(r) = Digest(c) => r = c \/ r.roots = {}
<1>1. c \in Change
    BY OffersAssumption
<1>2. CASE r \in Offers
    BY <1>1, <1>2, OffersAssumption DEF Change
<1>3. CASE r \in V1Receipts
    BY <1>1, <1>3, V1Assumption DEF Change
<1>4. CASE r = NoChange
    BY <1>1, <1>4 DEF Change, NoChange
<1>5. QED
    BY <1>2, <1>3, <1>4

(* What goes on record in full is what the consumer holds, or what it holds
   has no roots. *)
LEMMA AckedIsReceipt ==
    ASSUME TypeOK, AnswerTrue, pc \in {"judge", "record"}, cur \in Offers, Acked
    PROVE  receipt = cur \/ receipt.roots = {}
BY OfferFacts DEF TypeOK, AnswerTrue, Acked, FullAck, Refused, Holds

-----------------------------------------------------------------------------
(***************************************************************************)
(* The invariant.                                                          *)
(***************************************************************************)
LEMMA InitInv == Init => IndInv
<1> SUFFICES ASSUME Init PROVE IndInv
    OBVIOUS
<1>1. receipt.roots = {}
    BY V1Assumption DEF Init, NoChange
<1>2. QED
    BY <1>1 DEF Init, IndInv, TypeOK, HeldKept, Kept, CurKept, ReadyKept, PriorCurrent,
        AnswerTrue, RecordDue, ReleaseSafe, Answers

(* Every step keeps the invariant. *)
LEMMA NextInv == IndInv /\ [Next]_vars => IndInv'
<1> SUFFICES ASSUME IndInv, [Next]_vars PROVE IndInv'
    OBVIOUS
<1> USE DEF IndInv, TypeOK, HeldKept, Kept, CurKept, ReadyKept, PriorCurrent, AnswerTrue,
        RecordDue, ReleaseSafe, Acked, FullAck, Incomplete, Refused, Holds,
        Answers, Step, Return, storeVars, consumerVars, callVars
<1>1. ASSUME NEW c \in Offers, Begin(c) PROVE IndInv'
    BY <1>1 DEF Begin
<1>2. CASE PinIncoming
    BY <1>2 DEF PinIncoming
<1>3. CASE ReadyRoots
    BY <1>3, OfferFacts DEF ReadyRoots
<1>4. CASE Consume
    BY <1>4, FenceVerdicts DEF Consume
<1>5. CASE Judge
    BY <1>5 DEF Judge
<1>6. CASE RecordAcked
    <2>1. cur \in Offers /\ cur.roots \subseteq Root
        BY <1>6, OfferFacts DEF RecordAcked
    <2>2. receipt = recorded => receipt = cur \/ receipt.roots = {}
        BY <1>6, <2>1, AckedIsReceipt DEF RecordAcked
    <2>3. QED
        BY <1>6, <2>1, <2>2 DEF RecordAcked
<1>7. CASE Release
    BY <1>7 DEF Release
<1>8. CASE Reply \/ StoreFails \/ Crash
    BY <1>8 DEF Reply, StoreFails, Crash
<1>9. ASSUME NEW r \in Root, Arrive(r) PROVE IndInv'
    BY <1>9 DEF Arrive
<1>10. ASSUME NEW r \in Root, Collect(r) PROVE IndInv'
    BY <1>10 DEF Collect, Pinned
<1>11. CASE UNCHANGED vars
    BY <1>11 DEF vars
<1>12. QED
    BY <1>1, <1>2, <1>3, <1>4, <1>5, <1>6, <1>7, <1>8, <1>9, <1>10, <1>11 DEF Next


(* The invariant holds of every reachable state. *)
LEMMA Invariance == Spec => []IndInv
BY InitInv, NextInv, PTL DEF Spec

-----------------------------------------------------------------------------
(* Every state of the receiver is well typed. *)
THEOREM AcceptanceTyped == Spec => []TypeOK
<1>1. IndInv => TypeOK
    BY DEF IndInv
<1>2. QED
    BY <1>1, Invariance, PTL

(* The content behind a receipt is never lost: applyArtifacts keeps the roots
   of the change the consumer holds pinned and complete, through interrupted
   acknowledgements, failing and refused changes, duplicates and crashes. *)
THEOREM HeldRootsAreSafe == Spec => []HeldRootsSafe
<1>1. IndInv => HeldRootsSafe
    BY DEF IndInv, HeldKept, Kept, HeldRootsSafe, Pinned
<1>2. QED
    BY <1>1, Invariance, PTL

(* Only a change that goes on record releases the owners of others. *)
THEOREM OthersAreNotReleased == Spec => OthersStayAccepted
<1> DEFINE Spared(c) ==
        c = cur \/ answer \in {"partial"} \/ (FullAck /\ ~Incomplete /\ ~Refused)
<1>1. ASSUME IndInv, [Next]_vars, NEW c \in accepted \ accepted'
      PROVE  Spared(c)
    <2>1. CASE PinIncoming
        BY <1>1, <2>1 DEF PinIncoming
    <2>2. CASE Release
        BY <1>1, <2>2 DEF Release, IndInv, ReleaseSafe, Acked
    <2>3. CASE ~PinIncoming /\ ~Release
        BY <1>1, <2>3 DEF Next, vars, storeVars, Begin, ReadyRoots, Consume, Judge,
            RecordAcked, Reply, StoreFails, Crash, Arrive, Collect
    <2>4. QED
        BY <2>1, <2>2, <2>3
<1>2. IndInv /\ [Next]_vars => \A c \in accepted \ accepted' : Spared(c)
    BY <1>1
<1>3. Spec => [][Next]_vars
    BY DEF Spec
<1>4. QED
    BY <1>2, <1>3, Invariance, PTL DEF OthersStayAccepted

(* An acknowledged call leaves no accepted owner of the origin behind. *)
THEOREM AcksReleaseAll == Spec => AckLeavesNoneAccepted
<1>1. IndInv => (Reply /\ FullAck /\ ~Refused /\ ~Incomplete => accepted = {})
    BY DEF IndInv, ReleaseSafe, Acked, Reply
<1>2. Spec => [][Next]_vars
    BY DEF Spec
<1>3. QED
    BY <1>1, <1>2, Invariance, PTL DEF AckLeavesNoneAccepted

=============================================================================
