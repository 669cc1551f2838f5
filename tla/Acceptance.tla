----------------------------- MODULE Acceptance -----------------------------
(***************************************************************************)
(* The receiving side of apply.v2: applyArtifacts in                       *)
(* syncservice/register_artifact.go, for the changes of one origin.  The   *)
(* handler pins the roots of a change under an owner of its own            *)
(* (synckit.accepted/origin/change), computes which roots are complete,    *)
(* asks the consumer, and on success moves the roots to the one owner      *)
(* synckit.acked/origin and releases every accepted owner.  It is          *)
(* registered as exclusive, so two calls never overlap; the store's        *)
(* collector and the arrival of objects run between any two of its steps,  *)
(* every store call may fail, and the daemon may crash anywhere.           *)
(***************************************************************************)
EXTENDS Changes

CONSTANTS
    Offers,        \* the changes the origin may deliver, in any order
    V1Receipts     \* receipts of applies before this receiver served apply.v2

(* ArtifactConsumer: the roots are derived deterministically from the payload. *)
ASSUME OffersAssumption ==
    /\ Offers \subseteq Change
    /\ \A c, d \in Offers : Digest(c) = Digest(d) => c = d

ASSUME V1Assumption == V1Receipts \subseteq {c \in Change : c.roots = {}}

VARIABLES
    (* Durable: the changes whose accepted owner has a pin set, the roots of
       the acked owner, and the roots whose closure the store holds. *)
    accepted, ackedRoots, has,
    (* The consumer: the receipt of its last complete apply, and the change it
       last recorded, completely or not. *)
    receipt, recorded,
    (* The call in progress: program counter, change, owners found at the start,
       ready roots, the consumer's answer and the owners left to release. *)
    pc, cur, prior, ready, answer, todo

storeVars    == <<accepted, ackedRoots>>
consumerVars == <<receipt, recorded>>
callVars     == <<pc, cur, prior, ready, answer, todo>>
vars         == <<storeVars, has, consumerVars, callVars>>

Answers == {"none", "applied", "replay", "stale", "partial", "needSnapshot", "refused", "error"}

TypeOK ==
    /\ accepted \subseteq Offers
    /\ ackedRoots \subseteq Root
    /\ has \subseteq Root
    /\ receipt \in Offers \cup V1Receipts \cup {NoChange}
    /\ recorded \in Offers \cup V1Receipts \cup {NoChange}
    /\ pc \in {"idle", "pin", "ready", "consume", "judge", "record", "release"}
    /\ cur \in Offers \cup {NoChange}
    /\ prior \subseteq Offers
    /\ ready \subseteq Root
    /\ answer \in Answers
    /\ todo \subseteq Offers

Init ==
    /\ accepted = {} /\ ackedRoots = {}
    /\ has = {}
    /\ receipt \in V1Receipts \cup {NoChange} /\ recorded = receipt
    /\ pc = "idle" /\ cur = NoChange
    /\ prior = {} /\ ready = {} /\ answer = "none" /\ todo = {}

\* What the collector keeps: the roots some pin set names.
Pinned == ackedRoots \cup UNION {c.roots : c \in accepted}

Return ==
    /\ pc' = "idle" /\ cur' = NoChange
    /\ prior' = {} /\ ready' = {} /\ answer' = "none" /\ todo' = {}

Step(label) == pc' = label

-----------------------------------------------------------------------------
(***************************************************************************)
(* applyArtifacts.                                                         *)
(***************************************************************************)
\* acceptedOwners: remember which changes of the origin have an owner.
Begin(c) ==
    /\ pc = "idle"
    /\ Step("pin")
    /\ cur' = c
    /\ prior' = accepted
    /\ UNCHANGED <<ready, answer, todo, storeVars, has, consumerVars>>

\* Mutant of PinIncoming: readiness is computed before the roots are pinned.
PinIncomingLate ==
    /\ pc = "pin"
    /\ accepted' = accepted
    /\ Step("ready")
    /\ UNCHANGED <<ackedRoots, has, consumerVars, cur, prior, ready, answer, todo>>

\* SetPins(owner, change.Artifacts); an empty pin set is no pin set.  An error
\* returns at once, whether or not the pins were written.
PinIncoming ==
    /\ pc = "pin"
    /\ accepted' = IF cur.roots = {} THEN accepted \ {cur} ELSE accepted \cup {cur}
    /\ \/ Step("ready") /\ UNCHANGED <<cur, prior, ready, answer, todo>>
       \/ Return
    /\ UNCHANGED <<ackedRoots, has, consumerVars>>

\* readyRoots, and the error that ends the attempt.
ReadyRoots ==
    /\ pc = "ready"
    /\ \/ ready' = cur.roots \cap has /\ Step("consume") /\ UNCHANGED answer
       \/ answer' = "error" /\ Step("judge") /\ UNCHANGED ready
    /\ UNCHANGED <<cur, prior, todo, storeVars, has, consumerVars>>

\* svc.ApplyArtifacts, by the Fence contract: a complete apply writes the
\* receipt, a partial one records the change and keeps the receipt.  The
\* consumer may also refuse a change it does not hold, or fail before
\* recording anything.
Consume ==
    LET verdict == Fence(receipt, cur) IN
    /\ pc = "consume"
    /\ \/ /\ verdict = "apply" /\ cur.roots \subseteq ready
          /\ answer' = "applied"
          /\ receipt' = cur /\ recorded' = cur
       \/ /\ verdict = "apply" /\ ~(cur.roots \subseteq ready)
          /\ answer' = "partial"
          /\ recorded' = cur /\ UNCHANGED receipt
       \/ /\ verdict \in {"replay", "stale", "needSnapshot"}
          /\ answer' = verdict
          /\ UNCHANGED consumerVars
       \/ /\ verdict = "apply" /\ cur # recorded
          /\ answer' = "refused"
          /\ UNCHANGED consumerVars
       \/ /\ answer' = "error"
          /\ UNCHANGED consumerVars
    /\ Step("judge")
    /\ UNCHANGED <<cur, prior, ready, todo, storeVars, has>>

FullAck == answer \in {"applied", "replay"} \/ (answer = "stale" /\ receipt.src = cur.src)

Holds == answer = "stale" /\ FullAck /\ Digest(receipt) = Digest(cur)

Refused == (answer = "stale" /\ ~Holds) \/ answer \in {"needSnapshot", "refused"}

Incomplete == FullAck /\ ~(cur.roots \subseteq ready)

\* Mutant of Judge: a failed attempt releases every accepted owner.
JudgeReleasesAll ==
    /\ pc = "judge"
    /\ \/ answer = "error" /\ Step("release") /\ todo' = accepted
       \/ answer # "error" /\ Incomplete /\ Step("release") /\ todo' = {}
       \/ answer # "error" /\ ~Incomplete /\ Refused /\ Step("release") /\ todo' = {cur}
       \/ answer # "error" /\ ~Incomplete /\ ~Refused /\ Step("record") /\ UNCHANGED todo
    /\ UNCHANGED <<cur, prior, ready, answer, storeVars, has, consumerVars>>

\* What the answer means for the pins: a failed attempt releases the owner
\* that it created itself, an incomplete acknowledgement releases nothing, a
\* refusal releases the change's owner, and the rest goes on record.
Judge ==
    /\ pc = "judge"
    /\ \/ /\ answer = "error"
          /\ Step("release")
          /\ todo' = {cur} \ prior
       \/ /\ answer # "error" /\ Incomplete
          /\ Step("release")
          /\ todo' = {}
       \/ /\ answer # "error" /\ ~Incomplete /\ Refused
          /\ Step("release")
          /\ todo' = {cur}
       \/ /\ answer # "error" /\ ~Incomplete /\ ~Refused
          /\ Step("record")
          /\ UNCHANGED todo
    /\ UNCHANGED <<cur, prior, ready, answer, storeVars, has, consumerVars>>

\* Mutant of RecordAcked: only the change's own accepted owner is released.
RecordAckedOwnOnly ==
    /\ pc = "record"
    /\ ackedRoots' = cur.roots
    /\ Step("release") /\ todo' = {cur} /\ UNCHANGED <<cur, prior, ready, answer>>
    /\ UNCHANGED <<accepted, has, consumerVars>>

\* SetPins(synckit.acked/origin, change.Artifacts), then release every
\* accepted owner of the origin.
RecordAcked ==
    /\ pc = "record"
    /\ ackedRoots' = cur.roots
    /\ \/ /\ Step("release")
          /\ todo' = prior \cup {cur}
          /\ UNCHANGED <<cur, prior, ready, answer>>
       \/ Return
    /\ UNCHANGED <<accepted, has, consumerVars>>

\* release, one owner at a time; an error leaves the rest pinned.
Release ==
    /\ pc = "release"
    /\ \E c \in todo :
        /\ accepted' = accepted \ {c}
        /\ \/ todo' = todo \ {c} /\ UNCHANGED <<pc, cur, prior, ready, answer>>
           \/ Return
    /\ UNCHANGED <<ackedRoots, has, consumerVars>>

Reply ==
    /\ pc = "release"
    /\ todo = {}
    /\ Return
    /\ UNCHANGED <<storeVars, has, consumerVars>>

\* A store call fails without effect: the call returns its error.  (readyRoots
\* and the consumer have an error path of their own.)
StoreFails ==
    /\ pc \in {"pin", "record"} \/ (pc = "release" /\ todo # {})
    /\ Return
    /\ UNCHANGED <<storeVars, has, consumerVars>>

-----------------------------------------------------------------------------
\* A batch of the transfer completes a root in this store.
Arrive(r) ==
    /\ r \notin has
    /\ has' = has \cup {r}
    /\ UNCHANGED <<storeVars, consumerVars, callVars>>

\* The collector drops a root that no pin set names.
Collect(r) ==
    /\ r \in has \ Pinned
    /\ has' = has \ {r}
    /\ UNCHANGED <<storeVars, consumerVars, callVars>>

Crash ==
    /\ pc # "idle"
    /\ Return
    /\ UNCHANGED <<storeVars, has, consumerVars>>

Next ==
    \/ \E c \in Offers : Begin(c)
    \/ PinIncoming \/ ReadyRoots \/ Consume \/ Judge \/ RecordAcked
    \/ Release \/ Reply \/ StoreFails \/ Crash
    \/ \E r \in Root : Arrive(r) \/ Collect(r)

Spec == Init /\ [][Next]_vars

-----------------------------------------------------------------------------
(* The roots of the change the consumer holds completely, and has recorded
   nothing over, are complete and pinned, through interrupted
   acknowledgements, later failing or refused changes, late duplicates,
   collections and crashes: the content behind a receipt is never lost. *)
HeldRootsSafe ==
    receipt = recorded => receipt.roots \subseteq has \cap Pinned

(* A call leaves the accepted owners of other changes alone unless its own
   change went on record: an attempt that fails or is refused never unpins a
   change whose acknowledgement was interrupted. *)
OthersStayAccepted ==
    [][\A c \in accepted \ accepted' :
         c = cur \/ answer \in {"partial"} \/ (FullAck /\ ~Incomplete /\ ~Refused)]_vars

(* A call that answers with an acknowledgement has released every accepted
   owner of the origin, so that owners of abandoned changes do not pile up. *)
AckLeavesNoneAccepted ==
    [][Reply /\ FullAck /\ ~Refused /\ ~Incomplete => accepted = {}]_vars

(* The comment on RegisterArtifactConsumer, read literally: an accepted
   owner is released only when the consumer refuses that change, an attempt
   that pinned it fails, or the consumer acknowledges a change. *)
PinnedUntilAcknowledged ==
    [][\A c \in accepted \ accepted' :
         \/ c = cur /\ (answer = "error" \/ Refused)
         \/ FullAck /\ ~Incomplete /\ ~Refused]_vars
=============================================================================
