--------------------------- MODULE ArtifactStore ---------------------------
(***************************************************************************)
(* The content-addressed object store of artifact/store.go with the        *)
(* receive path of artifact/batch.go, the collector of artifact/gc.go and  *)
(* the pins of artifact/pins.go.                                           *)
(*                                                                         *)
(* One process owns a store at a time.  Inside it run any number of Puts,  *)
(* one commit of a received batch (incomingMu) and one collection, which   *)
(* excludes the others (gcMu); readers of other processes look at the      *)
(* directory whenever they like.  An object is a file named by its digest. *)
(* Renaming it into place does not make the name durable, so a mark in     *)
(* unsynced/ hides the object from every reader until the directory is     *)
(* synced: an object is present when its file is there and its mark is     *)
(* not (Reader.stat, which looks at the file first, so that a mark it does *)
(* not find was never made or was removed after the sync).                 *)
(*                                                                         *)
(* Contents, sizes and digests are abstract: an object is what it names.   *)
(* Each object has one kind.  Time is abstract: an object is young while   *)
(* its last write or touch is within GCGrace, and any staged batch may     *)
(* have outlived StagingTTL when the collector looks.                      *)
(***************************************************************************)
EXTENDS Naturals, FiniteSets

CONSTANTS
    Object,        \* the digests of blobs and manifests
    Kids,          \* the chunks and deps each object names; a blob names none
    Group,         \* the chunkless manifests PutGroup makes
    Root,          \* the objects owners pin
    Batch,         \* the batches a sender may stream here
    Contents,      \* the objects of a batch, its children before its manifests
    Writers,       \* concurrent callers of Put, PutBlob and PutGroup
    None,          \* no object, no batch
    MaxIncoming    \* staged receive batches one store holds

ASSUME KidsAssumption ==
    /\ Kids \in [Object -> SUBSET Object]
    /\ \A o \in Object : o \notin Kids[o]     \* a digest covers what it names
ASSUME GroupAssumption ==
    /\ Group \subseteq Object
    /\ \A o \in Object \ Group : \A k \in Kids[o] : k \notin Group /\ Kids[k] = {}
ASSUME RootAssumption == Root \subseteq Object
ASSUME ContentsAssumption == Contents \in [Batch -> SUBSET Object]
ASSUME NoneAssumption == None \notin Object /\ None \notin Batch
ASSUME MaxIncomingAssumption == MaxIncoming \in Nat \ {0}

VARIABLES
    file,       \* objects a process finds under objects/
    disk,       \* objects whose name survives a loss of power
    mark,       \* the unsynced marks
    young,      \* objects written or touched within GCGrace
    pins,       \* the pinned roots, of all owners
    staged,     \* per batch: no staging, some parts, all parts
    committed,  \* batches with a committed marker
    publishing, \* claimed digests (Store.publishing)
    job,        \* what each writer is at
    commit,     \* the commit underway, if any
    doomed,     \* objects the collection underway has yet to remove
    up,         \* some process holds store.lock
    torn        \* history: some collection stopped before it had removed all
                \* it set out to remove

storage == <<file, disk, mark, young>>
incoming == <<staged, committed>>
vars == <<file, disk, mark, young, pins, staged, committed, publishing, job,
          commit, doomed, up, torn>>

-----------------------------------------------------------------------------
NoJob == [pc |-> "idle", goal |-> None, left |-> {}, at |-> None]

NoCommit == [pc |-> "idle", batch |-> None, landed |-> {}, done |-> {},
             held |-> {}, out |-> {}]

\* What Reader.stat and readObject accept (store.go:240).
Present == file \ mark

\* What the collector reaches from R: every name in a manifest it can read,
\* transitively (walker.visit, keepNamed).
Closed(S) == \A o \in S \cap file : Kids[o] \subseteq S
Reach(R) == {o \in Object : \A S \in SUBSET Object :
                                R \subseteq S /\ Closed(S) => o \in S}

\* Readiness of a root (Reader.Complete finds nothing missing).
Complete(r) == Reach({r}) \subseteq Present

\* gcMu can be had for reading: the store is open and no collection runs.
Shared == up /\ doomed = {}

Init ==
    /\ file = {} /\ disk = {} /\ mark = {} /\ young = {}
    /\ pins = {}
    /\ staged = [b \in Batch |-> "none"] /\ committed = {}
    /\ publishing = {}
    /\ job = [w \in Writers |-> NoJob]
    /\ commit = NoCommit
    /\ doomed = {}
    /\ up = TRUE
    /\ torn = FALSE

-----------------------------------------------------------------------------
(* Put, PutBlob and PutGroup: a writer holds gcMu for reading from PutStart *)
(* until it is idle again, and writes one object at a time.                *)

\* Put writes the chunks and then the manifest, PutBlob one blob, PutGroup one
\* manifest whose deps must all be present.  A group of more than MaxDeps deps
\* is a tree of such groups, each of them an object of its own.
PutStart(w, o) ==
    /\ Shared
    /\ job[w].pc = "idle"
    /\ o \in Group => Kids[o] \subseteq Present
    /\ job' = [job EXCEPT ![w] =
                  [pc |-> "next", goal |-> o, at |-> None,
                   left |-> IF o \in Group THEN {o} ELSE Kids[o] \cup {o}]]
    /\ UNCHANGED <<storage, incoming, pins, publishing, commit, doomed, up, torn>>

\* The writer after it has o behind it: at the next object, or done.
Advance(j, o) ==
    IF j.left = {o} THEN NoJob
    ELSE [j EXCEPT !.pc = "next", !.at = None, !.left = @ \ {o}]

\* writeObject up to the mark: claim the digest, waiting for whoever holds it,
\* and touch the object if it is present, else mark it unsynced.
WriteObject(w, o) ==
    /\ job[w].pc = "next"
    /\ o \in job[w].left
    /\ o = job[w].goal => job[w].left = {o}
    /\ o \notin publishing
    /\ IF o \in Present
       THEN /\ young' = young \cup {o}
            /\ job' = [job EXCEPT ![w] = Advance(@, o)]
            /\ UNCHANGED <<mark, publishing>>
       ELSE /\ mark' = mark \cup {o}
            /\ publishing' = publishing \cup {o}
            /\ job' = [job EXCEPT ![w].pc = "marked", ![w].at = o]
            /\ UNCHANGED young
    /\ UNCHANGED <<file, disk, incoming, pins, commit, doomed, up, torn>>

\* durable.WriteFile, first half: the temporary file is renamed into place.
RenameObject(w) ==
    /\ job[w].pc = "marked"
    /\ file' = file \cup {job[w].at}
    /\ young' = young \cup {job[w].at}
    /\ job' = [job EXCEPT ![w].pc = "named"]
    /\ UNCHANGED <<disk, mark, incoming, pins, publishing, commit, doomed, up, torn>>

\* durable.WriteFile, second half: the directory is synced.
SyncObject(w) ==
    /\ job[w].pc = "named"
    /\ disk' = disk \cup {job[w].at}
    /\ job' = [job EXCEPT ![w].pc = "synced"]
    /\ UNCHANGED <<file, mark, young, incoming, pins, publishing, commit, doomed, up, torn>>

\* The rest of writeObject: unmark the object and release the claim.
MarkSynced(w) ==
    /\ job[w].pc = "synced"
    /\ mark' = mark \ {job[w].at}
    /\ publishing' = publishing \ {job[w].at}
    /\ job' = [job EXCEPT ![w] = Advance(@, @.at)]
    /\ UNCHANGED <<file, disk, young, incoming, pins, commit, doomed, up, torn>>

\* Any step of a write fails, or the caller gives up between two objects: the
\* claim is released, and a mark and a file already made stay.
PutFails(w) ==
    /\ job[w].pc # "idle"
    /\ publishing' = publishing \ {job[w].at}
    /\ job' = [job EXCEPT ![w] = NoJob]
    /\ UNCHANGED <<storage, incoming, pins, commit, doomed, up, torn>>

-----------------------------------------------------------------------------
(* Receiving a batch.                                                      *)

\* BeginBatch of a batch neither staged nor committed; the other two cases
\* only refresh a time stamp.
BeginBatch(b) ==
    /\ Shared
    /\ commit.pc = "idle"
    /\ staged[b] = "none"
    /\ b \notin committed
    /\ Cardinality({c \in Batch : staged[c] # "none"}) < MaxIncoming
    /\ staged' = [staged EXCEPT ![b] = "begun"]
    /\ UNCHANGED <<storage, committed, pins, publishing, job, commit, doomed, up, torn>>

\* PutPart of the last part missing; it does not take incomingMu.
PutPart(b) ==
    /\ Shared
    /\ staged[b] = "begun"
    /\ staged' = [staged EXCEPT ![b] = "full"]
    /\ UNCHANGED <<storage, committed, pins, publishing, job, commit, doomed, up, torn>>

\* Every child of every manifest is in the batch or present.
requireChildren(b) ==
    \A o \in Contents[b] : Kids[o] \subseteq Contents[b] \cup Present

\* CommitBatch until the landing is flushed: present objects are touched, the
\* others landed in the staging.
CommitStart(b) ==
    /\ Shared
    /\ commit.pc = "idle"
    /\ staged[b] = "full"
    /\ requireChildren(b)
    /\ young' = young \cup (Contents[b] \cap Present)
    /\ commit' = [NoCommit EXCEPT !.pc = "publish", !.batch = b,
                                  !.landed = Contents[b] \ Present]
    /\ UNCHANGED <<file, disk, mark, incoming, pins, publishing, job, doomed, up, torn>>

\* Mutant of Level: all landed objects are published at once.
LevelOfAll(c) == c.landed \ c.done

\* The landed objects of the level being published: all their landed children
\* are of the levels before it (landingLevel).
Level(c) == {o \in c.landed \ c.done : Kids[o] \cap c.landed \subseteq c.done}

\* Mutant of PublishObject: a hidden object is taken for present.
PublishSeesHidden(o) ==
    /\ commit.pc = "publish"
    /\ o \in Level(commit) \ commit.held
    /\ o \notin publishing
    /\ publishing' = publishing \cup {o}
    /\ young' = young \cup {o}
    /\ IF o \in file
       THEN /\ commit' = [commit EXCEPT !.held = @ \cup {o}]
            /\ UNCHANGED <<file, mark>>
       ELSE /\ mark' = mark \cup {o}
            /\ file' = file \cup {o}
            /\ commit' = [commit EXCEPT !.held = @ \cup {o}, !.out = @ \cup {o}]
    /\ UNCHANGED <<disk, incoming, pins, job, doomed, up, torn>>

\* publishLevel, one object: claim it, and touch it if a writer has made it
\* present meanwhile, else mark it and rename it into place.
PublishObject(o) ==
    /\ commit.pc = "publish"
    /\ o \in Level(commit) \ commit.held
    /\ o \notin publishing
    /\ publishing' = publishing \cup {o}
    /\ young' = young \cup {o}
    /\ IF o \in Present
       THEN /\ commit' = [commit EXCEPT !.held = @ \cup {o}]
            /\ UNCHANGED <<file, mark>>
       ELSE /\ mark' = mark \cup {o}
            /\ file' = file \cup {o}
            /\ commit' = [commit EXCEPT !.held = @ \cup {o}, !.out = @ \cup {o}]
    /\ UNCHANGED <<disk, incoming, pins, job, doomed, up, torn>>

\* The claim is taken and then the mark or the rename fails.
PublishFails(o) ==
    /\ commit.pc = "publish"
    /\ o \in Level(commit) \ commit.held
    /\ o \notin publishing
    /\ o \notin Present
    /\ publishing' = publishing \cup {o}
    /\ mark' \in {mark, mark \cup {o}}
    /\ commit' = [commit EXCEPT !.pc = "unpublish", !.held = @ \cup {o}]
    /\ UNCHANGED <<file, disk, young, incoming, pins, job, doomed, up, torn>>

\* Every object of the level is in place: the directories are synced and the
\* barrier flushed, or one of these fails with some of the names durable.
SyncLevel ==
    /\ commit.pc = "publish"
    /\ Level(commit) # {}
    /\ Level(commit) \subseteq commit.held
    /\ \/ /\ disk' = disk \cup commit.out
          /\ commit' = [commit EXCEPT !.pc = "synced"]
       \/ /\ \E S \in SUBSET commit.out : disk' = disk \cup S
          /\ commit' = [commit EXCEPT !.pc = "unpublish"]
    /\ UNCHANGED <<file, mark, young, incoming, pins, publishing, job, doomed, up, torn>>

\* markSynced of the level, a mark at a time.
UnmarkObject(o) ==
    /\ commit.pc = "synced"
    /\ o \in commit.out
    /\ mark' = mark \ {o}
    /\ commit' = [commit EXCEPT !.out = @ \ {o}]
    /\ UNCHANGED <<file, disk, young, incoming, pins, publishing, job, doomed, up, torn>>

\* The level is published: its claims are released and the next one begins.
FinishLevel ==
    /\ commit.pc = "synced"
    /\ commit.out = {}
    /\ publishing' = publishing \ commit.held
    /\ commit' = [commit EXCEPT !.pc = "publish", !.done = @ \cup commit.held,
                                !.held = {}]
    /\ UNCHANGED <<storage, incoming, pins, job, doomed, up, torn>>

\* unpublish, one object: it is renamed back into the landing, or stays in
\* place when that fails.  Its mark stays in either case.
UnpublishObject(o) ==
    /\ commit.pc = "unpublish"
    /\ o \in commit.out
    /\ \/ file' = file \ {o} /\ young' = young \ {o}
       \/ UNCHANGED <<file, young>>
    /\ commit' = [commit EXCEPT !.out = @ \ {o}]
    /\ UNCHANGED <<disk, mark, incoming, pins, publishing, job, doomed, up, torn>>

\* Mutant of CommitFails: the error path keeps its claims.
CommitFailsClaimed ==
    /\ \/ commit.pc = "unpublish" /\ commit.out = {}
       \/ commit.pc = "synced"
       \/ commit.pc = "publish" /\ commit.held = {}
       \/ commit.pc = "remove"
    /\ commit' = NoCommit
    /\ UNCHANGED <<storage, incoming, pins, publishing, job, doomed, up, torn>>

\* The commit ends with an error: after the withdrawal, when a mark cannot be
\* removed, or when the landing, its flush or the marker fails.
CommitFails ==
    /\ \/ commit.pc = "unpublish" /\ commit.out = {}
       \/ commit.pc = "synced"
       \/ commit.pc = "publish" /\ commit.held = {}
       \/ commit.pc = "remove"
    /\ publishing' = publishing \ commit.held
    /\ commit' = NoCommit
    /\ UNCHANGED <<storage, incoming, pins, job, doomed, up, torn>>

\* All levels are published: the batch is recorded as committed.
RecordCommitted ==
    /\ commit.pc = "publish"
    /\ commit.done = commit.landed
    /\ committed' = committed \cup {commit.batch}
    /\ commit' = [commit EXCEPT !.pc = "remove"]
    /\ UNCHANGED <<storage, staged, pins, publishing, job, doomed, up, torn>>

\* The staging is removed and CommitBatch reports success.
RemoveStaging ==
    /\ commit.pc = "remove"
    /\ staged' = [staged EXCEPT ![commit.batch] = "none"]
    /\ commit' = NoCommit
    /\ UNCHANGED <<storage, committed, pins, publishing, job, doomed, up, torn>>

\* CommitBatch of a batch that is committed and no longer staged: its objects
\* are touched, hidden ones too, up to the first one missing, which withdraws
\* the marker.
Recommit(b) ==
    /\ Shared
    /\ commit.pc = "idle"
    /\ staged[b] = "none"
    /\ b \in committed
    /\ \/ /\ Contents[b] \subseteq file
          /\ young' = young \cup Contents[b]
          /\ UNCHANGED committed
       \/ /\ ~(Contents[b] \subseteq file)
          /\ \E S \in SUBSET (Contents[b] \cap file) : young' = young \cup S
          /\ committed' = committed \ {b}
    /\ UNCHANGED <<file, disk, mark, staged, pins, publishing, job, commit, doomed, up, torn>>

-----------------------------------------------------------------------------
(* Pins, the collector, the passage of time, crashes and Open.             *)

SetPins(R) ==
    /\ Shared
    /\ pins' = R
    /\ UNCHANGED <<storage, incoming, publishing, job, commit, doomed, up, torn>>

\* gcMu can be had for writing.
Exclusive ==
    /\ Shared
    /\ commit.pc = "idle"
    /\ \A w \in Writers : job[w].pc = "idle"

\* Mutant of GCStart: a young object keeps itself and not what it names.
GCKeepsYoungOnly ==
    /\ Exclusive
    /\ disk' = IF mark = {} THEN disk ELSE file
    /\ mark' = {}
    /\ \E old \in SUBSET Batch :
          staged' = [b \in Batch |-> IF b \in old THEN "none" ELSE staged[b]]
    /\ \E old \in SUBSET Batch : committed' = committed \ old
    /\ doomed' = file \ (Reach(pins) \cup young)
    /\ UNCHANGED <<file, young, pins, publishing, job, commit, up, torn>>

\* GC until its first removal.  Objects left hidden are made durable and their
\* marks removed, batches past StagingTTL go, and everything neither young nor
\* reached from a pin or a young object is doomed.
GCStart ==
    /\ Exclusive
    /\ disk' = IF mark = {} THEN disk ELSE file
    /\ mark' = {}
    /\ \E old \in SUBSET Batch :
          staged' = [b \in Batch |-> IF b \in old THEN "none" ELSE staged[b]]
    /\ \E old \in SUBSET Batch : committed' = committed \ old
    /\ doomed' = file \ Reach(pins \cup young)
    /\ UNCHANGED <<file, young, pins, publishing, job, commit, up, torn>>

\* GC fails in recoverUnsynced: after the sync, with some marks removed.
GCRecoverFails ==
    /\ Exclusive
    /\ mark # {}
    /\ disk' = file
    /\ mark' \in SUBSET mark
    /\ UNCHANGED <<file, young, incoming, pins, publishing, job, commit, doomed, up, torn>>

\* durable.Remove of one doomed object, in the order of the digests.
GCRemove(o) ==
    /\ o \in doomed
    /\ file' = file \ {o}
    /\ disk' = disk \ {o}
    /\ doomed' = doomed \ {o}
    /\ UNCHANGED <<mark, young, incoming, pins, publishing, job, commit, up, torn>>

\* durable.Remove fails, with the file gone but not for good, or not gone.
GCFails(o) ==
    /\ o \in doomed
    /\ file' \in {file, file \ {o}}
    /\ doomed' = {}
    /\ torn' = TRUE
    /\ UNCHANGED <<disk, mark, young, incoming, pins, publishing, job, commit, up>>

\* GCGrace passes since the last write or touch of o.
Age(o) ==
    /\ o \in young
    /\ young' = young \ {o}
    /\ UNCHANGED <<file, disk, mark, incoming, pins, publishing, job, commit, doomed, up, torn>>

\* What the owning process held in memory is gone.
Stop ==
    /\ up
    /\ up' = FALSE
    /\ publishing' = {}
    /\ job' = [w \in Writers |-> NoJob]
    /\ commit' = NoCommit
    /\ doomed' = {}
    /\ torn' = (torn \/ doomed # {})
    /\ UNCHANGED <<incoming, pins>>

\* The process ends, on purpose or not; the directory stays as it is.
Exit == Stop /\ UNCHANGED storage

\* The machine goes down: a name made and not synced may be lost, one removed
\* and not synced may be back, and marks, which nobody syncs, may be either.
PowerLoss ==
    /\ Stop
    /\ \E S \in SUBSET (file \cup disk) :
          /\ file \cap disk \subseteq S
          /\ file' = S /\ disk' = S
          /\ young' = (young \cap S) \cup (S \ file)
    /\ mark' \in SUBSET Object

\* Mutant of Open: the marks are removed and nothing is synced.
OpenUnsynced ==
    /\ ~up
    /\ up' = TRUE
    /\ mark' = {}
    /\ UNCHANGED <<file, disk, young, incoming, pins, publishing, job, commit, doomed, torn>>

\* Open: every name in place is made durable, then every mark is removed.
Open ==
    /\ ~up
    /\ up' = TRUE
    /\ disk' = file
    /\ mark' = {}
    /\ UNCHANGED <<file, young, incoming, pins, publishing, job, commit, doomed, torn>>

-----------------------------------------------------------------------------
Next ==
    \/ \E w \in Writers :
          \/ \E o \in Object : PutStart(w, o) \/ WriteObject(w, o)
          \/ RenameObject(w) \/ SyncObject(w) \/ MarkSynced(w) \/ PutFails(w)
    \/ \E b \in Batch : BeginBatch(b) \/ PutPart(b) \/ CommitStart(b) \/ Recommit(b)
    \/ \E o \in Object :
          \/ PublishObject(o) \/ PublishFails(o) \/ UnmarkObject(o)
          \/ UnpublishObject(o)
          \/ GCRemove(o) \/ GCFails(o) \/ Age(o)
    \/ SyncLevel \/ FinishLevel \/ CommitFails \/ RecordCommitted \/ RemoveStaging
    \/ \E R \in SUBSET Root : SetPins(R)
    \/ GCStart \/ GCRecoverFails
    \/ Exit \/ PowerLoss \/ Open

Spec == Init /\ [][Next]_vars

-----------------------------------------------------------------------------
(* Properties.                                                             *)

Pc == {"idle", "next", "marked", "named", "synced"}
CommitPc == {"idle", "publish", "synced", "unpublish", "remove"}

\* The variables have the values the code can give them.
TypeOK ==
    /\ file \subseteq Object /\ disk \subseteq Object /\ mark \subseteq Object
    /\ young \subseteq Object /\ pins \subseteq Root
    /\ staged \in [Batch -> {"none", "begun", "full"}]
    /\ committed \subseteq Batch
    /\ publishing \subseteq Object
    /\ job \in [Writers -> [pc : Pc, goal : Object \cup {None},
                            left : SUBSET Object, at : Object \cup {None}]]
    /\ commit \in [pc : CommitPc, batch : Batch \cup {None},
                    landed : SUBSET Object, done : SUBSET Object,
                    held : SUBSET Object, out : SUBSET Object]
    /\ doomed \subseteq Object
    /\ up \in BOOLEAN /\ torn \in BOOLEAN

\* Whatever a reader of any process accepts survives a loss of power, at every
\* moment of every write, commit, withdrawal, recovery and crash: the promise
\* of the unsynced marks (store.go:52, batch.go:303).
PresentIsDurable == Present \subseteq disk

\* A digest is claimed exactly while one operation publishes it, so an error
\* path leaks no claim, which would block every later write of the digest for
\* ever, and no two operations are between the mark and the unmark of one
\* object (Store.claim).
ClaimsAreOwned ==
    /\ publishing = commit.held \cup {o \in Object : \E w \in Writers : job[w].at = o}
    /\ \A w \in Writers : job[w].at \notin commit.held
    /\ \A v, w \in Writers : v # w => job[v].at # job[w].at \/ job[v].at = None

\* Between collections, and as long as every collection has finished, every
\* present manifest has all its children present (store.go:77), through
\* failed publications, stranded objects, crashes and recoveries.
ClosedUnlessTorn ==
    up /\ doomed = {} /\ ~torn => \A o \in Present : Kids[o] \subseteq Present

\* The same with no exception for collections that stopped half way.
ClosedUnderManifests ==
    up /\ doomed = {} => \A o \in Present : Kids[o] \subseteq Present

\* A batch is recorded as committed only when readers see all of it.
CommittedIsPresent ==
    commit.pc = "remove" => Contents[commit.batch] \subseteq Present

\* No step takes anything away from the closure of a root that is complete and
\* pinned or young: not the collector, not the withdrawal of a commit that
\* published the same object, not a crash or a loss of power (gc.go:26,
\* batch.go:301).
KeptSurvives ==
    [][\A r \in young \cup pins :
          Complete(r) => Reach({r})' \subseteq (file \cap disk)']_vars

=============================================================================
