------------------------ MODULE ArtifactStoreProofs ------------------------
(***************************************************************************)
(* What the object store promises its readers, for every set of objects,   *)
(* writers and batches: whatever is present is durable, claims are held by *)
(* exactly one operation, and a batch is recorded as committed only when   *)
(* all of it is present.                                                   *)
(***************************************************************************)
EXTENDS ArtifactStore, TLAPS

\* A writer is at an object exactly between its mark and its unmark.
JobStages ==
    \A w \in Writers :
        /\ job[w].pc \in {"idle", "next"} <=> job[w].at = None
        /\ job[w].at # None => job[w].at \in mark
        /\ job[w].pc = "synced" => job[w].at \in disk

\* A commit has claimed what it has renamed, and all that is hidden.
CommitStages ==
    /\ commit.out \subseteq commit.held
    /\ commit.out \subseteq mark \cap file
    /\ commit.held \subseteq commit.landed \ commit.done
    /\ commit.pc = "synced" => commit.out \subseteq disk
    /\ commit.pc \in {"idle", "remove"} => commit.held = {}

\* While a collection runs, and while nobody has the store open, no operation
\* is underway.
Quiet ==
    ~up \/ doomed # {} =>
        commit.pc = "idle" /\ \A w \in Writers : job[w].pc = "idle"

\* What the commit has behind it is present.
CommitSees ==
    /\ commit.pc = "idle" <=> commit.batch = None
    /\ commit.pc # "idle" =>
          /\ Contents[commit.batch] \subseteq commit.landed \cup Present
          /\ commit.done \subseteq Present
    /\ commit.pc \in {"publish", "synced"} => commit.held \ commit.out \subseteq Present
    /\ commit.pc = "remove" => commit.done = commit.landed

JobType == [pc : Pc, goal : Object \cup {None}, left : SUBSET Object,
            at : Object \cup {None}]
CommitType == [pc : CommitPc, batch : Batch \cup {None},
               landed : SUBSET Object, done : SUBSET Object,
               held : SUBSET Object, out : SUBSET Object]

\* The inductive invariant.
StoreInv ==
    /\ TypeOK
    /\ ClaimsAreOwned
    /\ JobStages
    /\ CommitStages
    /\ Quiet
    /\ PresentIsDurable
    /\ CommitSees

\* A writer that has an object behind it is at none.
LEMMA AdvanceIsFree ==
    ASSUME NEW j \in JobType, NEW o
    PROVE  /\ Advance(j, o) \in JobType
           /\ Advance(j, o).at = None
           /\ Advance(j, o).pc \in {"idle", "next"}
<1>1. CASE j.left = {o}
  BY <1>1 DEF Advance, NoJob, JobType, Pc
<1>2. CASE j.left # {o}
  BY <1>2 DEF Advance, JobType, Pc
<1> QED
  BY <1>1, <1>2

\* What PublishObject does to the commit, by whether the object is present.
LEMMA PublishEffect ==
    ASSUME TypeOK, NEW o \in Object, PublishObject(o)
    PROVE  /\ commit' \in CommitType
           /\ commit.pc = "publish" /\ commit'.pc = "publish"
           /\ commit'.batch = commit.batch
           /\ commit'.landed = commit.landed /\ commit'.done = commit.done
           /\ commit'.held = commit.held \cup {o}
           /\ o \in commit.landed \ commit.done
           /\ Kids[o] \cap commit.landed \subseteq commit.done
           /\ o \notin publishing
           /\ publishing' = publishing \cup {o}
           /\ young' = young \cup {o}
           /\ o \in Present =>
                 commit'.out = commit.out /\ file' = file /\ mark' = mark
           /\ o \notin Present =>
                 /\ commit'.out = commit.out \cup {o}
                 /\ file' = file \cup {o} /\ mark' = mark \cup {o}
           /\ UNCHANGED <<disk, staged, committed, pins, job, doomed, up, torn>>
<1>1. o \in commit.landed \ commit.done /\ Kids[o] \cap commit.landed \subseteq commit.done
  BY DEF PublishObject, Level
<1>2. CASE o \in Present
  BY <1>1, <1>2 DEF PublishObject, TypeOK, CommitType, CommitPc, incoming
<1>3. CASE o \notin Present
  <2>1. commit' = [commit EXCEPT !.held = commit.held \cup {o},
                                 !.out = commit.out \cup {o}]
    BY <1>3 DEF PublishObject
  <2>2. commit \in CommitType
    BY DEF TypeOK, CommitType
  <2>3. /\ commit' \in CommitType
        /\ commit'.pc = commit.pc /\ commit'.batch = commit.batch
        /\ commit'.landed = commit.landed /\ commit'.done = commit.done
        /\ commit'.held = commit.held \cup {o} /\ commit'.out = commit.out \cup {o}
    BY <2>1, <2>2 DEF CommitType
  <2> QED
    BY <1>1, <1>3, <2>3 DEF PublishObject, incoming
<1> QED
  BY <1>2, <1>3

\* Every step keeps the types.
LEMMA TypeStep == StoreInv /\ [Next]_vars => TypeOK'
<1> SUFFICES ASSUME StoreInv, [Next]_vars PROVE TypeOK'
  OBVIOUS
<1> USE KidsAssumption, GroupAssumption, RootAssumption, ContentsAssumption,
       NoneAssumption DEF StoreInv, TypeOK, Pc, CommitPc, JobStages,
       CommitSees
<1>1. ASSUME NEW w \in Writers, NEW o \in Object, PutStart(w, o)
      PROVE  TypeOK'
  BY <1>1
     DEF PutStart, Shared, storage, incoming
<1>2. ASSUME NEW w \in Writers, NEW o \in Object, WriteObject(w, o)
      PROVE  TypeOK'
  <2>1. CASE o \in Present
    <3>1. job' = [job EXCEPT ![w] = Advance(job[w], o)]
      BY <1>2, <2>1 DEF WriteObject
    <3> QED
      BY <1>2, <2>1, <3>1, AdvanceIsFree
         DEF WriteObject, JobType, storage, incoming
  <2>2. CASE o \notin Present
    BY <1>2, <2>2 DEF WriteObject, storage, incoming
  <2> QED
    BY <2>1, <2>2
<1>3. ASSUME NEW w \in Writers, RenameObject(w)
      PROVE  TypeOK'
  BY <1>3
     DEF RenameObject, storage, incoming
<1>4. ASSUME NEW w \in Writers, SyncObject(w)
      PROVE  TypeOK'
  BY <1>4
     DEF SyncObject, storage, incoming
<1>5. ASSUME NEW w \in Writers, MarkSynced(w)
      PROVE  TypeOK'
  <2>1. job' = [job EXCEPT ![w] = Advance(job[w], job[w].at)]
    BY <1>5 DEF MarkSynced
  <2> QED
    BY <1>5, <2>1, AdvanceIsFree DEF MarkSynced, JobType, storage, incoming
<1>6. ASSUME NEW w \in Writers, PutFails(w)
      PROVE  TypeOK'
  BY <1>6
     DEF PutFails, NoJob, storage, incoming
<1>7. ASSUME NEW b \in Batch, BeginBatch(b)
      PROVE  TypeOK'
  BY <1>7
     DEF BeginBatch, Shared, storage, incoming
<1>8. ASSUME NEW b \in Batch, PutPart(b)
      PROVE  TypeOK'
  BY <1>8
     DEF PutPart, Shared, storage, incoming
<1>9. ASSUME NEW b \in Batch, CommitStart(b)
      PROVE  TypeOK'
  BY <1>9
     DEF CommitStart, Shared, NoCommit, Present, requireChildren, storage,
         incoming
<1>10. ASSUME NEW b \in Batch, Recommit(b)
      PROVE  TypeOK'
  BY <1>10
     DEF Recommit, Shared, storage, incoming
<1>11. ASSUME NEW o \in Object, PublishObject(o)
      PROVE  TypeOK'
  BY <1>11, PublishEffect DEF Present, CommitType
<1>12. ASSUME NEW o \in Object, PublishFails(o)
      PROVE  TypeOK'
  BY <1>12
     DEF PublishFails, Level, Present, storage, incoming
<1>13. ASSUME NEW o \in Object, UnmarkObject(o)
      PROVE  TypeOK'
  BY <1>13
     DEF UnmarkObject, storage, incoming
<1>14. ASSUME NEW o \in Object, UnpublishObject(o)
      PROVE  TypeOK'
  BY <1>14
     DEF UnpublishObject, storage, incoming
<1>15. ASSUME NEW o \in Object, GCRemove(o)
      PROVE  TypeOK'
  BY <1>15
     DEF GCRemove, storage, incoming
<1>16. ASSUME NEW o \in Object, GCFails(o)
      PROVE  TypeOK'
  BY <1>16
     DEF GCFails, storage, incoming
<1>17. ASSUME NEW o \in Object, Age(o)
      PROVE  TypeOK'
  BY <1>17
     DEF Age, storage, incoming
<1>18. ASSUME SyncLevel
      PROVE  TypeOK'
  BY <1>18
     DEF SyncLevel, Level, storage, incoming
<1>19. ASSUME FinishLevel
      PROVE  TypeOK'
  BY <1>19
     DEF FinishLevel, storage, incoming
<1>20. ASSUME CommitFails
      PROVE  TypeOK'
  BY <1>20
     DEF CommitFails, NoCommit, storage, incoming
<1>21. ASSUME RecordCommitted
      PROVE  TypeOK'
  BY <1>21
     DEF RecordCommitted, storage, incoming
<1>22. ASSUME RemoveStaging
      PROVE  TypeOK'
  BY <1>22
     DEF RemoveStaging, NoCommit, storage, incoming
<1>23. ASSUME NEW R \in SUBSET Root, SetPins(R)
      PROVE  TypeOK'
  BY <1>23
     DEF SetPins, Shared, storage, incoming
<1>24. ASSUME GCStart
      PROVE  TypeOK'
  BY <1>24
     DEF GCStart, Exclusive, Shared, storage, incoming
<1>25. ASSUME GCRecoverFails
      PROVE  TypeOK'
  BY <1>25
     DEF GCRecoverFails, Exclusive, Shared, storage, incoming
<1>26. ASSUME Exit
      PROVE  TypeOK'
  BY <1>26
     DEF Exit, Stop, NoJob, NoCommit, storage, incoming
<1>27. ASSUME PowerLoss
      PROVE  TypeOK'
  <2>1. file' \subseteq Object /\ disk' \subseteq Object /\ young' \subseteq Object
    BY <1>27 DEF PowerLoss
  <2> QED
    BY <1>27, <2>1 DEF PowerLoss, Stop, NoJob, NoCommit, incoming
<1>28. ASSUME Open
      PROVE  TypeOK'
  BY <1>28
     DEF Open, storage, incoming
<1>29. ASSUME \/ UNCHANGED vars
      PROVE  TypeOK'
  BY <1>29
     DEF vars, storage, incoming
<1> QED
  BY <1>1, <1>2, <1>3, <1>4, <1>5, <1>6, <1>7, <1>8, <1>9, <1>10, <1>11,
     <1>12, <1>13, <1>14, <1>15, <1>16, <1>17, <1>18, <1>19, <1>20,
     <1>21, <1>22, <1>23, <1>24, <1>25, <1>26, <1>27, <1>28, <1>29
     DEF Next

\* Claims stay owned.
LEMMA ClaimsStep == StoreInv /\ [Next]_vars => ClaimsAreOwned'
<1> SUFFICES ASSUME StoreInv, [Next]_vars PROVE ClaimsAreOwned'
  OBVIOUS
<1> USE NoneAssumption, ContentsAssumption DEF StoreInv, TypeOK, Pc,
       CommitPc, ClaimsAreOwned, JobStages, CommitStages, Quiet
<1>1. ASSUME NEW w \in Writers, NEW o \in Object, PutStart(w, o)
      PROVE  ClaimsAreOwned'
  BY <1>1
     DEF PutStart, Shared, storage, incoming
<1>2. ASSUME NEW w \in Writers, NEW o \in Object, WriteObject(w, o)
      PROVE  ClaimsAreOwned'
  <2>1. CASE o \in Present
    <3>1. job' = [job EXCEPT ![w] = Advance(job[w], o)]
      BY <1>2, <2>1 DEF WriteObject
    <3> QED
      BY <1>2, <2>1, <3>1, AdvanceIsFree
         DEF WriteObject, JobType, storage, incoming
  <2>2. CASE o \notin Present
    BY <1>2, <2>2 DEF WriteObject, storage, incoming
  <2> QED
    BY <2>1, <2>2
<1>3. ASSUME NEW w \in Writers, RenameObject(w)
      PROVE  ClaimsAreOwned'
  BY <1>3
     DEF RenameObject, storage, incoming
<1>4. ASSUME NEW w \in Writers, SyncObject(w)
      PROVE  ClaimsAreOwned'
  BY <1>4
     DEF SyncObject, storage, incoming
<1>5. ASSUME NEW w \in Writers, MarkSynced(w)
      PROVE  ClaimsAreOwned'
  <2>1. job' = [job EXCEPT ![w] = Advance(job[w], job[w].at)]
    BY <1>5 DEF MarkSynced
  <2> QED
    BY <1>5, <2>1, AdvanceIsFree DEF MarkSynced, JobType, storage, incoming
<1>6. ASSUME NEW w \in Writers, PutFails(w)
      PROVE  ClaimsAreOwned'
  BY <1>6
     DEF PutFails, NoJob, storage, incoming
<1>7. ASSUME NEW b \in Batch, CommitStart(b)
      PROVE  ClaimsAreOwned'
  BY <1>7
     DEF CommitStart, Shared, NoCommit, Present, requireChildren, storage,
         incoming
<1>8. ASSUME NEW o \in Object, PublishObject(o)
      PROVE  ClaimsAreOwned'
  BY <1>8, PublishEffect DEF Present, CommitType
<1>9. ASSUME NEW o \in Object, PublishFails(o)
      PROVE  ClaimsAreOwned'
  BY <1>9
     DEF PublishFails, Level, Present, storage, incoming
<1>10. ASSUME NEW o \in Object, UnmarkObject(o)
      PROVE  ClaimsAreOwned'
  BY <1>10
     DEF UnmarkObject, storage, incoming
<1>11. ASSUME NEW o \in Object, UnpublishObject(o)
      PROVE  ClaimsAreOwned'
  BY <1>11
     DEF UnpublishObject, storage, incoming
<1>12. ASSUME SyncLevel
      PROVE  ClaimsAreOwned'
  BY <1>12
     DEF SyncLevel, Level, storage, incoming
<1>13. ASSUME FinishLevel
      PROVE  ClaimsAreOwned'
  BY <1>13
     DEF FinishLevel, storage, incoming
<1>14. ASSUME CommitFails
      PROVE  ClaimsAreOwned'
  BY <1>14
     DEF CommitFails, NoCommit, storage, incoming
<1>15. ASSUME RecordCommitted
      PROVE  ClaimsAreOwned'
  BY <1>15
     DEF RecordCommitted, storage, incoming
<1>16. ASSUME RemoveStaging
      PROVE  ClaimsAreOwned'
  BY <1>16
     DEF RemoveStaging, NoCommit, storage, incoming
<1>17. ASSUME Exit
      PROVE  ClaimsAreOwned'
  BY <1>17
     DEF Exit, Stop, NoJob, NoCommit, storage, incoming
<1>18. ASSUME PowerLoss
      PROVE  ClaimsAreOwned'
  BY <1>18
     DEF PowerLoss, Stop, NoJob, NoCommit, storage, incoming
<1>19. ASSUME \/ \E b \in Batch : BeginBatch(b) \/ PutPart(b) \/ Recommit(b)
              \/ \E o \in Object : GCRemove(o) \/ GCFails(o) \/ Age(o)
              \/ \E R \in SUBSET Root : SetPins(R)
              \/ GCStart
              \/ GCRecoverFails
              \/ Open
              \/ UNCHANGED vars
      PROVE  ClaimsAreOwned'
  <2>1. UNCHANGED <<publishing, commit, job>>
    BY <1>19
       DEF BeginBatch, PutPart, Recommit, GCRemove, GCFails, Age, SetPins,
           GCStart, GCRecoverFails, Open, vars, storage, incoming
  <2> QED
    BY <2>1
<1> QED
  BY <1>1, <1>2, <1>3, <1>4, <1>5, <1>6, <1>7, <1>8, <1>9, <1>10, <1>11,
     <1>12, <1>13, <1>14, <1>15, <1>16, <1>17, <1>18, <1>19
     DEF Next

\* The stages of the writers follow one another.
LEMMA JobStep == StoreInv /\ [Next]_vars => JobStages'
<1> SUFFICES ASSUME StoreInv, [Next]_vars PROVE JobStages'
  OBVIOUS
<1> USE NoneAssumption, ContentsAssumption DEF StoreInv, TypeOK, Pc,
       CommitPc, ClaimsAreOwned, JobStages, CommitStages, Quiet
<1>1. ASSUME NEW w \in Writers, NEW o \in Object, PutStart(w, o)
      PROVE  JobStages'
  BY <1>1
     DEF PutStart, Shared, storage, incoming
<1>2. ASSUME NEW w \in Writers, NEW o \in Object, WriteObject(w, o)
      PROVE  JobStages'
  <2>1. CASE o \in Present
    <3>1. job' = [job EXCEPT ![w] = Advance(job[w], o)]
      BY <1>2, <2>1 DEF WriteObject
    <3> QED
      BY <1>2, <2>1, <3>1, AdvanceIsFree
         DEF WriteObject, JobType, storage, incoming
  <2>2. CASE o \notin Present
    BY <1>2, <2>2 DEF WriteObject, storage, incoming
  <2> QED
    BY <2>1, <2>2
<1>3. ASSUME NEW w \in Writers, RenameObject(w)
      PROVE  JobStages'
  BY <1>3
     DEF RenameObject, storage, incoming
<1>4. ASSUME NEW w \in Writers, SyncObject(w)
      PROVE  JobStages'
  BY <1>4
     DEF SyncObject, storage, incoming
<1>5. ASSUME NEW w \in Writers, MarkSynced(w)
      PROVE  JobStages'
  <2>1. job' = [job EXCEPT ![w] = Advance(job[w], job[w].at)]
    BY <1>5 DEF MarkSynced
  <2> QED
    BY <1>5, <2>1, AdvanceIsFree DEF MarkSynced, JobType, storage, incoming
<1>6. ASSUME NEW w \in Writers, PutFails(w)
      PROVE  JobStages'
  BY <1>6
     DEF PutFails, NoJob, storage, incoming
<1>7. ASSUME NEW o \in Object, PublishObject(o)
      PROVE  JobStages'
  BY <1>7, PublishEffect DEF Present, CommitType
<1>8. ASSUME NEW o \in Object, PublishFails(o)
      PROVE  JobStages'
  BY <1>8
     DEF PublishFails, Level, Present, storage, incoming
<1>9. ASSUME NEW o \in Object, UnmarkObject(o)
      PROVE  JobStages'
  BY <1>9
     DEF UnmarkObject, storage, incoming
<1>10. ASSUME NEW o \in Object, GCRemove(o)
      PROVE  JobStages'
  BY <1>10
     DEF GCRemove, storage, incoming
<1>11. ASSUME SyncLevel
      PROVE  JobStages'
  BY <1>11
     DEF SyncLevel, Level, storage, incoming
<1>12. ASSUME GCStart
      PROVE  JobStages'
  BY <1>12
     DEF GCStart, Exclusive, Shared, storage, incoming
<1>13. ASSUME GCRecoverFails
      PROVE  JobStages'
  BY <1>13
     DEF GCRecoverFails, Exclusive, Shared, storage, incoming
<1>14. ASSUME Exit
      PROVE  JobStages'
  BY <1>14
     DEF Exit, Stop, NoJob, NoCommit, storage, incoming
<1>15. ASSUME PowerLoss
      PROVE  JobStages'
  BY <1>15
     DEF PowerLoss, Stop, NoJob, NoCommit, storage, incoming
<1>16. ASSUME Open
      PROVE  JobStages'
  BY <1>16
     DEF Open, storage, incoming
<1>17. ASSUME \/ \E b \in Batch : BeginBatch(b) \/ PutPart(b) \/ CommitStart(b)
                 \/ Recommit(b)
              \/ \E o \in Object : UnpublishObject(o) \/ GCFails(o) \/ Age(o)
              \/ FinishLevel
              \/ CommitFails
              \/ RecordCommitted
              \/ RemoveStaging
              \/ UNCHANGED vars
              \/ \E R \in SUBSET Root : SetPins(R)
      PROVE  JobStages'
  BY <1>17
     DEF BeginBatch, PutPart, CommitStart, Recommit, UnpublishObject,
         GCFails, Age, FinishLevel, CommitFails, RecordCommitted,
         RemoveStaging, SetPins, vars, storage, incoming
<1> QED
  BY <1>1, <1>2, <1>3, <1>4, <1>5, <1>6, <1>7, <1>8, <1>9, <1>10, <1>11,
     <1>12, <1>13, <1>14, <1>15, <1>16, <1>17
     DEF Next

\* The stages of a commit follow one another.
LEMMA CommitStep == StoreInv /\ [Next]_vars => CommitStages'
<1> SUFFICES ASSUME StoreInv, [Next]_vars PROVE CommitStages'
  OBVIOUS
<1> USE NoneAssumption, ContentsAssumption DEF StoreInv, TypeOK, Pc,
       CommitPc, ClaimsAreOwned, JobStages, CommitStages, Quiet
<1>1. ASSUME NEW w \in Writers, NEW o \in Object, WriteObject(w, o)
      PROVE  CommitStages'
  BY <1>1
     DEF WriteObject, Advance, NoJob, Present, storage, incoming
<1>2. ASSUME NEW w \in Writers, RenameObject(w)
      PROVE  CommitStages'
  BY <1>2
     DEF RenameObject, storage, incoming
<1>3. ASSUME NEW w \in Writers, SyncObject(w)
      PROVE  CommitStages'
  BY <1>3
     DEF SyncObject, storage, incoming
<1>4. ASSUME NEW w \in Writers, MarkSynced(w)
      PROVE  CommitStages'
  BY <1>4
     DEF MarkSynced, Advance, NoJob, storage, incoming
<1>5. ASSUME NEW b \in Batch, CommitStart(b)
      PROVE  CommitStages'
  BY <1>5
     DEF CommitStart, Shared, NoCommit, Present, requireChildren, storage,
         incoming
<1>6. ASSUME NEW o \in Object, PublishObject(o)
      PROVE  CommitStages'
  BY <1>6, PublishEffect DEF Present, CommitType
<1>7. ASSUME NEW o \in Object, PublishFails(o)
      PROVE  CommitStages'
  BY <1>7
     DEF PublishFails, Level, Present, storage, incoming
<1>8. ASSUME NEW o \in Object, UnmarkObject(o)
      PROVE  CommitStages'
  BY <1>8
     DEF UnmarkObject, storage, incoming
<1>9. ASSUME NEW o \in Object, UnpublishObject(o)
      PROVE  CommitStages'
  BY <1>9
     DEF UnpublishObject, storage, incoming
<1>10. ASSUME NEW o \in Object, GCRemove(o)
      PROVE  CommitStages'
  BY <1>10
     DEF GCRemove, storage, incoming
<1>11. ASSUME NEW o \in Object, GCFails(o)
      PROVE  CommitStages'
  BY <1>11
     DEF GCFails, storage, incoming
<1>12. ASSUME SyncLevel
      PROVE  CommitStages'
  BY <1>12
     DEF SyncLevel, Level, storage, incoming
<1>13. ASSUME FinishLevel
      PROVE  CommitStages'
  BY <1>13
     DEF FinishLevel, storage, incoming
<1>14. ASSUME CommitFails
      PROVE  CommitStages'
  BY <1>14
     DEF CommitFails, NoCommit, storage, incoming
<1>15. ASSUME RecordCommitted
      PROVE  CommitStages'
  BY <1>15
     DEF RecordCommitted, storage, incoming
<1>16. ASSUME RemoveStaging
      PROVE  CommitStages'
  BY <1>16
     DEF RemoveStaging, NoCommit, storage, incoming
<1>17. ASSUME GCStart
      PROVE  CommitStages'
  BY <1>17
     DEF GCStart, Exclusive, Shared, storage, incoming
<1>18. ASSUME GCRecoverFails
      PROVE  CommitStages'
  BY <1>18
     DEF GCRecoverFails, Exclusive, Shared, storage, incoming
<1>19. ASSUME Exit
      PROVE  CommitStages'
  BY <1>19
     DEF Exit, Stop, NoJob, NoCommit, storage, incoming
<1>20. ASSUME PowerLoss
      PROVE  CommitStages'
  BY <1>20
     DEF PowerLoss, Stop, NoJob, NoCommit, storage, incoming
<1>21. ASSUME Open
      PROVE  CommitStages'
  BY <1>21
     DEF Open, storage, incoming
<1>22. ASSUME \/ \E w \in Writers, o \in Object : PutStart(w, o)
              \/ \E w \in Writers : PutFails(w)
              \/ \E b \in Batch : BeginBatch(b) \/ PutPart(b) \/ Recommit(b)
              \/ \E o \in Object : Age(o)
              \/ \E R \in SUBSET Root : SetPins(R)
              \/ UNCHANGED vars
      PROVE  CommitStages'
  BY <1>22
     DEF PutStart, PutFails, BeginBatch, PutPart, Recommit, Age, SetPins,
         vars, storage, incoming
<1> QED
  BY <1>1, <1>2, <1>3, <1>4, <1>5, <1>6, <1>7, <1>8, <1>9, <1>10, <1>11,
     <1>12, <1>13, <1>14, <1>15, <1>16, <1>17, <1>18, <1>19, <1>20,
     <1>21, <1>22
     DEF Next

\* Collections and closing exclude the other operations.
LEMMA QuietStep == StoreInv /\ [Next]_vars => Quiet'
<1> SUFFICES ASSUME StoreInv, [Next]_vars PROVE Quiet'
  OBVIOUS
<1> USE NoneAssumption, ContentsAssumption DEF StoreInv, TypeOK, Pc,
       CommitPc, Quiet, Shared
<1>1. ASSUME NEW w \in Writers, NEW o \in Object, PutStart(w, o)
      PROVE  Quiet'
  BY <1>1
     DEF PutStart, Shared, storage, incoming
<1>2. ASSUME NEW w \in Writers, NEW o \in Object, WriteObject(w, o)
      PROVE  Quiet'
  BY <1>2
     DEF WriteObject, Advance, NoJob, Present, storage, incoming
<1>3. ASSUME NEW w \in Writers, RenameObject(w)
      PROVE  Quiet'
  BY <1>3
     DEF RenameObject, storage, incoming
<1>4. ASSUME NEW w \in Writers, SyncObject(w)
      PROVE  Quiet'
  BY <1>4
     DEF SyncObject, storage, incoming
<1>5. ASSUME NEW w \in Writers, MarkSynced(w)
      PROVE  Quiet'
  BY <1>5
     DEF MarkSynced, Advance, NoJob, storage, incoming
<1>6. ASSUME NEW w \in Writers, PutFails(w)
      PROVE  Quiet'
  BY <1>6
     DEF PutFails, NoJob, storage, incoming
<1>7. ASSUME NEW b \in Batch, CommitStart(b)
      PROVE  Quiet'
  BY <1>7
     DEF CommitStart, Shared, NoCommit, Present, requireChildren, storage,
         incoming
<1>8. ASSUME NEW o \in Object, PublishObject(o)
      PROVE  Quiet'
  BY <1>8, PublishEffect DEF Present, CommitType
<1>9. ASSUME NEW o \in Object, PublishFails(o)
      PROVE  Quiet'
  BY <1>9
     DEF PublishFails, Level, Present, storage, incoming
<1>10. ASSUME NEW o \in Object, UnmarkObject(o)
      PROVE  Quiet'
  BY <1>10
     DEF UnmarkObject, storage, incoming
<1>11. ASSUME NEW o \in Object, UnpublishObject(o)
      PROVE  Quiet'
  BY <1>11
     DEF UnpublishObject, storage, incoming
<1>12. ASSUME NEW o \in Object, GCRemove(o)
      PROVE  Quiet'
  BY <1>12
     DEF GCRemove, storage, incoming
<1>13. ASSUME NEW o \in Object, GCFails(o)
      PROVE  Quiet'
  BY <1>13
     DEF GCFails, storage, incoming
<1>14. ASSUME SyncLevel
      PROVE  Quiet'
  BY <1>14
     DEF SyncLevel, Level, storage, incoming
<1>15. ASSUME FinishLevel
      PROVE  Quiet'
  BY <1>15
     DEF FinishLevel, storage, incoming
<1>16. ASSUME CommitFails
      PROVE  Quiet'
  BY <1>16
     DEF CommitFails, NoCommit, storage, incoming
<1>17. ASSUME RecordCommitted
      PROVE  Quiet'
  BY <1>17
     DEF RecordCommitted, storage, incoming
<1>18. ASSUME RemoveStaging
      PROVE  Quiet'
  BY <1>18
     DEF RemoveStaging, NoCommit, storage, incoming
<1>19. ASSUME GCStart
      PROVE  Quiet'
  BY <1>19
     DEF GCStart, Exclusive, Shared, storage, incoming
<1>20. ASSUME Exit
      PROVE  Quiet'
  BY <1>20
     DEF Exit, Stop, NoJob, NoCommit, storage, incoming
<1>21. ASSUME PowerLoss
      PROVE  Quiet'
  BY <1>21
     DEF PowerLoss, Stop, NoJob, NoCommit, storage, incoming
<1>22. ASSUME Open
      PROVE  Quiet'
  BY <1>22
     DEF Open, storage, incoming
<1>23. ASSUME \/ \E b \in Batch : BeginBatch(b) \/ PutPart(b) \/ Recommit(b)
              \/ \E o \in Object : Age(o)
              \/ \E R \in SUBSET Root : SetPins(R)
              \/ GCRecoverFails
              \/ UNCHANGED vars
      PROVE  Quiet'
  BY <1>23
     DEF BeginBatch, PutPart, Recommit, Age, SetPins, GCRecoverFails,
         vars, storage, incoming
<1> QED
  BY <1>1, <1>2, <1>3, <1>4, <1>5, <1>6, <1>7, <1>8, <1>9, <1>10, <1>11,
     <1>12, <1>13, <1>14, <1>15, <1>16, <1>17, <1>18, <1>19, <1>20,
     <1>21, <1>22, <1>23
     DEF Next

\* What is present stays durable.
LEMMA DurableStep == StoreInv /\ [Next]_vars => PresentIsDurable'
<1> SUFFICES ASSUME StoreInv, [Next]_vars PROVE PresentIsDurable'
  OBVIOUS
<1> USE NoneAssumption, ContentsAssumption DEF StoreInv, TypeOK, Pc,
       CommitPc, ClaimsAreOwned, JobStages, CommitStages, Quiet,
       PresentIsDurable, Present
<1>1. ASSUME NEW w \in Writers, NEW o \in Object, WriteObject(w, o)
      PROVE  PresentIsDurable'
  BY <1>1
     DEF WriteObject, Advance, NoJob, Present, storage, incoming
<1>2. ASSUME NEW w \in Writers, RenameObject(w)
      PROVE  PresentIsDurable'
  BY <1>2
     DEF RenameObject, storage, incoming
<1>3. ASSUME NEW w \in Writers, SyncObject(w)
      PROVE  PresentIsDurable'
  BY <1>3
     DEF SyncObject, storage, incoming
<1>4. ASSUME NEW w \in Writers, MarkSynced(w)
      PROVE  PresentIsDurable'
  BY <1>4
     DEF MarkSynced, Advance, NoJob, storage, incoming
<1>5. ASSUME NEW o \in Object, PublishObject(o)
      PROVE  PresentIsDurable'
  BY <1>5, PublishEffect DEF Present, CommitType
<1>6. ASSUME NEW o \in Object, PublishFails(o)
      PROVE  PresentIsDurable'
  BY <1>6
     DEF PublishFails, Level, Present, storage, incoming
<1>7. ASSUME NEW o \in Object, UnmarkObject(o)
      PROVE  PresentIsDurable'
  BY <1>7
     DEF UnmarkObject, storage, incoming
<1>8. ASSUME NEW o \in Object, UnpublishObject(o)
      PROVE  PresentIsDurable'
  BY <1>8
     DEF UnpublishObject, storage, incoming
<1>9. ASSUME NEW o \in Object, GCRemove(o)
      PROVE  PresentIsDurable'
  BY <1>9
     DEF GCRemove, storage, incoming
<1>10. ASSUME NEW o \in Object, GCFails(o)
      PROVE  PresentIsDurable'
  BY <1>10
     DEF GCFails, storage, incoming
<1>11. ASSUME SyncLevel
      PROVE  PresentIsDurable'
  BY <1>11
     DEF SyncLevel, Level, storage, incoming
<1>12. ASSUME GCStart
      PROVE  PresentIsDurable'
  BY <1>12
     DEF GCStart, Exclusive, Shared, storage, incoming
<1>13. ASSUME GCRecoverFails
      PROVE  PresentIsDurable'
  BY <1>13
     DEF GCRecoverFails, Exclusive, Shared, storage, incoming
<1>14. ASSUME PowerLoss
      PROVE  PresentIsDurable'
  BY <1>14
     DEF PowerLoss, Stop, NoJob, NoCommit, storage, incoming
<1>15. ASSUME Open
      PROVE  PresentIsDurable'
  BY <1>15
     DEF Open, storage, incoming
<1>16. ASSUME \/ \E w \in Writers, o \in Object : PutStart(w, o)
              \/ \E w \in Writers : PutFails(w)
              \/ \E b \in Batch : BeginBatch(b) \/ PutPart(b) \/ CommitStart(b)
                 \/ Recommit(b)
              \/ \E o \in Object : Age(o)
              \/ FinishLevel
              \/ CommitFails
              \/ RecordCommitted
              \/ RemoveStaging
              \/ Exit
              \/ UNCHANGED vars
              \/ \E R \in SUBSET Root : SetPins(R)
      PROVE  PresentIsDurable'
  BY <1>16
     DEF PutStart, PutFails, BeginBatch, PutPart, CommitStart, Recommit,
         Age, FinishLevel, CommitFails, RecordCommitted, RemoveStaging,
         SetPins, Exit, vars, storage, incoming, Stop
<1> QED
  BY <1>1, <1>2, <1>3, <1>4, <1>5, <1>6, <1>7, <1>8, <1>9, <1>10, <1>11,
     <1>12, <1>13, <1>14, <1>15, <1>16
     DEF Next

\* What a commit has seen stays present.
LEMMA SeesStep == StoreInv /\ [Next]_vars => CommitSees'
<1> SUFFICES ASSUME StoreInv, [Next]_vars PROVE CommitSees'
  OBVIOUS
<1> USE NoneAssumption, ContentsAssumption DEF StoreInv, TypeOK, Pc,
       CommitPc, ClaimsAreOwned, JobStages, CommitStages, Quiet, CommitSees,
       Present
<1>1. ASSUME NEW w \in Writers, NEW o \in Object, WriteObject(w, o)
      PROVE  CommitSees'
  BY <1>1
     DEF WriteObject, Advance, NoJob, Present, storage, incoming
<1>2. ASSUME NEW w \in Writers, RenameObject(w)
      PROVE  CommitSees'
  BY <1>2
     DEF RenameObject, storage, incoming
<1>3. ASSUME NEW w \in Writers, MarkSynced(w)
      PROVE  CommitSees'
  BY <1>3
     DEF MarkSynced, Advance, NoJob, storage, incoming
<1>4. ASSUME NEW b \in Batch, CommitStart(b)
      PROVE  CommitSees'
  BY <1>4
     DEF CommitStart, Shared, NoCommit, Present, requireChildren, storage,
         incoming
<1>5. ASSUME NEW o \in Object, PublishObject(o)
      PROVE  CommitSees'
  BY <1>5, PublishEffect DEF Present, CommitType
<1>6. ASSUME NEW o \in Object, PublishFails(o)
      PROVE  CommitSees'
  BY <1>6
     DEF PublishFails, Level, Present, storage, incoming
<1>7. ASSUME NEW o \in Object, UnmarkObject(o)
      PROVE  CommitSees'
  BY <1>7
     DEF UnmarkObject, storage, incoming
<1>8. ASSUME NEW o \in Object, UnpublishObject(o)
      PROVE  CommitSees'
  BY <1>8
     DEF UnpublishObject, storage, incoming
<1>9. ASSUME NEW o \in Object, GCRemove(o)
      PROVE  CommitSees'
  BY <1>9
     DEF GCRemove, storage, incoming
<1>10. ASSUME NEW o \in Object, GCFails(o)
      PROVE  CommitSees'
  BY <1>10
     DEF GCFails, storage, incoming
<1>11. ASSUME SyncLevel
      PROVE  CommitSees'
  BY <1>11
     DEF SyncLevel, Level, storage, incoming
<1>12. ASSUME FinishLevel
      PROVE  CommitSees'
  BY <1>12
     DEF FinishLevel, storage, incoming
<1>13. ASSUME CommitFails
      PROVE  CommitSees'
  BY <1>13
     DEF CommitFails, NoCommit, storage, incoming
<1>14. ASSUME RecordCommitted
      PROVE  CommitSees'
  BY <1>14
     DEF RecordCommitted, storage, incoming
<1>15. ASSUME RemoveStaging
      PROVE  CommitSees'
  BY <1>15
     DEF RemoveStaging, NoCommit, storage, incoming
<1>16. ASSUME GCStart
      PROVE  CommitSees'
  BY <1>16
     DEF GCStart, Exclusive, Shared, storage, incoming
<1>17. ASSUME GCRecoverFails
      PROVE  CommitSees'
  BY <1>17
     DEF GCRecoverFails, Exclusive, Shared, storage, incoming
<1>18. ASSUME Exit
      PROVE  CommitSees'
  BY <1>18
     DEF Exit, Stop, NoJob, NoCommit, storage, incoming
<1>19. ASSUME PowerLoss
      PROVE  CommitSees'
  BY <1>19
     DEF PowerLoss, Stop, NoJob, NoCommit, storage, incoming
<1>20. ASSUME Open
      PROVE  CommitSees'
  BY <1>20
     DEF Open, storage, incoming
<1>21. ASSUME \/ \E w \in Writers, o \in Object : PutStart(w, o)
              \/ \E w \in Writers : SyncObject(w) \/ PutFails(w)
              \/ \E b \in Batch : BeginBatch(b) \/ PutPart(b) \/ Recommit(b)
              \/ \E o \in Object : Age(o)
              \/ \E R \in SUBSET Root : SetPins(R)
              \/ UNCHANGED vars
      PROVE  CommitSees'
  BY <1>21
     DEF PutStart, SyncObject, PutFails, BeginBatch, PutPart, Recommit,
         Age, SetPins, vars, storage, incoming
<1> QED
  BY <1>1, <1>2, <1>3, <1>4, <1>5, <1>6, <1>7, <1>8, <1>9, <1>10, <1>11,
     <1>12, <1>13, <1>14, <1>15, <1>16, <1>17, <1>18, <1>19, <1>20,
     <1>21
     DEF Next

\* The inductive invariant holds of every behaviour of the store.
THEOREM StoreInvariant == Spec => []StoreInv
<1>1. Init => StoreInv
  <2> SUFFICES ASSUME Init PROVE StoreInv
    OBVIOUS
  <2> USE NoneAssumption DEF Init, NoJob, NoCommit
  <2>1. TypeOK
    BY DEF TypeOK, Pc, CommitPc
  <2>2. ClaimsAreOwned /\ JobStages
    BY DEF ClaimsAreOwned, JobStages
  <2>3. CommitStages /\ Quiet
    BY DEF CommitStages, Quiet
  <2>4. PresentIsDurable /\ CommitSees
    BY DEF PresentIsDurable, CommitSees, Present
  <2> QED
    BY <2>1, <2>2, <2>3, <2>4 DEF StoreInv
<1>2. StoreInv /\ [Next]_vars => StoreInv'
  BY TypeStep, ClaimsStep, JobStep, CommitStep, QuietStep, DurableStep, SeesStep
     DEF StoreInv
<1> QED
  BY <1>1, <1>2, PTL DEF Spec

\* The variables always have the values the code can give them (store.go:76).
THEOREM StoreTypeCorrect == Spec => []TypeOK
<1>1. StoreInv => TypeOK
  BY DEF StoreInv
<1> QED
  BY <1>1, StoreInvariant, PTL

\* Whatever a reader accepts survives a loss of power (store.go:52,
\* batch.go:303).
THEOREM StorePresentIsDurable == Spec => []PresentIsDurable
<1>1. StoreInv => PresentIsDurable
  BY DEF StoreInv
<1> QED
  BY <1>1, StoreInvariant, PTL

\* No claim leaks and no digest has two publishers (store.go:342).
THEOREM StoreClaimsAreOwned == Spec => []ClaimsAreOwned
<1>1. StoreInv => ClaimsAreOwned
  BY DEF StoreInv
<1> QED
  BY <1>1, StoreInvariant, PTL

\* A batch is recorded as committed only when readers see all of it
\* (batch.go:384).
THEOREM StoreCommittedIsPresent == Spec => []CommittedIsPresent
<1>1. StoreInv => CommittedIsPresent
  BY NoneAssumption DEF StoreInv, CommitSees, CommittedIsPresent, Present
<1> QED
  BY <1>1, StoreInvariant, PTL

-----------------------------------------------------------------------------
(***************************************************************************)
(* The store stays closed under its manifests as long as no collection     *)
(* stops half way: the argument from the order in which Put, PutGroup and  *)
(* CommitBatch publish, through stranded objects, crashes and recoveries.  *)
(* And nothing that is pinned or young loses any part of its closure,      *)
(* whatever the collector, a withdrawn commit, a crash or a loss of power  *)
(* does.                                                                   *)
(***************************************************************************)

\* A writer's manifest is written last, when all it names is present.
JobKids ==
    \A w \in Writers : job[w].pc # "idle" =>
        /\ job[w].goal \in Object
        /\ Kids[job[w].goal] \subseteq job[w].left \cup Present
        /\ job[w].left \subseteq Kids[job[w].goal] \cup {job[w].goal}
        /\ job[w].goal \in Group => job[w].left = {job[w].goal}
        /\ job[w].at # None => job[w].at \in job[w].left
        /\ job[w].at = job[w].goal => job[w].left = {job[w].goal}
        /\ job[w].pc \in {"named", "synced"} => job[w].at \in file

\* What a landed manifest names is landed or present.
CommitKids ==
    commit.pc # "idle" =>
        \A o \in commit.landed : Kids[o] \subseteq commit.landed \cup Present

\* A name that a loss of power may bring back is marked, so that the next
\* collection makes its removal durable before it removes anything.
WithdrawnIsMarked == ~torn => disk \ file \subseteq mark

\* Outside a sweep, all that is in place, durable or both names only what will
\* be in place whatever happens.
RestKids ==
    ~torn /\ doomed = {} =>
        \A o \in file \cup disk :
            Kids[o] \subseteq file \cap disk /\ (up => Kids[o] \subseteq Present)

\* In a sweep, what stays names only what stays.
SweepKids ==
    ~torn /\ doomed # {} =>
        /\ mark = {} /\ disk = file
        /\ \A o \in file \ doomed : Kids[o] \subseteq file \ doomed

\* The inductive invariant, on top of StoreInv.
ClosureInv ==
    /\ JobKids
    /\ CommitKids
    /\ WithdrawnIsMarked
    /\ RestKids
    /\ SweepKids

\* What a writer still has to write after an object.
LEMMA AdvanceLeft ==
    ASSUME NEW j \in JobType, NEW o
    PROVE  Advance(j, o).pc # "idle" =>
              /\ j.left # {o}
              /\ Advance(j, o).goal = j.goal
              /\ Advance(j, o).left = j.left \ {o}
<1>1. CASE j.left = {o}
  BY <1>1 DEF Advance, NoJob
<1>2. CASE j.left # {o}
  BY <1>2 DEF Advance, JobType
<1> QED
  BY <1>1, <1>2

\* What the collector keeps names nothing that it does not keep.
LEMMA ReachIsClosed ==
    ASSUME NEW R, NEW o \in Reach(R) \cap file
    PROVE  Kids[o] \subseteq Reach(R)
BY KidsAssumption DEF Reach, Closed

\* Writers write children first.
LEMMA JobKidsStep == StoreInv /\ ClosureInv /\ [Next]_vars => JobKids'
<1> SUFFICES ASSUME StoreInv, ClosureInv, [Next]_vars PROVE JobKids'
  OBVIOUS
<1> USE KidsAssumption, GroupAssumption, NoneAssumption, ContentsAssumption
       DEF StoreInv, TypeOK, Pc, CommitPc, ClaimsAreOwned, JobStages,
       CommitStages, Quiet, PresentIsDurable, CommitSees, Present,
       ClosureInv, JobKids
<1>1. ASSUME NEW w \in Writers, NEW o \in Object, PutStart(w, o)
      PROVE  JobKids'
  BY <1>1
     DEF PutStart, Shared, storage, incoming
<1>2. ASSUME NEW w \in Writers, NEW o \in Object, WriteObject(w, o)
      PROVE  JobKids'
  <2>1. CASE o \in Present
    <3> DEFINE j == Advance(job[w], o)
    <3>1. job' = [job EXCEPT ![w] = j] /\ UNCHANGED <<file, mark>>
      BY <1>2, <2>1 DEF WriteObject
    <3>2. j.at = None /\ j.pc \in {"idle", "next"}
      BY AdvanceIsFree DEF JobType
    <3>3. j.pc # "idle" =>
             job[w].left # {o} /\ j.goal = job[w].goal /\ j.left = job[w].left \ {o}
      BY AdvanceLeft DEF JobType
    <3>4. job[w].pc # "idle"
      BY <1>2 DEF WriteObject
    <3> HIDE DEF j
    <3> QED
      BY <1>2, <2>1, <3>1, <3>2, <3>3, <3>4 DEF WriteObject
  <2>2. CASE o \notin Present
    BY <1>2, <2>2 DEF WriteObject
  <2> QED
    BY <2>1, <2>2
<1>3. ASSUME NEW w \in Writers, RenameObject(w)
      PROVE  JobKids'
  BY <1>3
     DEF RenameObject, storage, incoming
<1>4. ASSUME NEW w \in Writers, SyncObject(w)
      PROVE  JobKids'
  BY <1>4
     DEF SyncObject, storage, incoming
<1>5. ASSUME NEW w \in Writers, MarkSynced(w)
      PROVE  JobKids'
  <2> DEFINE o == job[w].at
             j == Advance(job[w], o)
  <2>1. job' = [job EXCEPT ![w] = j] /\ file' = file /\ mark' = mark \ {o}
    BY <1>5 DEF MarkSynced
  <2>2. j.at = None /\ j.pc \in {"idle", "next"}
    BY AdvanceIsFree DEF JobType
  <2>3. j.pc # "idle" =>
           job[w].left # {o} /\ j.goal = job[w].goal /\ j.left = job[w].left \ {o}
    BY AdvanceLeft DEF JobType
  <2>4. job[w].pc = "synced" /\ o \in file
    BY <1>5 DEF MarkSynced
  <2>5. Present \subseteq Present' /\ o \in Present'
    BY <2>1, <2>4
  <2> HIDE DEF j, Present
  <2> QED
    BY <2>1, <2>2, <2>3, <2>4, <2>5
<1>6. ASSUME NEW w \in Writers, PutFails(w)
      PROVE  JobKids'
  BY <1>6
     DEF PutFails, NoJob, storage, incoming
<1>7. ASSUME NEW o \in Object, PublishObject(o)
      PROVE  JobKids'
  BY <1>7, PublishEffect DEF Present, CommitType
<1>8. ASSUME NEW o \in Object, PublishFails(o)
      PROVE  JobKids'
  BY <1>8
     DEF PublishFails, Level, Present, storage, incoming
<1>9. ASSUME NEW o \in Object, UnmarkObject(o)
      PROVE  JobKids'
  BY <1>9
     DEF UnmarkObject, storage, incoming
<1>10. ASSUME NEW o \in Object, UnpublishObject(o)
      PROVE  JobKids'
  BY <1>10
     DEF UnpublishObject, storage, incoming
<1>11. ASSUME NEW o \in Object, GCRemove(o)
      PROVE  JobKids'
  BY <1>11
     DEF GCRemove, storage, incoming
<1>12. ASSUME NEW o \in Object, GCFails(o)
      PROVE  JobKids'
  BY <1>12
     DEF GCFails, storage, incoming
<1>13. ASSUME GCStart
      PROVE  JobKids'
  BY <1>13
     DEF GCStart, Exclusive, Shared, storage, incoming
<1>14. ASSUME GCRecoverFails
      PROVE  JobKids'
  BY <1>14
     DEF GCRecoverFails, Exclusive, Shared, storage, incoming
<1>15. ASSUME Exit
      PROVE  JobKids'
  BY <1>15
     DEF Exit, Stop, NoJob, NoCommit, storage, incoming
<1>16. ASSUME PowerLoss
      PROVE  JobKids'
  BY <1>16
     DEF PowerLoss, Stop, NoJob, NoCommit, storage, incoming
<1>17. ASSUME Open
      PROVE  JobKids'
  BY <1>17
     DEF Open, storage, incoming
<1>18. ASSUME \/ \E b \in Batch : BeginBatch(b) \/ PutPart(b) \/ CommitStart(b)
                 \/ Recommit(b)
              \/ \E o \in Object : Age(o)
              \/ SyncLevel
              \/ FinishLevel
              \/ CommitFails
              \/ RecordCommitted
              \/ RemoveStaging
              \/ UNCHANGED vars
              \/ \E R \in SUBSET Root : SetPins(R)
      PROVE  JobKids'
  BY <1>18
     DEF BeginBatch, PutPart, CommitStart, Recommit, Age, SyncLevel,
         FinishLevel, CommitFails, RecordCommitted, RemoveStaging,
         SetPins, vars, storage, incoming
<1> QED
  BY <1>1, <1>2, <1>3, <1>4, <1>5, <1>6, <1>7, <1>8, <1>9, <1>10, <1>11,
     <1>12, <1>13, <1>14, <1>15, <1>16, <1>17, <1>18
     DEF Next

\* Landed manifests keep what they need.
LEMMA CommitKidsStep == StoreInv /\ ClosureInv /\ [Next]_vars => CommitKids'
<1> SUFFICES ASSUME StoreInv, ClosureInv, [Next]_vars PROVE CommitKids'
  OBVIOUS
<1> USE KidsAssumption, GroupAssumption, NoneAssumption, ContentsAssumption
       DEF StoreInv, TypeOK, Pc, CommitPc, ClaimsAreOwned, JobStages,
       CommitStages, Quiet, PresentIsDurable, CommitSees, Present,
       ClosureInv, CommitKids
<1>1. ASSUME NEW w \in Writers, NEW o \in Object, WriteObject(w, o)
      PROVE  CommitKids'
  BY <1>1
     DEF WriteObject, Advance, NoJob, Present, storage, incoming
<1>2. ASSUME NEW w \in Writers, RenameObject(w)
      PROVE  CommitKids'
  BY <1>2
     DEF RenameObject, storage, incoming
<1>3. ASSUME NEW w \in Writers, MarkSynced(w)
      PROVE  CommitKids'
  BY <1>3
     DEF MarkSynced, Advance, NoJob, storage, incoming
<1>4. ASSUME NEW b \in Batch, CommitStart(b)
      PROVE  CommitKids'
  BY <1>4
     DEF CommitStart, Shared, NoCommit, Present, requireChildren, storage,
         incoming
<1>5. ASSUME NEW o \in Object, PublishObject(o)
      PROVE  CommitKids'
  BY <1>5, PublishEffect DEF Present, CommitType
<1>6. ASSUME NEW o \in Object, PublishFails(o)
      PROVE  CommitKids'
  BY <1>6
     DEF PublishFails, Level, Present, storage, incoming
<1>7. ASSUME NEW o \in Object, UnmarkObject(o)
      PROVE  CommitKids'
  BY <1>7
     DEF UnmarkObject, storage, incoming
<1>8. ASSUME NEW o \in Object, UnpublishObject(o)
      PROVE  CommitKids'
  BY <1>8
     DEF UnpublishObject, storage, incoming
<1>9. ASSUME NEW o \in Object, GCRemove(o)
      PROVE  CommitKids'
  BY <1>9
     DEF GCRemove, storage, incoming
<1>10. ASSUME NEW o \in Object, GCFails(o)
      PROVE  CommitKids'
  BY <1>10
     DEF GCFails, storage, incoming
<1>11. ASSUME SyncLevel
      PROVE  CommitKids'
  BY <1>11
     DEF SyncLevel, Level, storage, incoming
<1>12. ASSUME FinishLevel
      PROVE  CommitKids'
  BY <1>12
     DEF FinishLevel, storage, incoming
<1>13. ASSUME CommitFails
      PROVE  CommitKids'
  BY <1>13
     DEF CommitFails, NoCommit, storage, incoming
<1>14. ASSUME RecordCommitted
      PROVE  CommitKids'
  BY <1>14
     DEF RecordCommitted, storage, incoming
<1>15. ASSUME RemoveStaging
      PROVE  CommitKids'
  BY <1>15
     DEF RemoveStaging, NoCommit, storage, incoming
<1>16. ASSUME GCStart
      PROVE  CommitKids'
  BY <1>16
     DEF GCStart, Exclusive, Shared, storage, incoming
<1>17. ASSUME GCRecoverFails
      PROVE  CommitKids'
  BY <1>17
     DEF GCRecoverFails, Exclusive, Shared, storage, incoming
<1>18. ASSUME Exit
      PROVE  CommitKids'
  BY <1>18
     DEF Exit, Stop, NoJob, NoCommit, storage, incoming
<1>19. ASSUME PowerLoss
      PROVE  CommitKids'
  BY <1>19
     DEF PowerLoss, Stop, NoJob, NoCommit, storage, incoming
<1>20. ASSUME Open
      PROVE  CommitKids'
  BY <1>20
     DEF Open, storage, incoming
<1>21. ASSUME \/ \E w \in Writers, o \in Object : PutStart(w, o)
              \/ \E w \in Writers : SyncObject(w) \/ PutFails(w)
              \/ \E b \in Batch : BeginBatch(b) \/ PutPart(b) \/ Recommit(b)
              \/ \E o \in Object : Age(o)
              \/ \E R \in SUBSET Root : SetPins(R)
              \/ UNCHANGED vars
      PROVE  CommitKids'
  BY <1>21
     DEF PutStart, SyncObject, PutFails, BeginBatch, PutPart, Recommit,
         Age, SetPins, vars, storage, incoming
<1> QED
  BY <1>1, <1>2, <1>3, <1>4, <1>5, <1>6, <1>7, <1>8, <1>9, <1>10, <1>11,
     <1>12, <1>13, <1>14, <1>15, <1>16, <1>17, <1>18, <1>19, <1>20,
     <1>21
     DEF Next

\* Withdrawn names stay marked until a sync.
LEMMA WithdrawnStep == StoreInv /\ ClosureInv /\ [Next]_vars => WithdrawnIsMarked'
<1> SUFFICES ASSUME StoreInv, ClosureInv, [Next]_vars PROVE WithdrawnIsMarked'
  OBVIOUS
<1> USE KidsAssumption, GroupAssumption, NoneAssumption, ContentsAssumption
       DEF StoreInv, TypeOK, Pc, CommitPc, ClaimsAreOwned, JobStages,
       CommitStages, Quiet, PresentIsDurable, CommitSees, Present,
       ClosureInv, WithdrawnIsMarked, SweepKids, JobKids
<1>1. ASSUME NEW w \in Writers, NEW o \in Object, WriteObject(w, o)
      PROVE  WithdrawnIsMarked'
  BY <1>1
     DEF WriteObject, Advance, NoJob, Present, storage, incoming
<1>2. ASSUME NEW w \in Writers, RenameObject(w)
      PROVE  WithdrawnIsMarked'
  BY <1>2
     DEF RenameObject, storage, incoming
<1>3. ASSUME NEW w \in Writers, SyncObject(w)
      PROVE  WithdrawnIsMarked'
  BY <1>3
     DEF SyncObject, storage, incoming
<1>4. ASSUME NEW w \in Writers, MarkSynced(w)
      PROVE  WithdrawnIsMarked'
  BY <1>4
     DEF MarkSynced, Advance, NoJob, storage, incoming
<1>5. ASSUME NEW o \in Object, PublishObject(o)
      PROVE  WithdrawnIsMarked'
  BY <1>5, PublishEffect DEF Present, CommitType
<1>6. ASSUME NEW o \in Object, PublishFails(o)
      PROVE  WithdrawnIsMarked'
  BY <1>6
     DEF PublishFails, Level, Present, storage, incoming
<1>7. ASSUME NEW o \in Object, UnmarkObject(o)
      PROVE  WithdrawnIsMarked'
  BY <1>7
     DEF UnmarkObject, storage, incoming
<1>8. ASSUME NEW o \in Object, UnpublishObject(o)
      PROVE  WithdrawnIsMarked'
  BY <1>8
     DEF UnpublishObject, storage, incoming
<1>9. ASSUME NEW o \in Object, GCRemove(o)
      PROVE  WithdrawnIsMarked'
  BY <1>9
     DEF GCRemove, storage, incoming
<1>10. ASSUME NEW o \in Object, GCFails(o)
      PROVE  WithdrawnIsMarked'
  BY <1>10
     DEF GCFails, storage, incoming
<1>11. ASSUME SyncLevel
      PROVE  WithdrawnIsMarked'
  BY <1>11
     DEF SyncLevel, Level, storage, incoming
<1>12. ASSUME GCStart
      PROVE  WithdrawnIsMarked'
  BY <1>12
     DEF GCStart, Exclusive, Shared, storage, incoming
<1>13. ASSUME GCRecoverFails
      PROVE  WithdrawnIsMarked'
  BY <1>13
     DEF GCRecoverFails, Exclusive, Shared, storage, incoming
<1>14. ASSUME Exit
      PROVE  WithdrawnIsMarked'
  BY <1>14
     DEF Exit, Stop, NoJob, NoCommit, storage, incoming
<1>15. ASSUME PowerLoss
      PROVE  WithdrawnIsMarked'
  BY <1>15
     DEF PowerLoss, Stop, NoJob, NoCommit, storage, incoming
<1>16. ASSUME Open
      PROVE  WithdrawnIsMarked'
  BY <1>16
     DEF Open, storage, incoming
<1>17. ASSUME \/ \E w \in Writers, o \in Object : PutStart(w, o)
              \/ \E w \in Writers : PutFails(w)
              \/ \E b \in Batch : BeginBatch(b) \/ PutPart(b) \/ CommitStart(b)
                 \/ Recommit(b)
              \/ \E o \in Object : Age(o)
              \/ FinishLevel
              \/ CommitFails
              \/ RecordCommitted
              \/ RemoveStaging
              \/ UNCHANGED vars
              \/ \E R \in SUBSET Root : SetPins(R)
      PROVE  WithdrawnIsMarked'
  BY <1>17
     DEF PutStart, PutFails, BeginBatch, PutPart, CommitStart, Recommit,
         Age, FinishLevel, CommitFails, RecordCommitted, RemoveStaging,
         SetPins, vars, storage, incoming
<1> QED
  BY <1>1, <1>2, <1>3, <1>4, <1>5, <1>6, <1>7, <1>8, <1>9, <1>10, <1>11,
     <1>12, <1>13, <1>14, <1>15, <1>16, <1>17
     DEF Next

\* Every publication finds its children present.
LEMMA RestStep == StoreInv /\ ClosureInv /\ [Next]_vars => RestKids'
<1> SUFFICES ASSUME StoreInv, ClosureInv, [Next]_vars PROVE RestKids'
  OBVIOUS
<1> USE KidsAssumption, GroupAssumption, NoneAssumption, ContentsAssumption
       DEF StoreInv, TypeOK, Pc, CommitPc, ClaimsAreOwned, JobStages,
       CommitStages, Quiet, PresentIsDurable, CommitSees, Present,
       ClosureInv, JobKids, CommitKids, WithdrawnIsMarked, RestKids,
       SweepKids
<1>1. ASSUME NEW w \in Writers, NEW o \in Object, WriteObject(w, o)
      PROVE  RestKids'
  BY <1>1
     DEF WriteObject, Advance, NoJob, Present, storage, incoming
<1>2. ASSUME NEW w \in Writers, RenameObject(w)
      PROVE  RestKids'
  BY <1>2
     DEF RenameObject, storage, incoming
<1>3. ASSUME NEW w \in Writers, SyncObject(w)
      PROVE  RestKids'
  BY <1>3
     DEF SyncObject, storage, incoming
<1>4. ASSUME NEW w \in Writers, MarkSynced(w)
      PROVE  RestKids'
  BY <1>4
     DEF MarkSynced, Advance, NoJob, storage, incoming
<1>5. ASSUME NEW o \in Object, PublishObject(o)
      PROVE  RestKids'
  BY <1>5, PublishEffect DEF Present, CommitType
<1>6. ASSUME NEW o \in Object, PublishFails(o)
      PROVE  RestKids'
  BY <1>6
     DEF PublishFails, Level, Present, storage, incoming
<1>7. ASSUME NEW o \in Object, UnmarkObject(o)
      PROVE  RestKids'
  BY <1>7
     DEF UnmarkObject, storage, incoming
<1>8. ASSUME NEW o \in Object, UnpublishObject(o)
      PROVE  RestKids'
  BY <1>8
     DEF UnpublishObject, storage, incoming
<1>9. ASSUME NEW o \in Object, GCRemove(o)
      PROVE  RestKids'
  BY <1>9
     DEF GCRemove, storage, incoming
<1>10. ASSUME NEW o \in Object, GCFails(o)
      PROVE  RestKids'
  BY <1>10
     DEF GCFails, storage, incoming
<1>11. ASSUME SyncLevel
      PROVE  RestKids'
  BY <1>11
     DEF SyncLevel, Level, storage, incoming
<1>12. ASSUME GCStart
      PROVE  RestKids'
  BY <1>12
     DEF GCStart, Exclusive, Shared, storage, incoming
<1>13. ASSUME GCRecoverFails
      PROVE  RestKids'
  BY <1>13
     DEF GCRecoverFails, Exclusive, Shared, storage, incoming
<1>14. ASSUME Exit
      PROVE  RestKids'
  BY <1>14
     DEF Exit, Stop, NoJob, NoCommit, storage, incoming
<1>15. ASSUME PowerLoss
      PROVE  RestKids'
  <2>1. PICK S \in SUBSET (file \cup disk) :
           file \cap disk \subseteq S /\ file' = S /\ disk' = S
    BY <1>15 DEF PowerLoss
  <2>2. up' = FALSE /\ torn' = (torn \/ doomed # {})
    BY <1>15 DEF PowerLoss, Stop
  <2> QED
    BY <2>1, <2>2
<1>16. ASSUME Open
      PROVE  RestKids'
  BY <1>16
     DEF Open, storage, incoming
<1>17. ASSUME \/ \E w \in Writers, o \in Object : PutStart(w, o)
              \/ \E w \in Writers : PutFails(w)
              \/ \E b \in Batch : BeginBatch(b) \/ PutPart(b) \/ CommitStart(b)
                 \/ Recommit(b)
              \/ \E o \in Object : Age(o)
              \/ FinishLevel
              \/ CommitFails
              \/ RecordCommitted
              \/ RemoveStaging
              \/ UNCHANGED vars
              \/ \E R \in SUBSET Root : SetPins(R)
      PROVE  RestKids'
  BY <1>17
     DEF PutStart, PutFails, BeginBatch, PutPart, CommitStart, Recommit,
         Age, FinishLevel, CommitFails, RecordCommitted, RemoveStaging,
         SetPins, vars, storage, incoming
<1> QED
  BY <1>1, <1>2, <1>3, <1>4, <1>5, <1>6, <1>7, <1>8, <1>9, <1>10, <1>11,
     <1>12, <1>13, <1>14, <1>15, <1>16, <1>17
     DEF Next

\* A sweep leaves closed what it leaves.
LEMMA SweepStep == StoreInv /\ ClosureInv /\ [Next]_vars => SweepKids'
<1> SUFFICES ASSUME StoreInv, ClosureInv, [Next]_vars PROVE SweepKids'
  OBVIOUS
<1> USE KidsAssumption, GroupAssumption, NoneAssumption, ContentsAssumption
       DEF StoreInv, TypeOK, Pc, CommitPc, ClaimsAreOwned, JobStages,
       CommitStages, Quiet, PresentIsDurable, CommitSees, Present,
       ClosureInv, WithdrawnIsMarked, RestKids, SweepKids
<1>1. ASSUME NEW w \in Writers, NEW o \in Object, WriteObject(w, o)
      PROVE  SweepKids'
  BY <1>1
     DEF WriteObject, Advance, NoJob, Present, storage, incoming
<1>2. ASSUME NEW w \in Writers, RenameObject(w)
      PROVE  SweepKids'
  BY <1>2
     DEF RenameObject, storage, incoming
<1>3. ASSUME NEW w \in Writers, SyncObject(w)
      PROVE  SweepKids'
  BY <1>3
     DEF SyncObject, storage, incoming
<1>4. ASSUME NEW w \in Writers, MarkSynced(w)
      PROVE  SweepKids'
  BY <1>4
     DEF MarkSynced, Advance, NoJob, storage, incoming
<1>5. ASSUME NEW o \in Object, PublishObject(o)
      PROVE  SweepKids'
  BY <1>5, PublishEffect DEF Present, CommitType
<1>6. ASSUME NEW o \in Object, PublishFails(o)
      PROVE  SweepKids'
  BY <1>6
     DEF PublishFails, Level, Present, storage, incoming
<1>7. ASSUME NEW o \in Object, UnmarkObject(o)
      PROVE  SweepKids'
  BY <1>7
     DEF UnmarkObject, storage, incoming
<1>8. ASSUME NEW o \in Object, UnpublishObject(o)
      PROVE  SweepKids'
  BY <1>8
     DEF UnpublishObject, storage, incoming
<1>9. ASSUME NEW o \in Object, GCRemove(o)
      PROVE  SweepKids'
  BY <1>9
     DEF GCRemove, storage, incoming
<1>10. ASSUME NEW o \in Object, GCFails(o)
      PROVE  SweepKids'
  BY <1>10
     DEF GCFails, storage, incoming
<1>11. ASSUME SyncLevel
      PROVE  SweepKids'
  BY <1>11
     DEF SyncLevel, Level, storage, incoming
<1>12. ASSUME GCStart
      PROVE  SweepKids'
  <2>0. ~torn /\ mark = {} => disk = file
    <3>1. file \subseteq disk \cup mark
      OBVIOUS
    <3>2. ~torn => disk \subseteq file \cup mark
      OBVIOUS
    <3> QED
      BY <3>1, <3>2
  <2>1. mark' = {} /\ file' = file /\ torn' = torn /\ (~torn => disk' = file)
    BY <1>12, <2>0 DEF GCStart
  <2>2. ~torn => \A o \in file : Kids[o] \subseteq file
    BY <1>12 DEF GCStart, Exclusive, Shared
  <2>3. doomed' = file \ Reach(pins \cup young)
    BY <1>12 DEF GCStart
  <2> QED
    BY <2>1, <2>2, <2>3, ReachIsClosed
<1>13. ASSUME GCRecoverFails
      PROVE  SweepKids'
  BY <1>13
     DEF GCRecoverFails, Exclusive, Shared, storage, incoming
<1>14. ASSUME Exit
      PROVE  SweepKids'
  BY <1>14
     DEF Exit, Stop, NoJob, NoCommit, storage, incoming
<1>15. ASSUME PowerLoss
      PROVE  SweepKids'
  BY <1>15
     DEF PowerLoss, Stop, NoJob, NoCommit, storage, incoming
<1>16. ASSUME Open
      PROVE  SweepKids'
  BY <1>16
     DEF Open, storage, incoming
<1>17. ASSUME \/ \E w \in Writers, o \in Object : PutStart(w, o)
              \/ \E w \in Writers : PutFails(w)
              \/ \E b \in Batch : BeginBatch(b) \/ PutPart(b) \/ CommitStart(b)
                 \/ Recommit(b)
              \/ \E o \in Object : Age(o)
              \/ FinishLevel
              \/ CommitFails
              \/ RecordCommitted
              \/ RemoveStaging
              \/ UNCHANGED vars
              \/ \E R \in SUBSET Root : SetPins(R)
      PROVE  SweepKids'
  BY <1>17
     DEF PutStart, PutFails, BeginBatch, PutPart, CommitStart, Recommit,
         Age, FinishLevel, CommitFails, RecordCommitted, RemoveStaging,
         SetPins, vars, storage, incoming
<1> QED
  BY <1>1, <1>2, <1>3, <1>4, <1>5, <1>6, <1>7, <1>8, <1>9, <1>10, <1>11,
     <1>12, <1>13, <1>14, <1>15, <1>16, <1>17
     DEF Next

\* Every manifest present outside a sweep has all its children present as long
\* as every sweep has finished (store.go:77, gc.go:28).
THEOREM StoreClosedUnlessTorn == Spec => []ClosedUnlessTorn
<1>1. Init => ClosureInv
  BY NoneAssumption DEF Init, ClosureInv, JobKids, CommitKids, WithdrawnIsMarked,
     RestKids, SweepKids, NoJob, NoCommit
<1>2. StoreInv /\ ClosureInv /\ [Next]_vars => ClosureInv'
  BY JobKidsStep, CommitKidsStep, WithdrawnStep, RestStep, SweepStep DEF ClosureInv
<1>3. ClosureInv => ClosedUnlessTorn
  BY DEF ClosureInv, RestKids, ClosedUnlessTorn, Present
<1> QED
  BY <1>1, <1>2, <1>3, StoreInvariant, PTL DEF Spec

-----------------------------------------------------------------------------
\* The collector has doomed nothing that it would keep now.
DoomedIsUnreached == doomed \cap Reach(pins \cup young) = {}

\* More roots and more files reach more.
LEMMA ReachGrows ==
    ASSUME NEW Q, NEW R
    PROVE  /\ Q \subseteq R => Reach(Q) \subseteq Reach(R)
           /\ Q \subseteq R /\ file' \subseteq file => Reach(Q)' \subseteq Reach(R)
BY DEF Reach, Closed

\* A sweep dooms nothing that gets pinned or touched.
LEMMA DoomedStep == StoreInv /\ DoomedIsUnreached /\ [Next]_vars => DoomedIsUnreached'
<1> SUFFICES ASSUME StoreInv, DoomedIsUnreached, [Next]_vars PROVE DoomedIsUnreached'
  OBVIOUS
<1> USE NoneAssumption DEF StoreInv, Quiet, DoomedIsUnreached
<1>1. ASSUME NEW w \in Writers, NEW o \in Object, WriteObject(w, o)
      PROVE  DoomedIsUnreached'
  BY <1>1
     DEF WriteObject, Advance, NoJob, Present, storage, incoming
<1>2. ASSUME NEW w \in Writers, RenameObject(w)
      PROVE  DoomedIsUnreached'
  BY <1>2
     DEF RenameObject, storage, incoming
<1>3. ASSUME NEW b \in Batch, CommitStart(b)
      PROVE  DoomedIsUnreached'
  BY <1>3
     DEF CommitStart, Shared, NoCommit, Present, requireChildren, storage,
         incoming
<1>4. ASSUME NEW b \in Batch, Recommit(b)
      PROVE  DoomedIsUnreached'
  BY <1>4
     DEF Recommit, Shared, storage, incoming
<1>5. ASSUME NEW o \in Object, PublishObject(o)
      PROVE  DoomedIsUnreached'
  BY <1>5
     DEF PublishObject, Level, Present, storage, incoming
<1>6. ASSUME NEW o \in Object, UnpublishObject(o)
      PROVE  DoomedIsUnreached'
  BY <1>6
     DEF UnpublishObject, storage, incoming
<1>7. ASSUME NEW o \in Object, GCRemove(o)
      PROVE  DoomedIsUnreached'
  <2>1. file' \subseteq file /\ doomed' \subseteq doomed /\ UNCHANGED <<pins, young>>
    BY <1>7 DEF GCRemove
  <2> QED
    BY <2>1, ReachGrows
<1>8. ASSUME NEW o \in Object, GCFails(o)
      PROVE  DoomedIsUnreached'
  BY <1>8
     DEF GCFails, storage, incoming
<1>9. ASSUME NEW o \in Object, Age(o)
      PROVE  DoomedIsUnreached'
  <2>1. young' \subseteq young /\ UNCHANGED <<file, pins, doomed>>
    BY <1>9 DEF Age
  <2>2. pins' \cup young' \subseteq pins \cup young
    BY <2>1
  <2> QED
    BY <2>1, <2>2, ReachGrows
<1>10. ASSUME NEW R \in SUBSET Root, SetPins(R)
      PROVE  DoomedIsUnreached'
  BY <1>10
     DEF SetPins, Shared, storage, incoming
<1>11. ASSUME GCStart
      PROVE  DoomedIsUnreached'
  <2>1. doomed' = file \ Reach(pins \cup young) /\ UNCHANGED <<file, pins, young>>
    BY <1>11 DEF GCStart
  <2> QED
    BY <2>1, ReachGrows
<1>12. ASSUME Exit
      PROVE  DoomedIsUnreached'
  BY <1>12
     DEF Exit, Stop, NoJob, NoCommit, storage, incoming
<1>13. ASSUME PowerLoss
      PROVE  DoomedIsUnreached'
  BY <1>13
     DEF PowerLoss, Stop, NoJob, NoCommit, storage, incoming
<1>14. ASSUME \/ \E w \in Writers, o \in Object : PutStart(w, o)
              \/ \E w \in Writers : SyncObject(w) \/ MarkSynced(w) \/ PutFails(w)
              \/ \E b \in Batch : BeginBatch(b) \/ PutPart(b)
              \/ \E o \in Object : PublishFails(o) \/ UnmarkObject(o)
              \/ SyncLevel
              \/ FinishLevel
              \/ CommitFails
              \/ RecordCommitted
              \/ RemoveStaging
              \/ GCRecoverFails
              \/ Open
              \/ UNCHANGED vars
      PROVE  DoomedIsUnreached'
  <2>1. UNCHANGED <<file, pins, young, doomed>>
    BY <1>14
       DEF PutStart, SyncObject, MarkSynced, PutFails, BeginBatch,
           PutPart, PublishFails, UnmarkObject, SyncLevel, FinishLevel,
           CommitFails, RecordCommitted, RemoveStaging, GCRecoverFails,
           Open, vars, storage, incoming
  <2> QED
    BY <2>1, ReachGrows
<1> QED
  BY <1>1, <1>2, <1>3, <1>4, <1>5, <1>6, <1>7, <1>8, <1>9, <1>10, <1>11,
     <1>12, <1>13, <1>14
     DEF Next

\* Only a sweep takes away what is present.
LEMMA PresentStays == StoreInv /\ [Next]_vars => Present \ doomed \subseteq (file \cap disk)'
<1> SUFFICES ASSUME StoreInv, [Next]_vars PROVE Present \ doomed \subseteq (file \cap disk)'
  OBVIOUS
<1> USE NoneAssumption DEF StoreInv, TypeOK, Pc, CommitPc, ClaimsAreOwned,
       JobStages, CommitStages, Quiet, PresentIsDurable, CommitSees, Present
<1>1. ASSUME NEW w \in Writers, RenameObject(w)
      PROVE  Present \ doomed \subseteq (file \cap disk)'
  BY <1>1
     DEF RenameObject, storage, incoming
<1>2. ASSUME NEW w \in Writers, SyncObject(w)
      PROVE  Present \ doomed \subseteq (file \cap disk)'
  BY <1>2
     DEF SyncObject, storage, incoming
<1>3. ASSUME NEW o \in Object, PublishObject(o)
      PROVE  Present \ doomed \subseteq (file \cap disk)'
  BY <1>3, PublishEffect DEF Present, CommitType
<1>4. ASSUME NEW o \in Object, UnpublishObject(o)
      PROVE  Present \ doomed \subseteq (file \cap disk)'
  BY <1>4
     DEF UnpublishObject, storage, incoming
<1>5. ASSUME NEW o \in Object, GCRemove(o)
      PROVE  Present \ doomed \subseteq (file \cap disk)'
  BY <1>5
     DEF GCRemove, storage, incoming
<1>6. ASSUME NEW o \in Object, GCFails(o)
      PROVE  Present \ doomed \subseteq (file \cap disk)'
  BY <1>6
     DEF GCFails, storage, incoming
<1>7. ASSUME SyncLevel
      PROVE  Present \ doomed \subseteq (file \cap disk)'
  BY <1>7
     DEF SyncLevel, Level, storage, incoming
<1>8. ASSUME GCStart
      PROVE  Present \ doomed \subseteq (file \cap disk)'
  BY <1>8
     DEF GCStart, Exclusive, Shared, storage, incoming
<1>9. ASSUME GCRecoverFails
      PROVE  Present \ doomed \subseteq (file \cap disk)'
  BY <1>9
     DEF GCRecoverFails, Exclusive, Shared, storage, incoming
<1>10. ASSUME PowerLoss
      PROVE  Present \ doomed \subseteq (file \cap disk)'
  BY <1>10
     DEF PowerLoss, Stop, NoJob, NoCommit, storage, incoming
<1>11. ASSUME Open
      PROVE  Present \ doomed \subseteq (file \cap disk)'
  BY <1>11
     DEF Open, storage, incoming
<1>12. ASSUME \/ \E w \in Writers, o \in Object : PutStart(w, o) \/
                 WriteObject(w, o)
              \/ \E w \in Writers : MarkSynced(w) \/ PutFails(w)
              \/ \E b \in Batch : BeginBatch(b) \/ PutPart(b) \/ CommitStart(b)
                 \/ Recommit(b)
              \/ \E o \in Object : PublishFails(o) \/ UnmarkObject(o) \/ Age(o)
              \/ FinishLevel
              \/ CommitFails
              \/ RecordCommitted
              \/ RemoveStaging
              \/ Exit
              \/ UNCHANGED vars
              \/ \E R \in SUBSET Root : SetPins(R)
      PROVE  Present \ doomed \subseteq (file \cap disk)'
  BY <1>12
     DEF PutStart, WriteObject, MarkSynced, PutFails, BeginBatch, PutPart,
         CommitStart, Recommit, PublishFails, UnmarkObject, Age,
         FinishLevel, CommitFails, RecordCommitted, RemoveStaging,
         SetPins, Exit, vars, storage, incoming, Stop
<1> QED
  BY <1>1, <1>2, <1>3, <1>4, <1>5, <1>6, <1>7, <1>8, <1>9, <1>10, <1>11,
     <1>12
     DEF Next

\* The step condition of KeptSurvives.
LEMMA KeptStep ==
    ASSUME StoreInv, DoomedIsUnreached, [Next]_vars,
           NEW r \in young \cup pins, Complete(r)
    PROVE  Reach({r})' \subseteq (file \cap disk)'
<1>0. PICK K \in SUBSET Object : K = Reach({r})
  BY DEF Reach
<1>1. K \subseteq Present \ doomed
  <2>1. K \subseteq Reach(pins \cup young)
    BY <1>0, ReachGrows
  <2> QED
    BY <1>0, <2>1 DEF Complete, DoomedIsUnreached
<1>2. K \subseteq (file \cap disk)'
  BY <1>1, PresentStays
<1>3. \A o \in K : Kids[o] \subseteq K
  BY <1>0, <1>1, ReachIsClosed DEF Present
<1>4. r \in K
  BY <1>0, RootAssumption DEF Reach, StoreInv, TypeOK
<1>5. Reach({r})' \subseteq K
  BY <1>3, <1>4 DEF Reach, Closed
<1> QED
  BY <1>2, <1>5

\* A complete root that is pinned or young keeps its whole closure, durably,
\* in every step (gc.go:26, batch.go:301).
THEOREM StoreKeptSurvives == Spec => KeptSurvives
<1>1. Init => DoomedIsUnreached
  BY DEF Init, DoomedIsUnreached
<1>2. StoreInv /\ DoomedIsUnreached /\ [Next]_vars => DoomedIsUnreached'
  BY DoomedStep
<1>3. StoreInv /\ DoomedIsUnreached /\ [Next]_vars =>
         [\A r \in young \cup pins :
             Complete(r) => Reach({r})' \subseteq (file \cap disk)']_vars
  BY KeptStep
<1> QED
  BY <1>1, <1>2, <1>3, StoreInvariant, PTL DEF Spec, KeptSurvives
=============================================================================
