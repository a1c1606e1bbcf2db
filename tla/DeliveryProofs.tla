--------------------------- MODULE DeliveryProofs ---------------------------
(***************************************************************************)
(* Worker implements Delivery, for any number of jobs, files, operators,   *)
(* restarts and errors, if the three conditions below hold of the rules    *)
(* and the uploader.  DeliveryInv follows each file through the trees and  *)
(* relates what is left to do to what is left on the source.               *)
(***************************************************************************)
EXTENDS WorkerProofs

\* Without the size check a partial copy is recorded.  A file that is written over is gone
\* from the source before it was delivered, and Delivery has no such step.  A directory
\* that is purged takes with it what was added after the job was made.
Verified == Verification = "size"

NothingIsReplaced == \A o1, o2 \in Objects : PathOf[o1] = PathOf[o2] => o1 = o2

NothingIsAdded ==
    Mode = "move" =>
        \A p \in DirPayloads \ Filtered : \A o \in Objects :
            PathOf[o] \in TreeOf[p] => o \in ItemsOf[p]

\* rclone keeps a file's path: each tree holds at a path only what belongs there.
InPlace(tree) == \A p \in Paths : tree[p] # NoFile => PathOf[tree[p]] = p

FilesInPlace == /\ InPlace(src)
                /\ InPlace(dest)
                /\ \A j \in JobIds : InPlace(stage[j])

\* A file in staging is never the last one: the source or the destination has it.
StagedIsSafe ==
    \A j \in JobIds : \A p \in Paths :
        stage[j][p] # NoFile => stage[j][p] \in Held \cup Delivered

\* From the final check on, everything the job lists is at the destination.
ItemsDelivered ==
    pc \in {"record", "release", "removing", "finish"} => Items(Job) \subseteq Delivered

\* What is being removed belongs to the job, and what is left of the job is to be removed.
ReleaseInv ==
    /\ pc \in {"release", "removing"} => Mode = "move"
    /\ pc = "removing" =>
          /\ \A o \in Objects : PathOf[o] \in todo => o \in Items(Job)
          /\ \A o \in Items(Job) \cap Held : PathOf[o] \in todo
    /\ pc = "finish" /\ Mode = "move" => Items(Job) \cap Held = {}

DeliveryInv == FilesInPlace /\ StagedIsSafe /\ ItemsDelivered /\ ReleaseInv

LEMMA InitDelivery == Init => DeliveryInv
<1> SUFFICES ASSUME Init PROVE DeliveryInv
  OBVIOUS
<1>1. InPlace(src)
  <2> SUFFICES ASSUME NEW p \in Paths, src[p] # NoFile PROVE PathOf[src[p]] = p
    BY DEF InPlace
  <2>1. \E o \in Objects \ Late : PathOf[o] = p
    BY DEF Init
  <2>2. src[p] = CHOOSE o \in Objects \ Late : PathOf[o] = p
    BY <2>1 DEF Init
  <2> QED BY <2>1, <2>2
<1>2. InPlace(dest) /\ \A j \in JobIds : InPlace(stage[j])
  BY DEF Init, Empty, InPlace
<1>3. StagedIsSafe
  BY DEF Init, Empty, StagedIsSafe
<1> QED BY <1>1, <1>2, <1>3 DEF Init, DeliveryInv, FilesInPlace, ItemsDelivered, ReleaseInv

-----------------------------------------------------------------------------
(* The rows of `jobs`: a key never changes, only Finish ends a job as done. *)

RowsStep ==
    /\ \A j \in JobIds : jobs[j].state # "absent" =>
          jobs'[j].state # "absent" /\ jobs'[j].payload = jobs[j].payload
    /\ \A j \in JobIds : jobs'[j].state = "done" => jobs[j].state = "done" \/ (Finish /\ j = Job)

LEMMA RowsAfterSetJob ==
    ASSUME JobStoreTypeOK, NEW j \in JobIds, jobs[j].state # "absent",
           NEW state \in JobStates \ {"absent"}, NEW attempts, NEW retry,
           SetJob(j, state, attempts, retry),
           state = "done" => jobs[j].state = "done" \/ (Finish /\ j = Job)
    PROVE  RowsStep
BY DEF RowsStep, SetJob, Row, JobStoreTypeOK

LEMMA WorkerStepRowsKept ==
    ASSUME TypeInv, WorkerStep
    PROVE  RowsStep
<1>1. JobStoreTypeOK
  BY DEF TypeInv, TypeOK
<1>2. pc \notin {"poll", "pick"} => Job \in JobIds /\ jobs[Job].state # "absent"
  BY DEF TypeInv, IdsExist, Job
<1> USE <1>1, <1>2, RowsAfterSetJob DEF JobStates
<1>3. CASE PollRetries
  BY <1>3 DEF PollRetries, PromoteDueRetries, Row, RowsStep
<1>4. CASE PickedJobUnusable
  BY <1>4 DEF PickedJobUnusable, FailJob
<1>5. CASE StartAttempt
  BY <1>5 DEF StartAttempt, StartJob
<1>6. CASE Finish
  <2>1. Job \in JobIds /\ jobs[Job].state # "absent" /\ CompleteJob(Job)
    BY <1>6 DEF Finish
  <2> QED BY <1>6, <2>1 DEF CompleteJob
<1>7. CASE SettlePause
  BY <1>7 DEF SettlePause, PauseJob, storeVars, RowsStep
<1>8. CASE SettleCancel
  BY <1>8 DEF SettleCancel, CancelJob, storeVars, RowsStep
<1>9. CASE SettleFail
  BY <1>9 DEF SettleFail, FailJob
<1>10. CASE UNCHANGED jobs
  BY <1>10 DEF RowsStep
<1>11. UNCHANGED jobs \/ PollRetries \/ PickedJobUnusable \/ StartAttempt \/ Finish
       \/ SettlePause \/ SettleCancel \/ SettleFail
  BY DEF WorkerStep, QueueEmpty, PickJob, StartFails, BeginActive, CleanStage, Transferring,
         StartCopy, CopyAgain, CopyDone, Finalizing, VerifyStage, StartCommit, Committed,
         VerifyFinal, Recorded, StartRelease, Released, RcloneFails, StoreFails, Unwind,
         DiscardControlAction, ConsumeControlAction, SettleLost, SweepStage, CopyFile,
         CommitFile, RemoveSource, RecordItem, CompleteObject, storeVars
<1> QED BY <1>3, <1>4, <1>5, <1>6, <1>7, <1>8, <1>9, <1>10, <1>11

LEMMA HandlerStepRowsKept ==
    ASSUME TypeInv, NEW c \in Clients, HandlerStep(c)
    PROVE  RowsStep
<1>1. CASE CallStore(c)
  <2>1. PICK j \in JobIds : j = request[c].job /\ jobs[j].state # "absent"
    BY <1>1 DEF TypeInv, IdsExist, CallStore
  <2>2. JobStoreTypeOK
    BY DEF TypeInv, TypeOK
  <2>3. RetryJob(j) \/ RequeueJob(j) \/ PauseJob(j) \/ CancelJob(j)
    BY <1>1, <2>1 DEF CallStore
  <2> QED BY <2>1, <2>2, <2>3, RowsAfterSetJob
          DEF JobStates, RetryJob, RequeueJob, PauseJob, CancelJob
<1>2. CASE UNCHANGED jobs
  BY <1>2 DEF RowsStep
<1> QED BY <1>1, <1>2 DEF HandlerStep, CallCancel, StoreRefuses, PurgeCancelled, storeVars

LEMMA StepRowsKept == TypeInv /\ RowsInv /\ [Next]_vars => RowsStep
<1> SUFFICES ASSUME TypeInv, RowsInv, [Next]_vars PROVE RowsStep
  OBVIOUS
<1>1. JobStoreTypeOK
  BY DEF TypeInv, TypeOK
<1>2. CASE WorkerStep
  BY <1>2, WorkerStepRowsKept
<1>3. ASSUME NEW j \in JobIds, NEW p \in Payloads, Enqueue(j, p)
      PROVE  RowsStep
  BY <1>1, <1>3 DEF Enqueue, CreateJob, IsNextId, JobStoreTypeOK, RowsStep
<1>4. ASSUME NEW j \in JobIds, RetryDue(j)
      PROVE  RowsStep
  <2>1. jobs[j].state \in JobStates \ {"absent"}
    BY <1>1, <1>4 DEF RetryDue, JobStoreTypeOK, JobRow
  <2>2. SetJob(j, jobs[j].state, jobs[j].attempts, "due")
    BY <1>4 DEF RetryDue
  <2> QED BY <1>1, <2>1, <2>2, RowsAfterSetJob
<1>5. CASE Restart
  BY <1>1, <1>5 DEF Restart, RecoverInterrupted, Row, RowsStep
<1>6. CASE UNCHANGED jobs
  BY <1>6 DEF RowsStep
<1> QED BY <1>2, <1>3, <1>4, <1>5, <1>6, HandlerStepRowsKept
        DEF Next, AskActive, AskStore, Ask, Take, Arrive, storeVars, vars

\* A row keeps its manifest as long as it exists, that is for good.
LEMMA ItemsKept ==
    ASSUME RowsStep, NEW j \in JobIds, jobs[j].state # "absent"
    PROVE  Items(j)' = Items(j)
BY DEF RowsStep, Items

-----------------------------------------------------------------------------
(* The files: what a step does to the three trees and to what Delivery     *)
(* sees of them.                                                           *)

\* Staging loses files or gets copies of what the source holds.
StagingStep ==
    /\ UNCHANGED <<src, dest, library>>
    /\ \A j \in JobIds : \A p \in Paths : stage'[j][p] \in {NoFile, stage[j][p], src[p]}

FileStep == \/ StagingStep
            \/ \E p \in Paths : CommitFile(p) \/ RemoveSource(p) \/ Take(p)
            \/ \E o \in Objects : Arrive(o)

LEMMA PurgeStages ==
    ASSUME TypeInv, NEW j \in JobIds, PurgeStage(j)
    PROVE  StagingStep
BY DEF TypeInv, TypeOK, PurgeStage, StagingStep

LEMMA FileSteps == TypeInv /\ [Next]_vars => FileStep
<1> SUFFICES ASSUME TypeInv, [Next]_vars PROVE FileStep
  OBVIOUS
<1>1. CASE UNCHANGED files
  BY <1>1 DEF files, StagingStep, FileStep
<1>2. pc \notin {"poll", "pick"} => Job \in JobIds
  BY DEF TypeInv, IdsExist, Job
<1>3. CASE WorkerStep
  <2>1. CASE CleanStage
    BY <1>2, <2>1 DEF CleanStage, Empty, TypeInv, TypeOK, StagingStep, FileStep
  <2>2. ASSUME NEW p \in Paths, CopyFile(p)
        PROVE  FileStep
    <3>1. Job \in JobIds /\ UNCHANGED <<src, dest, library>>
      BY <1>2, <2>2 DEF CopyFile, Copying
    <3>2. stage' = [stage EXCEPT ![Job][p] = src[p]]
      BY <2>2 DEF CopyFile
    <3> QED BY <3>1, <3>2 DEF TypeInv, TypeOK, StagingStep, FileStep
  <2>3. CASE RcloneFails
    BY <1>1, <1>2, <2>3, PurgeStages DEF RcloneFails, FileStep
  <2>4. CASE SweepStage
    BY <1>2, <2>4, PurgeStages DEF SweepStage, FileStep
  <2>5. CASE \E p \in Paths : CommitFile(p) \/ RemoveSource(p)
    BY <2>5 DEF FileStep
  <2>6. UNCHANGED files \/ CleanStage \/ RcloneFails \/ SweepStage
        \/ (\E p \in Paths : CopyFile(p)) \/ \E p \in Paths : CommitFile(p) \/ RemoveSource(p)
    BY <1>3 DEF WorkerStep, PollRetries, QueueEmpty, PickJob, PickedJobUnusable, StartAttempt,
                StartFails, BeginActive, Transferring, StartCopy, CopyAgain, CopyDone, Finalizing,
                VerifyStage, StartCommit, Committed, VerifyFinal, Recorded, StartRelease,
                Released, Finish, RecordItem, StoreFails, Unwind, DiscardControlAction,
                ConsumeControlAction, SettlePause, SettleCancel, SettleFail, SettleLost
  <2> QED BY <1>1, <2>1, <2>2, <2>3, <2>4, <2>5, <2>6
<1>4. ASSUME NEW c \in Clients, HandlerStep(c)
      PROVE  FileStep
  <2>1. CASE PurgeCancelled(c)
    BY <2>1, PurgeStages DEF PurgeCancelled, TypeInv, IdsExist, FileStep
  <2> QED BY <1>1, <1>4, <2>1 DEF HandlerStep, CallCancel, CallStore, StoreRefuses
<1> QED BY <1>1, <1>3, <1>4
        DEF Next, AskActive, AskStore, Ask, Enqueue, RetryDue, Restart, FileStep, files, vars

LEMMA FilesStayInPlace ==
    ASSUME TypeInv, FilesInPlace, FileStep
    PROVE  FilesInPlace'
<1> USE DEF TypeInv, TypeOK, FilesInPlace, InPlace
<1>1. CASE StagingStep
  BY <1>1 DEF StagingStep
<1>2. ASSUME NEW p \in Paths, CommitFile(p)
      PROVE  FilesInPlace'
  <2>1. Job \in JobIds /\ UNCHANGED src
    BY <1>2 DEF CommitFile, IdsExist, Job
  <2>2. InPlace(dest)'
    BY <1>2, <2>1 DEF CommitFile
  <2>3. \A j \in JobIds : InPlace(stage[j])'
    BY <1>2, <2>1 DEF CommitFile
  <2> QED BY <2>1, <2>2, <2>3
<1>3. ASSUME NEW p \in Paths, RemoveSource(p)
      PROVE  FilesInPlace'
  BY <1>3 DEF RemoveSource
<1>4. ASSUME NEW p \in Paths, Take(p)
      PROVE  FilesInPlace'
  BY <1>4 DEF Take
<1>5. ASSUME NEW o \in Objects, Arrive(o)
      PROVE  FilesInPlace'
  BY <1>5, PathsAssumption DEF Arrive
<1> QED BY <1>1, <1>2, <1>3, <1>4, <1>5 DEF FileStep

\* What the source and the destination hold after each kind of step.
LEMMA WhatIsHeld ==
    ASSUME TypeInv, DeliveryInv, FileStep, NothingIsReplaced
    PROVE  \/ Held' = Held /\ Delivered' = Delivered
           \/ \E o \in Held \cup Delivered : Held' = Held /\ Delivered' = Delivered \cup {o}
           \/ \E o \in Late : Held' = Held \cup {o} /\ Delivered' = Delivered
           \/ \E o \in Held \cap Delivered :
                 Mode = "move" /\ Held' = Held \ {o} /\ Delivered' = Delivered
<1>a. /\ src \in [Paths -> Content] /\ dest \in [Paths -> Content]
       /\ stage \in [JobIds -> [Paths -> Content]]
  BY DEF TypeInv, TypeOK
<1>b. \A p \in Paths : /\ src[p] = NoFile \/ (src[p] \in Objects /\ PathOf[src[p]] = p)
                       /\ dest[p] = NoFile \/ (dest[p] \in Objects /\ PathOf[dest[p]] = p)
  BY <1>a DEF DeliveryInv, FilesInPlace, InPlace, Content
<1>1. CASE StagingStep
  BY <1>1 DEF StagingStep, Held, Delivered
<1>2. ASSUME NEW p \in Paths, CommitFile(p)
      PROVE  \E o \in Held \cup Delivered : Held' = Held /\ Delivered' = Delivered \cup {o}
  <2>1. Job \in JobIds
    BY <1>2 DEF CommitFile, TypeInv, IdsExist, Job
  <2>2. PICK o \in Objects : o = stage[Job][p] /\ PathOf[o] = p /\ o \in Held \cup Delivered
    BY <1>a, <1>2, <2>1 DEF CommitFile, DeliveryInv, StagedIsSafe, FilesInPlace, InPlace, Content
  <2>3. dest' = [dest EXCEPT ![p] = o] /\ UNCHANGED <<src, library>>
    BY <1>2, <2>2 DEF CommitFile
  <2>4. dest[p] \in {NoFile, o}
    BY <1>b, <2>2 DEF NothingIsReplaced
  <2>5. Delivered' = Delivered \cup {o}
    BY <1>a, <2>2, <2>3, <2>4, PathsAssumption DEF Delivered
  <2> QED BY <2>2, <2>3, <2>5 DEF Held
<1>3. ASSUME NEW p \in Paths, RemoveSource(p)
      PROVE  \E o \in Held \cap Delivered :
                Mode = "move" /\ Held' = Held \ {o} /\ Delivered' = Delivered
  <2>0. pc = "removing" /\ p \in todo /\ src[p] # NoFile
    BY <1>3 DEF RemoveSource
  <2>1. PICK o \in Objects : o = src[p] /\ PathOf[o] = p /\ p \in todo /\ pc = "removing"
    BY <1>b, <2>0
  <2>2. o \in Held /\ o \in Delivered /\ Mode = "move"
    BY <2>1 DEF DeliveryInv, ReleaseInv, ItemsDelivered, Held
  <2>3. src' = [src EXCEPT ![p] = NoFile] /\ UNCHANGED <<dest, library>>
    BY <1>3 DEF RemoveSource
  <2>4. Held' = Held \ {o}
    <3>1. \A x \in Objects, q \in Paths : src[q] = x => PathOf[x] = q
      BY <1>b, PathsAssumption
    <3>2. \A x \in Objects, q \in Paths : src'[q] = x <=> src[q] = x /\ q # p
      BY <1>a, <2>3, PathsAssumption
    <3> QED BY <2>1, <3>1, <3>2 DEF Held
  <2> QED BY <2>2, <2>3, <2>4 DEF Delivered
<1>4. ASSUME NEW p \in Paths, Take(p)
      PROVE  Held' = Held /\ Delivered' = Delivered
  <2>1. dest[p] \in Objects
    BY <1>b, <1>4 DEF Take
  <2>2. dest' = [dest EXCEPT ![p] = NoFile] /\ library' = library \cup {dest[p]}
    BY <1>4 DEF Take
  <2>3. Delivered' = Delivered
    BY <1>a, <2>1, <2>2, PathsAssumption DEF Delivered
  <2> QED BY <1>4, <2>3 DEF Take, Held
<1>5. ASSUME NEW o \in Objects, Arrive(o)
      PROVE  \E x \in Late : Held' = Held \cup {x} /\ Delivered' = Delivered
  <2>1. src' = [src EXCEPT ![PathOf[o]] = o] /\ o \in Late /\ UNCHANGED <<dest, library>>
    BY <1>5 DEF Arrive
  <2>2. PathOf[o] \in Paths
    BY PathsAssumption
  <2>3. src[PathOf[o]] \in {NoFile, o}
    <3>1. CASE src[PathOf[o]] = NoFile
      BY <3>1
    <3>2. CASE src[PathOf[o]] \in Objects /\ PathOf[src[PathOf[o]]] = PathOf[o]
      BY <3>2 DEF NothingIsReplaced
    <3> QED BY <1>b, <2>2, <3>1, <3>2
  <2>4. Held' = Held \cup {o}
    BY <1>a, <2>1, <2>2, <2>3, PathsAssumption DEF Held
  <2> QED BY <2>1, <2>4 DEF Delivered
<1> QED BY <1>1, <1>2, <1>3, <1>4, <1>5 DEF FileStep

\* Nothing is lost, and only the uploader adds to the source.
LEMMA NothingIsLost ==
    ASSUME TypeInv, DeliveryInv, FileStep, NothingIsReplaced
    PROVE  /\ Delivered \subseteq Delivered'
           /\ Held \cup Delivered \subseteq Held' \cup Delivered'
           /\ Held' \subseteq Held \cup Late
BY WhatIsHeld

LEMMA StagedStaysSafe ==
    ASSUME TypeInv, DeliveryInv, FileStep, NothingIsReplaced
    PROVE  StagedIsSafe'
<1>1. src \in [Paths -> Content] /\ stage \in [JobIds -> [Paths -> Content]]
  BY DEF TypeInv, TypeOK
<1>2. \A j \in JobIds : \A p \in Paths : stage'[j][p] \in {NoFile, stage[j][p], src[p]}
  BY <1>1 DEF FileStep, StagingStep, CommitFile, RemoveSource, Take, Arrive
<1>3. \A p \in Paths : src[p] # NoFile => src[p] \in Held
  BY <1>1 DEF Held, Content
<1>4. \A j \in JobIds : \A p \in Paths :
          stage'[j][p] # NoFile => stage'[j][p] \in Held \cup Delivered
  BY <1>2, <1>3 DEF DeliveryInv, StagedIsSafe
<1> QED BY <1>4, NothingIsLost DEF StagedIsSafe

-----------------------------------------------------------------------------
(* The end of a transfer: from the final check to the report.              *)

Ending == {"record", "release", "removing", "finish"}

LEMMA EndSteps ==
    ASSUME TypeInv, Verified, [Next]_vars
    PROVE  \/ UNCHANGED <<pc, picked, todo>>
           \/ pc' \notin Ending
           \/ VerifyFinal \/ Recorded \/ StartRelease \/ Released
           \/ \E o \in Objects : RecordItem(o)
           \/ \E p \in Paths : RemoveSource(p)
<1>1. CASE WorkerStep
  BY <1>1 DEF WorkerStep, PollRetries, QueueEmpty, PickJob, PickedJobUnusable, StartAttempt,
              StartFails, BeginActive, CleanStage, Transferring, StartCopy, CopyAgain, CopyFile,
              CopyDone, Finalizing, VerifyStage, StartCommit, CommitFile, Committed, Finish,
              RcloneFails, StoreFails, Unwind, DiscardControlAction, ConsumeControlAction,
              SettlePause, SettleCancel, SettleFail, SettleLost, SweepStage, Goto, Rest,
              Ending, Copying, Verified
<1>2. CASE Restart
  BY <1>2 DEF Restart, Rest, Ending
<1> QED BY <1>1, <1>2
        DEF Next, HandlerStep, CallCancel, CallStore, StoreRefuses, PurgeCancelled, AskActive,
            AskStore, Ask, Enqueue, RetryDue, Take, Arrive, workerVars, vars

\* The job of a transfer that ends keeps its manifest.
LEMMA EndKeepsItems ==
    ASSUME TypeInv, RowsStep, pc \notin {"poll", "pick"}, UNCHANGED picked
    PROVE  Items(Job)' = Items(Job)
<1>1. PICK j \in JobIds : j = Job /\ jobs[j].state # "absent"
  BY DEF TypeInv, IdsExist, Job
<1>2. Items(j)' = Items(j)
  BY <1>1, ItemsKept
<1>3. Job' = j
  BY <1>1 DEF Job
<1> QED BY <1>1, <1>2, <1>3 DEF Items

LEMMA VerifiedItems ==
    ASSUME TypeInv, DeliveryInv, NothingIsReplaced, VerifyFinal
    PROVE  Items(Job) \subseteq Delivered
<1> SUFFICES ASSUME NEW o \in Items(Job) PROVE o \in Delivered
  OBVIOUS
<1>1. Job \in JobIds /\ JobStoreTypeOK /\ dest \in [Paths -> Content]
  BY DEF VerifyFinal, TypeInv, TypeOK, IdsExist, Job
<1>2. o \in Objects /\ PathOf[o] \in Paths
  BY <1>1, ItemsTyped, PathsAssumption
<1>3. dest[PathOf[o]] # NoFile
  BY DEF VerifyFinal, MatchesManifest, Present, ItemPaths
<1>4. dest[PathOf[o]] \in Objects /\ PathOf[dest[PathOf[o]]] = PathOf[o]
  BY <1>1, <1>2, <1>3 DEF Content, DeliveryInv, FilesInPlace, InPlace
<1>5. dest[PathOf[o]] = o
  BY <1>2, <1>4 DEF NothingIsReplaced
<1> QED BY <1>2, <1>5 DEF Delivered

LEMMA ItemsStayDelivered ==
    ASSUME TypeInv, RowsStep, DeliveryInv, FileStep, [Next]_vars, Verified, NothingIsReplaced
    PROVE  ItemsDelivered'
<1> SUFFICES ASSUME pc' \in Ending PROVE (Items(Job) \subseteq Delivered)'
  BY DEF ItemsDelivered, Ending
<1>1. UNCHANGED picked /\ (VerifyFinal \/ pc \in Ending)
  BY EndSteps DEF VerifyFinal, Recorded, StartRelease, Released, RecordItem, RemoveSource, Goto,
                  Ending
<1>2. Items(Job) \subseteq Delivered
  BY <1>1, VerifiedItems DEF DeliveryInv, ItemsDelivered, Ending
<1>3. Items(Job)' = Items(Job)
  BY <1>1, EndKeepsItems DEF VerifyFinal, Ending
<1> QED BY <1>2, <1>3, NothingIsLost

\* What StartRelease is going to remove is the job's and is all that is left of it.
LEMMA ReleaseStarts ==
    ASSUME TypeInv, DeliveryInv, NothingIsReplaced, NothingIsAdded, StartRelease
    PROVE  /\ \A o \in Objects : PathOf[o] \in todo' => o \in Items(Job)
           /\ \A o \in Items(Job) \cap Held : PathOf[o] \in todo'
<1>1. /\ Job \in JobIds /\ JobStoreTypeOK /\ src \in [Paths -> Content]
      /\ Payload \in Payloads /\ Items(Job) = ItemsOf[Payload]
  BY DEF StartRelease, TypeInv, TypeOK, IdsExist, Job, JobStoreTypeOK, Payload, Items
<1>2. Mode = "move" /\ Items(Job) \subseteq Objects
  BY <1>1, ItemsTyped DEF StartRelease, DeliveryInv, ReleaseInv
<1>3. CASE IsDir /\ ~IsFiltered
  <2>1. todo' = Present(src, Tree)
    BY <1>3 DEF StartRelease
  <2>2. \A o \in Objects : PathOf[o] \in Tree => o \in Items(Job)
    BY <1>1, <1>2, <1>3 DEF NothingIsAdded, IsDir, IsFiltered, Tree
  <2>3. ASSUME NEW o \in Items(Job) \cap Held
        PROVE  PathOf[o] \in Present(src, Tree)
    <3>1. PICK q \in Paths : src[q] = o
      BY DEF Held
    <3>2. PathOf[o] = q /\ src[q] # NoFile
      BY <1>2, <3>1, PathsAssumption DEF DeliveryInv, FilesInPlace, InPlace
    <3>3. q \in Tree
      BY <1>1, <3>2, TreesAssumption DEF Tree
    <3> QED BY <3>2, <3>3 DEF Present
  <2> QED BY <2>1, <2>2, <2>3 DEF Present
<1>4. CASE ~(IsDir /\ ~IsFiltered)
  <2>1. todo' = ItemPaths
    BY <1>4 DEF StartRelease
  <2> QED BY <1>2, <2>1 DEF ItemPaths, NothingIsReplaced
<1> QED BY <1>3, <1>4

\* The uploader adds nothing a job lists.
LEMMA ItemsAreNotLate ==
    ASSUME TypeInv, NEW j \in JobIds
    PROVE  Items(j) \cap Late = {}
<1>1. jobs[j].state # "absent" => jobs[j].payload \in Payloads
  BY DEF TypeInv, TypeOK, JobStoreTypeOK
<1> QED BY <1>1, TreesAssumption DEF Items

LEMMA ReleaseStaysInvariant ==
    ASSUME TypeInv, RowsStep, DeliveryInv, FileStep, FilesInPlace', [Next]_vars,
           Verified, NothingIsReplaced, NothingIsAdded
    PROVE  ReleaseInv'
<1> SUFFICES ASSUME pc' \in {"release", "removing", "finish"} PROVE ReleaseInv'
  BY DEF ReleaseInv
<1>1. CASE UNCHANGED <<pc, picked, todo>> \/ StartRelease \/ Released
           \/ \E p \in Paths : RemoveSource(p)
  <2>1. pc \in {"release", "removing", "finish"} /\ UNCHANGED picked
    BY <1>1 DEF StartRelease, Released, RemoveSource, Goto
  <2>2. Job \in JobIds
    BY <2>1 DEF TypeInv, IdsExist, Job
  <2>3. Items(Job)' = Items(Job)
    BY <2>1, EndKeepsItems
  <2>4. Items(Job) \cap Held' \subseteq Items(Job) \cap Held
    BY <2>2, ItemsAreNotLate, NothingIsLost
  <2>5. CASE UNCHANGED <<pc, picked, todo>>
    BY <2>3, <2>4, <2>5 DEF DeliveryInv, ReleaseInv
  <2>6. CASE StartRelease
    <3>1. pc' = "removing" /\ Mode = "move"
      BY <2>6 DEF StartRelease, Goto, DeliveryInv, ReleaseInv
    <3> QED BY <2>3, <2>4, <2>6, <3>1, ReleaseStarts DEF ReleaseInv
  <2>7. CASE Released
    <3>1. pc = "removing" /\ pc' = "finish" /\ todo = {}
      BY <2>7 DEF Released, Goto
    <3>2. Items(Job) \cap Held = {}
      BY <3>1 DEF DeliveryInv, ReleaseInv
    <3> QED BY <2>3, <2>4, <3>1, <3>2 DEF ReleaseInv
  <2>8. ASSUME NEW p \in Paths, RemoveSource(p)
        PROVE  ReleaseInv'
    <3>1. /\ pc = "removing" /\ pc' = "removing" /\ todo' = todo \ {p}
          /\ src' = [src EXCEPT ![p] = NoFile] /\ src \in [Paths -> Content]
      BY <2>8 DEF RemoveSource, Goto, TypeInv, TypeOK
    <3>2. \A o \in Items(Job) \cap Held' : PathOf[o] # p
      <4> SUFFICES ASSUME NEW o \in Items(Job) \cap Held', PathOf[o] = p PROVE FALSE
        OBVIOUS
      <4>1. PICK q \in Paths : src'[q] = o /\ o \in Objects
        BY DEF Held
      <4>2. src'[p] = NoFile /\ q # p
        BY <3>1, <4>1, PathsAssumption
      <4>3. PathOf[o] = q
        BY <4>1, PathsAssumption DEF FilesInPlace, InPlace
      <4> QED BY <4>2, <4>3
    <3> QED BY <2>3, <2>4, <3>1, <3>2 DEF DeliveryInv, ReleaseInv
  <2> QED BY <1>1, <2>5, <2>6, <2>7, <2>8
<1>2. CASE Recorded
  BY <1>2 DEF Recorded, Goto, ReleaseInv
<1>3. ~VerifyFinal /\ \A o \in Objects : ~RecordItem(o)
  BY DEF VerifyFinal, RecordItem, Goto
<1> QED BY <1>1, <1>2, <1>3, EndSteps DEF Ending

LEMMA StepDelivery ==
    TypeInv /\ RowsInv /\ DeliveryInv /\ Verified /\ NothingIsReplaced /\ NothingIsAdded
        /\ [Next]_vars => DeliveryInv'
<1> SUFFICES ASSUME TypeInv, RowsInv, DeliveryInv, Verified, NothingIsReplaced, NothingIsAdded,
                    [Next]_vars
             PROVE  DeliveryInv'
  OBVIOUS
<1>1. RowsStep /\ FileStep
  BY StepRowsKept, FileSteps
<1>2. FilesInPlace'
  BY <1>1, FilesStayInPlace DEF DeliveryInv
<1> QED BY <1>1, <1>2, StagedStaysSafe, ItemsStayDelivered, ReleaseStaysInvariant
        DEF DeliveryInv

-----------------------------------------------------------------------------
(* The refinement.                                                         *)

LEMMA InitPromises == Init => Promise!Init
BY PathsAssumption DEF Init, NoJobRow, Empty, Held, Delivered, Done, Promise!Init

\* A payload is reported by Finish and at no other step.
LEMMA WhatIsDone ==
    ASSUME TypeInv, RowsStep, EndedStep
    PROVE  Done' = Done \/ (Finish /\ Done' = Done \cup {Payload})
<1>1. JobStoreTypeOK
  BY DEF TypeInv, TypeOK
<1>2. Done \subseteq Done'
  BY DEF Done, EndedStep
<1>3. ASSUME NEW j \in JobIds, jobs[j].state = "done"
      PROVE  jobs'[j].payload = jobs[j].payload
  BY <1>3 DEF RowsStep
<1>4. CASE ~Finish
  BY <1>2, <1>3, <1>4 DEF RowsStep, Done
<1>5. CASE Finish
  <2>1. Job \in JobIds /\ jobs[Job].state # "absent"
    BY <1>5 DEF Finish, TypeInv, IdsExist, Job
  <2>2. jobs'[Job].state = "done" /\ jobs'[Job].payload = Payload /\ Payload \in Payloads
    BY <1>1, <1>5, <2>1 DEF Finish, CompleteJob, SetJob, Row, Payload, JobStoreTypeOK
  <2>3. Done' \subseteq Done \cup {Payload}
    BY <1>3, <2>1, <2>2 DEF RowsStep, Done
  <2>4. Payload \in Done'
    BY <2>1, <2>2 DEF Done
  <2> QED BY <1>2, <1>5, <2>3, <2>4
<1> QED BY <1>4, <1>5

LEMMA StepPromises ==
    TypeInv /\ RowsInv /\ DeliveryInv /\ NothingIsReplaced /\ [Next]_vars
        => [Promise!Next]_(Promise!vars)
<1> SUFFICES ASSUME TypeInv, RowsInv, DeliveryInv, NothingIsReplaced, [Next]_vars
             PROVE  [Promise!Next]_(Promise!vars)
  OBVIOUS
<1>1. RowsStep /\ FileStep /\ EndedStep
  BY StepRowsKept, FileSteps, StepEnds
<1>2. CASE Finish
  <2>1. /\ Held' = Held /\ Delivered' = Delivered
        /\ Job \in JobIds /\ jobs[Job].state # "absent" /\ JobStoreTypeOK
    BY <1>2 DEF Finish, files, Held, Delivered, TypeInv, TypeOK, IdsExist, Job
  <2>2. Payload \in Payloads /\ Items(Job) = ItemsOf[Payload]
    BY <2>1 DEF Payload, Items, JobStoreTypeOK
  <2>3. Items(Job) \subseteq Delivered /\ (Mode = "move" => Items(Job) \cap Held = {})
    BY <1>2 DEF Finish, DeliveryInv, ItemsDelivered, ReleaseInv
  <2>4. Done' = Done \/ Promise!Report(Payload)
    BY <1>1, <2>1, <2>2, <2>3, WhatIsDone DEF Promise!Report
  <2> QED BY <2>1, <2>2, <2>4 DEF Promise!Next, Promise!vars
<1>3. CASE ~Finish
  <2>1. Done' = Done
    BY <1>1, <1>3, WhatIsDone
  <2>2. Held \subseteq Objects /\ Late \subseteq Objects
    BY PathsAssumption DEF Held
  <2>3. Delivered \subseteq Objects
    BY DEF Delivered, TypeInv, TypeOK
  <2>4. CASE Held' = Held /\ Delivered' = Delivered
    BY <2>1, <2>4 DEF Promise!vars
  <2>5. ASSUME NEW o \in Held \cup Delivered, Held' = Held, Delivered' = Delivered \cup {o}
        PROVE  [Promise!Next]_(Promise!vars)
    <3>1. CASE o \in Delivered
      BY <2>1, <2>5, <3>1 DEF Promise!vars
    <3>2. CASE o \in Held \ Delivered
      BY <2>1, <2>2, <2>5, <3>2 DEF Promise!Next, Promise!Deliver
    <3> QED BY <3>1, <3>2
  <2>6. ASSUME NEW o \in Late, Held' = Held \cup {o}, Delivered' = Delivered
        PROVE  [Promise!Next]_(Promise!vars)
    <3>1. CASE o \in Held
      BY <2>1, <2>6, <3>1 DEF Promise!vars
    <3>2. CASE o \notin Held
      BY <2>1, <2>2, <2>6, <3>2 DEF Promise!Next, Promise!Appear
    <3> QED BY <3>1, <3>2
  <2>7. ASSUME NEW o \in Held \cap Delivered,
               Mode = "move", Held' = Held \ {o}, Delivered' = Delivered
        PROVE  [Promise!Next]_(Promise!vars)
    BY <2>1, <2>2, <2>7 DEF Promise!Next, Promise!Release
  <2> QED BY <1>1, <2>4, <2>5, <2>6, <2>7, WhatIsHeld
<1> QED BY <1>2, <1>3

\* The worker keeps Delivery's promise through every failure, retry, pause, cancel and
\* restart: a file leaves the source only when it has reached the destination, and a
\* job is reported done only when all it lists has (and, moving, has left the source).
THEOREM WorkerDelivers ==
    ASSUME Verified, NothingIsReplaced, NothingIsAdded
    PROVE  Spec => KeepsPromise
<1>1. Init => TypeInv /\ RowsInv /\ DeliveryInv
  BY InitTyped, InitRows, InitDelivery
<1>2. TypeInv /\ RowsInv /\ DeliveryInv /\ [Next]_vars
          => TypeInv' /\ RowsInv' /\ DeliveryInv'
  BY StepTyped, StepRows, StepDelivery
<1>3. TypeInv /\ RowsInv /\ DeliveryInv /\ [Next]_vars => [Promise!Next]_(Promise!vars)
  BY StepPromises
<1> QED BY <1>1, <1>2, <1>3, InitPromises, PTL DEF Spec, KeepsPromise, Promise!Spec

\* What RemovedOnlyWhenDelivered says of one step.
RemovalStep ==
    \A p \in Paths :
        src[p] # NoFile /\ src'[p] = NoFile =>
            \/ src[p] \in library
            \/ \E q \in Paths : dest[q] = src[p]

LEMMA StepRemoves ==
    TypeInv /\ DeliveryInv /\ [Next]_vars => RemovalStep
<1> SUFFICES ASSUME TypeInv, DeliveryInv, [Next]_vars,
                    NEW p \in Paths, src[p] # NoFile, src'[p] = NoFile
             PROVE  src[p] \in library \/ \E q \in Paths : dest[q] = src[p]
  BY DEF RemovalStep
<1>1. PICK o \in Objects : o = src[p] /\ PathOf[o] = p /\ src \in [Paths -> Content]
  BY DEF TypeInv, TypeOK, Content, DeliveryInv, FilesInPlace, InPlace
<1>2. RemoveSource(p)
  <2>1. FileStep
    BY FileSteps
  <2> QED BY <1>1, <2>1, PathsAssumption
          DEF FileStep, StagingStep, CommitFile, RemoveSource, Take, Arrive
<1>3. o \in Items(Job) /\ Items(Job) \subseteq Delivered
  BY <1>1, <1>2 DEF RemoveSource, DeliveryInv, ReleaseInv, ItemsDelivered
<1> QED BY <1>1, <1>3 DEF Delivered

\* README "Features": `move` deletes from the source only what it has committed.  It does
\* as long as nothing is added to a directory under its job, and not without that.
THEOREM MoveRemovesOnlyDelivered ==
    ASSUME Verified, NothingIsReplaced, NothingIsAdded
    PROVE  Spec => RemovedOnlyWhenDelivered
<1>1. Init => TypeInv /\ RowsInv /\ DeliveryInv
  BY InitTyped, InitRows, InitDelivery
<1>2. TypeInv /\ RowsInv /\ DeliveryInv /\ [Next]_vars
          => TypeInv' /\ RowsInv' /\ DeliveryInv'
  BY StepTyped, StepRows, StepDelivery
<1>3. TypeInv /\ RowsInv /\ DeliveryInv /\ [Next]_vars => [RemovalStep]_vars
  BY StepRemoves
<1>4. RemovedOnlyWhenDelivered <=> [][RemovalStep]_vars
  BY DEF RemovedOnlyWhenDelivered, RemovalStep
<1> QED BY <1>1, <1>2, <1>3, <1>4, PTL DEF Spec
=============================================================================
