--------------------------- MODULE PipelineProofs ---------------------------
(***************************************************************************)
(* Theorems about Pipeline, for any number of files, generations and       *)
(* attempts.  Worker's and Scanner's own theorems do not carry over: each  *)
(* of them stands for the other with fewer steps than the other takes, and *)
(* Worker's assume that jobs share no files and nothing a job lists is     *)
(* replaced, which is what the scanner and the uploader do here.           *)
(***************************************************************************)
EXTENDS Pipeline, TLAPS

Taken(o) == \E j \in JobIds : o \in W!Items(j)

\* An object that waits for a job's turn is in a job: a restart finds no orphans.
WaitingIsTaken ==
    \A o \in Objects : objects[o] \in {"queued", "copying", "retry_wait"} => Taken(o)

\* The worker settles a row that exists.
PickedExists ==
    pc \notin {"poll", "pick"} => picked.job \in JobIds /\ jobs[picked.job].state # "absent"

TablesInv == W!JobStoreTypeOK /\ OneGenerationWaits /\ WaitingIsTaken /\ PickedExists

-----------------------------------------------------------------------------
(* Scanner and Worker mean the same by a key and by the items of a job.    *)

LEMMA SameKeys ==
    /\ S!JobKeys = FileKeys
    /\ \A o \in Objects : S!FileKey(o) \in FileKeys
    /\ \A k \in FileKeys : ItemsOf[k] = k.items /\ k.items \subseteq Objects
BY DEF S!JobKeys, FileKeys, S!FileKey, ItemsOf

LEMMA ItemsAreObjects ==
    ASSUME W!JobStoreTypeOK, NEW j \in JobIds
    PROVE  W!Items(j) \subseteq Objects
BY SameKeys DEF W!Items, W!JobStoreTypeOK

LEMMA InitTables == Init => TablesInv
<1> SUFFICES ASSUME Init PROVE TablesInv
  OBVIOUS
<1>1. /\ jobs = [j \in JobIds |-> [payload |-> NoPayload, state |-> "absent",
                                   attempts |-> 0, retry |-> "none"]]
      /\ objects = [o \in Objects |-> "unseen"] /\ pc = "poll"
  BY DEF Init, S!Init, W!Init, S!NoJobRow
<1>2. W!JobStoreTypeOK
  BY <1>1 DEF W!JobStoreTypeOK, W!JobRow, W!JobStates, W!ObjectStates
<1> QED BY <1>1, <1>2
        DEF TablesInv, OneGenerationWaits, S!OneDiscoveredGeneration, WaitingIsTaken, PickedExists

-----------------------------------------------------------------------------
(* The transactions.                                                       *)

\* Rows stay and keep their keys.
RowsKept ==
    \A j \in JobIds : jobs[j].state # "absent" =>
        jobs'[j].state # "absent" /\ jobs'[j].payload = jobs[j].payload

\* None is made; an object that changes is one of an existing job and does not become
\* discovered again.
Settled ==
    /\ W!JobStoreTypeOK'
    /\ RowsKept
    /\ \A j \in JobIds : jobs[j].state = "absent" => jobs'[j].state = "absent"
    /\ \A o \in Objects :
          \/ objects'[o] = objects[o]
          \/ objects'[o] # "discovered" /\ \E j \in JobIds : o \in W!Items(j)

LEMMA ItemsGrow ==
    ASSUME RowsKept
    PROVE  \A j \in JobIds : W!Items(j) \subseteq W!Items(j)'
BY DEF RowsKept, W!Items

LEMMA SettledTables ==
    ASSUME OneGenerationWaits, WaitingIsTaken, Settled
    PROVE  OneGenerationWaits' /\ WaitingIsTaken'
<1>1. OneGenerationWaits'
  BY DEF OneGenerationWaits, S!OneDiscoveredGeneration, Settled
<1>2. \A o \in Objects : Taken(o) => Taken(o)'
  BY ItemsGrow DEF Settled, Taken
<1>3. WaitingIsTaken'
  BY <1>2 DEF WaitingIsTaken, Settled, Taken
<1> QED BY <1>1, <1>3

LEMMA RowSettles ==
    ASSUME W!JobStoreTypeOK, NEW j \in JobIds, jobs[j].state # "absent",
           NEW state \in W!JobStates \ {"absent"}, NEW attempts \in Nat,
           NEW retry \in {"none", "waiting", "due"},
           NEW from, NEW to \in W!ObjectStates \ {"discovered"},
           W!SetJob(j, state, attempts, retry), W!SetItems(j, from, to) \/ UNCHANGED objects
    PROVE  Settled
<1>1. W!JobStoreTypeOK'
  BY DEF W!JobStoreTypeOK, W!JobRow, W!SetJob, W!Row, W!SetItems
<1>2. RowsKept /\ \A k \in JobIds : jobs[k].state = "absent" => jobs'[k].state = "absent"
  BY DEF RowsKept, W!JobStoreTypeOK, W!SetJob, W!Row
<1>3. \A o \in Objects : objects'[o] = objects[o] \/ (objects'[o] = to /\ o \in W!Items(j))
  BY DEF W!SetItems
<1> QED BY <1>1, <1>2, <1>3 DEF Settled

LEMMA KeptSettles ==
    ASSUME W!JobStoreTypeOK, UNCHANGED <<jobs, objects>>
    PROVE  Settled
BY DEF Settled, RowsKept, W!JobStoreTypeOK

\* What the worker does to the tables.
LEMMA WorkerSettles ==
    ASSUME TablesInv, WorkerStep
    PROVE  Settled
<1>1. W!JobStoreTypeOK /\ \A j \in JobIds : jobs[j].attempts \in Nat
  BY DEF TablesInv, W!JobStoreTypeOK, W!JobRow
<1>2. pc \notin {"poll", "pick"} =>
         W!Job \in JobIds /\ jobs[W!Job].state # "absent" /\ jobs[W!Job].attempts \in Nat
  BY <1>1 DEF TablesInv, PickedExists, W!Job
<1> USE <1>1 DEF W!JobStates, W!ObjectStates
<1>3. CASE W!PollRetries
  <2>1. W!JobStoreTypeOK'
    BY <1>3 DEF W!PollRetries, W!PromoteDueRetries, W!JobStoreTypeOK, W!JobRow, W!Row
  <2>2. /\ RowsKept /\ \A j \in JobIds : jobs[j].state = "absent" => jobs'[j].state = "absent"
        /\ \A o \in Objects : objects'[o] = objects[o]
               \/ (objects'[o] = "queued" /\ \E j \in JobIds : o \in W!Items(j))
    BY <1>3 DEF RowsKept, W!PollRetries, W!PromoteDueRetries, W!Row
  <2> QED BY <2>1, <2>2 DEF Settled
<1>4. CASE W!PickedJobUnusable \/ W!SettleFail
  <2>1. PICK j \in JobIds, state \in {"retry_wait", "failed"}, retry \in {"none", "waiting"} :
           /\ jobs[j].state # "absent" /\ jobs[j].attempts \in Nat
           /\ W!SetJob(j, state, jobs[j].attempts, retry)
           /\ W!SetItems(j, W!ObjectStates, state)
    BY <1>2, <1>4 DEF W!PickedJobUnusable, W!SettleFail, W!FailJob
  <2> QED BY <2>1, RowSettles
<1>5. CASE W!StartAttempt
  BY <1>2, <1>5, RowSettles DEF W!StartAttempt, W!StartJob
<1>6. CASE W!Finish
  <2>1. PICK j \in JobIds : /\ jobs[j].state # "absent" /\ jobs[j].attempts \in Nat
                            /\ W!CompleteJob(j)
    BY <1>2, <1>6 DEF W!Finish
  <2>2. W!SetJob(j, "done", jobs[j].attempts, "none") /\ UNCHANGED objects
    BY <2>1 DEF W!CompleteJob
  <2>3. "done" \in W!ObjectStates \ {"discovered"}
    OBVIOUS
  <2> QED BY <2>1, <2>2, <2>3, RowSettles
<1>7. CASE W!SettlePause
  <2>1. CASE W!PauseJob(W!Job)
    <3>1. W!Job \in JobIds /\ jobs[W!Job].state # "absent" /\ jobs[W!Job].attempts \in Nat
      BY <1>2, <1>7 DEF W!SettlePause
    <3> DEFINE left == IF jobs[W!Job].state = "copying" /\ jobs[W!Job].attempts > 0
                       THEN jobs[W!Job].attempts - 1 ELSE jobs[W!Job].attempts
    <3>2. left \in Nat
      BY <3>1
    <3>3. W!SetJob(W!Job, "paused", left, "none") /\ W!SetItems(W!Job, W!Pausable, "paused")
      BY <2>1 DEF W!PauseJob
    <3> QED BY <3>1, <3>2, <3>3, RowSettles
  <2> QED BY <1>7, <2>1, KeptSettles DEF W!SettlePause, W!storeVars
<1>8. CASE W!SettleCancel
  <2>1. CASE W!CancelJob(W!Job)
    BY <1>2, <1>8, <2>1, RowSettles DEF W!SettleCancel, W!CancelJob
  <2> QED BY <1>8, <2>1, KeptSettles DEF W!SettleCancel, W!storeVars
<1>9. ASSUME NEW o \in Objects, W!RecordItem(o)
      PROVE  Settled
  <2>1. W!Job \in JobIds /\ o \in W!Items(W!Job)
    BY <1>2, <1>9 DEF W!RecordItem
  <2>2. jobs' = jobs /\ objects' = [objects EXCEPT ![o] = "done"]
    BY <1>9 DEF W!RecordItem, W!CompleteObject
  <2> QED BY <2>1, <2>2 DEF Settled, RowsKept, W!JobStoreTypeOK
<1>10. UNCHANGED <<jobs, objects>> \/ W!PollRetries \/ W!PickedJobUnusable \/ W!StartAttempt
       \/ W!Finish \/ W!SettlePause \/ W!SettleCancel \/ W!SettleFail
       \/ \E o \in Objects : W!RecordItem(o)
  BY DEF WorkerStep, W!WorkerStep, W!QueueEmpty, W!PickJob, W!StartFails, W!BeginActive,
         W!CleanStage, W!Transferring, W!StartCopy, W!CopyAgain, W!CopyDone, W!Finalizing,
         W!VerifyStage, W!StartCommit, W!Committed, W!VerifyFinal, W!Recorded, W!StartRelease,
         W!Released, W!RcloneFails, W!StoreFails, W!Unwind, W!DiscardControlAction,
         W!ConsumeControlAction, W!SettleLost, W!SweepStage, W!CopyFile, W!CommitFile,
         W!RemoveSource, W!storeVars
<1> QED BY <1>3, <1>4, <1>5, <1>6, <1>7, <1>8, <1>9, <1>10, KeptSettles

\* What the clock and a restart do to them: WaitingIsTaken is why nothing is recovered
\* as discovered.
LEMMA ClockSettles ==
    ASSUME TablesInv, Clock
    PROVE  Settled
<1>1. ASSUME NEW j \in JobIds, W!RetryDue(j)
      PROVE  Settled
  <2>1. /\ jobs[j].state \in W!JobStates \ {"absent"} /\ jobs[j].attempts \in Nat
        /\ W!SetJob(j, jobs[j].state, jobs[j].attempts, "due") /\ UNCHANGED objects
    BY <1>1 DEF W!RetryDue, TablesInv, W!JobStoreTypeOK, W!JobRow
  <2>2. "done" \in W!ObjectStates \ {"discovered"} /\ W!JobStoreTypeOK
    BY DEF W!ObjectStates, TablesInv
  <2> QED BY <2>1, <2>2, RowSettles
<1> QED BY <1>1, KeptSettles DEF Clock, S!Age, S!tables, TablesInv

LEMMA RestartSettles ==
    ASSUME TablesInv, Restart
    PROVE  Settled
<1>1. W!RecoverInterrupted /\ W!JobStoreTypeOK
  BY DEF Restart, W!Restart, TablesInv
<1>2. objects' = objects
  BY <1>1 DEF TablesInv, WaitingIsTaken, Taken, W!RecoverInterrupted, W!JobStoreTypeOK
<1>3. W!JobStoreTypeOK'
  BY <1>1, <1>2 DEF W!RecoverInterrupted, W!JobStoreTypeOK, W!JobRow, W!JobStates, W!Row
<1>4. RowsKept /\ \A j \in JobIds : jobs[j].state = "absent" => jobs'[j].state = "absent"
  BY <1>1 DEF RowsKept, W!RecoverInterrupted, W!Row
<1> QED BY <1>2, <1>3, <1>4 DEF Settled

-----------------------------------------------------------------------------
(* The scanner's transactions.                                             *)

\* A file that is queued is in the job that is made.
LEMMA CreateTables ==
    ASSUME W!JobStoreTypeOK, OneGenerationWaits, WaitingIsTaken,
           NEW key \in FileKeys, NEW j \in JobIds, S!CreateJob(j, key)
    PROVE  /\ W!JobStoreTypeOK' /\ OneGenerationWaits' /\ WaitingIsTaken'
           /\ RowsKept
<1>1. jobs[j].state = "absent"
  BY DEF S!CreateJob, S!IsNextId
<1>2. /\ jobs' = [jobs EXCEPT ![j] = [payload |-> key, state |-> "queued",
                                      attempts |-> 0, retry |-> "none"]]
      /\ objects' = [o \in Objects |->
                        IF o \in key.items /\ objects[o] \in {"discovered", "retry_wait"}
                        THEN "queued" ELSE objects[o]]
  BY SameKeys DEF S!CreateJob
<1>3. W!JobStoreTypeOK'
  BY <1>2 DEF W!JobStoreTypeOK, W!JobRow, W!JobStates, W!ObjectStates
<1>4. OneGenerationWaits'
  BY <1>2 DEF OneGenerationWaits, S!OneDiscoveredGeneration
<1>5. RowsKept
  BY <1>1, <1>2 DEF RowsKept, W!JobStoreTypeOK
<1>6. W!Items(j)' = key.items
  BY <1>2, SameKeys DEF W!Items, W!JobStoreTypeOK
<1>7. WaitingIsTaken'
  <2> SUFFICES ASSUME NEW o \in Objects, objects'[o] \in {"queued", "copying", "retry_wait"}
               PROVE  Taken(o)'
    BY DEF WaitingIsTaken
  <2>1. CASE o \in key.items
    BY <1>6, <2>1 DEF Taken
  <2>2. CASE o \notin key.items
    <3>1. Taken(o)
      BY <1>2, <2>2 DEF WaitingIsTaken
    <3> QED BY <1>5, <3>1, ItemsGrow DEF Taken
  <2> QED BY <2>1, <2>2
<1> QED BY <1>3, <1>4, <1>5, <1>7

LEMMA SeenTables ==
    ASSUME W!JobStoreTypeOK, OneGenerationWaits, WaitingIsTaken, NEW o \in Objects,
           S!UpsertSeen(o, S!Generations(o))
    PROVE  W!JobStoreTypeOK' /\ OneGenerationWaits' /\ WaitingIsTaken' /\ UNCHANGED jobs
<1>1. UNCHANGED jobs
  BY DEF S!UpsertSeen
<1>2. W!JobStoreTypeOK'
  BY <1>1 DEF S!UpsertSeen, W!JobStoreTypeOK, W!ObjectStates
<1>3. \A x \in Objects : \/ objects'[x] = objects[x]
                         \/ objects'[x] = "superseded"
                         \/ (objects'[x] = "discovered" /\ x = o)
  BY DEF S!UpsertSeen, W!JobStoreTypeOK
<1>4. ASSUME objects'[o] = "discovered" /\ objects[o] # "discovered"
      PROVE  \A x \in Objects \ {o} : PathOf[x] = PathOf[o] => objects'[x] # "discovered"
  BY <1>4 DEF S!UpsertSeen, S!Generations, W!JobStoreTypeOK
<1>5. OneGenerationWaits'
  BY <1>3, <1>4 DEF OneGenerationWaits, S!OneDiscoveredGeneration
<1>6. WaitingIsTaken'
  BY <1>1, <1>3 DEF WaitingIsTaken, Taken, W!Items
<1> QED BY <1>1, <1>2, <1>5, <1>6

LEMMA ScanTables ==
    ASSUME TablesInv, ScanStep
    PROVE  /\ W!JobStoreTypeOK' /\ OneGenerationWaits' /\ WaitingIsTaken'
           /\ RowsKept
<1>1. W!JobStoreTypeOK /\ OneGenerationWaits /\ WaitingIsTaken
  BY DEF TablesInv
<1> DEFINE Kept == UNCHANGED <<jobs, objects>>
<1>2. ASSUME NEW o \in Objects, S!SeeItem(o)
      PROVE  S!UpsertSeen(o, S!Generations(o))
  BY <1>2 DEF S!SeeItem
<1>3. ASSUME NEW o \in Objects, S!QueueFile(o)
      PROVE  Kept \/ \E key \in FileKeys, j \in JobIds : S!CreateJob(j, key)
  BY <1>3, SameKeys DEF S!QueueFile, S!Queue, S!tables
<1>4. CASE Kept
  BY <1>1, <1>4, KeptSettles, SettledTables DEF Settled
<1>5. CASE S!IgnoreItem
  <2>1. UNCHANGED jobs /\ objects' = [objects EXCEPT ![item] = "ignored"]
    BY <1>5 DEF S!IgnoreItem, S!SetStateByKey
  <2>2. W!JobStoreTypeOK'
    BY <1>1, <2>1 DEF W!JobStoreTypeOK, W!ObjectStates
  <2>3. \A o \in Objects : objects'[o] = objects[o] \/ objects'[o] = "ignored"
    BY <1>1, <2>1 DEF W!JobStoreTypeOK
  <2>4. OneGenerationWaits'
    BY <1>1, <2>3 DEF OneGenerationWaits, S!OneDiscoveredGeneration
  <2>5. WaitingIsTaken'
    BY <1>1, <2>1, <2>3 DEF WaitingIsTaken, Taken, W!Items
  <2> QED BY <2>1, <2>2, <2>4, <2>5 DEF RowsKept
<1>6. Kept \/ S!IgnoreItem \/ \E o \in Objects : S!SeeItem(o) \/ S!QueueFile(o)
  BY DEF ScanStep, S!Scan, S!List, S!FetchTorrents, S!Initialize, S!StartGroups, S!StartFiles,
         S!EndScan, S!tables
<1> QED BY <1>1, <1>2, <1>3, <1>4, <1>5, <1>6, CreateTables, SeenTables DEF RowsKept

\* The worker picks a row, and no row goes away.
LEMMA PickedStays ==
    ASSUME TablesInv, Next, RowsKept
    PROVE  PickedExists'
<1>1. CASE WorkerStep
  <2>1. CASE W!PickJob
    BY <2>1 DEF W!PickJob, W!IsNextQueued, PickedExists, RowsKept
  <2>2. CASE ~W!PickJob
    <3>1. \/ pc' \in {"poll", "pick"}
          \/ picked' = picked /\ pc \notin {"poll", "pick"}
      BY <1>1, <2>2
         DEF WorkerStep, W!WorkerStep, W!PollRetries, W!QueueEmpty, W!PickedJobUnusable,
             W!StartAttempt, W!StartFails, W!BeginActive, W!CleanStage, W!Transferring,
             W!StartCopy, W!CopyAgain, W!CopyFile, W!CopyDone, W!Finalizing, W!VerifyStage,
             W!StartCommit, W!CommitFile, W!Committed, W!VerifyFinal, W!RecordItem, W!Recorded,
             W!StartRelease, W!RemoveSource, W!Released, W!Finish, W!RcloneFails, W!StoreFails,
             W!Unwind, W!DiscardControlAction, W!ConsumeControlAction, W!SettlePause,
             W!SettleCancel, W!SettleFail, W!SettleLost, W!SweepStage, W!Goto, W!Rest,
             W!RcloneSteps, W!Copying
    <3> QED BY <3>1 DEF TablesInv, PickedExists, RowsKept
  <2> QED BY <2>1, <2>2
<1>2. CASE Restart
  BY <1>2 DEF Restart, W!Restart, W!Rest, PickedExists
<1>3. CASE UNCHANGED <<pc, picked>>
  BY <1>3 DEF TablesInv, PickedExists, RowsKept
<1> QED BY <1>1, <1>2, <1>3
        DEF Next, ScanStep, ScanFails, Clock, Upload, W!RetryDue, workerVars, W!workerVars

LEMMA StepTables == TablesInv /\ [Next]_vars => TablesInv'
<1> SUFFICES ASSUME TablesInv, [Next]_vars PROVE TablesInv'
  OBVIOUS
<1>1. W!JobStoreTypeOK /\ OneGenerationWaits /\ WaitingIsTaken
  BY DEF TablesInv
<1>2. ASSUME Settled
      PROVE  W!JobStoreTypeOK' /\ OneGenerationWaits' /\ WaitingIsTaken' /\ RowsKept
  BY <1>1, <1>2, SettledTables DEF Settled
<1>3. CASE Next
  <2>1. CASE ScanStep
    BY <1>3, <2>1, ScanTables, PickedStays DEF TablesInv
  <2>2. Settled \/ ScanStep
    BY <1>1, <1>3, KeptSettles, WorkerSettles, ClockSettles, RestartSettles
       DEF Next, ScanFails, S!ScanFails, S!tables, Upload, S!Upload
  <2> QED BY <1>2, <1>3, <2>1, <2>2, PickedStays DEF TablesInv
<1>4. CASE UNCHANGED vars
  <2>1. UNCHANGED <<jobs, objects, pc, picked>>
    BY <1>4 DEF vars, workerVars
  <2> QED BY <1>1, <1>2, <2>1, KeptSettles DEF TablesInv, PickedExists
<1> QED BY <1>3, <1>4

\* With the scanner, the worker and the uploader running against each other, two
\* generations of a file never wait to be queued.
THEOREM PipelineHasOneGeneration == Spec => []OneGenerationWaits
<1>1. TablesInv => OneGenerationWaits
  BY DEF TablesInv
<1> QED BY <1>1, InitTables, StepTables, PTL DEF Spec

-----------------------------------------------------------------------------
(* What is reported done is what the destination holds.                    *)

\* What the size check can tell apart: of the generations of a file no two have the
\* same size.  A file that is replaced by one of its size passes for the one listed.
SizesTell ==
    \A o1, o2 \in Objects : PathOf[o1] = PathOf[o2] /\ SizeOf[o1] = SizeOf[o2] => o1 = o2

InPlace(tree) ==
    /\ tree \in [Paths -> Objects \cup {NoFile}]
    /\ \A p \in Paths : tree[p] # NoFile => PathOf[tree[p]] = p

FilesInPlace == /\ InPlace(src)
                /\ InPlace(dest)
                /\ stage \in [JobIds -> [Paths -> Objects \cup {NoFile}]]
                /\ \A j \in JobIds : InPlace(stage[j])

\* From the final check to the last record the destination is not touched.
VerifiedIsThere ==
    pc = "record" => \A o \in W!Items(W!Job) : dest[PathOf[o]] = o

CopiesInv == FilesInPlace /\ VerifiedIsThere

LEMMA InitCopies == Init => CopiesInv
<1> SUFFICES ASSUME Init PROVE CopiesInv
  OBVIOUS
<1>1. /\ src = [p \in Paths |-> NoFile] /\ dest = [p \in Paths |-> NoFile]
      /\ stage = [j \in JobIds |-> [p \in Paths |-> NoFile]] /\ pc = "poll"
  BY DEF Init, W!Init, W!Empty
<1> QED BY <1>1 DEF CopiesInv, FilesInPlace, InPlace, VerifiedIsThere

LEMMA StageInPlace ==
    ASSUME FilesInPlace, NEW j \in JobIds, UNCHANGED <<src, dest>>,
           NEW tree, InPlace(tree), stage' = [stage EXCEPT ![j] = tree]
    PROVE  FilesInPlace'
BY DEF FilesInPlace, InPlace

LEMMA PurgedInPlace ==
    ASSUME FilesInPlace, NEW j \in JobIds, W!PurgeStage(j)
    PROVE  FilesInPlace'
<1>1. PICK left \in SUBSET W!Present(stage[j], Paths) :
         stage' = [stage EXCEPT ![j] = [p \in Paths |-> IF p \in left THEN @[p] ELSE NoFile]]
  BY DEF W!PurgeStage
<1> DEFINE tree == [p \in Paths |-> IF p \in left THEN stage[j][p] ELSE NoFile]
<1>2. InPlace(tree) /\ stage' = [stage EXCEPT ![j] = tree]
  BY <1>1 DEF FilesInPlace, InPlace
<1>3. UNCHANGED <<src, dest>>
  BY DEF W!PurgeStage
<1> QED BY <1>2, <1>3, StageInPlace

LEMMA FilesStep ==
    ASSUME TablesInv, FilesInPlace, [Next]_vars
    PROVE  FilesInPlace'
<1>1. pc \notin {"poll", "pick"} => W!Job \in JobIds
  BY DEF TablesInv, PickedExists, W!Job
<1>2. CASE UNCHANGED <<src, stage, dest>>
  BY <1>2 DEF FilesInPlace, InPlace
<1>3. CASE W!CleanStage
  <2>1. InPlace(W!Empty)
    BY DEF InPlace, W!Empty
  <2> QED BY <1>1, <1>3, <2>1, StageInPlace DEF W!CleanStage
<1>4. ASSUME NEW p \in Paths, W!CopyFile(p)
      PROVE  FilesInPlace'
  <2>1. /\ W!Job \in JobIds /\ UNCHANGED <<src, dest>>
        /\ stage' = [stage EXCEPT ![W!Job][p] = src[p]]
    BY <1>1, <1>4 DEF W!CopyFile, W!Copying
  <2> DEFINE tree == [stage[W!Job] EXCEPT ![p] = src[p]]
  <2>2. InPlace(tree) /\ stage' = [stage EXCEPT ![W!Job] = tree]
    BY <2>1 DEF FilesInPlace, InPlace
  <2> QED BY <2>1, <2>2, StageInPlace
<1>5. ASSUME NEW p \in Paths, W!CommitFile(p)
      PROVE  FilesInPlace'
  <2>1. /\ W!Job \in JobIds /\ UNCHANGED src
        /\ dest' = [dest EXCEPT ![p] = stage[W!Job][p]]
        /\ stage' = [stage EXCEPT ![W!Job][p] = NoFile]
    BY <1>1, <1>5 DEF W!CommitFile
  <2>2. InPlace(dest)'
    BY <2>1 DEF FilesInPlace, InPlace
  <2>3. stage' \in [JobIds -> [Paths -> Objects \cup {NoFile}]]
    BY <2>1 DEF FilesInPlace
  <2>4. \A j \in JobIds : InPlace(stage[j])'
    BY <2>1 DEF FilesInPlace, InPlace
  <2> QED BY <2>1, <2>2, <2>3, <2>4 DEF FilesInPlace, InPlace
<1>6. ASSUME NEW p \in Paths, W!RemoveSource(p)
      PROVE  FilesInPlace'
  BY <1>6 DEF W!RemoveSource, FilesInPlace, InPlace
<1>7. CASE W!RcloneFails
  BY <1>1, <1>2, <1>7, PurgedInPlace DEF W!RcloneFails, W!files
<1>8. CASE W!SweepStage
  BY <1>1, <1>8, PurgedInPlace DEF W!SweepStage
<1>9. ASSUME NEW o \in Objects, Upload(o)
      PROVE  FilesInPlace'
  <2>1. src' = [src EXCEPT ![PathOf[o]] = o] /\ UNCHANGED <<stage, dest>>
    BY <1>9 DEF Upload, workerVars
  <2>2. InPlace(src)'
    BY <2>1, FilesAssumption DEF FilesInPlace, InPlace
  <2> QED BY <2>1, <2>2 DEF FilesInPlace, InPlace
<1>10. CASE WorkerStep
  <2>1. \/ UNCHANGED <<src, stage, dest>> \/ W!CleanStage \/ W!RcloneFails \/ W!SweepStage
        \/ \E p \in Paths : W!CopyFile(p) \/ W!CommitFile(p) \/ W!RemoveSource(p)
    BY <1>10
       DEF WorkerStep, W!WorkerStep, W!PollRetries, W!QueueEmpty, W!PickJob, W!PickedJobUnusable,
           W!StartAttempt, W!StartFails, W!BeginActive, W!Transferring, W!StartCopy,
           W!CopyAgain, W!CopyDone, W!Finalizing, W!VerifyStage, W!StartCommit, W!Committed,
           W!VerifyFinal, W!RecordItem, W!Recorded, W!StartRelease, W!Released, W!Finish,
           W!StoreFails, W!Unwind, W!DiscardControlAction, W!ConsumeControlAction,
           W!SettlePause, W!SettleCancel, W!SettleFail, W!SettleLost, W!files
  <2> QED BY <1>2, <1>3, <1>4, <1>5, <1>6, <1>7, <1>8, <2>1
<1>11. UNCHANGED <<src, stage, dest>> \/ WorkerStep \/ \E o \in Objects : Upload(o)
  BY DEF Next, ScanStep, ScanFails, Clock, Restart, W!Restart, W!RetryDue, W!files, workerVars,
         vars
<1> QED BY <1>2, <1>9, <1>10, <1>11

LEMMA RowsStay ==
    ASSUME TablesInv, [Next]_vars
    PROVE  RowsKept
<1>1. Settled \/ ScanStep
  BY KeptSettles, WorkerSettles, ClockSettles, RestartSettles
     DEF TablesInv, Next, ScanFails, S!ScanFails, S!tables, Upload, S!Upload, vars
<1> QED BY <1>1, ScanTables DEF Settled

LEMMA JobKeepsItems ==
    ASSUME TablesInv, [Next]_vars, pc \notin {"poll", "pick"}, UNCHANGED picked
    PROVE  W!Items(W!Job)' = W!Items(W!Job)
<1>1. PICK j \in JobIds : j = W!Job /\ jobs[j].state # "absent"
  BY DEF TablesInv, PickedExists, W!Job
<1>2. W!Items(j)' = W!Items(j)
  BY <1>1, RowsStay DEF RowsKept, W!Items
<1>3. W!Job' = j
  BY <1>1 DEF W!Job
<1> QED BY <1>1, <1>2, <1>3 DEF W!Items

LEMMA VerifyFinds ==
    ASSUME TablesInv, FilesInPlace, SizesTell, W!VerifyFinal
    PROVE  \A o \in W!Items(W!Job) : dest[PathOf[o]] = o
<1> SUFFICES ASSUME NEW o \in W!Items(W!Job) PROVE dest[PathOf[o]] = o
  OBVIOUS
<1>1. W!Job \in JobIds /\ W!JobStoreTypeOK
  BY DEF W!VerifyFinal, TablesInv, PickedExists, W!Job
<1>2. o \in Objects /\ PathOf[o] \in Paths
  BY <1>1, ItemsAreObjects, FilesAssumption
<1>3. dest[PathOf[o]] # NoFile
  BY DEF W!VerifyFinal, W!MatchesManifest, W!Present, W!ItemPaths
<1>4. dest[PathOf[o]] \in Objects /\ PathOf[dest[PathOf[o]]] = PathOf[o]
  BY <1>2, <1>3 DEF FilesInPlace, InPlace
<1>5. SizeOf[dest[PathOf[o]]] = SizeOf[o]
  BY DEF W!VerifyFinal, W!MatchesManifest
<1> QED BY <1>2, <1>4, <1>5 DEF SizesTell

LEMMA VerifiedStays ==
    ASSUME TablesInv, CopiesInv, SizesTell, [Next]_vars
    PROVE  VerifiedIsThere'
<1> SUFFICES ASSUME pc' = "record"
             PROVE  (\A o \in W!Items(W!Job) : dest[PathOf[o]] = o)'
  BY DEF VerifiedIsThere
<1>1. UNCHANGED <<picked, dest>> /\ (W!VerifyFinal \/ pc = "record")
  <2>1. CASE WorkerStep
    BY <2>1
       DEF WorkerStep, W!WorkerStep, W!PollRetries, W!QueueEmpty, W!PickJob, W!PickedJobUnusable,
           W!StartAttempt, W!StartFails, W!BeginActive, W!CleanStage, W!Transferring,
           W!StartCopy, W!CopyAgain, W!CopyFile, W!CopyDone, W!Finalizing, W!VerifyStage,
           W!StartCommit, W!CommitFile, W!Committed, W!VerifyFinal, W!RecordItem, W!Recorded,
           W!StartRelease, W!RemoveSource, W!Released, W!Finish, W!RcloneFails, W!StoreFails,
           W!Unwind, W!DiscardControlAction, W!ConsumeControlAction, W!SettlePause,
           W!SettleCancel, W!SettleFail, W!SettleLost, W!SweepStage, W!Goto, W!Rest, W!Copying,
           W!files
  <2>2. CASE Restart
    BY <2>2 DEF Restart, W!Restart, W!Rest
  <2> QED BY <2>1, <2>2
          DEF Next, ScanStep, ScanFails, Clock, Upload, W!RetryDue, W!workerVars, W!files,
              workerVars, vars
<1>2. \A o \in W!Items(W!Job) : dest[PathOf[o]] = o
  BY <1>1, VerifyFinds DEF CopiesInv, VerifiedIsThere
<1>3. W!Items(W!Job)' = W!Items(W!Job)
  BY <1>1, JobKeepsItems DEF W!VerifyFinal
<1> QED BY <1>1, <1>2, <1>3

LEMMA StepCopies == TablesInv /\ CopiesInv /\ SizesTell /\ [Next]_vars => CopiesInv'
BY FilesStep, VerifiedStays DEF CopiesInv

\* No other step reports an object done.
LEMMA OnlyRecordedIsDone ==
    ASSUME TablesInv, [Next]_vars, NEW o \in Objects, objects[o] # "done", objects'[o] = "done"
    PROVE  W!RecordItem(o)
<1>0. objects \in [Objects -> W!ObjectStates]
  BY DEF TablesInv, W!JobStoreTypeOK
<1>1. ~UNCHANGED objects
  OBVIOUS
<1>2. CASE WorkerStep
  <2>1. ~W!PollRetries
    BY <1>0 DEF W!PollRetries, W!PromoteDueRetries
  <2>2. ~W!PickedJobUnusable /\ ~W!SettleFail
    BY <1>0 DEF W!PickedJobUnusable, W!SettleFail, W!FailJob, W!SetItems
  <2>3. ~W!StartAttempt /\ ~W!Finish
    BY <1>0, <1>1 DEF W!StartAttempt, W!StartJob, W!SetItems, W!Finish, W!CompleteJob
  <2>4. ~W!SettlePause /\ ~W!SettleCancel
    BY <1>0, <1>1
       DEF W!SettlePause, W!PauseJob, W!SettleCancel, W!CancelJob, W!SetItems, W!storeVars
  <2>5. PICK x \in Objects : W!RecordItem(x)
    BY <1>1, <1>2, <2>1, <2>2, <2>3, <2>4
       DEF WorkerStep, W!WorkerStep, W!QueueEmpty, W!PickJob, W!StartFails, W!BeginActive,
           W!CleanStage, W!Transferring, W!StartCopy, W!CopyAgain, W!CopyDone, W!Finalizing,
           W!VerifyStage, W!StartCommit, W!Committed, W!VerifyFinal, W!Recorded, W!StartRelease,
           W!Released, W!RcloneFails, W!StoreFails, W!Unwind, W!DiscardControlAction,
           W!ConsumeControlAction, W!SettleLost, W!SweepStage, W!CopyFile, W!CommitFile,
           W!RemoveSource, W!storeVars
  <2>6. x = o
    BY <1>0, <2>5 DEF W!RecordItem, W!CompleteObject
  <2> QED BY <2>5, <2>6
<1>3. CASE ScanStep
  <2>1. \A x \in Objects : ~S!SeeItem(x)
    BY <1>0 DEF S!SeeItem, S!UpsertSeen
  <2>2. \A x \in Objects : ~S!QueueFile(x)
    BY <1>0, <1>1 DEF S!QueueFile, S!Queue, S!CreateJob, S!tables
  <2>3. ~S!IgnoreItem
    BY <1>0 DEF S!IgnoreItem, S!SetStateByKey
  <2> QED BY <1>1, <1>3, <2>1, <2>2, <2>3
          DEF ScanStep, S!Scan, S!List, S!FetchTorrents, S!Initialize, S!StartGroups,
              S!StartFiles, S!EndScan, S!tables
<1>4. ~Restart
  BY <1>0 DEF Restart, W!Restart, W!RecoverInterrupted
<1> QED BY <1>1, <1>2, <1>3, <1>4
        DEF Next, ScanFails, S!ScanFails, Clock, S!Age, W!RetryDue, Upload, S!Upload, S!tables,
            vars

\* What DoneIsDelivered says of one step.
DoneStep ==
    \A o \in Objects : objects[o] # "done" /\ objects'[o] = "done" => dest[PathOf[o]] = o

LEMMA StepDone == TablesInv /\ CopiesInv /\ [Next]_vars => DoneStep
<1> SUFFICES ASSUME TablesInv, CopiesInv, [Next]_vars,
                    NEW o \in Objects, objects[o] # "done", objects'[o] = "done"
             PROVE  dest[PathOf[o]] = o
  BY DEF DoneStep
<1>1. pc = "record" /\ o \in W!Items(W!Job)
  BY OnlyRecordedIsDone DEF W!RecordItem
<1> QED BY <1>1 DEF CopiesInv, VerifiedIsThere

\* A generation is reported done only while the destination holds that generation, however
\* often the uploader replaces the file under the attempt, if sizes tell generations apart.
THEOREM DoneHasArrived == ASSUME SizesTell PROVE Spec => DoneIsDelivered
<1>1. Init => TablesInv /\ CopiesInv
  BY InitTables, InitCopies
<1>2. TablesInv /\ CopiesInv /\ [Next]_vars => TablesInv' /\ CopiesInv'
  BY StepTables, StepCopies
<1>3. TablesInv /\ CopiesInv /\ [Next]_vars => [DoneStep]_vars
  BY StepDone
<1>4. DoneIsDelivered <=> [][DoneStep]_vars
  BY DEF DoneIsDelivered, DoneStep
<1> QED BY <1>1, <1>2, <1>3, <1>4, PTL DEF Spec

-----------------------------------------------------------------------------
(* What was superseded stays out of the queue.                             *)

\* What a scan holds of the files: what it has listed and what it has seen.
Scanned == S!Seen \cup (IF scanPc \in {"torrents", "see", "ignore"} THEN unseen ELSE {})

ScanTyped == /\ seen \in [Objects -> W!ObjectStates]
             /\ scanPc = "idle" => seen = S!NoneSeen
             /\ Scanned \subseteq Objects

OneScanned == \A o1, o2 \in Scanned : PathOf[o1] = PathOf[o2] => o1 = o2

\* The scan knows of a generation it has seen that it is superseded.
SupersededIsKnown == \A o \in S!Seen : objects[o] = "superseded" => seen[o] = "superseded"

HistoryInv == ScanTyped /\ OneScanned /\ SupersededIsKnown

LEMMA InitHistory == Init => HistoryInv
<1> SUFFICES ASSUME Init PROVE HistoryInv
  OBVIOUS
<1>1. scanPc = "idle" /\ unseen = {} /\ seen = S!NoneSeen
  BY DEF Init, S!Init
<1>2. seen \in [Objects -> W!ObjectStates] /\ S!Seen = {} /\ Scanned = {}
  BY <1>1 DEF S!NoneSeen, S!NotSeen, S!Seen, W!ObjectStates, Scanned
<1> QED BY <1>1, <1>2 DEF HistoryInv, ScanTyped, OneScanned, SupersededIsKnown

\* A file has one generation on the source, so a listing has one.
LEMMA OneOnSource ==
    ASSUME FilesInPlace, NEW o1 \in OnSource, NEW o2 \in OnSource, PathOf[o1] = PathOf[o2]
    PROVE  o1 = o2
<1>1. \A o \in OnSource : \E p \in Paths : src[p] = o /\ PathOf[o] = p
  BY FilesAssumption DEF OnSource, FilesInPlace, InPlace
<1> QED BY <1>1

\* What the scan holds grows only by a listing.
LEMMA WhatIsScanned ==
    ASSUME TablesInv, ScanTyped, [Next]_vars
    PROVE  /\ \/ S!List /\ Scanned' \subseteq OnSource
              \/ Scanned' \subseteq Scanned
           /\ \A o \in S!Seen' : \/ o \in S!Seen /\ seen'[o] = seen[o]
                                 \/ S!SeeItem(o) /\ seen'[o] = objects'[o]
           /\ seen' \in [Objects -> W!ObjectStates]
           /\ scanPc' = "idle" => seen' = S!NoneSeen
<1>1. /\ seen \in [Objects -> W!ObjectStates] /\ Scanned \subseteq Objects
      /\ scanPc = "idle" => seen = S!NoneSeen
  BY DEF ScanTyped
<1>2. S!NoneSeen \in [Objects -> W!ObjectStates]
  BY DEF S!NoneSeen, S!NotSeen, W!ObjectStates
<1>3. CASE UNCHANGED <<scanPc, unseen, seen>>
  BY <1>1, <1>3 DEF Scanned, S!Seen
<1>4. CASE S!Forget
  BY <1>2, <1>4 DEF S!Forget, Scanned, S!Seen, S!NoneSeen
<1>5. CASE S!List
  <2>1. seen' = seen /\ unseen' = S!Listing /\ scanPc' = "torrents" /\ seen = S!NoneSeen
    BY <1>1, <1>5 DEF S!List
  <2>2. Scanned' \subseteq OnSource
    BY <2>1 DEF Scanned, S!Seen, S!NoneSeen, S!Listing
  <2> QED BY <1>1, <1>5, <2>1, <2>2 DEF S!Seen
<1>6. ASSUME NEW o \in Objects, S!SeeItem(o), TablesInv'
      PROVE  /\ Scanned' \subseteq Scanned
             /\ \A x \in S!Seen' : \/ x \in S!Seen /\ seen'[x] = seen[x]
                                   \/ x = o /\ seen'[x] = objects'[x]
             /\ seen' \in [Objects -> W!ObjectStates] /\ scanPc' # "idle"
  <2>1. objects'[o] \in W!ObjectStates
    BY <1>6 DEF TablesInv, W!JobStoreTypeOK
  <2>2. /\ scanPc = "see" /\ scanPc' \in {"see", "ignore"} /\ o \in unseen
        /\ unseen' \subseteq unseen
        /\ seen' = seen \/ seen' = [seen EXCEPT ![o] = objects'[o]]
    BY <1>6 DEF S!SeeItem
  <2> QED BY <1>1, <2>1, <2>2 DEF Scanned, S!Seen
<1>7. CASE S!IgnoreItem \/ S!FetchTorrents \/ S!StartGroups \/ S!StartFiles
  <2>1. seen' = seen /\ scanPc' # "idle"
    BY <1>7 DEF S!IgnoreItem, S!FetchTorrents, S!StartGroups, S!StartFiles
  <2>2. Scanned' \subseteq Scanned
    BY <1>7 DEF S!IgnoreItem, S!FetchTorrents, S!StartGroups, S!StartFiles, Scanned, S!Seen
  <2> QED BY <1>1, <2>1, <2>2 DEF S!Seen
<1>8. ASSUME NEW o \in Objects, S!QueueFile(o)
      PROVE  Scanned' \subseteq Scanned /\ seen' = seen /\ scanPc' # "idle"
  BY <1>8 DEF S!QueueFile, Scanned, S!Seen
<1>9. CASE ScanStep
  <2>1. TablesInv'
    BY <1>9, StepTables DEF Next
  <2> QED BY <1>1, <1>3, <1>4, <1>5, <1>6, <1>7, <1>8, <1>9, <2>1
          DEF ScanStep, S!Scan, S!Initialize, S!EndScan, S!Seen
<1> QED BY <1>3, <1>4, <1>9
        DEF Next, ScanFails, S!ScanFails, WorkerStep, Clock, S!Age, S!localVars, Restart,
            S!Restart, Upload, S!Upload, scannerVars, vars

\* Of all transactions only UpsertSeen supersedes, when it meets a newer generation.
LEMMA OnlySeenSupersedes ==
    ASSUME TablesInv, [Next]_vars, NEW o \in Objects,
           objects[o] # "superseded", objects'[o] = "superseded"
    PROVE  \E x \in Objects \ {o} : S!SeeItem(x) /\ PathOf[x] = PathOf[o]
<1>1. objects \in [Objects -> W!ObjectStates] /\ ~UNCHANGED objects
  BY DEF TablesInv, W!JobStoreTypeOK
<1>2. ~WorkerStep
  <2>1. ~W!PollRetries
    BY <1>1 DEF W!PollRetries, W!PromoteDueRetries
  <2>2. ~W!PickedJobUnusable /\ ~W!SettleFail
    BY <1>1 DEF W!PickedJobUnusable, W!SettleFail, W!FailJob, W!SetItems
  <2>3. ~W!StartAttempt /\ ~W!Finish
    BY <1>1 DEF W!StartAttempt, W!StartJob, W!SetItems, W!Finish, W!CompleteJob
  <2>4. ~W!SettlePause /\ ~W!SettleCancel
    BY <1>1 DEF W!SettlePause, W!PauseJob, W!SettleCancel, W!CancelJob, W!SetItems, W!storeVars
  <2>5. \A x \in Objects : ~W!RecordItem(x)
    BY <1>1 DEF W!RecordItem, W!CompleteObject
  <2> QED BY <1>1, <2>1, <2>2, <2>3, <2>4, <2>5
       DEF WorkerStep, W!WorkerStep, W!QueueEmpty, W!PickJob, W!StartFails, W!BeginActive,
           W!CleanStage, W!Transferring, W!StartCopy, W!CopyAgain, W!CopyDone, W!Finalizing,
           W!VerifyStage, W!StartCommit, W!Committed, W!VerifyFinal, W!Recorded, W!StartRelease,
           W!Released, W!RcloneFails, W!StoreFails, W!Unwind, W!DiscardControlAction,
           W!ConsumeControlAction, W!SettleLost, W!SweepStage, W!CopyFile, W!CommitFile,
           W!RemoveSource, W!storeVars
<1>3. ~Restart
  BY <1>1 DEF Restart, W!Restart, W!RecoverInterrupted
<1>4. \A x \in Objects : ~S!QueueFile(x)
  BY <1>1 DEF S!QueueFile, S!Queue, S!CreateJob, S!tables
<1>5. ~S!IgnoreItem
  BY <1>1 DEF S!IgnoreItem, S!SetStateByKey
<1>6. PICK x \in Objects : S!SeeItem(x)
  BY <1>1, <1>2, <1>3, <1>4, <1>5
     DEF Next, ScanStep, S!Scan, S!List, S!FetchTorrents, S!Initialize, S!StartGroups,
         S!StartFiles, S!EndScan, ScanFails, S!ScanFails, Clock, S!Age, W!RetryDue, Upload,
         S!Upload, S!tables, vars
<1>7. x # o /\ o \in S!Generations(x)
  BY <1>1, <1>6 DEF S!SeeItem, S!UpsertSeen
<1> QED BY <1>6, <1>7 DEF S!Generations

LEMMA StepHistory ==
    TablesInv /\ FilesInPlace /\ HistoryInv /\ [Next]_vars => HistoryInv'
<1> SUFFICES ASSUME TablesInv, FilesInPlace, HistoryInv, [Next]_vars PROVE HistoryInv'
  OBVIOUS
<1>1. ScanTyped /\ Scanned \subseteq Objects /\ OnSource \subseteq Objects
  BY DEF HistoryInv, ScanTyped, OnSource
<1>2. ScanTyped'
  BY <1>1, WhatIsScanned DEF ScanTyped
<1>3. OneScanned'
  <2>1. CASE Scanned' \subseteq OnSource
    BY <2>1, OneOnSource DEF OneScanned
  <2>2. CASE Scanned' \subseteq Scanned
    BY <2>2 DEF HistoryInv, OneScanned
  <2> QED BY <1>1, <2>1, <2>2, WhatIsScanned
<1>4. SupersededIsKnown'
  <2> SUFFICES ASSUME NEW o \in S!Seen', objects'[o] = "superseded", seen'[o] # "superseded"
               PROVE  FALSE
    BY DEF SupersededIsKnown
  <2>1. o \in S!Seen /\ seen'[o] = seen[o]
    BY <1>1, WhatIsScanned
  <2>2. o \in Objects /\ objects[o] # "superseded"
    BY <2>1 DEF S!Seen, HistoryInv, SupersededIsKnown
  <2>3. PICK x \in Objects \ {o} : S!SeeItem(x) /\ PathOf[x] = PathOf[o]
    BY <2>2, OnlySeenSupersedes
  <2>4. x \in Scanned /\ o \in Scanned
    BY <2>1, <2>3 DEF S!SeeItem, Scanned
  <2> QED BY <2>3, <2>4 DEF HistoryInv, OneScanned
<1> QED BY <1>2, <1>3, <1>4 DEF HistoryInv

\* Only the scanner makes a row, for a file that waits to be processed.
LEMMA OnlyScannerCreates ==
    ASSUME TablesInv, [Next]_vars, NEW j \in JobIds, S!Created(j)
    PROVE  \E x \in Objects : S!Stable(x) /\ jobs'[j].payload = S!FileKey(x)
<1>1. jobs[j].state = "absent" /\ jobs'[j].state # "absent" /\ jobs \in [JobIds -> W!JobRow]
  BY DEF S!Created, TablesInv, W!JobStoreTypeOK
<1>2. ~Settled
  BY <1>1 DEF Settled
<1>3. ScanStep
  BY <1>2, KeptSettles, WorkerSettles, ClockSettles, RestartSettles
     DEF TablesInv, Next, ScanFails, S!ScanFails, S!tables, Upload, S!Upload, vars
<1>4. jobs' # jobs
  BY <1>1
<1>5. PICK x \in Objects : S!QueueFile(x)
  BY <1>3, <1>4
     DEF ScanStep, S!Scan, S!List, S!FetchTorrents, S!Initialize, S!StartGroups, S!StartFiles,
         S!EndScan, S!IgnoreItem, S!SetStateByKey, S!SeeItem, S!UpsertSeen, S!tables
<1>6. S!Stable(x) /\ \E k \in JobIds : S!CreateJob(k, S!FileKey(x))
  BY <1>4, <1>5 DEF S!QueueFile, S!Queue, S!tables
<1>7. PICK k \in JobIds : S!CreateJob(k, S!FileKey(x))
  BY <1>6
<1>8. k = j /\ jobs'[j].payload = S!FileKey(x)
  BY <1>1, <1>7 DEF S!CreateJob
<1> QED BY <1>6, <1>8

\* What SupersededIsNotQueued of Scanner says of one step.
QueuesNoSuperseded ==
    \A j \in JobIds : \A o \in Objects :
        S!Created(j) /\ o \in jobs'[j].payload.items => objects[o] # "superseded"

LEMMA StepQueues == TablesInv /\ HistoryInv /\ [Next]_vars => QueuesNoSuperseded
<1> SUFFICES ASSUME TablesInv, HistoryInv, [Next]_vars, NEW j \in JobIds, NEW o \in Objects,
                    S!Created(j), o \in jobs'[j].payload.items
             PROVE  objects[o] # "superseded"
  BY DEF QueuesNoSuperseded
<1>1. PICK x \in Objects : S!Stable(x) /\ jobs'[j].payload = S!FileKey(x)
  BY OnlyScannerCreates
<1>2. o = x /\ seen[o] \in {"discovered", "retry_wait"}
  BY <1>1 DEF S!FileKey, S!Stable, S!Processable
<1>3. o \in S!Seen
  BY <1>2 DEF S!Seen, S!NotSeen
<1> QED BY <1>2, <1>3 DEF HistoryInv, SupersededIsKnown

\* db.go:295, with the worker running: whatever it starts, fails and promotes between two
\* steps of a scan, no job is made for a generation that was superseded.
THEOREM PipelineQueuesNoSuperseded == Spec => S!SupersededIsNotQueued
<1>1. Init => TablesInv /\ FilesInPlace /\ HistoryInv
  BY InitTables, InitCopies, InitHistory DEF CopiesInv
<1>2. TablesInv /\ FilesInPlace /\ HistoryInv /\ [Next]_vars
          => TablesInv' /\ FilesInPlace' /\ HistoryInv'
  BY StepTables, FilesStep, StepHistory
<1>3. TablesInv /\ HistoryInv /\ [Next]_vars => [QueuesNoSuperseded]_(S!vars)
  BY StepQueues
<1>4. S!SupersededIsNotQueued <=> [][QueuesNoSuperseded]_(S!vars)
  BY DEF S!SupersededIsNotQueued, QueuesNoSuperseded
<1> QED BY <1>1, <1>2, <1>3, <1>4, PTL DEF Spec
=============================================================================
