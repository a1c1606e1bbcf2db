---------------------------- MODULE WorkerProofs ----------------------------
(***************************************************************************)
(* Theorems about Worker, for every number of jobs, handlers, files,       *)
(* retries, restarts and database errors.                                  *)
(***************************************************************************)
EXTENDS Worker, TLAPS

\* The worker and the handlers only ever hold the id of a row that exists.
IdsExist ==
    /\ pc \notin {"poll", "pick"} =>
          picked.job \in JobIds /\ jobs[picked.job].state # "absent"
    /\ \A c \in Clients : request[c].step \in {"store", "purge"} =>
          request[c].job \in JobIds /\ jobs[request[c].job].state # "absent"

TypeInv == TypeOK /\ IdsExist

-----------------------------------------------------------------------------
(* What one transaction does to the tables.                                *)

LEMMA SetJobRow ==
    ASSUME JobStoreTypeOK, NEW j \in JobIds, jobs[j].state # "absent",
           NEW state \in JobStates \ {"absent"}, NEW attempts \in Nat,
           NEW retry \in {"none", "waiting", "due"}, SetJob(j, state, attempts, retry)
    PROVE  /\ jobs' \in [JobIds -> JobRow]
           /\ \A k \in JobIds : jobs'[k].state # "absent" <=> jobs[k].state # "absent"
           /\ \A k \in JobIds : jobs'[k].payload = jobs[k].payload
           /\ \A k \in JobIds \ {j} : jobs'[k] = jobs[k]
           /\ jobs'[j].state = state /\ jobs'[j].attempts = attempts /\ jobs'[j].retry = retry
BY DEF SetJob, Row, JobStoreTypeOK, JobRow, JobStates

LEMMA SetItemsStates ==
    ASSUME JobStoreTypeOK, NEW j \in JobIds, NEW from, NEW to \in ObjectStates,
           SetItems(j, from, to)
    PROVE  objects' \in [Objects -> ObjectStates]
BY DEF SetItems, JobStoreTypeOK

\* The rows of `jobs` are typed, and a transaction creates or deletes none of them.
StoreKept == /\ JobStoreTypeOK'
             /\ \A k \in JobIds : jobs'[k].state = "absent" <=> jobs[k].state = "absent"

LEMMA RowTransactions ==
    ASSUME JobStoreTypeOK, NEW j \in JobIds, jobs[j].state # "absent",
           \/ StartJob(j) \/ CompleteJob(j) \/ RetryJob(j) \/ RequeueJob(j)
           \/ PauseJob(j) \/ CancelJob(j)
    PROVE  StoreKept
<1> USE DEF StoreKept
<1>0. jobs[j].attempts \in Nat
  BY DEF JobStoreTypeOK, JobRow
<1>1. CASE StartJob(j)
  <2>1. jobs[j].attempts + 1 \in Nat
    BY <1>0
  <2> QED BY <1>1, <2>1, SetJobRow, SetItemsStates
          DEF StartJob, JobStoreTypeOK, JobStates, ObjectStates
<1>2. CASE CompleteJob(j)
  BY <1>0, <1>2, SetJobRow DEF CompleteJob, JobStoreTypeOK, JobStates
<1>3. CASE RetryJob(j)
  BY <1>3, SetJobRow, SetItemsStates
     DEF RetryJob, JobStoreTypeOK, JobStates, ObjectStates
<1>4. CASE RequeueJob(j)
  BY <1>0, <1>4, SetJobRow, SetItemsStates
     DEF RequeueJob, JobStoreTypeOK, JobStates, ObjectStates
<1>5. CASE PauseJob(j)
  <2> DEFINE kept == IF jobs[j].state = "copying" /\ jobs[j].attempts > 0
                     THEN jobs[j].attempts - 1 ELSE jobs[j].attempts
  <2>1. kept \in Nat
    BY <1>0
  <2> QED BY <1>5, <2>1, SetJobRow, SetItemsStates
          DEF PauseJob, JobStoreTypeOK, JobStates, ObjectStates
<1>6. CASE CancelJob(j)
  BY <1>0, <1>6, SetJobRow, SetItemsStates
     DEF CancelJob, JobStoreTypeOK, JobStates, ObjectStates
<1> QED BY <1>1, <1>2, <1>3, <1>4, <1>5, <1>6

LEMMA FailTransaction ==
    ASSUME JobStoreTypeOK, NEW j \in JobIds, jobs[j].state # "absent",
           NEW retryable, FailJob(j, retryable)
    PROVE  StoreKept
<1>1. jobs[j].attempts \in Nat
  BY DEF JobStoreTypeOK, JobRow
<1> QED BY <1>1, SetJobRow, SetItemsStates
        DEF FailJob, StoreKept, JobStoreTypeOK, JobStates, ObjectStates

LEMMA TableTransactions ==
    ASSUME JobStoreTypeOK, PromoteDueRetries \/ RecoverInterrupted
    PROVE  StoreKept
BY DEF StoreKept, JobStoreTypeOK, PromoteDueRetries, RecoverInterrupted, Row, JobRow,
       JobStates, ObjectStates

LEMMA ItemTransaction ==
    ASSUME JobStoreTypeOK, NEW o \in Objects, CompleteObject(o)
    PROVE  StoreKept
BY DEF StoreKept, JobStoreTypeOK, CompleteObject, ObjectStates

LEMMA NewRow ==
    ASSUME JobStoreTypeOK, NEW j \in JobIds, NEW p \in Payloads, CreateJob(j, p)
    PROVE  /\ JobStoreTypeOK'
           /\ \A k \in JobIds : jobs[k].state # "absent" => jobs'[k].state # "absent"
BY DEF JobStoreTypeOK, CreateJob, IsNextId, JobRow, JobStates, ObjectStates

-----------------------------------------------------------------------------
(* Type correctness.                                                       *)

LEMMA InitTyped == Init => TypeInv
<1> SUFFICES ASSUME Init PROVE TypeInv
  OBVIOUS
<1>1. JobStoreTypeOK
  BY DEF Init, JobStoreTypeOK, JobRow, NoJobRow, JobStates, ObjectStates
<1>2. src \in [Paths -> Content]
  <2>1. ASSUME NEW p \in Paths, \E o \in Objects \ Late : PathOf[o] = p
        PROVE  (CHOOSE o \in Objects \ Late : PathOf[o] = p) \in Objects
    BY <2>1
  <2> QED BY <2>1 DEF Init, Content
<1>3. stage \in [JobIds -> [Paths -> Content]] /\ dest \in [Paths -> Content]
  BY DEF Init, Empty, Content
<1>4. asked \in 0..MaxRequests /\ crashes \in 0..MaxCrashes /\ faults \in 0..MaxFaults
  BY BoundsAssumption DEF Init
<1>5. IdsExist
  BY DEF Init, IdsExist, IdleRequest
<1> QED BY <1>1, <1>2, <1>3, <1>4, <1>5
        DEF Init, TypeInv, TypeOK, PCs, NotPicked, Inactive, IdleRequest, NoJob

LEMMA ItemsTyped ==
    ASSUME JobStoreTypeOK, NEW j \in JobIds
    PROVE  Items(j) \subseteq Objects
BY ItemsOfAssumption DEF Items, JobStoreTypeOK

LEMMA ItemPathsTyped ==
    ASSUME JobStoreTypeOK, picked.job \in JobIds
    PROVE  ItemPaths \subseteq Paths
BY ItemsTyped, PathsAssumption DEF ItemPaths, Job

LEMMA TreeTyped ==
    ASSUME JobStoreTypeOK, picked.job \in JobIds, jobs[picked.job].state # "absent"
    PROVE  Tree \subseteq Paths
BY TreesAssumption DEF Tree, Payload, Job, JobStoreTypeOK

\* A step of the worker that leaves the tables alone.
LEMMA QuietWorkerStepTyped ==
    ASSUME TypeInv,
           \/ QueueEmpty \/ PickJob \/ StartFails \/ BeginActive \/ CleanStage
           \/ Transferring \/ StartCopy \/ CopyAgain \/ CopyDone \/ Finalizing \/ VerifyStage
           \/ StartCommit \/ Committed \/ VerifyFinal \/ Recorded \/ StartRelease
           \/ Released \/ RcloneFails \/ StoreFails \/ Unwind
           \/ DiscardControlAction \/ ConsumeControlAction \/ SettleLost \/ SweepStage
           \/ \E p \in Paths : CopyFile(p) \/ CommitFile(p) \/ RemoveSource(p)
    PROVE  TypeInv'
<1> USE DEF TypeInv, TypeOK, IdsExist, storeVars, controlVars, files, bounds, JobStoreTypeOK,
        PCs, TransferSteps, RcloneSteps, Content, NotPicked, Inactive, IdleRequest, NoJob,
        Job, Goto, Rest
<1>1. CASE QueueEmpty
  BY <1>1 DEF QueueEmpty
<1>2. CASE PickJob
  BY <1>2 DEF PickJob, IsNextQueued, JobRow
<1>3. CASE StartFails
  BY <1>3, BoundsAssumption DEF StartFails, OneFault
<1>4. CASE BeginActive
  BY <1>4 DEF BeginActive
<1>5. CASE CleanStage
  BY <1>5 DEF CleanStage, Empty
<1>6. CASE Transferring
  BY <1>6 DEF Transferring
<1>7. CASE StartCopy
  BY <1>7, TreeTyped DEF StartCopy, Present
<1>7a. CASE CopyAgain
  BY <1>7a, TreeTyped DEF CopyAgain, Present
<1>8. CASE CopyDone
  BY <1>8 DEF CopyDone, Copying
<1>9. CASE Finalizing
  BY <1>9 DEF Finalizing
<1>10. CASE VerifyStage
  BY <1>10 DEF VerifyStage
<1>11. CASE StartCommit
  BY <1>11, TreeTyped DEF StartCommit, Present
<1>12. CASE Committed
  BY <1>12, ItemPathsTyped DEF Committed
<1>13. CASE VerifyFinal
  BY <1>13, ItemPathsTyped DEF VerifyFinal
<1>14. CASE Recorded
  BY <1>14 DEF Recorded
<1>15. CASE StartRelease
  BY <1>15, ItemPathsTyped, TreeTyped DEF StartRelease, Present
<1>16. CASE Released
  BY <1>16 DEF Released
<1>17. CASE RcloneFails
  <2>1. stage' \in [JobIds -> [Paths -> Content]] /\ UNCHANGED <<src, dest, library>>
    BY <1>17 DEF RcloneFails, PurgeStage
  <2> QED BY <1>17, <2>1 DEF RcloneFails
<1>18. CASE StoreFails
  BY <1>18, BoundsAssumption DEF StoreFails, OneFault
<1>19. CASE Unwind
  BY <1>19 DEF Unwind
<1>20. CASE DiscardControlAction
  BY <1>20 DEF DiscardControlAction
<1>21. CASE ConsumeControlAction
  BY <1>21 DEF ConsumeControlAction
<1>22. CASE SettleLost
  BY <1>22, BoundsAssumption DEF SettleLost, OneFault
<1>23. CASE SweepStage
  BY <1>23 DEF SweepStage, PurgeStage
<1>24. ASSUME NEW p \in Paths, CopyFile(p) \/ CommitFile(p) \/ RemoveSource(p)
      PROVE  TypeInv'
  <2>1. CASE CopyFile(p)
    BY <2>1 DEF CopyFile, Copying
  <2>2. CASE CommitFile(p)
    BY <2>2 DEF CommitFile
  <2>3. CASE RemoveSource(p)
    BY <2>3 DEF RemoveSource
  <2> QED BY <1>24, <2>1, <2>2, <2>3
<1> QED BY <1>1, <1>2, <1>3, <1>4, <1>5, <1>6, <1>7, <1>7a, <1>8, <1>9, <1>10, <1>11, <1>12, <1>13, <1>14, <1>15, <1>16, <1>17, <1>18, <1>19, <1>20, <1>21, <1>22, <1>23, <1>24

LEMMA KeptTyped ==
    ASSUME JobStoreTypeOK, UNCHANGED storeVars
    PROVE  StoreKept
BY DEF StoreKept, JobStoreTypeOK, storeVars

\* What the worker changes besides the tables when it runs a transaction.
LEMMA TypedAfterTransaction ==
    ASSUME TypeInv, StoreKept, pc \notin {"poll", "pick"},
           \/ /\ pc' \in PCs \ {"poll", "pick"} /\ UNCHANGED picked
              /\ todo' \in {todo} \cup SUBSET todo
           \/ pc' = "poll" /\ picked' = NotPicked /\ todo' = {},
           UNCHANGED <<active, controlActions, ctxDone, request>>,
           UNCHANGED <<src, stage, dest, library>>,
           UNCHANGED <<asked, crashes>>, faults' = faults \/ OneFault
    PROVE  TypeInv'
<1>1. IdsExist'
  BY DEF TypeInv, IdsExist, StoreKept, NotPicked
<1>2. faults' \in 0..MaxFaults
  BY BoundsAssumption DEF TypeInv, TypeOK, OneFault
<1>3. pc' \in PCs /\ picked' \in [job : JobIds \cup {NoJob}, attempts : Nat] /\ todo' \subseteq Paths
  BY DEF TypeInv, TypeOK, PCs, NotPicked, NoJob
<1> QED BY <1>1, <1>2, <1>3 DEF TypeInv, TypeOK, StoreKept

\* A step of the worker that is, or carries, a database transaction.
LEMMA StoringWorkerStepTyped ==
    ASSUME TypeInv,
           \/ PollRetries \/ PickedJobUnusable \/ StartAttempt \/ Finish
           \/ SettlePause \/ SettleCancel \/ SettleFail
           \/ \E o \in Objects : RecordItem(o)
    PROVE  TypeInv'
<1>0. JobStoreTypeOK
  BY DEF TypeInv, TypeOK
<1>1. pc # "poll" /\ pc # "pick" => Job \in JobIds /\ jobs[Job].state # "absent"
  BY DEF TypeInv, IdsExist, Job
<1> USE DEF PCs, TransferSteps, RcloneSteps
<1>2. CASE PollRetries
  BY <1>0, <1>2, TableTransactions
     DEF PollRetries, TypeInv, TypeOK, IdsExist, StoreKept, controlVars, files, bounds, Goto
<1>3. CASE PickedJobUnusable
  <2>1. StoreKept
    BY <1>0, <1>1, <1>3, FailTransaction DEF PickedJobUnusable
  <2> QED BY <1>3, <2>1, TypedAfterTransaction
          DEF PickedJobUnusable, OneFault, controlVars, files, Rest
<1>4. CASE StartAttempt
  <2>1. StoreKept
    BY <1>0, <1>1, <1>4, RowTransactions DEF StartAttempt
  <2> QED BY <1>4, <2>1, TypedAfterTransaction
          DEF StartAttempt, controlVars, files, bounds, Goto, Rest
<1>5. CASE Finish
  <2>1. StoreKept
    BY <1>0, <1>1, <1>5, RowTransactions DEF Finish
  <2> QED BY <1>5, <2>1, TypedAfterTransaction
          DEF Finish, controlVars, files, bounds, Goto, Rest
<1>6. CASE SettlePause
  <2>1. StoreKept
    BY <1>0, <1>1, <1>6, RowTransactions, KeptTyped DEF SettlePause
  <2> QED BY <1>6, <2>1, TypedAfterTransaction
          DEF SettlePause, controlVars, files, bounds, Goto, Rest
<1>7. CASE SettleCancel
  <2>1. StoreKept
    BY <1>0, <1>1, <1>7, RowTransactions, KeptTyped DEF SettleCancel
  <2> QED BY <1>7, <2>1, TypedAfterTransaction
          DEF SettleCancel, controlVars, files, bounds, Goto, Rest
<1>8. CASE SettleFail
  <2>1. StoreKept
    BY <1>0, <1>1, <1>8, FailTransaction DEF SettleFail
  <2> QED BY <1>8, <2>1, TypedAfterTransaction
          DEF SettleFail, controlVars, files, bounds, Goto, Rest
<1>9. ASSUME NEW o \in Objects, RecordItem(o)
      PROVE  TypeInv'
  <2>1. StoreKept
    BY <1>0, <1>9, ItemTransaction DEF RecordItem
  <2> QED BY <1>9, <2>1, TypedAfterTransaction
          DEF RecordItem, controlVars, files, bounds, Goto
<1> QED BY <1>2, <1>3, <1>4, <1>5, <1>6, <1>7, <1>8, <1>9

LEMMA HandlerStepTyped ==
    ASSUME TypeInv, NEW c \in Clients,
           \/ HandlerStep(c)
           \/ \E j \in JobIds, action \in Actions :
                 AskActive(c, j, action) \/ AskStore(c, j, action)
    PROVE  TypeInv'
<1> USE DEF TypeInv, TypeOK, IdsExist, workerVars, files, bounds, IdleRequest, NoJob, StoreKept
<1>1. ASSUME NEW j \in JobIds, NEW action \in Actions, AskActive(c, j, action)
      PROVE  TypeInv'
  BY <1>1, KeptTyped, BoundsAssumption DEF AskActive, Ask
<1>2. ASSUME NEW j \in JobIds, NEW action \in Actions, AskStore(c, j, action)
      PROVE  TypeInv'
  BY <1>2, KeptTyped, BoundsAssumption DEF AskStore, Ask
<1>3. CASE CallCancel(c)
  BY <1>3, KeptTyped DEF CallCancel
<1>4. CASE CallStore(c)
  <2> DEFINE j == request[c].job
  <2>1. j \in JobIds /\ jobs[j].state # "absent"
    BY <1>4 DEF CallStore
  <2>2. RetryJob(j) \/ RequeueJob(j) \/ PauseJob(j) \/ CancelJob(j)
    BY <1>4 DEF CallStore
  <2>3. StoreKept
    BY <2>1, <2>2, RowTransactions
  <2>4. request' = [request EXCEPT ![c] = IdleRequest]
        \/ request' = [request EXCEPT ![c] = [step |-> "purge", job |-> j, action |-> "none"]]
    BY <1>4 DEF CallStore
  <2>5. UNCHANGED <<workerVars, active, controlActions, ctxDone, files, bounds>>
    BY <1>4 DEF CallStore
  <2>6. CASE request' = [request EXCEPT ![c] = IdleRequest]
    BY <2>3, <2>5, <2>6
  <2>7. CASE request' = [request EXCEPT ![c] = [step |-> "purge", job |-> j, action |-> "none"]]
    BY <2>1, <2>3, <2>5, <2>7
  <2> QED BY <2>4, <2>6, <2>7
<1>5. CASE StoreRefuses(c)
  BY <1>5, KeptTyped DEF StoreRefuses
<1>6. CASE PurgeCancelled(c)
  BY <1>6, KeptTyped DEF PurgeCancelled, PurgeStage, Content
<1> QED BY <1>1, <1>2, <1>3, <1>4, <1>5, <1>6 DEF HandlerStep

LEMMA EnvironmentStepTyped ==
    ASSUME TypeInv,
           \/ \E j \in JobIds, p \in Payloads : Enqueue(j, p)
           \/ \E j \in JobIds : RetryDue(j)
           \/ \E p \in Paths : Take(p)
           \/ \E o \in Objects : Arrive(o)
           \/ Restart
    PROVE  TypeInv'
<1> USE DEF TypeInv, TypeOK, IdsExist, workerVars, controlVars, files, bounds, StoreKept
<1>1. ASSUME NEW j \in JobIds, NEW p \in Payloads, Enqueue(j, p)
      PROVE  TypeInv'
  BY <1>1, NewRow DEF Enqueue
<1>2. ASSUME NEW j \in JobIds, RetryDue(j)
      PROVE  TypeInv'
  <2>1. jobs[j].state # "absent"
    BY <1>2 DEF RetryDue
  <2>2. StoreKept
    BY <1>2, <2>1, SetJobRow DEF RetryDue, JobStoreTypeOK, JobRow
  <2> QED BY <1>2, <2>2 DEF RetryDue
<1>3. ASSUME NEW p \in Paths, Take(p)
      PROVE  TypeInv'
  BY <1>3, KeptTyped DEF Take, Content
<1>4. ASSUME NEW o \in Objects, Arrive(o)
      PROVE  TypeInv'
  <2>1. StoreKept
    BY <1>4 DEF Arrive, JobStoreTypeOK, ObjectStates
  <2> QED BY <1>4, <2>1, PathsAssumption DEF Arrive, Content
<1>5. CASE Restart
  <2>1. StoreKept
    BY <1>5, TableTransactions DEF Restart
  <2>2. crashes' \in 0..MaxCrashes
    BY <1>5, BoundsAssumption DEF Restart
  <2> QED BY <1>5, <2>1, <2>2 DEF Restart, Rest, NotPicked, Inactive, IdleRequest, NoJob, PCs
<1> QED BY <1>1, <1>2, <1>3, <1>4, <1>5

LEMMA StepTyped == TypeInv /\ [Next]_vars => TypeInv'
<1> SUFFICES ASSUME TypeInv, [Next]_vars PROVE TypeInv'
  OBVIOUS
<1>1. CASE WorkerStep
  BY <1>1, QuietWorkerStepTyped, StoringWorkerStepTyped DEF WorkerStep
<1>2. CASE UNCHANGED vars
  BY <1>2 DEF vars, TypeInv, TypeOK, IdsExist, JobStoreTypeOK
<1> QED BY <1>1, <1>2, HandlerStepTyped, EnvironmentStepTyped DEF Next

\* Every reachable state is well typed.
THEOREM TypeCorrect == Spec => []TypeOK
<1>1. TypeInv => TypeOK
  BY DEF TypeInv
<1> QED BY <1>1, InitTyped, StepTyped, PTL DEF Spec

-----------------------------------------------------------------------------
(* The invariants the safety theorems need beside the types.               *)

\* The worker's job is one it may still settle: only its own last steps end it,
\* the handlers can do no more than pause, resume or cancel it meanwhile.
JobStillOpen ==
    pc \notin {"poll", "pick", "return_ok", "discard", "sweep"} =>
        jobs[Job].state \in {"queued", "copying", "paused", "cancelled"}

\* What the worker remembers of the attempt counter bounds the counter.
AttemptsInv ==
    /\ \A j \in JobIds :
          /\ jobs[j].attempts <= 1 + RetryLimit + crashes
          /\ jobs[j].state \in {"queued", "retry_wait", "paused"} =>
                jobs[j].attempts <= RetryLimit + crashes
    /\ pc \notin {"poll", "pick"} =>
          /\ picked.attempts <= RetryLimit + crashes
          /\ jobs[Job].attempts <= picked.attempts + 1
          /\ pc = "start" => jobs[Job].attempts <= picked.attempts

\* Without a database error the worker leaves `copying` behind before it rests.
CopyingInv ==
    \A j \in JobIds : jobs[j].state = "copying" /\ faults = 0 =>
        /\ picked.job = j
        /\ pc \notin {"poll", "pick", "start", "return_ok", "discard", "sweep"}

\* Each job has its own payload, so a transaction on one leaves the items of all
\* others alone.
OwnPayloads ==
    \A j, k \in JobIds : j # k /\ jobs[j].state # "absent" /\ jobs[k].state # "absent" =>
        jobs[j].payload # jobs[k].payload

\* What has been recorded stays recorded until the job is complete.
RecordedInv ==
    /\ pc = "record" => \A o \in Items(Job) : PathOf[o] \in todo \/ objects[o] = "done"
    /\ pc \in {"release", "removing", "finish"} =>
          \A o \in Items(Job) : objects[o] = "done"

\* The part of the inductive invariant about job rows and the control marks.
RowsInv == /\ ControlMarksAreCurrent
           /\ RetryScheduled
           /\ JobStillOpen
           /\ AttemptsInv
           /\ CopyingInv

LEMMA InitRows == Init => RowsInv
BY RuleAssumption, BoundsAssumption
   DEF Init, RowsInv, ControlMarksAreCurrent, RetryScheduled, JobStillOpen, AttemptsInv,
       CopyingInv, NoJobRow, NotPicked, Inactive, InTransfer, TransferSteps, RcloneSteps

LEMMA QuietWorkerStepRows ==
    ASSUME TypeInv, RowsInv,
           \/ QueueEmpty \/ PickJob \/ StartFails \/ BeginActive \/ CleanStage
           \/ Transferring \/ StartCopy \/ CopyAgain \/ CopyDone \/ Finalizing \/ VerifyStage
           \/ StartCommit \/ Committed \/ VerifyFinal \/ Recorded \/ StartRelease
           \/ Released \/ RcloneFails \/ StoreFails \/ Unwind
           \/ DiscardControlAction \/ ConsumeControlAction \/ SettleLost \/ SweepStage
           \/ \E p \in Paths : CopyFile(p) \/ CommitFile(p) \/ RemoveSource(p)
    PROVE  RowsInv'
<1> USE JobIdsAssumption, RuleAssumption, BoundsAssumption
    DEF TypeInv, TypeOK, IdsExist, JobStoreTypeOK, JobRow, RowsInv, ControlMarksAreCurrent,
        RetryScheduled, JobStillOpen, AttemptsInv, CopyingInv, InTransfer, TransferSteps,
        RcloneSteps, storeVars, controlVars, files, bounds, NotPicked, Inactive, NoJob, Job,
        Goto, Rest
<1>1. CASE QueueEmpty
  BY <1>1 DEF QueueEmpty
<1>2. CASE PickJob
  <2>1. PICK j \in JobIds : /\ IsNextQueued(j)
                           /\ picked' = [job |-> j, attempts |-> jobs[j].attempts]
    BY <1>2 DEF PickJob
  <2>2. jobs[j].state = "queued" /\ jobs[j].attempts \in Nat
    BY <2>1 DEF IsNextQueued
  <2>3. pc = "pick" /\ pc' = "start" /\ UNCHANGED <<storeVars, controlVars, bounds>>
    BY <1>2 DEF PickJob
  <2>4. ControlMarksAreCurrent' /\ RetryScheduled'
    BY <2>3
  <2>5. JobStillOpen'
    <3>1. jobs[Job].state' = "queued"
      BY <2>1, <2>2, <2>3
    <3> QED BY <3>1
  <2>6. AttemptsInv'
    <3>1. Job' = j /\ jobs' = jobs /\ picked'.attempts = jobs[j].attempts
      BY <2>1, <2>3
    <3>2. \A i \in JobIds : /\ jobs[i].attempts <= 1 + RetryLimit + crashes
                           /\ jobs[i].state \in {"queued", "retry_wait", "paused"}
                                => jobs[i].attempts <= RetryLimit + crashes
      OBVIOUS
    <3> QED BY <2>1, <2>2, <2>3, <3>1, <3>2
  <2>7. CopyingInv'
    BY <2>3
  <2> QED BY <2>4, <2>5, <2>6, <2>7
<1>3. CASE StartFails
  <2>1. faults' # 0
    BY <1>3 DEF StartFails, OneFault
  <2>2. UNCHANGED <<storeVars, controlVars, crashes>>
    BY <1>3 DEF StartFails, OneFault
  <2>3. pc = "start" /\ pc' = "consume" /\ UNCHANGED picked
    BY <1>3 DEF StartFails
  <2>4. ControlMarksAreCurrent' /\ RetryScheduled'
    BY <2>2, <2>3
  <2>5. JobStillOpen'
    BY <2>2, <2>3
  <2>6. AttemptsInv'
    <3>1. /\ jobs[Job].attempts \in Nat /\ picked.attempts \in Nat
          /\ jobs[Job].attempts <= picked.attempts
      BY <2>3
    <3> QED BY <2>2, <2>3, <3>1
  <2>7. CopyingInv'
    BY <2>1
  <2> QED BY <2>4, <2>5, <2>6, <2>7
<1>4. CASE BeginActive
  BY <1>4 DEF BeginActive
<1>5. CASE CleanStage
  BY <1>5 DEF CleanStage
<1>6. CASE Transferring
  BY <1>6 DEF Transferring
<1>7. CASE StartCopy
  BY <1>7 DEF StartCopy
<1>7a. CASE CopyAgain
  BY <1>7a DEF CopyAgain
<1>8. CASE CopyDone
  BY <1>8 DEF CopyDone, Copying
<1>9. CASE Finalizing
  BY <1>9 DEF Finalizing
<1>10. CASE VerifyStage
  BY <1>10 DEF VerifyStage
<1>11. CASE StartCommit
  BY <1>11 DEF StartCommit
<1>12. CASE Committed
  BY <1>12 DEF Committed
<1>13. CASE VerifyFinal
  BY <1>13 DEF VerifyFinal
<1>14. CASE Recorded
  BY <1>14 DEF Recorded
<1>15. CASE StartRelease
  BY <1>15 DEF StartRelease
<1>16. CASE Released
  BY <1>16 DEF Released
<1>17. CASE RcloneFails
  BY <1>17 DEF RcloneFails
<1>18. CASE StoreFails
  BY <1>18 DEF StoreFails, OneFault
<1>19. CASE Unwind
  BY <1>19 DEF Unwind
<1>20. CASE DiscardControlAction
  BY <1>20 DEF DiscardControlAction
<1>21. CASE ConsumeControlAction
  BY <1>21 DEF ConsumeControlAction
<1>22. CASE SettleLost
  BY <1>22 DEF SettleLost, OneFault
<1>23. CASE SweepStage
  BY <1>23 DEF SweepStage
<1>24. ASSUME NEW p \in Paths, CopyFile(p) \/ CommitFile(p) \/ RemoveSource(p)
      PROVE  RowsInv'
  BY <1>24 DEF CopyFile, CommitFile, RemoveSource, Copying
<1> QED BY <1>1, <1>2, <1>3, <1>4, <1>5, <1>6, <1>7, <1>7a, <1>8, <1>9, <1>10, <1>11, <1>12, <1>13, <1>14, <1>15, <1>16, <1>17, <1>18, <1>19, <1>20, <1>21, <1>22, <1>23, <1>24

LEMMA StoringWorkerStepRows ==
    ASSUME TypeInv, RowsInv,
           \/ PollRetries \/ PickedJobUnusable \/ StartAttempt \/ Finish
           \/ SettlePause \/ SettleCancel \/ SettleFail
           \/ \E o \in Objects : RecordItem(o)
    PROVE  RowsInv'
<1> USE JobIdsAssumption, RuleAssumption, BoundsAssumption
    DEF TypeInv, TypeOK, IdsExist, JobStoreTypeOK, JobRow, RowsInv, ControlMarksAreCurrent,
        RetryScheduled, JobStillOpen, AttemptsInv, CopyingInv, InTransfer, TransferSteps,
        RcloneSteps, storeVars, controlVars, files, bounds, NotPicked, Inactive, NoJob, Job,
        Goto, Rest, SetJob, Row
<1>1. CASE PollRetries
  BY <1>1 DEF PollRetries, PromoteDueRetries
<1>2. CASE PickedJobUnusable
  <2>1. faults' # 0 /\ crashes' = crashes
    BY <1>2 DEF PickedJobUnusable, OneFault
  <2>2. SetJob(Job, "failed", jobs[Job].attempts, "none")
    BY <1>2 DEF PickedJobUnusable, FailJob
  <2>3. pc = "start" /\ pc' = "poll" /\ UNCHANGED controlVars
    BY <1>2 DEF PickedJobUnusable
  <2> QED BY <2>1, <2>2, <2>3
<1>3. CASE StartAttempt
  <2>1. SetJob(Job, "copying", jobs[Job].attempts + 1, "none")
    BY <1>3 DEF StartAttempt, StartJob
  <2>2. pc = "start" /\ pc' = "begin" /\ UNCHANGED <<picked, controlVars, bounds>>
    BY <1>3 DEF StartAttempt
  <2>3. /\ Job \in JobIds
        /\ jobs[Job].attempts \in Nat /\ picked.attempts \in Nat
        /\ jobs[Job].attempts <= picked.attempts
    BY <2>2
  <2>4. ControlMarksAreCurrent' /\ RetryScheduled' /\ JobStillOpen'
    BY <2>1, <2>2, <2>3
  <2>5. AttemptsInv'
    BY <2>1, <2>2, <2>3
  <2>6. CopyingInv'
    BY <2>1, <2>2, <2>3
  <2> QED BY <2>4, <2>5, <2>6
<1>4. CASE Finish
  BY <1>4 DEF Finish, CompleteJob
<1>5. CASE SettlePause
  BY <1>5 DEF SettlePause, PauseJob, Pausable
<1>6. CASE SettleCancel
  BY <1>6 DEF SettleCancel, CancelJob, Cancellable, Pausable
<1>7. CASE SettleFail
  BY <1>7 DEF SettleFail, FailJob
<1>8. ASSUME NEW o \in Objects, RecordItem(o)
      PROVE  RowsInv'
  BY <1>8 DEF RecordItem, CompleteObject
<1> QED BY <1>1, <1>2, <1>3, <1>4, <1>5, <1>6, <1>7, <1>8

LEMMA HandlerStepRows ==
    ASSUME TypeInv, RowsInv, NEW c \in Clients,
           \/ HandlerStep(c)
           \/ \E j \in JobIds, action \in Actions :
                 AskActive(c, j, action) \/ AskStore(c, j, action)
    PROVE  RowsInv'
<1> USE JobIdsAssumption, RuleAssumption, BoundsAssumption
    DEF TypeInv, TypeOK, IdsExist, JobStoreTypeOK, JobRow, RowsInv, ControlMarksAreCurrent,
        RetryScheduled, JobStillOpen, AttemptsInv, CopyingInv, InTransfer, TransferSteps,
        RcloneSteps, storeVars, workerVars, files, bounds, NoJob, Job
<1>1. ASSUME NEW j \in JobIds, NEW action \in Actions, AskActive(c, j, action)
      PROVE  RowsInv'
  BY <1>1 DEF AskActive, Ask
<1>2. ASSUME NEW j \in JobIds, NEW action \in Actions, AskStore(c, j, action)
      PROVE  RowsInv'
  BY <1>2 DEF AskStore, Ask
<1>3. CASE CallCancel(c) \/ StoreRefuses(c) \/ PurgeCancelled(c)
  BY <1>3 DEF CallCancel, StoreRefuses, PurgeCancelled
<1>4. CASE CallStore(c)
  <2> DEFINE j == request[c].job
  <2>1. j \in JobIds /\ jobs[j].attempts \in Nat
    BY <1>4 DEF CallStore
  <2>2. UNCHANGED <<pc, picked, active, controlActions, crashes, faults>>
    BY <1>4 DEF CallStore
  <2>3. CASE RetryJob(j)
    BY <2>1, <2>2, <2>3 DEF RetryJob, Retryable, SetJob, Row
  <2>4. CASE RequeueJob(j)
    BY <2>1, <2>2, <2>4 DEF RequeueJob, SetJob, Row
  <2>5. CASE PauseJob(j)
    BY <2>1, <2>2, <2>5 DEF PauseJob, Pausable, SetJob, Row
  <2>6. CASE CancelJob(j)
    BY <2>1, <2>2, <2>6 DEF CancelJob, Cancellable, Pausable, SetJob, Row
  <2> QED BY <1>4, <2>3, <2>4, <2>5, <2>6 DEF CallStore
<1> QED BY <1>1, <1>2, <1>3, <1>4 DEF HandlerStep

LEMMA EnvironmentStepRows ==
    ASSUME TypeInv, RowsInv,
           \/ \E j \in JobIds, p \in Payloads : Enqueue(j, p)
           \/ \E j \in JobIds : RetryDue(j)
           \/ \E p \in Paths : Take(p)
           \/ \E o \in Objects : Arrive(o)
           \/ Restart
    PROVE  RowsInv'
<1> USE JobIdsAssumption, RuleAssumption, BoundsAssumption
    DEF TypeInv, TypeOK, IdsExist, JobStoreTypeOK, JobRow, RowsInv, ControlMarksAreCurrent,
        RetryScheduled, JobStillOpen, AttemptsInv, CopyingInv, InTransfer, TransferSteps,
        RcloneSteps, storeVars, workerVars, controlVars, files, bounds, NotPicked, Inactive,
        NoJob, Job
<1>1. ASSUME NEW j \in JobIds, NEW p \in Payloads, Enqueue(j, p)
      PROVE  RowsInv'
  BY <1>1 DEF Enqueue, CreateJob, IsNextId
<1>2. ASSUME NEW j \in JobIds, RetryDue(j)
      PROVE  RowsInv'
  BY <1>2 DEF RetryDue, SetJob, Row
<1>3. ASSUME NEW p \in Paths, Take(p)
      PROVE  RowsInv'
  BY <1>3 DEF Take
<1>4. ASSUME NEW o \in Objects, Arrive(o)
      PROVE  RowsInv'
  BY <1>4 DEF Arrive
<1>5. CASE Restart
  BY <1>5 DEF Restart, Rest, RecoverInterrupted, Row
<1> QED BY <1>1, <1>2, <1>3, <1>4, <1>5

LEMMA StepRows == TypeInv /\ RowsInv /\ [Next]_vars => RowsInv'
<1> SUFFICES ASSUME TypeInv, RowsInv, [Next]_vars PROVE RowsInv'
  OBVIOUS
<1>1. CASE WorkerStep
  BY <1>1, QuietWorkerStepRows, StoringWorkerStepRows DEF WorkerStep
<1>2. CASE UNCHANGED vars
  BY <1>2 DEF vars, RowsInv, ControlMarksAreCurrent, RetryScheduled, JobStillOpen,
              AttemptsInv, CopyingInv, Job
<1> QED BY <1>1, <1>2, HandlerStepRows, EnvironmentStepRows DEF Next

LEMMA RowsInvariant == Spec => [](TypeInv /\ RowsInv)
BY InitTyped, StepTyped, InitRows, StepRows, PTL DEF Spec

\* A pause or cancel given to a running attempt never reaches another attempt.
THEOREM ControlReachesItsAttempt == Spec => []ControlMarksAreCurrent
<1>1. RowsInv => ControlMarksAreCurrent
  BY DEF RowsInv
<1> QED BY <1>1, RowsInvariant, PTL

\* No job waits for a retry that is not scheduled, no other job has one scheduled.
THEOREM RetriesAreScheduled == Spec => []RetryScheduled
<1>1. RowsInv => RetryScheduled
  BY DEF RowsInv
<1> QED BY <1>1, RowsInvariant, PTL

\* The attempts of a job are bounded by the retry limit and the restarts.
THEOREM RetriesAreBounded == Spec => []AttemptsBounded
<1>1. RowsInv => AttemptsBounded
  BY DEF RowsInv, AttemptsInv, AttemptsBounded
<1> QED BY <1>1, RowsInvariant, PTL

\* Only a lost database transaction leaves a job `copying` with no worker on it.
THEOREM CopyingHasWorker == Spec => []CopyingIsWorked
<1>1. TypeInv /\ RowsInv => CopyingIsWorked
  BY BoundsAssumption DEF TypeInv, TypeOK, RowsInv, CopyingInv, CopyingIsWorked
<1> QED BY <1>1, RowsInvariant, PTL

-----------------------------------------------------------------------------
(* The two tables agree.                                                   *)

ItemsInv == OwnPayloads /\ ItemsMatchJob /\ RecordedInv

LEMMA DisjointItems ==
    ASSUME JobStoreTypeOK, OwnPayloads, NEW j \in JobIds, NEW k \in JobIds, j # k
    PROVE  Items(j) \cap Items(k) = {}
<1> SUFFICES ASSUME NEW o \in Items(j), o \in Items(k) PROVE FALSE
  OBVIOUS
<1>1. jobs[j].state # "absent" /\ jobs[k].state # "absent"
  BY DEF Items
<1>2. PICK p \in Payloads, q \in Payloads : p # q /\ o \in ItemsOf[p] /\ o \in ItemsOf[q]
  BY <1>1 DEF Items, OwnPayloads, JobStoreTypeOK
<1> QED BY <1>2, TreesAssumption

\* Which items a job has does not depend on the state of its row.
LEMMA ItemsAfterSetJob ==
    ASSUME JobStoreTypeOK, OwnPayloads,
           NEW j \in JobIds, jobs[j].state # "absent",
           NEW state \in JobStates \ {"absent"}, NEW attempts \in Nat,
           NEW retry \in {"none", "waiting", "due"}, SetJob(j, state, attempts, retry)
    PROVE  /\ \A k \in JobIds : Items(k)' = Items(k)
           /\ OwnPayloads'
           /\ jobs'[j].state = state
           /\ \A k \in JobIds \ {j} : jobs'[k].state = jobs[k].state
<1>1. /\ \A k \in JobIds : jobs'[k].payload = jobs[k].payload
      /\ \A k \in JobIds : jobs'[k].state # "absent" <=> jobs[k].state # "absent"
      /\ jobs'[j].state = state
      /\ \A k \in JobIds \ {j} : jobs'[k] = jobs[k]
  BY SetJobRow
<1>2. \A k \in JobIds : Items(k)' = Items(k)
  BY <1>1 DEF Items
<1>3. OwnPayloads'
  BY <1>1 DEF OwnPayloads
<1> QED BY <1>1, <1>2, <1>3

LEMMA ObjectsAfterSetItems ==
    ASSUME JobStoreTypeOK, OwnPayloads, NEW j \in JobIds, NEW from, NEW to,
           SetItems(j, from, to)
    PROVE  /\ \A o \in Items(j) :
                 objects'[o] = IF objects[o] \in from THEN to ELSE objects[o]
           /\ \A k \in JobIds \ {j} : \A o \in Items(k) : objects'[o] = objects[o]
<1>1. \A o \in Items(j) : objects'[o] = IF objects[o] \in from THEN to ELSE objects[o]
  BY ItemsTyped DEF SetItems
<1>2. ASSUME NEW k \in JobIds \ {j}, NEW o \in Items(k)
      PROVE  objects'[o] = objects[o]
  BY ItemsTyped, DisjointItems DEF SetItems
<1> QED BY <1>1, <1>2

\* A transaction on the row and the items of j: it is enough to look at those.
LEMMA MatchAfterRow ==
    ASSUME JobStoreTypeOK, OwnPayloads, ItemsMatchJob,
           NEW j \in JobIds, jobs[j].state # "absent",
           NEW state \in JobStates \ {"absent"}, NEW attempts \in Nat,
           NEW retry \in {"none", "waiting", "due"}, SetJob(j, state, attempts, retry),
           NEW from, NEW to, SetItems(j, from, to) \/ UNCHANGED objects,
           \A o \in Items(j) : ItemFits(state, objects'[o])
    PROVE  /\ OwnPayloads' /\ ItemsMatchJob'
           /\ \A k \in JobIds : Items(k)' = Items(k)
           /\ \A k \in JobIds \ {j} : \A o \in Items(k) : objects'[o] = objects[o]
<1>1. /\ OwnPayloads'
      /\ \A k \in JobIds : Items(k)' = Items(k)
      /\ jobs'[j].state = state
      /\ \A k \in JobIds \ {j} : jobs'[k].state = jobs[k].state
  BY ItemsAfterSetJob
<1>2. \A k \in JobIds \ {j} : \A o \in Items(k) : objects'[o] = objects[o]
  BY ObjectsAfterSetItems
<1>3. ASSUME NEW k \in JobIds, NEW o \in Items(k)
      PROVE  ItemFits(jobs'[k].state, objects'[o])
  <2>1. CASE k = j
    BY <1>1, <2>1
  <2>2. CASE k # j
    BY <1>1, <1>2, <2>2 DEF ItemsMatchJob
  <2> QED BY <2>1, <2>2
<1>4. ItemsMatchJob'
  BY <1>1, <1>3 DEF ItemsMatchJob
<1> QED BY <1>1, <1>2, <1>4

LEMMA InitItems == Init => ItemsInv
BY DEF Init, ItemsInv, OwnPayloads, ItemsMatchJob, RecordedInv, NoJobRow, Items

\* A transaction of an operator keeps what is recorded.
LEMMA OperatorTransactionItems ==
    ASSUME TypeInv, ItemsInv, NEW j \in JobIds, jobs[j].state # "absent",
           RetryJob(j) \/ RequeueJob(j) \/ PauseJob(j) \/ CancelJob(j)
    PROVE  /\ OwnPayloads' /\ ItemsMatchJob'
           /\ \A k \in JobIds : Items(k)' = Items(k)
           /\ \A k \in JobIds : \A o \in Items(k) :
                 objects[o] = "done" => objects'[o] = "done"
<1>1. JobStoreTypeOK /\ OwnPayloads /\ ItemsMatchJob
  BY DEF TypeInv, TypeOK, ItemsInv
<1>2. jobs[j].attempts \in Nat /\ "none" \in {"none", "waiting", "due"}
  BY <1>1 DEF JobStoreTypeOK, JobRow
<1>3. \A o \in Items(j) : ItemFits(jobs[j].state, objects[o])
  BY <1>1 DEF ItemsMatchJob
<1>4. CASE RetryJob(j)
  <2>1. SetJob(j, "queued", 0, "none")
    BY <1>4 DEF RetryJob
  <2>2. jobs[j].state \in Retryable /\ SetItems(j, Retryable, "queued")
    BY <1>4 DEF RetryJob
  <2>3. ASSUME NEW o \in Items(j)
        PROVE  /\ ItemFits("queued", objects'[o])
               /\ objects[o] = "done" => objects'[o] = "done"
    <3>1. objects'[o] = IF objects[o] \in Retryable THEN "queued" ELSE objects[o]
      BY <1>1, <2>2, ObjectsAfterSetItems
    <3> QED BY <1>3, <2>2, <3>1 DEF Retryable, ItemFits
  <2>4. "queued" \in JobStates \ {"absent"}
    BY DEF JobStates
  <2>5. /\ OwnPayloads' /\ ItemsMatchJob'
        /\ \A k \in JobIds : Items(k)' = Items(k)
        /\ \A k \in JobIds \ {j} : \A o \in Items(k) : objects'[o] = objects[o]
    BY <1>1, <1>2, <2>1, <2>2, <2>3, <2>4, MatchAfterRow
  <2> QED BY <2>3, <2>5
<1>5. CASE RequeueJob(j)
  <2>1. SetJob(j, "queued", jobs[j].attempts, "none")
    BY <1>5 DEF RequeueJob
  <2>2. jobs[j].state = "paused" /\ SetItems(j, {"paused"}, "queued")
    BY <1>5 DEF RequeueJob
  <2>3. ASSUME NEW o \in Items(j)
        PROVE  /\ ItemFits("queued", objects'[o])
               /\ objects[o] = "done" => objects'[o] = "done"
    <3>1. objects'[o] = IF objects[o] \in {"paused"} THEN "queued" ELSE objects[o]
      BY <1>1, <2>2, ObjectsAfterSetItems
    <3> QED BY <1>3, <2>2, <3>1 DEF ItemFits
  <2>4. "queued" \in JobStates \ {"absent"}
    BY DEF JobStates
  <2>5. /\ OwnPayloads' /\ ItemsMatchJob'
        /\ \A k \in JobIds : Items(k)' = Items(k)
        /\ \A k \in JobIds \ {j} : \A o \in Items(k) : objects'[o] = objects[o]
    BY <1>1, <1>2, <2>1, <2>2, <2>3, <2>4, MatchAfterRow
  <2> QED BY <2>3, <2>5
<1>6. CASE PauseJob(j)
  <2>1. PICK n \in Nat : SetJob(j, "paused", n, "none")
    BY <1>2, <1>6 DEF PauseJob
  <2>2. jobs[j].state \in Pausable /\ SetItems(j, Pausable, "paused")
    BY <1>6 DEF PauseJob
  <2>3. ASSUME NEW o \in Items(j)
        PROVE  /\ ItemFits("paused", objects'[o])
               /\ objects[o] = "done" => objects'[o] = "done"
    <3>1. objects'[o] = IF objects[o] \in Pausable THEN "paused" ELSE objects[o]
      BY <1>1, <2>2, ObjectsAfterSetItems
    <3> QED BY <1>3, <2>2, <3>1 DEF Pausable, ItemFits
  <2>4. "paused" \in JobStates \ {"absent"}
    BY DEF JobStates
  <2>5. /\ OwnPayloads' /\ ItemsMatchJob'
        /\ \A k \in JobIds : Items(k)' = Items(k)
        /\ \A k \in JobIds \ {j} : \A o \in Items(k) : objects'[o] = objects[o]
    BY <1>1, <1>2, <2>1, <2>2, <2>3, <2>4, MatchAfterRow
  <2> QED BY <2>3, <2>5
<1>7. CASE CancelJob(j)
  <2>1. SetJob(j, "cancelled", jobs[j].attempts, "none")
    BY <1>7 DEF CancelJob
  <2>2. jobs[j].state \in Cancellable /\ SetItems(j, Cancellable, "cancelled")
    BY <1>7 DEF CancelJob
  <2>3. ASSUME NEW o \in Items(j)
        PROVE  /\ ItemFits("cancelled", objects'[o])
               /\ objects[o] = "done" => objects'[o] = "done"
    <3>1. objects'[o] = IF objects[o] \in Cancellable THEN "cancelled" ELSE objects[o]
      BY <1>1, <2>2, ObjectsAfterSetItems
    <3> QED BY <1>3, <2>2, <3>1 DEF Cancellable, Pausable, ItemFits
  <2>4. "cancelled" \in JobStates \ {"absent"}
    BY DEF JobStates
  <2>5. /\ OwnPayloads' /\ ItemsMatchJob'
        /\ \A k \in JobIds : Items(k)' = Items(k)
        /\ \A k \in JobIds \ {j} : \A o \in Items(k) : objects'[o] = objects[o]
    BY <1>1, <1>2, <2>1, <2>2, <2>3, <2>4, MatchAfterRow
  <2> QED BY <2>3, <2>5
<1> QED BY <1>4, <1>5, <1>6, <1>7

\* Steps of the worker that leave the tables alone: what matters is where they
\* lead, and that `record` starts with all items still to record.
LEMMA QuietWorkerStepItems ==
    ASSUME TypeInv, ItemsInv,
           \/ QueueEmpty \/ PickJob \/ StartFails \/ BeginActive \/ CleanStage
           \/ Transferring \/ StartCopy \/ CopyAgain \/ CopyDone \/ Finalizing \/ VerifyStage
           \/ StartCommit \/ Committed \/ VerifyFinal \/ Recorded \/ StartRelease
           \/ Released \/ RcloneFails \/ StoreFails \/ Unwind
           \/ DiscardControlAction \/ ConsumeControlAction \/ SettleLost \/ SweepStage
           \/ \E p \in Paths : CopyFile(p) \/ CommitFile(p) \/ RemoveSource(p)
    PROVE  ItemsInv'
<1>1. UNCHANGED storeVars
  BY DEF QueueEmpty, PickJob, StartFails, BeginActive, CleanStage, Transferring, StartCopy,
         CopyAgain, CopyDone, Finalizing, VerifyStage, StartCommit, Committed, VerifyFinal, Recorded,
         StartRelease, Released, RcloneFails, StoreFails, Unwind, DiscardControlAction,
         ConsumeControlAction, SettleLost, SweepStage, CopyFile, CommitFile, RemoveSource,
         storeVars
<1>2. OwnPayloads' /\ ItemsMatchJob' /\ \A j \in JobIds : Items(j)' = Items(j)
  BY <1>1 DEF ItemsInv, OwnPayloads, ItemsMatchJob, Items, storeVars
<1>3. RecordedInv'
  <2>1. CASE pc' \notin {"record", "release", "removing", "finish"}
    BY <2>1 DEF RecordedInv
  <2>2. CASE Committed \/ VerifyFinal
    <3>1. pc' \in {"verify_final", "record"} /\ UNCHANGED picked
      BY <2>2 DEF Committed, VerifyFinal, Goto
    <3>2. pc' = "record" => todo' = ItemPaths
      BY <2>2 DEF Committed, VerifyFinal, Goto
    <3> QED BY <1>2, <3>1, <3>2, <1>1 DEF RecordedInv, ItemPaths, Job, Items, storeVars
  <2>3. CASE Recorded \/ StartRelease \/ Released
              \/ \E p \in Paths : RemoveSource(p)
    <3>1. /\ UNCHANGED <<picked, jobs, objects>>
          /\ pc \in {"record", "release", "removing"} /\ (pc = "record" => todo = {})
          /\ pc' \in {"release", "removing", "finish"}
      BY <2>3 DEF Recorded, StartRelease, Released, RemoveSource, Goto, storeVars
    <3> QED BY <3>1 DEF ItemsInv, RecordedInv, Job, Items
  <2>4. CASE pc' \in {"record", "release", "removing", "finish"}
    <3>1. Committed \/ VerifyFinal \/ Recorded \/ StartRelease \/ Released
          \/ \E p \in Paths : RemoveSource(p)
      BY <2>4 DEF QueueEmpty, PickJob, StartFails, BeginActive, CleanStage, Transferring,
         StartCopy, CopyAgain, CopyDone, Finalizing, VerifyStage, StartCommit, RcloneFails, StoreFails,
         Unwind, DiscardControlAction, ConsumeControlAction, SettleLost, SweepStage,
         CopyFile, CommitFile, Goto, Rest, Copying
    <3> QED BY <2>2, <2>3, <3>1
  <2> QED BY <2>1, <2>4
<1> QED BY <1>2, <1>3 DEF ItemsInv

LEMMA StoringWorkerStepItems ==
    ASSUME TypeInv, JobStillOpen, ItemsInv,
           \/ PollRetries \/ PickedJobUnusable \/ StartAttempt \/ Finish
           \/ SettlePause \/ SettleCancel \/ SettleFail
           \/ \E o \in Objects : RecordItem(o)
    PROVE  ItemsInv'
<1> USE DEF TypeInv, TypeOK, ItemsInv
<1>1. ASSUME pc \notin {"poll", "pick"}
      PROVE  /\ Job \in JobIds /\ jobs[Job].state # "absent" /\ jobs[Job].attempts \in Nat
             /\ \A o \in Items(Job) : ItemFits(jobs[Job].state, objects[o])
             /\ \A o \in Items(Job) : objects[o] \in ObjectStates
  BY <1>1, ItemsTyped DEF IdsExist, Job, JobStoreTypeOK, JobRow, ItemsMatchJob
<1>2. CASE PollRetries
  <2>1. PromoteDueRetries /\ pc' = "pick"
    BY <1>2 DEF PollRetries, Goto
  <2>2. \A j \in JobIds : Items(j)' = Items(j)
    BY <2>1 DEF PromoteDueRetries, Items, Row
  <2>3. OwnPayloads'
    BY <2>1 DEF PromoteDueRetries, OwnPayloads, Row, JobStoreTypeOK, JobRow
  <2>4. ASSUME NEW j \in JobIds, NEW o \in Items(j)
        PROVE  ItemFits(jobs'[j].state, objects'[o])
    <3> DEFINE due == {k \in JobIds : jobs[k].state = "retry_wait" /\ jobs[k].retry = "due"}
    <3>1. o \in Objects /\ ItemFits(jobs[j].state, objects[o])
      BY ItemsTyped DEF ItemsMatchJob
    <3>2. CASE j \in due
      <4>1. objects[o] = "retry_wait" /\ jobs'[j].state = "queued"
        BY <2>1, <3>1, <3>2 DEF PromoteDueRetries, ItemFits, Row
      <4>2. objects'[o] = "queued"
        BY <2>1, <3>1, <3>2, <4>1 DEF PromoteDueRetries
      <4> QED BY <4>1, <4>2 DEF ItemFits
    <3>3. CASE j \notin due
      <4>1. \A k \in due : o \notin Items(k)
        BY <3>3, DisjointItems
      <4>2. objects'[o] = objects[o] /\ jobs'[j] = jobs[j]
        BY <2>1, <3>1, <3>3, <4>1 DEF PromoteDueRetries, JobStoreTypeOK
      <4> QED BY <3>1, <4>2
    <3> QED BY <3>2, <3>3
  <2>5. ItemsMatchJob'
    BY <2>2, <2>4 DEF ItemsMatchJob
  <2> QED BY <2>1, <2>3, <2>5 DEF RecordedInv
<1>3. CASE PickedJobUnusable
  <2>1. /\ pc = "start" /\ pc' = "poll"
        /\ SetJob(Job, "failed", jobs[Job].attempts, "none")
        /\ SetItems(Job, ObjectStates, "failed")
    BY <1>3 DEF PickedJobUnusable, FailJob, Rest
  <2>2. \A o \in Items(Job) : ItemFits("failed", objects'[o])
    BY <1>1, <2>1, ObjectsAfterSetItems DEF ItemFits
  <2> QED BY <1>1, <2>1, <2>2, MatchAfterRow DEF JobStates, RecordedInv
<1>4. CASE StartAttempt
  <2>1. /\ pc = "start" /\ pc' = "begin"
        /\ SetJob(Job, "copying", jobs[Job].attempts + 1, "none")
        /\ SetItems(Job, ObjectStates, "copying")
    BY <1>4 DEF StartAttempt, StartJob, Goto
  <2>2. \A o \in Items(Job) : ItemFits("copying", objects'[o])
    BY <1>1, <2>1, ObjectsAfterSetItems DEF ItemFits
  <2>3. jobs[Job].attempts + 1 \in Nat
    BY <1>1, <2>1
  <2> QED BY <1>1, <2>1, <2>2, <2>3, MatchAfterRow DEF JobStates, RecordedInv
<1>5. CASE Finish
  <2>1. /\ pc = "finish" /\ pc' = "return_ok"
        /\ SetJob(Job, "done", jobs[Job].attempts, "none") /\ UNCHANGED objects
    BY <1>5 DEF Finish, CompleteJob, Goto
  <2>2. \A o \in Items(Job) : ItemFits("done", objects'[o])
    BY <2>1 DEF RecordedInv, ItemFits
  <2> QED BY <1>1, <2>1, <2>2, MatchAfterRow DEF JobStates, RecordedInv
<1>6. CASE SettlePause \/ SettleCancel
  <2>1. pc \in {"settle_pause", "settle_cancel"} /\ pc' \in {"poll", "sweep"}
    BY <1>6 DEF SettlePause, SettleCancel, Goto, Rest
  <2>2. PauseJob(Job) \/ CancelJob(Job) \/ UNCHANGED storeVars
    BY <1>6 DEF SettlePause, SettleCancel
  <2>3. OwnPayloads' /\ ItemsMatchJob'
    <3>1. CASE PauseJob(Job) \/ CancelJob(Job)
      BY <1>1, <2>1, <3>1, OperatorTransactionItems
    <3>2. CASE UNCHANGED storeVars
      BY <3>2 DEF OwnPayloads, ItemsMatchJob, Items, storeVars
    <3> QED BY <2>2, <3>1, <3>2
  <2> QED BY <2>1, <2>3 DEF RecordedInv
<1>7. CASE SettleFail
  <2>1. PICK state \in {"retry_wait", "failed"}, retry \in {"waiting", "none"} :
             /\ SetJob(Job, state, jobs[Job].attempts, retry)
             /\ SetItems(Job, ObjectStates, state)
    BY <1>7 DEF SettleFail, FailJob
  <2>2. pc = "settle_fail" /\ pc' = "poll"
    BY <1>7 DEF SettleFail, Rest
  <2>3. \A o \in Items(Job) : ItemFits(state, objects'[o])
    BY <1>1, <2>1, <2>2, ObjectsAfterSetItems DEF ItemFits
  <2> QED BY <1>1, <2>1, <2>2, <2>3, MatchAfterRow DEF JobStates, RecordedInv
<1>8. ASSUME NEW o \in Objects, RecordItem(o)
      PROVE  ItemsInv'
  <2>1. /\ pc = "record" /\ pc' = "record" /\ UNCHANGED <<picked, jobs>>
        /\ o \in Items(Job) /\ todo' = todo \ {PathOf[o]}
        /\ objects' = [objects EXCEPT ![o] = "done"]
    BY <1>8 DEF RecordItem, CompleteObject, Goto
  <2>2. jobs[Job].state \in {"queued", "copying", "paused", "cancelled"}
    BY <2>1 DEF JobStillOpen
  <2>3. \A j \in JobIds : Items(j)' = Items(j)
    BY <2>1 DEF Items
  <2>4. ASSUME NEW j \in JobIds, NEW i \in Items(j)
        PROVE  ItemFits(jobs[j].state, objects'[i])
    <3>1. CASE i = o
      <4>1. j = Job
        BY <1>1, <2>1, <3>1, DisjointItems
      <4>2. objects'[i] = "done"
        BY <2>1, <3>1 DEF JobStoreTypeOK
      <4> QED BY <2>2, <4>1, <4>2 DEF ItemFits
    <3>2. CASE i # o
      <4>1. objects'[i] = objects[i]
        BY <2>1, <3>2, ItemsTyped DEF JobStoreTypeOK
      <4> QED BY <4>1 DEF ItemsMatchJob
    <3> QED BY <3>1, <3>2
  <2>5. OwnPayloads' /\ ItemsMatchJob'
    BY <2>1, <2>3, <2>4 DEF OwnPayloads, ItemsMatchJob
  <2>6. ASSUME NEW i \in Items(Job)
        PROVE  PathOf[i] \in todo' \/ objects'[i] = "done"
    <3>1. CASE i = o
      BY <2>1, <3>1 DEF JobStoreTypeOK
    <3>2. CASE i # o
      <4>1. PathOf[i] # PathOf[o]
        <5>1. Payload \in Payloads /\ i \in ItemsOf[Payload] /\ o \in ItemsOf[Payload]
          BY <1>1, <2>1 DEF Items, JobStoreTypeOK, Payload
        <5>2. i \in Objects \ Late /\ o \in Objects \ Late
          BY <5>1, ItemsOfAssumption, TreesAssumption
        <5> QED BY <3>2, <5>2, PathsAssumption
      <4>2. objects'[i] = objects[i]
        BY <1>1, <2>1, <3>2, ItemsTyped DEF JobStoreTypeOK
      <4> QED BY <2>1, <4>1, <4>2 DEF RecordedInv
    <3> QED BY <3>1, <3>2
  <2> QED BY <1>1, <2>1, <2>3, <2>5, <2>6 DEF RecordedInv, Job
<1> QED BY <1>2, <1>3, <1>4, <1>5, <1>6, <1>7, <1>8

LEMMA HandlerStepItems ==
    ASSUME TypeInv, ItemsInv, NEW c \in Clients,
           \/ HandlerStep(c)
           \/ \E j \in JobIds, action \in Actions :
                 AskActive(c, j, action) \/ AskStore(c, j, action)
    PROVE  ItemsInv'
<1>1. UNCHANGED workerVars
  BY DEF HandlerStep, CallCancel, CallStore, StoreRefuses, PurgeCancelled, AskActive,
         AskStore, Ask
<1>2. CASE CallStore(c)
  <2> DEFINE j == request[c].job
  <2>1. j \in JobIds /\ jobs[j].state # "absent"
    BY <1>2 DEF CallStore, TypeInv, IdsExist
  <2>2. RetryJob(j) \/ RequeueJob(j) \/ PauseJob(j) \/ CancelJob(j)
    BY <1>2 DEF CallStore
  <2>3. /\ OwnPayloads' /\ ItemsMatchJob'
        /\ \A k \in JobIds : Items(k)' = Items(k)
        /\ \A k \in JobIds : \A o \in Items(k) : objects[o] = "done" => objects'[o] = "done"
    BY <2>1, <2>2, OperatorTransactionItems
  <2>4. RecordedInv'
    <3>1. pc \notin {"poll", "pick"} => Job \in JobIds
      BY DEF TypeInv, IdsExist, Job
    <3> QED BY <1>1, <2>3, <3>1 DEF ItemsInv, RecordedInv, workerVars, Job
  <2> QED BY <2>3, <2>4 DEF ItemsInv
<1>3. CASE UNCHANGED storeVars
  BY <1>1, <1>3 DEF ItemsInv, OwnPayloads, ItemsMatchJob, RecordedInv, Items, Job, storeVars,
                    workerVars
<1>4. CallStore(c) \/ UNCHANGED storeVars
  BY DEF HandlerStep, CallCancel, StoreRefuses, PurgeCancelled, AskActive, AskStore, Ask
<1> QED BY <1>2, <1>3, <1>4

LEMMA EnvironmentStepItems ==
    ASSUME TypeInv, RetryScheduled, ItemsInv,
           \/ \E j \in JobIds, p \in Payloads : Enqueue(j, p)
           \/ \E j \in JobIds : RetryDue(j)
           \/ \E p \in Paths : Take(p)
           \/ \E o \in Objects : Arrive(o)
           \/ Restart
    PROVE  ItemsInv'
<1> USE DEF TypeInv, TypeOK, ItemsInv
<1>1. ASSUME NEW j \in JobIds, NEW p \in Payloads, Enqueue(j, p)
      PROVE  ItemsInv'
  <2>1. /\ jobs[j].state = "absent" /\ \A k \in JobIds : jobs[k].payload # p
        /\ jobs' = [jobs EXCEPT ![j] = [payload |-> p, state |-> "queued",
                                        attempts |-> 0, retry |-> "none"]]
        /\ \A o \in Objects : o \notin ItemsOf[p] => objects'[o] = objects[o]
        /\ \A o \in ItemsOf[p] : objects'[o] = "queued"
        /\ UNCHANGED workerVars
    BY <1>1, ItemsOfAssumption DEF Enqueue, CreateJob, IsNextId
  <2>2. OwnPayloads'
    BY <2>1 DEF OwnPayloads, JobStoreTypeOK, JobRow
  <2>3. Items(j)' = ItemsOf[p] /\ \A k \in JobIds \ {j} : Items(k)' = Items(k)
    BY <2>1 DEF Items, JobStoreTypeOK
  <2>4. ASSUME NEW k \in JobIds \ {j}, NEW o \in Items(k)
        PROVE  objects'[o] = objects[o]
    <3>1. PICK q \in Payloads : q # p /\ o \in ItemsOf[q]
      BY <2>1 DEF Items, JobStoreTypeOK
    <3>2. o \notin ItemsOf[p]
      BY <3>1, TreesAssumption
    <3> QED BY <2>1, <3>2, ItemsTyped
  <2>5. ItemsMatchJob'
    <3>1. /\ jobs'[j].state = "queued"
          /\ \A k \in JobIds \ {j} : jobs'[k].state = jobs[k].state
      BY <2>1 DEF JobStoreTypeOK
    <3>2. \A o \in Items(j)' : ItemFits(jobs'[j].state, objects'[o])
      BY <2>1, <2>3, <3>1 DEF ItemFits
    <3>3. \A k \in JobIds \ {j} : \A o \in Items(k)' : ItemFits(jobs'[k].state, objects'[o])
      BY <2>3, <2>4, <3>1 DEF ItemsMatchJob
    <3> QED BY <3>2, <3>3 DEF ItemsMatchJob
  <2>6. RecordedInv'
    <3>1. pc \notin {"poll", "pick"} => Job \in JobIds \ {j}
      BY <2>1 DEF IdsExist, Job
    <3>2. UNCHANGED <<pc, picked, todo>>
      BY <2>1 DEF workerVars
    <3>3. pc \notin {"poll", "pick"} =>
             /\ Items(Job)' = Items(Job)
             /\ \A o \in Items(Job) : objects'[o] = objects[o]
      BY <2>3, <2>4, <3>1, <3>2 DEF Job
    <3> QED BY <3>2, <3>3 DEF RecordedInv
  <2> QED BY <2>2, <2>5, <2>6
<1>2. ASSUME NEW j \in JobIds, RetryDue(j)
      PROVE  ItemsInv'
  <2>1. /\ jobs[j].state \in JobStates \ {"absent"} /\ jobs[j].attempts \in Nat
        /\ SetJob(j, jobs[j].state, jobs[j].attempts, "due")
        /\ UNCHANGED <<objects, workerVars>>
    BY <1>2 DEF RetryDue, JobStoreTypeOK, JobRow
  <2>2. \A o \in Items(j) : ItemFits(jobs[j].state, objects'[o])
    BY <2>1 DEF ItemsMatchJob
  <2>3. OwnPayloads' /\ ItemsMatchJob' /\ \A k \in JobIds : Items(k)' = Items(k)
    BY <2>1, <2>2, MatchAfterRow
  <2>4. pc \notin {"poll", "pick"} => Job \in JobIds
    BY DEF IdsExist, Job
  <2> QED BY <2>1, <2>3, <2>4 DEF RecordedInv, Job, workerVars
<1>3. ASSUME NEW p \in Paths, Take(p)
      PROVE  ItemsInv'
  BY <1>3 DEF Take, OwnPayloads, ItemsMatchJob, RecordedInv, Items, Job, storeVars, workerVars
<1>4. ASSUME NEW o \in Objects, Arrive(o)
      PROVE  ItemsInv'
  <2>1. \A j \in JobIds : o \notin Items(j)
    BY <1>4, TreesAssumption DEF Arrive, Items, JobStoreTypeOK
  <2>2. \A j \in JobIds : \A i \in Items(j) : objects'[i] = objects[i]
    <3>1. objects' = [objects EXCEPT ![o] = "discovered"]
      BY <1>4 DEF Arrive
    <3> QED BY <2>1, <3>1, ItemsTyped DEF JobStoreTypeOK
  <2>3. UNCHANGED <<jobs, workerVars>> /\ \A j \in JobIds : Items(j)' = Items(j)
    BY <1>4 DEF Arrive, Items
  <2>4. pc \notin {"poll", "pick"} => Job \in JobIds
    BY DEF IdsExist, Job
  <2> QED BY <2>2, <2>3, <2>4 DEF OwnPayloads, ItemsMatchJob, RecordedInv, Job, workerVars
<1>5. CASE Restart
  <2>1. RecoverInterrupted /\ pc' = "poll"
    BY <1>5 DEF Restart, Rest
  <2>2. \A j \in JobIds : /\ Items(j)' = Items(j)
                          /\ jobs'[j].payload = jobs[j].payload
                          /\ jobs'[j].state = IF jobs[j].state = "copying" THEN "queued"
                                              ELSE jobs[j].state
    BY <2>1 DEF RecoverInterrupted, Items, Row
  <2>3. ASSUME NEW j \in JobIds, NEW o \in Items(j)
        PROVE  objects'[o] = objects[o]
    <3>1. o \in Objects
      BY ItemsTyped
    <3> QED BY <2>1, <3>1 DEF RecoverInterrupted
  <2>4. OwnPayloads'
    BY <2>2 DEF OwnPayloads
  <2>5. ASSUME NEW j \in JobIds, NEW o \in Items(j)
        PROVE  ItemFits(jobs'[j].state, objects'[o])
    <3>1. ItemFits(jobs[j].state, objects[o]) /\ objects'[o] = objects[o]
      BY <2>3 DEF ItemsMatchJob
    <3>2. CASE jobs[j].state = "copying"
      BY <2>2, <3>1, <3>2 DEF ItemFits
    <3>3. CASE jobs[j].state # "copying"
      BY <2>2, <3>1, <3>3
    <3> QED BY <3>2, <3>3
  <2>6. ItemsMatchJob'
    BY <2>2, <2>5 DEF ItemsMatchJob
  <2> QED BY <2>1, <2>4, <2>6 DEF RecordedInv
<1> QED BY <1>1, <1>2, <1>3, <1>4, <1>5

LEMMA StepItems == TypeInv /\ RowsInv /\ ItemsInv /\ [Next]_vars => ItemsInv'
<1> SUFFICES ASSUME TypeInv, RowsInv, ItemsInv, [Next]_vars PROVE ItemsInv'
  OBVIOUS
<1>1. JobStillOpen /\ RetryScheduled
  BY DEF RowsInv
<1>2. CASE WorkerStep
  BY <1>1, <1>2, QuietWorkerStepItems, StoringWorkerStepItems DEF WorkerStep
<1>3. CASE UNCHANGED vars
  BY <1>3 DEF vars, ItemsInv, OwnPayloads, ItemsMatchJob, RecordedInv, Items, Job
<1> QED BY <1>1, <1>2, <1>3, HandlerStepItems, EnvironmentStepItems DEF Next

\* The job table and the object table agree in every reachable state.
THEOREM TablesAgree == Spec => []ItemsMatchJob
<1>1. ItemsInv => ItemsMatchJob
  BY DEF ItemsInv
<1> QED BY <1>1, InitTyped, StepTyped, InitRows, StepRows, InitItems, StepItems, PTL DEF Spec

-----------------------------------------------------------------------------
(* Ended jobs.                                                             *)

\* What EndedJobsStay says of one step.
EndedStep ==
    \A j \in JobIds :
        /\ jobs[j].state = "done" => jobs'[j] = jobs[j]
        /\ jobs[j].state = "failed" /\ jobs'[j] # jobs[j] =>
              jobs'[j].state = "queued" /\ jobs'[j].attempts = 0

LEMMA OpenRowEnds ==
    ASSUME JobStoreTypeOK, NEW k \in JobIds, jobs[k].state \notin {"done", "failed"},
           NEW state, NEW attempts, NEW retry, SetJob(k, state, attempts, retry)
    PROVE  EndedStep
BY DEF EndedStep, SetJob, JobStoreTypeOK

LEMMA OperatorEnds ==
    ASSUME JobStoreTypeOK, NEW k \in JobIds,
           RetryJob(k) \/ RequeueJob(k) \/ PauseJob(k) \/ CancelJob(k)
    PROVE  EndedStep
<1>1. CASE RetryJob(k)
  BY <1>1 DEF RetryJob, SetJob, Row, Retryable, JobStoreTypeOK, EndedStep
<1>2. CASE RequeueJob(k)
  BY <1>2, OpenRowEnds DEF RequeueJob
<1>3. CASE PauseJob(k)
  BY <1>3, OpenRowEnds DEF PauseJob, Pausable
<1>4. CASE CancelJob(k)
  BY <1>4, OpenRowEnds DEF CancelJob, Cancellable, Pausable
<1> QED BY <1>1, <1>2, <1>3, <1>4

LEMMA WorkerStepEnds ==
    ASSUME TypeInv, JobStillOpen, WorkerStep
    PROVE  EndedStep
<1>1. JobStoreTypeOK
  BY DEF TypeInv, TypeOK
<1>2. pc \notin {"poll", "pick", "return_ok", "discard", "sweep"} =>
          Job \in JobIds /\ jobs[Job].state \notin {"done", "failed"}
  BY DEF TypeInv, IdsExist, JobStillOpen, Job
<1>3. CASE PollRetries
  BY <1>3 DEF PollRetries, PromoteDueRetries, EndedStep
<1>4. CASE PickedJobUnusable
  BY <1>1, <1>2, <1>4, OpenRowEnds DEF PickedJobUnusable, FailJob
<1>5. CASE StartAttempt
  BY <1>1, <1>2, <1>5, OpenRowEnds DEF StartAttempt, StartJob
<1>6. CASE Finish
  BY <1>1, <1>2, <1>6, OpenRowEnds DEF Finish, CompleteJob
<1>7. CASE SettleFail
  BY <1>1, <1>2, <1>7, OpenRowEnds DEF SettleFail, FailJob
<1>8. CASE SettlePause
  BY <1>1, <1>2, <1>8, OperatorEnds DEF SettlePause, storeVars, EndedStep
<1>9. CASE SettleCancel
  BY <1>1, <1>2, <1>9, OperatorEnds DEF SettleCancel, storeVars, EndedStep
<1>10. CASE UNCHANGED jobs
  BY <1>10 DEF EndedStep
<1>11. \/ PollRetries \/ PickedJobUnusable \/ StartAttempt \/ Finish
       \/ SettleFail \/ SettlePause \/ SettleCancel \/ UNCHANGED jobs
  BY DEF WorkerStep, QueueEmpty, PickJob, StartFails, BeginActive, CleanStage, Transferring,
         StartCopy, CopyAgain, CopyDone, Finalizing, VerifyStage, StartCommit, Committed, VerifyFinal,
         Recorded, StartRelease, Released, RcloneFails, StoreFails, Unwind,
         DiscardControlAction, ConsumeControlAction, SettleLost, SweepStage, CopyFile,
         CommitFile, RemoveSource, RecordItem, CompleteObject, storeVars
<1> QED BY <1>3, <1>4, <1>5, <1>6, <1>7, <1>8, <1>9, <1>10, <1>11

LEMMA HandlerStepEnds ==
    ASSUME TypeInv, NEW c \in Clients, HandlerStep(c)
    PROVE  EndedStep
<1>1. CASE CallStore(c)
  <2>1. JobStoreTypeOK /\ request[c].job \in JobIds
    BY <1>1 DEF TypeInv, TypeOK, IdsExist, CallStore
  <2> QED BY <1>1, <2>1, OperatorEnds DEF CallStore
<1>2. CASE UNCHANGED jobs
  BY <1>2 DEF EndedStep
<1> QED BY <1>1, <1>2 DEF HandlerStep, CallCancel, StoreRefuses, PurgeCancelled, storeVars

LEMMA EnvironmentStepEnds ==
    ASSUME TypeInv, RetryScheduled,
           \/ \E j \in JobIds, p \in Payloads : Enqueue(j, p)
           \/ \E j \in JobIds : RetryDue(j)
           \/ \E p \in Paths : Take(p)
           \/ \E o \in Objects : Arrive(o)
           \/ Restart
    PROVE  EndedStep
<1>1. JobStoreTypeOK
  BY DEF TypeInv, TypeOK
<1>2. ASSUME NEW j \in JobIds, NEW p \in Payloads, Enqueue(j, p)
      PROVE  EndedStep
  BY <1>1, <1>2 DEF Enqueue, CreateJob, IsNextId, JobStoreTypeOK, EndedStep
<1>3. ASSUME NEW j \in JobIds, RetryDue(j)
      PROVE  EndedStep
  <2>1. jobs[j].state = "retry_wait"
    BY <1>3 DEF RetryDue, RetryScheduled
  <2> QED BY <1>1, <1>3, <2>1, OpenRowEnds DEF RetryDue
<1>4. CASE Restart
  BY <1>4 DEF Restart, RecoverInterrupted, EndedStep
<1>5. CASE UNCHANGED jobs
  BY <1>5 DEF EndedStep
<1> QED BY <1>2, <1>3, <1>4, <1>5 DEF Take, Arrive, storeVars

LEMMA StepEnds == TypeInv /\ RowsInv /\ [Next]_vars => EndedStep
<1> SUFFICES ASSUME TypeInv, RowsInv, [Next]_vars PROVE EndedStep
  OBVIOUS
<1>1. JobStillOpen /\ RetryScheduled
  BY DEF RowsInv
<1>2. CASE WorkerStep
  BY <1>1, <1>2, WorkerStepEnds
<1>3. CASE UNCHANGED jobs
  BY <1>3 DEF EndedStep
<1> QED BY <1>1, <1>2, <1>3, HandlerStepEnds, EnvironmentStepEnds
        DEF Next, AskActive, AskStore, Ask, storeVars, vars

\* A finished job never runs again, and a failed one only by RetryJob.
THEOREM EndedStaysEnded == Spec => EndedJobsStay
<1>1. TypeInv /\ RowsInv /\ [Next]_vars => [EndedStep]_vars
  BY StepEnds
<1>2. EndedJobsStay <=> [][EndedStep]_vars
  BY DEF EndedJobsStay, EndedStep
<1> QED BY <1>1, <1>2, RowsInvariant, PTL DEF Spec
=============================================================================
