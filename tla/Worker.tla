------------------------------- MODULE Worker -------------------------------
(***************************************************************************)
(* The transfer pipeline of internal/engine: the single worker goroutine   *)
(* (worker, transferJob), the HTTP handlers that pause, resume, retry and  *)
(* cancel jobs under it (ControlJob), the three file trees rclone works on *)
(* and the restart of the process.                                         *)
(*                                                                         *)
(* Atomicity follows the code: one step per database transaction, per      *)
(* critical section of Engine.mu, and per file an rclone command touches.  *)
(* The scanner is represented by Enqueue, the uploader by Arrive and the   *)
(* importer that takes committed files away (Sonarr, Tdarr) by Take.       *)
(***************************************************************************)
EXTENDS JobStore

CONSTANTS
    Paths,          \* relative paths, the same on source, staging and destination
    NoFile,         \* nothing at a path
    PathOf,         \* [Objects -> Paths]
    SizeOf,         \* [Objects -> Nat]
    TreeOf,         \* the paths under the root a job copies: [Payloads -> SUBSET Paths]
    DirPayloads,    \* the payloads whose root is a directory
    Late,           \* generations the uploader may still put on the source
    Filtered,       \* the payloads whose rule has includes or excludes
    Selected,       \* the paths the filters let through
    Mode,           \* "copy" or "move"
    Verification,   \* "size" or "none"
    RetryLimit,     \* automatic retries after the first attempt
    Clients,        \* HTTP handlers that may run at the same time
    MaxRequests, MaxCrashes, MaxFaults  \* bounds on requests, restarts, database errors

NoJob == 0

ASSUME PathsAssumption ==
    /\ NoFile \notin Objects
    /\ PathOf \in [Objects -> Paths]
    /\ SizeOf \in [Objects -> Nat]
    /\ Late \subseteq Objects
    /\ \A o1, o2 \in Objects \ Late : PathOf[o1] = PathOf[o2] => o1 = o2

ASSUME TreesAssumption ==
    /\ TreeOf \in [Payloads -> SUBSET Paths]
    /\ DirPayloads \subseteq Payloads
    /\ \A p \in Payloads : \A o \in ItemsOf[p] :
            PathOf[o] \in TreeOf[p] \cap Selected /\ o \notin Late
    /\ \A p \in Payloads \ DirPayloads : \A o \in ItemsOf[p] : TreeOf[p] = {PathOf[o]}
    \* Jobs do not share files; what the scanner does to keep that is its own model.
    /\ \A p, q \in Payloads : p # q => TreeOf[p] \cap TreeOf[q] = {}

ASSUME RuleAssumption ==
    /\ Selected \subseteq Paths
    /\ Filtered \subseteq Payloads
    /\ \A p \in Payloads \ Filtered : TreeOf[p] \subseteq Selected
    /\ Mode \in {"copy", "move"}
    /\ Verification \in {"size", "none"}
    /\ RetryLimit \in Nat

ASSUME BoundsAssumption == MaxRequests \in Nat /\ MaxCrashes \in Nat /\ MaxFaults \in Nat

VARIABLES
    pc,             \* where the worker goroutine is
    picked,         \* its copy of the job row, read by NextQueuedJob
    todo,           \* paths the running rclone command or loop has still to treat
    active,         \* Engine.active: the job and the phase the operator sees
    controlActions, \* Engine.controlActions
    ctxDone,        \* the context of the running transfer is cancelled
    request,        \* what each HTTP handler is in the middle of
    src, stage, dest,  \* path -> generation, staging per job id
    library,        \* generations an importer has taken from the destination
    asked, crashes, faults  \* how much of the bounds is used

workerVars == <<pc, picked, todo>>
controlVars == <<active, controlActions, ctxDone, request>>
files == <<src, stage, dest, library>>
bounds == <<asked, crashes, faults>>
vars == <<jobs, objects, pc, picked, todo, active, controlActions, ctxDone, request,
          src, stage, dest, library, asked, crashes, faults>>

NotPicked == [job |-> NoJob, attempts |-> 0]
Inactive == [job |-> NoJob, phase |-> "none"]
IdleRequest == [step |-> "idle", job |-> NoJob, action |-> "none"]
Empty == [p \in Paths |-> NoFile]

Actions == {"retry", "resume", "pause", "cancel"}
RcloneSteps == {"clean", "copy", "copying", "copying_again", "verify_stage", "commit", "moving",
                "verify_final", "release", "removing"}
Copying == {"copying", "copying_again"}
TransferSteps == RcloneSteps \cup {"ready", "copied", "record", "finish"}
PCs == {"poll", "pick", "start", "begin", "return_ok", "return_err", "discard",
        "consume", "settle_pause", "settle_cancel", "settle_fail", "sweep"}
       \cup TransferSteps

Content == Objects \cup {NoFile}

TypeOK ==
    /\ JobStoreTypeOK
    /\ pc \in PCs
    /\ picked \in [job : JobIds \cup {NoJob}, attempts : Nat]
    /\ todo \subseteq Paths
    /\ active \in [job : JobIds \cup {NoJob},
                   phase : {"none", "preparing", "transferring", "finalizing"}]
    /\ controlActions \in [JobIds -> {"none", "pause", "cancel"}]
    /\ ctxDone \in BOOLEAN
    /\ request \in [Clients -> [step : {"idle", "cancel", "store", "purge"},
                                job : JobIds \cup {NoJob},
                                action : Actions \cup {"none"}]]
    /\ src \in [Paths -> Content]
    /\ stage \in [JobIds -> [Paths -> Content]]
    /\ dest \in [Paths -> Content]
    /\ library \subseteq Objects
    /\ asked \in 0..MaxRequests /\ crashes \in 0..MaxCrashes /\ faults \in 0..MaxFaults

Init ==
    /\ jobs = [j \in JobIds |-> NoJobRow]
    /\ objects = [o \in Objects |-> IF o \in Late THEN "unseen" ELSE "discovered"]
    /\ pc = "poll" /\ picked = NotPicked /\ todo = {}
    /\ active = Inactive
    /\ controlActions = [j \in JobIds |-> "none"]
    /\ ctxDone = FALSE
    /\ request = [c \in Clients |-> IdleRequest]
    /\ src = [p \in Paths |->
                 IF \E o \in Objects \ Late : PathOf[o] = p
                 THEN CHOOSE o \in Objects \ Late : PathOf[o] = p ELSE NoFile]
    /\ stage = [j \in JobIds |-> Empty]
    /\ dest = Empty
    /\ library = {}
    /\ asked = 0 /\ crashes = 0 /\ faults = 0

-----------------------------------------------------------------------------
(* The job the worker has picked, and the manifest it is to deliver.       *)

Job == picked.job
Payload == jobs[Job].payload
Tree == TreeOf[Payload]
IsDir == Payload \in DirPayloads
IsFiltered == Payload \in Filtered
ItemPaths == {PathOf[o] : o \in Items(Job)}
Present(tree, ps) == {p \in ps : tree[p] # NoFile}

\* Variant with a fault: only the paths are compared.
MatchesPaths(tree) == Present(tree, Tree) = ItemPaths

\* verifyManifest: the listing has the paths of the manifest, with their sizes.
MatchesManifest(tree) ==
    /\ Present(tree, Tree) = ItemPaths
    /\ \A o \in Items(Job) : SizeOf[tree[PathOf[o]]] = SizeOf[o]

Goto(next) == /\ pc' = next
              /\ UNCHANGED picked

Rest == pc' = "poll" /\ picked' = NotPicked /\ todo' = {}

OneFault == faults < MaxFaults /\ faults' = faults + 1 /\ UNCHANGED <<asked, crashes>>

-----------------------------------------------------------------------------
(* worker(): promote what is due, take the oldest queued job.              *)

PollRetries ==
    /\ pc = "poll"
    /\ PromoteDueRetries
    /\ Goto("pick")
    /\ UNCHANGED <<todo, controlVars, files, bounds>>

QueueEmpty ==
    /\ pc = "pick"
    /\ \A j \in JobIds : jobs[j].state # "queued"
    /\ Goto("poll")
    /\ UNCHANGED <<storeVars, todo, controlVars, files, bounds>>

PickJob ==
    /\ pc = "pick"
    /\ \E j \in JobIds :
          /\ IsNextQueued(j)
          /\ picked' = [job |-> j, attempts |-> jobs[j].attempts]
    /\ pc' = "start"
    /\ UNCHANGED <<storeVars, todo, controlVars, files, bounds>>

\* The rule is gone or the manifest cannot be read: no retry is scheduled.
PickedJobUnusable ==
    /\ pc = "start"
    /\ FailJob(Job, FALSE)
    /\ Rest
    /\ OneFault
    /\ UNCHANGED <<controlVars, files>>

StartAttempt ==
    /\ pc = "start"
    /\ StartJob(Job)
    /\ Goto("begin")
    /\ UNCHANGED <<todo, controlVars, files, bounds>>

\* transferJob returns before beginActive: nothing to unwind.
StartFails ==
    /\ pc = "start"
    /\ Goto("consume")
    /\ OneFault
    /\ UNCHANGED <<storeVars, todo, controlVars, files>>

BeginActive ==
    /\ pc = "begin"
    /\ active' = [job |-> Job, phase |-> "preparing"]
    /\ ctxDone' = FALSE
    /\ Goto(IF picked.attempts > 0 THEN "clean" ELSE "ready")
    /\ UNCHANGED <<storeVars, todo, controlActions, request, files, bounds>>

\* rclone purge of a staging directory; when it fails some files are left.
PurgeStage(j) ==
    /\ \E left \in SUBSET Present(stage[j], Paths) :
          stage' = [stage EXCEPT ![j] = [p \in Paths |-> IF p \in left THEN @[p] ELSE NoFile]]
    /\ UNCHANGED <<src, dest, library>>

CleanStage ==
    /\ pc = "clean" /\ ~ctxDone
    /\ stage' = [stage EXCEPT ![Job] = Empty]
    /\ Goto("ready")
    /\ UNCHANGED <<storeVars, todo, controlVars, src, dest, library, bounds>>

\* setPhase: from here to the next one the operator may pause and cancel.
Transferring ==
    /\ pc = "ready"
    /\ active' = [active EXCEPT !.phase = "transferring"]
    /\ Goto("copy")
    /\ UNCHANGED <<storeVars, todo, controlActions, ctxDone, request, files, bounds>>

-----------------------------------------------------------------------------
(* rclone copy / copyto src -> stage.  It lists the files its filters let  *)
(* through, then copies each; what is on the destination already and not   *)
(* on the source stays there.                                              *)

\* A directory with filters may still be there when nothing of the job is left in it.
SourceExists == (IsDir /\ IsFiltered) \/ Present(src, Tree) # {}

StartCopy ==
    /\ pc = "copy" /\ ~ctxDone
    /\ SourceExists
    /\ todo' = Present(src, Tree \cap Selected)
    /\ Goto("copying")
    /\ UNCHANGED <<storeVars, controlVars, files, bounds>>

CopyFile(p) ==
    /\ pc \in Copying /\ ~ctxDone
    /\ p \in todo /\ src[p] # NoFile
    /\ stage' = [stage EXCEPT ![Job][p] = src[p]]
    /\ todo' = todo \ {p}
    /\ Goto(pc)
    /\ UNCHANGED <<storeVars, controlVars, src, dest, library, bounds>>

\* The copy failed with a message that reads like a lack of multi-thread support: it is
\* run once more without, from the listing on, over what it left in staging.
CopyAgain ==
    /\ pc = "copying" /\ ~ctxDone
    /\ SourceExists
    /\ todo' = Present(src, Tree \cap Selected)
    /\ Goto("copying_again")
    /\ UNCHANGED <<storeVars, controlVars, files, bounds>>

CopyDone ==
    /\ pc \in Copying /\ ~ctxDone
    /\ todo = {}
    /\ Goto("copied")
    /\ UNCHANGED <<storeVars, todo, controlVars, files, bounds>>

\* setPhase("finalizing") and the later ones: the operator's requests are refused.
Finalizing ==
    /\ pc = "copied"
    /\ active' = [active EXCEPT !.phase = "finalizing"]
    /\ Goto(IF Verification = "size" THEN "verify_stage" ELSE "commit")
    /\ UNCHANGED <<storeVars, todo, controlActions, ctxDone, request, files, bounds>>

VerifyStage ==
    /\ pc = "verify_stage" /\ ~ctxDone
    /\ MatchesManifest(stage[Job])
    /\ Goto("commit")
    /\ UNCHANGED <<storeVars, todo, controlVars, files, bounds>>

-----------------------------------------------------------------------------
(* rclone moveto stage -> final: same remote, so each file is renamed.     *)

StartCommit ==
    /\ pc = "commit" /\ ~ctxDone
    /\ todo' = Present(stage[Job], Tree)
    /\ todo' # {}
    /\ Goto("moving")
    /\ UNCHANGED <<storeVars, controlVars, files, bounds>>

CommitFile(p) ==
    /\ pc = "moving" /\ ~ctxDone
    /\ p \in todo /\ stage[Job][p] # NoFile
    /\ dest' = [dest EXCEPT ![p] = stage[Job][p]]
    /\ stage' = [stage EXCEPT ![Job][p] = NoFile]
    /\ todo' = todo \ {p}
    /\ Goto("moving")
    /\ UNCHANGED <<storeVars, controlVars, src, library, bounds>>

Committed ==
    /\ pc = "moving" /\ ~ctxDone
    /\ todo = {}
    /\ IF Verification = "size"
       THEN Goto("verify_final") /\ UNCHANGED todo
       ELSE Goto("record") /\ todo' = ItemPaths
    /\ UNCHANGED <<storeVars, controlVars, files, bounds>>

VerifyFinal ==
    /\ pc = "verify_final" /\ ~ctxDone
    /\ MatchesManifest(dest)
    /\ Goto("record")
    /\ todo' = ItemPaths
    /\ UNCHANGED <<storeVars, controlVars, files, bounds>>

-----------------------------------------------------------------------------
(* One CompleteObject per item, then (move) the source, then CompleteJob.  *)

RecordItem(o) ==
    /\ pc = "record"
    /\ o \in Items(Job) /\ PathOf[o] \in todo
    /\ CompleteObject(o)
    /\ todo' = todo \ {PathOf[o]}
    /\ Goto("record")
    /\ UNCHANGED <<controlVars, files, bounds>>

Recorded ==
    /\ pc = "record"
    /\ todo = {}
    /\ Goto(IF Mode = "move" THEN "release" ELSE "finish")
    /\ UNCHANGED <<storeVars, todo, controlVars, files, bounds>>

\* Variant with a fault: every directory is purged, filtered or not.
StartReleaseIgnoresFilters ==
    /\ pc = "release" /\ ~ctxDone
    /\ todo' = IF IsDir THEN Present(src, Tree) ELSE ItemPaths
    /\ todo' # {}
    /\ Goto("removing")
    /\ UNCHANGED <<storeVars, controlVars, files, bounds>>

\* A filtered directory is deleted item by item, any other one purged, a file deleted.
StartRelease ==
    /\ pc = "release" /\ ~ctxDone
    /\ todo' = IF IsDir /\ ~IsFiltered THEN Present(src, Tree) ELSE ItemPaths
    /\ todo' # {}
    /\ Goto("removing")
    /\ UNCHANGED <<storeVars, controlVars, files, bounds>>

RemoveSource(p) ==
    /\ pc = "removing" /\ ~ctxDone
    /\ p \in todo /\ src[p] # NoFile
    /\ src' = [src EXCEPT ![p] = NoFile]
    /\ todo' = todo \ {p}
    /\ Goto("removing")
    /\ UNCHANGED <<storeVars, controlVars, stage, dest, library, bounds>>

Released ==
    /\ pc = "removing" /\ ~ctxDone
    /\ todo = {}
    /\ Goto("finish")
    /\ UNCHANGED <<storeVars, todo, controlVars, files, bounds>>

Finish ==
    /\ pc = "finish"
    /\ CompleteJob(Job)
    /\ Goto("return_ok")
    /\ UNCHANGED <<todo, controlVars, files, bounds>>

-----------------------------------------------------------------------------
(* Any rclone command may fail at any point, a cancelled context makes it  *)
(* fail; so may the database calls in the middle of the transfer.          *)

RcloneFails ==
    /\ pc \in RcloneSteps
    /\ IF pc = "clean" THEN PurgeStage(Job) ELSE UNCHANGED files
    /\ Goto("return_err")
    /\ todo' = {}
    /\ UNCHANGED <<storeVars, controlVars, bounds>>

StoreFails ==
    /\ pc \in {"record", "finish"}
    /\ Goto("return_err")
    /\ todo' = {}
    /\ OneFault
    /\ UNCHANGED <<storeVars, controlVars, files>>

\* The deferred clearActive and cancel().  A handler that still holds the
\* cancel function of this transfer will call it in vain.
Unwind ==
    /\ pc \in {"return_ok", "return_err"}
    /\ active' = Inactive
    /\ ctxDone' = FALSE
    /\ request' = [c \in Clients |->
                      IF request[c].step = "cancel" THEN IdleRequest ELSE request[c]]
    /\ Goto(IF pc = "return_ok" THEN "discard" ELSE "consume")
    /\ UNCHANGED <<storeVars, todo, controlActions, files, bounds>>

\* Variant with a fault: an action that came too late is left behind.
KeepControlAction ==
    /\ pc = "discard"
    /\ UNCHANGED controlActions
    /\ Rest
    /\ UNCHANGED <<storeVars, active, ctxDone, request, files, bounds>>

DiscardControlAction ==
    /\ pc = "discard"
    /\ controlActions' = [controlActions EXCEPT ![Job] = "none"]
    /\ Rest
    /\ UNCHANGED <<storeVars, active, ctxDone, request, files, bounds>>

\* Variants with a fault: the action is read and not deleted; only a pause is known.
ReadControlAction ==
    /\ pc = "consume"
    /\ UNCHANGED controlActions
    /\ Goto(CASE controlActions[Job] = "pause" -> "settle_pause"
              [] controlActions[Job] = "cancel" -> "settle_cancel"
              [] OTHER -> "settle_fail")
    /\ UNCHANGED <<storeVars, todo, active, ctxDone, request, files, bounds>>

ConsumePauseOnly ==
    /\ pc = "consume"
    /\ controlActions' = [controlActions EXCEPT ![Job] = "none"]
    /\ Goto(IF controlActions[Job] = "pause" THEN "settle_pause" ELSE "settle_fail")
    /\ UNCHANGED <<storeVars, todo, active, ctxDone, request, files, bounds>>

ConsumeControlAction ==
    /\ pc = "consume"
    /\ controlActions' = [controlActions EXCEPT ![Job] = "none"]
    /\ Goto(CASE controlActions[Job] = "pause" -> "settle_pause"
              [] controlActions[Job] = "cancel" -> "settle_cancel"
              [] OTHER -> "settle_fail")
    /\ UNCHANGED <<storeVars, todo, active, ctxDone, request, files, bounds>>

SettlePause ==
    /\ pc = "settle_pause"
    /\ \/ PauseJob(Job)
       \/ jobs[Job].state \notin Pausable /\ UNCHANGED storeVars
    /\ Rest
    /\ UNCHANGED <<controlVars, files, bounds>>

SettleCancel ==
    /\ pc = "settle_cancel"
    /\ \/ CancelJob(Job) /\ Goto("sweep") /\ UNCHANGED todo
       \/ jobs[Job].state \notin Cancellable /\ UNCHANGED storeVars /\ Rest
    /\ UNCHANGED <<controlVars, files, bounds>>

\* Variant with a fault: the attempt that has just failed is not counted.
SettleFailOffByOne ==
    /\ pc = "settle_fail"
    /\ FailJob(Job, picked.attempts <= RetryLimit)
    /\ Rest
    /\ UNCHANGED <<controlVars, files, bounds>>

SettleFail ==
    /\ pc = "settle_fail"
    /\ FailJob(Job, picked.attempts + 1 <= RetryLimit)
    /\ Rest
    /\ UNCHANGED <<controlVars, files, bounds>>

\* The transaction that settles the attempt fails; it is logged, nothing else.
SettleLost ==
    /\ pc \in {"settle_pause", "settle_cancel", "settle_fail"}
    /\ Rest
    /\ OneFault
    /\ UNCHANGED <<storeVars, controlVars, files>>

\* cleanupJobStage, whose error is only logged.
SweepStage ==
    /\ pc = "sweep"
    /\ PurgeStage(Job)
    /\ Rest
    /\ UNCHANGED <<storeVars, controlVars, bounds>>

WorkerStep ==
    \/ PollRetries \/ QueueEmpty \/ PickJob \/ PickedJobUnusable
    \/ StartAttempt \/ StartFails \/ BeginActive \/ CleanStage \/ Transferring
    \/ StartCopy \/ CopyAgain \/ CopyDone \/ Finalizing \/ VerifyStage
    \/ StartCommit \/ Committed \/ VerifyFinal \/ Recorded
    \/ StartRelease \/ Released \/ Finish
    \/ \E p \in Paths : CopyFile(p) \/ CommitFile(p) \/ RemoveSource(p)
    \/ \E o \in Objects : RecordItem(o)
    \/ RcloneFails \/ StoreFails \/ Unwind
    \/ DiscardControlAction \/ ConsumeControlAction
    \/ SettlePause \/ SettleCancel \/ SettleFail \/ SettleLost \/ SweepStage

-----------------------------------------------------------------------------
(* ControlJob, run by an HTTP handler.  Its first critical section decides *)
(* between cancelling the running transfer and changing the row; what it   *)
(* decided is carried out after the mutex is released.  A request that is  *)
(* refused changes nothing and is not a step.                              *)

Ask(c, j, action) ==
    /\ request[c].step = "idle"
    /\ jobs[j].state # "absent"
    /\ asked < MaxRequests
    /\ asked' = asked + 1
    /\ UNCHANGED <<storeVars, workerVars, active, ctxDone, files, crashes, faults>>

AskActive(c, j, action) ==
    /\ active.job = j
    /\ active.phase = "transferring"
    /\ action \in {"pause", "cancel"}
    /\ Ask(c, j, action)
    /\ controlActions' = [controlActions EXCEPT ![j] = action]
    /\ request' = [request EXCEPT ![c] = [IdleRequest EXCEPT !.step = "cancel"]]

AskStore(c, j, action) ==
    /\ active.job # j
    /\ Ask(c, j, action)
    /\ request' = [request EXCEPT ![c] = [step |-> "store", job |-> j, action |-> action]]
    /\ UNCHANGED controlActions

CallCancel(c) ==
    /\ request[c].step = "cancel"
    /\ ctxDone' = TRUE
    /\ request' = [request EXCEPT ![c] = IdleRequest]
    /\ UNCHANGED <<storeVars, workerVars, active, controlActions, files, bounds>>

CallStore(c) ==
    LET j == request[c].job
        Answer(next) == request' = [request EXCEPT ![c] = next]
    IN  /\ request[c].step = "store"
        /\ \/ request[c].action = "retry" /\ RetryJob(j) /\ Answer(IdleRequest)
           \/ request[c].action = "resume" /\ RequeueJob(j) /\ Answer(IdleRequest)
           \/ request[c].action = "pause" /\ PauseJob(j) /\ Answer(IdleRequest)
           \/ /\ request[c].action = "cancel" /\ CancelJob(j)
              /\ Answer([step |-> "purge", job |-> j, action |-> "none"])
        /\ UNCHANGED <<workerVars, active, controlActions, ctxDone, files, bounds>>

\* The row is in no state the action applies to, or the database failed.
StoreRefuses(c) ==
    /\ request[c].step = "store"
    /\ request' = [request EXCEPT ![c] = IdleRequest]
    /\ UNCHANGED <<storeVars, workerVars, active, controlActions, ctxDone, files, bounds>>

PurgeCancelled(c) ==
    /\ request[c].step = "purge"
    /\ PurgeStage(request[c].job)
    /\ request' = [request EXCEPT ![c] = IdleRequest]
    /\ UNCHANGED <<storeVars, workerVars, active, controlActions, ctxDone, bounds>>

HandlerStep(c) == CallCancel(c) \/ CallStore(c) \/ StoreRefuses(c) \/ PurgeCancelled(c)

-----------------------------------------------------------------------------
(* What happens around the worker.                                         *)

\* The scanner queues a payload whose files it has found complete.
Enqueue(j, p) ==
    /\ \A o \in ItemsOf[p] : objects[o] = "discovered"
    /\ CreateJob(j, p)
    /\ UNCHANGED <<workerVars, controlVars, files, bounds>>

\* The clock passes next_retry_at.
RetryDue(j) ==
    /\ jobs[j].state # "absent" /\ jobs[j].retry = "waiting"
    /\ SetJob(j, jobs[j].state, jobs[j].attempts, "due")
    /\ UNCHANGED <<objects, workerVars, controlVars, files, bounds>>

Take(p) ==
    /\ dest[p] # NoFile
    /\ dest' = [dest EXCEPT ![p] = NoFile]
    /\ library' = library \cup {dest[p]}
    /\ UNCHANGED <<storeVars, workerVars, controlVars, src, stage, bounds>>

\* The uploader writes a new file, or a new generation of one.
Arrive(o) ==
    /\ o \in Late /\ objects[o] = "unseen"
    /\ objects' = [objects EXCEPT ![o] = "discovered"]
    /\ src' = [src EXCEPT ![PathOf[o]] = o]
    /\ UNCHANGED <<jobs, workerVars, controlVars, stage, dest, library, bounds>>

\* The process dies between any two steps, restarts and recovers the tables.
Restart ==
    /\ crashes < MaxCrashes
    /\ crashes' = crashes + 1
    /\ RecoverInterrupted
    /\ Rest
    /\ active' = Inactive
    /\ controlActions' = [j \in JobIds |-> "none"]
    /\ ctxDone' = FALSE
    /\ request' = [c \in Clients |-> IdleRequest]
    /\ UNCHANGED <<files, asked, faults>>

Next ==
    \/ WorkerStep
    \/ \E c \in Clients, j \in JobIds, action \in Actions :
          AskActive(c, j, action) \/ AskStore(c, j, action)
    \/ \E c \in Clients : HandlerStep(c)
    \/ \E j \in JobIds, p \in Payloads : Enqueue(j, p)
    \/ \E j \in JobIds : RetryDue(j)
    \/ \E p \in Paths : Take(p)
    \/ \E o \in Objects : Arrive(o)
    \/ Restart

Spec == Init /\ [][Next]_vars

\* The goroutines are scheduled, rclone commands end, the clock advances.
Fairness == /\ WF_vars(WorkerStep)
            /\ \A c \in Clients : WF_vars(HandlerStep(c))
            /\ \A j \in JobIds : WF_vars(RetryDue(j))

FairSpec == Spec /\ Fairness

-----------------------------------------------------------------------------
(* Properties.                                                             *)

InTransfer == TransferSteps \cup {"return_ok", "return_err"}

\* Engine.active names the job the worker is transferring, and a pause or
\* cancel the operator gave to a running attempt is held for that attempt only:
\* it is consumed or discarded before the worker takes another job or the same
\* job again (controlActions is deleted on every way out of transferJob).
ControlMarksAreCurrent ==
    /\ active.job = (IF pc \in InTransfer THEN picked.job ELSE NoJob)
    /\ \A j \in JobIds :
          controlActions[j] # "none" =>
              picked.job = j /\ pc \in InTransfer \cup {"discard", "consume"}

\* A job waits for a retry exactly when its next_retry_at is set, so that
\* PromoteDueRetries finds every job that waits and no job that was paused,
\* cancelled, retried by hand or restarted comes back because of an old time.
RetryScheduled ==
    \A j \in JobIds : jobs[j].state = "retry_wait" <=> jobs[j].retry # "none"

\* Automatic retries are bounded: however pauses, resumes, retries by hand and
\* failures interleave, a job is started at most 1 + RetryLimit times between
\* two resets of its counter, plus once for every restart of the process.
AttemptsBounded ==
    \A j \in JobIds : jobs[j].attempts <= 1 + RetryLimit + crashes

\* The states an item may be in while its job is in a given state.
ItemFits(job, item) ==
    /\ job \in {"queued", "copying"} => item \in {"queued", "copying", "done"}
    /\ job \in {"paused", "cancelled"} => item \in {job, "done"}
    /\ job \in {"retry_wait", "failed", "done"} => item = job

\* The two tables agree whatever order the worker's unconditional updates and
\* the operator's conditional ones commit in: no item of a live job drops out of
\* the pipeline, and a job is done when all its items are and not before.
ItemsMatchJob ==
    \A j \in JobIds : \A o \in Items(j) : ItemFits(jobs[j].state, objects[o])

\* No job is left `copying` without a worker that copies it, unless a database
\* error lost the transaction that ends the attempt.
CopyingIsWorked ==
    \A j \in JobIds : jobs[j].state = "copying" /\ picked.job # j => faults > 0

\* A finished job never runs again, and a failed one only by RetryJob, which
\* also gives it a full retry budget.
EndedJobsStay ==
    [][\A j \in JobIds :
          /\ jobs[j].state = "done" => jobs'[j] = jobs[j]
          /\ jobs[j].state = "failed" /\ jobs'[j] # jobs[j] =>
                jobs'[j].state = "queued" /\ jobs'[j].attempts = 0]_vars

\* README "Features": `move` deletes from the source only what it has committed.
RemovedOnlyWhenDelivered ==
    [][\A p \in Paths :
          src[p] # NoFile /\ src'[p] = NoFile =>
              \/ src[p] \in library
              \/ \E q \in Paths : dest[q] = src[p]]_vars

\* Every job that is queued is eventually done, failed, cancelled or paused: the
\* worker never leaves one waiting, copying or queued for good.
JobsSettle ==
    \A j \in JobIds :
        jobs[j].state = "queued" ~>
            jobs[j].state \in {"done", "failed", "cancelled", "paused"}

\* An accepted cancel ends the job, unless a later pause replaces it, or a restart or
\* a lost transaction undoes what was accepted.  Only a transfer that had already got
\* through completes instead.
AcceptedCancelEnds ==
    \A j \in JobIds :
        controlActions[j] = "cancel" ~>
            \/ controlActions[j] = "pause"
            \/ jobs[j].state \in {"cancelled", "done"}
            \/ crashes > 0 \/ faults > 0

-----------------------------------------------------------------------------
\* The files of the source and what became of them, as Delivery sees it.
Delivered == library \cup {o \in Objects : \E p \in Paths : dest[p] = o}
Held == {o \in Objects : \E p \in Paths : src[p] = o}
Done == {p \in Payloads : \E j \in JobIds : jobs[j].state = "done" /\ jobs[j].payload = p}

Promise == INSTANCE Delivery WITH held <- Held, delivered <- Delivered, done <- Done

\* Worker keeps what Delivery promises, through every failure, retry, cancel and
\* restart: nothing that has not reached the destination leaves the source, and
\* nothing is reported done that has not.
KeepsPromise == Promise!Spec
=============================================================================
