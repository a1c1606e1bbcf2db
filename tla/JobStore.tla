------------------------------ MODULE JobStore ------------------------------
(***************************************************************************)
(* The tables of internal/db that the transfer pipeline lives on: `jobs`,  *)
(* `job_items` and `objects`.  Every operator that primes a variable is    *)
(* one committed SQLite transaction of db.go, with the WHERE clauses of    *)
(* its statements.  A transaction that fails changes nothing, so the       *)
(* modules that call these operators model a database error as the absence *)
(* of the step.                                                            *)
(*                                                                         *)
(* Columns that no decision reads (timestamps, last_error, dest_path,      *)
(* sizes, objects.attempts) are left out.  jobs.next_retry_at is read in   *)
(* one place only, the comparison with the clock in PromoteDueRetries, and *)
(* is kept as NULL ("none"), a time still to come ("waiting") or a time    *)
(* that has passed ("due").                                                *)
(***************************************************************************)
EXTENDS Naturals, FiniteSets

CONSTANTS
    JobIds,     \* primary keys of `jobs`, assigned in increasing order
    Objects,    \* rows of `objects`: one generation (path, size, mtime) of a file
    Payloads,   \* job keys: UNIQUE(rule_id, job_key)
    NoPayload,  \* the key of a row that does not exist yet
    ItemsOf     \* the `job_items` of a job key: [Payloads -> SUBSET Objects]

ASSUME JobIdsAssumption == JobIds \subseteq Nat \ {0}
ASSUME NoPayloadAssumption == NoPayload \notin Payloads
ASSUME ItemsOfAssumption ==
    ItemsOf \in [Payloads -> (SUBSET Objects) \ {{}}]

VARIABLES
    jobs,       \* [JobIds -> JobRow]
    objects     \* [Objects -> ObjectStates]

storeVars == <<jobs, objects>>

JobStates == {"absent", "queued", "copying", "retry_wait", "paused",
              "failed", "cancelled", "done"}

ObjectStates == {"unseen", "discovered", "ignored", "superseded", "queued", "copying",
                 "retry_wait", "paused", "failed", "cancelled", "done"}

JobRow == [payload  : Payloads \cup {NoPayload},
           state    : JobStates,
           attempts : Nat,
           retry    : {"none", "waiting", "due"}]

NoJobRow == [payload |-> NoPayload, state |-> "absent",
             attempts |-> 0, retry |-> "none"]

Items(j) == IF jobs[j].state = "absent" THEN {} ELSE ItemsOf[jobs[j].payload]

JobStoreTypeOK == /\ jobs \in [JobIds -> JobRow]
                  /\ objects \in [Objects -> ObjectStates]
                  /\ \A j \in JobIds :
                        jobs[j].state # "absent" => jobs[j].payload \in Payloads

-----------------------------------------------------------------------------
(* The two halves of every transaction: the job row, and                   *)
(* UPDATE objects SET state=to WHERE id IN (items of j) AND state IN from. *)

Row(j, state, attempts, retry) == [payload |-> jobs[j].payload, state |-> state,
                                   attempts |-> attempts, retry |-> retry]

SetJob(j, state, attempts, retry) ==
    jobs' = [jobs EXCEPT ![j] = Row(j, state, attempts, retry)]

SetItems(j, from, to) ==
    objects' = [o \in Objects |->
                   IF o \in Items(j) /\ objects[o] \in from THEN to ELSE objects[o]]

-----------------------------------------------------------------------------
(* The scanner's transactions.                                             *)

\* Variant with a fault: the older generations of the file are left as they are.
UpsertSeenKeepsOlder(o, generations) ==
    /\ objects' = [objects EXCEPT ![o] = IF @ = "unseen" THEN "discovered" ELSE @]
    /\ UNCHANGED jobs

\* A generation not seen before supersedes the unprocessed ones of its file.
UpsertSeen(o, generations) ==
    LET older == {x \in generations \ {o} : objects[x] \in {"discovered", "retry_wait"}}
    IN  /\ objects' = IF objects[o] # "unseen" THEN objects
                      ELSE [x \in Objects |-> IF x = o THEN "discovered"
                                              ELSE IF x \in older THEN "superseded"
                                              ELSE objects[x]]
        /\ UNCHANGED jobs

SetStateByKey(o, state) == /\ objects' = [objects EXCEPT ![o] = state]
                           /\ UNCHANGED jobs

\* AUTOINCREMENT: the least key that no row has taken.
IsNextId(j) == /\ jobs[j].state = "absent"
               /\ \A k \in JobIds : k < j => jobs[k].state # "absent"

\* The job key is unique: a second call returns the existing row unchanged.
CreateJob(j, p) ==
    /\ IsNextId(j)
    /\ \A k \in JobIds : jobs[k].payload # p
    /\ jobs' = [jobs EXCEPT ![j] = [payload |-> p, state |-> "queued",
                                    attempts |-> 0, retry |-> "none"]]
    /\ objects' = [o \in Objects |->
                      IF o \in ItemsOf[p] /\ objects[o] \in {"discovered", "retry_wait"}
                      THEN "queued" ELSE objects[o]]

\* SELECT ... WHERE state='queued' ORDER BY id LIMIT 1
IsNextQueued(j) == /\ jobs[j].state = "queued"
                   /\ \A k \in JobIds : jobs[k].state = "queued" => j <= k

\* No condition on the state the row is in: neither here nor in the next three.
StartJob(j) == /\ SetJob(j, "copying", jobs[j].attempts + 1, "none")
               /\ SetItems(j, ObjectStates, "copying")

CompleteObject(o) == /\ objects' = [objects EXCEPT ![o] = "done"]
                     /\ UNCHANGED jobs

CompleteJob(j) == /\ SetJob(j, "done", jobs[j].attempts, "none")
                  /\ UNCHANGED objects

\* Variant with a fault: the wait is stored without its time.
FailJobWithoutTime(j, retryable) ==
    LET state == IF retryable THEN "retry_wait" ELSE "failed"
    IN  /\ SetJob(j, state, jobs[j].attempts, "none")
        /\ SetItems(j, ObjectStates, state)

FailJob(j, retryable) ==
    LET state == IF retryable THEN "retry_wait" ELSE "failed"
    IN  /\ SetJob(j, state, jobs[j].attempts, IF retryable THEN "waiting" ELSE "none")
        /\ SetItems(j, ObjectStates, state)

\* Variant with a fault: the items of a promoted job are forgotten.
PromoteDueRetriesJobsOnly ==
    /\ jobs' = [j \in JobIds |->
                   IF jobs[j].state = "retry_wait" /\ jobs[j].retry = "due"
                   THEN Row(j, "queued", jobs[j].attempts, "none")
                   ELSE jobs[j]]
    /\ UNCHANGED objects

PromoteDueRetries ==
    LET due == {j \in JobIds : jobs[j].state = "retry_wait" /\ jobs[j].retry = "due"}
    IN  /\ jobs' = [j \in JobIds |->
                       IF j \in due
                       THEN Row(j, "queued", jobs[j].attempts, "none")
                       ELSE jobs[j]]
        /\ objects' = [o \in Objects |->
                          IF objects[o] = "retry_wait" /\ \E j \in due : o \in Items(j)
                          THEN "queued" ELSE objects[o]]

-----------------------------------------------------------------------------
(* The operator's transactions.  Each refuses (rolls back) when the row is *)
(* not in a state it applies to.                                           *)

Retryable == {"retry_wait", "failed"}
Pausable == {"queued", "retry_wait", "copying"}
Cancellable == Pausable \cup {"paused"}

\* Variants with a fault: next_retry_at, or the attempts, are kept.
RetryJobKeepsTime(j) == /\ jobs[j].state \in Retryable
                        /\ SetJob(j, "queued", 0, jobs[j].retry)
                        /\ SetItems(j, Retryable, "queued")

RetryJobKeepsAttempts(j) == /\ jobs[j].state \in Retryable
                            /\ SetJob(j, "queued", jobs[j].attempts, "none")
                            /\ SetItems(j, Retryable, "queued")

RetryJob(j) == /\ jobs[j].state \in Retryable
               /\ SetJob(j, "queued", 0, "none")
               /\ SetItems(j, Retryable, "queued")

RequeueJob(j) == /\ jobs[j].state = "paused"
                 /\ SetJob(j, "queued", jobs[j].attempts, "none")
                 /\ SetItems(j, {"paused"}, "queued")

\* Variant with a fault: an attempt is given back to a job that has none running.
PauseJobAlwaysRefunds(j) == /\ jobs[j].state \in Pausable
                            /\ SetJob(j, "paused", jobs[j].attempts - 1, "none")
                            /\ SetItems(j, Pausable, "paused")

\* Pausing a running attempt gives the attempt back.
PauseJob(j) ==
    /\ jobs[j].state \in Pausable
    /\ SetJob(j, "paused",
              IF jobs[j].state = "copying" /\ jobs[j].attempts > 0
              THEN jobs[j].attempts - 1 ELSE jobs[j].attempts,
              "none")
    /\ SetItems(j, Pausable, "paused")

\* Variant with a fault: the items of a paused job are left paused.
CancelJobNotPausedItems(j) == /\ jobs[j].state \in Cancellable
                              /\ SetJob(j, "cancelled", jobs[j].attempts, "none")
                              /\ SetItems(j, Pausable, "cancelled")

CancelJob(j) == /\ jobs[j].state \in Cancellable
                /\ SetJob(j, "cancelled", jobs[j].attempts, "none")
                /\ SetItems(j, Cancellable, "cancelled")

-----------------------------------------------------------------------------
\* Variant with a fault: only objects without a job are recovered.
RecoverOrphansOnly ==
    /\ UNCHANGED jobs
    /\ objects' = [o \in Objects |->
                      IF /\ objects[o] \in {"queued", "copying", "retry_wait"}
                         /\ \A j \in JobIds : o \notin Items(j)
                      THEN "discovered" ELSE objects[o]]

\* At start-up, before any worker runs.
RecoverInterrupted ==
    /\ jobs' = [j \in JobIds |-> IF jobs[j].state = "copying"
                                 THEN Row(j, "queued", jobs[j].attempts, jobs[j].retry)
                                 ELSE jobs[j]]
    /\ objects' = [o \in Objects |->
                      IF /\ objects[o] \in {"queued", "copying", "retry_wait"}
                         /\ \A j \in JobIds : o \notin Items(j)
                      THEN "discovered" ELSE objects[o]]
=============================================================================
