------------------------------ MODULE Pipeline ------------------------------
(***************************************************************************)
(* The scanner and the worker of one rule together, on one set of tables   *)
(* and one source.  The jobs Scanner queues are those Worker transfers,    *)
(* what Worker does to objects is what Scanner reads, and the uploader     *)
(* replaces files under both.  A step is a step of one of them; the        *)
(* process restarts as a whole.                                            *)
(*                                                                         *)
(* The rule copies and does not use rTorrent: every job is that of a file. *)
(* Operators and importers are left to Worker, and the scan that sets up a *)
(* new rule to Scanner: uploads begin after it.                            *)
(***************************************************************************)
EXTENDS Naturals, FiniteSets

CONSTANTS
    JobIds, Objects, NoPayload, Paths, PathOf, Selected,
    NoTorrent, MaxFailures,                             \* of Scanner
    NoFile, SizeOf, RetryLimit, MaxCrashes, MaxFaults   \* of Worker

ASSUME FilesAssumption ==
    /\ NoFile \notin Objects
    /\ PathOf \in [Objects -> Paths]

VARIABLES
    jobs, objects, src,                                 \* of both
    initialized, scanPc, unseen, item, seen, rtOK, known, assigned,
    fresh, torrents, aged, existing, failures,          \* of Scanner
    pc, picked, todo, active, controlActions, ctxDone, request,
    stage, dest, library, asked, crashes, faults        \* of Worker

scannerVars == <<initialized, scanPc, unseen, item, seen, rtOK, known, assigned,
                 fresh, torrents, aged, existing, failures>>
workerVars == <<pc, picked, todo, active, controlActions, ctxDone, request,
                stage, dest, library, asked, crashes, faults>>
vars == <<jobs, objects, src, scannerVars, workerVars>>

\* The generations on the source, which Worker has by path.
OnSource == {o \in Objects : \E p \in Paths : src[p] = o}

S == INSTANCE Scanner WITH
        pc <- scanPc, todo <- unseen, src <- OnSource,
        Torrents <- {}, Under <- [t \in {} |-> {}], Required <- TRUE, IgnoreExisting <- FALSE

FileKeys == [torrent : {NoTorrent}, items : (SUBSET Objects) \ {{}}]
ItemsOf == [k \in FileKeys |-> k.items]
TreeOf == [k \in FileKeys |-> {PathOf[o] : o \in k.items}]

W == INSTANCE Worker WITH
        Payloads <- FileKeys, DirPayloads <- {}, Late <- Objects, Filtered <- FileKeys,
        Mode <- "copy", Verification <- "size", Clients <- {}, MaxRequests <- 0

Init == W!Init /\ S!Init

ScanStep == UNCHANGED <<src, workerVars>> /\ S!Scan
ScanFails == UNCHANGED <<src, workerVars>> /\ S!ScanFails
WorkerStep == UNCHANGED scannerVars /\ W!WorkerStep

Upload(o) ==
    /\ initialized
    /\ src' = [src EXCEPT ![PathOf[o]] = o]
    /\ S!Upload(o)
    /\ UNCHANGED workerVars

\* Stability ages and the times of retries.
Clock ==
    \/ \E o \in Objects : UNCHANGED <<src, workerVars>> /\ S!Age(o)
    \/ \E j \in JobIds : UNCHANGED scannerVars /\ W!RetryDue(j)

Restart == W!Restart /\ S!Restart

Next ==
    \/ ScanStep \/ ScanFails \/ WorkerStep \/ Clock \/ Restart
    \/ \E o \in Objects : Upload(o)

Spec == Init /\ [][Next]_vars

\* The goroutines and the clock go on; failures and uploads need not.
FairSpec == Spec /\ WF_vars(ScanStep) /\ WF_vars(WorkerStep) /\ WF_vars(Clock)

-----------------------------------------------------------------------------
\* A generation is reported done only while it is that very generation that the
\* destination holds, although the source may be replaced at any time of the attempt, and
\* a job of an older generation that waits for its retry finds a newer one to copy.
DoneIsDelivered ==
    [][\A o \in Objects : objects[o] # "done" /\ objects'[o] = "done" => dest[PathOf[o]] = o]_vars

\* What Scanner shows with a few of the worker's transactions holds with all of them: two
\* generations of a file never wait to be queued, also when the job of one that has been
\* superseded is promoted, started and fails again.
OneGenerationWaits == S!OneDiscoveredGeneration

\* A file that goes on changing is caught up with: again and again what is on the source
\* has been delivered, or its own job has used up its retries.
GivenUp(o) == \E j \in JobIds : o \in S!Items(j) /\ jobs[j].state = "failed"

NewestArrives ==
    \A p \in Selected : []<>(src[p] = NoFile \/ objects[src[p]] = "done" \/ GivenUp(src[p]))
=============================================================================
