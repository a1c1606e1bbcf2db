------------------------------- MODULE Scanner ------------------------------
(***************************************************************************)
(* scanRule of internal/engine for one rule that copies: it lists the      *)
(* source, asks rTorrent, remembers every generation it sees and queues    *)
(* what rTorrent or the stability timer says is complete.  Around it, an   *)
(* uploader goes on changing the source, torrents come, complete and go,   *)
(* and the worker and the operators change the same tables.                *)
(*                                                                         *)
(* One step is one rclone or XML-RPC call, or one database transaction;    *)
(* the scanner's local variables are lost when a scan fails or the process *)
(* restarts.  The worker appears by the transactions it commits: what it   *)
(* does between them is the subject of Worker.                             *)
(***************************************************************************)
EXTENDS Naturals, FiniteSets

CONSTANTS
    JobIds, Objects, NoPayload,   \* of JobStore
    Paths,          \* relative paths on the source
    PathOf,         \* [Objects -> Paths]
    Selected,       \* the paths that includes and excludes let through
    Torrents,
    NoTorrent,      \* the torrent of a job of kind "file"
    Under,          \* the paths under a torrent's root: [Torrents -> SUBSET Paths]
    Required,       \* rtorrent.required: no scan without rTorrent
    IgnoreExisting, \* initial_behavior is ignore_existing
    MaxFailures     \* failed calls and restarts, a bound

ASSUME SourceAssumption ==
    /\ PathOf \in [Objects -> Paths]
    /\ Selected \subseteq Paths

ASSUME TorrentsAssumption ==
    /\ NoTorrent \notin Torrents
    /\ Under \in [Torrents -> SUBSET Paths]

ASSUME FailuresAssumption == MaxFailures \in Nat

VARIABLES
    jobs, objects,  \* of JobStore
    initialized,    \* the row "rule:<id>:initialized" of `meta`
    pc,             \* where the scan is
    todo,           \* what the running loop has still to treat
    item,           \* the object the bootstrap is about to ignore
    seen,           \* its objects, with the state UpsertSeen returned
    rtOK, known,    \* whether rTorrent answered, and its torrents
    assigned,       \* the objects queued with a torrent
    src,            \* the generations on the source
    fresh,          \* the generations that were never there
    torrents,       \* the torrents in rTorrent
    aged,           \* the objects first seen stability_seconds ago
    existing,       \* what was listed before the rule was initialized
    failures

\* job_key: "file:" and the generation, or the torrent's hash and its generations.
JobKeys == [torrent : Torrents \cup {NoTorrent}, items : (SUBSET Objects) \ {{}}]

FileKey(o) == [torrent |-> NoTorrent, items |-> {o}]
TorrentKey(t, group) == [torrent |-> t, items |-> group]

INSTANCE JobStore WITH Payloads <- JobKeys, ItemsOf <- [k \in JobKeys |-> k.items]

tables == <<jobs, objects>>
localVars == <<pc, todo, item, seen, rtOK, known, assigned>>
sourceVars == <<src, fresh, torrents, aged>>
vars == <<jobs, objects, initialized, pc, todo, item, seen, rtOK, known, assigned,
          src, fresh, torrents, aged, existing, failures>>

TorrentStates == {"absent", "downloading", "complete", "removed"}
InRTorrent == {"downloading", "complete"}
NotSeen == "unseen"
NoItem == NoPayload

Generations(o) == {x \in Objects : PathOf[x] = PathOf[o]}
Belongs(o, t) == PathOf[o] \in Under[t]
NoneSeen == [o \in Objects |-> NotSeen]
NoneKnown == [t \in Torrents |-> "absent"]
Seen == {o \in Objects : seen[o] # NotSeen}

TypeOK ==
    /\ JobStoreTypeOK
    /\ initialized \in BOOLEAN
    /\ pc \in {"idle", "torrents", "see", "ignore", "groups", "files"}
    /\ pc \in {"torrents", "see", "ignore", "files"} => todo \subseteq Objects
    /\ pc = "groups" => todo \subseteq Torrents
    /\ pc = "ignore" => item \in todo
    /\ seen \in [Objects -> ObjectStates]
    /\ pc = "idle" => todo = {} /\ seen = NoneSeen
    /\ rtOK \in BOOLEAN
    /\ known \in [Torrents -> TorrentStates]
    /\ assigned \subseteq Objects
    /\ src \subseteq Objects /\ fresh \subseteq Objects
    /\ torrents \in [Torrents -> TorrentStates]
    /\ aged \subseteq Objects
    /\ existing \subseteq Objects
    /\ failures \in 0..MaxFailures

\* The process has started and the rule is new.
Init ==
    /\ jobs = [j \in JobIds |-> NoJobRow]
    /\ objects = [o \in Objects |-> "unseen"]
    /\ initialized = FALSE
    /\ pc = "idle" /\ todo = {} /\ item = NoItem /\ seen = NoneSeen
    /\ rtOK = FALSE /\ known = NoneKnown /\ assigned = {}
    /\ src = {} /\ fresh = Objects
    /\ torrents = NoneKnown
    /\ aged = {} /\ existing = {}
    /\ failures = 0

-----------------------------------------------------------------------------
(* scanRule.                                                               *)

Listing == {o \in src : PathOf[o] \in Selected}

\* Variant with a fault: what earlier scans saw is kept.
ForgetButSeen ==
    /\ pc' = "idle" /\ todo' = {} /\ item' = NoItem
    /\ rtOK' = FALSE /\ known' = NoneKnown /\ assigned' = {}
    /\ UNCHANGED seen

\* The local variables of scanRule end with it.
Forget ==
    /\ pc' = "idle" /\ todo' = {} /\ item' = NoItem /\ seen' = NoneSeen
    /\ rtOK' = FALSE /\ known' = NoneKnown /\ assigned' = {}

\* The source is listed once, before rTorrent is asked.
List ==
    /\ pc = "idle"
    /\ pc' = "torrents" /\ todo' = Listing
    /\ existing' = IF initialized THEN existing ELSE existing \cup Listing
    /\ UNCHANGED <<tables, initialized, item, seen, rtOK, known, assigned, sourceVars,
                   failures>>

FetchTorrents ==
    /\ pc = "torrents"
    /\ pc' = "see" /\ rtOK' = TRUE /\ known' = torrents
    /\ UNCHANGED <<tables, initialized, todo, item, seen, assigned, sourceVars,
                   existing, failures>>

\* Without rTorrent a rule that does not require it goes by stability alone.
RTorrentDown ==
    /\ pc = "torrents" /\ ~Required
    /\ failures < MaxFailures /\ failures' = failures + 1
    /\ pc' = "see" /\ rtOK' = FALSE /\ known' = NoneKnown
    /\ UNCHANGED <<tables, initialized, todo, item, seen, assigned, sourceVars,
                   existing>>

Bootstrap == ~initialized /\ IgnoreExisting

\* Variant with a fault: the objects that are not new are ignored.
IgnoredIfKnown(o) == Bootstrap /\ objects[o] # "unseen"

\* Variant with a fault: every scan is taken for the first one.
IgnoredInEveryScan(o) == IgnoreExisting /\ objects[o] = "unseen"

IgnoredAtOnce(o) == Bootstrap /\ objects[o] = "unseen"

\* UpsertSeen; the bootstrap ignores a new object in a transaction of its own.
SeeItem(o) ==
    /\ pc = "see" /\ o \in todo
    /\ UpsertSeen(o, Generations(o))
    /\ IF IgnoredAtOnce(o)
       THEN pc' = "ignore" /\ item' = o /\ UNCHANGED <<todo, seen>>
       ELSE /\ todo' = todo \ {o}
            /\ seen' = IF Bootstrap THEN seen ELSE [seen EXCEPT ![o] = objects'[o]]
            /\ UNCHANGED <<pc, item>>
    /\ UNCHANGED <<initialized, rtOK, known, assigned, sourceVars, existing, failures>>

IgnoreItem ==
    /\ pc = "ignore"
    /\ SetStateByKey(item, "ignored")
    /\ pc' = "see" /\ todo' = todo \ {item} /\ item' = NoItem
    /\ UNCHANGED <<initialized, seen, rtOK, known, assigned, sourceVars, existing, failures>>

\* The first scan that gets here ends; it queues nothing.
Initialize ==
    /\ pc = "see" /\ todo = {} /\ ~initialized
    /\ initialized' = TRUE /\ Forget
    /\ UNCHANGED <<tables, sourceVars, existing, failures>>

StartGroups ==
    /\ pc = "see" /\ todo = {} /\ initialized
    /\ pc' = "groups" /\ assigned' = {}
    /\ todo' = IF rtOK THEN {t \in Torrents : known[t] = "complete"} ELSE {}
    /\ UNCHANGED <<tables, initialized, item, seen, rtOK, known, sourceVars,
                   existing, failures>>

\* Variant with a fault: a key without the size and time of the file.
QueueByPath(key) ==
    LET taken == \E j \in JobIds : \E x \in Items(j), y \in key.items : PathOf[x] = PathOf[y]
    IN  \/ ~taken /\ \E j \in JobIds : CreateJob(j, key)
        \/ taken /\ UNCHANGED tables

\* CreateJob returns the row that is already there when the key is taken.
Queue(key) ==
    \/ \E j \in JobIds : CreateJob(j, key)
    \/ /\ \E j \in JobIds : jobs[j].payload = key
       /\ UNCHANGED tables

Processable == {"discovered", "retry_wait"}

\* Variant with a fault: matchingSeen takes every generation the table knows.
GroupOfAllGenerations(t) == {o \in Objects : objects[o] # "unseen" /\ Belongs(o, t)}

Group(t) == {o \in Seen : Belongs(o, t)}

QueueGroup(t) ==
    /\ pc = "groups" /\ t \in todo
    /\ todo' = todo \ {t}
    /\ IF Group(t) # {} /\ \A o \in Group(t) : seen[o] \in Processable
       THEN Queue(TorrentKey(t, Group(t))) /\ assigned' = assigned \cup Group(t)
       ELSE UNCHANGED <<tables, assigned>>
    /\ UNCHANGED <<initialized, pc, item, seen, rtOK, known, sourceVars, existing, failures>>

StartFiles ==
    /\ pc = "groups" /\ todo = {}
    /\ pc' = "files" /\ todo' = Seen
    /\ UNCHANGED <<tables, initialized, item, seen, rtOK, known, assigned, sourceVars,
                   existing, failures>>

\* Variant with a fault: only complete torrents keep their files from stability.
KnownToRTorrentComplete(o) ==
    rtOK /\ \E t \in Torrents : known[t] = "complete" /\ Belongs(o, t)

\* torrentForPath: readiness of the file belongs to rTorrent.
KnownToRTorrent(o) == rtOK /\ \E t \in Torrents : known[t] \in InRTorrent /\ Belongs(o, t)

Stable(o) == /\ o \notin assigned /\ seen[o] \in Processable
             /\ ~KnownToRTorrent(o)
             /\ o \in aged

QueueFile(o) ==
    /\ pc = "files" /\ o \in todo
    /\ todo' = todo \ {o}
    /\ IF Stable(o) THEN Queue(FileKey(o)) ELSE UNCHANGED tables
    /\ UNCHANGED <<initialized, pc, item, seen, rtOK, known, assigned, sourceVars,
                   existing, failures>>

EndScan ==
    /\ pc = "files" /\ todo = {}
    /\ Forget
    /\ UNCHANGED <<tables, initialized, sourceVars, existing, failures>>

Scan == \/ List \/ FetchTorrents \/ IgnoreItem \/ Initialize \/ StartGroups
        \/ StartFiles \/ EndScan
        \/ \E o \in Objects : SeeItem(o) \/ QueueFile(o)
        \/ \E t \in Torrents : QueueGroup(t)

\* Any call of the scan may return an error; scanAll logs it.
ScanFails ==
    /\ pc # "idle"
    /\ failures < MaxFailures /\ failures' = failures + 1
    /\ Forget
    /\ UNCHANGED <<tables, initialized, sourceVars, existing>>

-----------------------------------------------------------------------------
(* The source.                                                             *)

\* A file is written, or written on; the payload of a torrent only while it
\* is downloading.
Upload(o) ==
    /\ o \in fresh
    /\ \A t \in Torrents : Belongs(o, t) => torrents[t] = "downloading"
    /\ fresh' = fresh \ {o} /\ src' = (src \ Generations(o)) \cup {o}
    /\ UNCHANGED <<tables, initialized, localVars, torrents, aged, existing, failures>>

MoveTorrent(t, from, to) ==
    /\ torrents[t] \in from
    /\ torrents' = [torrents EXCEPT ![t] = to]
    /\ UNCHANGED <<tables, initialized, localVars, src, fresh, aged, existing, failures>>

AddTorrent(t) == MoveTorrent(t, {"absent"}, "downloading")

CompleteTorrent(t) ==
    /\ \A p \in Under[t] : \E o \in src : PathOf[o] = p
    /\ MoveTorrent(t, {"downloading"}, "complete")

RemoveTorrent(t) == MoveTorrent(t, InRTorrent, "removed")

\* stability_seconds have passed since the object was first seen.
Age(o) ==
    /\ objects[o] # "unseen" /\ o \notin aged
    /\ aged' = aged \cup {o}
    /\ UNCHANGED <<tables, initialized, localVars, src, fresh, torrents, existing, failures>>

-----------------------------------------------------------------------------
(* The worker, the operators and the restart.  The scanner asks of an      *)
(* object only whether it waits for a retry, and of a job whether its key  *)
(* is taken: one that is copied, paused or has ended is for it like one    *)
(* that is queued.                                                         *)

otherVars == <<initialized, localVars, sourceVars, existing, failures>>

AttemptFails(j) ==
    /\ jobs[j].state = "queued" /\ FailJob(j, TRUE)
    /\ UNCHANGED otherVars

JobResumes(j) == RetryJob(j) /\ UNCHANGED otherVars

Restart ==
    /\ failures < MaxFailures /\ failures' = failures + 1
    /\ RecoverInterrupted
    /\ Forget
    /\ UNCHANGED <<initialized, sourceVars, existing>>

Next ==
    \/ Scan \/ RTorrentDown \/ ScanFails
    \/ \E o \in Objects : Upload(o) \/ Age(o)
    \/ \E t \in Torrents : AddTorrent(t) \/ CompleteTorrent(t) \/ RemoveTorrent(t)
    \/ \E j \in JobIds : AttemptFails(j) \/ JobResumes(j)
    \/ Restart

Spec == Init /\ [][Next]_vars

\* The scheduler goroutine runs and its calls end; the stability timer runs.
FairSpec == Spec /\ WF_vars(Scan) /\ \A o \in Objects : WF_vars(Age(o))

-----------------------------------------------------------------------------
(* Properties.                                                             *)

Created(j) == jobs[j].state = "absent" /\ jobs'[j].state # "absent"

\* engine.go:353: "Incomplete torrents are deliberately not allowed to fall
\* through to stability."  No file of a torrent is queued by itself while the
\* torrent is in rTorrent, however late it was added or asked for, unless
\* rTorrent did not answer this scan.
ReadinessIsRTorrents ==
    [][\A j \in JobIds : \A o \in Objects, t \in Torrents :
          Created(j) /\ jobs'[j].payload = FileKey(o) /\ Belongs(o, t)
              => ~rtOK \/ torrents[t] = "removed"]_vars

\* db.go:295: "Older unprocessed generations for the same path must never become
\* "stable" later."  No job is created for a generation that was superseded.
SupersededIsNotQueued ==
    [][\A j \in JobIds : \A o \in Objects :
          Created(j) /\ o \in jobs'[j].payload.items => objects[o] # "superseded"]_vars

\* The same line: two generations of a file never wait to be queued, whatever
\* the order of uploads, listings and failures, except for one that was queued
\* before and comes back from a failed attempt.
OneDiscoveredGeneration ==
    \A o1, o2 \in Objects :
        objects[o1] = "discovered" /\ objects[o2] = "discovered" /\ PathOf[o1] = PathOf[o2]
            => o1 = o2

Taken(o) == \E j \in JobIds : o \in Items(j)

\* README "ignore_existing": what was there when the rule was initialized is
\* never queued, however the files and the torrents around it change, as long as
\* no call failed and the process was not restarted.
ExistingIsIgnored == failures = 0 /\ IgnoreExisting => \A o \in existing : ~Taken(o)

\* README:9: "only things that appear from now on".  The same without exception.
OnlyWhatAppears == IgnoreExisting => \A o \in existing : ~Taken(o)

\* A selected file that stays as it is and belongs to no torrent, or no longer
\* to one, gets a job, or was there before the rule.
Loose(o) == o \in src /\ \A t \in Torrents : Belongs(o, t) => torrents[t] \notin InRTorrent

StableFilesAreQueued ==
    \A o \in Objects :
        Loose(o) /\ PathOf[o] \in Selected ~> ~Loose(o) \/ Taken(o) \/ o \in existing

\* The group of a completed torrent of whose files none was taken, or there
\* before the rule, is queued unless the torrent is removed.
Untouched(t) == \A o \in Objects : Belongs(o, t) => ~Taken(o) /\ o \notin existing

CompletedPayloadsAreTaken ==
    \A t \in Torrents :
        torrents[t] = "complete" /\ Untouched(t) ~> torrents[t] = "removed" \/ ~Untouched(t)

\* README: "One completed rTorrent payload becomes one Copyarr job, with all
\* files verified as a manifest."  The job of a completed torrent holds all
\* that the payload then is.
PayloadJobIsWhole ==
    [][\A j \in JobIds : \A t \in Torrents :
          Created(j) /\ jobs'[j].payload.torrent = t /\ torrents[t] = "complete"
              => jobs'[j].payload.items = {o \in Listing : Belongs(o, t)}]_vars
=============================================================================
