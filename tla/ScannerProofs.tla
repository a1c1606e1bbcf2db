---------------------------- MODULE ScannerProofs ---------------------------
(***************************************************************************)
(* Theorems about Scanner, for any number of objects, torrents and         *)
(* failures.  ScanInv is the inductive invariant they follow from: the     *)
(* tables first (OneDiscoveredGeneration, WaitingIsTaken), then what a     *)
(* scan knows of rTorrent (ListedIsUploaded, AskedAfterListing).  Two more *)
(* stand on it: HistoryInv for what was superseded, ExistingInv for what   *)
(* was there before the rule.                                              *)
(***************************************************************************)
EXTENDS Scanner, TLAPS

\* An object that waits for a job's turn is in a job.
WaitingIsTaken ==
    \A o \in Objects : objects[o] \in {"queued", "copying", "retry_wait"} => Taken(o)

\* What is, or was found, on the source was uploaded, and a torrent's files only
\* after the torrent was added.
ListedIsUploaded ==
    /\ src \cap fresh = {} /\ Seen \cap fresh = {}
    /\ pc \in {"torrents", "see", "ignore", "files"} => todo \cap fresh = {}
    /\ \A o \in Objects \ fresh, t \in Torrents : Belongs(o, t) => torrents[t] # "absent"

\* rTorrent was asked after the listing, so it named the torrent of every file
\* that the scan still treats.
Listed == Seen \cup (IF pc \in {"see", "ignore"} THEN todo ELSE {})

AskedAfterListing ==
    /\ pc \in {"idle", "torrents"} => ~rtOK /\ seen = NoneSeen
    /\ pc = "files" => todo \subseteq Seen
    /\ rtOK => \A t \in Torrents :
                  /\ known[t] = "removed" => torrents[t] = "removed"
                  /\ \A o \in Listed : Belongs(o, t) => known[t] # "absent"

ScanInv == TypeOK /\ OneDiscoveredGeneration /\ WaitingIsTaken /\ ListedIsUploaded
              /\ AskedAfterListing

-----------------------------------------------------------------------------
(* The transactions.                                                       *)

TablesInv == JobStoreTypeOK /\ OneDiscoveredGeneration /\ WaitingIsTaken

LEMMA KeysAreGroups ==
    /\ \A o \in Objects : FileKey(o) \in JobKeys
    /\ \A t \in Torrents, g \in SUBSET Objects : g # {} => TorrentKey(t, g) \in JobKeys
BY DEF JobKeys, FileKey, TorrentKey

LEMMA CreateTables ==
    ASSUME TablesInv, NEW key \in JobKeys, NEW j \in JobIds, CreateJob(j, key)
    PROVE  TablesInv'
<1> USE DEF TablesInv, JobStoreTypeOK, CreateJob, IsNextId
<1>1. key \in JobKeys /\ key.items \subseteq Objects
  BY DEF JobKeys
<1>2. /\ jobs' = [jobs EXCEPT ![j] = [payload |-> key, state |-> "queued",
                                      attempts |-> 0, retry |-> "none"]]
      /\ objects' = [o \in Objects |->
                        IF o \in key.items /\ objects[o] \in {"discovered", "retry_wait"}
                        THEN "queued" ELSE objects[o]]
  BY <1>1
<1>3. JobStoreTypeOK'
  BY <1>1, <1>2 DEF JobRow, JobStates, ObjectStates
<1>4. OneDiscoveredGeneration'
  BY <1>2 DEF OneDiscoveredGeneration
<1>5. WaitingIsTaken'
  <2> SUFFICES ASSUME NEW o \in Objects, objects'[o] \in {"queued", "copying", "retry_wait"}
               PROVE  Taken(o)'
    BY DEF WaitingIsTaken
  <2>1. CASE o \in key.items
    <3>1. jobs'[j].state = "queued" /\ jobs'[j].payload = key
      BY <1>2
    <3> QED BY <2>1, <3>1, <1>1 DEF Taken, Items
  <2>2. CASE o \notin key.items
    <3>1. objects[o] \in {"queued", "copying", "retry_wait"}
      BY <2>2, <1>2
    <3>2. PICK k \in JobIds : o \in Items(k)
      BY <3>1 DEF WaitingIsTaken, Taken
    <3>3. k # j /\ jobs'[k] = jobs[k]
      BY <3>2, <1>2 DEF Items
    <3> QED BY <3>2, <3>3 DEF Taken, Items
  <2> QED BY <2>1, <2>2
<1> QED BY <1>3, <1>4, <1>5

\* A row and its items move together.
Moved(j, to) ==
    /\ jobs[j].state # "absent" /\ jobs'[j].state # "absent"
    /\ jobs' \in [JobIds -> JobRow]
    /\ \A k \in JobIds : /\ jobs'[k].payload = jobs[k].payload
                         /\ k # j => jobs'[k] = jobs[k]
    /\ objects' \in [Objects -> ObjectStates]
    /\ \A o \in Objects : objects'[o] = objects[o] \/ (o \in Items(j) /\ objects'[o] = to)

LEMMA MovedTables ==
    ASSUME TablesInv, NEW j \in JobIds, NEW to \in {"retry_wait", "queued"}, Moved(j, to)
    PROVE  TablesInv'
<1> USE DEF TablesInv, Moved
<1>1. JobStoreTypeOK'
  BY DEF JobStoreTypeOK
<1>2. OneDiscoveredGeneration'
  BY DEF OneDiscoveredGeneration
<1>3. \A k \in JobIds : Items(k)' = Items(k)
  BY DEF Items, JobStoreTypeOK
<1>4. WaitingIsTaken'
  BY <1>3 DEF WaitingIsTaken, Taken
<1> QED BY <1>1, <1>2, <1>4

LEMMA JobTables ==
    ASSUME TablesInv, NEW j \in JobIds,
           \/ jobs[j].state = "queued" /\ FailJob(j, TRUE)
           \/ RetryJob(j)
    PROVE  TablesInv'
<1>1. CASE jobs[j].state = "queued" /\ FailJob(j, TRUE)
  <2>1. /\ jobs' = [jobs EXCEPT ![j] = [payload |-> jobs[j].payload, state |-> "retry_wait",
                                        attempts |-> jobs[j].attempts, retry |-> "waiting"]]
        /\ objects' = [o \in Objects |->
                          IF o \in Items(j) /\ objects[o] \in ObjectStates
                          THEN "retry_wait" ELSE objects[o]]
    BY <1>1 DEF FailJob, SetJob, SetItems, Row
  <2>2. /\ jobs' \in [JobIds -> JobRow] /\ jobs'[j].state # "absent"
        /\ \A k \in JobIds : /\ jobs'[k].payload = jobs[k].payload
                             /\ k # j => jobs'[k] = jobs[k]
    BY <2>1 DEF TablesInv, JobStoreTypeOK, JobRow, JobStates
  <2>3. objects' \in [Objects -> ObjectStates]
    BY <2>1 DEF TablesInv, JobStoreTypeOK, ObjectStates
  <2>4. \A o \in Objects :
           objects'[o] = objects[o] \/ (o \in Items(j) /\ objects'[o] = "retry_wait")
    BY <2>1
  <2>5. Moved(j, "retry_wait")
    BY <1>1, <2>2, <2>3, <2>4 DEF Moved
  <2> QED BY <2>5, MovedTables
<1>2. CASE RetryJob(j)
  <2>1. /\ jobs' = [jobs EXCEPT ![j] = [payload |-> jobs[j].payload, state |-> "queued",
                                        attempts |-> 0, retry |-> "none"]]
        /\ objects' = [o \in Objects |->
                          IF o \in Items(j) /\ objects[o] \in Retryable
                          THEN "queued" ELSE objects[o]]
        /\ jobs[j].state # "absent"
    BY <1>2 DEF RetryJob, SetJob, SetItems, Row, Retryable
  <2>2. /\ jobs' \in [JobIds -> JobRow] /\ jobs'[j].state # "absent"
        /\ \A k \in JobIds : /\ jobs'[k].payload = jobs[k].payload
                             /\ k # j => jobs'[k] = jobs[k]
    BY <2>1 DEF TablesInv, JobStoreTypeOK, JobRow, JobStates
  <2>3. objects' \in [Objects -> ObjectStates]
    BY <2>1 DEF TablesInv, JobStoreTypeOK, ObjectStates
  <2>4. \A o \in Objects :
           objects'[o] = objects[o] \/ (o \in Items(j) /\ objects'[o] = "queued")
    BY <2>1
  <2>5. Moved(j, "queued")
    BY <2>1, <2>2, <2>3, <2>4 DEF Moved
  <2> QED BY <2>5, MovedTables
<1> QED BY <1>1, <1>2

LEMMA SeenTables ==
    ASSUME TablesInv, NEW o \in Objects,
           UpsertSeen(o, Generations(o)) \/ SetStateByKey(o, "ignored")
    PROVE  TablesInv'
<1> USE DEF TablesInv
<1>1. jobs' = jobs
  BY DEF UpsertSeen, SetStateByKey
<1>2. JobStoreTypeOK'
  BY <1>1 DEF UpsertSeen, SetStateByKey, JobStoreTypeOK, ObjectStates
<1>3. \A x \in Objects : \/ objects'[x] = objects[x]
                         \/ objects'[x] \in {"superseded", "ignored"}
                         \/ (objects'[x] = "discovered" /\ x = o)
  BY DEF UpsertSeen, SetStateByKey, JobStoreTypeOK
<1>4. ASSUME objects'[o] = "discovered" /\ objects[o] # "discovered"
      PROVE  \A x \in Objects \ {o} : PathOf[x] = PathOf[o] => objects'[x] # "discovered"
  BY <1>4 DEF UpsertSeen, SetStateByKey, Generations, JobStoreTypeOK
<1>5. OneDiscoveredGeneration'
  BY <1>3, <1>4 DEF OneDiscoveredGeneration
<1>6. WaitingIsTaken'
  BY <1>1, <1>3 DEF WaitingIsTaken, Taken, Items
<1> QED BY <1>2, <1>5, <1>6

LEMMA RecoverTables ==
    ASSUME TablesInv, RecoverInterrupted
    PROVE  TablesInv'
<1> USE DEF TablesInv
<1>1. \A o \in Objects : objects[o] \in {"queued", "copying", "retry_wait"} =>
         \E j \in JobIds : o \in Items(j)
  BY DEF WaitingIsTaken, Taken
<1>2. objects' = objects
  BY <1>1 DEF RecoverInterrupted, JobStoreTypeOK
<1>3. JobStoreTypeOK'
  BY <1>2 DEF RecoverInterrupted, JobStoreTypeOK, Row, JobRow, JobStates
<1>4. \A j \in JobIds : Items(j)' = Items(j)
  BY DEF RecoverInterrupted, Items, Row
<1> QED BY <1>2, <1>3, <1>4 DEF OneDiscoveredGeneration, WaitingIsTaken, Taken

LEMMA SameTables ==
    ASSUME TablesInv, UNCHANGED tables
    PROVE  TablesInv'
BY DEF TablesInv, tables, JobStoreTypeOK, OneDiscoveredGeneration, WaitingIsTaken, Taken, Items

LEMMA QueueTables ==
    ASSUME TablesInv, NEW key \in JobKeys, Queue(key)
    PROVE  TablesInv'
BY CreateTables, SameTables DEF Queue

LEMMA StepTables ==
    ASSUME TypeOK, TablesInv, [Next]_vars
    PROVE  TablesInv'
<1>1. CASE UNCHANGED vars
  BY <1>1, SameTables DEF vars, tables
<1>2. ASSUME NEW t \in Torrents, QueueGroup(t)
      PROVE  TablesInv'
  <2>1. Group(t) # {} => TorrentKey(t, Group(t)) \in JobKeys
    BY KeysAreGroups DEF Group, Seen
  <2> QED BY <1>2, <2>1, QueueTables, SameTables DEF QueueGroup
<1>3. ASSUME NEW o \in Objects, QueueFile(o)
      PROVE  TablesInv'
  BY <1>3, KeysAreGroups, QueueTables, SameTables DEF QueueFile
<1>4. ASSUME NEW o \in Objects, SeeItem(o)
      PROVE  TablesInv'
  BY <1>4, SeenTables DEF SeeItem
<1>5. CASE IgnoreItem
  <2>1. item \in Objects
    BY <1>5 DEF IgnoreItem, TypeOK
  <2> QED BY <1>5, <2>1, SeenTables DEF IgnoreItem
<1>6. ASSUME NEW j \in JobIds, AttemptFails(j) \/ JobResumes(j)
      PROVE  TablesInv'
  BY <1>6, JobTables DEF AttemptFails, JobResumes
<1>7. CASE Restart
  BY <1>7, RecoverTables DEF Restart
<1>8. CASE \/ List \/ FetchTorrents \/ Initialize \/ StartGroups \/ StartFiles \/ EndScan
           \/ RTorrentDown \/ ScanFails
  BY <1>8, SameTables
     DEF List, FetchTorrents, Initialize, StartGroups, StartFiles, EndScan, RTorrentDown, ScanFails
<1>9. ASSUME NEW o \in Objects, Upload(o) \/ Age(o)
      PROVE  TablesInv'
  BY <1>9, SameTables DEF Upload, Age
<1>10. ASSUME NEW t \in Torrents, AddTorrent(t) \/ CompleteTorrent(t) \/ RemoveTorrent(t)
       PROVE  TablesInv'
  BY <1>10, SameTables DEF AddTorrent, CompleteTorrent, RemoveTorrent, MoveTorrent
<1> QED BY <1>1, <1>2, <1>3, <1>4, <1>5, <1>6, <1>7, <1>8, <1>9, <1>10 DEF Next, Scan

-----------------------------------------------------------------------------
(* What a scan knows.                                                      *)

LEMMA ScanInit == Init => ScanInv
<1> SUFFICES ASSUME Init PROVE ScanInv
  OBVIOUS
<1>1. JobStoreTypeOK
  BY DEF Init, JobStoreTypeOK, NoJobRow, JobRow, JobStates, ObjectStates
<1>2. failures \in 0..MaxFailures
  BY FailuresAssumption DEF Init
<1>3. NoneSeen \in [Objects -> ObjectStates] /\ NoneKnown \in [Torrents -> TorrentStates]
  BY DEF NoneSeen, NotSeen, NoneKnown, ObjectStates, TorrentStates
<1>4. TypeOK
  BY <1>1, <1>2, <1>3 DEF Init, TypeOK
<1>5. OneDiscoveredGeneration /\ WaitingIsTaken
  BY DEF Init, OneDiscoveredGeneration, WaitingIsTaken
<1>6. ListedIsUploaded /\ AskedAfterListing
  BY DEF Init, ListedIsUploaded, AskedAfterListing, Seen, NoneSeen
<1> QED BY <1>4, <1>5, <1>6 DEF ScanInv

KnowledgeInv == TypeOK /\ ListedIsUploaded /\ AskedAfterListing

LEMMA KnowledgeStart ==
    ASSUME KnowledgeInv, JobStoreTypeOK', List \/ FetchTorrents \/ RTorrentDown
    PROVE  KnowledgeInv'
<1> USE DEF KnowledgeInv
<1>1. CASE List
  <2> USE <1>1 DEF List, sourceVars, Listing
  <2>1. TypeOK'
    BY DEF TypeOK
  <2>2. ListedIsUploaded'
    BY DEF ListedIsUploaded, Seen, Belongs
  <2>3. AskedAfterListing'
    BY DEF AskedAfterListing
  <2> QED BY <2>1, <2>2, <2>3
<1>2. CASE FetchTorrents
  <2> USE <1>2 DEF FetchTorrents, sourceVars
  <2>1. TypeOK'
    BY DEF TypeOK
  <2>2. ListedIsUploaded'
    BY DEF ListedIsUploaded, Seen, Belongs
  <2>3. AskedAfterListing'
    BY DEF AskedAfterListing, ListedIsUploaded, TypeOK, Listed, Seen, NoneSeen, Belongs
  <2> QED BY <2>1, <2>2, <2>3
<1>3. CASE RTorrentDown
  <2> USE <1>3 DEF RTorrentDown, sourceVars
  <2>1. failures' \in 0..MaxFailures
    BY FailuresAssumption DEF TypeOK
  <2>2. known' \in [Torrents -> TorrentStates]
    BY DEF NoneKnown, TorrentStates
  <2>3. TypeOK'
    BY <2>1, <2>2 DEF TypeOK
  <2>4. ListedIsUploaded'
    BY DEF ListedIsUploaded, Seen, Belongs
  <2>5. AskedAfterListing'
    BY DEF AskedAfterListing
  <2> QED BY <2>3, <2>4, <2>5
<1> QED BY <1>1, <1>2, <1>3

LEMMA KnowledgeSeen ==
    ASSUME KnowledgeInv, JobStoreTypeOK', (\E o \in Objects : SeeItem(o)) \/ IgnoreItem
    PROVE  KnowledgeInv'
<1> USE DEF KnowledgeInv
<1>1. ASSUME NEW o \in Objects, SeeItem(o)
      PROVE  KnowledgeInv'
  <2> USE <1>1 DEF SeeItem, sourceVars
  <2>1. Seen' \subseteq Seen \cup {o} /\ objects'[o] \in ObjectStates
    BY DEF Seen, TypeOK, JobStoreTypeOK
  <2>2. TypeOK'
    BY <2>1 DEF TypeOK
  <2>3. ListedIsUploaded'
    BY <2>1 DEF ListedIsUploaded, Belongs
  <2>4. pc' \in {"see", "ignore"} /\ Listed' \subseteq Listed
    BY <2>1 DEF Listed
  <2>5. AskedAfterListing'
    BY <2>4 DEF AskedAfterListing, Belongs
  <2> QED BY <2>2, <2>3, <2>5
<1>2. CASE IgnoreItem
  <2> USE <1>2 DEF IgnoreItem, sourceVars
  <2>1. TypeOK'
    BY DEF TypeOK
  <2>2. ListedIsUploaded'
    BY DEF ListedIsUploaded, Seen, Belongs
  <2>3. pc' = "see" /\ Listed' \subseteq Listed
    BY DEF Listed, Seen
  <2>4. AskedAfterListing'
    BY <2>3 DEF AskedAfterListing, Belongs
  <2> QED BY <2>1, <2>2, <2>4
<1> QED BY <1>1, <1>2

LEMMA KnowledgeQueue ==
    ASSUME KnowledgeInv, JobStoreTypeOK',
           \/ StartGroups \/ StartFiles
           \/ \E t \in Torrents : QueueGroup(t)
           \/ \E o \in Objects : QueueFile(o)
    PROVE  KnowledgeInv'
<1> USE DEF KnowledgeInv
<1>1. CASE StartGroups
  <2> USE <1>1 DEF StartGroups, sourceVars
  <2>1. TypeOK'
    BY DEF TypeOK
  <2>2. ListedIsUploaded'
    BY DEF ListedIsUploaded, Seen, Belongs
  <2>3. AskedAfterListing'
    BY DEF AskedAfterListing, Listed, Seen, Belongs
  <2> QED BY <2>1, <2>2, <2>3
<1>2. CASE StartFiles
  <2> USE <1>2 DEF StartFiles, sourceVars
  <2>1. TypeOK'
    BY DEF TypeOK, Seen
  <2>2. ListedIsUploaded'
    BY DEF ListedIsUploaded, Seen, Belongs
  <2>3. AskedAfterListing'
    BY DEF AskedAfterListing, Listed, Seen, Belongs
  <2> QED BY <2>1, <2>2, <2>3
<1>3. ASSUME NEW t \in Torrents, QueueGroup(t)
      PROVE  KnowledgeInv'
  <2> USE <1>3 DEF QueueGroup, sourceVars
  <2>1. assigned' \subseteq Objects
    BY DEF TypeOK, Group, Seen
  <2>2. TypeOK'
    BY <2>1 DEF TypeOK
  <2>3. ListedIsUploaded'
    BY DEF ListedIsUploaded, Seen, Belongs
  <2>4. AskedAfterListing'
    BY DEF AskedAfterListing, Listed, Seen, Belongs
  <2> QED BY <2>2, <2>3, <2>4
<1>4. ASSUME NEW o \in Objects, QueueFile(o)
      PROVE  KnowledgeInv'
  <2> USE <1>4 DEF QueueFile, sourceVars
  <2>1. TypeOK'
    BY DEF TypeOK
  <2>2. ListedIsUploaded'
    BY DEF ListedIsUploaded, Seen, Belongs
  <2>3. AskedAfterListing'
    BY DEF AskedAfterListing, Listed, Seen, Belongs
  <2> QED BY <2>1, <2>2, <2>3
<1> QED BY <1>1, <1>2, <1>3, <1>4

LEMMA KnowledgeEnd ==
    ASSUME KnowledgeInv, JobStoreTypeOK',
           Initialize \/ EndScan \/ ScanFails \/ Restart
    PROVE  KnowledgeInv'
<1> USE DEF KnowledgeInv
<1>1. Forget /\ UNCHANGED <<sourceVars, existing>>
  BY DEF Initialize, EndScan, ScanFails, Restart
<1>2. initialized' \in BOOLEAN
  BY DEF TypeOK, Initialize, EndScan, ScanFails, Restart
<1>3. failures' \in 0..MaxFailures
  <2>1. \/ failures' = failures
        \/ (failures < MaxFailures /\ failures' = failures + 1)
    BY DEF Initialize, EndScan, ScanFails, Restart
  <2> QED BY <2>1, FailuresAssumption DEF TypeOK
<1> USE <1>1 DEF Forget, sourceVars
<1>4. TypeOK'
  BY <1>2, <1>3 DEF TypeOK, NoneSeen, NotSeen, ObjectStates, NoneKnown, TorrentStates
<1>5. ListedIsUploaded'
  BY DEF ListedIsUploaded, Seen, NoneSeen, Belongs
<1>6. AskedAfterListing'
  BY DEF AskedAfterListing
<1> QED BY <1>4, <1>5, <1>6

LEMMA KnowledgeSource ==
    ASSUME KnowledgeInv, JobStoreTypeOK',
           \/ \E o \in Objects : Upload(o) \/ Age(o)
           \/ \E t \in Torrents : AddTorrent(t) \/ CompleteTorrent(t) \/ RemoveTorrent(t)
    PROVE  KnowledgeInv'
<1> USE DEF KnowledgeInv
<1>1. ASSUME NEW o \in Objects, Upload(o)
      PROVE  KnowledgeInv'
  <2> USE <1>1 DEF Upload, localVars
  <2>1. TypeOK'
    BY DEF TypeOK
  <2>2. ListedIsUploaded'
    BY DEF ListedIsUploaded, Seen, Belongs
  <2>3. AskedAfterListing'
    BY DEF AskedAfterListing, Listed, Seen, Belongs
  <2> QED BY <2>1, <2>2, <2>3
<1>2. ASSUME NEW o \in Objects, Age(o)
      PROVE  KnowledgeInv'
  <2> USE <1>2 DEF Age, localVars
  <2>1. TypeOK'
    BY DEF TypeOK
  <2>2. ListedIsUploaded'
    BY DEF ListedIsUploaded, Seen, Belongs
  <2>3. AskedAfterListing'
    BY DEF AskedAfterListing, Listed, Seen, Belongs
  <2> QED BY <2>1, <2>2, <2>3
<1>3. ASSUME NEW t \in Torrents, AddTorrent(t) \/ CompleteTorrent(t) \/ RemoveTorrent(t)
      PROVE  KnowledgeInv'
  <2>1. PICK to \in TorrentStates \ {"absent"} :
           torrents[t] # "removed" /\ torrents' = [torrents EXCEPT ![t] = to]
    BY <1>3 DEF AddTorrent, CompleteTorrent, RemoveTorrent, MoveTorrent, InRTorrent,
                TorrentStates
  <2>2. UNCHANGED <<initialized, localVars, src, fresh, aged, existing, failures>>
    BY <1>3 DEF AddTorrent, CompleteTorrent, RemoveTorrent, MoveTorrent
  <2> USE <2>1, <2>2 DEF localVars
  <2>3. TypeOK'
    BY DEF TypeOK
  <2>4. ListedIsUploaded'
    BY DEF ListedIsUploaded, TypeOK, Seen, Belongs
  <2>5. AskedAfterListing'
    BY DEF AskedAfterListing, TypeOK, Listed, Seen, Belongs
  <2> QED BY <2>3, <2>4, <2>5
<1> QED BY <1>1, <1>2, <1>3

LEMMA KnowledgeSame ==
    ASSUME KnowledgeInv, JobStoreTypeOK',
           UNCHANGED <<initialized, localVars, sourceVars, existing, failures>>
    PROVE  KnowledgeInv'
BY DEF KnowledgeInv, localVars, sourceVars, TypeOK, ListedIsUploaded, AskedAfterListing,
       Listed, Seen, Belongs

LEMMA ScanStep ==
    ASSUME ScanInv, [Next]_vars
    PROVE  ScanInv'
<1>1. TablesInv /\ KnowledgeInv
  BY DEF ScanInv, TablesInv, KnowledgeInv, TypeOK
<1>2. TablesInv'
  BY <1>1, StepTables DEF ScanInv
<1>3. JobStoreTypeOK'
  BY <1>2 DEF TablesInv
<1>4. ASSUME (\E j \in JobIds : AttemptFails(j) \/ JobResumes(j)) \/ UNCHANGED vars
      PROVE  KnowledgeInv'
  <2>1. UNCHANGED <<initialized, localVars, sourceVars, existing, failures>>
    BY <1>4 DEF AttemptFails, JobResumes, otherVars, vars, localVars, sourceVars
  <2> QED BY <2>1, <1>1, <1>3, KnowledgeSame
<1>5. KnowledgeInv'
  <2>1. CASE List \/ FetchTorrents \/ RTorrentDown
    BY <2>1, <1>1, <1>3, KnowledgeStart
  <2>2. CASE (\E o \in Objects : SeeItem(o)) \/ IgnoreItem
    BY <2>2, <1>1, <1>3, KnowledgeSeen
  <2>3. CASE \/ StartGroups \/ StartFiles
             \/ \E t \in Torrents : QueueGroup(t)
             \/ \E o \in Objects : QueueFile(o)
    BY <2>3, <1>1, <1>3, KnowledgeQueue
  <2>4. CASE Initialize \/ EndScan \/ ScanFails \/ Restart
    BY <2>4, <1>1, <1>3, KnowledgeEnd
  <2>5. CASE \/ \E o \in Objects : Upload(o) \/ Age(o)
             \/ \E t \in Torrents : AddTorrent(t) \/ CompleteTorrent(t) \/ RemoveTorrent(t)
    BY <2>5, <1>1, <1>3, KnowledgeSource
  <2> QED BY <1>4, <2>1, <2>2, <2>3, <2>4, <2>5 DEF Next, Scan
<1> QED BY <1>2, <1>5 DEF ScanInv, TablesInv, KnowledgeInv

-----------------------------------------------------------------------------
(* The theorems.                                                           *)

LEMMA ScanInvariant == Spec => []ScanInv
<1>1. ScanInv /\ [Next]_vars => ScanInv'
  BY ScanStep
<1> QED BY ScanInit, <1>1, PTL DEF Spec

\* Whatever is uploaded, listed, interrupted or restarted, every variable keeps
\* its type: what the scan treats is of the kind of the loop it is in.
THEOREM ScanTypeCorrect == Spec => []TypeOK
<1>1. ScanInv => TypeOK
  BY DEF ScanInv
<1> QED BY <1>1, ScanInvariant, PTL

\* db.go:295: two generations of a file never wait to be queued, for any number
\* of files, generations, torrents, failures and restarts.
THEOREM OneGenerationWaits == Spec => []OneDiscoveredGeneration
<1>1. ScanInv => OneDiscoveredGeneration
  BY DEF ScanInv
<1> QED BY <1>1, ScanInvariant, PTL

OnlyRTorrentDecides ==
    \A j \in JobIds : \A o \in Objects, t \in Torrents :
        Created(j) /\ jobs'[j].payload = FileKey(o) /\ Belongs(o, t)
            => ~rtOK \/ torrents[t] = "removed"

LEMMA OnlyQueueCreates ==
    ASSUME TypeOK, [Next]_vars, NEW j \in JobIds, Created(j)
    PROVE  \/ \E t \in Torrents : QueueGroup(t) /\ jobs'[j].payload = TorrentKey(t, Group(t))
           \/ \E o \in Objects : /\ QueueFile(o) /\ Stable(o)
                               /\ jobs'[j].payload = FileKey(o)
<1>1. jobs' # jobs
  BY DEF Created
<1>2. ASSUME NEW key \in JobKeys, Queue(key)
      PROVE  jobs'[j].payload = key
  <2>1. PICK k \in JobIds : CreateJob(k, key)
    BY <1>1, <1>2 DEF Queue, tables
  <2>2. k = j /\ jobs'[j].payload = key
    BY <2>1 DEF CreateJob, Created, TypeOK, JobStoreTypeOK
  <2> QED BY <2>2
<1>3. ASSUME NEW t \in Torrents, QueueGroup(t)
      PROVE  jobs'[j].payload = TorrentKey(t, Group(t))
  <2>1. Group(t) # {} /\ Queue(TorrentKey(t, Group(t)))
    BY <1>1, <1>3 DEF QueueGroup, tables
  <2>2. TorrentKey(t, Group(t)) \in JobKeys
    BY <2>1, KeysAreGroups DEF Group, Seen
  <2> QED BY <2>1, <2>2, <1>2
<1>4. ASSUME NEW o \in Objects, QueueFile(o)
      PROVE  Stable(o) /\ jobs'[j].payload = FileKey(o)
  <2>1. Stable(o) /\ Queue(FileKey(o))
    BY <1>1, <1>4 DEF QueueFile, tables
  <2> QED BY <2>1, <1>2, KeysAreGroups
<1>5. ~(\E o \in Objects : SeeItem(o)) /\ ~IgnoreItem
  BY <1>1 DEF SeeItem, IgnoreItem, UpsertSeen, SetStateByKey
<1>6. \A k \in JobIds : ~AttemptFails(k) /\ ~JobResumes(k)
  BY DEF AttemptFails, JobResumes, FailJob, RetryJob, Retryable, SetJob, Row, Created, TypeOK,
         JobStoreTypeOK, JobRow
<1>7. ~Restart
  BY DEF Restart, RecoverInterrupted, Row, Created, TypeOK, JobStoreTypeOK
<1>8. /\ ~List /\ ~FetchTorrents /\ ~Initialize /\ ~StartGroups /\ ~StartFiles /\ ~EndScan
      /\ ~RTorrentDown /\ ~ScanFails /\ ~UNCHANGED vars
  BY <1>1 DEF List, FetchTorrents, Initialize, StartGroups, StartFiles, EndScan, RTorrentDown,
              ScanFails, tables, vars
<1>9. /\ \A o \in Objects : ~Upload(o) /\ ~Age(o)
      /\ \A t \in Torrents : ~AddTorrent(t) /\ ~CompleteTorrent(t) /\ ~RemoveTorrent(t)
  BY <1>1 DEF Upload, Age, AddTorrent, CompleteTorrent, RemoveTorrent, MoveTorrent, tables
<1> QED BY <1>3, <1>4, <1>5, <1>6, <1>7, <1>8, <1>9 DEF Next, Scan

\* engine.go:353: as long as rTorrent answers, stability never queues a file of a
\* torrent that is in rTorrent, for any number of torrents, also overlapping ones,
\* and whatever happens between the listing, rTorrent's answer and the loop that
\* uses it.
THEOREM RTorrentDecides == Spec => ReadinessIsRTorrents
<1>1. ScanInv /\ [Next]_vars => OnlyRTorrentDecides
  <2> SUFFICES ASSUME ScanInv, [Next]_vars,
                      NEW j \in JobIds, NEW o \in Objects, NEW t \in Torrents,
                      Created(j), jobs'[j].payload = FileKey(o), Belongs(o, t), rtOK
               PROVE  torrents[t] = "removed"
    BY DEF OnlyRTorrentDecides
  <2>1. \A u \in Torrents : \A g : TorrentKey(u, g) # FileKey(o)
    BY TorrentsAssumption DEF TorrentKey, FileKey
  <2>2. PICK x \in Objects : QueueFile(x) /\ Stable(x) /\ jobs'[j].payload = FileKey(x)
    BY <2>1, OnlyQueueCreates DEF ScanInv
  <2>3. x = o
    BY <2>2 DEF FileKey
  <2>4. known[t] \notin InRTorrent
    BY <2>2, <2>3 DEF Stable, KnownToRTorrent
  <2>5. o \in Listed
    BY <2>2, <2>3 DEF QueueFile, ScanInv, AskedAfterListing, Listed
  <2>6. known[t] = "removed"
    BY <2>4, <2>5 DEF ScanInv, AskedAfterListing, TypeOK, TorrentStates, InRTorrent
  <2> QED BY <2>6 DEF ScanInv, AskedAfterListing
<1> QED BY <1>1, ScanInvariant, PTL DEF Spec, ReadinessIsRTorrents, OnlyRTorrentDecides

-----------------------------------------------------------------------------
(* What was superseded.  A scan holds one generation of a file, so the one *)
(* that another replaces is never among what the scan has seen.            *)

Held == Seen \cup (IF pc \in {"torrents", "see", "ignore"} THEN todo ELSE {})

OneListed ==
    /\ \A o1, o2 \in src : PathOf[o1] = PathOf[o2] => o1 = o2
    /\ \A o1, o2 \in Held : PathOf[o1] = PathOf[o2] => o1 = o2

SupersededIsKnown == \A o \in Seen : objects[o] = "superseded" => seen[o] = "superseded"

HistoryInv == OneListed /\ SupersededIsKnown

LEMMA OnlySeenSupersedes ==
    ASSUME TypeOK, [Next]_vars, NEW o \in Objects,
           objects[o] # "superseded", objects'[o] = "superseded"
    PROVE  \E x \in Objects \ {o} : SeeItem(x) /\ PathOf[x] = PathOf[o]
<1>1. objects' # objects
  OBVIOUS
<1>2. ASSUME NEW key \in JobKeys, Queue(key)
      PROVE  FALSE
  BY <1>1, <1>2 DEF Queue, CreateJob, tables, TypeOK, JobStoreTypeOK
<1>3. ASSUME NEW t \in Torrents, QueueGroup(t)
      PROVE  FALSE
  <2>1. Group(t) # {} => TorrentKey(t, Group(t)) \in JobKeys
    BY KeysAreGroups DEF Group, Seen
  <2> QED BY <1>1, <1>2, <1>3, <2>1 DEF QueueGroup, tables
<1>4. \A x \in Objects : ~QueueFile(x)
  BY <1>1, <1>2, KeysAreGroups DEF QueueFile, tables
<1>5. ~IgnoreItem
  BY <1>1 DEF IgnoreItem, SetStateByKey, TypeOK, JobStoreTypeOK
<1>6. \A k \in JobIds : ~AttemptFails(k) /\ ~JobResumes(k)
  BY DEF AttemptFails, JobResumes, FailJob, RetryJob, SetItems
<1>7. ~Restart
  BY DEF Restart, RecoverInterrupted
<1>8. /\ ~List /\ ~FetchTorrents /\ ~Initialize /\ ~StartGroups /\ ~StartFiles /\ ~EndScan
      /\ ~RTorrentDown /\ ~ScanFails /\ ~UNCHANGED vars
  BY <1>1 DEF List, FetchTorrents, Initialize, StartGroups, StartFiles, EndScan, RTorrentDown,
              ScanFails, tables, vars
<1>9. /\ \A x \in Objects : ~Upload(x) /\ ~Age(x)
      /\ \A t \in Torrents : ~AddTorrent(t) /\ ~CompleteTorrent(t) /\ ~RemoveTorrent(t)
  BY <1>1 DEF Upload, Age, AddTorrent, CompleteTorrent, RemoveTorrent, MoveTorrent, tables
<1>10. PICK x \in Objects : SeeItem(x)
  BY <1>3, <1>4, <1>5, <1>6, <1>7, <1>8, <1>9 DEF Next, Scan
<1>11. x # o /\ o \in Generations(x)
  BY <1>10 DEF SeeItem, UpsertSeen, TypeOK, JobStoreTypeOK
<1> QED BY <1>10, <1>11 DEF Generations

LEMMA WhatIsSeen ==
    ASSUME ScanInv, [Next]_vars
    PROVE  /\ \A o \in Seen' : \/ seen'[o] = seen[o]
                               \/ SeeItem(o) /\ seen'[o] = objects'[o]
           /\ \/ /\ src' = src
                 /\ \/ List /\ Held' \subseteq src
                    \/ Held' \subseteq Held
              \/ /\ Held' = Held
                 /\ \E o \in Objects : src' = (src \ Generations(o)) \cup {o}
<1> USE DEF ScanInv
<1>1. ASSUME NEW o \in Objects, SeeItem(o)
      PROVE  /\ \A x \in Seen' : seen'[x] = seen[x] \/ (x = o /\ seen'[x] = objects'[x])
             /\ Held' \subseteq Held /\ src' = src
  BY <1>1 DEF SeeItem, Held, Seen, TypeOK, sourceVars
<1>2. CASE List
  BY <1>2 DEF List, Listing, Held, Seen, TypeOK, NoneSeen, sourceVars
<1>3. CASE \/ FetchTorrents \/ RTorrentDown \/ IgnoreItem \/ StartGroups \/ StartFiles
           \/ \E t \in Torrents : QueueGroup(t)
           \/ \E o \in Objects : QueueFile(o)
  BY <1>3 DEF FetchTorrents, RTorrentDown, IgnoreItem, StartGroups, StartFiles, QueueGroup,
              QueueFile, Held, Seen, sourceVars
<1>4. CASE Initialize \/ EndScan \/ ScanFails \/ Restart
  BY <1>4 DEF Initialize, EndScan, ScanFails, Restart, Forget, Held, Seen, NoneSeen, sourceVars
<1>5. ASSUME NEW o \in Objects, Upload(o)
      PROVE  seen' = seen /\ Held' = Held /\ src' = (src \ Generations(o)) \cup {o}
  BY <1>5 DEF Upload, Held, Seen, localVars
<1>6. CASE \/ \E o \in Objects : Age(o)
           \/ \E t \in Torrents : AddTorrent(t) \/ CompleteTorrent(t) \/ RemoveTorrent(t)
           \/ \E j \in JobIds : AttemptFails(j) \/ JobResumes(j)
           \/ UNCHANGED vars
  BY <1>6 DEF Age, AddTorrent, CompleteTorrent, RemoveTorrent, MoveTorrent, AttemptFails,
              JobResumes, otherVars, vars, localVars, sourceVars, Held, Seen
<1> QED BY <1>1, <1>2, <1>3, <1>4, <1>5, <1>6 DEF Next, Scan

LEMMA HistoryStep ==
    ASSUME ScanInv, HistoryInv, [Next]_vars
    PROVE  HistoryInv'
<1> USE DEF HistoryInv
<1>1. OneListed'
  <2>1. Held \subseteq Objects /\ src \subseteq Objects
    BY DEF Held, Seen, ScanInv, TypeOK
  <2>2. CASE src' = src /\ (Held' \subseteq src \/ Held' \subseteq Held)
    BY <2>2 DEF OneListed
  <2>3. ASSUME NEW o \in Objects, Held' = Held, src' = (src \ Generations(o)) \cup {o}
        PROVE  OneListed'
    BY <2>1, <2>3 DEF OneListed, Generations
  <2> QED BY <2>2, <2>3, WhatIsSeen
<1>2. SupersededIsKnown'
  <2> SUFFICES ASSUME NEW o \in Seen', objects'[o] = "superseded", seen'[o] # "superseded"
               PROVE  FALSE
    BY DEF SupersededIsKnown
  <2>1. o \in Objects /\ seen'[o] = seen[o]
    BY WhatIsSeen DEF Seen
  <2>2. o \in Seen /\ objects[o] # "superseded"
    BY <2>1 DEF Seen, SupersededIsKnown
  <2>3. PICK x \in Objects \ {o} : SeeItem(x) /\ PathOf[x] = PathOf[o]
    BY <2>1, <2>2, OnlySeenSupersedes DEF ScanInv
  <2>4. x \in Held /\ o \in Held
    BY <2>2, <2>3 DEF SeeItem, Held
  <2> QED BY <2>3, <2>4 DEF OneListed
<1> QED BY <1>1, <1>2

QueuesNoSuperseded ==
    \A j \in JobIds : \A o \in Objects :
        Created(j) /\ o \in jobs'[j].payload.items => objects[o] # "superseded"

\* db.go:295: no job, of a file or of a torrent, is created for a generation that
\* was superseded, whatever the order of uploads, listings, scans that fail and
\* restarts.
THEOREM SupersededStaysOut == Spec => SupersededIsNotQueued
<1>1. Init => HistoryInv
  BY DEF Init, HistoryInv, OneListed, Held, SupersededIsKnown, Seen, NoneSeen
<1>2. ScanInv /\ HistoryInv /\ [Next]_vars => HistoryInv'
  BY HistoryStep
<1>3. ScanInv /\ HistoryInv /\ [Next]_vars => QueuesNoSuperseded
  <2> SUFFICES ASSUME ScanInv, HistoryInv, [Next]_vars, NEW j \in JobIds, NEW o \in Objects,
                      Created(j), o \in jobs'[j].payload.items
               PROVE  objects[o] # "superseded"
    BY DEF QueuesNoSuperseded
  <2>1. CASE \E t \in Torrents : QueueGroup(t) /\ jobs'[j].payload = TorrentKey(t, Group(t))
    <3>1. PICK t \in Torrents : QueueGroup(t) /\ jobs'[j].payload = TorrentKey(t, Group(t))
      BY <2>1
    <3>2. o \in Group(t) /\ jobs' # jobs
      BY <3>1 DEF TorrentKey, Created
    <3>3. o \in Seen /\ seen[o] \in Processable
      BY <3>1, <3>2 DEF QueueGroup, Group, tables
    <3> QED BY <3>3 DEF HistoryInv, SupersededIsKnown, Processable
  <2>2. CASE \E x \in Objects : QueueFile(x) /\ Stable(x) /\ jobs'[j].payload = FileKey(x)
    <3>1. Stable(o)
      BY <2>2 DEF FileKey
    <3>2. o \in Seen /\ seen[o] \in Processable
      BY <3>1 DEF Stable, Seen, Processable, NotSeen
    <3> QED BY <3>2 DEF HistoryInv, SupersededIsKnown, Processable
  <2> QED BY <2>1, <2>2, OnlyQueueCreates DEF ScanInv
<1> QED BY <1>1, <1>2, <1>3, ScanInvariant, PTL
        DEF Spec, SupersededIsNotQueued, QueuesNoSuperseded

-----------------------------------------------------------------------------
(* What was there before the rule.  Until the rule is initialized there is *)
(* one scan, no job, and every listed object is on its way to "ignored";   *)
(* from then on "ignored" is final, because no job holds the object.       *)

OnItsWay(o) ==
    \/ objects[o] = "ignored"
    \/ o \in todo /\ (objects[o] = "unseen" \/ (pc = "ignore" /\ o = item))

Uninitialized ==
    /\ seen = NoneSeen /\ pc \in {"idle", "torrents", "see", "ignore"}
    /\ \A j \in JobIds : jobs[j].state = "absent"
    /\ pc = "idle" => existing = {} /\ \A o \in Objects : objects[o] = "unseen"
    /\ \A o \in existing : OnItsWay(o)

ExistingInv ==
    failures = 0 /\ IgnoreExisting =>
        /\ \A o \in existing : ~Taken(o) /\ seen[o] \in {NotSeen, "ignored"}
        /\ initialized => \A o \in existing : objects[o] = "ignored"
        /\ ~initialized => Uninitialized

LEMMA ExistingKeys ==
    ASSUME ScanInv, NEW key \in JobKeys, Queue(key),
           NEW e \in SUBSET Objects, key.items \cap e = {},
           \A o \in e : ~Taken(o) /\ objects[o] = "ignored"
    PROVE  \A o \in e : ~Taken(o)' /\ objects'[o] = "ignored"
<1>1. CASE UNCHANGED tables
  BY <1>1 DEF tables, Taken, Items
<1>2. ASSUME NEW j \in JobIds, CreateJob(j, key)
      PROVE  \A o \in e : ~Taken(o)' /\ objects'[o] = "ignored"
  <2>1. \A o \in e : objects'[o] = "ignored"
    BY <1>2 DEF CreateJob
  <2>2. /\ jobs'[j].payload = key /\ jobs'[j].state = "queued"
        /\ \A k \in JobIds \ {j} : jobs'[k] = jobs[k]
    BY <1>2 DEF CreateJob, ScanInv, TypeOK, JobStoreTypeOK
  <2>3. \A k \in JobIds : Items(k)' \subseteq Items(k) \cup key.items
    BY <2>2 DEF Items
  <2> QED BY <2>1, <2>3 DEF Taken
<1> QED BY <1>1, <1>2 DEF Queue

LEMMA ExistingQueue ==
    ASSUME ScanInv, ExistingInv,
           \/ \E t \in Torrents : QueueGroup(t)
           \/ \E o \in Objects : QueueFile(o)
    PROVE  ExistingInv'
<1> SUFFICES ASSUME failures' = 0, IgnoreExisting
             PROVE  ExistingInv'
  BY DEF ExistingInv
<1>1. /\ failures = 0 /\ initialized' = initialized /\ existing' = existing /\ seen' = seen
      /\ pc \in {"groups", "files"}
  BY DEF QueueGroup, QueueFile
<1>2. initialized /\ initialized'
  BY <1>1 DEF ExistingInv, Uninitialized, ScanInv, TypeOK
<1>3. \A o \in existing : ~Taken(o) /\ objects[o] = "ignored" /\ seen[o] \notin Processable
  BY <1>1, <1>2 DEF ExistingInv, Processable, NotSeen
<1>4. existing \in SUBSET Objects
  BY DEF ScanInv, TypeOK
<1>5. \A o \in existing : ~Taken(o)' /\ objects'[o] = "ignored"
  <2>1. ASSUME UNCHANGED tables
        PROVE  \A o \in existing : ~Taken(o)' /\ objects'[o] = "ignored"
    BY <1>3, <2>1 DEF tables, Taken, Items
  <2>2. ASSUME NEW t \in Torrents, QueueGroup(t)
        PROVE  \A o \in existing : ~Taken(o)' /\ objects'[o] = "ignored"
    <3>1. CASE Group(t) # {} /\ \A o \in Group(t) : seen[o] \in Processable
      <4>1. Queue(TorrentKey(t, Group(t))) /\ TorrentKey(t, Group(t)) \in JobKeys
        BY <2>2, <3>1, KeysAreGroups DEF QueueGroup, Group, Seen
      <4>2. TorrentKey(t, Group(t)).items \cap existing = {}
        BY <1>3, <3>1 DEF TorrentKey
      <4> QED BY <4>1, <4>2, <1>3, <1>4, ExistingKeys
    <3> QED BY <2>1, <2>2, <3>1 DEF QueueGroup, tables
  <2>3. ASSUME NEW o \in Objects, QueueFile(o)
        PROVE  \A x \in existing : ~Taken(x)' /\ objects'[x] = "ignored"
    <3>1. CASE Stable(o)
      <4>1. Queue(FileKey(o)) /\ FileKey(o) \in JobKeys
        BY <2>3, <3>1, KeysAreGroups DEF QueueFile
      <4>2. FileKey(o).items \cap existing = {}
        BY <1>3, <3>1 DEF FileKey, Stable
      <4> QED BY <4>1, <4>2, <1>3, <1>4, ExistingKeys
    <3> QED BY <2>1, <2>3, <3>1 DEF QueueFile
  <2> QED BY <2>2, <2>3
<1> QED BY <1>1, <1>2, <1>5 DEF ExistingInv

LEMMA ExistingSeen ==
    ASSUME ScanInv, ExistingInv, (\E o \in Objects : SeeItem(o)) \/ IgnoreItem
    PROVE  ExistingInv'
<1> SUFFICES ASSUME failures' = 0, IgnoreExisting
             PROVE  ExistingInv'
  BY DEF ExistingInv
<1>1. /\ failures = 0 /\ initialized' = initialized /\ existing' = existing /\ jobs' = jobs
      /\ existing \subseteq Objects
  BY DEF SeeItem, IgnoreItem, UpsertSeen, SetStateByKey, ScanInv, TypeOK
<1>2. \A o \in existing : ~Taken(o)'
  BY <1>1 DEF ExistingInv, Taken, Items
<1>3. ASSUME NEW o \in Objects, SeeItem(o)
      PROVE  ExistingInv'
  <2> USE <1>3 DEF SeeItem
  <2>1. \A x \in Objects \ {o} :
           objects[x] \in {"unseen", "ignored"} => objects'[x] = objects[x]
    BY DEF UpsertSeen
  <2>2. objects[o] # "unseen" => \A x \in Objects : objects'[x] = objects[x]
    BY DEF UpsertSeen
  <2>3. CASE initialized
    <3>1. \A x \in existing : objects'[x] = "ignored"
      BY <1>1, <2>1, <2>2, <2>3 DEF ExistingInv
    <3>2. \A x \in existing : seen'[x] \in {NotSeen, "ignored"}
      BY <1>1, <2>3, <3>1 DEF ExistingInv, Bootstrap, ScanInv, TypeOK
    <3> QED BY <1>1, <1>2, <2>3, <3>1, <3>2 DEF ExistingInv
  <2>4. CASE ~initialized
    <3>1. Uninitialized /\ Bootstrap
      BY <1>1, <2>4 DEF ExistingInv, Bootstrap
    <3>2. seen' = seen /\ pc' \in {"see", "ignore"}
      BY <3>1
    <3>3. ASSUME NEW x \in existing
          PROVE  OnItsWay(x)'
      BY <1>1, <2>1, <2>2, <3>1, <3>3 DEF Uninitialized, OnItsWay, IgnoredAtOnce
    <3>4. Uninitialized'
      BY <1>1, <3>1, <3>2, <3>3 DEF Uninitialized
    <3> QED BY <1>1, <1>2, <2>4, <3>2, <3>4 DEF ExistingInv
  <2> QED BY <2>3, <2>4
<1>4. CASE IgnoreItem
  <2> USE <1>4 DEF IgnoreItem
  <2>1. item \in Objects /\ objects' = [objects EXCEPT ![item] = "ignored"]
    BY DEF SetStateByKey, ScanInv, TypeOK
  <2>2. \A x \in Objects : objects'[x] = IF x = item THEN "ignored" ELSE objects[x]
    BY <2>1 DEF ScanInv, TypeOK, JobStoreTypeOK
  <2>3. CASE initialized
    BY <1>1, <1>2, <2>2, <2>3 DEF ExistingInv
  <2>4. CASE ~initialized
    <3>1. Uninitialized
      BY <1>1, <2>4 DEF ExistingInv
    <3>2. ASSUME NEW x \in existing
          PROVE  OnItsWay(x)'
      BY <1>1, <2>2, <3>1, <3>2 DEF Uninitialized, OnItsWay
    <3>3. Uninitialized'
      BY <1>1, <3>1, <3>2 DEF Uninitialized
    <3> QED BY <1>1, <1>2, <2>4, <3>3 DEF ExistingInv
  <2> QED BY <2>3, <2>4
<1> QED BY <1>3, <1>4

LEMMA ExistingLoops ==
    ASSUME ScanInv, ExistingInv,
           \/ List \/ FetchTorrents \/ Initialize \/ StartGroups \/ StartFiles \/ EndScan
    PROVE  ExistingInv'
<1> SUFFICES ASSUME failures' = 0, IgnoreExisting
             PROVE  ExistingInv'
  BY DEF ExistingInv
<1>1. failures = 0 /\ UNCHANGED tables
  BY DEF List, FetchTorrents, Initialize, StartGroups, StartFiles, EndScan
<1>2. \A o \in Objects : Taken(o)' = Taken(o) /\ objects'[o] = objects[o]
  BY <1>1 DEF tables, Taken, Items
<1>3. existing \subseteq Objects
  BY DEF ScanInv, TypeOK
<1>4. CASE List
  <2> USE <1>4 DEF List
  <2>1. CASE initialized
    BY <1>1, <1>2, <1>3, <2>1 DEF ExistingInv
  <2>2. CASE ~initialized
    <3>1. Uninitialized /\ existing' = Listing /\ todo' = Listing /\ Listing \subseteq Objects
      BY <1>1, <2>2 DEF ExistingInv, Uninitialized, Listing, ScanInv, TypeOK
    <3>2. \A o \in Objects : ~Taken(o)' /\ objects'[o] = "unseen"
      BY <1>2, <3>1 DEF Uninitialized, Taken, Items
    <3>3. seen' = NoneSeen /\ \A o \in Listing : seen'[o] = NotSeen
      BY <3>1 DEF Uninitialized, NoneSeen
    <3>4. Uninitialized'
      BY <1>1, <3>1, <3>2, <3>3 DEF Uninitialized, OnItsWay, tables
    <3> QED BY <2>2, <3>1, <3>2, <3>3, <3>4 DEF ExistingInv
  <2> QED BY <2>1, <2>2
<1>5. CASE FetchTorrents
  <2> USE <1>5 DEF FetchTorrents
  <2>1. Uninitialized => Uninitialized'
    BY <1>1, <1>2, <1>3 DEF Uninitialized, OnItsWay, tables
  <2> QED BY <1>1, <1>2, <1>3, <2>1 DEF ExistingInv
<1>6. CASE Initialize
  <2> USE <1>6 DEF Initialize, Forget
  <2>1. Uninitialized
    BY <1>1 DEF ExistingInv
  <2>2. \A o \in existing : objects'[o] = "ignored" /\ seen'[o] = NotSeen
    BY <1>2, <1>3, <2>1 DEF Uninitialized, OnItsWay, NoneSeen
  <2> QED BY <1>1, <1>2, <1>3, <2>2 DEF ExistingInv
<1>7. CASE StartGroups \/ StartFiles \/ EndScan
  <2>1. initialized /\ initialized' /\ existing' = existing
    BY <1>1, <1>7 DEF StartGroups, StartFiles, EndScan, ExistingInv, Uninitialized, ScanInv, TypeOK
  <2>2. \A o \in existing : seen'[o] \in {NotSeen, "ignored"}
    BY <1>1, <1>3, <1>7, <2>1 DEF StartGroups, StartFiles, EndScan, Forget, NoneSeen, ExistingInv
  <2> QED BY <1>1, <1>2, <1>3, <2>1, <2>2 DEF ExistingInv
<1> QED BY <1>4, <1>5, <1>6, <1>7

LEMMA ExistingOthers ==
    ASSUME ScanInv, ExistingInv,
           \/ \E o \in Objects : Upload(o) \/ Age(o)
           \/ \E t \in Torrents : AddTorrent(t) \/ CompleteTorrent(t) \/ RemoveTorrent(t)
           \/ \E j \in JobIds : AttemptFails(j) \/ JobResumes(j)
           \/ UNCHANGED vars
    PROVE  ExistingInv'
<1> SUFFICES ASSUME failures' = 0, IgnoreExisting
             PROVE  ExistingInv'
  BY DEF ExistingInv
<1>1. failures = 0 /\ existing \subseteq Objects /\ UNCHANGED <<initialized, localVars, existing>>
  BY DEF Upload, Age, AddTorrent, CompleteTorrent, RemoveTorrent, MoveTorrent, AttemptFails,
         JobResumes, otherVars, vars, localVars, ScanInv, TypeOK
<1>2. CASE UNCHANGED tables
  <2>1. \A o \in Objects : Taken(o)' = Taken(o) /\ objects'[o] = objects[o]
    BY <1>2 DEF tables, Taken, Items
  <2>2. Uninitialized => Uninitialized'
    BY <1>1, <1>2, <2>1 DEF Uninitialized, OnItsWay, tables, localVars
  <2> QED BY <1>1, <2>1, <2>2 DEF ExistingInv, localVars
<1>3. ASSUME NEW j \in JobIds, AttemptFails(j) \/ JobResumes(j)
      PROVE  ExistingInv'
  <2>1. PICK to \in {"retry_wait", "queued"}, state \in JobStates \ {"absent"},
             attempts \in Nat, retry \in {"none", "waiting", "due"} :
           /\ jobs[j].state # "absent"
           /\ jobs' = [jobs EXCEPT ![j] = Row(j, state, attempts, retry)]
           /\ \A o \in Objects : o \notin Items(j) => objects'[o] = objects[o]
    <3>1. CASE AttemptFails(j)
      <4>1. jobs[j].attempts \in Nat
        BY DEF ScanInv, TypeOK, JobStoreTypeOK, JobRow
      <4> QED BY <3>1, <4>1 DEF AttemptFails, FailJob, SetJob, SetItems, JobStates
    <3>2. CASE JobResumes(j)
      BY <3>2 DEF JobResumes, RetryJob, Retryable, SetJob, SetItems, JobStates
    <3> QED BY <1>3, <3>1, <3>2
  <2>2. ~Uninitialized /\ initialized
    BY <1>1, <2>1 DEF Uninitialized, ExistingInv
  <2>3. \A k \in JobIds : Items(k)' = Items(k)
    BY <2>1 DEF Items, Row, ScanInv, TypeOK, JobStoreTypeOK
  <2>4. \A o \in existing : ~Taken(o)' /\ objects'[o] = "ignored"
    BY <1>1, <2>1, <2>2, <2>3 DEF ExistingInv, Taken
  <2> QED BY <1>1, <2>2, <2>4 DEF ExistingInv, localVars
<1> QED BY <1>2, <1>3 DEF Upload, Age, AddTorrent, CompleteTorrent, RemoveTorrent, MoveTorrent,
                          tables, vars

LEMMA ExistingStep ==
    ASSUME ScanInv, ExistingInv, [Next]_vars
    PROVE  ExistingInv'
<1>1. CASE RTorrentDown \/ ScanFails \/ Restart
  <2>1. failures' # 0
    BY <1>1, FailuresAssumption DEF RTorrentDown, ScanFails, Restart, ScanInv, TypeOK
  <2> QED BY <2>1 DEF ExistingInv
<1> QED BY <1>1, ExistingQueue, ExistingSeen, ExistingLoops, ExistingOthers DEF Next, Scan

\* README "ignore_existing": what the first scan of a rule lists is never queued,
\* by itself or with a torrent, for any number of files, generations, torrents
\* and jobs, as long as no call failed and the process was not restarted.
THEOREM ExistingStaysIgnored == Spec => []ExistingIsIgnored
<1>1. Init => ExistingInv
  BY DEF Init, ExistingInv, Uninitialized, NoJobRow
<1>2. ScanInv /\ ExistingInv /\ [Next]_vars => ExistingInv'
  BY ExistingStep
<1>3. ExistingInv => ExistingIsIgnored
  BY DEF ExistingInv, ExistingIsIgnored
<1> QED BY <1>1, <1>2, <1>3, ScanInvariant, PTL DEF Spec

=============================================================================
