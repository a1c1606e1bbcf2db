# A TLA+ model of Copyarr

Copyarr copies or moves files from a source (a seedbox) to a destination with
rclone, through a persistent queue in SQLite. This directory holds a
specification of it in TLA+, the configurations that check it with TLC on small
instances, and proofs, checked by TLAPS, that hold for every instance. All paths
below are relative to the repository (`src/`).

## 1. The system

| component | code | state | operations | modelled in |
|---|---|---|---|---|
| job store | `internal/db/db.go` | tables `objects` (generations of files), `jobs`, `job_items` | one SQLite transaction per function | `JobStore` |
| scanner | `engine.go` `scanRule` | nothing of its own | list the source, remember generations (`UpsertSeen`), queue what rTorrent or stability says is complete (`CreateJob`) | `Scanner` |
| transfer worker | `engine.go` `worker`, `transferJob` | the picked job, rclone's progress | copy to staging, verify, commit, verify, record, release the source, settle | `Worker` |
| job control | `engine.go` `ControlJob` | `active`, `activeCancel`, `controlActions` under `mu` | pause, resume, retry, cancel, from HTTP handlers | `Worker` |
| rclone client | `internal/rclone/client.go` | none (external file trees) | copy with multi-thread fallback, moveto, deletefile, purge, lsjson; `config create` and `config delete` | `Worker`, `Retention`, `Definitions` |
| scheduler | `engine.go` `scheduler`, `scanAll`, `TriggerScan` | a ticker and the channel `wake` of capacity one | scan each enabled rule, then clean it up | `Retention` |
| retention | `engine.go` `cleanupRule` | none | delete committed files after `cleanup_days` when their size still matches | `Retention` |
| rule definitions | `engine.go` `SaveJobDefinition` ... | `rules`, `retryPolicies`, `overrides`; rows `jobdef:<id>`, `rule:<id>:retry_policy` | save, patch, delete, reset | `Definitions` |
| remotes | `engine.go` `CreateRemote` ... | the rclone config | create, delete unless in use | `Definitions` (by name) |
| start-up | `main.go`, `New`, `rcloneconf.go`, `RecoverInterrupted` | the rclone config file | import it once, load the rows, requeue what was copying | `RcloneConf`, `Definitions`, `Worker` |
| privateering push | `internal/privateering` | three rows of `meta`, `lastPush` | push a snapshot when due or on request, change the settings | `Privateering` |
| the rest | filters' patterns, rTorrent's XML-RPC, log expiry, logging, web UI | | | not modelled, see section 6 |

Goroutines: one worker, one scheduler, one pusher, one log cleaner, and one per
HTTP request. They share the database (each transaction atomic), and
`Engine.mu`, which protects memory only and is never held across a database
call or an rclone command. So the worker, the scheduler and operators' requests
interleave between any two transactions, and their rclone commands may run at the
same time on the same files. The process may be killed between any two steps;
only the database and the files survive.

What is hard here is not any single step but what may come in between: a
request between reading a row and updating it, a cancel that arrives as the
copy ends, a failure after some of the items were recorded, a restart before
the job row was, a second handler between the rows and the memory of a rule, and
a source that goes on changing. `PROJECT.json` lists these hazards with their
lines and the properties that watch them.

What makes each component correct:

* store and control: the state of the items always fits the state of their job;
  a request acts on the attempt it was meant for; retries are bounded and always
  scheduled; ended jobs stay ended; every queued job settles;
* transfer: what leaves the source has reached the destination, and what is
  reported done has, whatever fails, is cancelled, restarts or is replaced;
* scanner: no two generations wait to be queued, none that is complete is
  forgotten, nothing that is still growing is queued;
* scheduler and retention: a requested scan happens; only what was committed and
  is unchanged is deleted, and in the end it is;
* definitions: what is in memory is what a restart would load; what the operator
  cannot see (a redacted password, a definition on a remote) is not lost;
* rclone config: never torn, never imported twice;
* push: silent when disabled, not more often than asked, current in the end.

## 2. The modules

```
JobStore <-- Worker (implements Delivery)        RcloneConf <-- Definitions
    ^-- Scanner      \                           Retention
          \---------- Pipeline                   Privateering
```

Each has an MC module with its instances, and some a module of proofs.
One step of a model is one database transaction or statement, one critical
section of `Engine.mu`, or one file treated by an rclone command.

Some operators are followed nowhere by the specification: those introduced as a
"variant with a fault" or "mutant of" another. Each is a plausible mistake in the
operator defined after it; put in its place it makes TLC find one property of one
run violated, which shows that the property can fail (`"mutants"` in
`PROJECT.json`).

### JobStore

The tables and one operator per transaction of `db.go`, with the `WHERE` clauses
of its statements. The unconditional updates (`StartJob`, `CompleteObject`,
`CompleteJob`, `FailJob`) and the conditional ones (`RetryJob`, `RequeueJob`,
`PauseJob`, `CancelJob`) are kept apart because the hazards are about their
order. `next_retry_at` is none, waiting or due.

### Worker and Delivery

`Worker` extends `JobStore` with the worker goroutine (`pc`, `picked`, `todo`),
Engine's control state (`active`, `controlActions`, `ctxDone`), the HTTP handlers
(`request`), and the three file trees (`src`, `stage`, `dest`) plus the files an
importer took (`library`).

| action | code |
|---|---|
| `PollRetries`, `QueueEmpty`, `PickJob`, `PickedJobUnusable` | the head of the loop of `worker` |
| `StartAttempt`, `StartFails`, `BeginActive`, `CleanStage`, `Transferring` | `transferJob` up to the copy |
| `StartCopy`, `CopyFile`, `CopyAgain`, `CopyDone` | `rclone copy`/`copyto`: it lists, copies each file, ends; a failed one is run again once without multi-threading |
| `Finalizing`, `VerifyStage`, `StartCommit`, `CommitFile`, `Committed`, `VerifyFinal` | verification and commit |
| `RecordItem`, `Recorded`, `StartRelease`, `RemoveSource`, `Released`, `Finish` | record, delete the source, complete |
| `RcloneFails`, `StoreFails`, `Unwind` | every early return of `transferJob`, and its deferred calls |
| `DiscardControlAction`, `ConsumeControlAction`, `Settle...`, `SweepStage` | what `worker` does with the result |
| `AskActive`, `AskStore`, `CallCancel`, `CallStore`, `StoreRefuses`, `PurgeCancelled` | `ControlJob`, split where it releases the mutex |
| `Enqueue`, `Arrive`, `Take`, `RetryDue`, `Restart` | scanner, uploader, importer, clock, process |

An rclone command may fail at any point and leave what it did; a cancelled
context makes it fail. rclone's own retries are not shown. Whether a failure is
retried without multi-threading depends on an error text that quotes the
arguments of the command, so `CopyAgain` may follow any failure. `Worker` is for
jobs that have no item in common.

`Delivery` is the promise, in three variables: a generation is delivered while
the source holds it, released only when delivered, a payload reported only when
all of it was delivered (and, for a move, released). `Worker` is checked to
implement it (`KeepsPromise`) with `held`, `delivered` and `done` read off the
file trees and the job table.

### Scanner

`scanRule` for one rule, on the same tables (it instantiates `JobStore` with job
keys that name a torrent and a set of generations). Its local variables (`todo`,
`seen`, `rtOK`, `known`, `assigned`) live from one `List` to the end of the scan,
or to the call that fails. Around it are the source (`src`, and `fresh`, the
generations not uploaded yet), rTorrent (`torrents`), the stability timer
(`aged`) and the transactions of the worker and the operators that touch what the
scanner reads.

| action | code (`scanRule`) |
|---|---|
| `List` | `ListTarget` of the source |
| `FetchTorrents`, `RTorrentDown` | the rTorrent call, or its error when it is not required |
| `SeeItem`, `IgnoreItem` | the loop over the listing: `UpsertSeen`, and `SetStateByKey` of the bootstrap |
| `Initialize` | the end of the bootstrap: the row of `meta`, and return |
| `StartGroups`, `QueueGroup` | the loop over the completed torrents: `matchingSeen`, `allProcessable`, `CreateJob` |
| `StartFiles`, `QueueFile`, `EndScan` | the loop over the files: `torrentForPath`, stability, `CreateJob` |
| `ScanFails`, `Restart` | an error returned by any call; the process |
| `AttemptFails`, `JobResumes` | `FailJob` and `RetryJob`, by which an object comes to wait for a retry |
| `Upload`, `AddTorrent`, `CompleteTorrent`, `RemoveTorrent`, `Age` | uploader, rTorrent, clock |

The loops follow the order of rclone's listing and of rTorrent's answer, neither
of which is fixed, so each takes any element of `todo` next. Other states of a job
(copying, paused, ended) are not shown here: the scanner only asks whether a key
is taken and whether an object is `discovered` or `retry_wait`.

### Pipeline

The composition: one step of `Pipeline` is a step of `Scanner` or of `Worker` on
the same `jobs`, `objects` and source (`src`, by path in `Worker`; `OnSource`, its
set of generations, in `Scanner`), or a step of the uploader or the clock, which
both see, or a restart of both. Here the transactions of the whole worker, not
only `AttemptFails` and `JobResumes`, run between two reads of a scan; and what
`Worker` copies is what the uploader has put there by then, not what the job was
queued for. The rule copies and has no rTorrent: with an empty set of torrents a
successful answer and the absence of rTorrent give the same scan, so `Scanner` is
instantiated with `Torrents <- {}`. Operators and importers are left to `Worker`,
and the bootstrap to `Scanner`: uploads begin after it.

### Retention

| action | code |
|---|---|
| `TriggerScan`, `Tick`, `WakeUp` | `TriggerScan`, `scheduler`: two channels of capacity one |
| `BeginScan`, `NextRule`, `ScanRule` | `scanAll` over the copy `rulesSnapshot` made; a scan succeeds or fails |
| `ListCandidates`, `StatItem`, `DeleteItem`, `MarkItem` | `cleanupRule`: `CleanupCandidates`, `Stat`, `DeleteFile`, `SetState` |
| `StartCopy`, `Commit`, `Complete`, `EndTransfer` | what the worker does to an object and the destination: `StartJob`, `MoveTo`, `CompleteObject`, and `CompleteJob`, `FailJob`, a pause or a cancel |
| `Age`, `Import`, `EditRule`, `Restart` | clock, other programs, operators, process |

A row is `open` unless it is done or cleaned: the cleanup tells no more apart, and
the worker goes by where it is (`transfer`), never by the row. `StartJob`, the commit and
`CompleteObject` do not ask for it, so a generation that a cleanup marks while it is
delivered again is delivered all the same. That happens to an item of a job that did
not end: done before a crash, aged, and copied again with the rest of the job.

`plan` is the copy of the rules a scan works on, `cands` and `item` are the
candidates as they were read. `fresh` is a history variable: the paths written
since then, by whomever.

### RcloneConf and Definitions

`RcloneConf` is `EnsureWritableRcloneConfig` in steps between which the process
may be killed (`StatConf`, `CreateEmpty`, `Stage`, `CopySource`, `Install`), or give
up (`StartFails`). A file is the set of remotes it defines, or torn. `Definitions`
extends it: what start-up ends in is `New` loading the rows (`LoadAll`,
`LoadsLess`), and the remotes API changes the file.

| action | code |
|---|---|
| `AskSave`, `SaveDef`, `SavePolicy`, `InstallRule` | `SaveJobDefinition` |
| `AskPatch`, `PatchPolicy`, `InstallPolicy` | `PATCH /api/rules/{id}`, `UpdateRetryPolicy` |
| `AskDelete`, `DeleteDef`, `ForgetRule` | `DeleteJobDefinition` |
| `AskReset`, `ResetDef`, `ResetPolicy`, `RestoreRule` | `ResetJobDefinition` |
| `CreateRemote`, `AskDeleteRemote`, `DeleteRemote` | the remotes API, `RemoteUsage` |
| `CallFails` | any of the statements and commands failing |
| `Launch`, `StatConf` ... `LoadAll`, `LoadsLess` | `main`, `New` |
| `Killed`, `EditSource` | the process; the administrator |

An `Ask...` step is everything a handler reads from memory before its first
statement; the others are one statement each, and one critical section at the
end. A rule is its remote, its retry policy and its rTorrent password; the other
fields travel with them. `disturbed` and `met` are history variables: the ids
whose last call failed midway or overlapped another, and the ids of the calls
that were under way during a call.

### Privateering

| action | code |
|---|---|
| `Check`, `PushNow` | the ticker's `maybePush`, a handler's `PushNow` |
| `GetUrl`, `GetToken`, `GetInterval` | `Store.Get`, one row after the other |
| `SkipCheck`, `StartPush`, `TakeSnapshot`, `Post`, `PushFails` | the decision, `lastPush`, `pushOnce`, `push` |
| `AskPut`, `PutUrl`, `PutToken`, `PutInterval`, `PutFails` | `PUT /api/privateering/settings`, `Store.Update` |
| `Pass`, `DataChanges`, `Restart` | clock, the rest of Copyarr, process |

A snapshot is the version of the data it was taken from. Times are counted in
checks of the ticker, and what is longer than the longest interval is not told
apart; the overflow of an interval of centuries is not shown. `lastPush` is read and
written without a lock. It is a time of three words, but once it was set a torn
read differs from a whole one in nothing the decision looks at (the monotonic
reading is one word); a read torn by the very first write may find a time in the
future and skip a check, which `SkipCheck` allows. `own`, `on` and
`met` are history variables (the time since the ticker's own last push; the
pushers that could see the push enabled; those that read while a PUT was writing).

## 3. The runs

| run | instance | shows |
|---|---|---|
| `tables` | one job of one file, two operators, 3 requests, 1 restart, 1 database error, 1 retry, fair | `ControlMarksAreCurrent`, `RetryScheduled`, `AttemptsBounded`, `ItemsMatchJob`, `CopyingIsWorked`, `EndedJobsStay`; `AcceptedCancelEnds`: without a restart or an error, a cancel that a running transfer has accepted ends the job, unless a pause replaces it |
| `queue` | two jobs, 1 request, fair | the same control and item invariants across jobs; `JobsSettle` |
| `folders` | a move of either of two directories of two files, one selected by filters (with an excluded file that may appear at any time), one without filters, whose source is purged; 1 request, 1 restart, 1 database error | `KeepsPromise` |
| `late_file` | a move of one directory of two files without filters, to which a third may be added | violated: `rclone purge` deletes a file that was never copied |
| `scan` | a file of one torrent, replaced once, two failures, fair | `OneDiscoveredGeneration`, `ReadinessIsRTorrents`, `SupersededIsNotQueued`, `ExistingIsIgnored`, `StableFilesAreQueued`, `CompletedPayloadsAreTaken` |
| `bootstrap` | one file, one failure | violated: a file that was there before the rule is queued |
| `payload` | one torrent of two files | violated: the job of a completed torrent lacks a file |
| `replaced` | scanner and worker on one path, two generations of different sizes in either order, 1 failed scan, 1 restart, 1 retry, fair | `DoneIsDelivered`, `OneGenerationWaits`, `NewestArrives` |
| `rules` | a rule of the file and one of the UI, one remote, two clients, 3 requests, 1 fault, 1 crash or failed start | `MemoryIsStored`, `PasswordsAreKept`, `UnconfirmedDeletesAreSafe`, `RunsOnWholeConfig`, `OwnedConfigStays` |
| `cleanup` | one rule, two generations of one path and one size, one foreign file of another, 1 fault, fair | `RequestsWait`, `CleanupIsJustified`, `AgedFilesLeave` |
| `stale` | the same, the newer generation larger, no faults | violated: a cleanup deletes a file that does not have the recorded size |
| `push` | one Nexus, with its token or none, two clients, 2 requests, 1 fault, 1 change of the data, fair | `DisabledIsSilent`, `TickerKeepsInterval`, `NexusCatchesUp` |

Each `violated` run is one entry of `"findings"` in `PROJECT.json`, with the line of
the README the code departs from. What `late_file` shows for the purge of a
directory holds for a single file too: `deletefile` removes the generation that
is there by then, also one uploaded after the copy was verified.

`DoneIsDelivered` is about the default, `size`: a generation whose replacement has
another size is noticed by `verifyManifest`, one of equal size is not. So the two
generations of `replaced` differ in size.

Bounds of `Worker`: `MaxRequests`, `MaxCrashes`, `MaxFaults` and `RetryLimit` are the only
counters that are cut. Three requests suffice for every sequence in which one
request undoes another while a third is half done; two handlers for two that
are past their first critical section at the same time. One restart and one
database error suffice for what they leave behind to be met by everything else;
the proofs cover all numbers. A second job matters only to the queue order and
to control state that leaks from one job to the next. All files have one size in
the instances, so what `verifyManifest` finds there is files that are missing;
`replaced` has different sizes. Two files in a directory are enough for a commit,
a release or a recording that stops between two of them.

Bounds of `Scanner`: `MaxFailures` counts failed scans, unanswered rTorrent
calls and restarts together; two are enough for one to interrupt a scan and one
to disturb the next. One file with two generations under one torrent is the
least in which a generation is superseded, a group changes between two scans and
a torrent is added, completed or removed at each step of a scan; what needs a
second file (an incomplete payload) has a run of its own. There are as many job
ids as keys, so that no bound of ids stops `CreateJob`. A generation that was
replaced does not come back, a listing is atomic, and the files of a torrent that
is complete no longer change. The rule copies, so nothing that the worker does
removes from the source.

Bounds of `Pipeline`: a restart is counted by both modules, so there is one failed
scan or one restart. Two generations are enough for a job that outlives what it was
queued for; database errors are left to `Worker`.

Bounds of the others: in `rules`, three requests let a third find what two that
overlapped have left, or let a repair be disturbed again; the two definitions a
client may send differ in remote, policy and password, and one of them leaves its
fields out. Symmetry under the exchange of the two handlers is used there; the run
has safety properties only. In `cleanup` one path is enough since candidates are
worked off one by one and paths do not interact. In `push` a snapshot is older or
current, which one change of the data tells apart; two requests let two settings
calls, or two pushes, or one of each, overlap with the ticker.

Deadlock checking is on in every run but `rules`. There an idle server, its
requests and faults used up, has nothing left to do; elsewhere the worker's poll,
the ticker or the clock always goes on.

With `verification: none` the promise is kept in the instance of `folders` without
requests only: a cancel that loses the race with `StartJob` purges the staging
directory under the running copy, and nothing notices that part of it is gone.
The runs use the default, `size`.

Two things the code does are seen in the models and not claimed to be wrong: a
cancel whose row is written between `NextQueuedJob` and `StartJob` is overridden (no
transfer was running to accept it, and `AcceptedCancelEnds` speaks of those one has
accepted, in `controlActions`), and a restart between `CompleteObject` and
`CompleteJob` copies a generation again that was already handled.

### Fairness

`FairSpec` of `Worker` assumes weak fairness of the worker goroutine as a whole (it
is scheduled, and each rclone command and transaction it waits for ends), of each
handler once it has begun, and of the clock passing a `next_retry_at`. Nothing
is assumed of operators, uploads, importers, failures or restarts. Whether an
rclone command succeeds is not a matter of fairness: it may fail every time, and
`JobsSettle` holds because the retry budget is bounded.

`FairSpec` of `Scanner` assumes weak fairness of the scan as a whole (the
scheduler's ticker starts it again, its calls end) and of each object reaching
its stability age. Uploads, torrents, failed attempts and resumes may happen or
not. Failed calls are bounded by `MaxFailures`, so the liveness properties say
what holds once rclone, the database and rTorrent answer again; nothing is
promised of a rule that requires an rTorrent which never does.

`FairSpec` of `Pipeline` assumes the same of the scan, the worker and the clock.
`NewestArrives` allows for a job that has used up its retries: rclone may fail
whenever it likes.

`FairSpec` of `Retention` assumes weak fairness of the scheduler goroutine (the
commands it waits for end) and of its ticker. `FairSpec` of `Privateering` assumes it
of the ticker's checks, of the goroutine of the ticker, of the clock and of each
handler that serves a request. Failures are bounded by `MaxFaults` in both, so their
liveness says what holds once they end. `Definitions` claims safety only.

## 4. What is proved

All theorems hold for every value of the constants, from the assumptions named in
the modules (types of the constants, distinct model values, a largest push
interval) only, but three, which state what else they need as hypotheses:
`WorkerDelivers`, `MoveRemovesOnlyDelivered` and `DoneHasArrived`. The instances of the
runs `folders` and `replaced` satisfy those hypotheses.

`WorkerProofs`, for every number of jobs, files, payloads, operators, requests,
restarts and errors:

* `TypeCorrect` — `Spec => []TypeOK`, with `IdsExist` (every job id the worker or
  a handler carries is a row of the table);
* `ControlReachesItsAttempt`, `RetriesAreScheduled`, `RetriesAreBounded`,
  `CopyingHasWorker` — the four invariants on `jobs` and Engine's memory;
* `TablesAgree` — `ItemsMatchJob`, the agreement of the two tables;
* `EndedStaysEnded` — `EndedJobsStay`: a done job never changes again, and a
  failed one only by an operator's retry, which gives it a full budget.

None of them is inductive alone. `RowsInv` joins the control and the retry
invariant with where the worker is:

* `JobStillOpen`: the row of a job under transfer is in a state that the
  operators' transactions can only move to paused, cancelled or queued, never to
  done;
* `AttemptsInv`: the worker's copy of `attempts`, plus one, bounds what the row
  holds;
* `CopyingInv`: without a database error, a row is `copying` only while the
  worker is in its transfer.

`ItemsInv` adds that a payload has one job (`OwnPayloads`), so that a transaction
on one job's items leaves another's alone, and `RecordedInv`: while the worker
records, only the items still in `todo` may be other than done, and from then to
`CompleteJob` none is. `EndedStaysEnded` needs no more than `TypeInv` and
`RowsInv` in each step: the worker writes only the row it picked, and
`JobStillOpen` says that this row has not ended.

The proofs go action by action, the operators of `JobStore` first
(`RowTransactions`, `FailTransaction`, `TableTransactions`, ...), so that an
action of `Worker` only cites what its transaction does.

`DeliveryProofs`, on `Worker` as well:

* `WorkerDelivers` — `Spec => KeepsPromise`: `Worker` implements `Delivery`;
* `MoveRemovesOnlyDelivered` — `RemovedOnlyWhenDelivered`, the line of the README that
  the run `late_file` shows violated.

Both are proved under three conditions. `Verified`: the rule verifies sizes; with
`none` a partial copy is recorded. `NothingIsReplaced`: a path has one generation
(others may appear at paths of their own at any time); a file that is written
over leaves the source undelivered, and `Delivery` has no step for that — what
happens then is the subject of `Pipeline`. `NothingIsAdded`: nothing is added to
a directory without filters between the making of its job and the purge, which
`late_file` shows to be needed for a move.

`DeliveryInv` has four parts. `FilesInPlace`: each tree holds at a path only what
belongs there. `StagedIsSafe`: staging is never the only place of a file, so purging
it, when a cancelled job is swept or a retry begins, loses nothing. `ItemsDelivered`:
from the final check to the report all items have reached the destination, wherever
the importer has taken them since. `ReleaseInv`: while the source is released, what
is still to be removed belongs to the job, and what is left of the job is still to
be removed; it makes the report of a moved payload true. `FileSteps` and `WhatIsHeld`
reduce the thirty actions to the four things that can happen to the files, and
`StepRowsKept` and `WhatIsDone` do the same for the table (only `Finish` adds to `done`).

`ScannerProofs`, for every number of objects, paths, torrents (also overlapping
ones), job ids and failures, and with or without `rtorrent.required` and
`ignore_existing`:

* `ScanTypeCorrect` — `Spec => []TypeOK`;
* `OneGenerationWaits` — `OneDiscoveredGeneration`. It is not inductive: a restart
  moves objects without a job back to discovered. `WaitingIsTaken` (an object
  that is queued, copied or waits for a retry is in a job) shows that the restart
  finds none;
* `RTorrentDecides` — `ReadinessIsRTorrents`: a file is queued by stability only in
  a scan that rTorrent did not answer, or when every torrent it belongs to has
  been removed. It rests on the order of the two calls: `ListedIsUploaded` (what is
  listed was uploaded after its torrent was added) and `AskedAfterListing`
  (rTorrent answered after the listing, so it named that torrent, and one it says
  is removed stays so). With the calls in the other order the second would not hold.

* `SupersededStaysOut` — `SupersededIsNotQueued`. `HistoryInv`: what one scan has listed and
  seen holds one generation of a file (`OneListed`), so whatever `UpsertSeen`
  supersedes is not among it, and of what it has seen the scan knows
  when it is superseded (`SupersededIsKnown`);
* `ExistingStaysIgnored` — `ExistingIsIgnored`. `ExistingInv`: before the rule is initialized
  there is no job, and every listed object is ignored or on its way (`OnItsWay`:
  still to be seen by the scan that will initialize the rule); from then on the
  objects that were there before are ignored and in no job, and no step takes
  them back as long as no call has failed and Copyarr was not restarted.

The tables come first here as well (`CreateTables`, `JobTables`, `SeenTables`,
`RecoverTables`), then what the scan knows, one lemma per part of the scan.

`PipelineProofs`, on `Pipeline`, for every number of files, generations, job ids, attempts
and restarts. The theorems of `WorkerProofs` and `ScannerProofs` cannot be cited for it:
in each of those modules the other component takes fewer steps, and `Worker` assumes
jobs whose paths are apart, while here the job of a file and the job of its next
generation have the same path.

* `PipelineHasOneGeneration` — `OneGenerationWaits`: with all of the worker's
  transactions, not only the two `Scanner` shows. `TablesInv` carries
  `WaitingIsTaken` (as above) and `PickedExists`: every transaction of the worker
  is on an existing row (`Settled`), so what it touches is in a job;
* `PipelineQueuesNoSuperseded` — `SupersededIsNotQueued` of `Scanner`, for the composition.
  `StartJob` writes the items of a job whatever their state, so a superseded
  generation can come back as waiting for a retry, but only in the job it
  already had;
* `DoneHasArrived` — `DoneIsDelivered`, if of the generations of a path no two have one
  size (`SizesTell`): what `verifyManifest` compares is all it can see. `CopiesInv`:
  what is at a path belongs there, and while the worker records its job, the
  destination holds the very generations the job lists (`VerifiedIsThere`), though
  the source may be replaced meanwhile.

`RetentionProofs`, for every number of rules, generations, paths and faults:

* `RetentionTypes` — `Spec => []TypeOK`; inductive with `AtHand`, by which there is a
  candidate and a rule at hand exactly where the scheduler uses them;
* `NoRequestIsLost` — `RequestsWait`, inductive with the types;
* `RemovalsAreJustified` — `CleanupIsJustified`. `CandidatesInv` follows a candidate
  from the statement that read it: its retention has run out and its rule asks for
  cleanup, or its path has been written since, and where the size was compared it
  is still that of the file, or the file is newer. `DoneIsSettled` says why a row that
  was done when it was read was not about to be completed a second time.

`ConfigProofs`, on `Definitions` with everything that may happen to the rclone config:

* `ConfigIsWhole` — `RunsOnWholeConfig`; `ConfigIsImportedOnce` — `OwnedConfigStays`.
  `ConfigInv`: the config itself is never torn, only the temporary file is, and an
  import is under way only while there is no config.

`DefinitionsProofs`, on all of `Definitions`, for every number of rules, remotes, clients,
requests and faults:

* `DefinitionsTypeCorrect` — `Spec => []TypeOK`;
* `MemoryFollowsRows` — `MemoryIsStored`: the rules Engine works with are those its rows
  say, except where a call failed half-way or two calls met on one rule;
* `PasswordsSurviveEdits` — `PasswordsAreKept`; `DeletesAreChecked` —
  `UnconfirmedDeletesAreSafe`.

`DefinitionsInv` speaks of one rule at a time: `RowInv`, of a rule no call is
changing, that memory and rows agree; `CallInv`, of a rule exactly one call is
changing, what that call has written and has still to write, and of a remote whose
deletion was not confirmed that no undisturbed definition uses it; `Overlap`, that calls
which are under way together know of each other, so that the one that returns
last marks the rule as disturbed.

`PrivateeringProofs`, for every set of URLs, tokens, intervals and clients:

* `PushTypes` — `Spec => []TypeOK`; inductive with `PutsInv`, that only a client
  writes the settings;
* `TickerIsSlow` — `TickerKeepsInterval`. `TimesInv`: the ticker's own last push is
  no later than the last push of anyone;
* `DisabledSendsNothing` — `DisabledIsSilent`. `ReadingInv` follows a check from row
  to row: what it has read and what is stored now enable the push together only if
  they did at one time, or a PUT was writing.

## 5. Only model-checked

Every invariant and every action property of the passing runs is proved. What stays with
TLC are the liveness properties, which need fairness and ENABLED: `JobsSettle`,
`AcceptedCancelEnds`, `StableFilesAreQueued`, `CompletedPayloadsAreTaken`, `NewestArrives`,
`AgedFilesLeave` and `NexusCatchesUp`; and, since a counterexample needs an
instance, what the four `violated` runs show.

## 6. Not modelled

* The web UI, logging and the routes that only read: no decision depends on them.
* Log expiry (`maintenance.go`): one DELETE that no other component reads.
* The parameters of remotes, their updates, and connection tests: the state is
  rclone's, and Copyarr passes it through.
* The matching of filter patterns: the models take the set of paths that pass, and
  assume that rclone's filter rules and `pathAllowed` agree on it.
* The decoding of XML-RPC and JSON, and the formatting of times.
* Opening the database and the listener.

## 7. Plan

1. Overlapping jobs: two torrents with the same files, which `Scanner` allows and
   `Worker` excludes; on the tables of `Pipeline`, with a move.
2. Proofs: a weaker hypothesis than `NothingIsReplaced` for `WorkerDelivers`, from a
   `Delivery` whose source may lose a file to a newer generation; `ItemsMatchJob` and
   the control invariants of `Worker` for the composition, where jobs of two
   generations share a path.
