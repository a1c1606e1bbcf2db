----------------------------- MODULE Retention ------------------------------
(***************************************************************************)
(* The scheduler goroutine and the retention cleanup it runs.  The         *)
(* scheduler wakes on its ticker or on a request for a scan, takes a copy  *)
(* of the rules and, for each enabled one, scans it (the module Scanner)   *)
(* and then removes the files Copyarr committed more than cleanup_days     *)
(* ago: candidates are read from the object table once, and for each the   *)
(* file is looked at, deleted and marked in separate steps.                *)
(*                                                                         *)
(* Meanwhile the worker commits further generations (the module Worker),   *)
(* an importer takes or replaces files and an operator changes the rules.  *)
(***************************************************************************)
EXTENDS Naturals

CONSTANTS
    Rules,
    Gens,           \* generations Copyarr may deliver
    RuleOf, PathOf, \* their rule and the destination path they are committed to
    Foreign,        \* files other programs put in place
    SizeOf,         \* the size of every file
    Paths, NoFile, NoRule, NoGen,
    MaxFaults       \* bound on failing commands and statements and on restarts

ASSUME RetentionAssumption ==
    /\ NoRule \notin Rules /\ NoGen \notin Gens
    /\ RuleOf \in [Gens -> Rules] /\ PathOf \in [Gens -> Paths]
    /\ Gens \cap Foreign = {} /\ NoFile \notin Gens \cup Foreign
    /\ SizeOf \in [Gens \cup Foreign -> Nat]
    /\ MaxFaults \in Nat

VARIABLES
    mode,           \* the rules in Engine's memory
    wake, tick,     \* what waits in Engine.wake and in the ticker, each of capacity one
    sched,          \* where the scheduler is
    plan, rule,     \* the rules as this scan copied them, without those it has visited;
                    \* the one it visits
    cands, item,    \* the cleanup candidates yet to be looked at, and the one at hand
    fresh,          \* the paths written since the candidates were read
    state, aged,    \* rows of objects: their state, and completed_at before the cutoff
    transfer,       \* how far the worker is with a generation of the job it transfers
    dest,           \* the destination
    owed,           \* a scan was requested and none has begun since
    faults

schedVars == <<sched, plan, rule, cands, item, fresh>>
objVars == <<state, aged, transfer, dest>>
vars == <<mode, wake, tick, schedVars, objVars, owed, faults>>

Contents == Gens \cup Foreign \cup {NoFile}
Steps == {"begin", "next", "scan", "list", "stat", "delete", "mark", "idle"}
\* disabled (or not there), enabled without and with cleanup_days.
Modes == {"disabled", "scan", "cleanup"}
\* open: any state that is neither done nor cleaned.
States == {"open", "done", "cleaned"}
\* Not in the worker's hands; copied to staging; in place; in place and reported.
Transfers == {"none", "copying", "committed", "completed"}

TypeOK ==
    /\ {mode, plan} \subseteq [Rules -> Modes] /\ {wake, tick, owed} \subseteq BOOLEAN
    /\ sched \in Steps /\ rule \in Rules \cup {NoRule}
    /\ cands \subseteq Gens /\ item \in Gens \cup {NoGen} /\ fresh \subseteq Paths
    /\ state \in [Gens -> States] /\ aged \subseteq Gens
    /\ transfer \in [Gens -> Transfers] /\ dest \in [Paths -> Contents]
    /\ faults \in 0 .. MaxFaults

NoPlan == [r \in Rules |-> "disabled"]
NoTransfer == [g \in Gens |-> "none"]

Init ==
    /\ mode \in [Rules -> Modes]
    /\ wake = FALSE /\ tick = FALSE /\ owed = FALSE
    /\ sched = "begin" /\ plan = NoPlan /\ rule = NoRule
    /\ cands = {} /\ item = NoGen /\ fresh = {}
    /\ state = [g \in Gens |-> "open"] /\ aged = {} /\ transfer = NoTransfer
    /\ dest = [p \in Paths |-> NoFile]
    /\ faults = 0

OneFault == faults < MaxFaults /\ faults' = faults + 1

-----------------------------------------------------------------------------
\* Mutant of TriggerScan: a channel without a buffer, and a request nobody waits for
\* is lost.
TriggerUnbuffered ==
    /\ wake' = (wake \/ sched = "idle") /\ owed' = TRUE
    /\ UNCHANGED <<mode, tick, schedVars, objVars, faults>>

\* POST /api/scan: dropped when one is waiting already.
TriggerScan ==
    /\ wake' = TRUE /\ owed' = TRUE
    /\ UNCHANGED <<mode, tick, schedVars, objVars, faults>>

Tick ==
    /\ ~tick /\ tick' = TRUE
    /\ UNCHANGED <<mode, wake, schedVars, objVars, owed, faults>>

WakeUp ==
    /\ sched = "idle" /\ sched' = "begin"
    /\ \/ wake /\ wake' = FALSE /\ UNCHANGED tick
       \/ tick /\ tick' = FALSE /\ UNCHANGED wake
    /\ UNCHANGED <<mode, plan, rule, cands, item, fresh, objVars, owed, faults>>

BeginScan ==
    /\ sched = "begin" /\ sched' = "next"
    /\ plan' = mode /\ owed' = FALSE
    /\ UNCHANGED <<mode, wake, tick, rule, cands, item, fresh, objVars, faults>>

NextRule ==
    /\ sched = "next"
    /\ LET rest == [r \in Rules |-> IF r = rule THEN "disabled" ELSE plan[r]]
       IN  /\ plan' = rest
           /\ IF rest = NoPlan THEN sched' = "idle" /\ rule' = NoRule
              ELSE \E r \in Rules : rest[r] # "disabled" /\ sched' = "scan" /\ rule' = r
    /\ UNCHANGED <<mode, wake, tick, cands, item, fresh, objVars, owed, faults>>

\* Mutant of ScanRule: a scan that failed skips the cleanup of its rule.
ScanRuleOrGiveUp ==
    /\ sched = "scan" /\ sched' \in {"list", "next"}
    /\ UNCHANGED <<mode, wake, tick, plan, rule, cands, item, fresh, objVars, owed, faults>>

\* Whether the scan succeeds or fails, as often as it likes, the cleanup follows.
ScanRule ==
    /\ sched = "scan" /\ sched' = "list"
    /\ UNCHANGED <<mode, wake, tick, plan, rule, cands, item, fresh, objVars, owed, faults>>

\* Mutant of Candidates: whatever was committed, however recently.
CandidatesOfAnyAge(r) == {g \in Gens : RuleOf[g] = r /\ state[g] = "done"}

Candidates(r) == {g \in Gens : RuleOf[g] = r /\ state[g] = "done" /\ g \in aged}

ListCandidates ==
    /\ sched = "list"
    /\ \/ plan[rule] = "cleanup" /\ cands' = Candidates(rule) /\ sched' = "stat" /\ UNCHANGED faults
       \/ plan[rule] = "scan" /\ sched' = "next" /\ UNCHANGED <<cands, faults>>
       \/ plan[rule] = "cleanup" /\ OneFault /\ sched' = "next" /\ UNCHANGED cands
    /\ UNCHANGED <<mode, wake, tick, plan, rule, item, fresh, objVars, owed>>

Unchanged(g) == dest[PathOf[g]] # NoFile /\ SizeOf[dest[PathOf[g]]] = SizeOf[g]

StatItem ==
    /\ sched = "stat"
    /\ \/ cands = {} /\ sched' = "next" /\ fresh' = {} /\ UNCHANGED <<cands, item, faults>>
       \/ \E g \in cands :
            /\ cands' = cands \ {g} /\ UNCHANGED fresh
            /\ \/ Unchanged(g) /\ sched' = "delete" /\ item' = g /\ UNCHANGED faults
               \/ ~Unchanged(g) /\ UNCHANGED <<sched, item, faults>>
               \/ OneFault /\ UNCHANGED <<sched, item>>
    /\ UNCHANGED <<mode, wake, tick, plan, rule, objVars, owed>>

\* rclone deletefile: it removes the file that is there now.
DeleteItem ==
    /\ sched = "delete"
    /\ \/ /\ dest[PathOf[item]] # NoFile /\ sched' = "mark"
          /\ dest' = [dest EXCEPT ![PathOf[item]] = NoFile] /\ UNCHANGED <<item, faults>>
       \/ /\ dest[PathOf[item]] = NoFile /\ sched' = "stat"
          /\ item' = NoGen /\ UNCHANGED <<dest, faults>>
       \/ OneFault /\ sched' = "stat" /\ item' = NoGen /\ UNCHANGED dest
    /\ UNCHANGED <<mode, wake, tick, plan, rule, cands, fresh, state, aged, transfer, owed>>

\* Mutant of MarkItem: a state no other statement knows.
MarkItemDeleted ==
    /\ sched = "mark" /\ sched' = "stat" /\ item' = NoGen
    /\ \/ state' = [state EXCEPT ![item] = "deleted"] /\ UNCHANGED faults
       \/ OneFault /\ UNCHANGED state
    /\ UNCHANGED <<mode, wake, tick, plan, rule, cands, fresh, aged, transfer, dest, owed>>

\* The state is set whatever it is by now, and an error is ignored.
MarkItem ==
    /\ sched = "mark" /\ sched' = "stat" /\ item' = NoGen
    /\ \/ state' = [state EXCEPT ![item] = "cleaned"] /\ UNCHANGED faults
       \/ OneFault /\ UNCHANGED state
    /\ UNCHANGED <<mode, wake, tick, plan, rule, cands, fresh, aged, transfer, dest, owed>>

SchedulerStep ==
    \/ WakeUp \/ BeginScan \/ NextRule \/ ScanRule
    \/ ListCandidates \/ StatItem \/ DeleteItem \/ MarkItem

-----------------------------------------------------------------------------
\* The worker: StartJob, the commit over whatever is at the path, CompleteObject and the
\* end of the attempt.  None of them asks for the state of the row, so a generation that
\* is delivered again goes on when a cleanup marks it meanwhile.  One goroutine has one job,
\* and a job one generation of a path.
StartCopy(g) ==
    /\ \A h \in Gens : PathOf[h] = PathOf[g] => transfer[h] = "none"
    /\ transfer' = [transfer EXCEPT ![g] = "copying"]
    /\ state' = [state EXCEPT ![g] = "open"]
    /\ UNCHANGED <<mode, wake, tick, schedVars, aged, dest, owed, faults>>

Put(p, c) == /\ dest' = [dest EXCEPT ![p] = c]
             /\ fresh' = IF sched \in {"stat", "delete", "mark"} THEN fresh \cup {p} ELSE fresh

Commit(g) ==
    /\ transfer[g] = "copying" /\ transfer' = [transfer EXCEPT ![g] = "committed"]
    /\ Put(PathOf[g], g)
    /\ UNCHANGED <<mode, wake, tick, sched, plan, rule, cands, item, state, aged, owed, faults>>

Complete(g) ==
    /\ transfer[g] = "committed" /\ transfer' = [transfer EXCEPT ![g] = "completed"]
    /\ state' = [state EXCEPT ![g] = "done"] /\ aged' = aged \ {g}
    /\ UNCHANGED <<mode, wake, tick, schedVars, dest, owed, faults>>

\* FailJob opens the row again whatever it says, also of an item that was done already;
\* CompleteJob, a pause or a cancel of what is not copying, and an error leave it alone.
EndTransfer(g) ==
    /\ transfer[g] # "none" /\ transfer' = [transfer EXCEPT ![g] = "none"]
    /\ state' \in {state, [state EXCEPT ![g] = "open"]}
    /\ UNCHANGED <<mode, wake, tick, schedVars, aged, dest, owed, faults>>

\* cleanup_days pass; the age is only asked of rows that are done.
Age(g) ==
    /\ state[g] = "done" /\ aged' = aged \cup {g} /\ g \notin aged
    /\ UNCHANGED <<mode, wake, tick, schedVars, state, transfer, dest, owed, faults>>

\* Other programs take a committed file away, or put another in its place.
Import(p) ==
    /\ dest[p] # NoFile /\ \E c \in (Foreign \cup {NoFile}) \ {dest[p]} : Put(p, c)
    /\ UNCHANGED <<mode, wake, tick, sched, plan, rule, cands, item, state, aged, transfer>>
    /\ UNCHANGED <<owed, faults>>

\* An operator adds, deletes, enables or disables a rule, or sets its cleanup_days.
EditRule(r) ==
    /\ \E m \in Modes \ {mode[r]} : mode' = [mode EXCEPT ![r] = m]
    /\ UNCHANGED <<wake, tick, schedVars, objVars, owed, faults>>

\* The process ends and is started again: what waited in the channels is gone, and the
\* first thing the scheduler does is a scan.  RecoverInterrupted changes open rows only.
Restart ==
    /\ OneFault
    /\ wake' = FALSE /\ tick' = FALSE /\ owed' = FALSE
    /\ sched' = "begin" /\ plan' = NoPlan /\ rule' = NoRule
    /\ cands' = {} /\ item' = NoGen /\ fresh' = {}
    /\ transfer' = NoTransfer /\ UNCHANGED <<mode, state, aged, dest>>

Next ==
    \/ SchedulerStep \/ TriggerScan \/ Tick \/ Restart
    \/ \E g \in Gens : StartCopy(g) \/ Commit(g) \/ Complete(g) \/ EndTransfer(g) \/ Age(g)
    \/ \E p \in Paths : Import(p)
    \/ \E r \in Rules : EditRule(r)

Spec == Init /\ [][Next]_vars

\* The scheduler runs and its ticker ticks; the rclone commands a scan runs return.
FairSpec == Spec /\ WF_vars(SchedulerStep) /\ WF_vars(Tick)

-----------------------------------------------------------------------------
\* A request for a scan never waits for the ticker: until a scan begins after it, the
\* channel holds one, though it has room for only one and a scan may be running.
RequestsWait == owed => wake \/ sched = "begin"

\* An aged file nobody touches is removed in the end, however its rule's scans fail.
AgedFilesLeave ==
    \A g \in Gens :
        state[g] = "done" /\ g \in aged /\ dest[PathOf[g]] = g
        ~> \/ dest[PathOf[g]] # g \/ state[g] # "done" \/ g \notin aged
           \/ mode[RuleOf[g]] # "cleanup"

\* The file a cleanup removes, unless it was put there after the candidates were read,
\* has the size recorded for a generation whose retention has run out at that path,
\* under a rule that asks for cleanup.
CleanupIsJustified ==
    [][sched = "delete" /\ sched' = "mark" /\ PathOf[item] \notin fresh =>
        \E g \in aged : /\ PathOf[g] = PathOf[item] /\ plan[RuleOf[g]] = "cleanup"
                       /\ SizeOf[g] = SizeOf[dest[PathOf[g]]]]_vars

\* README: cleanup "skips files whose current size differs from the recorded size".
RemovedSizeIsRecorded ==
    [][sched = "delete" /\ sched' = "mark" => SizeOf[dest[PathOf[item]]] = SizeOf[item]]_vars
=============================================================================
