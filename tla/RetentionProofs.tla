--------------------------- MODULE RetentionProofs ---------------------------
(***************************************************************************)
(* What holds of the scheduler and its cleanup for any number of rules,    *)
(* generations and paths, and however often commands fail and the process  *)
(* is started again.                                                       *)
(***************************************************************************)
EXTENDS Retention, TLAPS

Cleaning == {"stat", "delete", "mark"}

\* What is at hand wherever the scheduler is.
AtHand ==
    /\ sched \in {"scan", "list"} \cup Cleaning => rule \in Rules
    /\ IF sched \in {"delete", "mark"} THEN item \in Gens ELSE item = NoGen
    /\ sched \notin Cleaning => cands = {}

TypeInv == TypeOK /\ AtHand

LEMMA InitTypes == Init => TypeInv
<1> SUFFICES ASSUME Init PROVE TypeInv
  OBVIOUS
<1>1. {mode, plan} \subseteq [Rules -> Modes] /\ dest \in [Paths -> Contents]
  BY DEF Init, Modes, Contents, NoPlan
<1>2. state \in [Gens -> States] /\ transfer \in [Gens -> Transfers]
  BY DEF Init, States, Transfers, NoTransfer
<1>3. TypeOK
  <2>1. faults \in 0 .. MaxFaults
    BY RetentionAssumption DEF Init
  <2>2. wake = FALSE /\ tick = FALSE /\ owed = FALSE
    BY DEF Init
  <2>3. {wake, tick, owed} \subseteq BOOLEAN
    BY <2>2
  <2> QED BY <1>1, <1>2, <2>1, <2>3 DEF Init, TypeOK, Steps
<1>4. AtHand
  BY DEF Init, AtHand, Cleaning
<1> QED BY <1>3, <1>4 DEF TypeInv

LEMMA FaultsCounted ==
    ASSUME TypeOK, UNCHANGED faults \/ OneFault
    PROVE  faults' \in 0 .. MaxFaults
BY RetentionAssumption DEF TypeOK, OneFault

LEMMA SchedulerTyped ==
    ASSUME TypeInv, SchedulerStep
    PROVE  TypeInv'
<1> USE DEF TypeInv, TypeOK, AtHand, Steps, Cleaning
<1>1. CASE WakeUp
  BY <1>1 DEF WakeUp, objVars
<1>2. CASE BeginScan
  BY <1>2 DEF BeginScan, objVars
<1>3. CASE NextRule
  <2> DEFINE rest == [r \in Rules |-> IF r = rule THEN "disabled" ELSE plan[r]]
  <2>1. rest \in [Rules -> Modes]
    BY DEF Modes
  <2>2. plan' = rest /\ sched' \in {"idle", "scan"}
    BY <1>3 DEF NextRule
  <2>3. rule' \in Rules \cup {NoRule} /\ (sched' = "scan" => rule' \in Rules)
    BY <1>3 DEF NextRule
  <2> QED BY <1>3, <2>1, <2>2, <2>3 DEF NextRule, objVars
<1>4. CASE ScanRule
  BY <1>4 DEF ScanRule, objVars
<1>5. CASE ListCandidates
  <2>1. faults' \in 0 .. MaxFaults
    BY <1>5, FaultsCounted DEF ListCandidates
  <2> QED BY <1>5, <2>1 DEF ListCandidates, Candidates, objVars
<1>6. CASE StatItem
  <2>1. faults' \in 0 .. MaxFaults
    BY <1>6, FaultsCounted DEF StatItem
  <2> QED BY <1>6, <2>1 DEF StatItem, objVars
<1>7. CASE DeleteItem
  <2>1. faults' \in 0 .. MaxFaults
    BY <1>7, FaultsCounted DEF DeleteItem
  <2>2. dest' \in [Paths -> Contents]
    BY <1>7 DEF DeleteItem, Contents
  <2> QED BY <1>7, <2>1, <2>2 DEF DeleteItem
<1>8. CASE MarkItem
  <2>1. faults' \in 0 .. MaxFaults
    BY <1>8, FaultsCounted DEF MarkItem
  <2>2. state' \in [Gens -> States]
    BY <1>8 DEF MarkItem, States
  <2> QED BY <1>8, <2>1, <2>2 DEF MarkItem
<1> QED BY <1>1, <1>2, <1>3, <1>4, <1>5, <1>6, <1>7, <1>8 DEF SchedulerStep

\* What the others do leaves the scheduler where it is.
LEMMA OthersTyped ==
    ASSUME TypeInv,
           \/ TriggerScan \/ Tick
           \/ \E g \in Gens :
                StartCopy(g) \/ Commit(g) \/ Complete(g) \/ EndTransfer(g) \/ Age(g)
           \/ \E p \in Paths : Import(p)
           \/ \E r \in Rules : EditRule(r)
    PROVE  TypeInv'
<1> USE DEF TypeInv, TypeOK, AtHand
<1>1. CASE TriggerScan
  BY <1>1 DEF TriggerScan, schedVars, objVars
<1>2. CASE Tick
  BY <1>2 DEF Tick, schedVars, objVars
<1>3. ASSUME NEW g \in Gens,
             StartCopy(g) \/ Commit(g) \/ Complete(g) \/ EndTransfer(g) \/ Age(g)
      PROVE  TypeInv'
  <2>1. CASE StartCopy(g)
    BY <2>1 DEF StartCopy, schedVars, States, Transfers
  <2>2. CASE Commit(g)
    <3>1. dest' \in [Paths -> Contents] /\ fresh' \subseteq Paths
      BY <2>2, RetentionAssumption DEF Commit, Put, Contents
    <3>2. transfer' \in [Gens -> Transfers]
      BY <2>2 DEF Commit, Transfers
    <3> QED BY <2>2, <3>1, <3>2 DEF Commit
  <2>3. CASE Complete(g)
    BY <2>3 DEF Complete, schedVars, States, Transfers
  <2>4. CASE EndTransfer(g)
    <3>1. state' \in [Gens -> States] /\ transfer' \in [Gens -> Transfers]
      BY <2>4 DEF EndTransfer, States, Transfers
    <3> QED BY <2>4, <3>1 DEF EndTransfer, schedVars
  <2>5. CASE Age(g)
    BY <2>5 DEF Age, schedVars
  <2> QED BY <1>3, <2>1, <2>2, <2>3, <2>4, <2>5
<1>4. ASSUME NEW p \in Paths, Import(p)
      PROVE  TypeInv'
  <2>1. dest' \in [Paths -> Contents] /\ fresh' \subseteq Paths
    BY <1>4 DEF Import, Put, Contents
  <2> QED BY <1>4, <2>1 DEF Import
<1>5. ASSUME NEW r \in Rules, EditRule(r)
      PROVE  TypeInv'
  BY <1>5 DEF EditRule, schedVars, objVars
<1> QED BY <1>1, <1>2, <1>3, <1>4, <1>5

LEMMA NextTyped == TypeInv /\ [Next]_vars => TypeInv'
<1> SUFFICES ASSUME TypeInv, [Next]_vars PROVE TypeInv'
  OBVIOUS
<1>1. CASE SchedulerStep
  BY <1>1, SchedulerTyped
<1>2. CASE Restart
  <2>1. faults' \in 0 .. MaxFaults
    BY <1>2, FaultsCounted DEF Restart, TypeInv
  <2>2. NoPlan \in [Rules -> Modes] /\ NoTransfer \in [Gens -> Transfers]
    BY DEF NoPlan, Modes, NoTransfer, Transfers
  <2> QED BY <1>2, <2>1, <2>2
          DEF Restart, TypeInv, TypeOK, AtHand, Cleaning, Steps, objVars
<1>3. CASE UNCHANGED vars
  BY <1>3 DEF vars, schedVars, objVars, TypeInv, TypeOK, AtHand, Cleaning
<1> QED BY <1>1, <1>2, <1>3, OthersTyped DEF Next

\* Whatever the rules, generations and failures, every variable keeps its type, and the
\* scheduler a rule and an item wherever it uses one.
THEOREM RetentionTypes == Spec => []TypeOK
<1>1. Spec => []TypeInv
  BY InitTypes, NextTyped, PTL DEF Spec
<1> QED BY <1>1, PTL DEF TypeInv

-----------------------------------------------------------------------------
\* A request for a scan is in the channel until a scan begins after it.
THEOREM NoRequestIsLost == Spec => []RequestsWait
<1>1. Init => RequestsWait
  BY DEF Init, RequestsWait
<1>2. RequestsWait /\ [Next]_vars => RequestsWait'
  <2> SUFFICES ASSUME RequestsWait, [Next]_vars PROVE RequestsWait'
    OBVIOUS
  <2>1. CASE SchedulerStep
    BY <2>1 DEF SchedulerStep, WakeUp, BeginScan, NextRule, ScanRule, ListCandidates,
                StatItem, DeleteItem, MarkItem, RequestsWait
  <2>2. CASE TriggerScan \/ Tick \/ Restart
    BY <2>2 DEF TriggerScan, Tick, Restart, schedVars, RequestsWait
  <2>3. ASSUME NEW g \in Gens,
               StartCopy(g) \/ Commit(g) \/ Complete(g) \/ EndTransfer(g) \/ Age(g)
        PROVE  RequestsWait'
    <3>1. UNCHANGED <<owed, wake, sched>>
      BY <2>3 DEF StartCopy, Commit, Complete, EndTransfer, Age, schedVars
    <3> QED BY <3>1 DEF RequestsWait
  <2>4. CASE (\E p \in Paths : Import(p)) \/ (\E r \in Rules : EditRule(r))
    BY <2>4 DEF Import, EditRule, schedVars, RequestsWait
  <2>5. CASE UNCHANGED vars
    BY <2>5 DEF vars, schedVars, RequestsWait
  <2> QED BY <2>1, <2>2, <2>3, <2>4, <2>5 DEF Next
<1> QED BY <1>1, <1>2, PTL DEF Spec

-----------------------------------------------------------------------------
(* What a cleanup relies on between the read of its candidates and the     *)
(* deletion, for every path nothing was put at meanwhile: the retention of *)
(* the candidate has run out and no new copy of it has been committed, and *)
(* the size that was compared is still that of the file.  That no copy was *)
(* about to be reported when the candidates were read, DoneIsSettled says. *)

Overdue(g) == PathOf[g] \in fresh \/ (g \in aged /\ transfer[g] # "committed")

DoneIsSettled == \A g \in Gens : state[g] = "done" => transfer[g] \in {"none", "completed"}

CandidatesInv ==
    /\ DoneIsSettled
    /\ sched \in Cleaning => plan[rule] = "cleanup"
    /\ \A g \in cands : RuleOf[g] = rule /\ Overdue(g)
    /\ sched \in {"delete", "mark"} => RuleOf[item] = rule /\ Overdue(item)
    /\ sched = "delete" => PathOf[item] \in fresh \/ Unchanged(item)

LEMMA SchedulerCandidates ==
    ASSUME TypeInv, CandidatesInv, SchedulerStep
    PROVE  CandidatesInv'
<1> USE DEF CandidatesInv, DoneIsSettled, Overdue, Unchanged, Cleaning
<1>1. CASE WakeUp \/ BeginScan \/ NextRule \/ ScanRule
  <2>1. cands' = {} /\ sched' \notin Cleaning /\ UNCHANGED <<state, transfer>>
    BY <1>1 DEF WakeUp, BeginScan, NextRule, ScanRule, objVars, TypeInv, AtHand
  <2> QED BY <2>1
<1>2. CASE ListCandidates
  BY <1>2 DEF ListCandidates, Candidates, objVars, TypeInv, AtHand
<1>3. CASE StatItem
  <2>1. UNCHANGED <<plan, rule, state, aged, transfer, dest>> /\ cands' \subseteq cands
    BY <1>3 DEF StatItem, objVars
  <2>2. CASE cands = {} /\ sched' = "next" /\ cands' = cands
    BY <2>1, <2>2
  <2>3. ASSUME NEW g \in cands, UNCHANGED fresh,
               \/ Unchanged(g) /\ sched' = "delete" /\ item' = g
               \/ UNCHANGED <<sched, item>>
        PROVE  CandidatesInv'
    BY <1>3, <2>1, <2>3 DEF StatItem
  <2> QED BY <1>3, <2>2, <2>3 DEF StatItem
<1>4. CASE DeleteItem
  BY <1>4 DEF DeleteItem
<1>5. CASE MarkItem
  <2>1. /\ UNCHANGED <<plan, rule, cands, fresh, aged, transfer, dest>>
        /\ sched = "mark" /\ sched' = "stat"
    BY <1>5 DEF MarkItem
  <2>2. \A g \in Gens : state'[g] = state[g] \/ state'[g] = "cleaned"
    BY <1>5 DEF MarkItem, TypeInv, TypeOK
  <2> QED BY <2>1, <2>2 DEF TypeInv, TypeOK
<1> QED BY <1>1, <1>2, <1>3, <1>4, <1>5 DEF SchedulerStep

\* Whatever puts a file at a path during a cleanup makes the path a fresh one.
LEMMA OthersCandidates ==
    ASSUME TypeInv, CandidatesInv,
           \/ TriggerScan \/ Tick
           \/ \E g \in Gens :
                StartCopy(g) \/ Commit(g) \/ Complete(g) \/ EndTransfer(g) \/ Age(g)
           \/ \E p \in Paths : Import(p)
           \/ \E r \in Rules : EditRule(r)
    PROVE  CandidatesInv'
<1> USE DEF CandidatesInv, DoneIsSettled, Overdue, Unchanged, Cleaning
<1>0. cands \subseteq Gens /\ (sched \in {"delete", "mark"} => item \in Gens)
  BY DEF TypeInv, TypeOK, AtHand
<1>1. CASE TriggerScan \/ Tick \/ \E r \in Rules : EditRule(r)
  BY <1>1 DEF TriggerScan, Tick, EditRule, schedVars, objVars
<1>2. ASSUME NEW p \in Paths, NEW c, Put(p, c),
             UNCHANGED <<sched, plan, rule, cands, item, aged, state>>,
             \A g \in Gens : \/ transfer'[g] = transfer[g]
                             \/ PathOf[g] = p /\ state[g] # "done"
      PROVE  CandidatesInv'
  <2>1. CASE sched \notin Cleaning
    BY <1>2, <2>1 DEF TypeInv, AtHand
  <2>2. CASE sched \in Cleaning
    <3>1. fresh' = fresh \cup {p}
      BY <1>2, <2>2 DEF Put
    <3>2. \A g \in Gens : PathOf[g] # p => dest'[PathOf[g]] = dest[PathOf[g]]
      BY <1>2, RetentionAssumption DEF Put, TypeInv, TypeOK
    <3>3. \A g \in Gens : Overdue(g) => Overdue(g)'
      BY <1>2, <3>1
    <3> QED BY <1>0, <1>2, <3>1, <3>2, <3>3
  <2> QED BY <2>1, <2>2
<1>3. ASSUME NEW g \in Gens, StartCopy(g) \/ Complete(g) \/ EndTransfer(g) \/ Age(g)
      PROVE  CandidatesInv'
  <2>1. UNCHANGED <<sched, plan, rule, cands, item, fresh, dest>>
    BY <1>3 DEF StartCopy, Complete, EndTransfer, Age, schedVars
  <2>2. \A h \in Gens : Overdue(h) => Overdue(h)'
    BY <1>3 DEF StartCopy, Complete, EndTransfer, Age, schedVars, TypeInv, TypeOK
  <2>3. DoneIsSettled'
    BY <1>3 DEF StartCopy, Complete, EndTransfer, Age, TypeInv, TypeOK
  <2> QED BY <1>0, <2>1, <2>2, <2>3
<1>4. ASSUME NEW g \in Gens, Commit(g)
      PROVE  CandidatesInv'
  <2>1. PathOf[g] \in Paths
    BY RetentionAssumption
  <2>2. Put(PathOf[g], g) /\ UNCHANGED <<sched, plan, rule, cands, item, aged, state>>
    BY <1>4 DEF Commit
  <2>3. \A h \in Gens : \/ transfer'[h] = transfer[h]
                        \/ PathOf[h] = PathOf[g] /\ state[h] # "done"
    <3>1. state[g] # "done"
      BY <1>4 DEF Commit
    <3>2. \A h \in Gens \ {g} : transfer'[h] = transfer[h]
      BY <1>4 DEF Commit, TypeInv, TypeOK
    <3> QED BY <3>1, <3>2
  <2> QED BY <1>2, <2>1, <2>2, <2>3
<1>5. ASSUME NEW p \in Paths, Import(p)
      PROVE  CandidatesInv'
  <2>1. PICK c : Put(p, c)
    BY <1>5 DEF Import
  <2>2. UNCHANGED <<sched, plan, rule, cands, item, aged, state, transfer>>
    BY <1>5 DEF Import
  <2> QED BY <1>2, <2>1, <2>2
<1> QED BY <1>1, <1>3, <1>4, <1>5

LEMMA NextCandidates == TypeInv /\ CandidatesInv /\ [Next]_vars => CandidatesInv'
<1> SUFFICES ASSUME TypeInv, CandidatesInv, [Next]_vars PROVE CandidatesInv'
  OBVIOUS
<1>1. CASE SchedulerStep
  BY <1>1, SchedulerCandidates
<1>2. CASE Restart
  BY <1>2 DEF Restart, NoTransfer, CandidatesInv, DoneIsSettled, Cleaning
<1>3. CASE UNCHANGED vars
  BY <1>3 DEF vars, schedVars, objVars, CandidatesInv, DoneIsSettled, Overdue, Unchanged, Cleaning
<1> QED BY <1>1, <1>2, <1>3, OthersCandidates DEF Next

JustifiedRemoval ==
    sched = "delete" /\ sched' = "mark" /\ PathOf[item] \notin fresh =>
        \E g \in aged : /\ PathOf[g] = PathOf[item] /\ plan[RuleOf[g]] = "cleanup"
                       /\ SizeOf[g] = SizeOf[dest[PathOf[g]]]

LEMMA CandidatesJustify == TypeInv /\ CandidatesInv => JustifiedRemoval
<1> SUFFICES ASSUME TypeInv, CandidatesInv, sched = "delete", PathOf[item] \notin fresh
             PROVE  \E g \in aged : /\ PathOf[g] = PathOf[item] /\ plan[RuleOf[g]] = "cleanup"
                                   /\ SizeOf[g] = SizeOf[dest[PathOf[g]]]
  BY DEF JustifiedRemoval
<1>1. item \in aged /\ plan[RuleOf[item]] = "cleanup"
  BY DEF CandidatesInv, Overdue, Cleaning
<1>2. SizeOf[item] = SizeOf[dest[PathOf[item]]]
  BY DEF CandidatesInv, Unchanged
<1> QED BY <1>1, <1>2

\* Whoever changes rules, commits and replaces files while a cleanup runs, the file it
\* removes, unless it was put there since the candidates were read, has the size of a
\* generation whose retention has run out under a rule that asks for cleanup.
THEOREM RemovalsAreJustified == Spec => CleanupIsJustified
<1>1. Init => CandidatesInv
  BY DEF Init, CandidatesInv, DoneIsSettled, Cleaning
<1>2. TypeInv /\ CandidatesInv /\ [Next]_vars => [JustifiedRemoval]_vars
  BY CandidatesJustify
<1>3. CleanupIsJustified <=> [][JustifiedRemoval]_vars
  BY DEF CleanupIsJustified, JustifiedRemoval
<1> QED BY <1>1, <1>2, <1>3, InitTypes, NextTyped, NextCandidates, PTL DEF Spec
=============================================================================
