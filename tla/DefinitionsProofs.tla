--------------------------- MODULE DefinitionsProofs --------------------------
(***************************************************************************)
(* Theorems about Definitions, for any number of rules, remotes, handlers, *)
(* requests and failures.                                                  *)
(*                                                                         *)
(* DefinitionsInv says what holds between two statements of a handler.  It *)
(* speaks of one rule at a time: RowInv of a rule that no call is          *)
(* changing, AloneInv of a rule that exactly one call is changing; of one  *)
(* that two calls change at once nothing is left, and whichever of them    *)
(* returns says so by putting it into `disturbed`.                         *)
(***************************************************************************)
EXTENDS ConfigProofs

Requests == [id: Ids \cup {NoRule}, rule: OptRules, policy: OptPolicies,
             asked: Secrets \cup {Blank, NoTorrent}, remote: Remotes \cup {NoRemote},
             confirmed: BOOLEAN, met: SUBSET (Ids \cup {NoRule})]

\* A handler that has changed a row, or is about to change the memory.
Mid == {"savePolicy", "install", "installPolicy", "forget", "resetPolicy", "restore"}

\* What each call has checked before its next step.
CallTypes(c) ==
    /\ pc[c] = "deleteRemote" => req[c].id = NoRule /\ req[c].remote \in Remotes
    /\ pc[c] \notin {"idle", "deleteRemote"} => req[c].id \in Ids
    /\ pc[c] \in {"saveDef", "savePolicy", "install"} => req[c].rule \in Rules
    /\ pc[c] \in {"saveDef", "savePolicy", "install", "patchPolicy", "installPolicy"}
          => req[c].policy \in Policies
    /\ pc[c] \in {"deleteDef", "forget"} => req[c].id \notin FileIds
    /\ pc[c] \in {"resetDef", "resetPolicy", "restore"} => req[c].id \in FileIds

TypeInv == /\ TypeOK /\ ConfigInv /\ \A c \in Clients : CallTypes(c)
           /\ boot # "ready" => Busy = {}

\* Two calls that are under way at the same time know of each other.
Overlap == \A c, d \in Busy : c # d => req[d].id \in req[c].met

RuleInStep(i) == rules[i] = LoadedRule(jobdef, i) /\ (i \in overrides <=> jobdef[i] # NoRule)
InStep(i) == RuleInStep(i) /\ policies[i] = LoadedPolicy(jobdef, policyRow, i)

Touched(i) == \E c \in Busy : req[c].id = i /\ pc[c] \in Mid

RowInv(i) == boot = "ready" /\ i \notin disturbed /\ ~Touched(i) => InStep(i)

\* What is left of a call's own writes, as long as no other call meets it.
AloneInv(c, i) ==
    /\ pc[c] \in {"savePolicy", "install"} => jobdef[i] = req[c].rule
    /\ pc[c] = "install" => policyRow[i] = req[c].policy
    /\ pc[c] \in {"forget", "resetPolicy", "restore"} => jobdef[i] = NoRule
    /\ pc[c] = "restore" => policyRow[i] = NoPolicy
    /\ pc[c] \in {"patchPolicy", "installPolicy"} /\ i \notin disturbed
          => rules[i] # NoRule /\ RuleInStep(i)
    /\ pc[c] = "installPolicy" => policyRow[i] = req[c].policy
    /\ pc[c] \in {"saveDef", "savePolicy", "install"} /\ req[c].asked = Blank
          /\ rules[i] # NoRule /\ rules[i].secret \in Secrets
          => req[c].rule.secret = rules[i].secret

\* A remote whose deletion was not confirmed is in no definition that was left alone.
RemoteInv(c) ==
    pc[c] = "deleteRemote" /\ ~req[c].confirmed =>
        \A i \in Ids \ (disturbed \cup req[c].met) :
            LoadedRule(jobdef, i) = NoRule \/ LoadedRule(jobdef, i).remote # req[c].remote

CallInv(c) == /\ req[c].id \notin req[c].met => AloneInv(c, req[c].id)
              /\ RemoteInv(c)

DefinitionsInv == /\ TypeInv /\ Overlap
                  /\ \A i \in Ids : RowInv(i)
                  /\ \A c \in Busy : CallInv(c)

-----------------------------------------------------------------------------
(* One step of one handler leaves the rules of the others alone.           *)

SameAt(i) ==
    /\ jobdef'[i] = jobdef[i] /\ policyRow'[i] = policyRow[i]
    /\ rules'[i] = rules[i] /\ policies'[i] = policies[i]
    /\ (i \in overrides' <=> i \in overrides) /\ (i \in disturbed' <=> i \in disturbed)

Elsewhere(c) ==
    /\ boot = "ready" /\ boot' = "ready"
    /\ \A d \in Clients \ {c} : pc'[d] = pc[d] /\ req'[d] = req[d]
    /\ pc'[c] = "idle" \/ req'[c] = req[c]
    /\ \A i \in Ids \ {req[c].id} : SameAt(i)

LEMMA OthersKeep ==
    ASSUME DefinitionsInv, NEW c \in Busy, Elsewhere(c)
    PROVE  /\ Overlap'
           /\ \A d \in Busy \ {c} : CallTypes(d)' /\ CallInv(d)'
           /\ \A i \in Ids \ {req[c].id} : RowInv(i)'
<1> USE DEF DefinitionsInv
<1>1. Overlap'
  BY DEF Overlap, Busy, Elsewhere
<1>2. ASSUME NEW d \in Busy \ {c}
      PROVE  CallTypes(d)' /\ CallInv(d)'
  <2>1. d \in Clients /\ pc'[d] = pc[d] /\ req'[d] = req[d] /\ req[c].id \in req[d].met
    BY DEF Elsewhere, Busy, Overlap
  <2>2. CallTypes(d)'
    BY <2>1 DEF CallTypes, Busy, TypeInv
  <2>3. ASSUME req[d].id \notin req[d].met
        PROVE  AloneInv(d, req[d].id)'
    <3>1. CASE req[d].id \in Ids
      <4>1. SameAt(req[d].id)
        BY <2>1, <2>3, <3>1 DEF Elsewhere
      <4>2. AloneInv(d, req[d].id)
        BY <2>3 DEF CallInv
      <4> QED BY <2>1, <4>1, <4>2 DEF SameAt, AloneInv, RuleInStep, LoadedRule
    <3>2. CASE req[d].id \notin Ids
      <4>1. pc[d] = "deleteRemote"
        BY <2>1, <3>2 DEF TypeInv, CallTypes, Busy
      <4> QED BY <2>1, <4>1 DEF AloneInv
    <3> QED BY <3>1, <3>2
  <2>4. RemoteInv(d)'
    <3>1. ASSUME NEW i \in Ids \ (disturbed' \cup req[d].met)
          PROVE  SameAt(i) /\ i \notin disturbed /\ i \notin req[d].met
      BY <2>1 DEF Elsewhere, SameAt
    <3>2. RemoteInv(d)
      BY DEF CallInv
    <3> QED BY <2>1, <3>1, <3>2 DEF RemoteInv, SameAt, LoadedRule
  <2> QED BY <2>1, <2>2, <2>3, <2>4 DEF CallInv
<1>3. ASSUME NEW i \in Ids \ {req[c].id}
      PROVE  RowInv(i)'
  <2>1. SameAt(i) /\ boot = "ready"
    BY DEF Elsewhere
  <2>2. Touched(i) => Touched(i)'
    BY DEF Touched, Busy, Elsewhere
  <2> QED BY <2>1, <2>2 DEF RowInv, InStep, RuleInStep, LoadedRule, LoadedPolicy, SameAt
<1> QED BY <1>1, <1>2, <1>3

\* A handler that goes on has changed its rule and says so.
LEMMA GoesOn ==
    ASSUME DefinitionsInv, TypeOK', ConfigInv', NEW c \in Clients, NEW step \in Mid,
           Goto(c, step), Elsewhere(c), c \in Busy, CallTypes(c)',
           NEW i \in Ids, i = req[c].id, i \notin req[c].met => AloneInv(c, i)'
    PROVE  DefinitionsInv'
<1>1. pc'[c] = step /\ req' = req /\ Busy' = Busy
  BY DEF Goto, Busy, DefinitionsInv, TypeInv, TypeOK, Mid
<1>2. TypeInv'
  BY <1>1, OthersKeep DEF TypeInv, CallTypes, Busy, Elsewhere
<1>3. RowInv(i)'
  BY <1>1 DEF RowInv, Touched
<1>4. CallInv(c)'
  BY <1>1 DEF CallInv, RemoteInv, Mid
<1> QED BY <1>1, <1>2, <1>3, <1>4, OthersKeep DEF DefinitionsInv

\* A handler that ends leaves its rule in step, or disturbed.
LEMMA Ends ==
    ASSUME DefinitionsInv, TypeOK', ConfigInv', NEW c \in Busy,
           pc' = [pc EXCEPT ![c] = "idle"], Elsewhere(c),
           \A i \in Ids : i = req[c].id => RowInv(i)'
    PROVE  DefinitionsInv'
<1>1. c \in Clients /\ pc'[c] = "idle" /\ Busy' = Busy \ {c}
  BY DEF Busy, DefinitionsInv, TypeInv, TypeOK
<1>2. TypeInv'
  BY <1>1, OthersKeep DEF TypeInv, CallTypes, Busy, Elsewhere
<1> QED BY <1>1, <1>2, OthersKeep DEF DefinitionsInv

\* What Return does to the other rules, and to its own.
LEMMA Returns ==
    ASSUME DefinitionsInv, NEW c \in Busy, NEW repairs \in BOOLEAN, Return(c, repairs)
    PROVE  /\ \A d \in Clients \ {c} : pc'[d] = pc[d] /\ req'[d] = req[d]
           /\ pc'[c] = "idle" /\ c \in Clients
           /\ \A i \in Ids \ {req[c].id} : i \in disturbed' <=> i \in disturbed
           /\ \A i \in Ids : i = req[c].id /\ i \in req[c].met => i \in disturbed'
           /\ ~repairs /\ req[c].id \notin disturbed' => req[c].id \notin disturbed
<1> USE DEF Return
<1>1. c \in Clients /\ pc'[c] = "idle" /\ \A d \in Clients \ {c} : pc'[d] = pc[d] /\ req'[d] = req[d]
  BY DEF Busy, DefinitionsInv, TypeInv, TypeOK
<1> QED BY <1>1

-----------------------------------------------------------------------------
(* Types.                                                                  *)

LEMMA NoRequestType == NoRequest \in Requests
BY DEF NoRequest, Requests, OptRules, OptPolicies

LEMMA BeginTypes ==
    ASSUME TypeOK, NEW c \in Clients, NEW step \in Steps, NEW r \in Requests, Begin(c, step, r)
    PROVE  TypeOK'
<1> USE DEF TypeOK, Begin
<1>1. requests' \in 0 .. MaxRequests
  BY RulesAssumption
<1>2. ASSUME NEW d \in Clients
      PROVE  req'[d] \in Requests
  <2>1. req[d] \in Requests /\ \A b \in Busy : req[b].id \in Ids \cup {NoRule}
    BY DEF Requests, Busy
  <2>2. {req[b].id : b \in Busy} \in SUBSET (Ids \cup {NoRule})
    BY <2>1
  <2>3. [r EXCEPT !.met = {req[b].id : b \in Busy}] \in Requests
    BY <2>2 DEF Requests
  <2>4. [req[d] EXCEPT !.met = @ \cup {r.id}] \in Requests
    BY <2>1 DEF Requests
  <2> QED BY <2>1, <2>3, <2>4
<1>3. req' \in [Clients -> Requests]
  BY <1>2
<1>4. pc' \in [Clients -> Steps]
  OBVIOUS
<1>5. ConfTypeOK' /\ UNCHANGED <<rowVars, memVars, disturbed, faults>>
  BY DEF ConfTypeOK, confVars
<1> QED BY <1>1, <1>3, <1>4, <1>5 DEF rowVars, memVars, Requests

LEMMA ReturnTypes ==
    ASSUME TypeOK, NEW c \in Clients, NEW repairs \in BOOLEAN, Return(c, repairs),
           ConfTypeOK', jobdef' \in [Ids -> OptRules], policyRow' \in [Ids -> OptPolicies],
           rules' \in [Ids -> OptRules], policies' \in [Ids -> OptPolicies], overrides' \subseteq Ids
    PROVE  TypeOK'
<1>1. req' \in [Clients -> Requests]
  BY NoRequestType DEF Return, TypeOK, Requests
<1>2. pc' \in [Clients -> Steps]
  BY DEF Return, TypeOK, Steps
<1>3. disturbed' \subseteq Ids /\ UNCHANGED <<requests, faults>>
  BY DEF Return, TypeOK
<1> QED BY <1>1, <1>2, <1>3 DEF TypeOK, Requests

LEMMA GotoTypes ==
    ASSUME TypeOK, NEW c \in Clients, NEW step \in Steps, Goto(c, step), UNCHANGED <<confVars, memVars>>,
           jobdef' \in [Ids -> OptRules], policyRow' \in [Ids -> OptPolicies]
    PROVE  TypeOK'
BY DEF TypeOK, Goto, memVars, confVars, ConfTypeOK

-----------------------------------------------------------------------------
(* The statements: each changes one row of the rule, and the call goes on. *)

\* A call at its next step: nothing is changed but one row of its own rule.
Statement(c, i, next) ==
    /\ c \in Busy /\ i = req[c].id /\ At(c, pc[c]) /\ Goto(c, next)
    /\ UNCHANGED <<confVars, memVars>>
    /\ \E x \in OptRules : jobdef' = [jobdef EXCEPT ![i] = x]
    /\ \E x \in OptPolicies : policyRow' = [policyRow EXCEPT ![i] = x]

LEMMA StatementStep ==
    ASSUME DefinitionsInv, NEW c \in Clients, NEW i \in Ids, NEW next \in Mid,
           Statement(c, i, next), CallTypes(c)',
           i \notin req[c].met /\ AloneInv(c, i) => AloneInv(c, i)'
    PROVE  DefinitionsInv'
<1> USE DEF Statement
<1>1. TypeOK /\ ConfigInv /\ boot = "ready" /\ boot' = boot /\ UNCHANGED <<req, disturbed>>
  BY DEF DefinitionsInv, TypeInv, At, confVars, Goto
<1>2. jobdef' \in [Ids -> OptRules] /\ policyRow' \in [Ids -> OptPolicies]
  BY <1>1 DEF TypeOK
<1>3. TypeOK'
  BY <1>1, <1>2, GotoTypes DEF Mid, Steps
<1>4. ConfigInv'
  BY <1>1 DEF ConfigInv, confVars
<1>5. Elsewhere(c)
  BY <1>1 DEF Elsewhere, Goto, SameAt, TypeOK, memVars
<1>6. i \notin req[c].met => AloneInv(c, i)
  BY DEF DefinitionsInv, CallInv
<1> QED BY <1>1, <1>3, <1>4, <1>5, <1>6, GoesOn

LEMMA StatementKinds ==
    ASSUME DefinitionsInv, NEW c \in Clients,
           \/ SaveDef(c) \/ SavePolicy(c) \/ PatchPolicy(c)
           \/ DeleteDef(c) \/ ResetDef(c) \/ ResetPolicy(c)
    PROVE  DefinitionsInv'
<1>1. PICK i : i = req[c].id
  OBVIOUS
<1>2. c \in Busy /\ i \in Ids /\ TypeOK /\ CallTypes(c) /\ c \in Clients
  BY <1>1 DEF SaveDef, SavePolicy, PatchPolicy, DeleteDef, ResetDef, ResetPolicy, At, Busy,
         DefinitionsInv, TypeInv, CallTypes
<1>3. /\ jobdef = [jobdef EXCEPT ![i] = jobdef[i]] /\ jobdef[i] \in OptRules
      /\ policyRow = [policyRow EXCEPT ![i] = policyRow[i]] /\ policyRow[i] \in OptPolicies
  BY <1>2 DEF TypeOK
<1>5. CASE SaveDef(c)
  <2> USE <1>5 DEF SaveDef
  <2>1. req[c].rule \in Rules /\ CallTypes(c)'
    BY <1>2 DEF CallTypes, Goto, At, TypeOK
  <2>2. Statement(c, i, "savePolicy")
    BY <1>1, <1>2, <1>3, <2>1 DEF Statement, At, OptRules
  <2>3. AloneInv(c, i) => AloneInv(c, i)'
    BY <1>1, <1>2 DEF AloneInv, Goto, At, TypeOK, memVars
  <2> QED BY <1>2, <2>1, <2>2, <2>3, StatementStep DEF Mid
<1>6. CASE SavePolicy(c)
  <2> USE <1>6 DEF SavePolicy
  <2>1. req[c].policy \in Policies /\ CallTypes(c)'
    BY <1>2 DEF CallTypes, Goto, At, TypeOK
  <2>2. Statement(c, i, "install")
    BY <1>1, <1>2, <1>3, <2>1 DEF Statement, At, OptPolicies
  <2>3. AloneInv(c, i) => AloneInv(c, i)'
    BY <1>1, <1>2 DEF AloneInv, Goto, At, TypeOK, memVars
  <2> QED BY <1>2, <2>1, <2>2, <2>3, StatementStep DEF Mid
<1>7. CASE PatchPolicy(c)
  <2> USE <1>7 DEF PatchPolicy
  <2>1. req[c].policy \in Policies /\ CallTypes(c)'
    BY <1>2 DEF CallTypes, Goto, At, TypeOK
  <2>2. Statement(c, i, "installPolicy")
    BY <1>1, <1>2, <1>3, <2>1 DEF Statement, At, OptPolicies
  <2>3. AloneInv(c, i) => AloneInv(c, i)'
    BY <1>1, <1>2 DEF AloneInv, Goto, At, TypeOK, memVars, RuleInStep, LoadedRule
  <2> QED BY <1>2, <2>1, <2>2, <2>3, StatementStep DEF Mid
<1>8. CASE DeleteDef(c)
  <2> USE <1>8 DEF DeleteDef
  <2>1. CallTypes(c)'
    BY <1>2 DEF CallTypes, Goto, At, TypeOK
  <2>2. Statement(c, i, "forget")
    BY <1>1, <1>2, <1>3 DEF Statement, At, OptRules
  <2>3. AloneInv(c, i) => AloneInv(c, i)'
    BY <1>1, <1>2 DEF AloneInv, Goto, At, TypeOK, memVars
  <2> QED BY <1>2, <2>1, <2>2, <2>3, StatementStep DEF Mid
<1>9. CASE ResetDef(c)
  <2> USE <1>9 DEF ResetDef
  <2>1. CallTypes(c)'
    BY <1>2 DEF CallTypes, Goto, At, TypeOK
  <2>2. Statement(c, i, "resetPolicy")
    BY <1>1, <1>2, <1>3 DEF Statement, At, OptRules
  <2>3. AloneInv(c, i) => AloneInv(c, i)'
    BY <1>1, <1>2 DEF AloneInv, Goto, At, TypeOK, memVars
  <2> QED BY <1>2, <2>1, <2>2, <2>3, StatementStep DEF Mid
<1>10. CASE ResetPolicy(c)
  <2> USE <1>10 DEF ResetPolicy
  <2>1. CallTypes(c)'
    BY <1>2 DEF CallTypes, Goto, At, TypeOK
  <2>2. Statement(c, i, "restore")
    BY <1>1, <1>2, <1>3 DEF Statement, At, OptPolicies
  <2>3. AloneInv(c, i) => AloneInv(c, i)'
    BY <1>1, <1>2 DEF AloneInv, Goto, At, TypeOK, memVars
  <2> QED BY <1>2, <2>1, <2>2, <2>3, StatementStep DEF Mid
<1> QED BY <1>5, <1>6, <1>7, <1>8, <1>9, <1>10

-----------------------------------------------------------------------------
(* The returns.                                                            *)

\* The memory of the rule is changed under Engine.mu, and the call is over.
Installed(c, i, repairs) ==
    /\ c \in Busy /\ i = req[c].id /\ boot = "ready"
    /\ Return(c, repairs) /\ UNCHANGED <<confVars, rowVars>>
    /\ \E x \in OptRules : rules' = [rules EXCEPT ![i] = x]
    /\ \E x \in OptPolicies : policies' = [policies EXCEPT ![i] = x]
    /\ overrides' \in {overrides, overrides \cup {i}, overrides \ {i}}

LEMMA InstallStep ==
    ASSUME DefinitionsInv, NEW c \in Clients, NEW i \in Ids, NEW repairs \in BOOLEAN,
           Installed(c, i, repairs),
           i \notin req[c].met /\ AloneInv(c, i) /\ i \notin disturbed' => InStep(i)'
    PROVE  DefinitionsInv'
<1> USE DEF Installed
<1>1. TypeOK /\ ConfigInv /\ boot' = boot
  BY DEF DefinitionsInv, TypeInv, confVars
<1>2. TypeOK'
  BY <1>1, ReturnTypes DEF TypeOK, rowVars, confVars, ConfTypeOK
<1>3. ConfigInv'
  BY <1>1 DEF ConfigInv, confVars
<1>4. Elsewhere(c)
  BY <1>1, Returns DEF Elsewhere, SameAt, TypeOK, rowVars
<1>5. i \notin req[c].met => AloneInv(c, i)
  BY DEF DefinitionsInv, CallInv
<1>6. RowInv(i)'
  BY <1>5, Returns DEF RowInv
<1> QED BY <1>2, <1>3, <1>4, <1>6, Ends DEF Return

LEMMA InstallKinds ==
    ASSUME DefinitionsInv, NEW c \in Clients,
           InstallRule(c) \/ InstallPolicy(c) \/ ForgetRule(c) \/ RestoreRule(c)
    PROVE  DefinitionsInv'
<1>1. PICK i : i = req[c].id
  OBVIOUS
<1>2. c \in Busy /\ boot = "ready" /\ i \in Ids /\ TypeOK /\ CallTypes(c)
  BY <1>1 DEF InstallRule, InstallPolicy, ForgetRule, RestoreRule, At, Busy, DefinitionsInv,
              TypeInv, CallTypes
<1>3. CASE InstallRule(c)
  <2> USE <1>3 DEF InstallRule
  <2>1. req[c].rule \in Rules /\ req[c].policy \in Policies
    BY <1>2 DEF CallTypes, At
  <2>2. Installed(c, i, TRUE)
    BY <1>1, <1>2, <2>1 DEF Installed, OptRules, OptPolicies
  <2>3. AloneInv(c, i) => InStep(i)'
    BY <1>1, <1>2, <2>1, RulesAssumption
       DEF AloneInv, At, InStep, RuleInStep, LoadedRule, LoadedPolicy, rowVars, TypeOK
  <2> QED BY <1>2, <2>2, <2>3, InstallStep
<1>4. CASE InstallPolicy(c)
  <2> USE <1>4 DEF InstallPolicy
  <2>1. req[c].policy \in Policies
    BY <1>2 DEF CallTypes, At
  <2>2. /\ rules = [rules EXCEPT ![i] = rules[i]] /\ rules[i] \in OptRules
    BY <1>2 DEF TypeOK
  <2>3. Installed(c, i, FALSE)
    BY <1>1, <1>2, <2>1, <2>2 DEF Installed, OptPolicies
  <2>4. i \notin disturbed' => i \notin disturbed
    BY <1>1, <1>2, Returns
  <2>5. AloneInv(c, i) /\ i \notin disturbed' => InStep(i)'
    BY <1>1, <1>2, <2>1, <2>4, RulesAssumption
       DEF AloneInv, At, InStep, RuleInStep, LoadedRule, LoadedPolicy, rowVars, TypeOK
  <2> QED BY <1>2, <2>3, <2>5, InstallStep
<1>5. CASE ForgetRule(c)
  <2> USE <1>5 DEF ForgetRule
  <2>1. i \notin FileIds
    BY <1>1, <1>2 DEF CallTypes, At
  <2>2. Installed(c, i, TRUE)
    BY <1>1, <1>2 DEF Installed, OptRules, OptPolicies
  <2>3. AloneInv(c, i) => InStep(i)'
    BY <1>1, <1>2, <2>1
       DEF AloneInv, At, InStep, RuleInStep, LoadedRule, LoadedPolicy, rowVars, TypeOK
  <2> QED BY <1>2, <2>2, <2>3, InstallStep
<1>6. CASE RestoreRule(c)
  <2> USE <1>6 DEF RestoreRule
  <2>1. i \in FileIds /\ FileRule[i] \in Rules /\ FileRule[i].policy \in Policies
    BY <1>1, <1>2, RulesAssumption DEF CallTypes, At, Rules
  <2>2. Installed(c, i, TRUE)
    BY <1>1, <1>2, <2>1 DEF Installed, OptRules, OptPolicies
  <2>3. AloneInv(c, i) => InStep(i)'
    BY <1>1, <1>2, <2>1, RulesAssumption
       DEF AloneInv, At, InStep, RuleInStep, LoadedRule, LoadedPolicy, rowVars, TypeOK
  <2> QED BY <1>2, <2>2, <2>3, InstallStep
<1> QED BY <1>3, <1>4, <1>5, <1>6

LEMMA DeleteRemoteStep ==
    ASSUME DefinitionsInv, NEW c \in Clients, DeleteRemote(c)
    PROVE  DefinitionsInv'
<1> USE DEF DeleteRemote
<1>1. c \in Busy /\ boot = "ready" /\ boot' = boot /\ TypeOK /\ req[c].id = NoRule
  BY DEF At, Busy, DefinitionsInv, TypeInv, CallTypes
<1>2. RemoteCall /\ ConfigInv
  BY DEF RemoteCall, DefinitionsInv, TypeInv
<1>3. ConfigInv' /\ conf \in (SUBSET Remotes) \cup {Absent} /\ conf # Absent
  BY <1>1, <1>2, RemoteConfig DEF ConfigInv
<1>4. ConfTypeOK'
  BY <1>1, <1>3 DEF TypeOK, ConfTypeOK, Files
<1>5. TypeOK'
  BY <1>1, <1>4, ReturnTypes DEF TypeOK, rowVars, memVars
<1>6. Elsewhere(c)
  BY <1>1, Returns DEF Elsewhere, SameAt, rowVars, memVars
<1>7. ASSUME NEW i \in Ids, i = req[c].id
      PROVE  RowInv(i)'
  <2>1. i \notin disturbed' => i \notin disturbed /\ i \notin req[c].met
    BY <1>1, <1>7, Returns
  <2>2. Touched(i) => Touched(i)'
    BY <1>1, Returns DEF Touched, Busy, At, Mid
  <2>3. RowInv(i)
    BY DEF DefinitionsInv
  <2> QED BY <1>1, <2>1, <2>2, <2>3 
          DEF RowInv, InStep, RuleInStep, LoadedRule, LoadedPolicy, rowVars, memVars
<1> QED BY <1>1, <1>3, <1>5, <1>6, <1>7, Ends DEF Return

LEMMA FailStep ==
    ASSUME DefinitionsInv, NEW c \in Clients, CallFails(c)
    PROVE  DefinitionsInv'
<1> USE DEF CallFails
<1>1. c \in Busy /\ boot = "ready" /\ boot' = boot /\ TypeOK /\ ConfigInv /\ CallTypes(c)
  BY DEF Busy, DefinitionsInv, TypeInv, CallTypes, confVars
<1>2. TypeOK'
  <2>1. req' \in [Clients -> Requests]
    BY <1>1, NoRequestType DEF TypeOK, Requests
  <2>2. pc' \in [Clients -> Steps]
    BY <1>1 DEF TypeOK, Steps
  <2>3. disturbed' \subseteq Ids
    BY <1>1 DEF TypeOK, CallTypes
  <2>4. faults' \in 0 .. MaxFaults
    BY <1>1, RulesAssumption DEF TypeOK, OneFault
  <2> QED BY <1>1, <2>1, <2>2, <2>3, <2>4
          DEF TypeOK, Requests, confVars, ConfTypeOK, rowVars, memVars
<1>3. ConfigInv'
  BY <1>1 DEF ConfigInv, confVars
<1>4. Elsewhere(c)
  BY <1>1 DEF Elsewhere, SameAt, rowVars, memVars, TypeOK
<1>5. ASSUME NEW i \in Ids, i = req[c].id
      PROVE  RowInv(i)'
  <2>1. CASE pc[c] \in {"savePolicy", "resetPolicy"}
    BY <1>5, <2>1 DEF RowInv
  <2>2. CASE pc[c] \notin {"savePolicy", "resetPolicy"}
    <3>1. pc[c] \notin Mid /\ disturbed' = disturbed
      BY <2>2 DEF Mid
    <3>2. Touched(i) => Touched(i)'
      BY <1>1, <3>1 DEF Touched, Busy, TypeOK
    <3>3. RowInv(i)
      BY DEF DefinitionsInv
    <3> QED BY <1>1, <3>1, <3>2, <3>3
            DEF RowInv, InStep, RuleInStep, LoadedRule, LoadedPolicy, rowVars, memVars
  <2> QED BY <2>1, <2>2
<1> QED BY <1>1, <1>2, <1>3, <1>4, <1>5, Ends

-----------------------------------------------------------------------------
(* A call begins: those that are under way learn of it, and it of them.    *)

LEMMA BeginStep ==
    ASSUME DefinitionsInv, NEW c \in Clients, NEW step \in Steps \ {"idle"}, step \notin Mid,
           NEW r \in Requests, Begin(c, step, r), CallTypes(c)',
           r.id \notin {req[b].id : b \in Busy} => AloneInv(c, r.id)',
           RemoteInv(c)'
    PROVE  DefinitionsInv'
<1> USE DEF Begin
<1>1. /\ TypeOK /\ ConfigInv /\ boot = "ready" /\ boot' = boot
      /\ UNCHANGED <<jobdef, policyRow, rules, policies, overrides, disturbed>>
  BY DEF DefinitionsInv, TypeInv, confVars, rowVars, memVars
<1>2. /\ pc'[c] = step /\ req'[c] = [r EXCEPT !.met = {req[b].id : b \in Busy}]
      /\ Busy' = Busy \cup {c} /\ c \notin Busy
  BY <1>1 DEF TypeOK, Busy
<1>3. req'[c].id = r.id /\ req'[c].met = {req[b].id : b \in Busy}
  BY <1>2 DEF Requests
<1>4. ASSUME NEW d \in Busy
      PROVE  /\ d # c /\ d \in Clients /\ pc'[d] = pc[d]
             /\ req'[d] = [req[d] EXCEPT !.met = req[d].met \cup {r.id}]
  BY <1>1, <1>2 DEF Busy, TypeOK
<1>5. ASSUME NEW d \in Busy
      PROVE  /\ req'[d].id = req[d].id /\ req'[d].rule = req[d].rule
             /\ req'[d].policy = req[d].policy /\ req'[d].asked = req[d].asked
             /\ req'[d].remote = req[d].remote /\ req'[d].confirmed = req[d].confirmed
             /\ req'[d].met = req[d].met \cup {r.id}
  <2>1. req[d] \in Requests
    BY <1>1, <1>4 DEF TypeOK, Requests
  <2> QED BY <1>4, <2>1 DEF Requests
<1>6. Overlap'
  BY <1>2, <1>3, <1>4, <1>5 DEF Overlap, DefinitionsInv
<1>7. ASSUME NEW d \in Busy
      PROVE  CallTypes(d)' /\ CallInv(d)'
  <2>1. CallTypes(d)'
    BY <1>4, <1>5 DEF CallTypes, DefinitionsInv, TypeInv
  <2>2. CallInv(d)
    BY DEF DefinitionsInv
  <2>3. RemoteInv(d)'
    <3>1. disturbed \cup req[d].met \subseteq (disturbed \cup req[d].met)'
      BY <1>1, <1>5
    <3>2. pc'[d] = pc[d] /\ req'[d].confirmed = req[d].confirmed /\ req'[d].remote = req[d].remote
      BY <1>4, <1>5
    <3> QED BY <1>1, <3>1, <3>2, <2>2 DEF CallInv, RemoteInv, LoadedRule
  <2>4. ASSUME NEW i, i = req[d].id, i \notin req'[d].met
        PROVE  AloneInv(d, i)'
    BY <1>1, <1>4, <1>5, <2>2, <2>4 DEF CallInv, AloneInv, RuleInStep
  <2> QED BY <1>5, <2>1, <2>3, <2>4 DEF CallInv
<1>8. ASSUME NEW i \in Ids
      PROVE  RowInv(i)'
  <2>1. Touched(i) => Touched(i)'
    BY <1>2, <1>4, <1>5 DEF Touched
  <2>2. RowInv(i)
    BY DEF DefinitionsInv
  <2> QED BY <1>1, <2>1, <2>2 DEF RowInv, InStep, RuleInStep
<1>9. ASSUME NEW d \in Clients \ (Busy \cup {c})
      PROVE  CallTypes(d)'
  BY <1>1, <1>9 DEF CallTypes, Busy, TypeOK
<1>10. CallInv(c)'
  BY <1>3 DEF CallInv
<1>11. TypeOK'
  BY <1>1, BeginTypes
<1>12. TypeInv'
  BY <1>1, <1>7, <1>9, <1>11 DEF TypeInv, ConfigInv, confVars
<1> QED BY <1>2, <1>6, <1>7, <1>8, <1>10, <1>12 DEF DefinitionsInv

\* A rule that no call is changing is in memory as it is stored.
LEMMA NotMet ==
    ASSUME DefinitionsInv, boot = "ready", NEW i \in Ids, i \notin disturbed,
           i \notin {req[b].id : b \in Busy}
    PROVE  InStep(i)
BY DEF DefinitionsInv, RowInv, Touched

LEMMA NormalRule ==
    ASSUME NEW sent \in Typed, Valid(sent.policy)
    PROVE  /\ NormalizeRule(sent).policy \in Policies /\ NormalizeRule(sent).secret = sent.secret
           /\ NormalizeRule(sent) \in Rules
           /\ sent.secret \in Secrets \cup {Blank, NoTorrent}
<1>1. sent \in [remote: Remotes \cup {NoRemote}, policy: SentPolicies,
                secret: Secrets \cup {Blank, NoTorrent}]
  BY RulesAssumption
<1>2. /\ Given(sent.policy.count, DefaultCount) \in Counts
      /\ Given(sent.policy.wait, DefaultWait) \in Waits
  BY <1>1, RulesAssumption DEF Given, Valid, SentPolicies
<1>3. NormalizeRule(sent) = [sent EXCEPT !.policy =
         [count |-> Given(sent.policy.count, DefaultCount), wait |-> Given(sent.policy.wait, DefaultWait)]]
  BY DEF NormalizeRule
<1> QED BY <1>1, <1>2, <1>3 DEF Policies, Rules

LEMMA SaveBegins ==
    ASSUME DefinitionsInv, NEW c \in Clients, AskSave(c)
    PROVE  DefinitionsInv'
<1>1. PICK i \in Ids, sent \in Typed :
         /\ Valid(sent.policy)
         /\ LET d == NormalizeRule(sent)
            IN  Begin(c, "saveDef", [NoRequest EXCEPT !.id = i, !.policy = d.policy,
                   !.asked = d.secret, !.rule = [d EXCEPT !.secret = KeptSecret(i, d)]])
  BY DEF AskSave
<1>2. PICK d : d = NormalizeRule(sent)
  OBVIOUS
<1>3. d \in Rules /\ d.policy \in Policies /\ d.secret \in Secrets \cup {Blank, NoTorrent}
  BY <1>1, <1>2, NormalRule
<1>4. KeptSecret(i, d) \in Secrets \cup {Blank, NoTorrent}
  BY <1>3 DEF KeptSecret
<1>5. PICK kept : kept = [d EXCEPT !.secret = KeptSecret(i, d)]
  OBVIOUS
<1>6. kept \in Rules /\ kept.secret = KeptSecret(i, d)
  BY <1>3, <1>4, <1>5 DEF Rules
<1>7. PICK r : r = [NoRequest EXCEPT !.id = i, !.policy = d.policy, !.asked = d.secret, !.rule = kept]
  OBVIOUS
<1>8. /\ r \in Requests /\ r.id = i /\ r.policy = d.policy /\ r.asked = d.secret /\ r.rule = kept
  BY <1>3, <1>6, <1>7, NoRequestType DEF Requests, NoRequest, OptRules, OptPolicies
<1>9. Begin(c, "saveDef", r)
  BY <1>1, <1>2, <1>5, <1>7
<1>10. /\ pc'[c] = "saveDef" /\ rules' = rules /\ req'[c].id = i /\ req'[c].policy = d.policy
       /\ req'[c].asked = d.secret /\ req'[c].rule = kept
  BY <1>8, <1>9 DEF Begin, memVars, DefinitionsInv, TypeInv, TypeOK, Requests
<1>11. CallTypes(c)'
  BY <1>3, <1>6, <1>10 DEF CallTypes
<1>12. AloneInv(c, i)'
  BY <1>6, <1>10 DEF AloneInv, KeptSecret
<1>13. RemoteInv(c)'
  BY <1>10 DEF RemoteInv
<1>14. AloneInv(c, r.id)'
  BY <1>8, <1>12
<1> QED BY <1>8, <1>9, <1>11, <1>13, <1>14, BeginStep DEF Steps, Mid

LEMMA PatchBegins ==
    ASSUME DefinitionsInv, NEW c \in Clients, AskPatch(c)
    PROVE  DefinitionsInv'
<1>1. PICK i \in Ids, p \in SentPolicies :
         /\ rules[i] # NoRule /\ policies[i] # NoPolicy /\ Valid(p)
         /\ Begin(c, "patchPolicy", [NoRequest EXCEPT !.id = i, !.policy = Merged(i, p)])
  BY DEF AskPatch
<1>2. Merged(i, p) \in Policies
  <2>1. policies[i] \in Policies
    BY <1>1 DEF DefinitionsInv, TypeInv, TypeOK, OptPolicies
  <2> QED BY <1>1, <2>1 DEF Merged, Given, Policies, SentPolicies, Valid
<1>3. PICK r : r = [NoRequest EXCEPT !.id = i, !.policy = Merged(i, p)]
  OBVIOUS
<1>4. r \in Requests /\ r.id = i /\ r.policy \in Policies
  BY <1>2, <1>3, NoRequestType DEF Requests, NoRequest, OptPolicies
<1>5. /\ pc'[c] = "patchPolicy" /\ req'[c].id = i /\ req'[c].policy \in Policies /\ boot = "ready"
      /\ UNCHANGED <<rules, jobdef, overrides, disturbed>>
  BY <1>1, <1>3, <1>4 DEF Begin, rowVars, memVars, DefinitionsInv, TypeInv, TypeOK, Requests
<1>6. CallTypes(c)' /\ RemoteInv(c)'
  BY <1>5 DEF CallTypes, RemoteInv
<1>7. r.id \notin {req[b].id : b \in Busy} => AloneInv(c, r.id)'
  <2>1. i \notin {req[b].id : b \in Busy} /\ i \notin disturbed => RuleInStep(i)
    BY <1>5, NotMet DEF InStep
  <2>2. i \notin {req[b].id : b \in Busy} => AloneInv(c, i)'
    BY <1>1, <1>5, <2>1 DEF AloneInv, RuleInStep
  <2> QED BY <1>4, <2>2
<1> QED BY <1>1, <1>3, <1>4, <1>6, <1>7, BeginStep DEF Steps, Mid

LEMMA DeleteBegins ==
    ASSUME DefinitionsInv, NEW c \in Clients, AskDelete(c) \/ AskReset(c)
    PROVE  DefinitionsInv'
<1>1. PICK i \in Ids, step \in {"deleteDef", "resetDef"} :
         /\ i \in FileIds <=> step = "resetDef"
         /\ Begin(c, step, [NoRequest EXCEPT !.id = i])
  BY RulesAssumption DEF AskDelete, AskReset
<1>2. PICK r : r = [NoRequest EXCEPT !.id = i]
  OBVIOUS
<1>3. r \in Requests /\ r.id = i
  BY <1>2, NoRequestType DEF Requests, NoRequest
<1>4. pc'[c] = step /\ req'[c].id = i
  BY <1>1, <1>2, <1>3 DEF Begin, DefinitionsInv, TypeInv, TypeOK, Requests
<1>5. CallTypes(c)' /\ RemoteInv(c)' /\ AloneInv(c, i)'
  BY <1>1, <1>4 DEF CallTypes, RemoteInv, AloneInv
<1> QED BY <1>1, <1>2, <1>3, <1>5, BeginStep DEF Steps, Mid

LEMMA DeleteRemoteBegins ==
    ASSUME DefinitionsInv, NEW c \in Clients, AskDeleteRemote(c)
    PROVE  DefinitionsInv'
<1>1. PICK n \in conf, confirmed \in BOOLEAN :
         /\ RemoteUsage(n) = {} \/ confirmed
         /\ Begin(c, "deleteRemote", [NoRequest EXCEPT !.remote = n, !.confirmed = confirmed])
  BY DEF AskDeleteRemote
<1>2. boot = "ready" /\ n \in Remotes
  BY <1>1 DEF Begin, DefinitionsInv, TypeInv, ConfigInv
<1>3. PICK r : r = [NoRequest EXCEPT !.remote = n, !.confirmed = confirmed]
  OBVIOUS
<1>4. r \in Requests /\ r.id = NoRule /\ r.remote = n /\ r.confirmed = confirmed
  BY <1>2, <1>3, NoRequestType DEF Requests, NoRequest
<1>5. /\ pc'[c] = "deleteRemote" /\ req'[c].id = NoRule /\ req'[c].remote = n
      /\ req'[c].confirmed = confirmed /\ req'[c].met = {req[b].id : b \in Busy}
      /\ UNCHANGED <<jobdef, rules, disturbed>>
  BY <1>1, <1>3, <1>4 DEF Begin, rowVars, memVars, DefinitionsInv, TypeInv, TypeOK, Requests
<1>6. CallTypes(c)' /\ AloneInv(c, NoRule)'
  BY <1>2, <1>5 DEF CallTypes, AloneInv
<1>7. RemoteInv(c)'
  <2> SUFFICES ASSUME ~confirmed, NEW i \in Ids, i \notin disturbed, i \notin {req[b].id : b \in Busy}
               PROVE  LoadedRule(jobdef, i) = NoRule \/ LoadedRule(jobdef, i).remote # n
    BY <1>5 DEF RemoteInv
  <2>1. rules[i] = LoadedRule(jobdef, i)
    BY <1>2, NotMet DEF InStep, RuleInStep
  <2>2. i \notin RemoteUsage(n)
    BY <1>1
  <2> QED BY <2>1, <2>2 DEF RemoteUsage
<1> QED BY <1>1, <1>3, <1>4, <1>6, <1>7, BeginStep DEF Steps, Mid

-----------------------------------------------------------------------------
(* Start-up and the end of the process.                                    *)

\* Without a handler under way there is only the memory to speak of.
LEMMA NobodyBusy ==
    ASSUME TypeOK', ConfigInv', Busy' = {}, \A i \in Ids : RowInv(i)'
    PROVE  DefinitionsInv'
<1>1. \A c \in Clients : pc'[c] = "idle"
  BY DEF Busy
<1> QED BY <1>1 DEF DefinitionsInv, TypeInv, CallTypes, Overlap

LEMMA InitDefinitions == Init => DefinitionsInv
<1> SUFFICES ASSUME Init PROVE DefinitionsInv
  OBVIOUS
<1>1. ConfTypeOK
  BY FilesAssumption DEF Init, ConfInit, ConfTypeOK, Files, Boots
<1>2. req \in [Clients -> Requests]
  BY NoRequestType DEF Init
<1>3. TypeOK
  BY <1>1, <1>2, RulesAssumption
     DEF Init, TypeOK, NoRules, NoRows, OptRules, OptPolicies, Steps, Requests
<1>4. Busy = {} /\ boot # "ready"
  BY DEF Init, ConfInit, Busy
<1> QED BY <1>3, <1>4, InitConfig
        DEF DefinitionsInv, TypeInv, CallTypes, Overlap, RowInv, Busy

LEMMA StartTypes ==
    ASSUME ConfTypeOK, ConfigInv, StartStep \/ StartFails \/ EditSource
    PROVE  ConfTypeOK'
<1> USE DEF ConfTypeOK, Boots
<1>1. Absent \in Files /\ Torn \in Files /\ {} \in Files
  BY DEF Files
<1>2. CASE Launch \/ StatConf
  BY <1>2 DEF Launch, StatConf
<1>3. CASE CreateEmpty \/ Stage \/ CopySource \/ Install
  BY <1>1, <1>3 DEF CreateEmpty, Stage, CopySource, Install, Files
<1>4. CASE StartFails
  BY <1>1, <1>4, FilesAssumption DEF StartFails
<1>5. CASE EditSource
  BY <1>5 DEF EditSource
<1> QED BY <1>2, <1>3, <1>4, <1>5 DEF StartStep

LEMMA StartingStep ==
    ASSUME DefinitionsInv, Starting
    PROVE  DefinitionsInv'
<1> USE DEF Starting
<1>1. boot # "ready" /\ boot' # "ready"
  BY DEF StartStep, Launch, StatConf, CreateEmpty, Stage, CopySource, Install, StartFails, EditSource
<1>2. TypeOK /\ ConfigInv /\ Busy = {}
  BY <1>1 DEF DefinitionsInv, TypeInv
<1>3. TypeOK'
  BY <1>2, StartTypes DEF TypeOK, rowVars, memVars, callVars
<1>4. Busy' = {}
  BY <1>2 DEF Busy, callVars
<1> QED BY <1>1, <1>2, <1>3, <1>4, StartConfig, NobodyBusy DEF RowInv

LEMMA LoadStep ==
    ASSUME DefinitionsInv, LoadAll \/ LoadsLess
    PROVE  DefinitionsInv'
<1>1. TypeOK /\ ConfigInv /\ Busy = {}
  BY DEF LoadAll, LoadsLess, Load, DefinitionsInv, TypeInv
<1>2. \A defs \in [Ids -> OptRules], rows \in [Ids -> OptPolicies], i \in Ids :
         LoadedRule(defs, i) \in OptRules /\ LoadedPolicy(defs, rows, i) \in OptPolicies
  BY RulesAssumption DEF LoadedRule, LoadedPolicy, OptRules, OptPolicies, Rules
<1>3. NoRules \in [Ids -> OptRules]
      /\ \A i \in Ids : [policyRow EXCEPT ![i] = NoPolicy] \in [Ids -> OptPolicies]
  BY <1>1 DEF NoRules, OptRules, OptPolicies, TypeOK
<1>4. PICK defs \in [Ids -> OptRules], rows \in [Ids -> OptPolicies] : Load(defs, rows)
  BY <1>1, <1>3 DEF LoadAll, LoadsLess, TypeOK
<1>5. ConfigInv' /\ conf \in SUBSET Remotes
  BY <1>1, LoadConfig, AbsentIsNoSetOfRemotes DEF ConfigInv
<1>6. TypeOK'
  <2>1. rules' \in [Ids -> OptRules] /\ policies' \in [Ids -> OptPolicies] /\ overrides' \subseteq Ids
    BY <1>2, <1>4 DEF Load
  <2>2. ConfTypeOK'
    BY <1>1, <1>4 DEF Load, TypeOK, ConfTypeOK, Boots
  <2>3. disturbed' \subseteq Ids
    BY DEF LoadAll, LoadsLess
  <2>4. faults' = faults \/ (faults < MaxFaults /\ faults' = faults + 1)
    BY DEF LoadAll, LoadsLess, OneFault
  <2>5. faults' \in 0 .. MaxFaults
    BY <1>1, <2>4, RulesAssumption DEF TypeOK
  <2> QED BY <1>1, <1>4, <2>1, <2>2, <2>3, <2>5 DEF Load, TypeOK, rowVars, callVars
<1>7. Busy' = {}
  BY <1>1, <1>4 DEF Busy, Load, callVars
<1>8. ASSUME NEW i \in Ids
      PROVE  RowInv(i)'
  <2>1. CASE LoadAll
    BY <2>1 DEF LoadAll, Load, RowInv, InStep, RuleInStep, rowVars
  <2>2. ASSUME Load(NoRules, policyRow), disturbed' = Ids
        PROVE  RowInv(i)'
    BY <2>2 DEF RowInv
  <2>3. ASSUME NEW k \in Ids, Load(jobdef, [policyRow EXCEPT ![k] = NoPolicy]), disturbed' = {k}
        PROVE  RowInv(i)'
    BY <1>1, <2>3
       DEF Load, RowInv, InStep, RuleInStep, LoadedRule, LoadedPolicy, rowVars, TypeOK
  <2> QED BY <2>1, <2>2, <2>3 DEF LoadsLess
<1> QED BY <1>5, <1>6, <1>7, <1>8, NobodyBusy

LEMMA KilledStep ==
    ASSUME DefinitionsInv, Killed
    PROVE  DefinitionsInv'
<1> USE DEF Killed, Crash
<1>1. TypeOK /\ ConfigInv
  BY DEF DefinitionsInv, TypeInv
<1>2. ConfTypeOK'
  BY <1>1, FilesAssumption DEF TypeOK, ConfTypeOK, Boots
<1>3. req' \in [Clients -> Requests] /\ pc' \in [Clients -> Steps]
  BY NoRequestType DEF Steps
<1>4. TypeOK'
  BY <1>1, <1>2, <1>3 DEF TypeOK, Requests, NoRules, NoRows, OptRules, OptPolicies, rowVars
<1>5. ConfigInv' /\ boot' # "ready" /\ Busy' = {}
  BY <1>1 DEF ConfigInv, Busy
<1> QED BY <1>4, <1>5, NobodyBusy DEF RowInv

LEMMA SameCalls ==
    ASSUME DefinitionsInv, TypeOK', ConfigInv',
           UNCHANGED <<boot, rowVars, memVars, callVars, disturbed>>
    PROVE  DefinitionsInv'
BY DEF DefinitionsInv, TypeInv, CallTypes, Overlap, RowInv, Touched, Busy, InStep, RuleInStep,
       LoadedRule, LoadedPolicy, CallInv, AloneInv, RemoteInv, rowVars, memVars, callVars

LEMMA CreateRemoteStep ==
    ASSUME DefinitionsInv, NEW n \in Remotes, CreateRemote(n)
    PROVE  DefinitionsInv'
<1> USE DEF CreateRemote
<1>1. TypeOK /\ ConfigInv /\ RemoteCall
  BY DEF DefinitionsInv, TypeInv, RemoteCall
<1>2. ConfigInv' /\ conf \in SUBSET Remotes
  BY <1>1, RemoteConfig, AbsentIsNoSetOfRemotes DEF ConfigInv
<1>3. TypeOK'
  BY <1>1, <1>2 DEF TypeOK, ConfTypeOK, Files, rowVars, memVars, callVars
<1> QED BY <1>2, <1>3, SameCalls

LEMMA NextDefinitions == DefinitionsInv /\ [Next]_vars => DefinitionsInv'
<1> SUFFICES ASSUME DefinitionsInv, [Next]_vars PROVE DefinitionsInv'
  OBVIOUS
<1>1. CASE UNCHANGED vars
  <2>1. TypeOK' /\ ConfigInv'
    BY <1>1 DEF DefinitionsInv, TypeInv, TypeOK, ConfTypeOK, ConfigInv, vars, confVars, rowVars,
                memVars, callVars
  <2> QED BY <1>1, <2>1, SameCalls DEF vars, confVars
<1>2. ASSUME NEW c \in Clients, Handler(c)
      PROVE  DefinitionsInv'
  BY <1>2, StatementKinds, InstallKinds, DeleteRemoteStep, FailStep, SaveBegins, PatchBegins,
     DeleteBegins, DeleteRemoteBegins DEF Handler
<1> QED BY <1>1, <1>2, StartingStep, LoadStep, KilledStep, CreateRemoteStep DEF Next

LEMMA DefinitionsInvariant == Spec => []DefinitionsInv
BY InitDefinitions, NextDefinitions, PTL DEF Spec

-----------------------------------------------------------------------------
(* The theorems.                                                           *)

\* Whatever the handlers, failures and restarts do, every row, every rule in memory
\* and every request keeps its type; in particular a policy that is stored is one
\* that was checked or merged from one in use.
THEOREM DefinitionsTypeCorrect == Spec => []TypeOK
<1>1. DefinitionsInv => TypeOK
  BY DEF DefinitionsInv, TypeInv
<1> QED BY <1>1, DefinitionsInvariant, PTL

\* What scans and transfers use is what a restart would load, for every definition
\* that no call is changing and that no call left half done.
THEOREM MemoryFollowsRows == Spec => []MemoryIsStored
<1>1. DefinitionsInv => MemoryIsStored
  BY DEF DefinitionsInv, RowInv, Touched, InStep, RuleInStep, MemoryIsStored, Settled
<1> QED BY <1>1, DefinitionsInvariant, PTL

KeepsPasswords ==
    \A i \in Ids :
        boot = "ready" /\ rules[i] # NoRule /\ rules[i].secret \in Secrets
            /\ rules'[i] # NoRule /\ rules'[i].secret # rules[i].secret
        => \E c \in Clients : /\ req[c].id = i
                              /\ \/ req[c].asked # Blank
                                 \/ pc[c] = "restore"
                                 \/ i \in req[c].met

\* Which steps change the rules in memory.
LEMMA OnlyInstallsChangeRules ==
    ASSUME DefinitionsInv, [Next]_vars, boot = "ready",
           NEW i \in Ids, rules'[i] # rules[i], rules'[i] # NoRule
    PROVE  \E c \in Clients : /\ req[c].id = i /\ c \in Busy
                              /\ InstallRule(c) \/ RestoreRule(c)
<1>1. PICK c \in Clients : Handler(c)
  BY DEF Next, Starting, LoadAll, LoadsLess, Load, Killed, CreateRemote, NoRules, vars, memVars
<1>2. InstallRule(c) \/ RestoreRule(c) \/ ForgetRule(c)
  BY <1>1 DEF Handler, AskSave, SaveDef, SavePolicy, AskPatch, PatchPolicy, InstallPolicy, AskDelete,
              DeleteDef, AskReset, ResetDef, ResetPolicy, AskDeleteRemote, DeleteRemote, CallFails,
              Begin, memVars
<1>3. rules \in [Ids -> OptRules]
  BY DEF DefinitionsInv, TypeInv, TypeOK
<1>4. req[c].id = i /\ ~ForgetRule(c)
  BY <1>2, <1>3 DEF InstallRule, RestoreRule, ForgetRule
<1> QED BY <1>2, <1>4 DEF InstallRule, RestoreRule, At, Busy

\* A definition that is edited with the password left blank keeps its password,
\* for any number of handlers; a call that overlapped another one is excepted, as
\* the code orders neither before the other.
THEOREM PasswordsSurviveEdits == Spec => PasswordsAreKept
<1>1. DefinitionsInv /\ [Next]_vars => KeepsPasswords
  <2> SUFFICES ASSUME DefinitionsInv, [Next]_vars, NEW i \in Ids, boot = "ready",
                      rules[i] # NoRule, rules[i].secret \in Secrets,
                      rules'[i] # NoRule, rules'[i].secret # rules[i].secret
               PROVE  \E c \in Clients : /\ req[c].id = i
                                         /\ \/ req[c].asked # Blank
                                            \/ pc[c] = "restore"
                                            \/ i \in req[c].met
    BY DEF KeepsPasswords
  <2>1. PICK c \in Clients : req[c].id = i /\ c \in Busy /\ (InstallRule(c) \/ RestoreRule(c))
    BY OnlyInstallsChangeRules
  <2>2. CASE InstallRule(c)
    <3>1. rules'[i] = req[c].rule /\ pc[c] = "install"
      BY <2>1, <2>2 DEF InstallRule, At, DefinitionsInv, TypeInv, TypeOK
    <3>2. i \notin req[c].met => AloneInv(c, i)
      BY <2>1 DEF DefinitionsInv, CallInv
    <3> QED BY <2>1, <3>1, <3>2 DEF AloneInv
  <2>3. CASE RestoreRule(c)
    BY <2>1, <2>3 DEF RestoreRule, At
  <2> QED BY <2>1, <2>2, <2>3
<1> QED BY <1>1, DefinitionsInvariant, PTL DEF Spec, PasswordsAreKept, KeepsPasswords

DeletesSafely ==
    \A n \in Remotes :
        boot = "ready" /\ n \in conf /\ n \notin conf'
        => \E c \in Clients :
            /\ pc[c] = "deleteRemote" /\ req[c].remote = n
            /\ \/ req[c].confirmed
               \/ \A i \in Ids \ (disturbed \cup req[c].met) :
                    LoadedRule(jobdef, i) = NoRule \/ LoadedRule(jobdef, i).remote # n

\* DELETE /api/remotes/{name} looks at the memory and deletes later, by an rclone
\* command: unless it was confirmed, the remote is still in no definition then, as
\* the rows tell, but for those a call changed in the meantime.
THEOREM DeletesAreChecked == Spec => UnconfirmedDeletesAreSafe
<1>1. DefinitionsInv /\ [Next]_vars => DeletesSafely
  <2> SUFFICES ASSUME DefinitionsInv, [Next]_vars, NEW n \in Remotes, boot = "ready",
                      n \in conf, n \notin conf'
               PROVE  \E c \in Clients :
                        /\ pc[c] = "deleteRemote" /\ req[c].remote = n
                        /\ \/ req[c].confirmed
                           \/ \A i \in Ids \ (disturbed \cup req[c].met) :
                                LoadedRule(jobdef, i) = NoRule \/ LoadedRule(jobdef, i).remote # n
    BY DEF DeletesSafely
  <2>1. RemoteCall
    BY StepsOfConfig, LoadConfig
       DEF StartStep, Launch, StatConf, CreateEmpty, Stage, CopySource, Install, StartFails,
           EditSource, Crash, confVars
  <2>2. PICK c \in Clients : DeleteRemote(c)
    BY <2>1 DEF RemoteCall, CreateRemote
  <2>3. pc[c] = "deleteRemote" /\ req[c].remote = n /\ c \in Busy
    BY <2>2 DEF DeleteRemote, At, Busy
  <2> QED BY <2>3 DEF DefinitionsInv, CallInv, RemoteInv
<1> QED BY <1>1, DefinitionsInvariant, PTL DEF Spec, UnconfirmedDeletesAreSafe, DeletesSafely

=============================================================================
