---------------------------- MODULE Definitions -----------------------------
(***************************************************************************)
(* Job definitions and remotes.  A definition lives in config.json (never  *)
(* rewritten), in two rows of the meta table (jobdef:<id> and              *)
(* rule:<id>:retry_policy) and in Engine's memory, which every scan and    *)
(* transfer reads.  The handlers write the rows one statement at a time    *)
(* and then the memory, under Engine.mu; nothing orders two handlers.  A   *)
(* restart rebuilds the memory from the file and the rows.                 *)
(*                                                                         *)
(* One step per database statement, per critical section and per rclone    *)
(* command.  A rule is its remote, its retry policy and its rTorrent       *)
(* secret; the rest of it travels with them.                               *)
(***************************************************************************)
EXTENDS RcloneConf

CONSTANTS
    Ids,            \* rule ids
    FileRule,       \* the rules of config.json
    Counts, Waits,  \* values of retry_count and retry_wait_seconds
    Secrets,        \* rTorrent passwords
    Blank,          \* a password left blank, or redacted by GET
    NoTorrent,      \* a rule without rTorrent
    Typed,          \* definitions a client sends
    Omitted, Negative,              \* a count or wait that is left out, or refused
    DefaultCount, DefaultWait,
    NoRule, NoPolicy,
    NoRemote,       \* a local path
    Clients,        \* HTTP handlers that may run at the same time
    MaxRequests, MaxFaults

FileIds == DOMAIN FileRule
Policies == [count: Counts, wait: Waits]
Rules == [remote: Remotes \cup {NoRemote}, policy: Policies, secret: Secrets \cup {Blank, NoTorrent}]
SentPolicies == [count: Counts \cup {Omitted, Negative}, wait: Waits \cup {Omitted, Negative}]

ASSUME RulesAssumption ==
    /\ FileIds \subseteq Ids /\ FileRule \in [FileIds -> Rules]
    /\ Typed \subseteq [remote: Remotes \cup {NoRemote}, policy: SentPolicies,
                        secret: Secrets \cup {Blank, NoTorrent}]
    /\ DefaultCount \in Counts /\ DefaultWait \in Waits
    /\ NoRule \notin Rules /\ NoPolicy \notin Policies /\ NoRemote \notin Remotes
    /\ Blank \notin Secrets /\ NoTorrent \notin Secrets /\ Blank # NoTorrent
    /\ Counts \subseteq Nat /\ Waits \subseteq Nat
    /\ MaxRequests \in Nat /\ MaxFaults \in Nat

VARIABLES
    jobdef,         \* the rows jobdef:<id>
    policyRow,      \* the rows rule:<id>:retry_policy
    rules, policies, overrides,     \* Engine's memory
    pc, req,        \* the handlers and the calls they serve
    disturbed,      \* ids whose last call failed midway or overlapped another one
    requests, faults

rowVars == <<jobdef, policyRow>>
memVars == <<rules, policies, overrides>>
callVars == <<pc, req, requests>>
vars == <<confVars, rowVars, memVars, callVars, disturbed, faults>>

Steps == {"idle", "saveDef", "savePolicy", "install", "patchPolicy", "installPolicy",
          "deleteDef", "forget", "resetDef", "resetPolicy", "restore", "deleteRemote"}

\* met: the ids of the calls that were under way at some time during this one.
NoRequest == [id |-> NoRule, rule |-> NoRule, policy |-> NoPolicy, asked |-> Blank,
              remote |-> NoRemote, confirmed |-> FALSE, met |-> {}]

OptRules == Rules \cup {NoRule}
OptPolicies == Policies \cup {NoPolicy}

TypeOK ==
    /\ ConfTypeOK
    /\ jobdef \in [Ids -> OptRules] /\ policyRow \in [Ids -> OptPolicies]
    /\ rules \in [Ids -> OptRules] /\ policies \in [Ids -> OptPolicies]
    /\ overrides \subseteq Ids /\ disturbed \subseteq Ids
    /\ pc \in [Clients -> Steps]
    /\ req \in [Clients -> [id: Ids \cup {NoRule}, rule: OptRules, policy: OptPolicies,
                            asked: Secrets \cup {Blank, NoTorrent},
                            remote: Remotes \cup {NoRemote}, confirmed: BOOLEAN,
                            met: SUBSET (Ids \cup {NoRule})]]
    /\ requests \in 0 .. MaxRequests /\ faults \in 0 .. MaxFaults

NoRows == [i \in Ids |-> NoPolicy]
NoRules == [i \in Ids |-> NoRule]

Init ==
    /\ ConfInit
    /\ jobdef = NoRules /\ policyRow = NoRows
    /\ rules = NoRules /\ policies = NoRows /\ overrides = {}
    /\ pc = [c \in Clients |-> "idle"] /\ req = [c \in Clients |-> NoRequest]
    /\ disturbed = {} /\ requests = 0 /\ faults = 0

-----------------------------------------------------------------------------
\* What New makes of the rows: a stored definition masks the file's, and a policy
\* row the policy of the definition.
LoadedRule(defs, i) ==
    IF defs[i] # NoRule THEN defs[i] ELSE IF i \in FileIds THEN FileRule[i] ELSE NoRule

LoadedPolicy(defs, rows, i) ==
    IF LoadedRule(defs, i) = NoRule THEN NoPolicy
    ELSE IF rows[i] # NoPolicy THEN rows[i] ELSE LoadedRule(defs, i).policy

Load(defs, rows) ==
    /\ boot = "load" /\ boot' = "ready"
    /\ rules' = [i \in Ids |-> LoadedRule(defs, i)]
    /\ policies' = [i \in Ids |-> LoadedPolicy(defs, rows, i)]
    /\ overrides' = {i \in Ids : defs[i] # NoRule}
    /\ UNCHANGED <<source, conf, staged, stops, rowVars, callVars>>

LoadAll == Load(jobdef, policyRow) /\ disturbed' = {} /\ UNCHANGED faults

\* New goes on without the rows it cannot read.
OneFault == faults < MaxFaults /\ faults' = faults + 1
LoadsLess ==
    /\ OneFault
    /\ \/ Load(NoRules, policyRow) /\ disturbed' = Ids
       \/ \E i \in Ids : Load(jobdef, [policyRow EXCEPT ![i] = NoPolicy]) /\ disturbed' = {i}

-----------------------------------------------------------------------------
Busy == {c \in Clients : pc[c] # "idle"}

\* A handler takes a request whose first read of the memory is already done.
Begin(c, step, r) ==
    /\ boot = "ready" /\ pc[c] = "idle" /\ requests < MaxRequests
    /\ pc' = [pc EXCEPT ![c] = step]
    /\ req' = [d \in Clients |->
                  IF d = c THEN [r EXCEPT !.met = {req[b].id : b \in Busy}]
                  ELSE IF d \in Busy THEN [req[d] EXCEPT !.met = @ \cup {r.id}] ELSE req[d]]
    /\ requests' = requests + 1
    /\ UNCHANGED <<confVars, rowVars, memVars, disturbed, faults>>

At(c, step) == boot = "ready" /\ pc[c] = step
Goto(c, step) == pc' = [pc EXCEPT ![c] = step] /\ UNCHANGED <<req, requests, disturbed, faults>>

\* The call returns; one that wrote both copies of the definition and overlapped no
\* other call on it leaves them equal.
Return(c, repairs) ==
    /\ pc' = [pc EXCEPT ![c] = "idle"] /\ req' = [req EXCEPT ![c] = NoRequest]
    /\ disturbed' = CASE req[c].id \in req[c].met -> disturbed \cup ({req[c].id} \cap Ids)
                      [] req[c].id \notin req[c].met /\ repairs -> disturbed \ {req[c].id}
                      [] OTHER -> disturbed
    /\ UNCHANGED <<requests, faults>>

\* A statement or an rclone command fails and the handler returns the error.
CallFails(c) ==
    /\ boot = "ready" /\ OneFault
    /\ pc[c] \in {"saveDef", "savePolicy", "patchPolicy", "deleteDef", "resetDef",
                  "resetPolicy", "deleteRemote"}
    /\ pc' = [pc EXCEPT ![c] = "idle"] /\ req' = [req EXCEPT ![c] = NoRequest]
    /\ disturbed' = IF pc[c] \in {"savePolicy", "resetPolicy"}
                    THEN disturbed \cup {req[c].id} ELSE disturbed
    /\ UNCHANGED <<confVars, rowVars, memVars, requests>>

-----------------------------------------------------------------------------
Valid(p) == p.count # Negative /\ p.wait # Negative
Given(x, otherwise) == IF x = Omitted THEN otherwise ELSE x

\* The defaults of a definition; those of its other fields travel with it.
NormalizeRule(d) ==
    [d EXCEPT !.policy = [count |-> Given(@.count, DefaultCount), wait |-> Given(@.wait, DefaultWait)]]

\* POST and PUT /api/job-definitions.  GET redacts the password, so a blank one
\* stands for the one in use.
\* Mutant of KeptSecret: the blank password is stored.
SentSecret(i, d) == d.secret

KeptSecret(i, d) ==
    IF d.secret = Blank /\ rules[i] # NoRule /\ rules[i].secret \in Secrets
    THEN rules[i].secret ELSE d.secret

AskSave(c) == \E i \in Ids, sent \in Typed :
    /\ Valid(sent.policy)
    /\ LET d == NormalizeRule(sent)
       IN  Begin(c, "saveDef", [NoRequest EXCEPT !.id = i, !.policy = d.policy, !.asked = d.secret,
                                    !.rule = [d EXCEPT !.secret = KeptSecret(i, d)]])

SaveDef(c) ==
    /\ At(c, "saveDef")
    /\ jobdef' = [jobdef EXCEPT ![req[c].id] = req[c].rule]
    /\ Goto(c, "savePolicy") /\ UNCHANGED <<confVars, policyRow, memVars>>

SavePolicy(c) ==
    /\ At(c, "savePolicy")
    /\ policyRow' = [policyRow EXCEPT ![req[c].id] = req[c].policy]
    /\ Goto(c, "install") /\ UNCHANGED <<confVars, jobdef, memVars>>

InstallRule(c) ==
    /\ At(c, "install")
    /\ rules' = [rules EXCEPT ![req[c].id] = req[c].rule]
    /\ policies' = [policies EXCEPT ![req[c].id] = req[c].policy]
    /\ overrides' = overrides \cup {req[c].id}
    /\ Return(c, TRUE) /\ UNCHANGED <<confVars, rowVars>>

\* PATCH /api/rules/{id}: a field that is left out gets the value read here.
Merged(i, p) == [count |-> Given(p.count, policies[i].count), wait |-> Given(p.wait, policies[i].wait)]

\* Mutant of AskPatch: without the check of the values.
AskPatchUnchecked(c) == \E i \in Ids, p \in SentPolicies :
    /\ rules[i] # NoRule /\ policies[i] # NoPolicy
    /\ Begin(c, "patchPolicy", [NoRequest EXCEPT !.id = i, !.policy = Merged(i, p)])

AskPatch(c) == \E i \in Ids, p \in SentPolicies :
    /\ rules[i] # NoRule /\ policies[i] # NoPolicy
    /\ Valid(p)
    /\ Begin(c, "patchPolicy", [NoRequest EXCEPT !.id = i, !.policy = Merged(i, p)])

PatchPolicy(c) ==
    /\ At(c, "patchPolicy")
    /\ policyRow' = [policyRow EXCEPT ![req[c].id] = req[c].policy]
    /\ Goto(c, "installPolicy") /\ UNCHANGED <<confVars, jobdef, memVars>>

InstallPolicy(c) ==
    /\ At(c, "installPolicy")
    /\ policies' = [policies EXCEPT ![req[c].id] = req[c].policy]
    /\ Return(c, FALSE) /\ UNCHANGED <<confVars, rowVars, rules, overrides>>

\* DELETE /api/job-definitions/{id}: refused for a rule of config.json.  The retry
\* policy's row stays.
AskDelete(c) == \E i \in Ids \ FileIds : Begin(c, "deleteDef", [NoRequest EXCEPT !.id = i])

DeleteDef(c) ==
    /\ At(c, "deleteDef")
    /\ jobdef' = [jobdef EXCEPT ![req[c].id] = NoRule]
    /\ Goto(c, "forget") /\ UNCHANGED <<confVars, policyRow, memVars>>

ForgetRule(c) ==
    /\ At(c, "forget")
    /\ rules' = [rules EXCEPT ![req[c].id] = NoRule]
    /\ policies' = [policies EXCEPT ![req[c].id] = NoPolicy]
    /\ overrides' = overrides \ {req[c].id}
    /\ Return(c, TRUE) /\ UNCHANGED <<confVars, rowVars>>

\* POST /api/job-definitions/{id}/reset, only for a rule of config.json.
AskReset(c) == \E i \in FileIds : Begin(c, "resetDef", [NoRequest EXCEPT !.id = i])

ResetDef(c) ==
    /\ At(c, "resetDef")
    /\ jobdef' = [jobdef EXCEPT ![req[c].id] = NoRule]
    /\ Goto(c, "resetPolicy") /\ UNCHANGED <<confVars, policyRow, memVars>>

\* Mutant of ResetPolicy: the row of the policy stays.
ResetKeepsPolicy(c) ==
    /\ At(c, "resetPolicy")
    /\ Goto(c, "restore") /\ UNCHANGED <<confVars, rowVars, memVars>>

ResetPolicy(c) ==
    /\ At(c, "resetPolicy")
    /\ policyRow' = [policyRow EXCEPT ![req[c].id] = NoPolicy]
    /\ Goto(c, "restore") /\ UNCHANGED <<confVars, jobdef, memVars>>

RestoreRule(c) ==
    /\ At(c, "restore")
    /\ rules' = [rules EXCEPT ![req[c].id] = FileRule[req[c].id]]
    /\ policies' = [policies EXCEPT ![req[c].id] = FileRule[req[c].id].policy]
    /\ overrides' = overrides \ {req[c].id}
    /\ Return(c, TRUE) /\ UNCHANGED <<confVars, rowVars>>

-----------------------------------------------------------------------------
\* POST /api/remotes: one rclone command.
CreateRemote(n) ==
    /\ boot = "ready" /\ n \in Remotes \ conf
    /\ conf' = conf \cup {n}
    /\ UNCHANGED <<source, staged, boot, stops, rowVars, memVars, callVars, disturbed, faults>>

\* Mutant of RemoteUsage: definitions made in the UI are overlooked.
RemoteUsageInFile(n) == {i \in FileIds : rules[i] # NoRule /\ rules[i].remote = n}

\* DELETE /api/remotes/{name}: refused while a definition in memory uses the remote,
\* unless the request confirms it; the rclone command comes afterwards.
RemoteUsage(n) == {i \in Ids : rules[i] # NoRule /\ rules[i].remote = n}
AskDeleteRemote(c) == \E n \in conf, confirmed \in BOOLEAN :
    /\ RemoteUsage(n) = {} \/ confirmed
    /\ Begin(c, "deleteRemote", [NoRequest EXCEPT !.remote = n, !.confirmed = confirmed])

DeleteRemote(c) ==
    /\ At(c, "deleteRemote")
    /\ conf' = conf \ {req[c].remote}
    /\ Return(c, FALSE) /\ UNCHANGED <<source, staged, boot, stops, rowVars, memVars>>

-----------------------------------------------------------------------------
\* The process ends, with the handlers that were running.
Killed ==
    /\ Crash
    /\ pc' = [c \in Clients |-> "idle"] /\ req' = [c \in Clients |-> NoRequest]
    /\ rules' = NoRules /\ policies' = NoRows /\ overrides' = {} /\ disturbed' = {}
    /\ UNCHANGED <<rowVars, requests, faults>>

Starting == (StartStep \/ StartFails \/ EditSource) /\ UNCHANGED <<rowVars, memVars, callVars, disturbed, faults>>

Handler(c) ==
    \/ AskSave(c) \/ SaveDef(c) \/ SavePolicy(c) \/ InstallRule(c)
    \/ AskPatch(c) \/ PatchPolicy(c) \/ InstallPolicy(c)
    \/ AskDelete(c) \/ DeleteDef(c) \/ ForgetRule(c)
    \/ AskReset(c) \/ ResetDef(c) \/ ResetPolicy(c) \/ RestoreRule(c)
    \/ AskDeleteRemote(c) \/ DeleteRemote(c)
    \/ CallFails(c)

Next ==
    \/ Starting \/ LoadAll \/ LoadsLess \/ Killed
    \/ \E n \in Remotes : CreateRemote(n)
    \/ \E c \in Clients : Handler(c)

Spec == Init /\ [][Next]_vars

-----------------------------------------------------------------------------
Settled(i) == boot = "ready" /\ i \notin disturbed /\ \A c \in Busy : req[c].id # i

\* What scans and transfers use is what a restart would load, for every definition no
\* call is changing: no handler leaves the memory and the rows apart unless it failed
\* midway or overlapped another call on the same definition, and then the next save,
\* reset or delete that runs alone brings them together again.
MemoryIsStored ==
    \A i \in Ids : Settled(i) =>
        /\ rules[i] = LoadedRule(jobdef, i)
        /\ policies[i] = LoadedPolicy(jobdef, policyRow, i)
        /\ i \in overrides <=> jobdef[i] # NoRule

\* A definition edited in the UI, where the password is redacted, keeps its rTorrent
\* password: it changes only by a call that typed another one, dropped rTorrent, reset
\* or deleted the definition, or that overlapped another call on it.
PasswordsAreKept ==
    [][\A i \in Ids :
        boot = "ready" /\ rules[i] # NoRule /\ rules[i].secret \in Secrets
            /\ rules'[i] # NoRule /\ rules'[i].secret # rules[i].secret
        => \E c \in Clients : /\ req[c].id = i
                              /\ \/ req[c].asked # Blank
                                 \/ pc[c] = "restore"
                                 \/ i \in req[c].met]_vars

\* A DELETE that was not confirmed takes no remote from a definition that is in use now
\* or would be after a restart, but for one whose save ran at the same time or had
\* been left half done.
UnconfirmedDeletesAreSafe ==
    [][\A n \in Remotes :
        boot = "ready" /\ n \in conf /\ n \notin conf'
        => \E c \in Clients :
            /\ pc[c] = "deleteRemote" /\ req[c].remote = n
            /\ \/ req[c].confirmed
               \/ \A i \in Ids \ (disturbed \cup req[c].met) :
                    LoadedRule(jobdef, i) = NoRule \/ LoadedRule(jobdef, i).remote # n]_vars
=============================================================================
