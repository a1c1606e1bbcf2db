---------------------------- MODULE ConfigProofs -----------------------------
(***************************************************************************)
(* What holds of the rclone config Copyarr owns, for any set of remotes    *)
(* and of clients, and however often starting up fails or is interrupted.  *)
(***************************************************************************)
EXTENDS Definitions, TLAPS

\* The config is never anything but absent or whole, and start-up imports only while
\* it is absent.
ConfigInv ==
    /\ source \in (SUBSET Remotes) \cup {Absent}
    /\ conf \in (SUBSET Remotes) \cup {Absent}
    /\ boot \in {"load", "ready"} => conf # Absent
    /\ boot \in {"import", "copy", "install"} => conf = Absent
    /\ boot = "copy" => source # Absent
    /\ boot = "install" => staged \in SUBSET Remotes

LEMMA AbsentIsNoSetOfRemotes == Absent \notin SUBSET Remotes
BY FilesAssumption DEF Absent

LEMMA StartConfig ==
    ASSUME ConfigInv, StartStep \/ StartFails \/ EditSource
    PROVE  ConfigInv'
<1> USE AbsentIsNoSetOfRemotes DEF ConfigInv
<1>1. CASE Launch \/ StatConf
  BY <1>1 DEF Launch, StatConf
<1>2. CASE CreateEmpty
  BY <1>2 DEF CreateEmpty
<1>3. CASE Stage
  BY <1>3 DEF Stage
<1>4. CASE CopySource
  BY <1>4 DEF CopySource
<1>5. CASE Install
  BY <1>5 DEF Install
<1>6. CASE StartFails
  BY <1>6 DEF StartFails
<1>7. CASE EditSource
  BY <1>7 DEF EditSource
<1> QED BY <1>1, <1>2, <1>3, <1>4, <1>5, <1>6, <1>7 DEF StartStep

\* No call of a handler touches the config but the one that deletes a remote.
LEMMA HandlerConfig ==
    ASSUME NEW c \in Clients, Handler(c)
    PROVE  UNCHANGED confVars \/ DeleteRemote(c)
<1>1. CASE AskSave(c) \/ AskPatch(c) \/ AskDelete(c) \/ AskReset(c) \/ AskDeleteRemote(c)
  BY <1>1 DEF AskSave, AskPatch, AskDelete, AskReset, AskDeleteRemote, Begin
<1>2. CASE SaveDef(c) \/ SavePolicy(c) \/ InstallRule(c)
  BY <1>2 DEF SaveDef, SavePolicy, InstallRule
<1>3. CASE PatchPolicy(c) \/ InstallPolicy(c)
  BY <1>3 DEF PatchPolicy, InstallPolicy
<1>4. CASE DeleteDef(c) \/ ForgetRule(c)
  BY <1>4 DEF DeleteDef, ForgetRule
<1>5. CASE ResetDef(c) \/ ResetPolicy(c) \/ RestoreRule(c)
  BY <1>5 DEF ResetDef, ResetPolicy, RestoreRule
<1>6. CASE CallFails(c)
  BY <1>6 DEF CallFails
<1> QED BY <1>1, <1>2, <1>3, <1>4, <1>5, <1>6 DEF Handler

LEMMA LoadConfig ==
    ASSUME LoadAll \/ LoadsLess
    PROVE  boot = "load" /\ boot' = "ready" /\ UNCHANGED <<source, conf, staged>>
BY DEF LoadAll, LoadsLess, Load

\* The remotes API, once the process is up.
RemoteCall == (\E n \in Remotes : CreateRemote(n)) \/ (\E c \in Clients : DeleteRemote(c))

LEMMA RemoteConfig ==
    ASSUME ConfigInv, RemoteCall
    PROVE  ConfigInv' /\ boot = "ready"
<1> USE AbsentIsNoSetOfRemotes DEF ConfigInv
<1>1. CASE \E n \in Remotes : CreateRemote(n)
  BY <1>1 DEF CreateRemote
<1>2. CASE \E c \in Clients : DeleteRemote(c)
  BY <1>2 DEF DeleteRemote, At
<1> QED BY <1>1, <1>2 DEF RemoteCall

\* Every step of the server is one of start-up, of the remotes API, or leaves the
\* config alone.
LEMMA StepsOfConfig ==
    ASSUME [Next]_vars
    PROVE  \/ StartStep \/ StartFails \/ EditSource \/ LoadAll \/ LoadsLess
           \/ Crash \/ RemoteCall \/ UNCHANGED confVars
<1>1. CASE Starting
  BY <1>1 DEF Starting
<1>2. CASE Killed
  BY <1>2 DEF Killed
<1>3. CASE \E c \in Clients : Handler(c)
  BY <1>3, HandlerConfig DEF RemoteCall
<1>4. CASE UNCHANGED vars
  BY <1>4 DEF vars
<1> QED BY <1>1, <1>2, <1>3, <1>4 DEF Next, RemoteCall

LEMMA NextConfig == ConfigInv /\ [Next]_vars => ConfigInv'
<1> SUFFICES ASSUME ConfigInv, [Next]_vars PROVE ConfigInv'
  OBVIOUS
<1>1. CASE LoadAll \/ LoadsLess
  BY <1>1, LoadConfig DEF ConfigInv
<1>2. CASE Crash
  BY <1>2 DEF Crash, ConfigInv
<1>3. CASE UNCHANGED confVars
  BY <1>3 DEF confVars, ConfigInv
<1> QED BY <1>1, <1>2, <1>3, StartConfig, RemoteConfig, StepsOfConfig

LEMMA InitConfig == Init => ConfigInv
BY AbsentIsNoSetOfRemotes DEF Init, ConfInit, ConfigInv

\* However an import was interrupted, Copyarr runs on a config that was written
\* completely: New is reached only after the rename, or with a file found in place.
THEOREM ConfigIsWhole == Spec => []RunsOnWholeConfig
<1>1. ConfigInv => RunsOnWholeConfig
  BY DEF ConfigInv, RunsOnWholeConfig
<1> QED BY <1>1, InitConfig, NextConfig, PTL DEF Spec

StartKeepsConfig == conf # Absent => conf' = conf \/ boot = "ready"

\* No start of the process replaces a config that is there: the mounted file is
\* imported only while EnsureWritableRcloneConfig finds none.
THEOREM ConfigIsImportedOnce == Spec => OwnedConfigStays
<1>1. ConfigInv /\ [Next]_vars => [StartKeepsConfig]_confVars
  <2> SUFFICES ASSUME ConfigInv, [Next]_vars, conf # Absent
               PROVE  conf' = conf \/ boot = "ready" \/ UNCHANGED confVars
    BY DEF StartKeepsConfig
  <2>1. CASE StartStep \/ StartFails \/ EditSource
    BY <2>1 DEF ConfigInv, StartStep, Launch, StatConf, CreateEmpty, Stage, CopySource,
                Install, StartFails, EditSource
  <2>2. CASE LoadAll \/ LoadsLess
    BY <2>2, LoadConfig
  <2>3. CASE Crash
    BY <2>3 DEF Crash
  <2> QED BY <2>1, <2>2, <2>3, RemoteConfig, StepsOfConfig
<1>2. OwnedConfigStays <=> [][StartKeepsConfig]_confVars
  BY DEF OwnedConfigStays, StartKeepsConfig
<1> QED BY <1>1, <1>2, InitConfig, NextConfig, PTL DEF Spec
=============================================================================
