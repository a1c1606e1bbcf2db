---------------------------- MODULE Privateering ----------------------------
(***************************************************************************)
(* The push to Nexus.  Its settings are three rows of the meta table,      *)
(* which PUT writes one by one; Pusher reads them one by one, on its       *)
(* ticker (maybePush) and on the handler's goroutine of "send now"         *)
(* (PushNow), builds a snapshot of Copyarr's data and posts it.  Nothing   *)
(* orders the three, and lastPush has no lock.                             *)
(*                                                                         *)
(* Time is counted in checks of the ticker.  A snapshot is the version of  *)
(* the data it was taken from.                                             *)
(***************************************************************************)
EXTENDS Naturals

CONSTANTS
    Raw, Normalize, \* URLs as they are typed, and the base URL each of them stands for
    Tokens,
    None,           \* an empty URL or token
    Keep,           \* a PUT that leaves the token alone
    TokenFor,       \* the token the Nexus at a URL accepts
    Intervals, DefaultInterval,
    Ticker, Clients,
    MaxVersion, MaxRequests, MaxFaults  \* bounds on the data's changes, requests, failures

Urls == {Normalize[u] : u \in Raw} \ {None}
Pushers == Clients \cup {Ticker}
Longest == CHOOSE n \in Intervals \cup {DefaultInterval} :
                \A m \in Intervals \cup {DefaultInterval} : n >= m
Never == Longest + 1

ASSUME PrivateeringAssumption ==
    /\ None \notin Tokens /\ Keep \notin Tokens \cup {None} /\ Ticker \notin Clients
    /\ TokenFor \in [Urls -> Tokens]
    /\ Normalize \in [Raw -> Urls \cup {None}]
    /\ Intervals \subseteq Nat /\ Intervals # {} /\ DefaultInterval \in Nat \ {0}
    /\ \E n \in Intervals \cup {DefaultInterval} :
            \A m \in Intervals \cup {DefaultInterval} : n >= m
    /\ MaxVersion \in Nat /\ MaxRequests \in Nat /\ MaxFaults \in Nat

VARIABLES
    url, token, interval,   \* the rows
    pc, got,        \* the goroutines, and the settings each has read or is to write
    snap,           \* the snapshots they have taken
    since,          \* the time since lastPush, or Never
    own,            \* the time since the ticker's last push
    data,           \* the version of the objects and torrents a snapshot shows
    nexus,          \* the version each Nexus holds
    on, met,        \* pushers during whose check the push was enabled, or a PUT wrote
    requests, faults

rows == <<url, token, interval>>
vars == <<rows, pc, got, snap, since, own, data, nexus, on, met, requests, faults>>

Puts == {"putUrl", "putToken", "putInterval"}
Steps == {"idle", "getUrl", "getToken", "getInterval", "decide", "snapshot", "post"} \cup Puts
Blank == [url |-> None, token |-> None, interval |-> 0]
Versions == 0 .. MaxVersion

TypeOK ==
    /\ url \in Urls \cup {None} /\ token \in Tokens \cup {None} /\ interval \in Intervals
    /\ pc \in [Pushers -> Steps]
    /\ got \in [Pushers -> [url: Raw \cup Urls \cup {None}, token: Tokens \cup {None, Keep},
                            interval: Intervals \cup {0}]]
    /\ snap \in [Pushers -> Versions] /\ data \in Versions /\ nexus \in [Urls -> Versions]
    /\ since \in 0 .. Never /\ own \in 0 .. Never
    /\ on \subseteq Pushers /\ met \subseteq Pushers
    /\ requests \in 0 .. MaxRequests /\ faults \in 0 .. MaxFaults

Init ==
    /\ url = None /\ token = None /\ interval \in Intervals
    /\ pc = [p \in Pushers |-> "idle"] /\ got = [p \in Pushers |-> Blank]
    /\ snap = [p \in Pushers |-> 0] /\ since = Never /\ own = Never
    /\ data = 0 /\ nexus = [u \in Urls |-> 0]
    /\ on = {} /\ met = {} /\ requests = 0 /\ faults = 0

-----------------------------------------------------------------------------
Goto(p, step) == pc' = [pc EXCEPT ![p] = step]
OneFault == faults < MaxFaults /\ faults' = faults + 1
OneRequest == requests < MaxRequests /\ requests' = requests + 1

\* Mutant of Enabled: the token is not looked at.
HasUrl(s) == s.url # None

Enabled(s) == s.url # None /\ s.token # None
Interval(s) == IF s.interval = 0 THEN DefaultInterval ELSE s.interval

\* Mutant of Due: only the first push is.
DueOnce(s) == since = Never

Due(s) == since = Never \/ since >= Interval(s)

BothSet(u, t) == u # None /\ t # None
Checking == {p \in Pushers : pc[p] \in {"getUrl", "getToken", "getInterval", "decide"}}
Writing == \E c \in Clients : pc[c] \in Puts

\* A pusher starts to read the settings.
Start(p) ==
    /\ Goto(p, "getUrl")
    /\ on' = IF BothSet(url, token) THEN on \cup {p} ELSE on \ {p}
    /\ met' = IF Writing THEN met \cup {p} ELSE met \ {p}

Check ==
    /\ pc[Ticker] = "idle" /\ Start(Ticker)
    /\ UNCHANGED <<rows, got, snap, since, own, data, nexus, requests, faults>>

PushNow(c) ==
    /\ pc[c] = "idle" /\ OneRequest /\ Start(c)
    /\ UNCHANGED <<rows, got, snap, since, own, data, nexus, faults>>

GetUrl(p) ==
    /\ pc[p] = "getUrl" /\ Goto(p, "getToken") /\ got' = [got EXCEPT ![p].url = url]
    /\ UNCHANGED <<rows, snap, since, own, data, nexus, on, met, requests, faults>>

GetToken(p) ==
    /\ pc[p] = "getToken" /\ Goto(p, "getInterval") /\ got' = [got EXCEPT ![p].token = token]
    /\ UNCHANGED <<rows, snap, since, own, data, nexus, on, met, requests, faults>>

GetInterval(p) ==
    /\ pc[p] = "getInterval" /\ Goto(p, "decide")
    /\ got' = [got EXCEPT ![p].interval = interval]
    /\ UNCHANGED <<rows, snap, since, own, data, nexus, on, met, requests, faults>>

Done(p) == Goto(p, "idle") /\ got' = [got EXCEPT ![p] = Blank] /\ snap' = [snap EXCEPT ![p] = 0]

\* A time of day is written in several words: a check that reads lastPush while a send
\* now writes the first one may see neither, and find no push due.
SkipCheck(p) ==
    /\ pc[p] = "decide" /\ Done(p)
    /\ \/ ~Enabled(got[p])
       \/ p = Ticker /\ ~Due(got[p])
       \/ p = Ticker /\ since = Never /\ \E c \in Clients : pc[c] = "decide" /\ Enabled(got[c])
    /\ UNCHANGED <<rows, since, own, data, nexus, on, met, requests, faults>>

\* lastPush is set before the push, whether it will succeed or not.
StartPush(p) ==
    /\ pc[p] = "decide" /\ Enabled(got[p])
    /\ p = Ticker => Due(got[p])
    /\ Goto(p, "snapshot")
    /\ since' = 0 /\ own' = IF p = Ticker THEN 0 ELSE own
    /\ UNCHANGED <<rows, got, snap, data, nexus, on, met, requests, faults>>

\* PrivateeringSnapshot: an rTorrent that is down is left out of it.
TakeSnapshot(p) ==
    /\ pc[p] = "snapshot" /\ Goto(p, "post") /\ snap' = [snap EXCEPT ![p] = data]
    /\ UNCHANGED <<rows, got, since, own, data, nexus, on, met, requests, faults>>

\* The Nexus answers; it refuses a token that is not its own.
Post(p) ==
    /\ pc[p] = "post" /\ Done(p)
    /\ nexus' = IF TokenFor[got[p].url] = got[p].token
                THEN [nexus EXCEPT ![got[p].url] = snap[p]] ELSE nexus
    /\ UNCHANGED <<rows, since, own, data, on, met, requests, faults>>

\* Mutant of PushFails: a push that failed is due again at once.
PushFailsAndRetries(p) ==
    /\ pc[p] \in {"getUrl", "getToken", "getInterval", "snapshot", "post"} /\ OneFault /\ Done(p)
    /\ since' = Never
    /\ UNCHANGED <<rows, own, data, nexus, on, met, requests>>

\* A row cannot be read, the snapshot not be built, the Nexus not be reached.
PushFails(p) ==
    /\ pc[p] \in {"getUrl", "getToken", "getInterval", "snapshot", "post"} /\ OneFault /\ Done(p)
    /\ UNCHANGED <<rows, since, own, data, nexus, on, met, requests>>

PushStep(p) ==
    \/ GetUrl(p) \/ GetToken(p) \/ GetInterval(p) \/ SkipCheck(p) \/ StartPush(p)
    \/ TakeSnapshot(p) \/ Post(p) \/ PushFails(p)

-----------------------------------------------------------------------------
\* PUT /api/privateering/settings.
AskPut(c) ==
    /\ pc[c] = "idle" /\ OneRequest /\ Goto(c, "putUrl")
    /\ \E u \in Raw, t \in Tokens \cup {None, Keep}, i \in Intervals :
            got' = [got EXCEPT ![c] = [url |-> u, token |-> t, interval |-> i]]
    /\ met' = met \cup Checking
    /\ UNCHANGED <<rows, snap, since, own, data, nexus, on, faults>>

\* The pushers that are reading the settings see the push enabled by this row, or not.
Written(u, t) == /\ url' = u /\ token' = t
                 /\ on' = IF BothSet(u, t) THEN on \cup Checking ELSE on

\* Mutant of PutUrl: the URL is stored as it was typed.
PutRawUrl(c) ==
    /\ pc[c] = "putUrl" /\ Goto(c, "putToken")
    /\ Written(got[c].url, token)
    /\ UNCHANGED <<interval, got, snap, since, own, data, nexus, met, requests, faults>>

PutUrl(c) ==
    /\ pc[c] = "putUrl" /\ Goto(c, "putToken")
    /\ Written(Normalize[got[c].url], token)
    /\ UNCHANGED <<interval, got, snap, since, own, data, nexus, met, requests, faults>>

PutToken(c) ==
    /\ pc[c] = "putToken" /\ Goto(c, "putInterval")
    /\ Written(url, IF got[c].token = Keep THEN token ELSE got[c].token)
    /\ UNCHANGED <<interval, got, snap, since, own, data, nexus, met, requests, faults>>

PutInterval(c) ==
    /\ pc[c] = "putInterval" /\ interval' = got[c].interval /\ Done(c)
    /\ UNCHANGED <<url, token, since, own, data, nexus, on, met, requests, faults>>

\* A row cannot be written: those before it stay.
PutFails(c) ==
    /\ pc[c] \in Puts /\ OneFault /\ Done(c)
    /\ UNCHANGED <<rows, since, own, data, nexus, on, met, requests>>

HandlerStep(c) ==
    PushStep(c) \/ PutUrl(c) \/ PutToken(c) \/ PutInterval(c) \/ PutFails(c)

-----------------------------------------------------------------------------
\* Time passes; what is longer than the longest interval is not told apart.
Pass ==
    /\ since < Longest \/ own < Longest
    /\ since' = IF since < Longest THEN since + 1 ELSE since
    /\ own' = IF own < Longest THEN own + 1 ELSE own
    /\ UNCHANGED <<rows, pc, got, snap, data, nexus, on, met, requests, faults>>

DataChanges ==
    /\ data < MaxVersion /\ data' = data + 1
    /\ UNCHANGED <<rows, pc, got, snap, since, own, nexus, on, met, requests, faults>>

Restart ==
    /\ OneFault
    /\ pc' = [p \in Pushers |-> "idle"] /\ got' = [p \in Pushers |-> Blank]
    /\ snap' = [p \in Pushers |-> 0] /\ since' = Never /\ own' = Never
    /\ UNCHANGED <<rows, data, nexus, on, met, requests>>

Next ==
    \/ Check \/ PushStep(Ticker) \/ Pass \/ DataChanges \/ Restart
    \/ \E c \in Clients : PushNow(c) \/ AskPut(c) \/ HandlerStep(c)

Spec == Init /\ [][Next]_vars

\* The ticker ticks, time passes, and the handlers that serve a request go on with it.
FairSpec ==
    /\ Spec /\ WF_vars(Check) /\ WF_vars(PushStep(Ticker)) /\ WF_vars(Pass)
    /\ \A c \in Clients : WF_vars(HandlerStep(c))

-----------------------------------------------------------------------------
\* README: the push is disabled whenever the URL or the token is empty.  A push that
\* starts saw both set at one time, unless a PUT was writing while it read them.
DisabledIsSilent ==
    [][\A p \in Pushers : pc[p] = "decide" /\ pc'[p] = "snapshot" => p \in on \cup met]_vars

\* README: failures are retried on the next interval.  The ticker never starts two pushes
\* closer together than the interval it has read, whatever failed and whoever pressed
\* "send now" in between.
TickerKeepsInterval ==
    [][pc[Ticker] = "decide" /\ pc'[Ticker] = "snapshot" => own >= Interval(got[Ticker])]_vars

\* With settings the Nexus accepts, it holds the current data in the end: an older
\* snapshot that a slower push posts late is replaced.
NexusCatchesUp ==
    \A u \in Urls : <>[](url = u /\ token = TokenFor[u]) => <>[](nexus[u] = data)
=============================================================================
