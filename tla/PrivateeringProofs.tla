------------------------- MODULE PrivateeringProofs --------------------------
(***************************************************************************)
(* What holds of the push to Nexus for any settings, any number of clients *)
(* and of requests, and however often a read, a snapshot or a post fails.  *)
(***************************************************************************)
EXTENDS Privateering, TLAPS

Inputs == Raw \cup Urls \cup {None}
GotTokens == Tokens \cup {None, Keep}
GotIntervals == Intervals \cup {0}
Reading == [url: Inputs, token: GotTokens, interval: GotIntervals]

LEMMA LongestIsLargest ==
    /\ Longest \in Nat \ {0} /\ Never = Longest + 1
    /\ \A n \in Intervals \cup {DefaultInterval} : n \in Nat /\ Longest >= n
<1> DEFINE S == Intervals \cup {DefaultInterval}
<1>1. S \subseteq Nat /\ \E n \in S : \A m \in S : n >= m
  BY PrivateeringAssumption
<1>2. Longest \in S /\ \A m \in S : Longest >= m
  BY <1>1 DEF Longest
<1>3. Longest >= DefaultInterval /\ DefaultInterval \in Nat \ {0}
  BY <1>2, PrivateeringAssumption
<1> QED BY <1>1, <1>2, <1>3 DEF Never

-----------------------------------------------------------------------------
\* What the goroutines may do, whatever they are.
PusherStep(p) ==
    \/ GetUrl(p) \/ GetToken(p) \/ GetInterval(p) \/ SkipCheck(p) \/ StartPush(p)
    \/ TakeSnapshot(p) \/ Post(p) \/ PushFails(p)

PutStep(c) == PutUrl(c) \/ PutToken(c) \/ PutInterval(c) \/ PutFails(c)

LEMMA StepsOfNext ==
    ASSUME [Next]_vars
    PROVE  \/ Check \/ Pass \/ DataChanges \/ Restart \/ UNCHANGED vars
           \/ \E p \in Pushers : PushStep(p)
           \/ \E c \in Clients : PushNow(c) \/ AskPut(c) \/ PutStep(c)
BY DEF Next, Pushers, HandlerStep, PutStep

-----------------------------------------------------------------------------
Counters == requests \in 0 .. MaxRequests /\ faults \in 0 .. MaxFaults
Settings == url \in Urls \cup {None} /\ token \in Tokens \cup {None} /\ interval \in Intervals
Goroutines ==
    /\ pc \in [Pushers -> Steps] /\ got \in [Pushers -> Reading]
    /\ snap \in [Pushers -> Versions] /\ on \subseteq Pushers /\ met \subseteq Pushers

Types ==
    /\ Settings /\ Goroutines /\ Counters
    /\ data \in Versions /\ nexus \in [Urls -> Versions]
    /\ since \in 0 .. Never /\ own \in 0 .. Never

LEMMA TypeParts == Types <=> TypeOK
BY DEF Types, TypeOK, Settings, Goroutines, Counters, Reading, Inputs, GotTokens, GotIntervals

LEMMA BlankIsReading == Blank \in Reading
BY DEF Blank, Reading, Inputs, GotTokens, GotIntervals

LEMMA ZeroVersion == 0 \in Versions
BY PrivateeringAssumption DEF Versions

LEMMA CountersGrow ==
    ASSUME Counters, OneRequest \/ UNCHANGED requests, OneFault \/ UNCHANGED faults
    PROVE  Counters'
BY PrivateeringAssumption DEF Counters, OneRequest, OneFault

LEMMA GotoTyped ==
    ASSUME pc \in [Pushers -> Steps], NEW p \in Pushers, NEW step \in Steps, Goto(p, step)
    PROVE  pc' \in [Pushers -> Steps] /\ pc'[p] = step
           /\ \A q \in Pushers \ {p} : pc'[q] = pc[q]
BY DEF Goto

LEMMA DoneTyped ==
    ASSUME Goroutines, NEW p \in Pushers, Done(p), UNCHANGED <<on, met>>
    PROVE  Goroutines'
<1>1. pc' \in [Pushers -> Steps]
  BY GotoTyped DEF Done, Goroutines, Steps
<1>2. got' \in [Pushers -> Reading] /\ snap' \in [Pushers -> Versions]
  BY BlankIsReading, ZeroVersion DEF Done, Goroutines
<1> QED BY <1>1, <1>2 DEF Goroutines

LEMMA StartTyped ==
    ASSUME Goroutines, NEW p \in Pushers, Start(p), UNCHANGED <<got, snap>>
    PROVE  Goroutines'
<1>1. pc' \in [Pushers -> Steps]
  BY GotoTyped DEF Start, Goroutines, Steps
<1>2. on' \subseteq Pushers /\ met' \subseteq Pushers
  BY DEF Start, Goroutines
<1> QED BY <1>1, <1>2 DEF Goroutines

LEMMA PushStepTyped ==
    ASSUME Types, NEW p \in Pushers, PushStep(p)
    PROVE  Types'
<1> USE DEF Types
<1>1. Never \in Nat /\ 0 \in 0 .. Never
  BY LongestIsLargest
<1>2. CASE GetUrl(p)
  <2>1. pc' \in [Pushers -> Steps]
    BY <1>2, GotoTyped DEF GetUrl, Goroutines, Steps
  <2>2. got' \in [Pushers -> Reading]
    BY <1>2 DEF GetUrl, Goroutines, Settings, Reading, Inputs
  <2> QED BY <1>2, <2>1, <2>2 DEF GetUrl, rows, Goroutines, Settings, Counters
<1>3. CASE GetToken(p)
  <2>1. pc' \in [Pushers -> Steps]
    BY <1>3, GotoTyped DEF GetToken, Goroutines, Steps
  <2>2. got' \in [Pushers -> Reading]
    BY <1>3 DEF GetToken, Goroutines, Settings, Reading, GotTokens
  <2> QED BY <1>3, <2>1, <2>2 DEF GetToken, rows, Goroutines, Settings, Counters
<1>4. CASE GetInterval(p)
  <2>1. pc' \in [Pushers -> Steps]
    BY <1>4, GotoTyped DEF GetInterval, Goroutines, Steps
  <2>2. got' \in [Pushers -> Reading]
    BY <1>4 DEF GetInterval, Goroutines, Settings, Reading, GotIntervals
  <2> QED BY <1>4, <2>1, <2>2 DEF GetInterval, rows, Goroutines, Settings, Counters
<1>5. CASE SkipCheck(p)
  BY <1>5, DoneTyped DEF SkipCheck, rows, Settings, Counters
<1>6. CASE StartPush(p)
  <2>1. pc' \in [Pushers -> Steps]
    BY <1>6, GotoTyped DEF StartPush, Goroutines, Steps
  <2>2. since' \in 0 .. Never /\ own' \in 0 .. Never
    BY <1>1, <1>6 DEF StartPush
  <2> QED BY <1>6, <2>1, <2>2 DEF StartPush, rows, Goroutines, Settings, Counters
<1>7. CASE TakeSnapshot(p)
  <2>1. pc' \in [Pushers -> Steps]
    BY <1>7, GotoTyped DEF TakeSnapshot, Goroutines, Steps
  <2>2. snap' \in [Pushers -> Versions]
    BY <1>7 DEF TakeSnapshot, Goroutines
  <2> QED BY <1>7, <2>1, <2>2 DEF TakeSnapshot, rows, Goroutines, Settings, Counters
<1>8. CASE Post(p)
  <2>1. nexus' \in [Urls -> Versions]
    BY <1>8 DEF Post, Goroutines
  <2> QED BY <1>8, <2>1, DoneTyped DEF Post, rows, Settings, Counters
<1>9. CASE PushFails(p)
  BY <1>9, DoneTyped, CountersGrow DEF PushFails, rows, Settings
<1> QED BY <1>2, <1>3, <1>4, <1>5, <1>6, <1>7, <1>8, <1>9 DEF PushStep

-----------------------------------------------------------------------------
\* A handler that writes the settings writes what a client sent.
PutsInv ==
    \A p \in Pushers : pc[p] \in Puts => got[p].url \in Raw /\ got[p].interval \in Intervals

TypeInv == Types /\ PutsInv

\* A step of one goroutine leaves the place and the readings of the others alone.
OnlyOf(p) == \A q \in Pushers \ {p} : pc'[q] = pc[q] /\ got'[q] = got[q]

LEMMA PushStepIsOwn ==
    ASSUME Goroutines, NEW p \in Pushers, PushStep(p)
    PROVE  OnlyOf(p) /\ pc[p] \notin Puts /\ pc'[p] \notin Puts
BY DEF PushStep, GetUrl, GetToken, GetInterval, SkipCheck, StartPush, TakeSnapshot, Post,
       PushFails, Done, Goto, Goroutines, OnlyOf, Puts

LEMMA PutStepIsOwn ==
    ASSUME Goroutines, NEW c \in Pushers, PutStep(c)
    PROVE  /\ OnlyOf(c) /\ pc[c] \in Puts
           /\ pc'[c] \in Puts => got'[c] = got[c]
BY DEF PutStep, PutUrl, PutToken, PutInterval, PutFails, Done, Goto, Goroutines, OnlyOf, Puts

LEMMA OwnStepsPut ==
    ASSUME PutsInv, NEW p \in Pushers, OnlyOf(p),
           pc'[p] \in Puts => got'[p].url \in Raw /\ got'[p].interval \in Intervals
    PROVE  PutsInv'
BY DEF PutsInv, OnlyOf

LEMMA ClientsPush == Clients \subseteq Pushers /\ Ticker \in Pushers /\ Ticker \notin Clients
BY PrivateeringAssumption DEF Pushers

LEMMA PutTyped ==
    ASSUME TypeInv, NEW c \in Clients, PutStep(c)
    PROVE  TypeInv'
<1> USE DEF TypeInv, Types
<1>0. c \in Pushers
  BY ClientsPush
<1>1. got[c].url \in Raw /\ got[c].interval \in Intervals /\ got[c].token \in GotTokens
  BY <1>0, PutStepIsOwn DEF PutsInv, Goroutines, Reading
<1>2. PutsInv'
  <2>1. pc'[c] \in Puts => got'[c] = got[c]
    BY <1>0, PutStepIsOwn
  <2> QED BY <1>0, <1>1, <2>1, PutStepIsOwn, OwnStepsPut
<1>3. on \cup Checking \subseteq Pushers
  BY DEF Goroutines, Checking
<1>4. CASE PutUrl(c)
  <2>1. pc' \in [Pushers -> Steps]
    BY <1>0, <1>4, GotoTyped DEF PutUrl, Goroutines, Steps, Puts
  <2>2. Normalize[got[c].url] \in Urls \cup {None}
    BY <1>1, PrivateeringAssumption
  <2>3. url' \in Urls \cup {None} /\ token' = token /\ on' \subseteq Pushers
    BY <1>3, <1>4, <2>2 DEF PutUrl, Written, Goroutines
  <2> QED BY <1>2, <1>4, <2>1, <2>3 DEF PutUrl, Goroutines, Settings, Counters
<1>5. CASE PutToken(c)
  <2>1. pc' \in [Pushers -> Steps]
    BY <1>0, <1>5, GotoTyped DEF PutToken, Goroutines, Steps, Puts
  <2>2. url' = url /\ token' \in Tokens \cup {None} /\ on' \subseteq Pushers
    BY <1>1, <1>3, <1>5 DEF PutToken, Written, Goroutines, Settings, GotTokens
  <2> QED BY <1>2, <1>5, <2>1, <2>2 DEF PutToken, Goroutines, Settings, Counters
<1>6. CASE PutInterval(c)
  BY <1>0, <1>1, <1>2, <1>6, DoneTyped DEF PutInterval, Settings, Counters
<1>7. CASE PutFails(c)
  BY <1>0, <1>2, <1>7, DoneTyped, CountersGrow DEF PutFails, rows, Settings
<1> QED BY <1>4, <1>5, <1>6, <1>7 DEF PutStep

LEMMA AskTyped ==
    ASSUME TypeInv, NEW c \in Clients, AskPut(c)
    PROVE  TypeInv'
<1> USE DEF TypeInv, Types
<1>0. c \in Pushers
  BY ClientsPush
<1>1. pc' \in [Pushers -> Steps] /\ pc'[c] = "putUrl" /\ \A q \in Pushers \ {c} : pc'[q] = pc[q]
  BY <1>0, GotoTyped DEF AskPut, Goroutines, Steps, Puts
<1>2. PICK u \in Raw, t \in Tokens \cup {None, Keep}, i \in Intervals :
            got' = [got EXCEPT ![c] = [url |-> u, token |-> t, interval |-> i]]
  BY DEF AskPut
<1>3. [url |-> u, token |-> t, interval |-> i] \in Reading
  BY <1>2 DEF Reading, Inputs, GotTokens, GotIntervals
<1>4. got' \in [Pushers -> Reading]
  BY <1>2, <1>3 DEF Goroutines
<1>5. got'[c].url \in Raw /\ got'[c].interval \in Intervals
  BY <1>0, <1>2 DEF Goroutines
<1>6. OnlyOf(c)
  BY <1>0, <1>1, <1>2 DEF Goroutines, OnlyOf
<1>7. met' \subseteq Pushers
  BY DEF AskPut, Goroutines, Checking
<1>8. Counters'
  BY CountersGrow DEF AskPut
<1>9. PutsInv'
  BY <1>0, <1>5, <1>6, OwnStepsPut
<1> QED BY <1>1, <1>4, <1>7, <1>8, <1>9 DEF AskPut, rows, Goroutines, Settings

LEMMA StartsTyped ==
    ASSUME TypeInv, NEW p \in Pushers, Start(p),
           UNCHANGED <<rows, got, snap, since, own, data, nexus, faults>>,
           OneRequest \/ UNCHANGED requests
    PROVE  TypeInv'
<1> USE DEF TypeInv, Types
<1>1. Goroutines'
  BY StartTyped
<1>2. OnlyOf(p) /\ pc'[p] \notin Puts
  BY DEF Start, Goto, Goroutines, OnlyOf, Puts
<1>3. PutsInv'
  BY <1>2, OwnStepsPut
<1>4. Counters'
  BY CountersGrow
<1> QED BY <1>1, <1>3, <1>4 DEF rows, Settings

LEMMA NextTyped == TypeInv /\ [Next]_vars => TypeInv'
<1> SUFFICES ASSUME TypeInv, [Next]_vars PROVE TypeInv'
  OBVIOUS
<1> USE DEF TypeInv, Types
<1>0. /\ Never \in Nat /\ Longest \in Nat /\ Never = Longest + 1
      /\ Never \in 0 .. Never /\ 0 \in 0 .. Never
  BY LongestIsLargest
<1>1. CASE Check
  BY <1>1, ClientsPush, StartsTyped DEF Check
<1>2. CASE Pass
  <2>1. since' \in 0 .. Never /\ own' \in 0 .. Never
    BY <1>0, <1>2 DEF Pass
  <2> QED BY <1>2, <2>1 DEF Pass, rows, Settings, Goroutines, Counters, PutsInv
<1>3. CASE DataChanges
  <2>1. data' \in Versions
    BY <1>3, PrivateeringAssumption DEF DataChanges, Versions
  <2> QED BY <1>3, <2>1 DEF DataChanges, rows, Settings, Goroutines, Counters, PutsInv
<1>4. CASE Restart
  <2>1. Goroutines'
    BY <1>4, BlankIsReading, ZeroVersion DEF Restart, Goroutines, Steps
  <2>2. PutsInv'
    BY <1>4 DEF Restart, PutsInv, Puts
  <2>3. Counters'
    BY <1>4, CountersGrow DEF Restart
  <2> QED BY <1>0, <1>4, <2>1, <2>2, <2>3 DEF Restart, rows, Settings
<1>5. CASE UNCHANGED vars
  BY <1>5 DEF vars, rows, Settings, Goroutines, Counters, PutsInv
<1>6. ASSUME NEW p \in Pushers, PushStep(p) PROVE TypeInv'
  BY <1>6, PushStepTyped, PushStepIsOwn, OwnStepsPut
<1>7. ASSUME NEW c \in Clients, PushNow(c) \/ AskPut(c) \/ PutStep(c) PROVE TypeInv'
  BY <1>7, ClientsPush, StartsTyped, AskTyped, PutTyped DEF PushNow
<1> QED BY <1>1, <1>2, <1>3, <1>4, <1>5, <1>6, <1>7, StepsOfNext

LEMMA InitTypes == Init => TypeInv
<1> SUFFICES ASSUME Init PROVE TypeInv
  OBVIOUS
<1>1. Goroutines
  BY BlankIsReading, ZeroVersion DEF Init, Goroutines, Steps
<1>2. Never \in 0 .. Never
  BY LongestIsLargest
<1>3. Counters
  BY PrivateeringAssumption DEF Init, Counters
<1>4. PutsInv
  BY DEF Init, PutsInv, Puts
<1>5. nexus \in [Urls -> Versions] /\ data \in Versions
  BY ZeroVersion DEF Init
<1> QED BY <1>1, <1>2, <1>3, <1>4, <1>5 DEF Init, TypeInv, Types, Settings

\* Every row, reading and snapshot has its type; in particular a base URL is what is
\* stored, whichever of its forms is typed in.
THEOREM PushTypes == Spec => []TypeOK
<1>1. TypeInv => TypeOK
  BY TypeParts DEF TypeInv
<1> QED BY <1>1, InitTypes, NextTyped, PTL DEF Spec

-----------------------------------------------------------------------------
\* lastPush is never older than the ticker's last push, and is unset only while the
\* ticker has not pushed since the process began.
TimesInv == since <= own /\ (since = Never => own = Never)

LEMMA NextTimes == TypeInv /\ TimesInv /\ [Next]_vars => TimesInv'
<1> SUFFICES ASSUME TypeInv, TimesInv, [Next]_vars PROVE TimesInv'
  OBVIOUS
<1>0. /\ Never \in Nat \ {0} /\ Longest \in Nat /\ Never = Longest + 1
      /\ since \in 0 .. Never /\ own \in 0 .. Never
  BY LongestIsLargest DEF TypeInv, Types
<1>1. CASE Pass
  BY <1>0, <1>1 DEF Pass, TimesInv
<1>2. CASE Restart
  BY <1>0, <1>2 DEF Restart, TimesInv
<1>3. CASE UNCHANGED <<since, own>>
  BY <1>3 DEF TimesInv
<1>4. ASSUME NEW p \in Pushers, StartPush(p) PROVE TimesInv'
  BY <1>0, <1>4 DEF StartPush, TimesInv
<1>5. ASSUME NEW p \in Pushers, PushStep(p) PROVE UNCHANGED <<since, own>> \/ StartPush(p)
  BY <1>5 DEF PushStep, GetUrl, GetToken, GetInterval, SkipCheck, TakeSnapshot, Post, PushFails
<1>6. ASSUME NEW c \in Clients, PushNow(c) \/ AskPut(c) \/ PutStep(c)
      PROVE  UNCHANGED <<since, own>>
  BY <1>6 DEF PushNow, AskPut, PutStep, PutUrl, PutToken, PutInterval, PutFails
<1>7. CASE Check \/ DataChanges \/ UNCHANGED vars
  BY <1>3, <1>7 DEF Check, DataChanges, vars
<1> QED BY <1>1, <1>2, <1>3, <1>4, <1>5, <1>6, <1>7, StepsOfNext

TickerWaits == pc[Ticker] = "decide" /\ pc'[Ticker] = "snapshot" => own >= Interval(got[Ticker])

\* However the settings change, pushes fail and clients press "send now", the ticker
\* starts a push only when the interval it has read passed since the one before: the
\* checks of maybePush read lastPush, which every push sets before it begins.
THEOREM TickerIsSlow == Spec => TickerKeepsInterval
<1>1. Init => TimesInv
  BY LongestIsLargest DEF Init, TimesInv
<1>2. TypeInv /\ TimesInv /\ [Next]_vars => [TickerWaits]_vars
  <2> SUFFICES ASSUME TypeInv, TimesInv, [Next]_vars,
                      pc[Ticker] = "decide", pc'[Ticker] = "snapshot"
               PROVE  own >= Interval(got[Ticker])
    BY DEF TickerWaits
  <2>0. Ticker \in Pushers /\ Ticker \notin Clients /\ pc \in [Pushers -> Steps]
        /\ got \in [Pushers -> Reading]
    BY ClientsPush DEF TypeInv, Types, Goroutines
  <2>1. ASSUME NEW p \in Pushers, PushStep(p) PROVE p = Ticker /\ StartPush(p)
    <3>1. p = Ticker
      BY <2>0, <2>1, PushStepIsOwn DEF TypeInv, Types, OnlyOf
    <3>2. ~ (GetUrl(p) \/ GetToken(p) \/ GetInterval(p) \/ TakeSnapshot(p) \/ Post(p) \/ PushFails(p))
      BY <3>1 DEF GetUrl, GetToken, GetInterval, TakeSnapshot, Post, PushFails
    <3>3. ~ SkipCheck(p)
      BY <2>0, <3>1 DEF SkipCheck, Done, Goto
    <3> QED BY <2>1, <3>1, <3>2, <3>3 DEF PushStep
  <2>2. ASSUME NEW c \in Clients, PushNow(c) \/ AskPut(c) \/ PutStep(c) PROVE FALSE
    <3>1. c \in Pushers /\ c # Ticker
      BY <2>0, ClientsPush
    <3>2. pc'[Ticker] = pc[Ticker]
      BY <2>0, <2>2, <3>1, PutStepIsOwn
         DEF TypeInv, Types, OnlyOf, PushNow, Start, AskPut, Goto
    <3> QED BY <3>2
  <2>3. ~ (Check \/ Pass \/ DataChanges \/ Restart \/ UNCHANGED vars)
    BY <2>0 DEF Check, Pass, DataChanges, Restart, vars
  <2>4. StartPush(Ticker)
    BY <2>1, <2>2, <2>3, StepsOfNext
  <2>5. Due(got[Ticker])
    BY <2>4 DEF StartPush
  <2>6. Interval(got[Ticker]) \in Intervals \cup {DefaultInterval}
    BY <2>0 DEF Interval, Reading, GotIntervals
  <2>7. /\ Interval(got[Ticker]) \in Nat /\ Longest >= Interval(got[Ticker])
        /\ Longest \in Nat /\ Never = Longest + 1
        /\ since \in 0 .. Never /\ own \in 0 .. Never
    BY <2>6, LongestIsLargest DEF TypeInv, Types
  <2> QED BY <2>5, <2>7 DEF Due, TimesInv
<1>3. TickerKeepsInterval <=> [][TickerWaits]_vars
  BY DEF TickerKeepsInterval, TickerWaits
<1> QED BY <1>1, <1>2, <1>3, InitTypes, NextTyped, NextTimes, PTL DEF Spec

-----------------------------------------------------------------------------
\* A pusher that has seen no PUT and the push never enabled has read the rows as they
\* are, and they disable it.
ReadingInv ==
    \A p \in Checking \ (on \cup met) :
        /\ ~Writing /\ ~BothSet(url, token)
        /\ pc[p] \in {"getToken", "getInterval", "decide"} => got[p].url = url
        /\ pc[p] \in {"getInterval", "decide"} => got[p].token = token

LEMMA WritersReading ==
    ASSUME TypeInv, ReadingInv, NEW c \in Clients, AskPut(c) \/ PutStep(c)
    PROVE  ReadingInv'
<1>0. c \in Pushers /\ Goroutines
  BY ClientsPush DEF TypeInv, Types
<1>1. CASE AskPut(c)
  <2>1. met' = met \cup Checking
    BY <1>1 DEF AskPut
  <2>2. Checking' \subseteq Checking
    BY <1>0, <1>1 DEF AskPut, Goto, Checking, Goroutines
  <2> QED BY <2>1, <2>2 DEF ReadingInv
<1>2. CASE PutStep(c)
  <2>1. Writing
    BY <1>0, <1>2, PutStepIsOwn DEF Writing
  <2>2. Checking \subseteq on \cup met
    BY <2>1 DEF ReadingInv
  <2>3. on \subseteq on' /\ met' = met
    BY <1>2 DEF PutStep, PutUrl, PutToken, PutInterval, PutFails, Written
  <2>4. Checking' \subseteq Checking
    BY <1>0, <1>2 DEF PutStep, PutUrl, PutToken, PutInterval, PutFails, Done, Goto, Checking,
                      Goroutines
  <2> QED BY <2>2, <2>3, <2>4 DEF ReadingInv
<1> QED BY <1>1, <1>2

LEMMA StartsReading ==
    ASSUME TypeInv, ReadingInv, NEW p \in Pushers, pc[p] = "idle", Start(p),
           UNCHANGED <<url, token, got>>
    PROVE  ReadingInv'
<1>1. pc' = [pc EXCEPT ![p] = "getUrl"] /\ pc \in [Pushers -> Steps]
  BY DEF Start, Goto, TypeInv, Types, Goroutines
<1>2. Writing' <=> Writing
  BY <1>1, ClientsPush DEF Writing, Puts
<1>3. ASSUME NEW q \in Checking' \ (on' \cup met'), q # p
      PROVE  q \in Checking \ (on \cup met) /\ pc'[q] = pc[q]
  BY <1>1, <1>3 DEF Start, Checking
<1>4. p \notin on' \cup met' => ~Writing /\ ~BothSet(url, token)
  BY DEF Start
<1>5. pc'[p] = "getUrl"
  BY <1>1
<1>6. ASSUME NEW q \in Checking' \ (on' \cup met')
      PROVE  /\ ~Writing' /\ ~BothSet(url, token)'
             /\ pc'[q] \in {"getToken", "getInterval", "decide"} => got'[q].url = url'
             /\ pc'[q] \in {"getInterval", "decide"} => got'[q].token = token'
  <2>1. CASE q = p
    BY <1>2, <1>4, <1>5, <1>6, <2>1 DEF BothSet
  <2>2. CASE q # p
    BY <1>2, <1>3, <2>2 DEF ReadingInv, BothSet
  <2> QED BY <2>1, <2>2
<1> QED BY <1>6 DEF ReadingInv

LEMMA PushersReading ==
    ASSUME TypeInv, ReadingInv, NEW p \in Pushers, PushStep(p)
    PROVE  ReadingInv'
<1>0. Goroutines /\ UNCHANGED <<url, token, on, met>> /\ OnlyOf(p) /\ pc[p] \notin Puts /\ pc'[p] \notin Puts
  <2>1. Goroutines
    BY DEF TypeInv, Types
  <2>2. UNCHANGED <<url, token, on, met>>
    BY DEF PushStep, GetUrl, GetToken, GetInterval, SkipCheck, StartPush, TakeSnapshot, Post,
           PushFails, rows
  <2> QED BY <2>1, <2>2, PushStepIsOwn
<1>1. Writing' => Writing
  BY <1>0, ClientsPush DEF Writing, OnlyOf
<1>2. ASSUME p \in Checking'
      PROVE  /\ p \in Checking
             /\ pc'[p] \in {"getToken", "getInterval", "decide"}
             /\ got'[p].url = IF pc[p] = "getUrl" THEN url ELSE got[p].url
             /\ pc'[p] \in {"getInterval", "decide"} =>
                  /\ pc[p] # "getUrl"
                  /\ got'[p].token = IF pc[p] = "getToken" THEN token ELSE got[p].token
  <2>1. CASE GetUrl(p)
    BY <1>0, <2>1 DEF GetUrl, Goto, Goroutines, Reading, Checking
  <2>2. CASE GetToken(p)
    BY <1>0, <2>2 DEF GetToken, Goto, Goroutines, Reading, Checking
  <2>3. CASE GetInterval(p)
    BY <1>0, <2>3 DEF GetInterval, Goto, Goroutines, Reading, Checking
  <2>4. CASE SkipCheck(p) \/ StartPush(p) \/ TakeSnapshot(p) \/ Post(p) \/ PushFails(p)
    BY <1>0, <1>2, <2>4 DEF SkipCheck, StartPush, TakeSnapshot, Post, PushFails, Done, Goto,
                            Goroutines, Checking
  <2> QED BY <2>1, <2>2, <2>3, <2>4 DEF PushStep
<1>3. ASSUME NEW q \in Checking' \ (on' \cup met')
      PROVE  /\ q \in Checking \ (on \cup met)
             /\ pc'[q] \in {"getToken", "getInterval", "decide"} => got'[q].url = url'
             /\ pc'[q] \in {"getInterval", "decide"} => got'[q].token = token'
  <2>1. CASE q = p
    <3>1. q \in Checking \ (on \cup met)
      BY <1>0, <1>2, <1>3, <2>1
    <3>2. pc[q] \in {"getUrl", "getToken", "getInterval", "decide"}
      BY <3>1 DEF Checking
    <3> QED BY <1>0, <1>2, <1>3, <2>1, <3>1, <3>2 DEF ReadingInv
  <2>2. CASE q # p
    BY <1>0, <1>3, <2>2 DEF ReadingInv, OnlyOf, Checking
  <2> QED BY <2>1, <2>2
<1> QED BY <1>0, <1>1, <1>3 DEF ReadingInv, BothSet

LEMMA NextReading == TypeInv /\ ReadingInv /\ [Next]_vars => ReadingInv'
<1> SUFFICES ASSUME TypeInv, ReadingInv, [Next]_vars PROVE ReadingInv'
  OBVIOUS
<1>1. CASE Check
  BY <1>1, ClientsPush, StartsReading DEF Check, rows
<1>2. CASE Pass \/ DataChanges \/ UNCHANGED vars
  BY <1>2 DEF Pass, DataChanges, vars, rows, ReadingInv, Checking, Writing, BothSet
<1>3. CASE Restart
  BY <1>3 DEF Restart, ReadingInv, Checking
<1>4. ASSUME NEW c \in Clients, PushNow(c) PROVE ReadingInv'
  BY <1>4, ClientsPush, StartsReading DEF PushNow, rows
<1> QED BY <1>1, <1>2, <1>3, <1>4, PushersReading, WritersReading, StepsOfNext

SeenEnabled == \A p \in Pushers : pc[p] = "decide" /\ pc'[p] = "snapshot" => p \in on \cup met

\* No push starts while every PUT left the push disabled, nor on a mixture of the rows
\* of two settings nobody was writing: Enabled is asked of what one pass over the rows read,
\* and without a PUT in between the rows were like that when it began.
THEOREM DisabledSendsNothing == Spec => DisabledIsSilent
<1>1. Init => ReadingInv
  BY DEF Init, ReadingInv, Checking
<1>2. TypeInv /\ ReadingInv /\ [Next]_vars => [SeenEnabled]_vars
  <2> SUFFICES ASSUME TypeInv, ReadingInv, [Next]_vars, NEW p \in Pushers,
                      pc[p] = "decide", pc'[p] = "snapshot"
               PROVE  p \in on \cup met
    BY DEF SeenEnabled
  <2>0. Goroutines /\ p \in Checking
    BY DEF TypeInv, Types, Checking
  <2>1. ASSUME NEW q \in Pushers, PushStep(q) PROVE p \in on \cup met
    <3>1. q = p
      BY <2>0, <2>1, PushStepIsOwn DEF OnlyOf
    <3>2. ~ (GetUrl(p) \/ GetToken(p) \/ GetInterval(p) \/ TakeSnapshot(p) \/ Post(p) \/ PushFails(p))
      BY DEF GetUrl, GetToken, GetInterval, TakeSnapshot, Post, PushFails
    <3>3. ~ SkipCheck(p)
      BY <2>0 DEF SkipCheck, Done, Goto, Goroutines
    <3>4. Enabled(got[p])
      BY <2>1, <3>1, <3>2, <3>3 DEF PushStep, StartPush
    <3> QED BY <2>0, <3>4 DEF ReadingInv, Enabled, BothSet
  <2>2. ASSUME NEW c \in Clients, PushNow(c) \/ AskPut(c) \/ PutStep(c) PROVE FALSE
    <3>1. c \in Pushers
      BY ClientsPush
    <3>2. pc'[c] = "snapshot" => pc[c] # "decide"
      BY <2>0, <2>2, <3>1 DEF PushNow, AskPut, PutStep, PutUrl, PutToken, PutInterval, PutFails,
                              Puts
    <3>3. c # p => pc'[p] = pc[p]
      BY <2>0, <2>2, <3>1, PutStepIsOwn DEF OnlyOf, PushNow, Start, AskPut, Goto, Goroutines
    <3> QED BY <3>2, <3>3
  <2>3. ~ (Pass \/ DataChanges \/ Restart \/ UNCHANGED vars)
    BY <2>0 DEF Pass, DataChanges, Restart, vars, Goroutines
  <2>4. ~ Check
    BY <2>0 DEF Check, Start, Goto, Goroutines
  <2> QED BY <2>1, <2>2, <2>3, <2>4, StepsOfNext
<1>3. DisabledIsSilent <=> [][SeenEnabled]_vars
  BY DEF DisabledIsSilent, SeenEnabled
<1> QED BY <1>1, <1>2, <1>3, InitTypes, NextTyped, NextReading, PTL DEF Spec
=============================================================================
