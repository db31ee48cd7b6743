------------------------------ MODULE DeskProofs ------------------------------
(***************************************************************************)
(* Theorems about the nine machines of the desk: what is deep of six of    *)
(* them (the census of the scan of closed bars, the rows of the account    *)
(* monitor, the news gate, the start and stop of the loop, the order of an *)
(* entry, the closing of the other brokers' accounts), then the types of   *)
(* all, and that a run of the desk is a run of each.  They hold for any    *)
(* feed, calendar, prices, number of accounts, callers, sockets and        *)
(* presses, and for any failure the actions allow.                         *)
(***************************************************************************)
EXTENDS MCDesk, SumLemmas

-----------------------------------------------------------------------------
(* The scan of closed bars.  A bar is scanned when it is the newest, so    *)
(* scans go forward in time over all runs: the date of a census lies       *)
(* behind the bar under scan, and its bars have all closed and are neither *)
(* evaluated nor excused any more.                                         *)

\* The newest of some bars.
LEMMA MaxOfBars ==
  ASSUME NEW n \in Nat, NEW S, S \subseteq 0..n, S # {}
  PROVE  Max(S) \in S /\ \A y \in S : y <= Max(S)
<1> DEFINE T == {n - b : b \in S}
<1>0. PICK a \in S : TRUE
  OBVIOUS
<1>1. T \subseteq Nat /\ n - a \in T
  BY <1>0
<1>2. PICK x \in T : \A y \in T : x <= y
  BY <1>1, Least
<1>3. PICK b \in S : x = n - b
  BY <1>2
<1>4. \A y \in S : b >= y
  <2> TAKE y \in S
  <2>1. n - y \in T
    OBVIOUS
  <2>2. n - b <= n - y
    BY <1>2, <1>3, <2>1
  <2>3. b \in Int /\ y \in Int
    OBVIOUS
  <2> QED BY <2>2, <2>3
<1>5. \E m \in S : \A y \in S : m >= y
  BY <1>4
<1>6. Max(S) \in S /\ \A y \in S : Max(S) >= y
  BY <1>5, Zenon DEF Max
<1> QED BY <1>6

\* The dates follow the bars.
LEMMA DatesGrow == ASSUME NEW a \in Nat, NEW b \in Nat, a <= b PROVE DateOf(a) <= DateOf(b)
  BY ScanAssumption DEF DateOf

\* A date is a natural.
LEMMA DateIsNat == ASSUME NEW b \in Nat PROVE DateOf(b) \in Nat
  BY ScanAssumption DEF DateOf

\* A bar of the feed with a date that is not before d.
Reaches(d) == \E b \in FeedBars : DateOf(b) >= d

\* The date of a census, written or to be written, lies behind the bar under scan.
ScanInv ==
  /\ lastClosed \in 0..LastBar
  /\ scanned \in FeedBars \union {Unscanned} /\ (stage # "poll" => scanned \in FeedBars)
  /\ evaluated \subseteq FeedBars
  /\ censusDate \in Nat \union {Unscanned}
  /\ censusDate # Unscanned =>
       Reaches(censusDate) /\ (scanned # Unscanned => DateOf(scanned) >= censusDate)
  /\ \A c \in censuses :
       /\ c.date \in Nat /\ Reaches(c.date + 1)
       /\ scanned # Unscanned => DateOf(scanned) > c.date
  /\ CensusIsTrue

\* The bars of a day the feed will ever serve.
FullDay(date) == {b \in (0..LastBar) \ lacking : DateOf(b) = date}

\* All of a day that is past has closed.
LEMMA DayIsOver ==
  ASSUME lastClosed \in 0..LastBar, NEW date \in Nat, NEW b \in FeedBars, DateOf(b) > date
  PROVE  BarsOfDay(date) = FullDay(date)
<1>1. \A x \in (0..LastBar) : DateOf(x) = date => x <= lastClosed
  <2> SUFFICES ASSUME NEW x \in 0..LastBar, DateOf(x) = date, ~ (x <= lastClosed) PROVE FALSE
    OBVIOUS
  <2>1. b \in Nat /\ x \in Nat /\ b <= x
    BY ScanAssumption DEF FeedBars
  <2>2. DateOf(b) <= DateOf(x)
    BY <2>1, DatesGrow
  <2> QED BY <2>1, <2>2, DateIsNat
<1>2. FullDay(date) \subseteq BarsOfDay(date)
  BY <1>1, ScanAssumption DEF FullDay, BarsOfDay, FeedBars
<1>3. BarsOfDay(date) \subseteq FullDay(date)
  BY ScanAssumption DEF FullDay, BarsOfDay, FeedBars
<1> QED BY <1>2, <1>3

\* The count of a set of bars is 0 when it is empty, and then only.
LEMMA CountOfBars ==
  ASSUME NEW S, S \subseteq 0..LastBar
  PROVE  Cardinality(S) \in Nat /\ (Cardinality(S) = 0 <=> S = {})
<1>1. IsFiniteSet(0..LastBar)
  BY ScanAssumption, FS_Interval
<1>2. IsFiniteSet(S)
  BY <1>1, FS_Subset
<1> QED BY <1>2, FS_EmptySet, FS_CardinalityType

\* The census of a day that is past reconciles when all its bars have an evaluation.
LEMMA CensusTells ==
  ASSUME lastClosed \in 0..LastBar, evaluated \subseteq FeedBars,
         NEW date \in Nat, NEW b \in FeedBars, DateOf(b) > date
  PROVE  Reconciles(Census(date)) <=> FullDay(date) \subseteq evaluated
<1> DEFINE missing == BarsOfDay(date) \ Emitted(date)
           failed  == missing \intersect omissions
           unsaid  == missing \ (failed \union PolicyExcluded(date))
<1>1. BarsOfDay(date) = FullDay(date)
  BY DayIsOver
<1>2. BarsOfDay(date) \subseteq 0..LastBar /\ Emitted(date) \subseteq BarsOfDay(date)
  <2>1. FullDay(date) \subseteq 0..LastBar
    BY DEF FullDay
  <2> QED BY <1>1, <2>1 DEF BarsOfDay, Emitted
<1>3. missing = {} <=> FullDay(date) \subseteq evaluated
  BY <1>1 DEF Emitted, BarsOfDay
<1>4. missing = failed \union unsaid
  BY DEF PolicyExcluded
<1>5. failed \subseteq 0..LastBar /\ unsaid \subseteq 0..LastBar
  BY <1>2
<1>6. Census(date) = [date |-> date, observed |-> Cardinality(BarsOfDay(date)),
                      emitted |-> Cardinality(Emitted(date)), policy |-> 0,
                      failures |-> Cardinality(failed), unattributed |-> Cardinality(unsaid)]
  BY FS_EmptySet DEF Census, PolicyExcluded
<1>7. ASSUME Reconciles(Census(date)) PROVE missing = {}
  <2>1. Cardinality(failed) = 0 /\ Cardinality(unsaid) = 0
    BY <1>6, <1>7 DEF Reconciles
  <2>2. failed = {} /\ unsaid = {}
    BY <2>1, <1>5, CountOfBars
  <2> QED BY <2>2, <1>4
<1>8. ASSUME missing = {} PROVE Reconciles(Census(date))
  <2>1. failed = {} /\ unsaid = {}
    BY <1>8
  <2>2. Cardinality(failed) = 0 /\ Cardinality(unsaid) = 0
    BY <2>1, FS_EmptySet
  <2>3. Emitted(date) = BarsOfDay(date)
    BY <1>2, <1>8
  <2>4. Cardinality(BarsOfDay(date)) \in Nat
    BY <1>2, CountOfBars
  <2> QED BY <1>6, <2>2, <2>3, <2>4 DEF Reconciles
<1> QED BY <1>3, <1>7, <1>8

-----------------------------------------------------------------------------
\* Nothing is scanned at first.
LEMMA ScanInvInit == ScanInit => ScanInv
  BY ScanAssumption DEF ScanInit, ScanInv, CensusIsTrue, FeedBars, Unscanned

\* The newest bar is not before any other, so its date is not before any either.
LEMMA PollKeeps == ASSUME ScanInv, Poll PROVE ScanInv'
<1>1. /\ FeedBars # {} /\ scanned' = Max(FeedBars) /\ stage' = "gate"
      /\ UNCHANGED <<lastClosed, lacking, censusDate, omissions, evaluated, censuses>>
  BY DEF Poll, Go, Mark
<1>2. lastClosed \in Nat /\ FeedBars \subseteq 0..lastClosed
  BY ScanAssumption DEF ScanInv, FeedBars
<1>3. scanned' \in FeedBars /\ \A b \in FeedBars : b <= scanned'
  BY <1>1, <1>2, MaxOfBars
<1>4. \A b \in FeedBars : DateOf(b) \in Nat /\ DateOf(b) <= DateOf(scanned')
  BY <1>2, <1>3, DatesGrow, DateIsNat
<1>5. \A d \in Nat : Reaches(d) => DateOf(scanned') >= d
  BY <1>3, <1>4 DEF Reaches
<1>6. FeedBars' = FeedBars
  BY <1>1 DEF FeedBars
<1>7. \A d \in Nat : Reaches(d)' <=> Reaches(d)
  BY <1>6 DEF Reaches, DateOf
<1>8. censusDate # Unscanned => Reaches(censusDate)' /\ DateOf(scanned') >= censusDate
  BY <1>1, <1>5, <1>6 DEF ScanInv, Reaches
<1>9. \A c \in censuses : c.date \in Nat /\ Reaches(c.date + 1)' /\ DateOf(scanned') > c.date
  <2> TAKE c \in censuses
  <2>1. c.date \in Nat /\ c.date + 1 \in Nat /\ Reaches(c.date + 1)
    BY DEF ScanInv
  <2>2. DateOf(scanned') \in Nat /\ DateOf(scanned') >= c.date + 1
    BY <2>1, <1>3, <1>4, <1>5
  <2> QED BY <2>1, <2>2, <1>7
<1>10. CensusIsTrue'
  BY <1>1 DEF ScanInv, CensusIsTrue, DateOf, Reconciles
<1> QED
  BY <1>1, <1>3, <1>6, <1>8, <1>9, <1>10 DEF ScanInv, DateOf

\* A step that writes no census: what is scanned or evaluated lies after every date of one.
LEMMA QuietStep ==
  ASSUME ScanInv, lastClosed' \in lastClosed..LastBar, UNCHANGED <<lacking, censuses>>,
         scanned' \in {scanned, Unscanned}, stage' # "poll" => scanned' = scanned /\ stage # "poll",
         evaluated' \in {evaluated, evaluated \union {scanned}},
         evaluated' # evaluated => scanned # Unscanned,
         censusDate' \in {censusDate, Unscanned}
  PROVE  ScanInv'
<1>1. FeedBars \subseteq FeedBars' /\ FeedBars \subseteq Nat
  BY ScanAssumption DEF ScanInv, FeedBars
<1>2. \A d \in Nat : Reaches(d) => Reaches(d)'
  BY <1>1 DEF Reaches
<1>3. CensusIsTrue'
  <2> SUFFICES ASSUME NEW c \in censuses
               PROVE  Reconciles(c) <=> {b \in (0..LastBar) \ lacking : DateOf(b) = c.date} \subseteq evaluated'
    BY DEF CensusIsTrue
  <2>1. Reconciles(c) <=> {b \in (0..LastBar) \ lacking : DateOf(b) = c.date} \subseteq evaluated
    BY DEF ScanInv, CensusIsTrue
  <2>2. CASE evaluated' = evaluated
    BY <2>1, <2>2
  <2>3. CASE evaluated' # evaluated
    <3>1. evaluated' = evaluated \union {scanned} /\ scanned # Unscanned
      BY <2>3
    <3>2. DateOf(scanned) > c.date /\ c.date \in Nat /\ scanned \in Nat
      BY <3>1, <1>1 DEF ScanInv
    <3>3. DateOf(scanned) # c.date
      BY <3>2, DateIsNat
    <3> QED BY <2>1, <3>1, <3>3
  <2> QED BY <2>2, <2>3
<1>4. /\ lastClosed' \in 0..LastBar /\ evaluated' \subseteq FeedBars'
      /\ scanned' \in FeedBars' \union {Unscanned} /\ (stage' # "poll" => scanned' \in FeedBars')
      /\ censusDate' \in Nat \union {Unscanned}
  BY <1>1, ScanAssumption DEF ScanInv
<1>5. censusDate' # Unscanned =>
        Reaches(censusDate)' /\ (scanned' # Unscanned => DateOf(scanned') >= censusDate')
  <2> SUFFICES ASSUME censusDate' # Unscanned
               PROVE  Reaches(censusDate)' /\ (scanned' # Unscanned => DateOf(scanned') >= censusDate')
    OBVIOUS
  <2>1. censusDate' = censusDate /\ censusDate # Unscanned
    OBVIOUS
  <2>2. Reaches(censusDate) /\ (scanned # Unscanned => DateOf(scanned) >= censusDate)
    BY <2>1 DEF ScanInv
  <2>3. Reaches(censusDate)'
    BY <2>1, <2>2, <1>1 DEF Reaches
  <2> QED BY <2>1, <2>2, <2>3
<1>6. \A c \in censuses : /\ c.date \in Nat /\ Reaches(c.date + 1)'
                          /\ scanned' # Unscanned => DateOf(scanned') > c.date
  <2> TAKE c \in censuses
  <2>1. /\ c.date \in Nat /\ c.date + 1 \in Nat /\ Reaches(c.date + 1)
        /\ scanned # Unscanned => DateOf(scanned) > c.date
    BY DEF ScanInv
  <2> QED BY <2>1, <1>2
<1> QED
  BY <1>3, <1>4, <1>5, <1>6 DEF ScanInv

\* The census of a day is written under a bar of a later one.
LEMMA CensusKeeps == ASSUME ScanInv, MaybeEmitCensus PROVE ScanInv'
<1>1. /\ stage = "census" /\ stage' = "regate" /\ censusDate' = DateOf(scanned)
      /\ UNCHANGED <<lastClosed, lacking, scanned, evaluated>>
  BY DEF MaybeEmitCensus, Go
<1>2. scanned \in FeedBars /\ scanned \in Nat /\ scanned # Unscanned /\ DateOf(scanned) \in Nat
  BY <1>1, ScanAssumption, DateIsNat DEF ScanInv, FeedBars, Unscanned
<1>3. FeedBars' = FeedBars
  BY <1>1 DEF FeedBars
<1>4. ASSUME NEW c \in censuses'
      PROVE  c \in censuses \/ /\ c = Census(censusDate) /\ censusDate \in Nat
                               /\ DateOf(scanned) > censusDate
  <2>1. CASE censusDate \in {Unscanned, DateOf(scanned)}
    BY <2>1 DEF MaybeEmitCensus
  <2>2. CASE censusDate \notin {Unscanned, DateOf(scanned)}
    <3>1. censusDate \in Nat /\ DateOf(scanned) >= censusDate /\ DateOf(scanned) # censusDate
      BY <2>2, <1>2 DEF ScanInv
    <3>2. c \in censuses \/ c = Census(censusDate)
      BY <2>2 DEF MaybeEmitCensus, EmitCensus
    <3> QED BY <3>1, <3>2, <1>2
  <2> QED BY <2>1, <2>2
<1>5. ASSUME NEW c \in censuses'
      PROVE  /\ Reconciles(c) <=> {b \in (0..LastBar) \ lacking : DateOf(b) = c.date} \subseteq evaluated
             /\ c.date \in Nat /\ DateOf(scanned) > c.date
  <2>1. CASE c \in censuses
    BY <2>1, <1>2 DEF ScanInv, CensusIsTrue
  <2>2. CASE c = Census(censusDate) /\ censusDate \in Nat /\ DateOf(scanned) > censusDate
    <3>1. c.date = censusDate
      BY <2>2 DEF Census
    <3>2. Reconciles(c) <=> FullDay(censusDate) \subseteq evaluated
      BY <2>2, <1>2, CensusTells DEF ScanInv
    <3> QED BY <2>2, <3>1, <3>2 DEF FullDay
  <2> QED BY <1>4, <2>1, <2>2
<1>6. \A c \in censuses' : c.date \in Nat /\ Reaches(c.date + 1)' /\ DateOf(scanned') > c.date
  BY <1>1, <1>2, <1>3, <1>5 DEF Reaches
<1>7. Reaches(censusDate)' /\ DateOf(scanned') >= censusDate'
  BY <1>1, <1>2, <1>3 DEF Reaches
<1>8. CensusIsTrue'
  BY <1>1, <1>5 DEF CensusIsTrue
<1> QED
  BY <1>1, <1>2, <1>3, <1>6, <1>7, <1>8 DEF ScanInv

\* Every stage of a pass but the poll and the census is a step that writes no census.
LEMMA ScanInvNext == ScanInv /\ [ScanNext]_scanVars => ScanInv'
<1> SUFFICES ASSUME ScanInv, [ScanNext]_scanVars PROVE ScanInv'
  OBVIOUS
<1>0. lastClosed \in lastClosed..LastBar
  BY ScanAssumption DEF ScanInv
<1>1. CASE PassRaises
  BY <1>0, <1>1, QuietStep DEF PassRaises, EndPass, Go
<1>2. CASE ReadGate
  BY <1>0, <1>2, QuietStep DEF ReadGate, Go
<1>3. CASE ShadowEvaluate
  <2>1. scanned # Unscanned
    BY <1>3, ScanAssumption DEF ShadowEvaluate, ScanInv, FeedBars, Unscanned
  <2>2. evaluated' \in {evaluated, evaluated \union {scanned}}
    BY <1>3 DEF ShadowEvaluate
  <2>3. /\ stage = "shadow" /\ stage' = "census"
        /\ UNCHANGED <<lastClosed, lacking, scanned, censusDate, censuses>>
    BY <1>3 DEF ShadowEvaluate, Go
  <2> QED BY <1>0, <2>1, <2>2, <2>3, QuietStep
<1>4. CASE ReadGateAgain
  BY <1>0, <1>4, QuietStep DEF ReadGateAgain, EndPass, Go
<1>5. CASE DecideOnBar
  BY <1>0, <1>5, QuietStep DEF DecideOnBar, EndPass, Go
<1>6. CASE StartRun
  BY <1>0, <1>6, QuietStep DEF StartRun, EndPass, Go
<1>7. CASE BarPrints
  <2>1. lastClosed' \in lastClosed..LastBar
    BY <1>7, ScanAssumption DEF BarPrints, ScanInv
  <2> QED BY <1>7, <2>1, QuietStep DEF BarPrints
<1>8. CASE UNCHANGED scanVars
  BY <1>0, <1>8, QuietStep DEF scanVars
<1> QED
  BY <1>1, <1>2, <1>3, <1>4, <1>5, <1>6, <1>7, <1>8, PollKeeps, CensusKeeps DEF ScanNext

\* CensusIsTrue: a census reconciles exactly when every bar of its day that the feed serves has an
\* evaluation on record (build_scan_census, reconcile_one, _maybe_emit_census).
THEOREM CensusTrue == ScanSpec => []CensusIsTrue
<1>1. ScanInv => CensusIsTrue
  BY DEF ScanInv
<1> QED
  BY ScanInvInit, ScanInvNext, <1>1, PTL DEF ScanSpec

-----------------------------------------------------------------------------
(* The account monitor. *)

\* A pass that ends writes a row for every account, and says which it could not read.
LEMMA RowsWritten == ASSUME MonitorTellsLastPass, [MonitorNext]_monitorVars PROVE MonitorTellsLastPass'
<1>1. CASE SyncAll
  <2>1. PICK failed \in SUBSET Ids :
          /\ snapshots' = [i \in Ids |-> IF i \in failed THEN Unavailable ELSE SnapshotOf(i)]
          /\ unreached' = failed
    BY <1>1 DEF SyncAll, Commits
  <2>2. \A i \in Ids : SnapshotOf(i).state # "UNAVAILABLE"
    BY DEF SnapshotOf, ComputeComplianceState
  <2> QED BY <2>1, <2>2 DEF MonitorTellsLastPass, Unavailable
<1>2. CASE snapshots' = snapshots /\ unreached' = unreached
  BY <1>2 DEF MonitorTellsLastPass
<1> QED BY <1>1, <1>2 DEF MonitorNext, VenueMoves, SyncRaises, Reconcile, monitorVars

\* The history says of every account what the last pass that ended found, for any number of
\* accounts, whichever of them cannot be read.
THEOREM PassesAreTold == MonitorSpec => []MonitorTellsLastPass
<1>1. MonitorInit => MonitorTellsLastPass
  BY DEF MonitorInit, MonitorTellsLastPass, NoRow
<1> QED BY <1>1, RowsWritten, PTL DEF MonitorSpec

-----------------------------------------------------------------------------
(* The news gate. *)

\* What the provider posted of a day by a time.
PostedOn(day, t) == {e \in calendar : Day(e.at) = day /\ e.posted <= t /\ e.currency # "unlisted"}

\* An answer that was heard is the whole of what was posted.
Faithful(answer) == answer.answered => answer.events = PostedOn(answer.day, answer.read)

EventTimes == \A e \in calendar : e.at \in Nat

NewsInv == EventTimes /\ Faithful(cache) /\ QuietOnlyWhenQuiet

\* There is a close of a fifteen-minute candle within a grid step of any time.
LEMMA CloseInReach == ASSUME NEW t \in Nat PROVE \E m \in t..(t + M15Grid) : m % M15Grid = 0
<1>0. M15Grid \in Nat \ {0}
  BY NewsAssumption
<1> DEFINE q == t \div M15Grid + 1
           m == q * M15Grid
<1>1. t = M15Grid * (t \div M15Grid) + (t % M15Grid) /\ t % M15Grid \in 0..(M15Grid - 1) /\ t \div M15Grid \in Nat
  BY <1>0, Z3
<1>2. q \in Nat /\ m \in Nat /\ t + M15Grid = M15Grid * (t \div M15Grid) + M15Grid + (t % M15Grid)
  BY <1>0, <1>1
<1>3. m = M15Grid * (t \div M15Grid) + M15Grid
  BY <1>0, <1>1, Z3
<1>4. m \in t..(t + M15Grid)
  <2> HIDE DEF m
  <2> QED BY <1>0, <1>1, <1>2, <1>3
<1>5. m % M15Grid = 0
  <2> HIDE DEF q
  <2> QED BY <1>0, <1>2, Z3
<1> QED BY <1>4, <1>5

\* The cooldown ends no sooner than its minutes have passed.
LEMMA CooldownHolds == ASSUME NEW t \in Nat PROVE FirstM15Close(t) \in Nat /\ FirstM15Close(t) >= t
<1> DEFINE S == {m \in t..(t + M15Grid) : m % M15Grid = 0}
<1>0. M15Grid \in Nat
  BY NewsAssumption
<1>1. S \subseteq Nat /\ S # {}
  <2>1. PICK m \in t..(t + M15Grid) : m % M15Grid = 0
    BY CloseInReach
  <2>2. \A k \in t..(t + M15Grid) : k \in Nat
    BY <1>0
  <2> QED BY <2>1, <2>2
<1>2. \E x \in S : \A y \in S : x <= y
  BY <1>1, Least
<1>3. Min(S) \in S
  <2> HIDE DEF S
  <2> QED BY <1>2 DEF Min
<1> QED BY <1>0, <1>3 DEF FirstM15Close

\* A verdict from what was heard is quiet only outside the windows.
LEMMA VerdictIsQuiet ==
  ASSUME EventTimes, NEW t \in Nat, NEW answer, Faithful(answer), answer.day = Day(t),
         answer.answered, Verdict(t, answer).block = "none",
         NEW e \in calendar, e.currency = "USD", Blocks(e), Day(e.at) = Day(t), e.posted <= answer.read
  PROVE  t \notin (e.at - PreEvent)..(e.at + PostEvent - 1)
<1>1. e \in Scoped(answer.events)
  BY DEF Faithful, PostedOn, Scoped
<1>2. ~InPreWindow(e, t) /\ ~InPostWindow(e, t)
  BY <1>1 DEF Verdict
<1>3. e.at \in Nat /\ PreEvent \in Nat /\ PostEvent \in Nat
  BY NewsAssumption DEF EventTimes
<1>4. FirstPermitted(e) \in Nat /\ FirstPermitted(e) >= e.at + PostEvent
  BY <1>3, CooldownHolds DEF FirstPermitted
<1> QED BY <1>2, <1>3, <1>4 DEF InPreWindow, InPostWindow

\* The verdict is of the cached answer or of a fetch, and each is faithful.
LEMMA VerdictTaken == ASSUME NewsInv, now \in Nat, TakeVerdict PROVE NewsInv'
<1>1. PICK redis \in BOOLEAN, answers \in BOOLEAN :
        LET hit    == redis /\ Cached(Day(now))
            answer == IF hit THEN cache ELSE Fetched(Day(now), answers)
        IN  /\ context' = IF hasKey THEN Verdict(now, answer) ELSE [NoVerdict EXCEPT !.at = now]
            /\ cache' = IF hasKey /\ redis /\ ~hit THEN answer ELSE cache
            /\ UNCHANGED <<now, calendar, hasKey>>
  BY DEF TakeVerdict
<1> DEFINE hit    == redis /\ Cached(Day(now))
           answer == IF hit THEN cache ELSE Fetched(Day(now), answers)
<1>2. Faithful(Fetched(Day(now), answers)) /\ Fetched(Day(now), answers).day = Day(now)
  BY DEF Faithful, Fetched, PostedOn
<1>3. Faithful(answer) /\ answer.day = Day(now)
  BY <1>2 DEF NewsInv, Cached
<1> HIDE DEF answer, hit
<1>4. /\ context' = IF hasKey THEN Verdict(now, answer) ELSE [NoVerdict EXCEPT !.at = now]
      /\ cache' = answer \/ cache' = cache
      /\ calendar' = calendar /\ EventTimes
  BY <1>1 DEF answer, hit, NewsInv
<1>5. EventTimes' /\ Faithful(cache)'
  BY <1>3, <1>4 DEF EventTimes, Faithful, PostedOn, NewsInv
<1>6. QuietOnlyWhenQuiet'
  <2>1. CASE hasKey
    <3>1. context' = Verdict(now, answer) /\ context'.at = now /\ context'.from = answer
      BY <1>4, <2>1 DEF Verdict
    <3> SUFFICES ASSUME context'.block = "none", answer.answered, NEW e \in calendar,
                        e.currency = "USD", Blocks(e), Day(e.at) = Day(now), e.posted <= answer.read
                 PROVE  now \notin (e.at - PreEvent)..(e.at + PostEvent - 1)
      BY <1>4, <3>1 DEF QuietOnlyWhenQuiet
    <3> QED BY <1>3, <1>4, <3>1, VerdictIsQuiet
  <2>2. CASE ~hasKey
    BY <1>4, <2>2 DEF QuietOnlyWhenQuiet, NoVerdict
  <2> QED BY <2>1, <2>2
<1> QED BY <1>5, <1>6 DEF NewsInv

\* The day is read and refreshed only as it was posted.
LEMMA NewsKept == (now \in Nat /\ NewsInv) /\ [NewsNext]_newsVars => (now \in Nat /\ NewsInv)'
<1> SUFFICES ASSUME now \in Nat, NewsInv, [NewsNext]_newsVars PROVE now' \in Nat /\ NewsInv'
  OBVIOUS
<1>1. CASE TakeVerdict
  BY <1>1, VerdictTaken DEF TakeVerdict
<1>2. CASE RefreshCalendar
  <2>1. PICK a \in BOOLEAN : cache' \in {Fetched(Day(now), a), Empty, cache}
    BY <1>2 DEF RefreshCalendar
  <2>2. Faithful(Fetched(Day(now), a)) /\ Faithful(Empty)
    BY DEF Faithful, Fetched, PostedOn, Empty
  <2>3. Faithful(cache')
    BY <2>1, <2>2 DEF NewsInv
  <2> QED BY <1>2, <2>3 DEF RefreshCalendar, NewsInv, Faithful, PostedOn, EventTimes, QuietOnlyWhenQuiet
<1>3. CASE NewsMinute
  BY <1>3 DEF NewsMinute, NewsInv, Faithful, PostedOn, EventTimes, QuietOnlyWhenQuiet
<1>4. CASE UNCHANGED newsVars
  BY <1>4 DEF newsVars, NewsInv, Faithful, PostedOn, EventTimes, QuietOnlyWhenQuiet
<1> QED BY <1>1, <1>2, <1>3, <1>4 DEF NewsNext

\* "No blackout" is said only outside the windows of every event that was posted, for any
\* calendar, any windows and any life of the cache.
THEOREM QuietIsQuiet == NewsSpec => []QuietOnlyWhenQuiet
<1>1. NewsInit => now \in Nat /\ NewsInv
  BY NewsAssumption DEF NewsInit, NewsInv, EventTimes, Faithful, Empty, NoVerdict, QuietOnlyWhenQuiet
<1>2. NewsInv => QuietOnlyWhenQuiet
  BY DEF NewsInv
<1> QED BY <1>1, <1>2, NewsKept, PTL DEF NewsSpec

-----------------------------------------------------------------------------
(* Start and stop of the loop.  Where a press waits for the answer to the  *)
(* one before it, a running engine is whole and no trade leaves its run.   *)

\* The presses under way.
Busy == {p \in Presses : press[p] \notin {"unpressed", "answered"}}

\* One press is under way, and never while the engine runs.
Alone ==
    /\ \A p, q \in Busy : p = q
    /\ running => Busy = {}

\* What a start has made when it is about to run it.
Ready ==
    \A p \in Presses : press[p] = "connecting" =>
        openRuns = {runId} /\ runId \notin scanning

\* A task is named for a run that was made; an engine that does not run has cancelled all of them.
Tasks ==
    /\ scanning \subseteq 0..runsMade /\ runId \in 0..runsMade
    /\ ~running => scanning \subseteq cancelled

\* A position is the bound broker's and of the run that is open; it is there only while the
\* engine runs or a stop that will sweep it is under way.
Held ==
    /\ \A b \in Brokers : position[b] # 0 => b = paper /\ position[b] = runId
    /\ (\E b \in Brokers : position[b] # 0) =>
         running \/ \E p \in Presses : press[p] = "closing" \/ (press[p] = "joining" /\ was[p])
    /\ \A row \in filed : row[1] = row[2]

Whole == Alone /\ Ready /\ Tasks /\ Held /\ RunningIsWhole /\ paper \in hooked

LifecycleInv == LifecycleTypeOK /\ (OneAtATime => Whole)

\* The types at the start.
LEMMA InitType == LifecycleInit => LifecycleTypeOK
<1> SUFFICES ASSUME LifecycleInit PROVE LifecycleTypeOK
  OBVIOUS
<1>1. running \in BOOLEAN /\ paused \in BOOLEAN /\ was \in [Presses -> BOOLEAN]
  BY Zenon DEF LifecycleInit
<1>2. /\ runId \in Runs /\ task \in Runs /\ runsMade \in Runs /\ paper \in Brokers
      /\ deaths \in 0..MaxDeaths /\ openRuns \subseteq Runs /\ hooked \subseteq Brokers
  BY LifecycleAssumption DEF LifecycleInit, Runs, Brokers
<1>3. /\ cancelled \subseteq scanning /\ scanning \subseteq Runs /\ filed \subseteq Runs \X Runs
  BY DEF LifecycleInit
<1>4. /\ position \in [Brokers -> Runs] /\ mine \in [Presses -> Runs]
      /\ press \in [Presses -> PressStates]
  BY LifecycleAssumption DEF LifecycleInit, Runs, Brokers, PressStates
<1> QED BY <1>1, <1>2, <1>3, <1>4, Zenon DEF LifecycleTypeOK

\* No press is under way and nothing is held at first.
LEMMA InitWhole == LifecycleInit => Whole
  BY LifecycleAssumption DEF Whole, LifecycleInit, Alone, Busy, Ready, Tasks, Held, RunningIsWhole, Runs,
     Brokers

\* Every action keeps the types.
LEMMA TypeNext == LifecycleTypeOK /\ [LifecycleNext]_lifecycleVars => LifecycleTypeOK'
<1> SUFFICES ASSUME LifecycleTypeOK, [LifecycleNext]_lifecycleVars PROVE LifecycleTypeOK'
  OBVIOUS
<1>1. ASSUME NEW p \in Presses, Press(p) PROVE LifecycleTypeOK'
  BY <1>1, LifecycleAssumption DEF Press, May, To, LifecycleTypeOK, Runs, Brokers, PressStates,
     engineVars, loopVars, runVars, brokerVars
<1>2. ASSUME NEW p \in Presses, Rebind(p) PROVE LifecycleTypeOK'
  <2>1. paper' \in Brokers /\ hooked' \subseteq Brokers
    BY <1>2, LifecycleAssumption DEF Rebind, Brokers, LifecycleTypeOK
  <2>2. press' \in [Presses -> PressStates]
    BY <1>2 DEF Rebind, To, LifecycleTypeOK, PressStates
  <2> QED BY <1>2, <2>1, <2>2 DEF Rebind, LifecycleTypeOK, engineVars, loopVars, runVars
<1>3. ASSUME NEW p \in Presses, StartRaises(p) PROVE LifecycleTypeOK'
  BY <1>3, LifecycleAssumption DEF StartRaises, To, LifecycleTypeOK, Runs, Brokers, PressStates,
     engineVars, loopVars, runVars, brokerVars
<1>4. ASSUME NEW p \in Presses, OpenRun(p) PROVE LifecycleTypeOK'
  <2>1. runsMade' \in Runs /\ runId' \in Runs /\ openRuns' \subseteq Runs
    BY <1>4, LifecycleAssumption DEF OpenRun, Runs, LifecycleTypeOK
  <2>2. press' \in [Presses -> PressStates]
    BY <1>4 DEF OpenRun, To, LifecycleTypeOK, PressStates
  <2>3. paused' \in BOOLEAN /\ running' \in BOOLEAN
    BY <1>4, Zenon DEF OpenRun, LifecycleTypeOK
  <2> QED BY <1>4, <2>1, <2>2, <2>3 DEF OpenRun, LifecycleTypeOK, loopVars, brokerVars
<1>5. ASSUME NEW p \in Presses, Run(p) PROVE LifecycleTypeOK'
  BY <1>5, LifecycleAssumption DEF Run, To, LifecycleTypeOK, Runs, Brokers, PressStates, runVars,
     brokerVars
<1>6. ASSUME NEW p \in Presses, PressStop(p) PROVE LifecycleTypeOK'
  <2>1. task' \in Runs /\ mine' \in [Presses -> Runs] /\ cancelled' \subseteq scanning'
    BY <1>6, LifecycleAssumption DEF PressStop, Runs, LifecycleTypeOK
  <2>2. press' \in [Presses -> PressStates]
    BY <1>6 DEF PressStop, To, LifecycleTypeOK, PressStates
  <2>3. running' \in BOOLEAN /\ paused' \in BOOLEAN
    BY <1>6, Zenon DEF PressStop, LifecycleTypeOK
  <2>4. was' \in [Presses -> BOOLEAN]
    BY <1>6 DEF PressStop, LifecycleTypeOK
  <2> QED BY <1>6, <2>1, <2>2, <2>3, <2>4 DEF PressStop, LifecycleTypeOK, runVars, brokerVars
<1>7. ASSUME NEW p \in Presses, Joined(p) PROVE LifecycleTypeOK'
  BY <1>7, LifecycleAssumption DEF Joined, To, LifecycleTypeOK, Runs, Brokers, PressStates,
     loopVars, runVars, brokerVars
<1>8. ASSUME NEW p \in Presses, CloseAll(p) PROVE LifecycleTypeOK'
  <2>1. filed' \subseteq Runs \X Runs
    <3>1. runId \in Runs /\ paper \in Brokers /\ position \in [Brokers -> Runs]
      BY DEF LifecycleTypeOK
    <3>2. Settled(paper) \subseteq {<<position[paper], runId>>}
      BY DEF Settled
    <3> QED BY <1>8, <3>1, <3>2 DEF CloseAll, LifecycleTypeOK
  <2>3. position' \in [Brokers -> Runs]
    BY <1>8, LifecycleAssumption DEF CloseAll, LifecycleTypeOK, Runs
  <2>2. press' \in [Presses -> PressStates]
    BY <1>8 DEF CloseAll, To, LifecycleTypeOK, PressStates
  <2> QED BY <1>8, <2>1, <2>2, <2>3 DEF CloseAll, LifecycleTypeOK, engineVars, loopVars, runVars
<1>9. ASSUME NEW p \in Presses, EndRun(p) PROVE LifecycleTypeOK'
  BY <1>9, LifecycleAssumption DEF EndRun, To, LifecycleTypeOK, Runs, Brokers, PressStates,
     loopVars, brokerVars
<1>10. ASSUME NEW t \in scanning, LoopOpens(t) PROVE LifecycleTypeOK'
  BY <1>10, LifecycleAssumption DEF LoopOpens, LifecycleTypeOK, Runs, Brokers, PressStates,
     engineVars, loopVars, runVars, pressVars
<1>11. ASSUME NEW t \in scanning, LoopCloses(t) PROVE LifecycleTypeOK'
  <2>1. filed' \subseteq Runs \X Runs
    <3>1. runId \in Runs /\ paper \in Brokers /\ position \in [Brokers -> Runs]
      BY DEF LifecycleTypeOK
    <3>2. Settled(paper) \subseteq {<<position[paper], runId>>}
      BY DEF Settled
    <3> QED BY <1>11, <3>1, <3>2 DEF LoopCloses, LifecycleTypeOK
  <2>3. position' \in [Brokers -> Runs]
    BY <1>11, LifecycleAssumption DEF LoopCloses, LifecycleTypeOK, Runs
  <2> QED BY <1>11, <2>1, <2>3 DEF LoopCloses, LifecycleTypeOK, engineVars, loopVars, runVars, pressVars
<1>12. ASSUME NEW t \in scanning, LoopEnds(t) PROVE LifecycleTypeOK'
  BY <1>12, LifecycleAssumption DEF LoopEnds, LifecycleTypeOK, Runs, Brokers, PressStates,
     engineVars, runVars, brokerVars, pressVars
<1>13. CASE Pause
  BY <1>13, LifecycleAssumption DEF Pause, LifecycleTypeOK, Runs, Brokers, PressStates, loopVars,
     runVars, brokerVars, pressVars
<1>14. CASE Die
  <2>1. running' \in BOOLEAN /\ paused' \in BOOLEAN
    BY <1>14, Zenon DEF Die
  <2>2. /\ runId' \in Runs /\ task' \in Runs /\ deaths' \in 0..MaxDeaths
        /\ position' \in [Brokers -> Runs]
    BY <1>14, LifecycleAssumption DEF Die, Runs, LifecycleTypeOK
  <2>3. press' \in [Presses -> PressStates]
    BY <1>14 DEF Die, PressStates
  <2> QED BY <1>14, <2>1, <2>2, <2>3 DEF Die, LifecycleTypeOK, runVars
<1>15. CASE UNCHANGED lifecycleVars
  BY <1>15, LifecycleAssumption DEF lifecycleVars, LifecycleTypeOK, Runs, Brokers, PressStates,
     engineVars, loopVars, runVars, brokerVars, pressVars
<1> QED
  BY <1>1, <1>2, <1>3, <1>4, <1>5, <1>6, <1>7, <1>8, <1>9, <1>10, <1>11, <1>12, <1>13, <1>14, <1>15
     DEF LifecycleNext


\* A press is answered before the next one, and a start leaves the engine running only as
\* it is answered.
LEMMA AloneNext ==
  ASSUME OneAtATime, LifecycleTypeOK, Alone, [LifecycleNext]_lifecycleVars
  PROVE  Alone'
<1>1. ASSUME NEW p \in Presses, Press(p) PROVE Alone'
  BY <1>1, LifecycleAssumption DEF Press, May, To, LifecycleTypeOK, Alone, Busy, engineVars,
     loopVars, runVars, brokerVars
<1>2. ASSUME NEW p \in Presses, Rebind(p) PROVE Alone'
  BY <1>2, LifecycleAssumption DEF Rebind, To, LifecycleTypeOK, Alone, Busy, engineVars, loopVars,
     runVars
<1>3. ASSUME NEW p \in Presses, StartRaises(p) PROVE Alone'
  BY <1>3, LifecycleAssumption DEF StartRaises, To, LifecycleTypeOK, Alone, Busy, engineVars,
     loopVars, runVars, brokerVars
<1>4. ASSUME NEW p \in Presses, OpenRun(p) PROVE Alone'
  BY <1>4, LifecycleAssumption DEF OpenRun, To, LifecycleTypeOK, Alone, Busy, loopVars, brokerVars
<1>5. ASSUME NEW p \in Presses, Run(p) PROVE Alone'
  BY <1>5, LifecycleAssumption DEF Run, To, LifecycleTypeOK, Alone, Busy, runVars, brokerVars
<1>6. ASSUME NEW p \in Presses, PressStop(p) PROVE Alone'
  BY <1>6, LifecycleAssumption DEF PressStop, May, To, LifecycleTypeOK, Alone, Busy, runVars,
     brokerVars
<1>7. ASSUME NEW p \in Presses, Joined(p) PROVE Alone'
  BY <1>7, LifecycleAssumption DEF Joined, To, LifecycleTypeOK, Alone, Busy, loopVars, runVars,
     brokerVars
<1>8. ASSUME NEW p \in Presses, CloseAll(p) PROVE Alone'
  BY <1>8, LifecycleAssumption DEF CloseAll, To, Settled, LifecycleTypeOK, Alone, Busy, engineVars,
     loopVars, runVars
<1>9. ASSUME NEW p \in Presses, EndRun(p) PROVE Alone'
  BY <1>9, LifecycleAssumption DEF EndRun, To, LifecycleTypeOK, Alone, Busy, loopVars, brokerVars
<1>10. ASSUME NEW t \in scanning, LoopOpens(t) PROVE Alone'
  BY <1>10, LifecycleAssumption DEF LoopOpens, LifecycleTypeOK, Alone, Busy, engineVars, loopVars,
     runVars, pressVars
<1>11. ASSUME NEW t \in scanning, LoopCloses(t) PROVE Alone'
  BY <1>11, LifecycleAssumption DEF LoopCloses, Settled, LifecycleTypeOK, Alone, Busy, engineVars,
     loopVars, runVars, pressVars
<1>12. ASSUME NEW t \in scanning, LoopEnds(t) PROVE Alone'
  BY <1>12, LifecycleAssumption DEF LoopEnds, LifecycleTypeOK, Alone, Busy, engineVars, runVars,
     brokerVars, pressVars
<1>13. CASE Pause
  BY <1>13 DEF Pause, LifecycleTypeOK, Alone, Busy, loopVars, runVars, brokerVars, pressVars
<1>14. CASE Die
  BY <1>14 DEF Die, LifecycleTypeOK, Alone, Busy, runVars
<1>15. CASE UNCHANGED lifecycleVars
  BY <1>15 DEF lifecycleVars, LifecycleTypeOK, Alone, Busy, engineVars, loopVars, runVars,
     brokerVars, pressVars
<1> QED
  BY <1>1, <1>2, <1>3, <1>4, <1>5, <1>6, <1>7, <1>8, <1>9, <1>10, <1>11, <1>12, <1>13, <1>14, <1>15
     DEF LifecycleNext

\* The bound broker's events reach the engine: a broker is hooked as it is bound.
LEMMA HookedNext ==
  ASSUME OneAtATime, LifecycleTypeOK, paper \in hooked, [LifecycleNext]_lifecycleVars
  PROVE  (paper \in hooked)'
<1>1. ASSUME NEW p \in Presses, Press(p) PROVE (paper \in hooked)'
  BY <1>1, LifecycleAssumption DEF Press, May, To, LifecycleTypeOK, Brokers, engineVars, loopVars,
     runVars, brokerVars
<1>2. ASSUME NEW p \in Presses, Rebind(p) PROVE (paper \in hooked)'
  BY <1>2, LifecycleAssumption DEF Rebind, To, LifecycleTypeOK, Brokers, engineVars, loopVars,
     runVars
<1>3. ASSUME NEW p \in Presses, StartRaises(p) PROVE (paper \in hooked)'
  BY <1>3, LifecycleAssumption DEF StartRaises, To, LifecycleTypeOK, Brokers, engineVars, loopVars,
     runVars, brokerVars
<1>4. ASSUME NEW p \in Presses, OpenRun(p) PROVE (paper \in hooked)'
  BY <1>4, LifecycleAssumption DEF OpenRun, To, LifecycleTypeOK, Brokers, loopVars, brokerVars
<1>5. ASSUME NEW p \in Presses, Run(p) PROVE (paper \in hooked)'
  BY <1>5, LifecycleAssumption DEF Run, To, LifecycleTypeOK, Brokers, runVars, brokerVars
<1>6. ASSUME NEW p \in Presses, PressStop(p) PROVE (paper \in hooked)'
  BY <1>6, LifecycleAssumption DEF PressStop, May, To, LifecycleTypeOK, Brokers, runVars, brokerVars
<1>7. ASSUME NEW p \in Presses, Joined(p) PROVE (paper \in hooked)'
  BY <1>7, LifecycleAssumption DEF Joined, To, LifecycleTypeOK, Brokers, loopVars, runVars,
     brokerVars
<1>8. ASSUME NEW p \in Presses, CloseAll(p) PROVE (paper \in hooked)'
  BY <1>8, LifecycleAssumption DEF CloseAll, To, Settled, LifecycleTypeOK, Brokers, engineVars,
     loopVars, runVars
<1>9. ASSUME NEW p \in Presses, EndRun(p) PROVE (paper \in hooked)'
  BY <1>9, LifecycleAssumption DEF EndRun, To, LifecycleTypeOK, Brokers, loopVars, brokerVars
<1>10. ASSUME NEW t \in scanning, LoopOpens(t) PROVE (paper \in hooked)'
  BY <1>10, LifecycleAssumption DEF LoopOpens, LifecycleTypeOK, Brokers, engineVars, loopVars,
     runVars, pressVars
<1>11. ASSUME NEW t \in scanning, LoopCloses(t) PROVE (paper \in hooked)'
  BY <1>11, LifecycleAssumption DEF LoopCloses, Settled, LifecycleTypeOK, Brokers, engineVars,
     loopVars, runVars, pressVars
<1>12. ASSUME NEW t \in scanning, LoopEnds(t) PROVE (paper \in hooked)'
  BY <1>12, LifecycleAssumption DEF LoopEnds, LifecycleTypeOK, Brokers, engineVars, runVars,
     brokerVars, pressVars
<1>13. CASE Pause
  BY <1>13 DEF Pause, LifecycleTypeOK, Brokers, loopVars, runVars, brokerVars, pressVars
<1>14. CASE Die
  BY <1>14 DEF Die, LifecycleTypeOK, Brokers, runVars
<1>15. CASE UNCHANGED lifecycleVars
  BY <1>15 DEF lifecycleVars, LifecycleTypeOK, Brokers, engineVars, loopVars, runVars, brokerVars,
     pressVars
<1> QED
  BY <1>1, <1>2, <1>3, <1>4, <1>5, <1>6, <1>7, <1>8, <1>9, <1>10, <1>11, <1>12, <1>13, <1>14, <1>15
     DEF LifecycleNext

\* A stop cancels the task it leaves behind.
LEMMA TasksNext ==
  ASSUME OneAtATime, LifecycleTypeOK, Tasks, Alone, RunningIsWhole,
         [LifecycleNext]_lifecycleVars
  PROVE  Tasks'
<1>1. ASSUME NEW p \in Presses, Press(p) PROVE Tasks'
  BY <1>1, LifecycleAssumption DEF Press, May, To, LifecycleTypeOK, Tasks, Runs, Alone, Busy,
     RunningIsWhole, engineVars, loopVars, runVars, brokerVars
<1>2. ASSUME NEW p \in Presses, Rebind(p) PROVE Tasks'
  BY <1>2, LifecycleAssumption DEF Rebind, To, LifecycleTypeOK, Tasks, Runs, Alone, Busy,
     RunningIsWhole, engineVars, loopVars, runVars
<1>3. ASSUME NEW p \in Presses, StartRaises(p) PROVE Tasks'
  BY <1>3, LifecycleAssumption DEF StartRaises, To, LifecycleTypeOK, Tasks, Runs, Alone, Busy,
     RunningIsWhole, engineVars, loopVars, runVars, brokerVars
<1>4. ASSUME NEW p \in Presses, OpenRun(p) PROVE Tasks'
  BY <1>4, LifecycleAssumption DEF OpenRun, To, LifecycleTypeOK, Tasks, Runs, Alone, Busy,
     RunningIsWhole, loopVars, brokerVars
<1>5. ASSUME NEW p \in Presses, Run(p) PROVE Tasks'
  BY <1>5, LifecycleAssumption DEF Run, To, LifecycleTypeOK, Tasks, Runs, Alone, Busy,
     RunningIsWhole, runVars, brokerVars
<1>6. ASSUME NEW p \in Presses, PressStop(p) PROVE Tasks'
  BY <1>6, LifecycleAssumption DEF PressStop, May, To, LifecycleTypeOK, Tasks, Runs, Alone, Busy,
     RunningIsWhole, runVars, brokerVars
<1>7. ASSUME NEW p \in Presses, Joined(p) PROVE Tasks'
  BY <1>7, LifecycleAssumption DEF Joined, To, LifecycleTypeOK, Tasks, Runs, Alone, Busy,
     RunningIsWhole, loopVars, runVars, brokerVars
<1>8. ASSUME NEW p \in Presses, CloseAll(p) PROVE Tasks'
  BY <1>8, LifecycleAssumption DEF CloseAll, To, Settled, LifecycleTypeOK, Tasks, Runs, Alone, Busy,
     RunningIsWhole, engineVars, loopVars, runVars
<1>9. ASSUME NEW p \in Presses, EndRun(p) PROVE Tasks'
  BY <1>9, LifecycleAssumption DEF EndRun, To, LifecycleTypeOK, Tasks, Runs, Alone, Busy,
     RunningIsWhole, loopVars, brokerVars
<1>10. ASSUME NEW t \in scanning, LoopOpens(t) PROVE Tasks'
  BY <1>10, LifecycleAssumption DEF LoopOpens, LifecycleTypeOK, Tasks, Runs, Alone, Busy,
     RunningIsWhole, engineVars, loopVars, runVars, pressVars
<1>11. ASSUME NEW t \in scanning, LoopCloses(t) PROVE Tasks'
  BY <1>11, LifecycleAssumption DEF LoopCloses, Settled, LifecycleTypeOK, Tasks, Runs, Alone, Busy,
     RunningIsWhole, engineVars, loopVars, runVars, pressVars
<1>12. ASSUME NEW t \in scanning, LoopEnds(t) PROVE Tasks'
  BY <1>12, LifecycleAssumption DEF LoopEnds, LifecycleTypeOK, Tasks, Runs, Alone, Busy,
     RunningIsWhole, engineVars, runVars, brokerVars, pressVars
<1>13. CASE Pause
  BY <1>13 DEF Pause, LifecycleTypeOK, Tasks, Runs, Alone, Busy, RunningIsWhole, loopVars, runVars,
     brokerVars, pressVars
<1>14. CASE Die
  BY <1>14 DEF Die, LifecycleTypeOK, Tasks, Runs, Alone, Busy, RunningIsWhole, runVars
<1>15. CASE UNCHANGED lifecycleVars
  BY <1>15 DEF lifecycleVars, LifecycleTypeOK, Tasks, Runs, Alone, Busy, RunningIsWhole, engineVars,
     loopVars, runVars, brokerVars, pressVars
<1> QED
  BY <1>1, <1>2, <1>3, <1>4, <1>5, <1>6, <1>7, <1>8, <1>9, <1>10, <1>11, <1>12, <1>13, <1>14, <1>15
     DEF LifecycleNext

\* Between the run row and the task of a start nothing else opens or closes a run.
LEMMA ReadyNext ==
  ASSUME OneAtATime, LifecycleTypeOK, Ready, Tasks, Alone, [LifecycleNext]_lifecycleVars
  PROVE  Ready'
<1>1. ASSUME NEW p \in Presses, Press(p) PROVE Ready'
  BY <1>1, LifecycleAssumption DEF Press, May, To, LifecycleTypeOK, Ready, Runs, Tasks, Alone, Busy,
     engineVars, loopVars, runVars, brokerVars
<1>2. ASSUME NEW p \in Presses, Rebind(p) PROVE Ready'
  BY <1>2, LifecycleAssumption DEF Rebind, To, LifecycleTypeOK, Ready, Runs, Tasks, Alone, Busy,
     engineVars, loopVars, runVars
<1>3. ASSUME NEW p \in Presses, StartRaises(p) PROVE Ready'
  BY <1>3, LifecycleAssumption DEF StartRaises, To, LifecycleTypeOK, Ready, Runs, Tasks, Alone,
     Busy, engineVars, loopVars, runVars, brokerVars
<1>4. ASSUME NEW p \in Presses, OpenRun(p) PROVE Ready'
  BY <1>4, LifecycleAssumption DEF OpenRun, To, LifecycleTypeOK, Ready, Runs, Tasks, Alone, Busy,
     loopVars, brokerVars
<1>5. ASSUME NEW p \in Presses, Run(p) PROVE Ready'
  BY <1>5, LifecycleAssumption DEF Run, To, LifecycleTypeOK, Ready, Runs, Tasks, Alone, Busy,
     runVars, brokerVars
<1>6. ASSUME NEW p \in Presses, PressStop(p) PROVE Ready'
  BY <1>6, LifecycleAssumption DEF PressStop, May, To, LifecycleTypeOK, Ready, Runs, Tasks, Alone,
     Busy, runVars, brokerVars
<1>7. ASSUME NEW p \in Presses, Joined(p) PROVE Ready'
  BY <1>7, LifecycleAssumption DEF Joined, To, LifecycleTypeOK, Ready, Runs, Tasks, Alone, Busy,
     loopVars, runVars, brokerVars
<1>8. ASSUME NEW p \in Presses, CloseAll(p) PROVE Ready'
  BY <1>8, LifecycleAssumption DEF CloseAll, To, Settled, LifecycleTypeOK, Ready, Runs, Tasks,
     Alone, Busy, engineVars, loopVars, runVars
<1>9. ASSUME NEW p \in Presses, EndRun(p) PROVE Ready'
  BY <1>9, LifecycleAssumption DEF EndRun, To, LifecycleTypeOK, Ready, Runs, Tasks, Alone, Busy,
     loopVars, brokerVars
<1>10. ASSUME NEW t \in scanning, LoopOpens(t) PROVE Ready'
  BY <1>10, LifecycleAssumption DEF LoopOpens, LifecycleTypeOK, Ready, Runs, Tasks, Alone, Busy,
     engineVars, loopVars, runVars, pressVars
<1>11. ASSUME NEW t \in scanning, LoopCloses(t) PROVE Ready'
  BY <1>11, LifecycleAssumption DEF LoopCloses, Settled, LifecycleTypeOK, Ready, Runs, Tasks, Alone,
     Busy, engineVars, loopVars, runVars, pressVars
<1>12. ASSUME NEW t \in scanning, LoopEnds(t) PROVE Ready'
  BY <1>12, LifecycleAssumption DEF LoopEnds, LifecycleTypeOK, Ready, Runs, Tasks, Alone, Busy,
     engineVars, runVars, brokerVars, pressVars
<1>13. CASE Pause
  BY <1>13 DEF Pause, LifecycleTypeOK, Ready, Runs, Tasks, Alone, Busy, loopVars, runVars,
     brokerVars, pressVars
<1>14. CASE Die
  BY <1>14 DEF Die, LifecycleTypeOK, Ready, Runs, Tasks, Alone, Busy, runVars
<1>15. CASE UNCHANGED lifecycleVars
  BY <1>15 DEF lifecycleVars, LifecycleTypeOK, Ready, Runs, Tasks, Alone, Busy, engineVars,
     loopVars, runVars, brokerVars, pressVars
<1> QED
  BY <1>1, <1>2, <1>3, <1>4, <1>5, <1>6, <1>7, <1>8, <1>9, <1>10, <1>11, <1>12, <1>13, <1>14, <1>15
     DEF LifecycleNext

\* A start makes the engine whole and a stop takes it apart, neither seen half done by a
\* press that waits its turn.
LEMMA WholeNext ==
  ASSUME OneAtATime, LifecycleTypeOK, RunningIsWhole, Ready, Tasks, Alone, paper \in hooked,
         [LifecycleNext]_lifecycleVars
  PROVE  RunningIsWhole'
<1>1. ASSUME NEW p \in Presses, Press(p) PROVE RunningIsWhole'
  BY <1>1, LifecycleAssumption DEF Press, May, To, LifecycleTypeOK, RunningIsWhole, Ready, Tasks,
     Alone, Busy, Runs, Brokers, engineVars, loopVars, runVars, brokerVars
<1>2. ASSUME NEW p \in Presses, Rebind(p) PROVE RunningIsWhole'
  BY <1>2, LifecycleAssumption DEF Rebind, To, LifecycleTypeOK, RunningIsWhole, Ready, Tasks, Alone,
     Busy, Runs, Brokers, engineVars, loopVars, runVars
<1>3. ASSUME NEW p \in Presses, StartRaises(p) PROVE RunningIsWhole'
  BY <1>3, LifecycleAssumption DEF StartRaises, To, LifecycleTypeOK, RunningIsWhole, Ready, Tasks,
     Alone, Busy, Runs, Brokers, engineVars, loopVars, runVars, brokerVars
<1>4. ASSUME NEW p \in Presses, OpenRun(p) PROVE RunningIsWhole'
  BY <1>4, LifecycleAssumption DEF OpenRun, To, LifecycleTypeOK, RunningIsWhole, Ready, Tasks,
     Alone, Busy, Runs, Brokers, loopVars, brokerVars
<1>5. ASSUME NEW p \in Presses, Run(p) PROVE RunningIsWhole'
  BY <1>5, LifecycleAssumption DEF Run, To, LifecycleTypeOK, RunningIsWhole, Ready, Tasks, Alone,
     Busy, Runs, Brokers, runVars, brokerVars
<1>6. ASSUME NEW p \in Presses, PressStop(p) PROVE RunningIsWhole'
  BY <1>6, LifecycleAssumption DEF PressStop, May, To, LifecycleTypeOK, RunningIsWhole, Ready,
     Tasks, Alone, Busy, Runs, Brokers, runVars, brokerVars
<1>7. ASSUME NEW p \in Presses, Joined(p) PROVE RunningIsWhole'
  BY <1>7, LifecycleAssumption DEF Joined, To, LifecycleTypeOK, RunningIsWhole, Ready, Tasks, Alone,
     Busy, Runs, Brokers, loopVars, runVars, brokerVars
<1>8. ASSUME NEW p \in Presses, CloseAll(p) PROVE RunningIsWhole'
  BY <1>8, LifecycleAssumption DEF CloseAll, To, Settled, LifecycleTypeOK, RunningIsWhole, Ready,
     Tasks, Alone, Busy, Runs, Brokers, engineVars, loopVars, runVars
<1>9. ASSUME NEW p \in Presses, EndRun(p) PROVE RunningIsWhole'
  BY <1>9, LifecycleAssumption DEF EndRun, To, LifecycleTypeOK, RunningIsWhole, Ready, Tasks, Alone,
     Busy, Runs, Brokers, loopVars, brokerVars
<1>10. ASSUME NEW t \in scanning, LoopOpens(t) PROVE RunningIsWhole'
  BY <1>10, LifecycleAssumption DEF LoopOpens, LifecycleTypeOK, RunningIsWhole, Ready, Tasks, Alone,
     Busy, Runs, Brokers, engineVars, loopVars, runVars, pressVars
<1>11. ASSUME NEW t \in scanning, LoopCloses(t) PROVE RunningIsWhole'
  BY <1>11, LifecycleAssumption DEF LoopCloses, Settled, LifecycleTypeOK, RunningIsWhole, Ready,
     Tasks, Alone, Busy, Runs, Brokers, engineVars, loopVars, runVars, pressVars
<1>12. ASSUME NEW t \in scanning, LoopEnds(t) PROVE RunningIsWhole'
  BY <1>12, LifecycleAssumption DEF LoopEnds, LifecycleTypeOK, RunningIsWhole, Ready, Tasks, Alone,
     Busy, Runs, Brokers, engineVars, runVars, brokerVars, pressVars
<1>13. CASE Pause
  BY <1>13 DEF Pause, LifecycleTypeOK, RunningIsWhole, Ready, Tasks, Alone, Busy, Runs, Brokers,
     loopVars, runVars, brokerVars, pressVars
<1>14. CASE Die
  BY <1>14 DEF Die, LifecycleTypeOK, RunningIsWhole, Ready, Tasks, Alone, Busy, Runs, Brokers,
     runVars
<1>15. CASE UNCHANGED lifecycleVars
  BY <1>15 DEF lifecycleVars, LifecycleTypeOK, RunningIsWhole, Ready, Tasks, Alone, Busy, Runs,
     Brokers, engineVars, loopVars, runVars, brokerVars, pressVars
<1> QED
  BY <1>1, <1>2, <1>3, <1>4, <1>5, <1>6, <1>7, <1>8, <1>9, <1>10, <1>11, <1>12, <1>13, <1>14, <1>15
     DEF LifecycleNext

\* A position is opened under the run that is open and closed before that run ends or the
\* broker is replaced.
LEMMA HeldNext ==
  ASSUME OneAtATime, LifecycleTypeOK, Held, Alone, RunningIsWhole, Tasks,
         [LifecycleNext]_lifecycleVars
  PROVE  Held'
<1>1. ASSUME NEW p \in Presses, Press(p) PROVE Held'
  BY <1>1, LifecycleAssumption DEF Press, May, To, LifecycleTypeOK, Held, Alone, Busy, Brokers,
     Runs, RunningIsWhole, Tasks, engineVars, loopVars, runVars, brokerVars
<1>2. ASSUME NEW p \in Presses, Rebind(p) PROVE Held'
  <2>1. \A b \in Brokers : position[b] = 0
    BY <1>2 DEF Rebind, Held, Alone, Busy
  <2> QED BY <1>2, <2>1 DEF Rebind, To, Held, Brokers
<1>3. ASSUME NEW p \in Presses, StartRaises(p) PROVE Held'
  BY <1>3, LifecycleAssumption DEF StartRaises, To, LifecycleTypeOK, Held, Alone, Busy, Brokers,
     Runs, RunningIsWhole, Tasks, engineVars, loopVars, runVars, brokerVars
<1>4. ASSUME NEW p \in Presses, OpenRun(p) PROVE Held'
  <2>1. \A b \in Brokers : position[b] = 0
    BY <1>4 DEF OpenRun, Held, Alone, Busy
  <2> QED BY <1>4, <2>1 DEF OpenRun, To, Held, Brokers, brokerVars
<1>5. ASSUME NEW p \in Presses, Run(p) PROVE Held'
  BY <1>5, LifecycleAssumption DEF Run, To, LifecycleTypeOK, Held, Alone, Busy, Brokers, Runs,
     RunningIsWhole, Tasks, runVars, brokerVars
<1>6. ASSUME NEW p \in Presses, PressStop(p) PROVE Held'
  BY <1>6, LifecycleAssumption DEF PressStop, May, To, LifecycleTypeOK, Held, Alone, Busy, Brokers,
     Runs, RunningIsWhole, Tasks, runVars, brokerVars
<1>7. ASSUME NEW p \in Presses, Joined(p) PROVE Held'
  BY <1>7, LifecycleAssumption DEF Joined, To, LifecycleTypeOK, Held, Alone, Busy, Brokers, Runs,
     RunningIsWhole, Tasks, loopVars, runVars, brokerVars
<1>8. ASSUME NEW p \in Presses, CloseAll(p) PROVE Held'
  BY SMTT(30), <1>8, LifecycleAssumption DEF CloseAll, To, Settled, LifecycleTypeOK, Held, Alone, Busy,
     Brokers, Runs, RunningIsWhole, Tasks, engineVars, loopVars, runVars
<1>9. ASSUME NEW p \in Presses, EndRun(p) PROVE Held'
  BY <1>9, LifecycleAssumption DEF EndRun, To, LifecycleTypeOK, Held, Alone, Busy, Brokers, Runs,
     RunningIsWhole, Tasks, loopVars, brokerVars
<1>10. ASSUME NEW t \in scanning, LoopOpens(t) PROVE Held'
  BY <1>10, LifecycleAssumption DEF LoopOpens, LifecycleTypeOK, Held, Alone, Busy, Brokers, Runs,
     RunningIsWhole, Tasks, engineVars, loopVars, runVars, pressVars
<1>11. ASSUME NEW t \in scanning, LoopCloses(t) PROVE Held'
  <2>1. paper \in Brokers /\ position[paper] = runId
    BY <1>11 DEF LoopCloses, Held, LifecycleTypeOK
  <2>2. \A row \in filed' : row[1] = row[2]
    BY <1>11, <2>1 DEF LoopCloses, Settled, Held
  <2>3. \A b \in Brokers : position'[b] = 0
    BY <1>11 DEF LoopCloses, Held, LifecycleTypeOK
  <2> QED BY <2>2, <2>3 DEF Held
<1>12. ASSUME NEW t \in scanning, LoopEnds(t) PROVE Held'
  BY <1>12, LifecycleAssumption DEF LoopEnds, LifecycleTypeOK, Held, Alone, Busy, Brokers, Runs,
     RunningIsWhole, Tasks, engineVars, runVars, brokerVars, pressVars
<1>13. CASE Pause
  BY <1>13 DEF Pause, LifecycleTypeOK, Held, Alone, Busy, Brokers, Runs, RunningIsWhole, Tasks,
     loopVars, runVars, brokerVars, pressVars
<1>14. CASE Die
  BY <1>14 DEF Die, LifecycleTypeOK, Held, Alone, Busy, Brokers, Runs, RunningIsWhole, Tasks,
     runVars
<1>15. CASE UNCHANGED lifecycleVars
  BY <1>15 DEF lifecycleVars, LifecycleTypeOK, Held, Alone, Busy, Brokers, Runs, RunningIsWhole,
     Tasks, engineVars, loopVars, runVars, brokerVars, pressVars
<1> QED
  BY <1>1, <1>2, <1>3, <1>4, <1>5, <1>6, <1>7, <1>8, <1>9, <1>10, <1>11, <1>12, <1>13, <1>14, <1>15
     DEF LifecycleNext

\* The invariant holds always.
LEMMA LifecycleInductive == LifecycleSpec => []LifecycleInv
<1>1. LifecycleInit => LifecycleInv
  BY InitType, InitWhole DEF LifecycleInv
<1>2. LifecycleInv /\ [LifecycleNext]_lifecycleVars => LifecycleInv'
  BY TypeNext, AloneNext, HookedNext, TasksNext, ReadyNext, WholeNext, HeldNext DEF LifecycleInv, Whole
<1> QED
  BY <1>1, <1>2, PTL DEF LifecycleSpec

\* Type correctness, however many presses are served at once.
THEOREM LifecycleTypeCorrect == LifecycleSpec => []LifecycleTypeOK
  BY LifecycleInductive, PTL DEF LifecycleInv

\* Where presses come one at a time, a running engine has one open run, one task and a
\* broker that reports to it (start, reset_run, stop).
THEOREM RunsWhole == LifecycleSpec => [](OneAtATime => RunningIsWhole)
<1>1. LifecycleInv => (OneAtATime => RunningIsWhole)
  BY DEF LifecycleInv, Whole
<1> QED
  BY <1>1, LifecycleInductive, PTL

\* And every trade is filed under the run that opened it; no position stays on a broker
\* that was replaced (_bind_broker, stop).
THEOREM TradesInTheirRun == LifecycleSpec => [](OneAtATime => TradesStayInTheirRun)
<1>1. LifecycleInv => (OneAtATime => TradesStayInTheirRun)
  BY DEF LifecycleInv, Whole, Held, TradesStayInTheirRun
<1> QED
  BY <1>1, LifecycleInductive, PTL

-----------------------------------------------------------------------------
(* The order of an entry. *)

\* An attempt under way.
Attempts ==
  [at : {"sized", "written", "submitted", "verdict", "answered"}, sig : Signals, ref : Int,
   budget : Nat, lot : Nat, before : Int]

\* Orders at the venue.
PlacedOrders == [qty : Nat, filled : Nat, open : BOOLEAN, away : Nat, budget : Nat]

EntryTypes ==
  /\ bound \in Venues /\ attempt \in Attempts \union {NoAttempt} /\ placed \in PlacedOrders
  /\ account \in Int /\ own \in Nat /\ grown \in 0..own /\ others \in Nat /\ tracked \in Nat

\* A reply is a record of these fields.
Told ==
  reply = [status |-> reply.status, filled |-> reply.filled, units |-> reply.units,
           held |-> reply.held, within |-> reply.within]

\* The engine's orders added what they filled, less the fee, and nobody else trades at a simulator.
Bought ==
  /\ placed.filled <= placed.qty
  /\ bound = "alpaca" => own = NetOf(placed.filled)
  /\ bound = "simulator" => own = placed.filled /\ ~placed.open /\ others = 0 /\ grown = 0
  /\ others = 0 => account = own

\* What can be filled is risked within its budget.
Sized ==
  /\ RiskWithinBudget
  /\ attempt # NoAttempt => attempt.lot * Away(attempt.ref, attempt.sig.stop) <= attempt.budget

\* Units that agree with what the orders bought when the account was read.
Agrees(n) ==
  /\ others = 0 => n = own - grown
  /\ bound = "alpaca" /\ reply.filled # Unread => Away(NetOf(reply.filled), n) <= UnitsWindow

\* A reply that says filled, at a simulator or measured on the account.
Measured ==
  \/ bound = "simulator" /\ reply.held = Absent /\ reply.filled = Absent /\ reply.units = own
  \/ /\ bound = "alpaca" /\ reply.filled \in Nat \union {Unread}
     /\ \/ reply.held = Unread
        \/ reply.held \in Nat \ {0} /\ (reply.within = "no" \/ Agrees(reply.held))

\* An attempt starts on an account without units of an earlier one, and what its reply says
\* is what its order did.
Underway ==
  /\ tracked = 0 /\ stopped = "no"
  /\ attempt.at \in {"sized", "written"} => own = 0 /\ ~placed.open
  /\ attempt.at \in {"submitted", "verdict"} =>
        bound = "alpaca" /\ grown = 0 /\ (others = 0 => attempt.before = 0)
  /\ attempt.at = "verdict" => reply.filled \in Nat \union {Unread} /\ reply.status \in FillStatuses
  /\ attempt.at = "answered" =>
        /\ KindOf(reply.status) = "refused" => own = 0 /\ ~placed.open
        /\ KindOf(reply.status) = "filled" => Measured

\* Between attempts nothing was bought, or all of it is booked.
AtRest ==
  \/ tracked = 0 /\ own = 0 /\ ~placed.open
  \/ tracked > 0 /\ outcome = "OPEN" /\ Agrees(tracked)

EntryInv ==
  /\ EntryTypes /\ Bought /\ Sized
  /\ attempt # NoAttempt => Underway
  /\ attempt = NoAttempt /\ stopped = "no" => AtRest

-----------------------------------------------------------------------------
\* A fill of FeePart units pays one of them, whatever was filled before.
LEMMA NetAdds ==
  ASSUME NEW n \in Nat
  PROVE  NetOf(n) \in Nat /\ NetOf(n + FeePart) = NetOf(n) + NetOf(FeePart) /\ NetOf(FeePart) \in Nat /\ NetOf(0) = 0
<1>0. FeePart \in Nat \ {0}
  BY OrderAssumption
<1> DEFINE q == n \div FeePart
           r == n % FeePart
<1>1. q \in Nat /\ r \in 0..(FeePart - 1) /\ n = FeePart * q + r
  BY <1>0, Z3
<1>2. q <= n
  BY <1>0, <1>1, Z3
<1>3. (n + FeePart) \div FeePart = q + 1
  BY <1>0, <1>1, Z3
<1>4. FeePart \div FeePart = 1 /\ 0 \div FeePart = 0
  BY <1>0, Z3
<1> QED BY <1>0, <1>1, <1>2, <1>3, <1>4 DEF NetOf

\* The size keeps the budget: units times the distance to the stop.
LEMMA SizeKeepsBudget ==
  ASSUME NEW b \in Nat, NEW d \in Nat \ {0}
  PROVE  b \div d \in Nat /\ (b \div d) * d <= b
BY Z3

\* The grid of the asset only takes units away.
LEMMA GridNeverUp ==
  ASSUME NEW n \in Nat
  PROVE  Quantised(n) \in Nat /\ Quantised(n) <= n
BY SizeKeepsBudget, OrderAssumption DEF Quantised

\* Fewer units at the same distance risk no more.
LEMMA LessRisk ==
  ASSUME NEW m \in Nat, NEW n \in Nat, m <= n, NEW d \in Nat, NEW b \in Nat, n * d <= b
  PROVE  m * d <= b
<1>1. m * d <= n * d
  BY Z3
<1>2. m * d \in Nat /\ n * d \in Nat
  OBVIOUS
<1> QED BY <1>1, <1>2

\* Distances.
LEMMA AwayType ==
  ASSUME NEW a \in Int, NEW b \in Int
  PROVE  Away(a, b) \in Nat /\ Away(a, b) = Away(b, a) /\ (a # b => Away(a, b) > 0) /\ Away(a, a) = 0
BY DEF Away

\* An attempt is under way exactly when it is somewhere.
LEMMA Somewhere ==
  ASSUME EntryTypes
  PROVE  /\ attempt.at = "no" <=> attempt = NoAttempt
         /\ attempt # NoAttempt => attempt \in Attempts
BY DEF EntryTypes, Attempts, NoAttempt

\* Take: the size keeps the budget, and nothing was bought before.
LEMMA TakeKeeps ==
  ASSUME EntryInv, NEW sig \in Signals, NEW mark \in MarkReads, NEW quote \in QuoteReads,
         NEW budget \in Budgets, NEW readable \in BOOLEAN, Take(sig, mark, quote, budget, readable)
  PROVE  EntryInv'
<1> DEFINE ref == ReferencePrice(mark, quote)
<1>1. /\ sig.entry \in Int /\ sig.stop \in Int /\ budget \in Nat
      /\ mark.price \in Int /\ quote.price \in Int
  BY OrderAssumption
<1>2. ref \in Int
  BY <1>1 DEF ReferencePrice, ChooseReference, NoRead
<1>3. /\ attempt = NoAttempt /\ stopped = "no" /\ tracked = 0
      /\ UNCHANGED <<bound, placed, account, tracked, stopped, own, grown, others>>
  BY DEF Take
<1>4. own = 0 /\ ~placed.open /\ grown = 0
  BY <1>3 DEF EntryInv, AtRest, EntryTypes
<1>5. Bought' /\ RiskWithinBudget'
  BY <1>3 DEF EntryInv, Bought, Sized, RiskWithinBudget
<1>6. CASE readable /\ ~Refused(sig, ref, budget)
  <2>1. attempt' = [at |-> "sized", sig |-> sig, ref |-> ref, budget |-> budget,
                    lot |-> SizePosition(budget, sig, ref), before |-> 0]
    BY <1>6 DEF Take
  <2> HIDE DEF ref
  <2>2. ref # sig.stop
    BY <1>1, <1>2, <1>6 DEF Refused, ThroughStop
  <2>3. Away(ref, sig.stop) \in Nat \ {0}
    BY <1>1, <1>2, <2>2 DEF Away
  <2>4. SizePosition(budget, sig, ref) \in Nat /\ SizePosition(budget, sig, ref) * Away(ref, sig.stop) <= budget
    BY <1>1, <2>3, SizeKeepsBudget DEF SizePosition
  <2>5. attempt' \in Attempts /\ attempt' # NoAttempt /\ attempt'.at = "sized"
    BY <1>1, <1>2, <2>1, <2>4 DEF Attempts, NoAttempt
  <2>6. Sized'
    BY <1>5, <2>1, <2>4 DEF Sized
  <2>7. EntryTypes'
    BY <1>3, <2>5 DEF EntryInv, EntryTypes
  <2>8. Underway'
    BY <1>3, <1>4, <2>5 DEF Underway
  <2> QED BY <1>5, <2>5, <2>6, <2>7, <2>8 DEF EntryInv
<1>7. CASE ~(readable /\ ~Refused(sig, ref, budget))
  <2>1. attempt' = NoAttempt
    BY <1>7 DEF Take, Ends
  <2>2. EntryTypes' /\ Sized' /\ AtRest'
    BY <1>3, <1>4, <1>5, <2>1 DEF EntryInv, EntryTypes, Sized, AtRest
  <2> QED BY <1>5, <2>1, <2>2 DEF EntryInv
<1> QED BY <1>6, <1>7

\* A step of the pre-send record.
LEMMA RecordKeeps ==
  ASSUME EntryInv, WriteSubmitting \/ PresendFails \/ RefusedUnplaced
  PROVE  EntryInv'
<1>1. UNCHANGED <<bound, placed, account, reply, tracked, stopped, own, grown, others>>
  BY DEF WriteSubmitting, PresendFails, RefusedUnplaced, historyVars
<1>2. attempt \in Attempts /\ Underway /\ attempt # NoAttempt /\ attempt.at \in {"sized", "written"}
  BY Somewhere DEF WriteSubmitting, PresendFails, RefusedUnplaced, EntryInv
<1>3. Bought' /\ RiskWithinBudget'
  BY <1>1 DEF EntryInv, Bought, Sized, RiskWithinBudget
<1>4. CASE WriteSubmitting
  <2>1. attempt' = [attempt EXCEPT !.at = "written"]
    BY <1>4 DEF WriteSubmitting
  <2>2. attempt' \in Attempts /\ attempt'.at = "written" /\ attempt' # NoAttempt
    BY <1>2, <2>1 DEF Attempts, NoAttempt
  <2>3. attempt'.lot = attempt.lot /\ attempt'.ref = attempt.ref /\ attempt'.sig = attempt.sig /\ attempt'.budget = attempt.budget
    BY <1>2, <2>1 DEF Attempts
  <2>4. Sized'
    BY <1>2, <1>3, <2>3 DEF EntryInv, Sized
  <2>5. Underway' /\ EntryTypes'
    BY <1>1, <1>2, <2>2 DEF Underway, EntryTypes, EntryInv
  <2> QED BY <1>3, <2>2, <2>4, <2>5 DEF EntryInv
<1>5. CASE PresendFails \/ RefusedUnplaced
  <2>1. attempt' = NoAttempt
    BY <1>5 DEF PresendFails, RefusedUnplaced, Ends
  <2>2. EntryTypes' /\ Sized' /\ AtRest'
    BY <1>1, <1>2, <1>3, <2>1 DEF EntryInv, EntryTypes, Sized, AtRest, Underway
  <2> QED BY <1>3, <2>1, <2>2 DEF EntryInv
<1> QED BY <1>4, <1>5

\* A simulator fills the whole lot, without a fee.
LEMMA FillAtMarkKeeps == EntryInv /\ FillAtMark => EntryInv'
<1> SUFFICES ASSUME EntryInv, FillAtMark PROVE EntryInv'
  OBVIOUS
<1>1. attempt \in Attempts /\ Underway /\ attempt # NoAttempt /\ own = 0 /\ grown = 0 /\ bound = "simulator"
  BY Somewhere DEF FillAtMark, EntryInv, Underway, EntryTypes
<1>2. /\ attempt.lot \in Nat /\ attempt.ref \in Int /\ attempt.sig.stop \in Int /\ attempt.budget \in Nat
  BY <1>1, OrderAssumption DEF Attempts
<1>3. placed' = [qty |-> attempt.lot, filled |-> attempt.lot, open |-> FALSE,
                 away |-> Away(attempt.ref, attempt.sig.stop), budget |-> attempt.budget]
  <2>1. (attempt.lot < attempt.lot) = FALSE
    BY <1>2
  <2>2. placed' = OrderOf(attempt.lot, attempt.lot)
    BY DEF FillAtMark
  <2> QED BY <2>1, <2>2, Zenon DEF OrderOf
<1>4. placed' \in PlacedOrders
  BY <1>2, <1>3, AwayType DEF PlacedOrders
<1>5. /\ account' = account + attempt.lot /\ own' = own + attempt.lot
      /\ UNCHANGED <<bound, tracked, stopped, grown, others>>
      /\ attempt' = [attempt EXCEPT !.at = "answered"]
  BY DEF FillAtMark, tradeVars
<1>6. /\ attempt' \in Attempts /\ attempt'.at = "answered" /\ attempt' # NoAttempt
      /\ attempt'.lot = attempt.lot /\ attempt'.ref = attempt.ref /\ attempt'.sig = attempt.sig
      /\ attempt'.budget = attempt.budget
  BY <1>1, <1>5 DEF Attempts, NoAttempt
<1>7. reply' = [status |-> "FILLED", filled |-> Absent, units |-> attempt.lot, held |-> Absent, within |-> "unknown"]
  BY DEF FillAtMark, NoReply
<1>8. Sized'
  BY <1>1, <1>3, <1>6 DEF EntryInv, Sized, RiskWithinBudget
<1>9. Bought'
  BY <1>1, <1>2, <1>3, <1>5 DEF EntryInv, Bought
<1>10. EntryTypes'
  BY <1>1, <1>2, <1>4, <1>5, <1>6 DEF EntryInv, EntryTypes
<1>11. Measured'
  BY <1>1, <1>2, <1>5, <1>7 DEF Measured
<1>12. Underway'
  BY <1>1, <1>5, <1>6, <1>7, <1>11 DEF Underway, KindOf, FillStatuses
<1> QED BY <1>6, <1>8, <1>9, <1>10, <1>12 DEF EntryInv

\* Alpaca is sent what is left on the grid, on an account that holds nothing of the engine.
LEMMA SubmitKeeps == ASSUME EntryInv, NEW created \in BOOLEAN, Submit(created) PROVE EntryInv'
<1>1. attempt \in Attempts /\ Underway /\ attempt # NoAttempt /\ own = 0 /\ grown = 0 /\ bound = "alpaca"
  BY Somewhere DEF Submit, EntryInv, Underway, EntryTypes
<1>2. /\ attempt.lot \in Nat /\ attempt.ref \in Int /\ attempt.sig.stop \in Int /\ attempt.budget \in Nat
  BY <1>1, OrderAssumption DEF Attempts
<1>3. Quantised(attempt.lot) \in Nat /\ Quantised(attempt.lot) <= attempt.lot
  BY <1>2, GridNeverUp
<1>4. Away(attempt.ref, attempt.sig.stop) \in Nat
  BY <1>2, AwayType
<1>5. \/ placed' = NoOrder
      \/ placed' = [qty |-> Quantised(attempt.lot), filled |-> 0, open |-> 0 < Quantised(attempt.lot),
                    away |-> Away(attempt.ref, attempt.sig.stop), budget |-> attempt.budget]
  BY DEF Submit, OrderOf
<1>6. placed' \in PlacedOrders /\ placed'.filled = 0 /\ placed'.filled <= placed'.qty
  <2>1. (0 < Quantised(attempt.lot)) \in BOOLEAN
    BY <1>3
  <2>2. CASE placed' = NoOrder
    BY <2>2 DEF PlacedOrders, NoOrder
  <2>3. CASE placed' # NoOrder
    <3>1. PICK q, o, d, b : /\ placed' = [qty |-> q, filled |-> 0, open |-> o, away |-> d, budget |-> b]
                            /\ q \in Nat /\ o \in BOOLEAN /\ d \in Nat /\ b \in Nat
      BY <1>2, <1>3, <1>4, <1>5, <2>1, <2>3, Zenon
    <3> QED BY <3>1 DEF PlacedOrders
  <2> QED BY <2>2, <2>3
<1>7. RiskWithinBudget'
  <2>1. attempt.lot * Away(attempt.ref, attempt.sig.stop) <= attempt.budget
    BY <1>1 DEF EntryInv, Sized
  <2>2. Quantised(attempt.lot) * Away(attempt.ref, attempt.sig.stop) <= attempt.budget
    BY <1>2, <1>3, <1>4, <2>1, LessRisk
  <2> QED BY <1>5, <2>2 DEF RiskWithinBudget, NoOrder
<1>8. /\ attempt' = [attempt EXCEPT !.at = "submitted", !.before = account]
      /\ UNCHANGED <<bound, account, tracked, stopped, own, grown, others>>
  BY DEF Submit, tradeVars, historyVars
<1>9. /\ attempt' \in Attempts /\ attempt'.at = "submitted" /\ attempt' # NoAttempt /\ attempt'.before = account
      /\ attempt'.lot = attempt.lot /\ attempt'.ref = attempt.ref /\ attempt'.sig = attempt.sig
      /\ attempt'.budget = attempt.budget
  BY <1>1, <1>8 DEF Attempts, NoAttempt, EntryInv, EntryTypes
<1>10. Sized'
  BY <1>1, <1>7, <1>9 DEF EntryInv, Sized
<1>11. Bought'
  BY <1>1, <1>6, <1>8, NetAdds DEF EntryInv, Bought
<1>12. EntryTypes' /\ Underway'
  BY <1>1, <1>6, <1>8, <1>9 DEF EntryInv, EntryTypes, Underway, Bought
<1> QED BY <1>9, <1>10, <1>11, <1>12 DEF EntryInv

\* The venue fills some more: what came after the account was read is not in the units measured.
LEMMA FillKeeps == EntryInv /\ Fill(FeePart) => EntryInv'
<1> SUFFICES ASSUME EntryInv, Fill(FeePart) PROVE EntryInv'
  OBVIOUS
<1>1. placed.open /\ bound = "alpaca" /\ placed \in PlacedOrders /\ FeePart \in Nat
  BY OrderAssumption DEF Fill, EntryInv, Bought, EntryTypes
<1>2. PICK n \in Nat : n = NetOf(FeePart) /\ NetOf(placed.filled + FeePart) = NetOf(placed.filled) + n
  BY <1>1, NetAdds DEF PlacedOrders
<1>3. /\ placed' = [placed EXCEPT !.filled = @ + FeePart, !.open = placed.filled + FeePart < placed.qty]
      /\ account' = account + n /\ own' = own + n
      /\ grown' = IF attempt.at \in {"submitted", "verdict"} THEN grown ELSE grown + n
      /\ UNCHANGED <<bound, attempt, reply, tracked, outcome, stopped, others>>
      /\ placed.filled + FeePart <= placed.qty
  BY <1>2 DEF Fill, tradeVars
<1>4. (placed.filled + FeePart < placed.qty) \in BOOLEAN
  BY <1>1 DEF PlacedOrders
<1>5. /\ placed' \in PlacedOrders /\ placed'.filled = placed.filled + FeePart
      /\ placed'.qty = placed.qty /\ placed'.away = placed.away /\ placed'.budget = placed.budget
  <2>1. PICK o \in BOOLEAN : placed' = [placed EXCEPT !.filled = @ + FeePart, !.open = o]
    BY <1>3, <1>4, Zenon
  <2>2. placed' = [qty |-> placed.qty, filled |-> placed.filled + FeePart, open |-> o,
                   away |-> placed.away, budget |-> placed.budget]
    BY <1>1, <2>1 DEF PlacedOrders
  <2> QED BY <1>1, <2>2 DEF PlacedOrders
<1>6. /\ own \in Nat /\ grown \in 0..own /\ others \in Nat /\ account \in Int
  BY DEF EntryInv, EntryTypes
<1>7. EntryTypes'
  BY <1>3, <1>5, <1>6 DEF EntryInv, EntryTypes
<1>8. Bought'
  BY <1>1, <1>2, <1>3, <1>5, <1>6 DEF EntryInv, Bought
<1>9. Sized'
  BY <1>3, <1>5 DEF EntryInv, Sized, RiskWithinBudget
<1>10. ASSUME NEW u, Agrees(u), attempt.at \notin {"submitted", "verdict"} PROVE Agrees(u)'
  BY <1>3, <1>6, <1>10 DEF Agrees
<1>11. ASSUME attempt # NoAttempt PROVE Underway'
  <2>1. Underway
    BY <1>11 DEF EntryInv
  <2>2. KindOf(reply.status) = "filled" /\ attempt.at = "answered" => Measured'
    BY <1>1, <1>3, <1>10, <2>1 DEF Underway, Measured
  <2> QED BY <1>1, <1>3, <2>1, <2>2 DEF Underway
<1>12. ASSUME attempt = NoAttempt, stopped = "no" PROVE AtRest'
  <2>1. AtRest
    BY <1>12 DEF EntryInv
  <2> QED BY <1>1, <1>3, <1>10, <1>12, <2>1 DEF AtRest, NoAttempt
<1> QED BY <1>3, <1>7, <1>8, <1>9, <1>11, <1>12 DEF EntryInv

\* An order that ends cannot fill any more.
LEMMA EndKeeps == EntryInv /\ OrderEnds => EntryInv'
<1> SUFFICES ASSUME EntryInv, OrderEnds PROVE EntryInv'
  OBVIOUS
<1>1. placed \in PlacedOrders
  BY DEF EntryInv, EntryTypes
<1>2. /\ placed' = [placed EXCEPT !.open = FALSE]
      /\ UNCHANGED <<bound, attempt, account, reply, tracked, outcome, stopped, own, grown, others>>
  BY DEF OrderEnds, tradeVars, historyVars
<1>3. /\ placed' \in PlacedOrders /\ placed'.filled = placed.filled /\ ~placed'.open
      /\ placed'.qty = placed.qty /\ placed'.away = placed.away /\ placed'.budget = placed.budget
  BY <1>1, <1>2 DEF PlacedOrders
<1>4. EntryTypes' /\ Bought' /\ Sized'
  BY <1>2, <1>3 DEF EntryInv, EntryTypes, Bought, Sized, RiskWithinBudget
<1>5. (Underway => Underway') /\ (AtRest => AtRest')
  BY <1>2, <1>3 DEF Underway, AtRest, Measured, Agrees
<1> QED BY <1>2, <1>4, <1>5 DEF EntryInv

\* Somebody else's trade is counted.
LEMMA OtherKeeps == ASSUME EntryInv, NEW n \in OtherTrades, OtherTrade(n) PROVE EntryInv'
<1>1. n \in Int /\ others \in Nat /\ bound = "alpaca"
  BY OrderAssumption DEF EntryInv, EntryTypes, OtherTrade
<1>2. /\ account' = account + n /\ others' = others + 1
      /\ UNCHANGED <<bound, attempt, placed, reply, tracked, outcome, stopped, own, grown>>
  BY DEF OtherTrade, tradeVars
<1>3. EntryTypes' /\ Bought' /\ Sized'
  BY <1>1, <1>2 DEF EntryInv, EntryTypes, Bought, Sized, RiskWithinBudget
<1>4. (Underway => Underway') /\ (AtRest => AtRest')
  BY <1>1, <1>2 DEF Underway, AtRest, Measured, Agrees
<1> QED BY <1>2, <1>3, <1>4 DEF EntryInv

\* A submission that created nothing, or of which nothing is known.
LEMMA UnansweredKeeps == EntryInv /\ (NotCreated \/ Unconfirmed) => EntryInv'
<1> SUFFICES ASSUME EntryInv, NotCreated \/ Unconfirmed PROVE EntryInv'
  OBVIOUS
<1>1. attempt \in Attempts /\ Underway /\ attempt # NoAttempt /\ bound = "alpaca" /\ attempt.at = "submitted"
  BY Somewhere DEF NotCreated, Unconfirmed, EntryInv, Underway
<1>2. UNCHANGED <<bound, placed, account, tracked, stopped, own, grown, others>>
  BY DEF NotCreated, Unconfirmed, historyVars, tradeVars
<1>3. Bought' /\ RiskWithinBudget'
  BY <1>2 DEF EntryInv, Bought, Sized, RiskWithinBudget
<1>4. CASE NotCreated
  <2>1. attempt' = NoAttempt /\ placed = NoOrder
    BY <1>4 DEF NotCreated, Ends
  <2>2. own = 0 /\ ~placed.open
    BY <1>1, <2>1, NetAdds DEF EntryInv, Bought, NoOrder
  <2>3. EntryTypes' /\ Sized' /\ AtRest'
    BY <1>1, <1>2, <1>3, <2>1, <2>2 DEF EntryInv, EntryTypes, Sized, AtRest, Underway
  <2> QED BY <1>3, <2>1, <2>3 DEF EntryInv
<1>5. CASE Unconfirmed
  <2>1. attempt' = [attempt EXCEPT !.at = "answered"] /\ reply'.status = "SUBMISSION_UNCONFIRMED"
    BY <1>5 DEF Unconfirmed, NoReply
  <2>2. /\ attempt' \in Attempts /\ attempt'.at = "answered" /\ attempt' # NoAttempt
        /\ attempt'.lot = attempt.lot /\ attempt'.ref = attempt.ref /\ attempt'.sig = attempt.sig
        /\ attempt'.budget = attempt.budget
    BY <1>1, <2>1 DEF Attempts, NoAttempt
  <2>3. EntryTypes' /\ Sized' /\ Underway'
    BY <1>1, <1>2, <1>3, <2>1, <2>2 DEF EntryInv, EntryTypes, Sized, Underway, KindOf, FillStatuses
  <2> QED BY <1>3, <2>2, <2>3 DEF EntryInv
<1> QED BY <1>4, <1>5

\* The verdict says refused only of an order that ended without a fill.
LEMMA VerdictKeeps == ASSUME EntryInv, NEW readable \in BOOLEAN, ReadVerdict(readable) PROVE EntryInv'
<1> DEFINE filled == IF readable THEN placed.filled ELSE Unread
           status == StatusOf(placed, filled)
<1>1. attempt \in Attempts /\ Underway /\ attempt # NoAttempt /\ bound = "alpaca" /\ attempt.at = "submitted"
  BY Somewhere DEF ReadVerdict, EntryInv, Underway
<1>2. /\ UNCHANGED <<bound, placed, account, tracked, stopped, own, grown, others>>
      /\ reply' = [status |-> status, filled |-> filled, units |-> placed.qty, held |-> Absent, within |-> "unknown"]
      /\ attempt' = [attempt EXCEPT !.at = IF status \in FillStatuses THEN "verdict" ELSE "answered"]
  BY DEF ReadVerdict, historyVars, tradeVars
<1>3. placed \in PlacedOrders /\ filled \in Nat \union {Unread}
  BY DEF EntryInv, EntryTypes, PlacedOrders
<1>4. status = "REJECTED" => placed.filled = 0 /\ ~placed.open
  BY <1>3 DEF StatusOf, PlacedOrders, Unread
<1>5. Bought' /\ RiskWithinBudget'
  BY <1>2 DEF EntryInv, Bought, Sized, RiskWithinBudget
<1>6. reply'.status = status /\ reply'.filled = filled
  BY <1>2
<1> HIDE DEF status, filled
<1>7. /\ attempt' \in Attempts /\ attempt' # NoAttempt
      /\ attempt'.at = IF status \in FillStatuses THEN "verdict" ELSE "answered"
      /\ attempt'.lot = attempt.lot /\ attempt'.ref = attempt.ref /\ attempt'.sig = attempt.sig
      /\ attempt'.budget = attempt.budget /\ attempt'.before = attempt.before
  BY <1>1, <1>2 DEF Attempts, NoAttempt
<1>8. EntryTypes' /\ Sized'
  BY <1>1, <1>2, <1>5, <1>7 DEF EntryInv, EntryTypes, Sized
<1>9. KindOf(status) = "refused" => own = 0 /\ ~placed.open
  BY <1>1, <1>4, NetAdds DEF KindOf, EntryInv, Bought
<1>10. KindOf(status) = "filled" => status \in FillStatuses
  BY DEF KindOf
<1>11. Underway'
  BY <1>1, <1>2, <1>3, <1>6, <1>7, <1>9, <1>10 DEF Underway
<1> QED BY <1>5, <1>7, <1>8, <1>11 DEF EntryInv

\* The account shows what the orders bought when nobody else traded; otherwise it is held
\* against what the order said it filled.
LEMMA AfterKeeps == ASSUME EntryInv, Told, NEW readable \in BOOLEAN, ReadAfter(readable) PROVE EntryInv'
<1>1. /\ attempt \in Attempts /\ Underway /\ attempt # NoAttempt /\ bound = "alpaca" /\ attempt.at = "verdict"
      /\ grown = 0 /\ reply.filled \in Nat \union {Unread} /\ (others = 0 => attempt.before = 0)
  BY Somewhere DEF ReadAfter, EntryInv, Underway
<1>2. /\ UNCHANGED <<bound, placed, account, tracked, stopped, own, grown, others>>
      /\ attempt' = [attempt EXCEPT !.at = "answered"]
  BY DEF ReadAfter, historyVars, tradeVars
<1>3. /\ attempt' \in Attempts /\ attempt'.at = "answered" /\ attempt' # NoAttempt
      /\ attempt'.lot = attempt.lot /\ attempt'.ref = attempt.ref /\ attempt'.sig = attempt.sig
      /\ attempt'.budget = attempt.budget
  BY <1>1, <1>2 DEF Attempts, NoAttempt
<1>4. EntryTypes' /\ Bought' /\ Sized'
  <2>1. EntryTypes'
    BY <1>2, <1>3 DEF EntryInv, EntryTypes
  <2>2. Bought'
    BY <1>2 DEF EntryInv, Bought
  <2>3. Sized'
    BY <1>1, <1>2, <1>3 DEF EntryInv, Sized, RiskWithinBudget
  <2> QED BY <2>1, <2>2, <2>3
<1>5. PICK delta \in Int : delta = account - attempt.before
  BY <1>1 DEF EntryInv, EntryTypes, Attempts
<1>6. others = 0 => delta = own - grown
  BY <1>1, <1>5 DEF EntryInv, EntryTypes, Bought
<1>7. Measured'
  <2>1. CASE ~readable
    <3>1. reply' = [reply EXCEPT !.held = Unread]
      BY <2>1 DEF ReadAfter
    <3> QED BY <1>1, <1>2, <3>1 DEF Measured
  <2>2. CASE readable
    <3>1. reply' = [reply EXCEPT !.held = Positive(delta), !.within = Within(reply.filled, delta)]
      BY <1>5, <2>2 DEF ReadAfter
    <3>2. CASE delta <= 0
      BY <1>1, <1>2, <1>5, <3>1, <3>2 DEF Measured, Positive
    <3>3. CASE delta > 0
      <4>1. /\ reply'.filled = reply.filled /\ reply'.held = delta /\ delta \in Nat \ {0}
            /\ reply'.within = Within(reply.filled, delta)
        BY <1>5, <3>1, <3>3 DEF Positive, Told
      <4>2. reply'.within # "no" => reply.filled = Unread \/ Away(NetOf(reply.filled), delta) <= UnitsWindow
        BY <4>1 DEF Within
      <4>3. reply'.within = "no" \/ Agrees(delta)'
        BY <1>2, <1>6, <4>1, <4>2 DEF Agrees
      <4> QED BY <1>1, <1>2, <4>1, <4>3 DEF Measured, Agrees
    <3> QED BY <1>5, <3>2, <3>3
  <2> QED BY <2>1, <2>2
<1>8. reply'.status = reply.status /\ reply.status \in FillStatuses
  BY <1>1 DEF ReadAfter, Underway
<1>9. Underway'
  BY <1>1, <1>2, <1>3, <1>7, <1>8 DEF Underway, KindOf, FillStatuses
<1> QED BY <1>3, <1>4, <1>9 DEF EntryInv

\* The answer: what is booked agrees with what was bought, and what is refused bought nothing.
LEMMA AnswerKeeps == EntryInv /\ Answer => EntryInv'
<1> SUFFICES ASSUME EntryInv, Answer PROVE EntryInv'
  OBVIOUS
<1> DEFINE kind == KindOf(reply.status)
           units == PositionUnits(reply)
<1>1. attempt \in Attempts /\ Underway /\ attempt # NoAttempt /\ attempt.at = "answered"
  BY Somewhere DEF Answer, EntryInv
<1>2. /\ attempt' = NoAttempt /\ UNCHANGED <<bound, placed, account, reply, own, grown, others>>
  BY DEF Answer, historyVars
<1>3. kind \in {"filled", "refused", "unresolved"}
  BY DEF KindOf
<1>4. \/ kind = "filled" /\ reply.within # "no" /\ units # Unread /\ tracked' = tracked + units /\ outcome' = "OPEN"
      \/ kind = "refused" /\ UNCHANGED <<tracked, stopped>>
      \/ stopped' # "no" /\ UNCHANGED tracked
  <2> HIDE DEF kind, units
  <2>1. CASE kind = "refused"
    BY <2>1 DEF Answer, kind, units
  <2>2. CASE kind = "unresolved"
    BY <2>2 DEF Answer, Halt, kind, units
  <2>3. CASE kind = "filled" /\ reply.within = "no"
    BY <2>3 DEF Answer, Halt, kind, units
  <2>4. CASE kind = "filled" /\ reply.within # "no" /\ units = Unread
    BY <2>4 DEF Answer, Halt, kind, units
  <2>5. CASE kind = "filled" /\ reply.within # "no" /\ units # Unread
    BY <2>5 DEF Answer, kind, units
  <2> QED BY <1>3, <2>1, <2>2, <2>3, <2>4, <2>5
<1>5. Bought' /\ Sized'
  BY <1>2 DEF EntryInv, Bought, Sized, RiskWithinBudget
<1>6. tracked = 0 /\ own \in Nat /\ grown \in 0..own
  BY <1>1 DEF Underway, EntryInv, EntryTypes
<1>7. CASE kind = "filled" /\ reply.within # "no" /\ units # Unread /\ tracked' = tracked + units /\ outcome' = "OPEN"
  <2>1. Measured /\ KindOf(reply.status) = "filled"
    BY <1>1, <1>7 DEF Underway
  <2>2. units \in Nat \ {0} /\ Agrees(units)
    <3>1. CASE bound = "simulator" /\ reply.held = Absent /\ reply.filled = Absent /\ reply.units = own
      <4>1. units = IF reply.status = "FILLED" THEN Positive(own) ELSE Unread
        BY <3>1 DEF PositionUnits
      <4>2. units = own /\ own > 0
        BY <1>6, <1>7, <4>1 DEF Positive
      <4>3. grown = 0
        BY <3>1 DEF EntryInv, Bought
      <4> QED BY <1>6, <3>1, <4>2, <4>3 DEF Agrees
    <3>2. CASE /\ bound = "alpaca" /\ reply.filled \in Nat \union {Unread}
               /\ \/ reply.held = Unread
                  \/ reply.held \in Nat \ {0} /\ (reply.within = "no" \/ Agrees(reply.held))
      <4>1. units = Positive(reply.held)
        BY <3>2 DEF PositionUnits, Absent, Unread
      <4>2. units = reply.held /\ reply.held \in Nat \ {0}
        BY <1>7, <3>2, <4>1 DEF Positive, Unread
      <4> QED BY <1>7, <3>2, <4>2
    <3> QED BY <2>1, <3>1, <3>2 DEF Measured
  <2> HIDE DEF units, kind
  <2>3. PICK n \in Nat \ {0} : n = units
    BY <2>2
  <2>4. tracked' = n
    BY <1>6, <1>7, <2>3
  <2>5. Agrees(n)'
    BY <1>2, <2>2, <2>3 DEF Agrees
  <2>6. Agrees(tracked)'
    BY <2>4, <2>5 DEF Agrees
  <2>7. AtRest' /\ EntryTypes'
    BY <1>2, <1>7, <2>4, <2>6 DEF AtRest, EntryInv, EntryTypes
  <2> QED BY <1>2, <1>5, <2>7 DEF EntryInv
<1>8. CASE kind = "refused" /\ UNCHANGED <<tracked, stopped>>
  <2>1. own = 0 /\ ~placed.open
    BY <1>1, <1>8 DEF Underway
  <2> QED BY <1>2, <1>5, <1>6, <1>8, <2>1 DEF EntryInv, EntryTypes, AtRest
<1>9. CASE stopped' # "no" /\ UNCHANGED tracked
  BY <1>2, <1>5, <1>9 DEF EntryInv, EntryTypes
<1> QED BY <1>4, <1>7, <1>8, <1>9

\* Every reply has its fields.
LEMMA ToldNext == Told /\ [OrderNext]_orderVars => Told'
<1> SUFFICES ASSUME Told, [OrderNext]_orderVars PROVE Told'
  OBVIOUS
<1>1. \/ reply' = reply \/ reply' = NoReply
      \/ \E st, f, u, h, w : reply' = [reply EXCEPT !.held = h, !.within = w]
                          \/ reply' = [reply EXCEPT !.held = h]
                          \/ reply' = [status |-> st, filled |-> f, units |-> u, held |-> h, within |-> w]
  <2>1. CASE FillAtMark
    <3>1. reply' = [status |-> "FILLED", filled |-> Absent, units |-> attempt.lot, held |-> Absent,
                    within |-> "unknown"]
      BY <2>1 DEF FillAtMark, NoReply
    <3> QED BY <3>1
  <2>2. CASE Unconfirmed
    <3>1. reply' = [status |-> "SUBMISSION_UNCONFIRMED", filled |-> Unread, units |-> Absent, held |-> Absent,
                    within |-> "unknown"]
      BY <2>2 DEF Unconfirmed, NoReply
    <3> QED BY <3>1
  <2>3. ASSUME NEW r \in BOOLEAN, ReadVerdict(r)
        PROVE  \E st, f, u, h, w : reply' = [status |-> st, filled |-> f, units |-> u, held |-> h, within |-> w]
    BY <2>3 DEF ReadVerdict
  <2>4. ASSUME NEW r \in BOOLEAN, ReadAfter(r)
        PROVE  \E h, w : reply' = [reply EXCEPT !.held = h, !.within = w] \/ reply' = [reply EXCEPT !.held = h]
    BY <2>4 DEF ReadAfter
  <2> QED BY <2>1, <2>2, <2>3, <2>4
       DEF OrderNext, Take, WriteSubmitting, PresendFails, RefusedUnplaced, Submit, Fill, OrderEnds, OtherTrade,
           NotCreated, Answer, orderVars
<1> QED BY <1>1 DEF Told, NoReply

\* The invariant at the start.
LEMMA EntryStarts == OrderInit => EntryInv /\ Told
<1> SUFFICES ASSUME OrderInit PROVE EntryInv /\ Told
  OBVIOUS
<1>1. EntryTypes /\ Sized /\ AtRest
  BY DEF OrderInit, EntryTypes, PlacedOrders, NoOrder, Sized, RiskWithinBudget, AtRest
<1>2. Bought
  BY NetAdds DEF OrderInit, Bought, NoOrder
<1>3. Told
  BY DEF OrderInit, Told, NoReply
<1> QED BY <1>1, <1>2, <1>3 DEF EntryInv, OrderInit

\* And after every step.
LEMMA EntryKeeps == EntryInv /\ Told /\ [OrderNext]_orderVars => (EntryInv /\ Told)'
<1> SUFFICES ASSUME EntryInv, Told, [OrderNext]_orderVars PROVE EntryInv'
  BY ToldNext
<1>1. CASE UNCHANGED orderVars
  BY <1>1 DEF orderVars, tradeVars, historyVars, EntryInv, EntryTypes, Bought, Sized, RiskWithinBudget, Underway,
     Measured, Agrees, AtRest
<1> QED
  BY <1>1, TakeKeeps, RecordKeeps, FillAtMarkKeeps, SubmitKeeps, FillKeeps, EndKeeps, OtherKeeps, UnansweredKeeps,
     VerdictKeeps, AfterKeeps, AnswerKeeps
     DEF OrderNext

\* EntryTellsTruth: what the engine books is what its orders had bought when the account was
\* read, what it calls refused bought nothing, and no order risks more than its budget, for any
\* prices, budgets, grids and fees (execute, _position_units, units_check).
THEOREM EntriesAreTold == OrderSpec => []EntryTellsTruth
<1>1. EntryInv => EntryTellsTruth
  <2> SUFFICES ASSUME EntryInv PROVE EntryTellsTruth
    OBVIOUS
  <2>1. RiskWithinBudget
    BY DEF EntryInv, Sized
  <2>2. BoughtIsTracked
    <3> SUFFICES ASSUME attempt = NoAttempt, stopped = "no"
                 PROVE  /\ Away(tracked, own - grown) <= UnitsWindow \/ NothingToCompare
                        /\ outcome \in {"REJECTED", "none"} => own = 0
      BY DEF BoughtIsTracked
    <3>1. AtRest /\ own \in Nat /\ grown \in 0..own /\ tracked \in Nat /\ UnitsWindow \in Nat
      BY OrderAssumption DEF EntryInv, EntryTypes
    <3>2. CASE tracked = 0 /\ own = 0
      BY <3>1, <3>2 DEF Away
    <3>3. CASE tracked > 0 /\ outcome = "OPEN" /\ Agrees(tracked)
      <4>1. CASE others = 0
        BY <3>1, <3>3, <4>1 DEF Agrees, Away
      <4>2. CASE others # 0
        <5>1. others > 0 /\ bound = "alpaca"
          BY <4>2, OrderAssumption DEF EntryInv, EntryTypes, Bought
        <5>2. CASE reply.filled # Unread /\ NetOf(reply.filled) = own - grown
          <6>1. Away(own - grown, tracked) <= UnitsWindow
            BY <3>3, <5>1, <5>2 DEF Agrees
          <6>2. Away(own - grown, tracked) = Away(tracked, own - grown)
            BY <3>1, AwayType
          <6> QED BY <3>3, <6>1, <6>2
        <5> QED BY <3>3, <5>1, <5>2 DEF NothingToCompare
      <4> QED BY <4>1, <4>2
    <3> QED BY <3>1, <3>2, <3>3 DEF AtRest
  <2> QED BY <2>1, <2>2 DEF EntryTellsTruth
<1> QED
  BY <1>1, EntryStarts, EntryKeeps, PTL DEF OrderSpec

-----------------------------------------------------------------------------
(* The closing of the other brokers' accounts.  A pull goes through the    *)
(* accounts in order, so every position open since it came is answered for *)
(* behind it, or its account is still ahead.                               *)

\* A position of the pull has its row, or its account failed or did not see its book.
AnsweredFor(p) == p \in DOMAIN results.rows \/ Home[p] \in results.errors \union blind

\* The accounts of the pull before the one at hand, and those from it on.
PassedBy(p) == \E j \in DOMAIN adapters : j < sweep.at /\ adapters[j] = Home[p]
Ahead(p) == \E j \in DOMAIN adapters : j >= sweep.at /\ adapters[j] = Home[p]
Past(p) == \E j \in DOMAIN adapters : j > sweep.at /\ adapters[j] = Home[p]

Rows == UNION {[S -> Dispositions] : S \in SUBSET Positions}

\* What the records are.
SweepShape ==
  /\ adapters \in Seq(Providers)
  /\ \A i, j \in DOMAIN adapters : adapters[i] = adapters[j] => i = j
  /\ open \subseteq Positions /\ whole \subseteq open
  /\ sweep \in [stage : {"idle", "link", "list", "close", "ended", "cut"}, at : Nat, rows : Rows, wire : Nat]
  /\ results \in [rows : Rows, errors : SUBSET Providers]
  /\ published \in [Providers -> Rows]
  /\ Sweeping => sweep.at \in DOMAIN adapters
  /\ sweep.stage # "close" => sweep.rows = NoRows

\* The rows of the account at hand are published, and its closes are sent for rows it has.
Attempting ==
  sweep.stage = "close" =>
    /\ sweep.rows = published[adapters[sweep.at]]
    /\ \A p \in DOMAIN sweep.rows : Home[p] = adapters[sweep.at]
    /\ sweep.wire \in DOMAIN sweep.rows
    /\ \A p \in DOMAIN sweep.rows : sweep.rows[p] = "NOT_ATTEMPTED" => p \notin sent

\* What was written: rows of accounts behind, closes that were sent, closes accepted.
WrittenDown ==
  /\ Sweeping => \A p \in DOMAIN results.rows : PassedBy(p)
  /\ sent \subseteq DOMAIN results.rows \union DOMAIN sweep.rows
  /\ \A p \in DOMAIN results.rows : results.rows[p] = "NOT_ATTEMPTED" => sweep.stage = "cut" /\ p \notin sent
  /\ \A p \in DOMAIN results.rows : results.rows[p] = "CLOSED" => p \in accepted
  /\ \A a \in Providers : \A p \in DOMAIN published[a] : published[a][p] = "CLOSED" => p \in accepted

\* Each position open since the pull came is answered for, or its account is to come.
Owed ==
  /\ sweep.stage \in {"link", "list"} => \A p \in whole : AnsweredFor(p) \/ Ahead(p)
  /\ sweep.stage = "close" => \A p \in whole : AnsweredFor(p) \/ Past(p) \/ p \in DOMAIN sweep.rows
  /\ sweep.stage = "ended" => \A p \in whole : AnsweredFor(p)

\* The deletion: its position is open at an account still to be asked, or something speaks
\* against telling that it is not there.
Deleting ==
  /\ deletion \in [stage : {"idle", "asking", "closing", "told"}, pos : Positions \union {0}, at : Nat,
                   listed : BOOLEAN, unasked : BOOLEAN, told : {0, 204, 404, 500, 502}]
  /\ Asking => deletion.at \in DOMAIN adapters
  /\ Asking /\ kept => deletion.pos \in open
  /\ deletion.stage = "asking" /\ kept =>
       deletion.listed \/ deletion.unasked \/ unseen
       \/ \E j \in DOMAIN adapters : j >= deletion.at /\ adapters[j] = Home[deletion.pos]
  /\ kept \in BOOLEAN /\ unseen \in BOOLEAN
  /\ ManualCloseTellsTruth

\* The pull alone, and with the deletion.
Pulling == SweepShape /\ Attempting /\ WrittenDown /\ Owed
SweepInv == Pulling /\ Deleting

\* The inductive invariant holds the property.
LEMMA TellsTruth == SweepInv => AccountsTellTheTruth
<1> SUFFICES ASSUME SweepInv PROVE AccountsTellTheTruth
  OBVIOUS
<1>1. sent \subseteq DOMAIN RowsSoFar
  <2>1. CASE Sweeping /\ sweep.stage = "close"
    <3>1. DOMAIN RowsSoFar = DOMAIN sweep.rows \union DOMAIN results.rows
      BY <2>1 DEF SweepInv, Pulling, Attempting, RowsSoFar, Over
    <3> QED BY <3>1 DEF SweepInv, Pulling, WrittenDown
  <2>2. CASE sweep.stage # "close"
    <3>1. sent \subseteq DOMAIN results.rows
      BY <2>2 DEF SweepInv, Pulling, WrittenDown, SweepShape, NoRows
    <3>2. DOMAIN results.rows \subseteq DOMAIN RowsSoFar
      BY DEF RowsSoFar, Over
    <3> QED BY <3>1, <3>2
  <2> QED BY <2>1, <2>2 DEF Sweeping
<1>2. \A p \in DOMAIN RowsSoFar : RowsSoFar[p] = "CLOSED" => p \in accepted
  <2>1. CASE Sweeping
    <3>1. adapters[sweep.at] \in Providers
      BY <2>1 DEF SweepInv, Pulling, SweepShape
    <3> QED BY <2>1, <3>1 DEF SweepInv, Pulling, WrittenDown, RowsSoFar, Over
  <2>2. CASE ~Sweeping
    BY <2>2 DEF SweepInv, Pulling, WrittenDown, RowsSoFar, Over, NoRows
  <2> QED BY <2>1, <2>2
<1>3. sweep.stage \in {"ended", "cut"} =>
        /\ \A p \in DOMAIN results.rows :
              results.rows[p] = "NOT_ATTEMPTED" => p \notin sent /\ sweep.stage = "cut"
        /\ sweep.stage = "ended" =>
              \A p \in whole : p \in DOMAIN results.rows \/ Home[p] \in results.errors \union blind
  BY DEF SweepInv, Pulling, WrittenDown, Owed, AnsweredFor
<1>4. ManualCloseTellsTruth
  BY DEF SweepInv, Deleting
<1> QED BY <1>1, <1>2, <1>3, <1>4 DEF AccountsTellTheTruth, SweepTellsTruth

\* The least of some naturals.
LEMMA MinOf == ASSUME NEW S, S \subseteq Nat, S # {} PROVE Min(S) \in S /\ \A y \in S : Min(S) <= y
<1>1. \E x \in S : \A y \in S : x <= y
  BY Least
<1> QED BY <1>1, Zenon DEF Min

\* On to the next account that is asked: those passed by are errors.
LEMMA GoneOn ==
  ASSUME adapters \in Seq(Providers), NEW i \in 1..(Len(adapters) + 1), NEW told, GoOn(i, told)
  PROVE  \E stop \in i..(Len(adapters) + 1) : \E onto \in {"link", "list", "ended"} :
           /\ sweep' = [stage |-> onto, at |-> stop, rows |-> NoRows, wire |-> 0]
           /\ onto = "ended" <=> stop = Len(adapters) + 1
           /\ results' = [told EXCEPT !.errors = told.errors \union {adapters[j] : j \in i..(stop - 1)}]
<1> DEFINE end == Len(adapters) + 1
           S == {j \in i..(end - 1) : ~Refuses(adapters[j])} \union {end}
           stop == Min(S)
<1>1. S \subseteq Nat /\ S # {} /\ S \subseteq i..end
  OBVIOUS
<1>2. stop \in S
  BY <1>1, MinOf
<1>3. /\ results' = [told EXCEPT !.errors = told.errors \union {adapters[j] : j \in i..(stop - 1)}]
      /\ sweep' = [stage |-> IF stop = end THEN "ended" ELSE IF Kind[adapters[stop]] = "mt5" THEN "link" ELSE "list",
                   at |-> stop, rows |-> NoRows, wire |-> 0]
  BY Zenon DEF GoOn
<1> HIDE DEF S, stop
<1>4. stop \in i..end
  BY <1>1, <1>2
<1>5. PICK onto : onto = IF stop = end THEN "ended" ELSE IF Kind[adapters[stop]] = "mt5" THEN "link" ELSE "list"
  OBVIOUS
<1>6. onto \in {"link", "list", "ended"} /\ (onto = "ended" <=> stop = end)
  BY <1>5
<1>7. sweep' = [stage |-> onto, at |-> stop, rows |-> NoRows, wire |-> 0]
  BY <1>3, <1>5, Zenon
<1> QED BY <1>3, <1>4, <1>6, <1>7, Zenon

\* What a pull owes after it went on from an account: all behind it has been answered for.
LEMMA WentOn ==
  ASSUME adapters \in Seq(Providers), \A k, l \in DOMAIN adapters : adapters[k] = adapters[l] => k = l,
         adapters' = adapters,
         NEW i \in 1..(Len(adapters) + 1), NEW told \in [rows : Rows, errors : SUBSET Providers], GoOn(i, told),
         open' \subseteq Positions, whole' \subseteq open', published' \in [Providers -> Rows],
         \A p \in DOMAIN told.rows : \E j \in DOMAIN adapters : j < i /\ adapters[j] = Home[p],
         sent' \subseteq DOMAIN told.rows,
         \A p \in DOMAIN told.rows : told.rows[p] # "NOT_ATTEMPTED" /\ (told.rows[p] = "CLOSED" => p \in accepted'),
         \A a \in Providers : \A p \in DOMAIN published'[a] : published'[a][p] = "CLOSED" => p \in accepted',
         \A p \in whole' : \/ p \in DOMAIN told.rows \/ Home[p] \in told.errors \union blind'
                           \/ \E j \in DOMAIN adapters : j >= i /\ adapters[j] = Home[p]
  PROVE  Pulling'
<1>0. adapters \in Seq(Providers) /\ DOMAIN adapters = 1..Len(adapters) /\ Len(adapters) \in Nat
  OBVIOUS
<1>1. PICK stop \in i..(Len(adapters) + 1) : \E onto \in {"link", "list", "ended"} :
           /\ sweep' = [stage |-> onto, at |-> stop, rows |-> NoRows, wire |-> 0]
           /\ onto = "ended" <=> stop = Len(adapters) + 1
           /\ results' = [told EXCEPT !.errors = told.errors \union {adapters[j] : j \in i..(stop - 1)}]
  BY GoneOn, Zenon
<1>2. PICK onto \in {"link", "list", "ended"} :
           /\ sweep' = [stage |-> onto, at |-> stop, rows |-> NoRows, wire |-> 0]
           /\ onto = "ended" <=> stop = Len(adapters) + 1
           /\ results' = [told EXCEPT !.errors = told.errors \union {adapters[j] : j \in i..(stop - 1)}]
  BY <1>1
<1> DEFINE passed == {adapters[j] : j \in i..(stop - 1)}
<1>3. passed \subseteq Providers
  BY <1>0
<1>4. PICK rows \in Rows, errors \in SUBSET Providers : told = [rows |-> rows, errors |-> errors]
  OBVIOUS
<1>5. results' = [rows |-> rows, errors |-> errors \union passed]
  BY <1>2, <1>4
<1>6. \A j \in i..(stop - 1) : adapters[j] \in passed
  OBVIOUS
<1> HIDE DEF passed
<1>7. NoRows \in Rows
  <2>1. NoRows \in [{} -> Dispositions]
    BY DEF NoRows
  <2>2. [{} -> Dispositions] \in {[S -> Dispositions] : S \in SUBSET Positions}
    <3>1. {} \in SUBSET Positions
      OBVIOUS
    <3> QED BY <3>1, Zenon
  <2> QED BY <2>1, <2>2, Zenon DEF Rows
<1>8. SweepShape'
  <2>1. sweep' \in [stage : {"idle", "link", "list", "close", "ended", "cut"}, at : Nat, rows : Rows, wire : Nat]
    BY <1>0, <1>2, <1>7
  <2>2. results' \in [rows : Rows, errors : SUBSET Providers]
    BY <1>3, <1>4, <1>5
  <2>3. Sweeping' => sweep'.at \in DOMAIN adapters'
    BY <1>0, <1>2 DEF Sweeping
  <2>4. sweep'.stage # "close" /\ sweep'.rows = NoRows
    BY <1>2
  <2> QED BY <2>1, <2>2, <2>3, <2>4 DEF SweepShape
<1>9. Attempting'
  BY <1>2 DEF Attempting
<1>10. WrittenDown'
  <2>1. results'.rows = told.rows /\ sweep'.rows = NoRows /\ sweep'.at = stop
    BY <1>2, <1>4, <1>5
  <2>2. \A p \in DOMAIN told.rows : \E j \in DOMAIN adapters : j < stop /\ adapters[j] = Home[p]
    BY <1>0
  <2> QED BY <2>1, <2>2 DEF WrittenDown, PassedBy
<1>11. Owed'
  <2>1. results'.rows = told.rows /\ results'.errors = told.errors \union passed /\ sweep'.at = stop /\ sweep'.stage = onto
    BY <1>2, <1>4, <1>5
  <2>2. \A p \in whole' : AnsweredFor(p)' \/ \E j \in DOMAIN adapters : j >= stop /\ adapters[j] = Home[p]
    BY <1>0, <1>6, <2>1 DEF AnsweredFor
  <2>3. onto = "ended" => \A p \in whole' : AnsweredFor(p)'
    BY <1>0, <1>2, <2>2
  <2> QED BY <2>1, <2>2, <2>3 DEF Owed, Ahead
<1> QED BY <1>8, <1>9, <1>10, <1>11 DEF Pulling

\* The rows of two records of rows.
LEMMA OverRows ==
  ASSUME NEW r \in Rows, NEW q \in Rows
  PROVE  /\ Over(r, q) \in Rows /\ DOMAIN Over(r, q) = DOMAIN r \union DOMAIN q
         /\ \A p \in DOMAIN r : Over(r, q)[p] = r[p]
         /\ \A p \in DOMAIN q : p \notin DOMAIN r => Over(r, q)[p] = q[p]
<1>1. PICK S \in SUBSET Positions : r \in [S -> Dispositions]
  BY DEF Rows
<1>2. PICK T \in SUBSET Positions : q \in [T -> Dispositions]
  BY DEF Rows
<1>3. Over(r, q) \in [S \union T -> Dispositions]
  BY <1>1, <1>2 DEF Over
<1>4. S \union T \in SUBSET Positions
  OBVIOUS
<1>5. Over(r, q) \in Rows
  BY <1>3, <1>4 DEF Rows
<1> QED BY <1>5 DEF Over

\* A row's loop: what is reached is failed, the rest is as it was.
LEMMA FailedRows ==
  ASSUME NEW r \in Rows, NEW next \in Nat
  PROVE  /\ Failed(r, next) \in Rows /\ DOMAIN Failed(r, next) = DOMAIN r
         /\ \A p \in DOMAIN r : Failed(r, next)[p] \in {r[p], "FAILED"}
         /\ next \in DOMAIN r => Failed(r, next)[next] = "FAILED"
         /\ next = 0 => \A p \in DOMAIN r \intersect Nameless : Failed(r, next)[p] = "FAILED"
<1>1. PICK S \in SUBSET Positions : r \in [S -> Dispositions]
  BY DEF Rows
<1>2. Failed(r, next) \in [S -> Dispositions]
  BY <1>1 DEF Failed, Dispositions
<1>3. Failed(r, next) \in Rows
  BY <1>2 DEF Rows
<1> QED BY <1>1, <1>3 DEF Failed

\* The loop over the rows of the account at hand, from its listing or from the answer of a close.
LEMMA AttemptKeeps ==
  ASSUME Pulling, sweep.stage \in {"list", "close"}, NEW rows \in Rows, Attempt(rows),
         adapters' = adapters, open' = open, whole' = whole, accepted \subseteq accepted', blind \subseteq blind',
         \A p \in DOMAIN rows : Home[p] = adapters[sweep.at],
         \A p \in DOMAIN rows : rows[p] = "NOT_ATTEMPTED" => p \notin sent,
         \A p \in DOMAIN rows : rows[p] = "CLOSED" => p \in accepted',
         sent \subseteq DOMAIN results.rows \union DOMAIN rows,
         \A p \in whole : AnsweredFor(p) \/ Past(p) \/ p \in DOMAIN rows \/ Home[p] \in blind'
  PROVE  Pulling'
<1> DEFINE a == adapters[sweep.at]
           named == {p \in DOMAIN rows \ Nameless : rows[p] = "NOT_ATTEMPTED"}
           next == IF named = {} THEN 0 ELSE Min(named)
           reached == Failed(rows, next)
<1>1. /\ adapters \in Seq(Providers) /\ sweep.at \in 1..Len(adapters) /\ Len(adapters) \in Nat
      /\ a \in Providers /\ published \in [Providers -> Rows] /\ results.rows \in Rows
      /\ results \in [rows : Rows, errors : SUBSET Providers]
      /\ \A k, l \in DOMAIN adapters : adapters[k] = adapters[l] => k = l
  BY DEF Pulling, SweepShape, Sweeping
<1>2. DOMAIN rows \subseteq Positions /\ Positions \subseteq Nat \ {0} /\ \A p \in DOMAIN rows : rows[p] \in Dispositions
  <2>1. Positions \subseteq Nat \ {0}
    BY SweepAssumption
  <2>2. PICK S \in SUBSET Positions : rows \in [S -> Dispositions]
    BY DEF Rows
  <2> QED BY <2>1, <2>2
<1>3. named # {} => next \in named
  <2>1. named \subseteq Nat
    BY <1>2
  <2> QED BY <2>1, MinOf
<1>4. next \in Nat
  BY <1>2, <1>3
<1>5. /\ published' = [published EXCEPT ![a] = reached]
      /\ named = {} => /\ GoOn(sweep.at + 1, [results EXCEPT !.rows = Over(reached, results.rows)])
                       /\ sent' = sent
      /\ named # {} => /\ sweep' = [sweep EXCEPT !.stage = "close", !.rows = reached, !.wire = next]
                       /\ sent' = sent \union {next} /\ results' = results
  BY Zenon DEF Attempt
<1>6. /\ reached \in Rows /\ DOMAIN reached = DOMAIN rows
      /\ \A p \in DOMAIN rows : reached[p] \in {rows[p], "FAILED"}
      /\ named # {} => next \in DOMAIN rows /\ reached[next] = "FAILED"
      /\ named = {} => \A p \in DOMAIN rows : reached[p] # "NOT_ATTEMPTED"
  <2>1. /\ reached \in Rows /\ DOMAIN reached = DOMAIN rows
        /\ \A p \in DOMAIN rows : reached[p] \in {rows[p], "FAILED"}
        /\ next \in DOMAIN rows => reached[next] = "FAILED"
        /\ next = 0 => \A p \in DOMAIN rows \intersect Nameless : reached[p] = "FAILED"
    BY <1>4, FailedRows
  <2>2. named # {} => next \in DOMAIN rows
    BY <1>3
  <2>3. named = {} => \A p \in DOMAIN rows : reached[p] # "NOT_ATTEMPTED"
    BY <2>1
  <2> HIDE DEF named, next, reached
  <2> QED BY <2>1, <2>2, <2>3
<1> HIDE DEF named, next, reached, a
<1>7. /\ Over(reached, results.rows) \in Rows
      /\ DOMAIN Over(reached, results.rows) = DOMAIN rows \union DOMAIN results.rows
      /\ \A p \in DOMAIN rows : Over(reached, results.rows)[p] = reached[p]
      /\ \A p \in DOMAIN results.rows : p \notin DOMAIN rows => Over(reached, results.rows)[p] = results.rows[p]
  <2>1. PICK r \in Rows : r = reached
    BY <1>6
  <2>2. PICK q \in Rows : q = results.rows
    BY <1>1
  <2>3. /\ Over(r, q) \in Rows /\ DOMAIN Over(r, q) = DOMAIN r \union DOMAIN q
        /\ \A p \in DOMAIN r : Over(r, q)[p] = r[p]
        /\ \A p \in DOMAIN q : p \notin DOMAIN r => Over(r, q)[p] = q[p]
    BY OverRows
  <2> QED BY <1>6, <2>1, <2>2, <2>3
<1>8. PICK taken : taken = Over(reached, results.rows)
  OBVIOUS
<1>9. published' \in [Providers -> Rows]
  BY <1>1, <1>5, <1>6
<1>10. \A b \in Providers : \A p \in DOMAIN published'[b] : published'[b][p] = "CLOSED" => p \in accepted'
  <2> TAKE b \in Providers
  <2>1. CASE b = a
    <3>1. published'[b] = reached
      BY <1>1, <1>5, <2>1
    <3> QED BY <3>1, <1>6
  <2>2. CASE b # a
    <3>1. published'[b] = published[b]
      BY <1>1, <1>5, <2>2
    <3> QED BY <3>1 DEF Pulling, WrittenDown
  <2> QED BY <2>1, <2>2
<1>11. CASE named = {}
  <2>1. PICK told : told = [results EXCEPT !.rows = taken]
    OBVIOUS
  <2>2. told \in [rows : Rows, errors : SUBSET Providers] /\ told.rows = taken /\ told.errors = results.errors
    BY <1>1, <1>7, <1>8, <2>1
  <2>3. GoOn(sweep.at + 1, told)
    BY <1>5, <1>8, <1>11, <2>1, Zenon
  <2>4. PICK i : i = sweep.at + 1
    OBVIOUS
  <2>5. i \in 1..(Len(adapters) + 1) /\ GoOn(i, told)
    BY <1>1, <2>3, <2>4
  <2>6. \A p \in DOMAIN told.rows : \E j \in DOMAIN adapters : j < i /\ adapters[j] = Home[p]
    <3> TAKE p \in DOMAIN told.rows
    <3>1. CASE p \in DOMAIN rows
      BY <3>1, <1>1, <2>4
    <3>2. CASE p \in DOMAIN results.rows
      <4>1. PICK j \in DOMAIN adapters : j < sweep.at /\ adapters[j] = Home[p]
        BY <3>2 DEF Pulling, WrittenDown, PassedBy, Sweeping
      <4>2. j < i
        BY <4>1, <1>1, <2>4
      <4> QED BY <4>1, <4>2
    <3> QED BY <3>1, <3>2, <2>2, <1>7, <1>8
  <2>7. sent' \subseteq DOMAIN told.rows
    BY <1>5, <1>7, <1>8, <1>11, <2>2
  <2>8. \A p \in DOMAIN told.rows : told.rows[p] # "NOT_ATTEMPTED" /\ (told.rows[p] = "CLOSED" => p \in accepted')
    <3> TAKE p \in DOMAIN told.rows
    <3>1. CASE p \in DOMAIN rows
      BY <3>1, <1>6, <1>7, <1>8, <1>11, <2>2
    <3>2. CASE p \in DOMAIN results.rows /\ p \notin DOMAIN rows
      BY <3>2, <1>7, <1>8, <2>2 DEF Pulling, WrittenDown
    <3> QED BY <3>1, <3>2, <2>2, <1>7, <1>8
  <2>9. \A p \in whole' : \/ p \in DOMAIN told.rows \/ Home[p] \in told.errors \union blind'
                          \/ \E j \in DOMAIN adapters : j >= i /\ adapters[j] = Home[p]
    <3> TAKE p \in whole'
    <3>1. CASE AnsweredFor(p)
      BY <3>1, <1>7, <1>8, <2>2 DEF AnsweredFor
    <3>2. CASE Past(p)
      <4>1. PICK j \in DOMAIN adapters : j > sweep.at /\ adapters[j] = Home[p]
        BY <3>2 DEF Past
      <4>2. j >= i
        BY <4>1, <1>1, <2>4
      <4> QED BY <4>1, <4>2
    <3>3. CASE p \in DOMAIN rows \/ Home[p] \in blind'
      BY <3>3, <1>7, <1>8, <2>2
    <3> QED BY <3>1, <3>2, <3>3
  <2>10. open' \subseteq Positions /\ whole' \subseteq open'
    BY DEF Pulling, SweepShape
  <2> QED BY <1>1, <1>9, <1>10, <2>2, <2>5, <2>6, <2>7, <2>8, <2>9, <2>10, WentOn
<1>12. CASE named # {}
  <2>1. /\ sweep'.stage = "close" /\ sweep'.rows = reached /\ sweep'.wire = next /\ sweep'.at = sweep.at
        /\ sweep' \in [stage : {"idle", "link", "list", "close", "ended", "cut"}, at : Nat, rows : Rows, wire : Nat]
    BY <1>4, <1>5, <1>6, <1>12 DEF Pulling, SweepShape
  <2>2. sent' = sent \union {next} /\ results' = results
    BY <1>5, <1>12
  <2>3. SweepShape'
    BY <1>1, <1>9, <2>1, <2>2 DEF Pulling, SweepShape, Sweeping
  <2>4. published'[a] = reached
    BY <1>1, <1>5
  <2>5. Attempting'
    <3>1. sweep'.rows = published'[adapters'[sweep'.at]]
      BY <2>1, <2>4 DEF a
    <3>2. \A p \in DOMAIN reached : reached[p] = "NOT_ATTEMPTED" => p \notin sent'
      BY <1>6, <1>12, <2>2
    <3> QED BY <1>6, <1>12, <2>1, <3>1, <3>2 DEF Attempting
  <2>6. WrittenDown'
    <3>1. \A p \in DOMAIN results.rows : PassedBy(p)'
      BY <2>1 DEF Pulling, WrittenDown, Sweeping, PassedBy
    <3>2. sent' \subseteq DOMAIN results.rows \union DOMAIN reached
      BY <1>6, <1>12, <2>2
    <3>3. \A p \in DOMAIN results.rows : results.rows[p] # "NOT_ATTEMPTED" /\ (results.rows[p] = "CLOSED" => p \in accepted')
      BY DEF Pulling, WrittenDown
    <3> QED BY <1>10, <2>1, <2>2, <3>1, <3>2, <3>3 DEF WrittenDown
  <2>7. Owed'
    <3>1. \A p \in whole' : AnsweredFor(p)' \/ Past(p)' \/ p \in DOMAIN reached
      BY <1>6, <2>1, <2>2 DEF AnsweredFor, Past
    <3> QED BY <2>1, <3>1 DEF Owed
  <2> QED BY <2>3, <2>5, <2>6, <2>7 DEF Pulling
<1> QED BY <1>11, <1>12

\* A step that is none of the pull's leaves what it owes.
LEMMA PullRests ==
  ASSUME Pulling, adapters' = adapters \/ ~Sweeping,
         adapters' \in Seq(Providers), \A i, j \in DOMAIN adapters' : adapters'[i] = adapters'[j] => i = j,
         UNCHANGED <<sweep, results, sent, blind>>,
         \A a \in Providers : published'[a] = published[a] \/ (published'[a] = NoRows /\ ~Sweeping),
         published' \in [Providers -> Rows],
         open' \subseteq Positions, whole' \subseteq whole \intersect open', accepted \subseteq accepted'
  PROVE  Pulling'
<1>1. SweepShape'
  BY DEF Pulling, SweepShape, Sweeping
<1>2. Attempting'
  <2>1. sweep.stage = "close" => adapters' = adapters /\ published'[adapters[sweep.at]] = published[adapters[sweep.at]]
    BY DEF Pulling, SweepShape, Sweeping
  <2> QED BY <2>1 DEF Pulling, Attempting
<1>3. WrittenDown'
  <2>1. \A a \in Providers : \A p \in DOMAIN published'[a] : published'[a][p] = "CLOSED" => p \in accepted'
    <3> TAKE a \in Providers
    <3>1. CASE published'[a] = published[a]
      BY <3>1 DEF Pulling, WrittenDown
    <3>2. CASE published'[a] = NoRows
      BY <3>2 DEF NoRows
    <3> QED BY <3>1, <3>2
  <2>2. Sweeping' => \A p \in DOMAIN results.rows : PassedBy(p)'
    BY DEF Pulling, WrittenDown, Sweeping, PassedBy
  <2> QED BY <2>1, <2>2 DEF Pulling, WrittenDown
<1>4. Owed'
  <2>1. \A p \in whole : AnsweredFor(p) => AnsweredFor(p)'
    BY DEF AnsweredFor
  <2>2. Sweeping => \A p \in whole : (Ahead(p) => Ahead(p)') /\ (Past(p) => Past(p)')
    BY DEF Ahead, Past
  <2> QED BY <2>1, <2>2 DEF Pulling, Owed, Sweeping
<1> QED BY <1>1, <1>2, <1>3, <1>4 DEF Pulling

\* The venues.
LEMMA VenuesKeepPull ==
  ASSUME Pulling, (\E p \in Positions : Closes(p) \/ Opens(p)) \/ (\E a \in Providers : Falls(a) \/ Returns(a))
  PROVE  Pulling'
<1>1. adapters' = adapters /\ UNCHANGED <<sweep, results, published, sent, blind, accepted>>
  BY DEF Closes, Opens, Falls, Returns, pullVars
<1>2. open' \subseteq Positions /\ whole' \subseteq whole \intersect open'
  BY DEF Closes, Opens, Falls, Returns, pullVars, Pulling, SweepShape
<1>3. adapters \in Seq(Providers) /\ published \in [Providers -> Rows]
      /\ \A i, j \in DOMAIN adapters : adapters[i] = adapters[j] => i = j
  BY DEF Pulling, SweepShape
<1> QED BY <1>1, <1>2, <1>3, PullRests

\* A sequence without one of its members.
LEMMA RemovedOnce ==
  ASSUME NEW S, NEW s \in Seq(S), NEW k \in DOMAIN s, \A i, j \in DOMAIN s : s[i] = s[j] => i = j
  PROVE  /\ RemoveAt(s, k) \in Seq(S)
         /\ \A i, j \in DOMAIN RemoveAt(s, k) : RemoveAt(s, k)[i] = RemoveAt(s, k)[j] => i = j
<1>1. k \in 1..Len(s) /\ Len(s) \in Nat
  OBVIOUS
<1> DEFINE r == SubSeq(s, 1, k - 1)
           t == SubSeq(s, k + 1, Len(s))
<1>2. r \in Seq(S) /\ Len(r) = k - 1 /\ \A i \in 1..(k - 1) : r[i] = s[i]
  BY <1>1
<1>3. t \in Seq(S) /\ Len(t) = Len(s) - k /\ \A i \in 1..(Len(s) - k) : t[i] = s[k + i]
  BY <1>1
<1>4. RemoveAt(s, k) = r \o t
  BY DEF RemoveAt
<1> HIDE DEF r, t
<1>5. RemoveAt(s, k) \in Seq(S) /\ Len(RemoveAt(s, k)) = Len(s) - 1
  BY <1>1, <1>2, <1>3, <1>4
<1>6. \A i \in 1..(Len(s) - 1) : RemoveAt(s, k)[i] = IF i < k THEN s[i] ELSE s[i + 1]
  BY <1>1, <1>2, <1>3, <1>4
<1>7. ASSUME NEW i \in DOMAIN RemoveAt(s, k), NEW j \in DOMAIN RemoveAt(s, k),
             RemoveAt(s, k)[i] = RemoveAt(s, k)[j]
      PROVE  i = j
  <2>1. i \in 1..(Len(s) - 1) /\ j \in 1..(Len(s) - 1)
    BY <1>5
  <2> DEFINE Source(h) == IF h < k THEN h ELSE h + 1
  <2>2. Source(i) \in 1..Len(s) /\ Source(j) \in 1..Len(s)
    BY <1>1, <2>1
  <2>3. RemoveAt(s, k)[i] = s[Source(i)] /\ RemoveAt(s, k)[j] = s[Source(j)]
    BY <1>6, <2>1
  <2>4. Source(i) = Source(j)
    <3>1. \A u, v \in 1..Len(s) : s[u] = s[v] => u = v
      OBVIOUS
    <3>2. s[Source(i)] = s[Source(j)]
      BY <1>7, <2>3, Zenon
    <3> HIDE DEF Source
    <3> QED BY <2>2, <3>1, <3>2, Zenon
  <2> QED BY <1>1, <2>1, <2>4
<1> QED BY <1>5, <1>7

\* Connections are made and dropped while nobody iterates over them.
LEMMA ConnectionsKeepPull ==
  ASSUME Pulling, NEW a \in Providers, Connect(a) \/ Disconnect(a)
  PROVE  Pulling'
<1>0. /\ adapters \in Seq(Providers) /\ published \in [Providers -> Rows] /\ ~Sweeping
      /\ \A i, j \in DOMAIN adapters : adapters[i] = adapters[j] => i = j
      /\ open \subseteq Positions /\ whole \subseteq open
  BY DEF Pulling, SweepShape, Connect, Disconnect
<1>1. CASE Connect(a)
  <2>1. /\ adapters' = Append(adapters, a) /\ \A i \in DOMAIN adapters : adapters[i] # a
        /\ published' = [published EXCEPT ![a] = NoRows]
        /\ UNCHANGED <<sweep, results, sent, blind, accepted, open, whole>>
    BY <1>1 DEF Connect
  <2>2. adapters' \in Seq(Providers) /\ \A i, j \in DOMAIN adapters' : adapters'[i] = adapters'[j] => i = j
    BY <1>0, <2>1
  <2>3. NoRows \in Rows
    <3>1. NoRows \in [{} -> Dispositions] /\ {} \in SUBSET Positions
      BY DEF NoRows
    <3> QED BY <3>1 DEF Rows
  <2> QED BY <1>0, <2>1, <2>2, <2>3, PullRests
<1>2. CASE Disconnect(a)
  <2>1. /\ \E i \in DOMAIN adapters : adapters' = RemoveAt(adapters, i)
        /\ UNCHANGED <<sweep, results, published, sent, blind, accepted, open, whole>>
    BY <1>2 DEF Disconnect, pullVars
  <2>2. PICK k \in DOMAIN adapters : adapters' = RemoveAt(adapters, k)
    BY <2>1
  <2>3. adapters' \in Seq(Providers) /\ \A i, j \in DOMAIN adapters' : adapters'[i] = adapters'[j] => i = j
    BY <1>0, <2>2, RemovedOnce
  <2> QED BY <1>0, <2>1, <2>3, PullRests
<1> QED BY <1>1, <1>2

\* A pull begins at the first account.
LEMMA PullKeepsPull == ASSUME Pulling, Pull PROVE Pulling'
<1>1. PICK told : told = [rows |-> NoRows, errors |-> {}]
  OBVIOUS
<1>2. NoRows \in Rows /\ DOMAIN NoRows = {}
  <2>1. NoRows \in [{} -> Dispositions] /\ {} \in SUBSET Positions
    BY DEF NoRows
  <2> QED BY <2>1 DEF Rows
<1>3. told \in [rows : Rows, errors : SUBSET Providers] /\ told.rows = NoRows
  BY <1>1, <1>2
<1>4. PICK i : i = 1
  OBVIOUS
<1>5. GoOn(i, told) /\ sent' = {} /\ published' = published /\ accepted' = accepted /\ UNCHANGED venueVars
      /\ whole' = {p \in open : \E j \in DOMAIN adapters : adapters[j] = Home[p]}
  BY <1>1, <1>4, Zenon DEF Pull
<1>6. /\ adapters \in Seq(Providers) /\ \A k, l \in DOMAIN adapters : adapters[k] = adapters[l] => k = l
      /\ adapters' = adapters /\ open' = open /\ open \subseteq Positions /\ published \in [Providers -> Rows]
      /\ i \in 1..(Len(adapters) + 1)
  BY <1>4, <1>5 DEF Pulling, SweepShape, venueVars
<1>7. \A p \in whole' : \E j \in DOMAIN adapters : j >= i /\ adapters[j] = Home[p]
  BY <1>4, <1>5, <1>6
<1>8. \A b \in Providers : \A p \in DOMAIN published'[b] : published'[b][p] = "CLOSED" => p \in accepted'
  BY <1>5 DEF Pulling, WrittenDown
<1> QED BY <1>2, <1>3, <1>5, <1>6, <1>7, <1>8, WentOn

\* An account that cannot be read is an error of its own.
LEMMA UnreadableKeepsPull == ASSUME Pulling, Unreadable PROVE Pulling'
<1>1. /\ sweep.stage \in {"link", "list"} /\ sweep.at \in 1..Len(adapters) /\ Len(adapters) \in Nat
      /\ adapters \in Seq(Providers) /\ \A k, l \in DOMAIN adapters : adapters[k] = adapters[l] => k = l
      /\ results \in [rows : Rows, errors : SUBSET Providers]
      /\ open \subseteq Positions /\ whole \subseteq open /\ published \in [Providers -> Rows]
      /\ sweep.rows = NoRows
  BY DEF Unreadable, Pulling, SweepShape, Sweeping
<1>2. PICK told : told = [results EXCEPT !.errors = results.errors \union {adapters[sweep.at]}]
  OBVIOUS
<1>3. told \in [rows : Rows, errors : SUBSET Providers] /\ told.rows = results.rows
      /\ told.errors = results.errors \union {adapters[sweep.at]}
  BY <1>1, <1>2
<1>4. PICK i : i = sweep.at + 1
  OBVIOUS
<1>5. GoOn(i, told) /\ UNCHANGED <<venueVars, published, whole, sent, blind, accepted>>
  BY <1>2, <1>4, Zenon DEF Unreadable
<1>6. i \in 1..(Len(adapters) + 1) /\ adapters' = adapters /\ open' = open
  BY <1>1, <1>4, <1>5 DEF venueVars
<1>7. \A p \in DOMAIN told.rows : \E j \in DOMAIN adapters : j < i /\ adapters[j] = Home[p]
  <2> TAKE p \in DOMAIN told.rows
  <2>1. PICK j \in DOMAIN adapters : j < sweep.at /\ adapters[j] = Home[p]
    BY <1>1, <1>3 DEF Pulling, WrittenDown, PassedBy, Sweeping
  <2>2. j < i
    BY <2>1, <1>1, <1>4
  <2> QED BY <2>1, <2>2
<1>8. sent' \subseteq DOMAIN told.rows
  BY <1>1, <1>3, <1>5 DEF Pulling, WrittenDown, NoRows
<1>9. \A p \in DOMAIN told.rows : told.rows[p] # "NOT_ATTEMPTED" /\ (told.rows[p] = "CLOSED" => p \in accepted')
  BY <1>1, <1>3, <1>5 DEF Pulling, WrittenDown
<1>10. \A b \in Providers : \A p \in DOMAIN published'[b] : published'[b][p] = "CLOSED" => p \in accepted'
  BY <1>5 DEF Pulling, WrittenDown
<1>11. \A p \in whole' : \/ p \in DOMAIN told.rows \/ Home[p] \in told.errors \union blind'
                         \/ \E j \in DOMAIN adapters : j >= i /\ adapters[j] = Home[p]
  <2> TAKE p \in whole'
  <2>1. CASE AnsweredFor(p)
    BY <2>1, <1>3, <1>5 DEF AnsweredFor
  <2>2. CASE Ahead(p)
    <3>1. PICK j \in DOMAIN adapters : j >= sweep.at /\ adapters[j] = Home[p]
      BY <2>2 DEF Ahead
    <3>2. CASE j = sweep.at
      BY <3>1, <3>2, <1>3
    <3>3. CASE j # sweep.at
      <4>1. j >= i
        BY <3>1, <3>3, <1>1, <1>4
      <4> QED BY <3>1, <4>1
    <3> QED BY <3>2, <3>3
  <2> QED BY <2>1, <2>2, <1>1, <1>5 DEF Pulling, Owed
<1> QED BY <1>1, <1>3, <1>5, <1>6, <1>7, <1>8, <1>9, <1>10, <1>11, WentOn

\* The link of MetaTrader 5 is seen: the listing comes.
LEMMA LinkKeepsPull == ASSUME Pulling, LinkSeen PROVE Pulling'
<1>1. /\ sweep.stage = "link" /\ sweep' = [sweep EXCEPT !.stage = "list"]
      /\ UNCHANGED <<adapters, open, whole, results, published, sent, blind, accepted>>
  BY DEF LinkSeen, venueVars
<1>2. /\ sweep \in [stage : {"idle", "link", "list", "close", "ended", "cut"}, at : Nat, rows : Rows, wire : Nat]
      /\ sweep.at \in DOMAIN adapters /\ sweep.rows = NoRows
  BY <1>1 DEF Pulling, SweepShape, Sweeping
<1>3. /\ sweep'.stage = "list" /\ sweep'.at = sweep.at /\ sweep'.rows = sweep.rows
      /\ sweep' \in [stage : {"idle", "link", "list", "close", "ended", "cut"}, at : Nat, rows : Rows, wire : Nat]
  BY <1>1, <1>2
<1>4. SweepShape'
  BY <1>1, <1>2, <1>3 DEF Pulling, SweepShape
<1>5. Attempting'
  BY <1>3 DEF Attempting
<1>6. WrittenDown'
  BY <1>1, <1>3 DEF Pulling, WrittenDown, Sweeping, PassedBy
<1>7. Owed'
  BY <1>1, <1>3 DEF Pulling, Owed, AnsweredFor, Ahead
<1> QED BY <1>4, <1>5, <1>6, <1>7 DEF Pulling

\* A cancellation: what the account at hand has said so far joins the results.
LEMMA CancelKeepsPull == ASSUME Pulling, Cancelled PROVE Pulling'
<1>1. /\ Sweeping /\ sweep' = [sweep EXCEPT !.stage = "cut", !.rows = NoRows, !.wire = 0]
      /\ results' = [results EXCEPT !.rows = Over(sweep.rows, results.rows)]
      /\ UNCHANGED <<adapters, open, whole, published, sent, blind, accepted>>
  BY DEF Cancelled, venueVars
<1>2. /\ sweep \in [stage : {"idle", "link", "list", "close", "ended", "cut"}, at : Nat, rows : Rows, wire : Nat]
      /\ results \in [rows : Rows, errors : SUBSET Providers] /\ sweep.rows \in Rows /\ results.rows \in Rows
      /\ adapters[sweep.at] \in Providers /\ (sweep.stage # "close" => sweep.rows = NoRows)
  BY <1>1 DEF Pulling, SweepShape
<1>3. PICK taken : taken = Over(sweep.rows, results.rows)
  OBVIOUS
<1>4. /\ taken \in Rows /\ DOMAIN taken = DOMAIN sweep.rows \union DOMAIN results.rows
      /\ \A p \in DOMAIN sweep.rows : taken[p] = sweep.rows[p]
      /\ \A p \in DOMAIN results.rows : p \notin DOMAIN sweep.rows => taken[p] = results.rows[p]
  <2>1. PICK r \in Rows : r = sweep.rows
    BY <1>2
  <2>2. PICK q \in Rows : q = results.rows
    BY <1>2
  <2>3. /\ Over(r, q) \in Rows /\ DOMAIN Over(r, q) = DOMAIN r \union DOMAIN q
        /\ \A p \in DOMAIN r : Over(r, q)[p] = r[p]
        /\ \A p \in DOMAIN q : p \notin DOMAIN r => Over(r, q)[p] = q[p]
    BY OverRows
  <2> QED BY <1>3, <2>1, <2>2, <2>3
<1>5. NoRows \in Rows
  <2>1. NoRows \in [{} -> Dispositions] /\ {} \in SUBSET Positions
    BY DEF NoRows
  <2> QED BY <2>1 DEF Rows
<1>6. /\ sweep'.stage = "cut" /\ sweep'.rows = NoRows /\ results'.rows = taken
      /\ sweep' \in [stage : {"idle", "link", "list", "close", "ended", "cut"}, at : Nat, rows : Rows, wire : Nat]
      /\ results' \in [rows : Rows, errors : SUBSET Providers]
  BY <1>1, <1>2, <1>3, <1>4, <1>5
<1>7. SweepShape'
  BY <1>1, <1>6 DEF Pulling, SweepShape, Sweeping
<1>8. Attempting' /\ Owed'
  BY <1>6 DEF Attempting, Owed
<1>9. WrittenDown'
  <2>1. \A p \in DOMAIN taken : /\ taken[p] = "NOT_ATTEMPTED" => p \notin sent
                                /\ taken[p] = "CLOSED" => p \in accepted
    <3> TAKE p \in DOMAIN taken
    <3>1. CASE p \in DOMAIN sweep.rows
      <4>1. sweep.stage = "close"
        BY <1>2, <3>1 DEF NoRows
      <4> QED BY <1>2, <1>4, <3>1, <4>1 DEF Pulling, Attempting, WrittenDown
    <3>2. CASE p \in DOMAIN results.rows /\ p \notin DOMAIN sweep.rows
      BY <1>4, <3>2 DEF Pulling, WrittenDown
    <3> QED BY <1>4, <3>1, <3>2
  <2>2. sent \subseteq DOMAIN taken
    BY <1>4 DEF Pulling, WrittenDown
  <2> QED BY <1>1, <1>6, <2>1, <2>2 DEF Pulling, WrittenDown, Sweeping
<1> QED BY <1>7, <1>8, <1>9 DEF Pulling

\* The listing: nothing was sent yet for what it shows.
LEMMA ListingKeepsPull == ASSUME Pulling, BookListed PROVE Pulling'
<1> DEFINE a == adapters[sweep.at]
<1>1. /\ sweep.stage = "list" /\ UNCHANGED <<adapters, open, whole, accepted>>
      /\ \/ Attempt([p \in OpenAt(a) |-> "NOT_ATTEMPTED"]) /\ blind' = blind
         \/ Attempt(NoRows) /\ blind' = blind \union {a}
  BY Zenon DEF BookListed, venueVars
<1>2. /\ Sweeping /\ sweep.rows = NoRows /\ open \subseteq Positions /\ whole \subseteq open
      /\ adapters \in Seq(Providers) /\ sweep.at \in DOMAIN adapters
      /\ \A k, l \in DOMAIN adapters : adapters[k] = adapters[l] => k = l
  BY <1>1 DEF Pulling, SweepShape, Sweeping
<1>3. sent \subseteq DOMAIN results.rows
  BY <1>2 DEF Pulling, WrittenDown, NoRows
<1>4. \A p \in OpenAt(a) : p \notin sent
  <2> SUFFICES ASSUME NEW p \in OpenAt(a), p \in DOMAIN results.rows PROVE FALSE
    BY <1>3
  <2>1. PICK j \in DOMAIN adapters : j < sweep.at /\ adapters[j] = Home[p]
    BY <1>2 DEF Pulling, WrittenDown, PassedBy
  <2> QED BY <1>2, <2>1 DEF OpenAt
<1>5. \A p \in whole : AnsweredFor(p) \/ Past(p) \/ Home[p] = a
  <2> TAKE p \in whole
  <2>1. ASSUME Ahead(p) PROVE Past(p) \/ Home[p] = a
    <3>1. PICK j \in DOMAIN adapters : j >= sweep.at /\ adapters[j] = Home[p]
      BY <2>1 DEF Ahead
    <3>2. CASE j > sweep.at
      BY <3>1, <3>2 DEF Past
    <3>3. CASE ~ (j > sweep.at)
      <4>1. j = sweep.at
        BY <3>1, <3>3, <1>2
      <4> QED BY <3>1, <4>1
    <3> QED BY <3>2, <3>3
  <2> QED BY <2>1, <1>1 DEF Pulling, Owed
<1>6. CASE Attempt([p \in OpenAt(a) |-> "NOT_ATTEMPTED"]) /\ blind' = blind
  <2>1. PICK rows : rows = [p \in OpenAt(a) |-> "NOT_ATTEMPTED"]
    OBVIOUS
  <2>2. Attempt(rows)
    BY <1>6, <2>1, Zenon
  <2>3. DOMAIN rows = OpenAt(a) /\ \A p \in DOMAIN rows : rows[p] = "NOT_ATTEMPTED"
    BY <2>1
  <2>4. rows \in Rows
    <3>1. rows \in [OpenAt(a) -> Dispositions]
      BY <2>1 DEF Dispositions
    <3>2. OpenAt(a) \in SUBSET Positions
      BY <1>2 DEF OpenAt
    <3> QED BY <3>1, <3>2 DEF Rows
  <2>5. \A p \in DOMAIN rows : Home[p] = adapters[sweep.at]
    BY <2>3 DEF OpenAt
  <2>6. \A p \in whole : AnsweredFor(p) \/ Past(p) \/ p \in DOMAIN rows \/ Home[p] \in blind'
    BY <1>2, <1>5, <2>3 DEF OpenAt
  <2>7. \A p \in DOMAIN rows : p \notin sent /\ rows[p] # "CLOSED"
    BY <1>4, <2>3
  <2>8. blind \subseteq blind' /\ accepted \subseteq accepted'
    BY <1>1, <1>6
  <2>9. sweep.stage \in {"list", "close"} /\ sent \subseteq DOMAIN results.rows \union DOMAIN rows
    BY <1>1, <1>3
  <2> QED BY <1>1, <2>2, <2>4, <2>5, <2>6, <2>7, <2>8, <2>9, AttemptKeeps
<1>7. CASE Attempt(NoRows) /\ blind' = blind \union {a}
  <2>1. PICK rows : rows = NoRows
    OBVIOUS
  <2>2. Attempt(rows)
    BY <1>7, <2>1, Zenon
  <2>3. rows \in Rows /\ DOMAIN rows = {}
    <3>1. rows \in [{} -> Dispositions] /\ {} \in SUBSET Positions
      BY <2>1 DEF NoRows
    <3> QED BY <3>1 DEF Rows
  <2>4. \A p \in whole : AnsweredFor(p) \/ Past(p) \/ p \in DOMAIN rows \/ Home[p] \in blind'
    BY <1>5, <1>7
  <2>5. blind \subseteq blind' /\ accepted \subseteq accepted'
    BY <1>1, <1>7
  <2>6. sweep.stage \in {"list", "close"} /\ sent \subseteq DOMAIN results.rows \union DOMAIN rows
    BY <1>1, <1>3
  <2> QED BY <1>1, <2>2, <2>3, <2>4, <2>5, <2>6, AttemptKeeps
<1> QED BY <1>1, <1>6, <1>7

\* The close at hand: its rows, the answer of its venue, the next.
LEMMA CloseKeepsPull ==
  ASSUME Pulling, sweep.stage = "close", NEW rows \in Rows, DOMAIN rows = DOMAIN sweep.rows, Attempt(rows),
         \A p \in DOMAIN rows : rows[p] = sweep.rows[p] \/ (rows[p] = "CLOSED" /\ p \in accepted') \/ rows[p] = "FAILED",
         adapters' = adapters, open' = open, whole' = whole, accepted \subseteq accepted', blind' = blind
  PROVE  Pulling'
<1>1. adapters[sweep.at] \in Providers /\ sweep.rows = published[adapters[sweep.at]]
  BY DEF Pulling, SweepShape, Sweeping, Attempting
<1>2. \A p \in DOMAIN rows : Home[p] = adapters[sweep.at] /\ (rows[p] = "NOT_ATTEMPTED" => p \notin sent)
  BY DEF Pulling, Attempting
<1>3. \A p \in DOMAIN rows : rows[p] = "CLOSED" => p \in accepted'
  BY <1>1 DEF Pulling, WrittenDown
<1>4. sent \subseteq DOMAIN results.rows \union DOMAIN rows
  BY DEF Pulling, WrittenDown
<1>5. \A p \in whole : AnsweredFor(p) \/ Past(p) \/ p \in DOMAIN rows
  BY DEF Pulling, Owed
<1> QED BY <1>2, <1>3, <1>4, <1>5, AttemptKeeps

LEMMA AnswerKeepsPull == ASSUME Pulling, NEW code, Answered(code) PROVE Pulling'
<1> DEFINE said == IF code \in Succeeded THEN "CLOSED" ELSE "FAILED"
<1>1. /\ sweep.stage = "close" /\ UNCHANGED <<adapters, open, whole, blind>>
      /\ Attempt([sweep.rows EXCEPT ![sweep.wire] = said])
      /\ accepted' = IF code \in Succeeded THEN accepted \union {sweep.wire} ELSE accepted
  BY Zenon DEF Answered, venueVars
<1>2. sweep.rows \in Rows /\ sweep.wire \in DOMAIN sweep.rows
  BY <1>1 DEF Pulling, SweepShape, Attempting
<1>3. PICK rows : rows = [sweep.rows EXCEPT ![sweep.wire] = said]
  OBVIOUS
<1>4. Attempt(rows)
  BY <1>1, <1>3, Zenon
<1>5. said \in Dispositions /\ (said = "CLOSED" => sweep.wire \in accepted') /\ said \in {"CLOSED", "FAILED"}
  BY <1>1 DEF Dispositions
<1>6. accepted \subseteq accepted'
  BY <1>1
<1> HIDE DEF said
<1>7. rows \in Rows /\ DOMAIN rows = DOMAIN sweep.rows
  <2>1. PICK S \in SUBSET Positions : sweep.rows \in [S -> Dispositions]
    BY <1>2 DEF Rows
  <2>2. rows \in [S -> Dispositions]
    BY <1>3, <1>5, <2>1
  <2> QED BY <2>1, <2>2 DEF Rows
<1>8. \A p \in DOMAIN rows : rows[p] = sweep.rows[p] \/ (rows[p] = "CLOSED" /\ p \in accepted') \/ rows[p] = "FAILED"
  BY <1>2, <1>3, <1>5, <1>7
<1> QED BY <1>1, <1>4, <1>6, <1>7, <1>8, CloseKeepsPull

LEMMA RaiseKeepsPull == ASSUME Pulling, Raised PROVE Pulling'
<1>1. /\ sweep.stage = "close" /\ Attempt(sweep.rows) /\ UNCHANGED <<adapters, open, whole, blind, accepted>>
  BY DEF Raised, venueVars
<1>2. PICK rows : rows = sweep.rows
  OBVIOUS
<1>3. rows \in Rows /\ Attempt(rows)
  BY <1>1, <1>2, Zenon DEF Pulling, SweepShape
<1> QED BY <1>1, <1>2, <1>3, CloseKeepsPull

\* A deletion sees its position close, and the rest of the desk come and go around it.
LEMMA DeletionRests ==
  ASSUME SweepShape, Deleting, UNCHANGED <<deletion, unseen>>, adapters' = adapters \/ ~Asking,
         kept' \in BOOLEAN, kept' => kept /\ (deletion.pos \in open => deletion.pos \in open'),
         accepted \subseteq accepted'
  PROVE  Deleting'
<1>1. Asking' = Asking
  BY DEF Asking
<1>2. ManualCloseTellsTruth'
  BY DEF Deleting, ManualCloseTellsTruth
<1>3. Asking /\ kept' => deletion.pos \in open'
  BY DEF Deleting
<1>4. deletion.stage = "asking" /\ kept' =>
        deletion.listed \/ deletion.unasked \/ unseen
        \/ \E j \in DOMAIN adapters' : j >= deletion.at /\ adapters'[j] = Home[deletion.pos]
  BY DEF Deleting, Asking
<1> QED BY <1>1, <1>2, <1>3, <1>4 DEF Deleting

\* The step of the pull or of a venue.
LEMMA OthersKeepDeletion ==
  ASSUME SweepShape, Deleting,
         \/ \E p \in Positions : Closes(p) \/ Opens(p)
         \/ \E a \in Providers : Falls(a) \/ Returns(a) \/ Connect(a) \/ Disconnect(a)
         \/ Pull \/ Unreadable \/ LinkSeen \/ BookListed \/ Raised \/ Cancelled
         \/ \E code \in {"DONE", "PLACED", "DONE_PARTIAL", "NO_CHANGES", "other", "none", "2xx"} : Answered(code)
  PROVE  Deleting'
<1>0. kept \in BOOLEAN
  BY DEF Deleting
<1>1. CASE \E p \in Positions : Closes(p)
  <2>1. PICK p \in Positions : Closes(p)
    BY <1>1
  <2>2. /\ UNCHANGED <<deletion, unseen, adapters, accepted>> /\ open' = open \ {p}
        /\ kept' = (kept /\ deletion.pos # p)
    BY <2>1 DEF Closes
  <2>3. kept' \in BOOLEAN /\ (kept' => kept /\ deletion.pos # p)
    BY <2>2, Zenon
  <2> QED BY <2>2, <2>3, DeletionRests
<1>2. CASE \E p \in Positions : Opens(p)
  <2>1. UNCHANGED <<deletion, unseen, kept, adapters, accepted>> /\ open \subseteq open'
    BY <1>2 DEF Opens, requestVars
  <2> QED BY <1>0, <2>1, DeletionRests
<1>3. CASE \E a \in Providers : Falls(a) \/ Returns(a)
  <2>1. UNCHANGED <<deletion, unseen, kept, adapters, accepted, open>>
    BY <1>3 DEF Falls, Returns, requestVars
  <2> QED BY <1>0, <2>1, DeletionRests
<1>4. CASE \E a \in Providers : Connect(a) \/ Disconnect(a)
  <2>1. UNCHANGED <<deletion, unseen, kept, accepted, open>> /\ ~Asking
    BY <1>4 DEF Connect, Disconnect, requestVars
  <2> QED BY <1>0, <2>1, DeletionRests
<1>5. CASE Pull \/ Unreadable \/ LinkSeen \/ BookListed \/ Raised \/ Cancelled
  <2>1. UNCHANGED <<deletion, unseen, kept, adapters, accepted, open>>
    BY <1>5 DEF Pull, Unreadable, LinkSeen, BookListed, Raised, Cancelled, requestVars, venueVars
  <2> QED BY <1>0, <2>1, DeletionRests
<1>6. CASE \E code \in {"DONE", "PLACED", "DONE_PARTIAL", "NO_CHANGES", "other", "none", "2xx"} : Answered(code)
  <2>1. UNCHANGED <<deletion, unseen, kept, adapters, open>> /\ accepted \subseteq accepted'
    BY <1>6 DEF Answered, requestVars, venueVars
  <2> QED BY <1>0, <2>1, DeletionRests
<1> QED BY <1>1, <1>2, <1>3, <1>4, <1>5, <1>6, Zenon

\* A deletion comes: every account is to be asked.
LEMMA AskKeepsDeletion == ASSUME SweepShape, Deleting, NEW p \in Positions, AskClose(p) PROVE Deleting'
<1>1. /\ deletion' = [stage |-> "asking", pos |-> p, at |-> 1, listed |-> FALSE, unasked |-> FALSE, told |-> 0]
      /\ kept' = (p \in open /\ \E i \in DOMAIN adapters : adapters[i] = Home[p])
      /\ unseen' = FALSE /\ adapters # <<>> /\ UNCHANGED <<adapters, open>>
  BY DEF AskClose, venueVars
<1>2. kept' \in BOOLEAN /\ unseen' \in BOOLEAN /\ (kept' => p \in open /\ \E i \in DOMAIN adapters : adapters[i] = Home[p])
  BY <1>1, Zenon
<1>3. /\ deletion'.stage = "asking" /\ deletion'.pos = p /\ deletion'.at = 1
      /\ deletion' \in [stage : {"idle", "asking", "closing", "told"}, pos : Positions \union {0}, at : Nat,
                        listed : BOOLEAN, unasked : BOOLEAN, told : {0, 204, 404, 500, 502}]
  BY <1>1
<1>4. adapters \in Seq(Providers) /\ 1 \in DOMAIN adapters /\ \A i \in DOMAIN adapters : i >= 1
  BY <1>1 DEF SweepShape
<1>5. kept' => p \in open' /\ \E j \in DOMAIN adapters' : j >= 1 /\ adapters'[j] = Home[p]
  BY <1>1, <1>2, <1>4
<1>6. ManualCloseTellsTruth'
  BY <1>3 DEF ManualCloseTellsTruth
<1>7. 1 \in DOMAIN adapters'
  BY <1>1, <1>4
<1> QED BY <1>2, <1>3, <1>5, <1>6, <1>7 DEF Deleting

\* What an account answered: the next is asked, or the last has been.
LEMMA Resolved ==
  ASSUME SweepShape, Deleting, deletion.stage = "asking", adapters' = adapters, open' = open, kept' = kept,
         NEW listed \in BOOLEAN, NEW unasked \in BOOLEAN, Resolve(listed, unasked), unseen' \in BOOLEAN,
         deletion.listed => listed, deletion.unasked => unasked, unseen => unseen',
         kept /\ Home[deletion.pos] = adapters[deletion.at] => listed \/ unasked \/ unseen'
  PROVE  Deleting'
<1>1. /\ adapters \in Seq(Providers) /\ deletion.at \in 1..Len(adapters) /\ Len(adapters) \in Nat
      /\ deletion \in [stage : {"idle", "asking", "closing", "told"}, pos : Positions \union {0}, at : Nat,
                       listed : BOOLEAN, unasked : BOOLEAN, told : {0, 204, 404, 500, 502}]
      /\ kept \in BOOLEAN
  BY DEF SweepShape, Deleting, Asking
<1>2. PICK pos \in Positions \union {0}, at \in Nat, l \in BOOLEAN, u \in BOOLEAN, told \in {0, 204, 404, 500, 502} :
        deletion = [stage |-> "asking", pos |-> pos, at |-> at, listed |-> l, unasked |-> u, told |-> told]
  BY <1>1
<1>3. kept => listed \/ unasked \/ unseen' \/ \E j \in DOMAIN adapters : j >= at + 1 /\ adapters[j] = Home[pos]
  <2> SUFFICES ASSUME kept, ~listed, ~unasked, ~unseen'
               PROVE  \E j \in DOMAIN adapters : j >= at + 1 /\ adapters[j] = Home[pos]
    OBVIOUS
  <2>1. PICK j \in DOMAIN adapters : j >= deletion.at /\ adapters[j] = Home[deletion.pos]
    BY DEF Deleting
  <2>2. j # deletion.at
    BY <2>1
  <2>3. j >= at + 1
    BY <2>1, <2>2, <1>1, <1>2
  <2> QED BY <2>1, <2>3, <1>2
<1>4. kept => pos \in open
  BY <1>2 DEF Deleting, Asking
<1>5. CASE deletion.at < Len(adapters)
  <2>1. deletion' = [deletion EXCEPT !.at = @ + 1, !.listed = listed, !.unasked = unasked]
    BY <1>5, Zenon DEF Resolve
  <2>2. deletion' = [stage |-> "asking", pos |-> pos, at |-> at + 1, listed |-> listed, unasked |-> unasked, told |-> told]
    BY <1>2, <2>1
  <2>3. at + 1 \in DOMAIN adapters
    BY <1>1, <1>2, <1>5
  <2>4. deletion' \in [stage : {"idle", "asking", "closing", "told"}, pos : Positions \union {0}, at : Nat,
                       listed : BOOLEAN, unasked : BOOLEAN, told : {0, 204, 404, 500, 502}]
    BY <2>2
  <2>5. deletion'.stage = "asking" /\ deletion'.pos = pos /\ deletion'.at = at + 1
        /\ (deletion'.listed <=> listed) /\ (deletion'.unasked <=> unasked)
    BY <2>2
  <2> QED BY <1>1, <1>3, <1>4, <2>3, <2>4, <2>5 DEF Deleting, ManualCloseTellsTruth
<1>6. CASE ~ (deletion.at < Len(adapters)) /\ listed
  <2>1. deletion' = [deletion EXCEPT !.stage = "closing", !.at = 1, !.listed = TRUE, !.unasked = unasked]
    BY <1>6, Zenon DEF Resolve
  <2>2. deletion' = [stage |-> "closing", pos |-> pos, at |-> 1, listed |-> TRUE, unasked |-> unasked, told |-> told]
    BY <1>2, <2>1
  <2>3. deletion' \in [stage : {"idle", "asking", "closing", "told"}, pos : Positions \union {0}, at : Nat,
                       listed : BOOLEAN, unasked : BOOLEAN, told : {0, 204, 404, 500, 502}]
    BY <2>2
  <2>4. deletion'.stage = "closing" /\ deletion'.pos = pos /\ deletion'.at = 1
    BY <2>2
  <2>5. 1 \in DOMAIN adapters
    BY <1>1
  <2> QED BY <1>1, <1>4, <2>3, <2>4, <2>5 DEF Deleting, ManualCloseTellsTruth
<1>7. CASE ~ (deletion.at < Len(adapters)) /\ ~listed
  <2>1. PICK status : status = IF unasked THEN 502 ELSE 404
    OBVIOUS
  <2>2. deletion' = [deletion EXCEPT !.stage = "told", !.told = status]
    BY <1>7, <2>1, Zenon DEF Resolve, Tell
  <2>3. deletion' = [stage |-> "told", pos |-> pos, at |-> at, listed |-> l, unasked |-> u, told |-> status]
    BY <1>2, <2>2
  <2>4. status \in {404, 502} /\ (status = 404 => ~unasked)
    BY <2>1
  <2>5. deletion' \in [stage : {"idle", "asking", "closing", "told"}, pos : Positions \union {0}, at : Nat,
                       listed : BOOLEAN, unasked : BOOLEAN, told : {0, 204, 404, 500, 502}]
    BY <2>3, <2>4
  <2>6. deletion'.stage = "told" /\ deletion'.told = status
    BY <2>3
  <2>7. status = 404 => ~kept' \/ unseen'
    <3> SUFFICES ASSUME status = 404, kept PROVE unseen'
      OBVIOUS
    <3>1. ~ \E j \in DOMAIN adapters : j >= at + 1 /\ adapters[j] = Home[pos]
      BY <1>1, <1>2, <1>7
    <3> QED BY <1>3, <1>7, <2>4, <3>1
  <2>8. ManualCloseTellsTruth'
    BY <2>4, <2>6, <2>7 DEF ManualCloseTellsTruth
  <2> QED BY <1>1, <2>5, <2>6, <2>8 DEF Deleting, Asking
<1> QED BY <1>5, <1>6, <1>7

\* The account that holds the position lists it, raises, or does not see its book.
LEMMA AskedKeepsDeletion == ASSUME SweepShape, Deleting, Asked PROVE Deleting'
<1> DEFINE a == adapters[deletion.at]
<1>1. /\ deletion.stage = "asking" /\ UNCHANGED <<adapters, open, kept>>
      /\ \/ /\ Readable(a)
            /\ Resolve(deletion.listed \/ deletion.pos \in ShownOn(a), deletion.unasked)
            /\ unseen' = (unseen \/ deletion.pos \in OpenAt(a) \ ShownOn(a))
         \/ Resolve(deletion.listed, TRUE) /\ unseen' = unseen
         \/ Resolve(deletion.listed, deletion.unasked) /\ unseen' = TRUE
  BY Zenon DEF Asked, venueVars
<1>2. deletion.listed \in BOOLEAN /\ deletion.unasked \in BOOLEAN /\ unseen \in BOOLEAN
  BY DEF Deleting
<1>3. kept /\ Home[deletion.pos] = a => deletion.pos \in OpenAt(a)
  BY <1>1 DEF Deleting, Asking, OpenAt
<1>4. CASE /\ Resolve(deletion.listed \/ deletion.pos \in ShownOn(a), deletion.unasked)
           /\ unseen' = (unseen \/ deletion.pos \in OpenAt(a) \ ShownOn(a))
  <2>1. PICK listed \in BOOLEAN : listed = (deletion.listed \/ deletion.pos \in ShownOn(a))
    BY Zenon
  <2>2. PICK unasked \in BOOLEAN : unasked = deletion.unasked
    BY <1>2, Zenon
  <2>3. Resolve(listed, unasked)
    BY <1>4, <2>1, <2>2, Zenon
  <2>4. unseen' \in BOOLEAN /\ (unseen' <=> (unseen \/ deletion.pos \in OpenAt(a) \ ShownOn(a)))
    BY <1>4, Zenon
  <2>5. (listed <=> (deletion.listed \/ deletion.pos \in ShownOn(a))) /\ (unasked <=> deletion.unasked)
    BY <2>1, <2>2, Zenon
  <2>6. kept /\ Home[deletion.pos] = a => listed \/ unseen'
    BY <1>3, <2>4, <2>5
  <2> QED BY <1>1, <2>3, <2>4, <2>5, <2>6, Resolved
<1>5. CASE Resolve(deletion.listed, TRUE) /\ unseen' = unseen
  <2>1. PICK listed \in BOOLEAN : listed = deletion.listed
    BY <1>2, Zenon
  <2>2. PICK unasked \in BOOLEAN : unasked = TRUE
    BY Zenon
  <2>3. Resolve(listed, unasked) /\ (listed <=> deletion.listed) /\ unasked
    BY <1>5, <2>1, <2>2, Zenon
  <2> QED BY <1>1, <1>2, <1>5, <2>3, Resolved
<1>6. CASE Resolve(deletion.listed, deletion.unasked) /\ unseen' = TRUE
  <2>1. PICK listed \in BOOLEAN : listed = deletion.listed
    BY <1>2, Zenon
  <2>2. PICK unasked \in BOOLEAN : unasked = deletion.unasked
    BY <1>2, Zenon
  <2>3. Resolve(listed, unasked) /\ (listed <=> deletion.listed) /\ (unasked <=> deletion.unasked)
    BY <1>6, <2>1, <2>2, Zenon
  <2>4. unseen' \in BOOLEAN /\ unseen'
    BY <1>6, Zenon
  <2> QED BY <1>1, <2>3, <2>4, Resolved
<1> QED BY <1>1, <1>4, <1>5, <1>6

\* An account is told to close: only one that accepts ends it with a 204.
LEMMA TriedKeepsDeletion == ASSUME SweepShape, Deleting, Tried PROVE Deleting'
<1>0. /\ adapters \in Seq(Providers) /\ deletion.stage = "closing" /\ deletion.at \in 1..Len(adapters)
      /\ deletion \in [stage : {"idle", "asking", "closing", "told"}, pos : Positions \union {0}, at : Nat,
                       listed : BOOLEAN, unasked : BOOLEAN, told : {0, 204, 404, 500, 502}]
  BY DEF Tried, SweepShape, Deleting, Asking
<1>1. /\ UNCHANGED <<adapters, open, kept, unseen>>
      /\ \/ Tell(500)
         \/ Tell(204) /\ accepted' = accepted \union {deletion.pos}
         \/ Tell(502)
         \/ deletion.at < Len(adapters) /\ deletion' = [deletion EXCEPT !.at = @ + 1]
  BY Zenon DEF Tried, venueVars
<1>2. PICK pos \in Positions \union {0}, at \in Nat, l \in BOOLEAN, u \in BOOLEAN, told \in {0, 204, 404, 500, 502} :
        deletion = [stage |-> "closing", pos |-> pos, at |-> at, listed |-> l, unasked |-> u, told |-> told]
  BY <1>0
<1>3. ASSUME NEW status \in {204, 500, 502}, Tell(status), status = 204 => pos \in accepted'
      PROVE  Deleting'
  <2>1. deletion' = [stage |-> "told", pos |-> pos, at |-> at, listed |-> l, unasked |-> u, told |-> status]
    BY <1>2, <1>3 DEF Tell
  <2>2. deletion'.stage = "told" /\ deletion'.told = status /\ deletion'.pos = pos
        /\ deletion' \in [stage : {"idle", "asking", "closing", "told"}, pos : Positions \union {0}, at : Nat,
                          listed : BOOLEAN, unasked : BOOLEAN, told : {0, 204, 404, 500, 502}]
    BY <2>1
  <2> QED BY <1>1, <1>3, <2>2 DEF Deleting, Asking, ManualCloseTellsTruth
<1>4. ASSUME deletion.at < Len(adapters), deletion' = [deletion EXCEPT !.at = @ + 1]
      PROVE  Deleting'
  <2>1. deletion' = [stage |-> "closing", pos |-> pos, at |-> at + 1, listed |-> l, unasked |-> u, told |-> told]
    BY <1>2, <1>4
  <2>2. deletion'.stage = "closing" /\ deletion'.at = at + 1 /\ deletion'.pos = pos
        /\ deletion' \in [stage : {"idle", "asking", "closing", "told"}, pos : Positions \union {0}, at : Nat,
                          listed : BOOLEAN, unasked : BOOLEAN, told : {0, 204, 404, 500, 502}]
    BY <2>1
  <2>3. at + 1 \in DOMAIN adapters
    BY <1>0, <1>2, <1>4
  <2>4. kept => pos \in open
    BY <1>0, <1>2 DEF Deleting, Asking
  <2> QED BY <1>1, <2>2, <2>3, <2>4 DEF Deleting, ManualCloseTellsTruth
<1>5. deletion.pos = pos
  BY <1>2
<1> QED BY <1>1, <1>3, <1>4, <1>5

\* Nobody has pulled or asked.
LEMMA SweepStarts == SweepInit => Pulling /\ Deleting
<1> SUFFICES ASSUME SweepInit PROVE Pulling /\ Deleting
  OBVIOUS
<1>1. NoRows \in Rows
  <2>1. NoRows \in [{} -> Dispositions] /\ {} \in SUBSET Positions
    BY DEF NoRows
  <2> QED BY <2>1 DEF Rows
<1>2. adapters \in Seq(Providers) /\ \A i, j \in DOMAIN adapters : adapters[i] = adapters[j] => i = j
  BY SweepAssumption DEF SweepInit
<1>3. /\ sweep = [stage |-> "idle", at |-> 0, rows |-> NoRows, wire |-> 0]
      /\ results = [rows |-> NoRows, errors |-> {}] /\ published = [a \in Providers |-> NoRows]
      /\ open \subseteq Positions /\ whole = {} /\ sent = {}
      /\ deletion = [stage |-> "idle", pos |-> 0, at |-> 0, listed |-> FALSE, unasked |-> FALSE, told |-> 0]
      /\ kept = FALSE /\ unseen = FALSE
  BY DEF SweepInit
<1>4. SweepShape
  BY <1>1, <1>2, <1>3 DEF SweepShape, Sweeping
<1>5. Attempting /\ Owed
  BY <1>3 DEF Attempting, Owed
<1>6. WrittenDown
  BY <1>3 DEF WrittenDown, Sweeping, NoRows
<1>7. Deleting
  BY <1>3 DEF Deleting, Asking, ManualCloseTellsTruth
<1> QED BY <1>4, <1>5, <1>6, <1>7 DEF Pulling

\* A deletion leaves what a pull owes.
LEMMA DeletionKeepsPull ==
  ASSUME Pulling, Asked \/ Tried \/ \E p \in Positions : AskClose(p)
  PROVE  Pulling'
<1>1. UNCHANGED <<adapters, open, whole, sweep, results, published, sent, blind>> /\ accepted \subseteq accepted'
  BY DEF Asked, Tried, AskClose, venueVars, pullVars
<1>2. /\ adapters \in Seq(Providers) /\ published \in [Providers -> Rows] /\ open \subseteq Positions /\ whole \subseteq open
      /\ \A i, j \in DOMAIN adapters : adapters[i] = adapters[j] => i = j
  BY DEF Pulling, SweepShape
<1> QED BY <1>1, <1>2, PullRests

LEMMA SweepKeeps == (Pulling /\ Deleting) /\ [SweepNext]_sweepVars => (Pulling /\ Deleting)'
<1> SUFFICES ASSUME Pulling, Deleting, [SweepNext]_sweepVars PROVE Pulling' /\ Deleting'
  OBVIOUS
<1>0. SweepShape
  BY DEF Pulling
<1>1. CASE \E p \in Positions : Closes(p) \/ Opens(p)
  BY <1>0, <1>1, VenuesKeepPull, OthersKeepDeletion
<1>2. CASE \E a \in Providers : Falls(a) \/ Returns(a) \/ Connect(a) \/ Disconnect(a)
  <2>1. PICK a \in Providers : Falls(a) \/ Returns(a) \/ Connect(a) \/ Disconnect(a)
    BY <1>2
  <2>2. CASE Falls(a) \/ Returns(a)
    BY <1>0, <2>2, VenuesKeepPull, OthersKeepDeletion
  <2>3. CASE Connect(a) \/ Disconnect(a)
    BY <1>0, <2>3, ConnectionsKeepPull, OthersKeepDeletion
  <2> QED BY <2>1, <2>2, <2>3
<1>3. CASE Pull
  BY <1>0, <1>3, PullKeepsPull, OthersKeepDeletion
<1>4. CASE Unreadable
  BY <1>0, <1>4, UnreadableKeepsPull, OthersKeepDeletion
<1>5. CASE LinkSeen
  BY <1>0, <1>5, LinkKeepsPull, OthersKeepDeletion
<1>6. CASE BookListed
  BY <1>0, <1>6, ListingKeepsPull, OthersKeepDeletion
<1>7. CASE Raised
  BY <1>0, <1>7, RaiseKeepsPull, OthersKeepDeletion
<1>8. CASE Cancelled
  BY <1>0, <1>8, CancelKeepsPull, OthersKeepDeletion
<1>9. CASE \E code \in {"DONE", "PLACED", "DONE_PARTIAL", "NO_CHANGES", "other", "none", "2xx"} : Answered(code)
  BY <1>0, <1>9, AnswerKeepsPull, OthersKeepDeletion
<1>10. CASE \E p \in Positions : AskClose(p)
  BY <1>0, <1>10, DeletionKeepsPull, AskKeepsDeletion
<1>11. CASE Asked
  BY <1>0, <1>11, DeletionKeepsPull, AskedKeepsDeletion
<1>12. CASE Tried
  BY <1>0, <1>12, DeletionKeepsPull, TriedKeepsDeletion
<1>13. CASE UNCHANGED sweepVars
  <2>1. UNCHANGED <<adapters, open, whole, sweep, results, published, sent, blind, accepted, deletion, kept, unseen>>
    BY <1>13 DEF sweepVars
  <2>2. /\ adapters \in Seq(Providers) /\ published \in [Providers -> Rows] /\ open \subseteq Positions /\ whole \subseteq open
        /\ \A i, j \in DOMAIN adapters : adapters[i] = adapters[j] => i = j
    BY DEF Pulling, SweepShape
  <2>3. kept' \in BOOLEAN
    BY <2>1 DEF Deleting
  <2> QED BY <1>0, <2>1, <2>2, <2>3, PullRests, DeletionRests
<1> QED
  BY <1>1, <1>2, <1>3, <1>4, <1>5, <1>6, <1>7, <1>8, <1>9, <1>10, <1>11, <1>12, <1>13, Zenon DEF SweepNext

\* Whatever the venues and connections do (mt5.py, cryptofundtrader.py, oanda.py, positions.py):
\* a report of a pull names each position that stayed open, a row says CLOSED only after its venue
\* accepted a close, and a deletion says closed, or not found, only of what it was told.
THEOREM AccountsAreTold == SweepSpec => []AccountsTellTheTruth
<1>1. Pulling /\ Deleting => AccountsTellTheTruth
  BY TellsTruth, Zenon DEF SweepInv
<1> QED BY <1>1, SweepStarts, SweepKeeps, PTL DEF SweepSpec

-----------------------------------------------------------------------------
(* The types of the broker registry. *)

RequestPlaces == {"idle", "connect", "reconnect", "disconnect", "building", "rebuilding", "ending",
                  "connected", "reconnected"}
RequestTypes == [at : RequestPlaces, on : Connections, seen : BOOLEAN, with : Versions]
JobTypes == [at : {"loading", "idle", "read", "visiting", "connecting"},
             wanted : [Connections -> Versions],
             doomed : SUBSET Connections, todo : SUBSET Connections]

\* The rows, the adapters and the back-off; a request and the job are records of these fields.
RowTypes ==
  /\ wish \in [Connections -> BOOLEAN] /\ creds \in [Connections -> Versions]
  /\ holder \in [Connections -> Requests \cup {NoRequest}]
  /\ registry \in [Connections -> Versions]
  /\ failures \in [Connections -> 0..MaxBackoff] /\ ticks \in 0..2^MaxBackoff - 1
  /\ begun \in 0..MaxRequests /\ boots \in 0..MaxBoots

RegistryInv == RowTypes /\ request \in [Requests -> RequestTypes] /\ job \in JobTypes

LEMMA Starters == Idle \in RequestTypes /\ Resting \in JobTypes /\ Booting \in JobTypes /\ NoWish \in [Connections -> Versions]
<1>1. (CHOOSE c \in Connections : TRUE) \in Connections
  BY RegistryAssumption
<1> QED BY <1>1, RegistryAssumption DEF Idle, Resting, Booting, NoWish, Versions, None, RequestTypes, RequestPlaces, JobTypes

LEMMA RegistryStarts == RegistryInit => RegistryInv
<1> SUFFICES ASSUME RegistryInit PROVE RegistryInv
  OBVIOUS
<1>1. RowTypes
  BY RegistryAssumption, Starters DEF RegistryInit, RowTypes, Versions
<1>2. request \in [Requests -> RequestTypes] /\ job \in JobTypes
  BY Starters DEF RegistryInit
<1> QED BY <1>1, <1>2 DEF RegistryInv

\* What a request does.
LEMMA RequestTyped ==
  ASSUME RegistryInv, NEW r \in Requests,
         RequestStep(r) \/ \E c \in Connections : AskConnect(r, c) \/ AskReconnect(r, c) \/ AskDisconnect(r, c)
  PROVE  RegistryInv'
<1> USE RegistryAssumption, Starters
<1>1. RowTypes /\ request \in [Requests -> RequestTypes] /\ job \in JobTypes
  BY DEF RegistryInv
<1>2. request[r] \in RequestTypes /\ None \in Versions
  BY <1>1 DEF Versions, None
<1>3. \A at \in RequestPlaces : [request EXCEPT ![r].at = at] \in [Requests -> RequestTypes]
  BY <1>1 DEF RequestTypes
<1>4. [request EXCEPT ![r] = Idle] \in [Requests -> RequestTypes]
  BY <1>1
<1>5. \A w \in BOOLEAN : Written(r, w) \in BOOLEAN
  BY <1>1, <1>2 DEF Written, RowTypes, RequestTypes
<1>6. ASSUME NEW c \in Connections, NEW what \in {"connect", "reconnect", "disconnect"}, Serve(r, what, c)
      PROVE  RegistryInv'
  <2>1. begun + 2 \in Versions /\ creds[c] \in Versions /\ begun + 1 \in 0..MaxRequests /\ wish[c] \in BOOLEAN
    BY <1>1, <1>6 DEF Serve, Versions, RowTypes
  <2>2. RowTypes'
    BY <1>1, <1>6, <2>1 DEF Serve, RowTypes, rowVars, backoffVars
  <2>3. request' \in [Requests -> RequestTypes]
    BY <1>1, <1>6, <2>1 DEF Serve, RequestTypes, RequestPlaces
  <2>4. job' \in JobTypes
    BY <1>1, <1>6 DEF Serve
  <2> QED BY <2>2, <2>3, <2>4 DEF RegistryInv
<1>7. CASE \E c \in Connections : AskConnect(r, c) \/ AskReconnect(r, c) \/ AskDisconnect(r, c)
  BY <1>6, <1>7 DEF AskConnect, AskReconnect, AskDisconnect
<1>8. CASE RequestStep(r)
  <2>1. request' \in [Requests -> RequestTypes]
    BY <1>3, <1>4, <1>8 DEF RequestStep, BeginConnect, BeginReconnect, BeginDisconnect, Refuse, CommitConnect,
       FailConnect, CommitReconnect, FailReconnect, Store, CommitDisconnect, At, Finish, RequestPlaces
  <2>2. job' = job /\ UNCHANGED <<backoffVars, begun, boots>>
    BY <1>8 DEF RequestStep, BeginConnect, BeginReconnect, BeginDisconnect, Refuse, CommitConnect,
       FailConnect, CommitReconnect, FailReconnect, Store, CommitDisconnect
  <2>3. Release(r) \in [Connections -> Requests \cup {NoRequest}]
    BY <1>1 DEF Release, RowTypes
  <2>4. holder' \in [Connections -> Requests \cup {NoRequest}]
    BY <1>1, <1>8, <2>3 DEF RequestStep, BeginConnect, BeginReconnect, BeginDisconnect, Refuse, CommitConnect,
       FailConnect, CommitReconnect, FailReconnect, Store, CommitDisconnect, RowTypes, rowVars
  <2>5. registry' \in [Connections -> Versions]
    BY <1>1, <1>2, <1>8 DEF RequestStep, BeginConnect, BeginReconnect, BeginDisconnect, Refuse, CommitConnect,
       FailConnect, CommitReconnect, FailReconnect, Store, CommitDisconnect, RowTypes, Pop, RequestTypes
  <2>6. creds' \in [Connections -> Versions]
    BY <1>1, <1>2, <1>8 DEF RequestStep, BeginConnect, BeginReconnect, BeginDisconnect, Refuse, CommitConnect,
       FailConnect, CommitReconnect, FailReconnect, Store, CommitDisconnect, RowTypes, RequestTypes, rowVars
  <2>7. wish' \in [Connections -> BOOLEAN]
    <3>1. \A v \in BOOLEAN : [wish EXCEPT ![request[r].on] = v] \in [Connections -> BOOLEAN]
      BY <1>1 DEF RowTypes
    <3>2. \/ wish' = wish \/ \E v \in BOOLEAN : wish' = [wish EXCEPT ![request[r].on] = v]
      BY <1>5, <1>8 DEF RequestStep, BeginConnect, BeginReconnect, BeginDisconnect, Refuse, CommitConnect,
         FailConnect, CommitReconnect, FailReconnect, Store, CommitDisconnect, rowVars
    <3> QED BY <1>1, <3>1, <3>2 DEF RowTypes
  <2>8. RowTypes'
    BY <1>1, <2>2, <2>4, <2>5, <2>6, <2>7 DEF RowTypes, backoffVars
  <2> QED BY <1>1, <2>1, <2>2, <2>8 DEF RegistryInv
<1> QED BY <1>7, <1>8

\* What the start and the job do.
LEMMA JobTyped ==
  ASSUME RegistryInv, LoadSome \/ Reboot \/ JobStep
  PROVE  RegistryInv'
<1> USE RegistryAssumption, Starters
<1>1. RowTypes /\ request \in [Requests -> RequestTypes] /\ job \in JobTypes
  BY DEF RegistryInv
<1>2. None \in Versions
  BY DEF Versions, None
<1>3. CASE LoadSome
  BY <1>1, <1>2, <1>3 DEF LoadSome, Load, RowTypes, rowVars, backoffVars, RegistryInv
<1>4. CASE Reboot
  <2>1. RowTypes'
    BY <1>1, <1>4 DEF Reboot, RowTypes
  <2> QED BY <1>1, <1>4, <2>1 DEF Reboot, RegistryInv
<1>5. CASE ReadRows
  <2>1. [c \in Connections |-> IF wish[c] THEN creds[c] ELSE None] \in [Connections -> Versions]
    BY <1>1, <1>2 DEF RowTypes
  <2>2. job' \in JobTypes
    BY <1>5, <2>1 DEF ReadRows, JobTypes
  <2> QED BY <1>1, <1>5, <2>2 DEF ReadRows, RowTypes, rowVars, backoffVars, RegistryInv
<1>6. CASE ListUnwanted
  <2>1. Unwanted \subseteq Connections /\ Wanted \subseteq Connections
    BY DEF Unwanted, Wanted
  <2>2. job' \in JobTypes
    BY <1>1, <1>6, <2>1 DEF ListUnwanted, JobTypes
  <2> QED BY <1>1, <1>6, <2>2 DEF ListUnwanted, RowTypes, rowVars, backoffVars, RegistryInv
<1>7. CASE EndJob
  <2>1. ticks' \in 0..2^MaxBackoff - 1
    <3> DEFINE longest == 2^MaxBackoff
    <3>1. ticks \in Nat /\ longest \in Nat \ {0} /\ ticks' = (ticks + 1) % longest
      BY <1>1, <1>7 DEF EndJob, RowTypes
    <3> HIDE DEF longest
    <3>2. ticks' \in 0..longest - 1
      BY <3>1
    <3> QED BY <3>2 DEF longest
  <2>2. RowTypes'
    BY <1>1, <1>7, <2>1 DEF EndJob, RowTypes, rowVars
  <2> QED BY <1>1, <1>7, <2>2 DEF EndJob, RegistryInv
<1>8. ASSUME NEW c \in Connections, Drop(c) PROVE RegistryInv'
  <2>1. job' \in JobTypes
    BY <1>1, <1>8 DEF Drop, JobTypes
  <2>2. RowTypes'
    BY <1>1, <1>2, <1>8 DEF Drop, Pop, RowTypes, rowVars, backoffVars
  <2> QED BY <1>1, <1>8, <2>1, <2>2 DEF Drop, RegistryInv
<1>9. ASSUME NEW c \in Connections, Connected(c) \/ Unreachable(c) PROVE RegistryInv'
  <2>1. job' \in JobTypes
    <3>1. job' = [job EXCEPT !.at = "visiting", !.todo = job.todo \ {c}, !.doomed = {}]
      BY <1>9 DEF Connected, Unreachable
    <3>2. job.todo \ {c} \in SUBSET Connections /\ {} \in SUBSET Connections
      BY <1>1 DEF JobTypes
    <3> QED BY <1>1, <3>1, <3>2 DEF JobTypes
  <2>2. job.wanted[c] \in Versions
    BY <1>1 DEF JobTypes
  <2>3. RowTypes'
    BY <1>1, <1>9, <2>2 DEF Connected, Unreachable, RowTypes, rowVars, backoffVars
  <2> QED BY <1>1, <1>9, <2>1, <2>3 DEF Connected, Unreachable, RegistryInv
<1>10. ASSUME NEW c \in Connections, NEW passed \in SUBSET Connections, TryConnect(c, passed) PROVE RegistryInv'
  <2>1. job' \in JobTypes
    BY <1>1, <1>10 DEF TryConnect, JobTypes
  <2> QED BY <1>1, <1>10, <2>1 DEF TryConnect, RowTypes, rowVars, backoffVars, RegistryInv
<1> QED BY <1>3, <1>4, <1>5, <1>6, <1>7, <1>8, <1>9, <1>10 DEF JobStep

\* Type correctness of the registry.
THEOREM RegistryTypeCorrect == RegistrySpec => []RegistryTypeOK
<1>1. ASSUME RegistryInv, UNCHANGED registryVars PROVE RegistryInv'
  BY <1>1 DEF RegistryInv, RowTypes, registryVars, rowVars, backoffVars
<1>2. RegistryInv /\ [RegistryNext]_registryVars => RegistryInv'
  BY <1>1, RequestTyped, JobTyped DEF RegistryNext
<1>3. RegistryInv => RegistryTypeOK
  BY DEF RegistryInv, RegistryTypeOK, RowTypes, RequestTypes, JobTypes, RequestPlaces
<1> QED BY RegistryStarts, <1>2, <1>3, PTL DEF RegistrySpec

-----------------------------------------------------------------------------
(* The types of the account monitor, the news gate and the scan. *)

\* A row of a snapshot has one of the states of compute_compliance_state.
LEMMA SnapshotTyped ==
  ASSUME MonitorTypeOK, NEW i \in Ids
  PROVE  SnapshotOf(i) \in [state : ComplianceStates \union {"none", "UNAVAILABLE"}, balance : Balances \union {0}]
<1>1. \A a, b : ComputeComplianceState(a, b) \in ComplianceStates
  BY DEF ComputeComplianceState, ComplianceStates
<1>2. venue[i].balance \in Balances
  BY DEF MonitorTypeOK
<1> DEFINE state == ComputeComplianceState(Loss(-venue[i].floating), Loss(InitialBalance - (venue[i].balance + venue[i].floating)))
<1>3. state \in ComplianceStates
  BY <1>1, Zenon
<1> HIDE DEF state
<1>4. SnapshotOf(i) = [state |-> state, balance |-> venue[i].balance]
  BY DEF SnapshotOf, state
<1> QED BY <1>2, <1>3, <1>4

\* Type correctness of the account monitor: the newest row is one of an account.
THEOREM MonitorTypeCorrect == MonitorSpec => []MonitorTypeOK
<1>1. ASSUME MonitorInit PROVE MonitorTypeOK
  <2> USE MonitorAssumption
  <2>1. InitialBalance \in Balances /\ 0 \in -1..0
    OBVIOUS
  <2>2. venue \in [Ids -> [balance : Balances, floating : -1..0, open : BOOLEAN]]
    <3>1. [balance |-> InitialBalance, floating |-> 0, open |-> FALSE] \in [balance : Balances, floating : -1..0, open : BOOLEAN]
      BY <2>1
    <3> QED BY <1>1, <3>1 DEF MonitorInit
  <2>3. snapshots \in [Ids -> [state : ComplianceStates \union {"none", "UNAVAILABLE"}, balance : Balances \union {0}]]
    BY <1>1 DEF MonitorInit, NoRow
  <2>4. newest \in 0..Accounts /\ passes \in 0..MaxPasses /\ unreached \subseteq Ids
    BY <1>1 DEF MonitorInit
  <2>5. report.kinds = {} /\ report.ran = {}
    BY <1>1 DEF MonitorInit, NoReport
  <2> QED BY <2>2, <2>3, <2>4, <2>5 DEF MonitorTypeOK
<1>2. MonitorTypeOK /\ [MonitorNext]_monitorVars => MonitorTypeOK'
  <2> SUFFICES ASSUME MonitorTypeOK, [MonitorNext]_monitorVars PROVE MonitorTypeOK'
    OBVIOUS
  <2> USE MonitorAssumption
  <2>1. CASE VenueMoves
    BY <2>1 DEF VenueMoves, MonitorTypeOK
  <2>2. CASE SyncAll
    <3>1. PICK failed \in SUBSET Ids :
            /\ snapshots' = [i \in Ids |-> IF i \in failed THEN Unavailable ELSE SnapshotOf(i)]
            /\ newest' = Max(IF failed = Ids THEN Ids ELSE Ids \ failed)
            /\ unreached' = failed
      BY <2>2 DEF SyncAll, Commits
    <3>2. \A i \in Ids : (IF i \in failed THEN Unavailable ELSE SnapshotOf(i))
            \in [state : ComplianceStates \union {"none", "UNAVAILABLE"}, balance : Balances \union {0}]
      BY SnapshotTyped DEF Unavailable
    <3>3. \A S \in SUBSET Ids : S # {} => Max(S) \in Ids
      <4> TAKE S \in SUBSET Ids
      <4> HAVE S # {}
      <4>1. S \subseteq 0..Accounts /\ Accounts \in Nat
        BY DEF Ids
      <4> QED BY <4>1, MaxOfBars
    <3>4. 1 \in Ids
      BY DEF Ids
    <3>5. newest' \in Ids
      <4>1. CASE failed = Ids
        <5>1. newest' = Max(Ids)
          BY <3>1, <4>1
        <5> QED BY <5>1, <3>3, <3>4
      <4>2. CASE failed # Ids
        <5>1. newest' = Max(Ids \ failed) /\ Ids \ failed # {} /\ Ids \ failed \in SUBSET Ids
          BY <3>1, <4>2
        <5> QED BY <5>1, <3>3
      <4> QED BY <4>1, <4>2
    <3>6. snapshots' \in [Ids -> [state : ComplianceStates \union {"none", "UNAVAILABLE"}, balance : Balances \union {0}]]
      BY <3>1, <3>2
    <3>7. passes' \in 0..MaxPasses /\ UNCHANGED <<venue, report>>
      BY <2>2 DEF SyncAll, MonitorTypeOK
    <3>8. newest' \in 0..Accounts
      BY <3>5 DEF Ids
    <3> QED BY <3>1, <3>6, <3>7, <3>8 DEF MonitorTypeOK
  <2>3. CASE SyncRaises
    BY <2>3 DEF SyncRaises, MonitorTypeOK
  <2>4. ASSUME NEW i \in Ids, Reconcile(i) PROVE MonitorTypeOK'
    <3>1. UNCHANGED <<venue, snapshots, newest, passes, unreached>>
      BY <2>4 DEF Reconcile
    <3>2. report'.kinds \subseteq {"untracked_position", "unexplained_balance_change"}
      BY <2>4 DEF Reconcile
    <3>3. report'.ran \subseteq {"positions", "balance_drift"}
      BY <2>4 DEF Reconcile
    <3> QED BY <3>1, <3>2, <3>3 DEF MonitorTypeOK
  <2>5. CASE UNCHANGED monitorVars
    BY <2>5 DEF monitorVars, MonitorTypeOK
  <2> QED BY <2>1, <2>2, <2>3, <2>4, <2>5 DEF MonitorNext
<1> QED BY <1>1, <1>2, PTL DEF MonitorSpec

\* Type correctness of the news gate: what is cached and what is recorded was posted.
THEOREM NewsTypeCorrect == NewsSpec => []NewsTypeOK
<1>1. NewsInit => NewsTypeOK
  BY NewsAssumption DEF NewsInit, NewsTypeOK, Empty, NoVerdict
<1>2. NewsTypeOK /\ [NewsNext]_newsVars => NewsTypeOK'
  <2> SUFFICES ASSUME NewsTypeOK, [NewsNext]_newsVars PROVE NewsTypeOK'
    OBVIOUS
  <2>1. \A day, answers : Fetched(day, answers).events \subseteq calendar
    BY DEF Fetched
  <2>2. CASE TakeVerdict
    <3>1. PICK redis \in BOOLEAN, answers \in BOOLEAN :
            LET hit    == redis /\ Cached(Day(now))
                answer == IF hit THEN cache ELSE Fetched(Day(now), answers)
            IN  /\ context' = IF hasKey THEN Verdict(now, answer) ELSE [NoVerdict EXCEPT !.at = now]
                /\ cache' = IF hasKey /\ redis /\ ~hit THEN answer ELSE cache
                /\ UNCHANGED <<now, calendar, hasKey>>
      BY <2>2 DEF TakeVerdict
    <3> DEFINE hit    == redis /\ Cached(Day(now))
               answer == IF hit THEN cache ELSE Fetched(Day(now), answers)
    <3>2. answer.events \subseteq calendar
      BY <2>1 DEF NewsTypeOK
    <3> HIDE DEF hit, answer
    <3>3. /\ context' = IF hasKey THEN Verdict(now, answer) ELSE [NoVerdict EXCEPT !.at = now]
          /\ cache' = answer \/ cache' = cache
          /\ UNCHANGED <<now, calendar, hasKey>>
      BY <3>1 DEF hit, answer
    <3>4. /\ Verdict(now, answer).from = answer
          /\ Verdict(now, answer).block \in {"none", "NEWS_PRE_WINDOW", "NEWS_POST_WINDOW"}
      BY DEF Verdict
    <3>5. context'.from.events \subseteq calendar /\ context'.block \in {"none", "NEWS_PRE_WINDOW", "NEWS_POST_WINDOW"}
      BY <3>2, <3>3, <3>4 DEF NoVerdict, Empty
    <3>6. cache'.events \subseteq calendar
      BY <3>2, <3>3 DEF NewsTypeOK
    <3> QED BY <3>3, <3>5, <3>6 DEF NewsTypeOK
  <2>3. CASE RefreshCalendar
    <3>1. PICK a \in BOOLEAN : cache' \in {Fetched(Day(now), a /\ hasKey), Empty, cache}
      BY <2>3 DEF RefreshCalendar
    <3>2. Empty.events \subseteq calendar
      BY DEF Empty
    <3>3. Fetched(Day(now), a /\ hasKey).events \subseteq calendar
      BY <2>1, Zenon
    <3>4. cache'.events \subseteq calendar
      <4>1. cache' = Fetched(Day(now), a /\ hasKey) \/ cache' = Empty \/ cache' = cache
        BY <3>1, Zenon
      <4>2. CASE cache' = Fetched(Day(now), a /\ hasKey)
        BY <3>3, <4>2, Zenon
      <4> QED BY <3>2, <4>1, <4>2, Zenon DEF NewsTypeOK
    <3> QED BY <2>3, <3>4 DEF RefreshCalendar, NewsTypeOK
  <2>4. CASE NewsMinute
    BY <2>4, NewsAssumption DEF NewsMinute, NewsTypeOK
  <2>5. CASE UNCHANGED newsVars
    BY <2>5 DEF newsVars, NewsTypeOK
  <2> QED BY <2>2, <2>3, <2>4, <2>5 DEF NewsNext
<1> QED BY <1>1, <1>2, PTL DEF NewsSpec

\* The pass, and the bars that are noted.
ScanTypes ==
  /\ lastClosed \in 0..LastBar /\ scanned \in FeedBars \union {Unscanned} /\ (stage # "poll" => scanned \in FeedBars)
  /\ evaluated \subseteq FeedBars
  /\ lastEval \in -1..LastBar /\ omissions \subseteq 0..LastBar
  /\ stage \in {"poll", "gate", "shadow", "census", "regate", "decide"}

\* Type correctness of the scan: what is scanned, evaluated or omitted is a bar of the feed.
THEOREM ScanTypeCorrect == ScanSpec => []ScanTypeOK
<1> USE ScanAssumption
<1>1. ScanInit => ScanTypes
  BY DEF ScanInit, ScanTypes, Unscanned, FeedBars
<1>2. ScanTypes /\ [ScanNext]_scanVars => ScanTypes'
  <2> SUFFICES ASSUME ScanTypes, [ScanNext]_scanVars PROVE ScanTypes'
    OBVIOUS
  <2>0. /\ lastClosed \in 0..LastBar /\ FeedBars \subseteq 0..LastBar /\ LastBar \in Nat /\ Unscanned = -1
        /\ scanned \in FeedBars \union {Unscanned}
    BY DEF ScanTypes, FeedBars, Unscanned
  <2>1. CASE Poll
    <3>1. Max(FeedBars) \in FeedBars
      BY <2>0, <2>1, MaxOfBars DEF Poll
    <3>2. scanned' \in FeedBars /\ lastEval' = scanned' /\ stage' = "gate" /\ FeedBars' = FeedBars
          /\ UNCHANGED <<lastClosed, omissions, evaluated>>
      BY <2>1, <3>1 DEF Poll, Mark, Go, FeedBars
    <3>3. lastEval' \in -1..LastBar
      BY <2>0, <3>2
    <3> QED BY <3>2, <3>3 DEF ScanTypes
  <2>2. CASE PassRaises \/ ReadGateAgain \/ ReadGate \/ DecideOnBar
    <3>1. FeedBars' = FeedBars /\ UNCHANGED <<lastClosed, lastEval, omissions, evaluated>>
      BY <2>2 DEF PassRaises, ReadGateAgain, ReadGate, DecideOnBar, FeedBars
    <3>2. \/ stage' = "poll" /\ scanned' = Unscanned
          \/ stage # "poll" /\ scanned' = scanned /\ stage' \in {"shadow", "decide"}
      BY <2>2 DEF PassRaises, ReadGateAgain, ReadGate, DecideOnBar, EndPass, Go
    <3> QED BY <3>1, <3>2 DEF ScanTypes
  <2>3. CASE ShadowEvaluate
    <3>1. scanned \in FeedBars /\ scanned \in 0..LastBar
      BY <2>0, <2>3 DEF ShadowEvaluate, ScanTypes
    <3>2. evaluated' \subseteq FeedBars
      BY <2>3, <3>1 DEF ShadowEvaluate, ScanTypes
    <3>3. omissions' \subseteq 0..LastBar
      BY <2>3, <3>1 DEF ShadowEvaluate, ScanTypes, NoteOmission
    <3>4. FeedBars' = FeedBars /\ UNCHANGED <<lastClosed, lastEval, scanned>> /\ stage' = "census"
      BY <2>3 DEF ShadowEvaluate, FeedBars, Go
    <3> QED BY <3>1, <3>2, <3>3, <3>4 DEF ScanTypes
  <2>4. CASE MaybeEmitCensus
    <3>1. omissions' \subseteq omissions
      BY <2>4 DEF MaybeEmitCensus, EmitCensus
    <3>2. FeedBars' = FeedBars /\ UNCHANGED <<lastClosed, lastEval, scanned, evaluated>> /\ stage' = "regate" /\ stage # "poll"
      BY <2>4 DEF MaybeEmitCensus, FeedBars, Go
    <3> QED BY <3>1, <3>2 DEF ScanTypes
  <2>5. CASE StartRun
    <3>1. FeedBars' = FeedBars /\ UNCHANGED <<lastClosed, evaluated>> /\ stage' = "poll" /\ scanned' = Unscanned
          /\ lastEval' = Unscanned /\ omissions' = {}
      BY <2>5 DEF StartRun, EndPass, Go, FeedBars
    <3> QED BY <2>0, <3>1 DEF ScanTypes
  <2>6. CASE BarPrints
    <3>1. lastClosed' \in 0..LastBar /\ FeedBars \subseteq FeedBars'
          /\ UNCHANGED <<stage, scanned, lastEval, omissions, evaluated>>
      BY <2>0, <2>6 DEF BarPrints, FeedBars
    <3> QED BY <3>1 DEF ScanTypes
  <2>7. CASE UNCHANGED scanVars
    <3>1. FeedBars' = FeedBars /\ UNCHANGED scanVars
      BY <2>7 DEF scanVars, FeedBars
    <3> QED BY <3>1 DEF scanVars, ScanTypes
  <2> QED BY <2>1, <2>2, <2>3, <2>4, <2>5, <2>6, <2>7 DEF ScanNext
<1>3. ScanTypes => ScanTypeOK
  BY DEF ScanTypes, ScanTypeOK, FeedBars, Unscanned
<1> QED BY <1>1, <1>2, <1>3, PTL DEF ScanSpec

-----------------------------------------------------------------------------
(* The types of the browser bridge. *)

\* The calls of the bridge, and what the rest of it is.
BridgeCalls == [at : Stages, kind : BridgeRequests \union {"none"}, refreshed : 0..2, reached : 0..3]
BridgeRest ==
  /\ token \in {"none", "live", "expired"} /\ page \in BOOLEAN /\ trading \in BOOLEAN
  /\ bridgeLock \in Callers \union {Nobody}
  /\ adapter \in {"down", "asking", "reading", "connected"}

\* A call has reached the venue at most once for each attempt it made, and each attempt but the
\* first followed a login.
AttemptsCounted(k) ==
  /\ k.at \in {"idle", "waiting", "ensure", "blocked"} => k.refreshed = 0 /\ k.reached = 0
  /\ k.at = "fetch" => k.reached <= k.refreshed
  /\ k.at = "retry" => k.refreshed <= 1 /\ k.reached <= k.refreshed + 1
CallsCounted == call \in [Callers -> BridgeCalls] /\ \A c \in Callers : AttemptsCounted(call[c])
BridgeInv == BridgeRest /\ CallsCounted

\* A call that begins.
LEMMA CallBegins ==
  ASSUME NEW kind, NEW at
  PROVE  [NoBridgeCall EXCEPT !.kind = kind, !.at = at] = [at |-> at, kind |-> kind, refreshed |-> 0, reached |-> 0]
<1> DEFINE l == [NoBridgeCall EXCEPT !.kind = kind]
<1>1. l = [at |-> "idle", kind |-> kind, refreshed |-> 0, reached |-> 0]
  BY DEF NoBridgeCall
<1>2. [NoBridgeCall EXCEPT !.kind = kind, !.at = at] = [l EXCEPT !.at = at]
  BY DEF NoBridgeCall
<1> HIDE DEF l
<1> QED BY <1>1, <1>2

\* A login before the third attempt alone: an unauthorised answer to the third stands, and an attempt
\* that raises is made again only when it was the first.
LEMMA WorkTyped ==
  ASSUME CallsCounted, NEW c \in Callers, Work(c)
  PROVE  CallsCounted'
<1> DEFINE k == call[c]
<1>1. k \in BridgeCalls /\ AttemptsCounted(k) /\ call \in [Callers -> BridgeCalls]
  BY DEF CallsCounted
<1>2. /\ k.at \in Stages /\ k.refreshed \in 0..2 /\ k.reached \in 0..3
      /\ k.kind \in BridgeRequests \union {"none"}
      /\ k = [at |-> k.at, kind |-> k.kind, refreshed |-> k.refreshed, reached |-> k.reached]
  BY <1>1 DEF BridgeCalls
<1>3. ASSUME NEW next \in BridgeCalls, AttemptsCounted(next), call' = [call EXCEPT ![c] = next]
      PROVE  CallsCounted'
  <2>1. call' \in [Callers -> BridgeCalls]
    BY <1>1, <1>3
  <2>2. \A d \in Callers : call'[d] = IF d = c THEN next ELSE call[d]
    BY <1>1, <1>3
  <2>3. \A d \in Callers : AttemptsCounted(call'[d])
    <3> TAKE d \in Callers
    <3>1. CASE d = c
      BY <1>3, <2>2, <3>1
    <3>2. CASE d # c
      <4>1. call'[d] = call[d]
        BY <2>2, <3>2
      <4> QED BY <4>1 DEF CallsCounted
    <3> QED BY <3>1, <3>2
  <2> QED BY <2>1, <2>3 DEF CallsCounted
<1>4. ASSUME NEW at \in Stages, NEW m \in 0..2, NEW n \in 0..3,
             call' = [call EXCEPT ![c] = [at |-> at, kind |-> k.kind, refreshed |-> m, reached |-> n]],
             at \in {"idle", "waiting", "ensure", "blocked"} => m = 0 /\ n = 0,
             at = "fetch" => n <= m, at = "retry" => m <= 1 /\ n <= m + 1
      PROVE  CallsCounted'
  <2> DEFINE next == [at |-> at, kind |-> k.kind, refreshed |-> m, reached |-> n]
  <2>1. next \in BridgeCalls
    BY <1>2, <1>4 DEF BridgeCalls
  <2>2. AttemptsCounted(next)
    BY <1>4 DEF AttemptsCounted
  <2> QED BY <1>3, <1>4, <2>1, <2>2
<1>5. ASSUME NEW at \in Stages, Turn(c, at)
      PROVE  call' = [call EXCEPT ![c] = [at |-> at, kind |-> k.kind, refreshed |-> k.refreshed, reached |-> k.reached]]
  <2>1. call' = [call EXCEPT ![c] = [k EXCEPT !.at = at]]
    BY <1>1, <1>5 DEF Turn
  <2>2. [k EXCEPT !.at = at] = [at |-> at, kind |-> k.kind, refreshed |-> k.refreshed, reached |-> k.reached]
    BY <1>2
  <2> QED BY <2>1, <2>2
<1>6. CASE TakeLock(c)
  <2>1. Turn(c, "ensure") /\ k.at = "waiting" /\ "ensure" \in Stages
    BY <1>6 DEF TakeLock, Stages
  <2>2. k.refreshed = 0 /\ k.reached = 0
    BY <1>1, <2>1 DEF AttemptsCounted
  <2> HIDE DEF k
  <2> QED BY <1>2, <1>4, <1>5, <2>1, <2>2
<1>7. CASE Ensure(c)
  <2>1. k.at = "ensure" /\ \E at \in {"fetch", "answered", "failed"} : Turn(c, at)
    BY <1>7 DEF Ensure
  <2>2. PICK at \in {"fetch", "answered", "failed"} : Turn(c, at)
    BY <2>1
  <2>3. k.refreshed = 0 /\ k.reached = 0 /\ at \in Stages
    BY <1>1, <2>1 DEF AttemptsCounted, Stages
  <2> HIDE DEF k
  <2> QED BY <1>2, <1>4, <1>5, <2>2, <2>3
<1>8. CASE FetchAnswers(c)
  <2>1. k.at = "fetch" /\ call' = [call EXCEPT ![c].reached = @ + 1, ![c].at = "answered"]
    BY <1>8 DEF FetchAnswers
  <2>2. k.reached + 1 \in 0..3 /\ "answered" \in Stages
    BY <1>1, <1>2, <2>1 DEF AttemptsCounted, Stages
  <2>3. call' = [call EXCEPT ![c] = [at |-> "answered", kind |-> k.kind, refreshed |-> k.refreshed, reached |-> k.reached + 1]]
    BY <1>1, <1>2, <2>1 DEF BridgeCalls
  <2> HIDE DEF k
  <2> QED BY <1>2, <1>4, <2>2, <2>3
<1>9. CASE FetchUnauthorised(c)
  <2>1. k.at = "fetch" /\ ((k.refreshed < 2 /\ Turn(c, "retry")) \/ Turn(c, "answered"))
    BY <1>9 DEF FetchUnauthorised
  <2>2. k.reached <= k.refreshed /\ "retry" \in Stages /\ "answered" \in Stages
    BY <1>1, <2>1 DEF AttemptsCounted, Stages
  <2> HIDE DEF k
  <2>3. CASE k.refreshed < 2 /\ Turn(c, "retry")
    <3>1. k.refreshed <= 1 /\ k.reached <= k.refreshed + 1
      BY <1>2, <2>2, <2>3
    <3> QED BY <1>2, <1>4, <1>5, <2>2, <2>3, <3>1
  <2>4. CASE Turn(c, "answered")
    BY <1>2, <1>4, <1>5, <2>2, <2>4
  <2> QED BY <2>1, <2>3, <2>4
<1>10. CASE FetchRaises(c)
  <2>1. PICK left \in {FALSE} \union (IF page /\ token = "live" THEN {TRUE} ELSE {}) :
          call' = [call EXCEPT ![c].reached = call[c].reached + (IF left THEN 1 ELSE 0),
                               ![c].at = IF call[c].refreshed = 0 THEN "retry" ELSE "failed"]
    BY <1>10 DEF FetchRaises
  <2>2. PICK one \in 0..1 : one = IF left THEN 1 ELSE 0
    OBVIOUS
  <2>3. PICK at \in {"retry", "failed"} : at = IF k.refreshed = 0 THEN "retry" ELSE "failed"
    OBVIOUS
  <2>4. k.at = "fetch"
    BY <1>10 DEF FetchRaises
  <2>5. k.reached <= k.refreshed /\ at \in Stages
    BY <1>1, <2>4 DEF AttemptsCounted, Stages
  <2>6. call' = [call EXCEPT ![c].reached = k.reached + one, ![c].at = at]
    BY <2>1, <2>2, <2>3
  <2>7. call' = [call EXCEPT ![c] = [at |-> at, kind |-> k.kind, refreshed |-> k.refreshed, reached |-> k.reached + one]]
    <3>1. call' = [call EXCEPT ![c] = [k EXCEPT !.reached = k.reached + one, !.at = at]]
      BY <1>1, <2>6
    <3>2. [k EXCEPT !.reached = k.reached + one, !.at = at]
            = [at |-> at, kind |-> k.kind, refreshed |-> k.refreshed, reached |-> k.reached + one]
      <4> DEFINE l == [k EXCEPT !.reached = k.reached + one]
      <4> HIDE DEF k
      <4>1. l = [at |-> k.at, kind |-> k.kind, refreshed |-> k.refreshed, reached |-> k.reached + one]
        BY <1>2
      <4>2. [k EXCEPT !.reached = k.reached + one, !.at = at] = [l EXCEPT !.at = at]
        BY <1>1 DEF BridgeCalls
      <4> HIDE DEF l
      <4> QED BY <4>1, <4>2
    <3> QED BY <3>1, <3>2
  <2>8. k.reached + one \in 0..3 /\ (at = "retry" => k.refreshed <= 1 /\ k.reached + one <= k.refreshed + 1)
    BY <1>2, <2>3, <2>5
  <2> HIDE DEF k
  <2> QED BY <1>2, <1>4, <2>5, <2>7, <2>8
<1>11. CASE Relogin(c)
  <2>1. k.at = "retry" /\ (call' = [call EXCEPT ![c].at = "fetch", ![c].refreshed = @ + 1] \/ Turn(c, "failed"))
    BY <1>11 DEF Relogin
  <2>2. k.refreshed <= 1 /\ k.reached <= k.refreshed + 1 /\ "fetch" \in Stages /\ "failed" \in Stages
    BY <1>1, <2>1 DEF AttemptsCounted, Stages
  <2>3. CASE call' = [call EXCEPT ![c].at = "fetch", ![c].refreshed = @ + 1]
    <3>1. call' = [call EXCEPT ![c] = [at |-> "fetch", kind |-> k.kind, refreshed |-> k.refreshed + 1, reached |-> k.reached]]
      BY <1>1, <1>2, <2>3 DEF BridgeCalls
    <3>2. k.refreshed + 1 \in 0..2
      BY <1>2, <2>2
    <3> HIDE DEF k
    <3> QED BY <1>2, <1>4, <2>2, <3>1, <3>2
  <2>4. CASE Turn(c, "failed")
    <3> HIDE DEF k
    <3> QED BY <1>2, <1>4, <1>5, <2>2, <2>4
  <2> QED BY <2>1, <2>3, <2>4
<1>12. CASE Leave(c)
  <2>1. NoBridgeCall \in BridgeCalls /\ AttemptsCounted(NoBridgeCall)
    BY DEF NoBridgeCall, BridgeCalls, Stages, AttemptsCounted
  <2>2. call' = [call EXCEPT ![c] = NoBridgeCall]
    BY <1>12 DEF Leave
  <2> QED BY <1>3, <2>1, <2>2
<1> QED BY <1>6, <1>7, <1>8, <1>9, <1>10, <1>11, <1>12 DEF Work

\* Type correctness of the bridge: a request reaches the venue three times at most.
THEOREM BridgeTypeCorrect == BridgeSpec => []BridgeTypeOK
<1>1. ASSUME BridgeInit PROVE BridgeInv
  <2>1. CallsCounted
    BY <1>1 DEF BridgeInit, CallsCounted, AttemptsCounted, NoBridgeCall, BridgeCalls, Stages
  <2>2. trading \in BOOLEAN
    BY <1>1 DEF BridgeInit
  <2>3. page \in BOOLEAN
    BY <1>1 DEF BridgeInit
  <2> QED BY <1>1, <2>1, <2>2, <2>3 DEF BridgeInit, BridgeInv, BridgeRest
<1>2. BridgeInv /\ [BridgeNext]_bridgeVars => BridgeInv'
  <2> SUFFICES ASSUME BridgeRest, CallsCounted, [BridgeNext]_bridgeVars PROVE BridgeRest' /\ CallsCounted'
    BY DEF BridgeInv
  <2>1. CASE UNCHANGED bridgeVars
    BY <2>1 DEF bridgeVars, BridgeRest, CallsCounted, AttemptsCounted
  <2>2. CASE SessionExpires
    BY <2>2 DEF SessionExpires, BridgeRest, CallsCounted, AttemptsCounted
  <2>3. CASE AdapterConnects \/ AdapterDisconnects
    BY <2>3 DEF AdapterConnects, AdapterDisconnects, BridgeRest, CallsCounted, AttemptsCounted
  <2>4. ASSUME NEW c \in Callers, Work(c) PROVE BridgeRest' /\ CallsCounted'
    <3>1. page' \in BOOLEAN
      BY <2>4 DEF BridgeRest, Work, TakeLock, Ensure, FetchAnswers, FetchUnauthorised, FetchRaises, Relogin, Leave
    <3>2. token' \in {"none", "live", "expired"} /\ UNCHANGED <<trading, adapter>>
      BY <2>4 DEF BridgeRest, Work, TakeLock, Ensure, FetchAnswers, FetchUnauthorised, FetchRaises, Relogin, Leave
    <3>3. bridgeLock' \in Callers \union {Nobody}
      BY <2>4 DEF BridgeRest, Work, TakeLock, Ensure, FetchAnswers, FetchUnauthorised, FetchRaises, Relogin, Leave, FreeLock
    <3> QED BY <2>4, <3>1, <3>2, <3>3, WorkTyped DEF BridgeRest
  <2>5. ASSUME NEW c \in Callers, NEW kind \in BridgeRequests, Arrive(c, kind) PROVE BridgeRest' /\ CallsCounted'
    <3>1. \E at \in {"blocked", "waiting"} :
            call' = [call EXCEPT ![c] = [at |-> at, kind |-> kind, refreshed |-> 0, reached |-> 0]]
      <4>1. CASE IsWriteRequest(kind) /\ ~trading
        <5>1. call' = [call EXCEPT ![c] = [NoBridgeCall EXCEPT !.kind = kind, !.at = "blocked"]]
          BY <2>5, <4>1 DEF Arrive
        <5>2. [NoBridgeCall EXCEPT !.kind = kind, !.at = "blocked"] = [at |-> "blocked", kind |-> kind, refreshed |-> 0, reached |-> 0]
          BY CallBegins
        <5> QED BY <5>1, <5>2
      <4>2. CASE ~(IsWriteRequest(kind) /\ ~trading)
        <5>1. call' = [call EXCEPT ![c] = [NoBridgeCall EXCEPT !.kind = kind, !.at = "waiting"]]
          BY <2>5, <4>2 DEF Arrive
        <5>2. [NoBridgeCall EXCEPT !.kind = kind, !.at = "waiting"] = [at |-> "waiting", kind |-> kind, refreshed |-> 0, reached |-> 0]
          BY CallBegins
        <5> QED BY <5>1, <5>2
      <4> QED BY <4>1, <4>2
    <3>2. PICK at \in {"blocked", "waiting"} :
            call' = [call EXCEPT ![c] = [at |-> at, kind |-> kind, refreshed |-> 0, reached |-> 0]]
      BY <3>1
    <3>3. CallsCounted'
      BY <3>2 DEF CallsCounted, AttemptsCounted, BridgeCalls, Stages
    <3> QED BY <2>5, <3>3 DEF Arrive, BridgeRest
  <2> QED BY <2>1, <2>2, <2>3, <2>4, <2>5 DEF BridgeNext
<1>3. BridgeInv => BridgeTypeOK
  BY DEF BridgeInv, BridgeRest, CallsCounted, BridgeTypeOK, BridgeCalls
<1> QED BY <1>1, <1>2, <1>3, PTL DEF BridgeSpec

-----------------------------------------------------------------------------
(* The types of the stream to the page. *)

\* What a queue may hold, and where it holds an event that must not be lost.
Messages == 0..4
AlertsAt(q) == {i \in DOMAIN q : q[i] = AlertEvent}

StreamQueues == queue \in [Sockets -> Seq(Messages)] /\ \A s \in Sockets : Len(queue[s]) <= MaxQueue
\* An event in a queue was counted and is not delivered yet.
EventsCounted ==
  /\ events \in 0..MaxEvents /\ gotEvents \in [Sockets -> Nat]
  /\ \A s \in Sockets : gotEvents[s] <= events /\ Cardinality(AlertsAt(queue[s])) <= gotEvents[s]
StreamRest ==
  /\ peer \in [Sockets -> {"new", "listed", "deaf", "gone"}]
  /\ pinging \in BOOLEAN /\ book \in BookValues /\ panel \in BookValues
  /\ moves \in 0..MaxMoves /\ drops \in 0..MaxDrops
  /\ mounted \in BOOLEAN /\ intentional \in BOOLEAN /\ timer \in BOOLEAN
  /\ fetching \in 0..Cardinality(Sockets)
  /\ socket \in Sockets \union {NoSocket}
  /\ live \in [Sockets -> PageSockets]
  /\ rest \in [asked : BOOLEAN, answer : BookValues \union {NoAnswer}]
StreamInv == StreamQueues /\ EventsCounted /\ StreamRest

\* The events of a queue are counted.
LEMMA AlertsFinite ==
  ASSUME NEW q \in Seq(Messages) PROVE IsFiniteSet(AlertsAt(q)) /\ Cardinality(AlertsAt(q)) \in Nat
<1>1. AlertsAt(q) \in SUBSET (1..Len(q)) /\ Len(q) \in Nat
  BY DEF AlertsAt
<1>2. IsFiniteSet(1..Len(q))
  BY <1>1, FS_Interval
<1> QED BY <1>1, <1>2, FS_Subset, FS_CardinalityType

\* A message at the end of a queue is one event more, or none.
LEMMA AlertsAppended ==
  ASSUME NEW q \in Seq(Messages), NEW m \in Messages
  PROVE  Cardinality(AlertsAt(Append(q, m))) = IF m = AlertEvent THEN Cardinality(AlertsAt(q)) + 1 ELSE Cardinality(AlertsAt(q))
<1> DEFINE n == Len(q) + 1
           p == Append(q, m)
<1>1. p \in Seq(Messages) /\ Len(p) = n /\ p[n] = m /\ n \in Nat \ {0} /\ \A i \in 1..Len(q) : p[i] = q[i]
  OBVIOUS
<1>2. DOMAIN p = 1..n /\ DOMAIN q = 1..(n - 1) /\ n \notin DOMAIN q
  BY <1>1
<1>3. CASE m = AlertEvent
  <2>1. AlertsAt(p) = AlertsAt(q) \union {n} /\ n \notin AlertsAt(q)
    <3> HIDE DEF p, n
    <3>1. \A i : i \in 1..n <=> i \in 1..(n - 1) \/ i = n
      BY <1>1, <1>2
    <3>2. \A i \in 1..(n - 1) : p[i] = q[i] /\ i # n
      BY <1>1, <1>2
    <3>3. n \in 1..n /\ p[n] = AlertEvent
      BY <1>1, <1>2, <1>3
    <3> QED BY <1>2, <3>1, <3>2, <3>3, Zenon DEF AlertsAt
  <2> HIDE DEF p, n
  <2> QED BY <1>3, <2>1, AlertsFinite, FS_AddElement DEF p
<1>4. CASE m # AlertEvent
  <2>1. AlertsAt(p) = AlertsAt(q)
    <3> HIDE DEF p, n
    <3> QED BY <1>1, <1>2, <1>4 DEF AlertsAt
  <2> QED BY <1>4, <2>1
<1> QED BY <1>3, <1>4

\* The head of a queue was an event of it, or none.
LEMMA AlertsTaken ==
  ASSUME NEW q \in Seq(Messages), q # <<>>
  PROVE  Cardinality(AlertsAt(Tail(q))) <= IF Head(q) = AlertEvent THEN Cardinality(AlertsAt(q)) - 1 ELSE Cardinality(AlertsAt(q))
<1> DEFINE t == Tail(q)
           f == [i \in AlertsAt(t) |-> i + 1]
<1>1. /\ t \in Seq(Messages) /\ Len(q) \in Nat \ {0} /\ Len(t) = Len(q) - 1 /\ Head(q) = q[1]
      /\ \A i \in 1..Len(t) : t[i] = q[i + 1]
  OBVIOUS
<1>2. DOMAIN t = 1..Len(t) /\ DOMAIN q = 1..Len(q)
  BY <1>1
<1> HIDE DEF t
<1>3. \A i \in AlertsAt(t) : i \in Nat /\ i + 1 \in AlertsAt(q) \ {1}
  BY <1>1, <1>2 DEF AlertsAt
<1>4. f \in Injection(AlertsAt(t), AlertsAt(q) \ {1})
  <2>1. f \in [AlertsAt(t) -> AlertsAt(q) \ {1}]
    BY <1>3
  <2>2. \A i, j \in AlertsAt(t) : f[i] = f[j] => i = j
    BY <1>3
  <2> HIDE DEF f
  <2> QED BY <2>1, <2>2 DEF Injection, IsInjective
<1>5. IsFiniteSet(AlertsAt(q)) /\ Cardinality(AlertsAt(q)) \in Nat
  BY AlertsFinite
<1>6. /\ IsFiniteSet(AlertsAt(q) \ {1})
      /\ Cardinality(AlertsAt(q) \ {1}) = IF 1 \in AlertsAt(q) THEN Cardinality(AlertsAt(q)) - 1 ELSE Cardinality(AlertsAt(q))
  BY <1>5, FS_RemoveElement
<1>7. Cardinality(AlertsAt(t)) <= Cardinality(AlertsAt(q) \ {1})
  BY <1>4, <1>6, FS_Injection
<1>8. 1 \in AlertsAt(q) <=> Head(q) = AlertEvent
  BY <1>1, <1>2 DEF AlertsAt
<1> QED BY <1>6, <1>7, <1>8 DEF t

\* A message appended or taken leaves a queue within its bound.
LEMMA QueuesGo ==
  ASSUME StreamQueues, NEW s \in Sockets, NEW m \in Messages
  PROVE  /\ queue[s] \in Seq(Messages) /\ Len(queue[s]) \in 0..MaxQueue
         /\ ~QueueFull(s) => Append(queue[s], m) \in Seq(Messages) /\ Len(Append(queue[s], m)) <= MaxQueue
         /\ queue[s] # <<>> => Tail(queue[s]) \in Seq(Messages) /\ Len(Tail(queue[s])) = Len(queue[s]) - 1
         /\ QueueFull(s) => queue[s] # <<>>
<1>1. queue[s] \in Seq(Messages) /\ Len(queue[s]) \in Nat /\ Len(queue[s]) <= MaxQueue /\ MaxQueue \in Nat \ {0}
  BY WsAssumption DEF StreamQueues
<1>2. Len(Append(queue[s], m)) = Len(queue[s]) + 1 /\ Append(queue[s], m) \in Seq(Messages)
  BY <1>1
<1>3. queue[s] # <<>> => Tail(queue[s]) \in Seq(Messages) /\ Len(Tail(queue[s])) = Len(queue[s]) - 1
  BY <1>1
<1>4. QueueFull(s) => queue[s] # <<>>
  BY <1>1 DEF QueueFull
<1>5. ~QueueFull(s) => Len(Append(queue[s], m)) <= MaxQueue
  BY <1>1, <1>2 DEF QueueFull
<1> QED BY <1>1, <1>2, <1>3, <1>4, <1>5

\* What a publication adds to each queue.
LEMMA Published ==
  ASSUME StreamInv, NEW m \in Messages, Publish(m)
  PROVE  /\ StreamQueues' /\ peer' \in [Sockets -> {"new", "listed", "deaf", "gone"}]
         /\ \A s \in Sockets : Cardinality(AlertsAt(queue'[s])) =
              IF m = AlertEvent /\ Hears(s) /\ ~QueueFull(s) THEN Cardinality(AlertsAt(queue[s])) + 1
              ELSE Cardinality(AlertsAt(queue[s]))
<1>0. StreamQueues /\ peer \in [Sockets -> {"new", "listed", "deaf", "gone"}]
  BY DEF StreamInv, StreamRest
<1>1. \A s \in Sockets : queue'[s] = IF Hears(s) /\ ~QueueFull(s) THEN Append(queue[s], m) ELSE queue[s]
  BY DEF Publish
<1>2. ASSUME NEW s \in Sockets
      PROVE  /\ queue'[s] \in Seq(Messages) /\ Len(queue'[s]) <= MaxQueue
             /\ Cardinality(AlertsAt(queue'[s])) =
                  IF m = AlertEvent /\ Hears(s) /\ ~QueueFull(s) THEN Cardinality(AlertsAt(queue[s])) + 1
                  ELSE Cardinality(AlertsAt(queue[s]))
  <2>1. queue[s] \in Seq(Messages) /\ Len(queue[s]) <= MaxQueue
    BY <1>0 DEF StreamQueues
  <2>2. CASE Hears(s) /\ ~QueueFull(s)
    <3>1. queue'[s] = Append(queue[s], m)
      BY <1>1, <2>2
    <3>2. queue'[s] \in Seq(Messages) /\ Len(queue'[s]) <= MaxQueue
      BY <1>0, <2>2, <3>1, QueuesGo
    <3>3. Cardinality(AlertsAt(Append(queue[s], m))) =
            IF m = AlertEvent THEN Cardinality(AlertsAt(queue[s])) + 1 ELSE Cardinality(AlertsAt(queue[s]))
      BY <2>1, AlertsAppended
    <3> QED BY <2>2, <3>1, <3>2, <3>3
  <2>3. CASE ~(Hears(s) /\ ~QueueFull(s))
    <3>1. queue'[s] = queue[s]
      BY <1>1, <2>3
    <3> QED BY <2>1, <2>3, <3>1
  <2> QED BY <2>2, <2>3
<1>3. queue' = [s \in Sockets |-> queue'[s]]
  BY DEF Publish
<1>4. StreamQueues'
  BY <1>2, <1>3 DEF StreamQueues
<1>5. peer' \in [Sockets -> {"new", "listed", "deaf", "gone"}]
  BY <1>0 DEF Publish
<1> QED BY <1>2, <1>4, <1>5

\* A book or an event is published.
LEMMA PublishKeeps == ASSUME StreamInv, PushBook \/ PushEvent PROVE StreamInv'
<1>0. EventsCounted /\ StreamRest
  BY DEF StreamInv
<1>1. CASE PushBook
  <2>1. Publish(book) /\ book \in Messages /\ book # AlertEvent
    BY <1>0, <1>1 DEF PushBook, StreamRest, BookValues, Messages, AlertEvent
  <2>2. StreamQueues' /\ peer' \in [Sockets -> {"new", "listed", "deaf", "gone"}]
        /\ \A s \in Sockets : Cardinality(AlertsAt(queue'[s])) = Cardinality(AlertsAt(queue[s]))
    BY <2>1, Published
  <2>3. UNCHANGED <<pinging, book, moves, events, gotEvents>> /\ UNCHANGED wsPageVars
    BY <1>1 DEF PushBook
  <2>4. EventsCounted'
    BY <1>0, <2>2, <2>3 DEF EventsCounted
  <2>5. StreamRest'
    BY <1>0, <2>2, <2>3 DEF StreamRest, wsPageVars
  <2> QED BY <2>2, <2>4, <2>5 DEF StreamInv
<1>2. CASE PushEvent
  <2>1. Publish(AlertEvent) /\ AlertEvent \in Messages /\ events' = events + 1 /\ events < MaxEvents
    BY <1>2 DEF PushEvent, Messages, AlertEvent
  <2>2. StreamQueues' /\ peer' \in [Sockets -> {"new", "listed", "deaf", "gone"}]
        /\ \A s \in Sockets : Cardinality(AlertsAt(queue'[s])) =
             IF Hears(s) /\ ~QueueFull(s) THEN Cardinality(AlertsAt(queue[s])) + 1 ELSE Cardinality(AlertsAt(queue[s]))
    BY <2>1, Published
  <2>3. UNCHANGED <<pinging, book, moves>> /\ UNCHANGED wsPageVars
    BY <1>2 DEF PushEvent
  <2>4. gotEvents' = [s \in Sockets |-> IF Hears(s) /\ ~QueueFull(s) THEN gotEvents[s] + 1 ELSE gotEvents[s]]
    BY <1>2 DEF PushEvent
  <2>5. EventsCounted'
    <3>1. events' \in 0..MaxEvents /\ events \in Nat
      BY <1>0, <2>1, WsAssumption DEF EventsCounted
    <3>2. gotEvents' \in [Sockets -> Nat]
      BY <1>0, <2>4 DEF EventsCounted
    <3>3. ASSUME NEW s \in Sockets
          PROVE  gotEvents'[s] <= events' /\ Cardinality(AlertsAt(queue'[s])) <= gotEvents'[s]
      <4>1. gotEvents[s] \in Nat /\ gotEvents[s] <= events /\ Cardinality(AlertsAt(queue[s])) <= gotEvents[s]
        BY <1>0 DEF EventsCounted
      <4>2. queue[s] \in Seq(Messages)
        BY DEF StreamInv, StreamQueues
      <4>3. Cardinality(AlertsAt(queue[s])) \in Nat
        BY <4>2, AlertsFinite
      <4>4. gotEvents'[s] = IF Hears(s) /\ ~QueueFull(s) THEN gotEvents[s] + 1 ELSE gotEvents[s]
        BY <2>4
      <4>5. Cardinality(AlertsAt(queue'[s])) =
             IF Hears(s) /\ ~QueueFull(s) THEN Cardinality(AlertsAt(queue[s])) + 1 ELSE Cardinality(AlertsAt(queue[s]))
        BY <2>2
      <4> QED BY <2>1, <3>1, <4>1, <4>3, <4>4, <4>5
    <3> QED BY <3>1, <3>2, <3>3 DEF EventsCounted
  <2>6. StreamRest'
    BY <1>0, <2>2, <2>3 DEF StreamRest, wsPageVars
  <2> QED BY <2>2, <2>5, <2>6 DEF StreamInv
<1> QED BY <1>1, <1>2

\* A tick takes the place of the head of a full queue.
LEMMA TickKeeps == ASSUME StreamInv, PushTick PROVE StreamInv'
<1>0. StreamQueues /\ EventsCounted /\ StreamRest
  BY DEF StreamInv
<1>1. PriceTick \in Messages /\ PriceTick # AlertEvent
  BY DEF PriceTick, AlertEvent, Messages
<1>2. ASSUME NEW s \in Sockets
      PROVE  /\ queue'[s] \in Seq(Messages) /\ Len(queue'[s]) <= MaxQueue
             /\ Cardinality(AlertsAt(queue'[s])) <= Cardinality(AlertsAt(queue[s]))
  <2>1. queue[s] \in Seq(Messages) /\ Len(queue[s]) <= MaxQueue /\ Cardinality(AlertsAt(queue[s])) \in Nat
    BY <1>0, AlertsFinite DEF StreamQueues
  <2>2. CASE ~Hears(s)
    <3>1. queue'[s] = queue[s]
      BY <2>2 DEF PushTick
    <3> QED BY <2>1, <3>1
  <2>3. CASE Hears(s) /\ ~QueueFull(s)
    <3>1. queue'[s] = Append(queue[s], PriceTick)
      BY <2>3 DEF PushTick
    <3>2. queue'[s] \in Seq(Messages) /\ Len(queue'[s]) <= MaxQueue
      BY <1>0, <1>1, <2>3, <3>1, QueuesGo
    <3>3. Cardinality(AlertsAt(Append(queue[s], PriceTick))) = Cardinality(AlertsAt(queue[s]))
      BY <1>1, <2>1, AlertsAppended
    <3> QED BY <2>1, <3>1, <3>2, <3>3
  <2>4. CASE Hears(s) /\ QueueFull(s)
    <3> DEFINE t == Tail(queue[s])
    <3>1. queue'[s] = Append(t, PriceTick)
      BY <2>4 DEF PushTick
    <3>2. queue[s] # <<>> /\ t \in Seq(Messages) /\ Len(t) = Len(queue[s]) - 1 /\ Len(queue[s]) \in Nat
      BY <1>0, <1>1, <2>4, QueuesGo
    <3>3. Cardinality(AlertsAt(t)) <= IF Head(queue[s]) = AlertEvent THEN Cardinality(AlertsAt(queue[s])) - 1
                                                                     ELSE Cardinality(AlertsAt(queue[s]))
      BY <2>1, <3>2, AlertsTaken
    <3> HIDE DEF t
    <3>4. Cardinality(AlertsAt(Append(t, PriceTick))) = Cardinality(AlertsAt(t)) /\ Cardinality(AlertsAt(t)) \in Nat
      BY <1>1, <3>2, AlertsAppended, AlertsFinite
    <3>5. Append(t, PriceTick) \in Seq(Messages) /\ Len(Append(t, PriceTick)) = Len(t) + 1 /\ Len(t) \in Nat
      BY <1>1, <3>2
    <3>6. Len(Append(t, PriceTick)) <= MaxQueue /\ MaxQueue \in Nat
      BY <2>1, <3>2, <3>5, WsAssumption
    <3>7. Cardinality(AlertsAt(t)) <= Cardinality(AlertsAt(queue[s]))
      BY <2>1, <3>3, <3>4
    <3> QED BY <3>1, <3>4, <3>5, <3>6, <3>7
  <2> QED BY <2>2, <2>3, <2>4
<1>3. queue' = [s \in Sockets |-> queue'[s]]
  BY DEF PushTick
<1>4. StreamQueues'
  BY <1>2, <1>3 DEF StreamQueues
<1>5. UNCHANGED <<peer, pinging, book, moves, gotEvents>> /\ UNCHANGED wsPageVars /\ events < MaxEvents /\ events' = events + 1
  BY DEF PushTick
<1>6. EventsCounted'
  <2>1. events' \in 0..MaxEvents /\ events \in Nat
    BY <1>0, <1>5, WsAssumption DEF EventsCounted
  <2>2. ASSUME NEW s \in Sockets PROVE gotEvents'[s] <= events' /\ Cardinality(AlertsAt(queue'[s])) <= gotEvents'[s]
    <3>1. gotEvents[s] \in Nat /\ gotEvents[s] <= events /\ Cardinality(AlertsAt(queue[s])) <= gotEvents[s]
      BY <1>0 DEF EventsCounted
    <3>2. queue[s] \in Seq(Messages) /\ queue'[s] \in Seq(Messages)
      BY <1>0, <1>2 DEF StreamQueues
    <3>3. Cardinality(AlertsAt(queue[s])) \in Nat /\ Cardinality(AlertsAt(queue'[s])) \in Nat
      BY <3>2, AlertsFinite
    <3>4. Cardinality(AlertsAt(queue'[s])) <= Cardinality(AlertsAt(queue[s])) /\ gotEvents' = gotEvents
      BY <1>2, <1>5
    <3> QED BY <1>5, <2>1, <3>1, <3>3, <3>4
  <2> QED BY <1>0, <1>5, <2>1, <2>2 DEF EventsCounted
<1>7. StreamRest'
  BY <1>0, <1>5 DEF StreamRest, wsPageVars
<1> QED BY <1>4, <1>6, <1>7 DEF StreamInv

\* An event that is delivered is counted off.
LEMMA DeliverKeeps == ASSUME StreamInv, NEW s \in Sockets, Deliver(s) PROVE StreamInv'
<1>0. StreamQueues /\ EventsCounted /\ StreamRest
  BY DEF StreamInv
<1>1. queue[s] \in Seq(Messages) /\ queue[s] # <<>> /\ Len(queue[s]) \in 0..MaxQueue
  BY <1>0 DEF Deliver, StreamQueues
<1>2. Tail(queue[s]) \in Seq(Messages) /\ Len(Tail(queue[s])) <= MaxQueue
  <2>1. 0 \in Messages
    BY DEF Messages
  <2>2. Tail(queue[s]) \in Seq(Messages) /\ Len(Tail(queue[s])) = Len(queue[s]) - 1
    BY <1>0, <1>1, <2>1, QueuesGo
  <2> QED BY <1>1, <2>2, WsAssumption
<1>3. Cardinality(AlertsAt(queue[s])) \in Nat /\ Cardinality(AlertsAt(Tail(queue[s]))) \in Nat
  BY <1>1, <1>2, AlertsFinite
<1>4. Cardinality(AlertsAt(Tail(queue[s]))) <= IF Head(queue[s]) = AlertEvent THEN Cardinality(AlertsAt(queue[s])) - 1
                                                                             ELSE Cardinality(AlertsAt(queue[s]))
  BY <1>1, AlertsTaken
<1>5. queue' = [queue EXCEPT ![s] = Tail(queue[s])] /\ events' = events
      /\ gotEvents' = IF Head(queue[s]) = AlertEvent THEN [gotEvents EXCEPT ![s] = gotEvents[s] - 1] ELSE gotEvents
  BY DEF Deliver
<1>6. StreamQueues'
  BY <1>0, <1>2, <1>5 DEF StreamQueues
<1>7. EventsCounted'
  <2>1. gotEvents \in [Sockets -> Nat] /\ gotEvents[s] \in Nat /\ events \in Nat /\ gotEvents[s] <= events
        /\ Cardinality(AlertsAt(queue[s])) <= gotEvents[s]
    BY <1>0, WsAssumption DEF EventsCounted
  <2>2. PICK n : n = Head(queue[s])
    OBVIOUS
  <2>3. PICK a \in Nat : a = Cardinality(AlertsAt(Tail(queue[s])))
    BY <1>3
  <2>4. PICK b \in Nat : b = Cardinality(AlertsAt(queue[s]))
    BY <1>3
  <2>5. a <= (IF n = AlertEvent THEN b - 1 ELSE b) /\ b <= gotEvents[s]
    BY <1>4, <2>1, <2>2, <2>3, <2>4
  <2>6. gotEvents' \in [Sockets -> Nat] /\ gotEvents'[s] <= events /\ a <= gotEvents'[s]
    <3>1. CASE n = AlertEvent
      <4>1. gotEvents' = [gotEvents EXCEPT ![s] = gotEvents[s] - 1] /\ gotEvents[s] - 1 \in Nat /\ a <= gotEvents[s] - 1
        BY <1>5, <2>1, <2>2, <2>5, <3>1
      <4> QED BY <2>1, <4>1
    <3>2. CASE n # AlertEvent
      <4>1. gotEvents' = gotEvents
        BY <1>5, <2>2, <3>2
      <4> QED BY <2>1, <2>5, <3>2, <4>1
    <3> QED BY <3>1, <3>2
  <2>7. \A t \in Sockets : t # s => gotEvents'[t] = gotEvents[t] /\ queue'[t] = queue[t]
    BY <1>0, <1>5, <2>1 DEF StreamQueues
  <2>8. queue'[s] = Tail(queue[s])
    BY <1>0, <1>5 DEF StreamQueues
  <2>9. ASSUME NEW t \in Sockets PROVE gotEvents'[t] <= events' /\ Cardinality(AlertsAt(queue'[t])) <= gotEvents'[t]
    <3>1. CASE t = s
      BY <1>5, <2>3, <2>6, <2>8, <3>1
    <3>2. CASE t # s
      BY <1>0, <1>5, <2>7, <3>2 DEF EventsCounted
    <3> QED BY <3>1, <3>2
  <2> QED BY <1>0, <1>5, <2>6, <2>9 DEF EventsCounted
<1>8. StreamRest'
  <2>1. panel' \in BookValues
    BY <1>0 DEF Deliver, StreamRest, Shown
  <2> QED BY <1>0, <2>1 DEF Deliver, StreamRest
<1> QED BY <1>6, <1>7, <1>8 DEF StreamInv

\* A connection that is taken off the list loses its queue.
LEMMA UnlistKeeps == ASSUME StreamInv, NEW s \in Sockets, EndpointEnds(s) \/ CloseSlow(s) PROVE StreamInv'
<1>0. StreamQueues /\ EventsCounted /\ StreamRest
  BY DEF StreamInv
<1>1. Unlist(s) /\ UNCHANGED <<book, moves, events, gotEvents, mounted, intentional, fetching, socket, rest, panel, drops, mounts>>
  BY DEF EndpointEnds, CloseSlow, wsPageVars
<1>2. <<>> \in Seq(Messages) /\ Len(<<>>) = 0 /\ 0 <= MaxQueue /\ AlertsAt(<<>>) = {}
  BY WsAssumption DEF AlertsAt
<1>3. StreamQueues'
  BY <1>0, <1>1, <1>2 DEF Unlist, StreamQueues
<1>4. EventsCounted'
  <2>1. Cardinality(AlertsAt(<<>>)) = 0
    BY <1>2, FS_EmptySet
  <2>2. ASSUME NEW t \in Sockets PROVE Cardinality(AlertsAt(queue'[t])) <= gotEvents[t]
    <3>1. gotEvents[t] \in Nat /\ Cardinality(AlertsAt(queue[t])) <= gotEvents[t]
      BY <1>0 DEF EventsCounted
    <3>2. CASE t = s
      <4>1. queue'[t] = <<>>
        BY <1>0, <1>1, <3>2 DEF Unlist, StreamQueues
      <4> QED BY <2>1, <3>1, <4>1
    <3>3. CASE t # s
      <4>1. queue'[t] = queue[t]
        BY <1>0, <1>1, <3>3 DEF Unlist, StreamQueues
      <4> QED BY <3>1, <4>1
    <3> QED BY <3>2, <3>3
  <2> QED BY <1>0, <1>1, <2>2 DEF EventsCounted
<1>5. StreamRest'
  <2>1. pinging' \in BOOLEAN
    BY <1>0, <1>1, Zenon DEF Unlist, StreamRest
  <2>2. timer' \in BOOLEAN
    <3>1. timer' = timer \/ timer' = ~intentional
      BY DEF EndpointEnds, CloseSlow, wsPageVars, ScheduleReconnect
    <3> QED BY <1>0, <3>1 DEF StreamRest
  <2>3. live' \in [Sockets -> PageSockets]
    BY <1>0 DEF EndpointEnds, CloseSlow, wsPageVars, StreamRest, PageSockets
  <2>4. peer' \in [Sockets -> {"new", "listed", "deaf", "gone"}]
    BY <1>0, <1>1 DEF Unlist, StreamRest
  <2> QED BY <1>0, <1>1, <2>1, <2>2, <2>3, <2>4 DEF StreamRest
<1> QED BY <1>3, <1>4, <1>5 DEF StreamInv

\* The page and the book leave the queues and the counts.
LEMMA PageKeeps ==
  ASSUME StreamInv,
         \/ BookMoves \/ Mount \/ Unmount \/ RetryTimer \/ TicketFails \/ RestReads \/ RestAnswers
         \/ \E s \in Sockets : Dial(s) \/ Accept(s) \/ Lose(s)
  PROVE  StreamInv'
<1>0. StreamQueues /\ EventsCounted /\ StreamRest
  BY DEF StreamInv
<1>1. StreamQueues' /\ EventsCounted'
  <2>1. UNCHANGED <<queue, events, gotEvents>>
    BY DEF BookMoves, Mount, Unmount, RetryTimer, TicketFails, RestReads, RestAnswers, Dial, Accept, Lose, wsServerVars
  <2> QED BY <1>0, <2>1 DEF StreamQueues, EventsCounted
<1>2. Cardinality(Sockets) \in Nat /\ {MaxMoves, MaxDrops} \subseteq Nat /\ NoSocket \in Sockets \union {NoSocket}
  BY WsAssumption, FS_CardinalityType
<1> USE <1>0, <1>2 DEF StreamRest
<1>3. CASE BookMoves
  <2>1. book' \in BookValues
    BY <1>3 DEF BookMoves, BookValues
  <2> QED BY <1>1, <1>3, <2>1 DEF BookMoves, StreamInv, wsPageVars
<1>4. CASE Mount
  <2>1. mounted' \in BOOLEAN
    BY <1>4 DEF Mount
  <2>2. intentional' \in BOOLEAN
    BY <1>4 DEF Mount
  <2>3. fetching' \in 0..Cardinality(Sockets)
    BY <1>4 DEF Mount
  <2> QED BY <1>1, <1>4, <2>1, <2>2, <2>3 DEF Mount, StreamInv, wsServerVars
<1>5. CASE Unmount
  <2>1. live' \in [Sockets -> PageSockets]
    BY <1>5 DEF Unmount, PageSockets
  <2>2. mounted' \in BOOLEAN /\ intentional' \in BOOLEAN /\ timer' \in BOOLEAN
    BY <1>5 DEF Unmount
  <2> QED BY <1>1, <1>5, <2>1, <2>2 DEF Unmount, StreamInv, wsServerVars
<1>6. CASE RetryTimer
  <2>1. timer' \in BOOLEAN
    BY <1>6 DEF RetryTimer
  <2> QED BY <1>1, <1>6, <2>1 DEF RetryTimer, StreamInv, wsServerVars
<1>7. CASE TicketFails
  <2>1. timer' \in BOOLEAN
    BY <1>7 DEF TicketFails, ScheduleReconnect
  <2> QED BY <1>1, <1>7, <2>1 DEF TicketFails, StreamInv, wsServerVars
<1>8. CASE RestReads
  BY <1>1, <1>8 DEF RestReads, StreamInv, wsServerVars
<1>9. CASE RestAnswers
  <2>1. panel' \in BookValues
    BY <1>9 DEF RestAnswers
  <2> QED BY <1>1, <1>9, <2>1 DEF RestAnswers, StreamInv, wsServerVars
<1>10. ASSUME NEW s \in Sockets, Dial(s) PROVE StreamInv'
  BY <1>1, <1>10 DEF Dial, StreamInv, wsServerVars, PageSockets
<1>11. ASSUME NEW s \in Sockets, Accept(s) PROVE StreamInv'
  BY <1>1, <1>11 DEF Accept, StreamInv, PageSockets
<1>12. ASSUME NEW s \in Sockets, Lose(s) PROVE StreamInv'
  <2>1. timer' \in BOOLEAN
    BY <1>12 DEF Lose, ScheduleReconnect
  <2>2. live' \in [Sockets -> PageSockets]
    BY <1>12 DEF Lose, PageSockets
  <2> QED BY <1>1, <1>12, <2>1, <2>2 DEF Lose, StreamInv, wsServerVars
<1> QED BY <1>3, <1>4, <1>5, <1>6, <1>7, <1>8, <1>9, <1>10, <1>11, <1>12

\* Type correctness of the stream: no queue is longer than its bound, and no event is delivered that
\* was not counted when it was queued.
THEOREM StreamTypeCorrect == WsSpec => []WsTypeOK
<1>1. WsInit => StreamInv
  <2> SUFFICES ASSUME WsInit PROVE StreamInv
    OBVIOUS
  <2>1. <<>> \in Seq(Messages) /\ Len(<<>>) = 0 /\ 0 <= MaxQueue /\ AlertsAt(<<>>) = {}
    BY WsAssumption DEF AlertsAt
  <2>2. StreamQueues
    BY <2>1 DEF WsInit, StreamQueues
  <2>3. Cardinality(AlertsAt(<<>>)) = 0
    BY <2>1, FS_EmptySet
  <2>4. EventsCounted
    BY <2>3, WsAssumption DEF WsInit, EventsCounted
  <2>5. Cardinality(Sockets) \in Nat /\ {MaxMoves, MaxDrops} \subseteq Nat
    BY WsAssumption, FS_CardinalityType
  <2>6. pinging \in BOOLEAN
    BY DEF WsInit
  <2>7. mounted \in BOOLEAN /\ intentional \in BOOLEAN /\ timer \in BOOLEAN
    BY DEF WsInit
  <2>8. rest \in [asked : BOOLEAN, answer : BookValues \union {NoAnswer}]
    BY DEF WsInit
  <2>9. StreamRest
    BY <2>5, <2>6, <2>7, <2>8 DEF WsInit, StreamRest, BookValues, PageSockets
  <2> QED BY <2>2, <2>4, <2>9 DEF StreamInv
<1>2. StreamInv /\ UNCHANGED wsVars => StreamInv'
  BY DEF wsVars, wsServerVars, wsPageVars, StreamInv, StreamQueues, EventsCounted, StreamRest
<1>3. StreamInv /\ [WsNext]_wsVars => StreamInv'
  BY <1>2, PublishKeeps, TickKeeps, DeliverKeeps, UnlistKeeps, PageKeeps DEF WsNext
<1>4. StreamInv => WsTypeOK
  <2> SUFFICES ASSUME StreamInv PROVE WsTypeOK
    OBVIOUS
  <2>1. \A s \in Sockets : gotEvents[s] \in 0..MaxEvents
    <3> TAKE s \in Sockets
    <3>1. gotEvents[s] \in Nat /\ gotEvents[s] <= events /\ events \in 0..MaxEvents /\ MaxEvents \in Nat
      BY WsAssumption DEF StreamInv, EventsCounted
    <3> QED BY <3>1
  <2>2. gotEvents \in [Sockets -> 0..MaxEvents]
    BY <2>1 DEF StreamInv, EventsCounted
  <2> QED BY <2>2 DEF StreamInv, StreamQueues, EventsCounted, StreamRest, WsTypeOK
<1> QED BY <1>1, <1>3, <1>4, PTL DEF WsSpec

-----------------------------------------------------------------------------
(* The types of the other brokers' accounts and of the order of an entry. *)

\* What the accounts can be asked about.
AccountsWorld == answering \subseteq Providers /\ late \subseteq Positions

\* Type correctness of the other brokers' accounts: the rows of a pull are of positions, its errors of
\* accounts, and a deletion is told one of its five answers.
THEOREM AccountTypeCorrect == SweepSpec => []AccountTypeOK
<1>1. SweepInit => AccountsWorld
  BY SweepAssumption DEF SweepInit, AccountsWorld
<1>2. AccountsWorld /\ [SweepNext]_sweepVars => AccountsWorld'
  <2> SUFFICES ASSUME AccountsWorld, [SweepNext]_sweepVars PROVE AccountsWorld'
    OBVIOUS
  <2>1. CASE \E p \in Positions : Opens(p)
    BY <2>1 DEF Opens, AccountsWorld
  <2>2. ASSUME NEW a \in Providers, Falls(a) \/ Returns(a) PROVE AccountsWorld'
    BY <2>2 DEF Falls, Returns, AccountsWorld
  <2>3. CASE UNCHANGED <<answering, late>>
    BY <2>3 DEF AccountsWorld
  <2> QED
    BY <2>1, <2>2, <2>3 DEF SweepNext, Closes, AskClose, Connect, Disconnect, Pull, Unreadable, LinkSeen, BookListed, Raised,
       Cancelled, Asked, Tried, Answered, venueVars, sweepVars
<1>3. AccountsWorld /\ Pulling /\ Deleting => AccountTypeOK
  <2> SUFFICES ASSUME AccountsWorld, SweepShape, Deleting PROVE AccountTypeOK
    BY DEF Pulling
  <2>1. PICK S \in SUBSET Positions : results.rows \in [S -> Dispositions]
    BY DEF SweepShape, Rows
  <2>2. results.errors \subseteq Providers /\ sweep.stage \in {"idle", "link", "list", "close", "ended", "cut"}
        /\ open \subseteq Positions
    BY DEF SweepShape
  <2>3. deletion.told \in {0, 204, 404, 500, 502}
    BY DEF Deleting
  <2> QED BY <2>1, <2>2, <2>3 DEF AccountTypeOK, AccountsWorld
<1> QED BY <1>1, <1>2, <1>3, SweepStarts, SweepKeeps, PTL DEF SweepSpec

\* The words of a record, and what cannot be below nothing.
OrderWords ==
  /\ account \in Nat
  /\ outcome \in {"none", "SUBMITTING", "OPEN", "REJECTED", "UNSIZED_FILL"}
  /\ stopped \in {"no", "UNITS_DISAGREE", "PARTIAL_UNSIZED", "UNRESOLVED"}
  /\ presend \in BOOLEAN

LEMMA WordsKept == EntryInv /\ OrderWords /\ [OrderNext]_orderVars => OrderWords'
<1> SUFFICES ASSUME EntryInv, OrderWords, [OrderNext]_orderVars PROVE OrderWords'
  OBVIOUS
<1>1. presend' \in BOOLEAN
  <2>1. \/ presend' = presend \/ presend' = FALSE \/ presend' = TRUE
    BY DEF OrderNext, Take, WriteSubmitting, PresendFails, RefusedUnplaced, FillAtMark, Submit, Fill, OrderEnds, OtherTrade,
       NotCreated, Unconfirmed, ReadVerdict, ReadAfter, Answer, orderVars, tradeVars
  <2> QED BY <2>1, Zenon DEF OrderWords
<1>2. stopped' \in {"no", "UNITS_DISAGREE", "PARTIAL_UNSIZED", "UNRESOLVED"}
  <2>1. CASE Answer
    BY <2>1 DEF Answer, Halt, OrderWords
  <2>2. CASE stopped' = stopped
    BY <2>2 DEF OrderWords
  <2> QED BY <2>1, <2>2 DEF OrderNext, Take, WriteSubmitting, PresendFails, RefusedUnplaced, FillAtMark, Submit, Fill, OrderEnds, OtherTrade,
       NotCreated, Unconfirmed, ReadVerdict, ReadAfter, orderVars, tradeVars
<1>3. outcome' \in {"none", "SUBMITTING", "OPEN", "REJECTED", "UNSIZED_FILL"}
  <2>1. CASE Answer
    BY <2>1 DEF Answer, Halt, OrderWords
  <2>2. CASE outcome' \in {outcome, "none", "REJECTED", "SUBMITTING"}
    BY <2>2 DEF OrderWords
  <2> QED BY <2>1, <2>2 DEF OrderNext, Take, WriteSubmitting, PresendFails, RefusedUnplaced, FillAtMark, Submit, Fill, OrderEnds, OtherTrade,
       NotCreated, Unconfirmed, ReadVerdict, ReadAfter, orderVars, tradeVars, Ends
<1>4. account' \in Nat
  <2>1. CASE FillAtMark
    <3>1. attempt \in Attempts /\ account' = account + attempt.lot
      BY <2>1, Somewhere DEF FillAtMark, EntryInv, EntryTypes
    <3> QED BY <3>1 DEF Attempts, OrderWords
  <2>2. CASE Fill(FeePart)
    <3>1. NetOf(FeePart) \in Nat
      BY NetAdds, OrderAssumption
    <3> QED BY <2>2, <3>1 DEF Fill, OrderWords
  <2>3. ASSUME NEW n \in OtherTrades, OtherTrade(n) PROVE account' \in Nat
    BY <2>3, OrderAssumption DEF OtherTrade, OrderWords
  <2>4. CASE account' = account
    BY <2>4 DEF OrderWords
  <2> QED BY <2>1, <2>2, <2>3, <2>4 DEF OrderNext, Take, WriteSubmitting, PresendFails, RefusedUnplaced, Submit, OrderEnds,
       NotCreated, Unconfirmed, ReadVerdict, ReadAfter, Answer, orderVars
<1> QED BY <1>1, <1>2, <1>3, <1>4 DEF OrderWords

\* Type correctness of the order of an entry: the account never holds less than nothing, and what was
\* added to it after its last reading is part of what the engine's orders added.
THEOREM OrderTypeCorrect == OrderSpec => []OrderTypeOK
<1>1. OrderInit => OrderWords
  <2> SUFFICES ASSUME OrderInit PROVE OrderWords
    OBVIOUS
  <2>1. presend \in BOOLEAN
    BY DEF OrderInit
  <2> QED BY <2>1 DEF OrderInit, OrderWords
<1>2. EntryInv /\ OrderWords => OrderTypeOK
  BY DEF EntryInv, EntryTypes, OrderWords, OrderTypeOK, Attempts, NoAttempt
<1> QED BY <1>1, <1>2, WordsKept, EntryStarts, EntryKeeps, PTL DEF OrderSpec

-----------------------------------------------------------------------------
(* The desk: a step of it is a step of one machine, and the others rest. *)

LEMMA DeskStarts ==
  DeskInit => /\ RegistryInit /\ LifecycleInit /\ MonitorInit /\ BridgeInit /\ WsInit
              /\ NewsInit /\ ScanInit /\ SweepInit /\ OrderInit
  BY DEF DeskInit

\* Whoever's step it is, each machine makes a step of its own or none.
LEMMA DeskSteps ==
  [DeskNext]_deskVars =>
    /\ [RegistryNext]_registryVars /\ [LifecycleNext]_lifecycleVars /\ [MonitorNext]_monitorVars
    /\ [BridgeNext]_bridgeVars /\ [WsNext]_wsVars /\ [NewsNext]_newsVars /\ [ScanNext]_scanVars
    /\ [SweepNext]_sweepVars /\ [OrderNext]_orderVars
  BY DEF DeskNext, deskVars

\* A run of the desk is a run of each machine, so what is proved of a machine holds of the desk.
THEOREM DeskRunsEach ==
  DeskSpec => /\ RegistrySpec /\ LifecycleSpec /\ MonitorSpec /\ BridgeSpec /\ WsSpec
              /\ NewsSpec /\ ScanSpec /\ SweepSpec /\ OrderSpec
  BY DeskStarts, DeskSteps, PTL
     DEF DeskSpec, RegistrySpec, LifecycleSpec, MonitorSpec, BridgeSpec, WsSpec, NewsSpec, ScanSpec, SweepSpec, OrderSpec

\* Type correctness of the desk.
THEOREM DeskTypeCorrect == DeskSpec => []DeskTypeOK
<1>1. /\ RegistryTypeOK /\ LifecycleTypeOK /\ MonitorTypeOK /\ BridgeTypeOK /\ WsTypeOK /\ NewsTypeOK /\ ScanTypeOK
      /\ AccountTypeOK /\ OrderTypeOK
      => DeskTypeOK
  BY DEF DeskTypeOK
<1> QED
  BY <1>1, DeskRunsEach, RegistryTypeCorrect, LifecycleTypeCorrect, MonitorTypeCorrect, BridgeTypeCorrect, StreamTypeCorrect,
     NewsTypeCorrect, ScanTypeCorrect, AccountTypeCorrect, OrderTypeCorrect, PTL
=============================================================================
