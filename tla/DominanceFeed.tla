--------------------------- MODULE DominanceFeed ---------------------------
(***************************************************************************)
(* The panels the layout is read over: the collector that samples the      *)
(* dominance series (scripts/collect_dominance.py), the bars resampled     *)
(* from it (market_data/sources/dominance.py), the perpetual's bars        *)
(* fetched page by page (sources/binance_perp.py), the roster they make    *)
(* (live/shadow.py, rules/gate_008_roster.py) and the monitors of both     *)
(* (monitoring/data_health.py).  Time is counted in polls of the           *)
(* collector.  A sample is its time: the values decide nothing here.       *)
(* The collector keeps nothing in memory, so that its restart is a gap.    *)
(***************************************************************************)
EXTENDS Integers, FiniteSetsExt

CONSTANTS
  BarPolls,        \* polls of a bar of the entry timeframe
  MaxPolls,        \* bound on the clock
  MinSamples,      \* MIN_SAMPLES_PER_SYNTHETIC_BAR
  SupplyMaxAge,    \* SUPPLY_MAX_AGE_H, in polls
  CollectorStale,  \* COLLECTOR_STALE_MIN and COLLECTOR_DOWN_MIN, in polls
  CollectorDown,
  PanelStale,      \* PANEL_STALE_BARS and PANEL_DOWN_BARS
  PanelDown,
  HorizonBars,     \* the thirty days that a panel is asked for
  PageBars,        \* bars of a page of the perpetual's venue
  PageAnswers      \* functions from the perpetual panels to the pages the venue answers

Synthetic == {"TOTAL", "USDT.D"}
Perpetual == {"BTCUSDT.P", "ETHUSDT.P"}

ASSUME FeedAssumption ==
  /\ {MaxPolls, SupplyMaxAge, CollectorStale, CollectorDown} \subseteq Nat
  /\ {BarPolls, PageBars, PanelStale, HorizonBars} \subseteq Nat \ {0}
  /\ MinSamples \in 0..BarPolls /\ PanelStale <= PanelDown
  /\ PanelStale * BarPolls <= CollectorDown /\ PanelStale < HorizonBars
  /\ PanelDown \in Nat /\ PageAnswers \subseteq [Perpetual -> Nat]

VARIABLES
  polls,    \* the time
  samples,  \* the polls that left a row in the raw file
  supply,   \* supplies.json: [coins, age]
  answered  \* the pages that the perpetual's venue answered last

feedVars == <<polls, samples, supply, answered>>

Roster == Synthetic \union Perpetual

-----------------------------------------------------------------------------
(* The collector. *)

Older(s) == [s EXCEPT !.age = IF @ < SupplyMaxAge THEN @ + 1 ELSE @]

\* load_supplies: the cache while it is young, a new one when both hosts answer, else
\* the old one.  An empty list of coins is kept like any other.
Supplies(s, gecko, binance) ==
  IF s.coins # "none" /\ s.age < SupplyMaxAge THEN s
  ELSE IF gecko # "down" /\ binance THEN [coins |-> gecko, age |-> 0]
  ELSE s

\* sample_once: nothing is written when no coin can be priced.
Samples(s, binance) == IF s.coins = "some" /\ binance THEN {polls'} ELSE {}

-----------------------------------------------------------------------------
(* The bars of the series. *)

Period(t) == t \div BarPolls
Opening(p) == p * BarPolls
Closing(p) == (p + 1) * BarPolls
Bars == {Period(t) : t \in samples}
Content(p) == {t \in samples : Period(t) = p}

\* Mutant: the bar being formed is served with the others.
ServePartial(formed) == formed

\* The newest bar is dropped until a sample of the next one has come.
DropPartial(formed) == formed \ {p \in formed : p = Max(formed) /\ Max(samples) < Closing(p)}

InHorizon(p) == Opening(p) >= polls - HorizonBars * BarPolls

\* _bars_with_samples.
Served == IF Bars = {} THEN {} ELSE {p \in DropPartial(Bars) : InHorizon(p)}

\* BinancePerpetualSource.fetch_ohlcv: pages from the start of the horizon; a page that
\* fails reads as the end of the series.
PerpetualBars(pages) ==
  LET first == Min({p \in (-HorizonBars)..Period(polls) : InHorizon(p)})
  IN  {p \in first..(first + pages * PageBars - 1) : Closing(p) <= polls}

\* fetch_roster_panels.
Frame(asset) == IF asset \in Synthetic THEN Served ELSE PerpetualBars(answered[asset])
Thin(asset) == asset \in Synthetic /\ Cardinality(Content(Max(Frame(asset)))) < MinSamples

Missing == {a \in Roster : Frame(a) = {}}
Present == Roster \ Missing

\* LayoutReadability: every panel of the roster is there, and none is thin.
LayoutReadable == Missing = {} /\ \A a \in Present : ~Thin(a)

-----------------------------------------------------------------------------
(* The monitors. *)

\* dominance_health.
CollectorStatus ==
  IF samples = {} THEN "unavailable"
  ELSE LET age == polls - Max(samples)
       IN  IF age > CollectorDown THEN "down" ELSE IF age > CollectorStale THEN "stale" ELSE "healthy"

\* panel_health: the age of a panel is that of its newest bar's close.
Age(asset) == polls - Closing(Max(Frame(asset)))
Down(asset) == Age(asset) >= PanelDown * BarPolls
Stale(asset) == ~Down(asset) /\ Age(asset) >= PanelStale * BarPolls

\* Mutant: a panel that is not served has no age to complain about.
ServedAreDown == {a \in Present : Down(a)}

DownOrAbsent == Missing \union {a \in Present : Down(a)}

PanelStatus ==
  IF DownOrAbsent # {} THEN "down"
  ELSE IF \E a \in Present : Stale(a) \/ Thin(a) THEN "failing"
  ELSE "healthy"

-----------------------------------------------------------------------------

FeedInit ==
  /\ polls = 0 /\ samples = {}
  /\ supply = [coins |-> "none", age |-> 0]
  /\ answered \in PageAnswers

\* A turn of the collector, with whatever its two hosts answer.
Collect ==
  \E gecko \in {"down", "empty", "some"}, binance \in BOOLEAN :
    /\ supply' = Supplies(Older(supply), gecko, binance)
    /\ samples' = samples \union Samples(supply', binance)

\* The collector does not run, or its turn takes longer than a poll.
Pass == supply' = Older(supply) /\ UNCHANGED samples

FeedNext ==
  /\ polls < MaxPolls /\ polls' = polls + 1
  /\ answered' \in PageAnswers
  /\ Collect \/ Pass

FeedSpec == FeedInit /\ [][FeedNext]_feedVars

FeedTypeOK ==
  /\ polls \in 0..MaxPolls /\ samples \subseteq 0..polls
  /\ supply \in [coins : {"none", "empty", "some"}, age : 0..SupplyMaxAge]
  /\ answered \in [Perpetual -> Nat]

-----------------------------------------------------------------------------
(* Properties. *)

\* A synthetic bar is final when it is served: whatever the collector samples later,
\* after whatever outage, the bar holds the same samples and stays served until it
\* leaves the thirty days.
BarsFinal ==
  [][\A p \in Served : (p \in Served' /\ Content(p)' = Content(p)) \/ ~InHorizon(p)']_feedVars

\* The layout is never called healthy while it cannot be read: healthy panels are all
\* there and thick, the collector has sampled in the last PanelStale bars and is not
\* reported down; and a collector that missed no poll of two bars makes them healthy,
\* if the perpetual's venue answers every page.
HealthFollowsFeed ==
  /\ PanelStatus = "healthy" =>
       /\ LayoutReadable /\ CollectorStatus # "down"
       /\ \E t \in samples : polls - t < PanelStale * BarPolls
  /\ (/\ polls >= 2 * BarPolls /\ ((polls - 2 * BarPolls + 1)..polls) \subseteq samples
      /\ \A a \in Perpetual : answered[a] * PageBars >= HorizonBars)
     => PanelStatus = "healthy"
=============================================================================
