---------------------------- MODULE CandlePipeline ----------------------------
(***************************************************************************)
(* services/market_data: ticks become one-minute bars, bars become higher  *)
(* timeframes, both are stored and announced to the callbacks.  Prices are *)
(* abstracted to where they come from: a bar is its minute and whether a   *)
(* late tick joined it, a higher bar the set of one-minute bars it         *)
(* aggregates.  The lock per pair makes one tick one step.                 *)
(***************************************************************************)
EXTENDS Naturals, Sequences, SequencesExt

CONSTANTS
  Periods,     \* the derived timeframes, in minutes
  HistoryCap,  \* bars _candle_history keeps (500)
  MaxMinute    \* bound on the clock of the ticks

ASSUME CandleAssumption == Periods \subseteq Nat \ {0, 1} /\ HistoryCap \in Nat \ {0} /\ MaxMinute \in Nat

VARIABLES
  current,   \* _current_candles of the pair: a bar, or NoBar
  history,   \* _candle_history of the pair
  stored,    \* rows of the candles table: [period, start, of]
  closedBars \* history: minutes whose bar was closed and handed to the callbacks

candleVars == <<current, history, stored, closedBars>>

Minutes == 0..MaxMinute
NoBar == [start |-> MaxMinute + 1, late |-> FALSE]
Bar(m) == [start |-> m, late |-> FALSE]

CandleTypeOK ==
  /\ current = NoBar \/ current.start \in Minutes
  /\ Len(history) <= HistoryCap
  /\ \A r \in stored : r.period \in Periods \union {1} /\ r.of \subseteq Minutes

CandleInit == /\ current = NoBar /\ history = <<>> /\ stored = {} /\ closedBars = {}

\* Mutant: the last bar of a timeframe is taken for the first bar of the next.
ClosesAtStart(p, m) == m % p = 0

\* should_close: minute m is the last of its period.
ShouldClose(p, m) == m % p = p - 1

LastBars(bars) == SubSeq(bars, Len(bars) - (HistoryCap - 1), Len(bars))
\* Mutant: the history is never cut.
KeptAll(bars) == bars

\* The last HistoryCap bars.
Kept(bars) == IF Len(bars) > HistoryCap THEN LastBars(bars) ELSE bars

\* aggregate_candles, of which _close_higher_tf takes the last row: the bars of
\* the history that fall in the period of the last one.
Aggregate(p, bars) ==
  LET start == Last(bars).start - (Last(bars).start % p)
  IN  [period |-> p, start |-> start,
       of |-> {bars[i].start : i \in {j \in DOMAIN bars : bars[j].start >= start}}]

\* ON CONFLICT DO UPDATE on (pair, timeframe, time).
Upsert(rows, new) ==
  {r \in rows : \A n \in new : <<r.period, r.start>> # <<n.period, n.start>>} \union new

\* _on_bar_close: the bar is stored and announced, joins the history, and every
\* timeframe it ends is aggregated.  Writes that fail are logged and forgotten.
CloseBar(bar) ==
  LET bars   == Kept(Append(history, bar))
      minute == [period |-> 1, start |-> bar.start, of |-> {bar.start}]
      higher == {Aggregate(p, bars) : p \in {q \in Periods : ShouldClose(q, bar.start)}}
  IN  /\ history' = bars
      /\ stored' \in {Upsert(stored, higher \union {minute}), stored}
      /\ closedBars' = closedBars \union {bar.start}

FirstTick(m) ==
  /\ current = NoBar
  /\ current' = Bar(m)
  /\ UNCHANGED <<history, stored, closedBars>>

TickInBar(m) ==
  /\ current # NoBar /\ m <= current.start  \* a late tick joins the current bar
  /\ current' = [current EXCEPT !.late = @ \/ m < current.start]
  /\ UNCHANGED <<history, stored, closedBars>>

TickAfterBar(m) ==
  /\ current # NoBar /\ m > current.start
  /\ CloseBar(current)
  /\ current' = Bar(m)

CandleNext == \E m \in Minutes : FirstTick(m) \/ TickInBar(m) \/ TickAfterBar(m)

CandleSpec == CandleInit /\ [][CandleNext]_candleVars

(***************************************************************************)
(* Properties.                                                             *)
(***************************************************************************)
BarsBetween(lo, hi) == {m \in closedBars : lo <= m /\ m <= hi}

\* A higher bar within the reach of the history is made of every one-minute bar
\* that closed in its period, whatever minutes had no tick: the detector and
\* the scorer read these rows as the market.
HigherBarsWhole ==
  \A r \in stored : r.period \in Periods /\ r.period <= HistoryCap =>
    r.of = BarsBetween(r.start, r.start + r.period - 1)

===============================================================================
