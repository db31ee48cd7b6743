----------------------------- MODULE EntryStep -----------------------------
(***************************************************************************)
(* The entry decision of the live loop and the backtest that validated it, *)
(* bar by bar over the same market (services/live/strategy_step.py,        *)
(* services/backtest/engine.py, with default parameters: no leader, no     *)
(* random control). The breaks and swings of the vendored detector are     *)
(* inputs, read twice: as a window that ends at the bar shows them, and as *)
(* the whole series does; so is the verdict of the daily window.           *)
(***************************************************************************)
EXTENDS Integers, Sequences, FiniteSetsExt

CONSTANTS
  Starts,      \* [days, bars, manual]: what is known before the first step
  EntryBars,   \* [op, hi, lo, cl, atr, seen, full]: the bars that may close
  MaxEntryBars, \* bound on the bars of a run
  EntryDay,    \* bars of a day
  MinDays,     \* days before a bias exists
  Required,    \* bars before the live step decides
  FvgLookback, \* bars a gap stays fresh
  GapsPerAtr,  \* one over min_fvg_atr
  BuffersPerAtr, \* one over sl_buffer_atr
  MaxHold,     \* bars before the 2R level
  RunnerHold   \* bars after it

\* A bar closes between its low and its high; a read shows a break and the swings behind it.
BreakReads == [bos : {"none", "LONG", "SHORT"}, low : Int, high : Int]
EntryFrame == [op : Int, hi : Int, lo : Int, cl : Int, atr : Nat, seen : BreakReads, full : BreakReads]
WellFormed(b) == b \in EntryFrame /\ b.lo <= b.cl /\ b.cl <= b.hi

ASSUME EntryAssumption ==
  /\ {MaxEntryBars, MinDays, Required, FvgLookback, MaxHold, RunnerHold} \subseteq Nat
  /\ {EntryDay, GapsPerAtr, BuffersPerAtr} \subseteq Nat \ {0}
  /\ \A b \in EntryBars : WellFormed(b)
  /\ \A s \in Starts :
       /\ s.manual \in BOOLEAN /\ s.days \in Seq({"none", "LONG", "SHORT"})
       /\ s.bars \in Seq(EntryFrame) /\ \A k \in 1..Len(s.bars) : WellFormed(s.bars[k])

VARIABLES
  verdicts,  \* of each complete day: what the window that ends with it says
  entryBars, \* the closed bars of the entry frame
  manual,    \* smc.fvg fails on this frame: the detector's own scan is used
  test       \* the backtest: [open, active, spent, barred, opened, ended]

entryVars == <<verdicts, entryBars, manual, test>>

Flat == "none"
NoPrice == -1
Today == Len(verdicts) + 1

-----------------------------------------------------------------------------
(* The daily bias. *)

\* The last verdict that is one, of the days from..to.
LastVerdict(from, to) ==
  LET days == {d \in from..to : verdicts[d] # Flat}
  IN  IF days = {} THEN Flat ELSE verdicts[Max(days)]

\* _causal_daily_bias_events read by _bias_at: a flip of a day counts from the next.
BacktestBias == LastVerdict(MinDays + 1, Len(verdicts))

\* Mutant: a window without a break means no bias, however clear the one before.
WindowAlone ==
  IF Len(verdicts) < MinDays \/ verdicts = <<>> THEN Flat ELSE verdicts[Len(verdicts)]

\* causal_bias_now: the window of the last complete day, else the timeline before it.
LiveBias ==
  IF Len(verdicts) < MinDays \/ verdicts = <<>> THEN Flat
  ELSE IF verdicts[Len(verdicts)] # Flat THEN verdicts[Len(verdicts)]
  ELSE LastVerdict(MinDays + 1, Len(verdicts) - 1)

-----------------------------------------------------------------------------
(* The gaps. *)

Gap(dir, low, high, born) == [dir |-> dir, low |-> low, high |-> high, born |-> born]

\* The gaps around candle k of bs; born is the middle candle, or the third when the
\* detector's own scan found it, which asks no colour of the middle one.
GapsAround(bs, k) ==
  LET born == IF manual THEN k + 1 ELSE k
      up   == bs[k].cl > bs[k].op
      down == bs[k].cl < bs[k].op
  IN  {g \in {Gap("LONG", bs[k - 1].hi, bs[k + 1].lo, born), Gap("SHORT", bs[k + 1].hi, bs[k - 1].lo, born)} :
         /\ g.low < g.high
         /\ manual \/ (g.dir = "LONG" /\ up) \/ (g.dir = "SHORT" /\ down)}

GapsIn(bs) == UNION {GapsAround(bs, k) : k \in 2..(Len(bs) - 1)}

TooSmall(g, atr) == atr > 0 /\ (g.high - g.low) * GapsPerAtr < atr

Earliest(gs) == {g \in gs : \A h \in gs : g.born <= h.born}

-----------------------------------------------------------------------------
(* The entry into a gap. *)

WayOf(dir) == IF dir = "LONG" THEN 1 ELSE -1
Adverse(b, way) == IF way = 1 THEN b.lo ELSE b.hi
Favourable(b, way) == IF way = 1 THEN b.hi ELSE b.lo

NearSide(g) == IF g.dir = "LONG" THEN g.high ELSE g.low
FarSide(g) == IF g.dir = "LONG" THEN g.low ELSE g.high

\* The bar comes back into the gap and closes short of its far edge.
Retraced(g, b) ==
  LET way == WayOf(g.dir)
  IN  (NearSide(g) - Adverse(b, way)) * way >= 0 /\ (b.cl - FarSide(g)) * way > 0

\* Beyond the last confirmed swing when it is behind the entry, else beyond the gap.
Stop(g, reads, atr) ==
  LET way   == WayOf(g.dir)
      swing == IF g.dir = "LONG" THEN reads.low ELSE reads.high
      base  == IF swing # NoPrice /\ (NearSide(g) - swing) * way > 0 THEN swing ELSE FarSide(g)
  IN  base - way * (atr \div BuffersPerAtr)

EntryAt(g, reads, atr) ==
  [gap |-> g, entry |-> NearSide(g), stop |-> Stop(g, reads, atr)]

RiskOf(e) == (e.entry - e.stop) * WayOf(e.gap.dir)

\* The bar after born is an edge of the gap: entries begin with the one after that.
InReach(g, i) == i - g.born \in 2..FvgLookback

\* evaluate_latest_bar: the first gap that passes, of those the frame shows now.
LiveEntry ==
  LET i     == Len(entryBars)
      b     == entryBars[i]
      fits  == {g \in GapsIn(entryBars) :
                  /\ InReach(g, i) /\ g.dir = LiveBias /\ ~TooSmall(g, b.atr)
                  /\ Retraced(g, b) /\ RiskOf(EntryAt(g, b.seen, b.atr)) > 0}
  IN  IF i < Required \/ LiveBias = Flat \/ b.seen.bos # LiveBias THEN {}
      ELSE {EntryAt(g, b.seen, b.atr) : g \in Earliest(fits)}

-----------------------------------------------------------------------------
(* The backtest. *)

\* The better stop of a trade, seen from its side.
Tightest(way, levels) == way * Max({way * l : l \in levels})

Ended(t, exit) == [banked |-> t.banked, way |-> WayOf(t.gap.dir), entry |-> t.entry, stop |-> t.stop, exit |-> exit]

\* Mutant: the runner's stop is not held at the entry.
TrailLoose(t, b, peak, before) == {peak - WayOf(t.gap.dir) * ((5 * b.atr) \div 2)} \union before

\* The runner trails by 2.5 ATR, never below break-even, never back.
Trail(t, b, peak, before) == {t.entry, peak - WayOf(t.gap.dir) * ((5 * b.atr) \div 2)} \union before

\* _manage_open: the stop first, then the 2R level, then the time stop.
Manage(t, b, i) ==
  LET way    == WayOf(t.gap.dir)
      good   == Favourable(b, way)
      hit(l) == (Adverse(b, way) - l) * way <= 0
      target == t.entry + way * 2 * RiskOf(t)
      peak   == Tightest(way, {t.peak, good})
      runner == Tightest(way, Trail(t, b, peak, {t.runner}))
      Still(u) == [open |-> {u}, ended |-> {}]
      Close(exit) == [open |-> {}, ended |-> {Ended(t, exit)}]
  IN  IF ~t.banked
      THEN IF hit(t.stop) THEN Close(t.stop)
           ELSE IF (good - target) * way >= 0
                THEN Still([t EXCEPT !.banked = TRUE, !.peak = good, !.runner = Tightest(way, Trail(t, b, good, {}))])
           ELSE IF i - t.at >= MaxHold THEN Close(b.cl) ELSE Still(t)
      ELSE IF hit(runner) THEN Close(runner)
           ELSE IF i - t.at >= RunnerHold THEN Close(b.cl)
           ELSE Still([t EXCEPT !.peak = peak, !.runner = runner])

ManageAll(open, b, i) ==
  LET results == {Manage(t, b, i) : t \in open}
  IN  [open |-> UNION {r.open : r \in results}, ended |-> UNION {r.ended : r \in results}]

\* A gap is a candidate from its birth, when it is large for the ATR of that bar;
\* nothing reads it before the bars around it have closed.
Register(active, bs) ==
  LET i == Len(bs)
      new == IF i < 3 THEN {} ELSE GapsAround(bs, i - 1)
  IN  {c \in active \union {[gap |-> g, used |-> FALSE] : g \in {g \in new : ~TooSmall(g, bs[g.born].atr)}} :
         i - c.gap.born <= FvgLookback}

Opened(active, bs, bias) ==
  LET i == Len(bs)
      b == bs[i]
      fits == {c.gap : c \in {c \in active :
                 /\ ~c.used /\ c.gap.dir = bias /\ InReach(c.gap, i) /\ b.full.bos = bias
                 /\ Retraced(c.gap, b) /\ RiskOf(EntryAt(c.gap, b.full, b.atr)) > 0}}
  IN  {EntryAt(g, b.full, b.atr) : g \in Earliest(fits)}

\* A position of an entry: nothing banked, no runner.
Position(e, i) ==
  [gap |-> e.gap, entry |-> e.entry, stop |-> e.stop, at |-> i, banked |-> FALSE, peak |-> 0, runner |-> 0]

\* One turn of run_backtest: manage, register and prune, enter, manage the new trade.
Turn(was, bs, day, bias) ==
  LET i      == Len(bs)
      first  == ManageAll(was.open, bs[i], i)
      active == Register(was.active, bs)
      barred == first.open # {} \/ was.spent = day
      opened == IF barred \/ bias = Flat THEN {} ELSE Opened(active, bs, bias)
      then   == ManageAll({Position(e, i) : e \in opened}, bs[i], i)
  IN  [open   |-> first.open \union then.open,
       active |-> {[c EXCEPT !.used = @ \/ \E e \in opened : e.gap = c.gap] : c \in active},
       spent  |-> IF opened # {} THEN day ELSE was.spent,
       barred |-> barred,
       opened |-> opened,
       ended  |-> first.ended \union then.ended]

Untraded == [open |-> {}, active |-> {}, spent |-> 0, barred |-> FALSE, opened |-> {}, ended |-> {}]

-----------------------------------------------------------------------------

\* A bar closes. The first of a day makes the day before it complete.
EntryBarCloses ==
  /\ Len(entryBars) < MaxEntryBars
  /\ \E b \in EntryBars, verdict \in {Flat, "LONG", "SHORT"} :
       /\ entryBars' = Append(entryBars, b)
       /\ IF entryBars # <<>> /\ Len(entryBars) % EntryDay = 0
          THEN verdicts' = Append(verdicts, verdict)
          ELSE verdict = Flat /\ UNCHANGED verdicts
  /\ test' = Turn(test, entryBars', Today', BacktestBias')
  /\ UNCHANGED manual

EntryInit ==
  \E s \in Starts :
    /\ verdicts = s.days /\ entryBars = s.bars /\ manual = s.manual
    /\ test = [Untraded EXCEPT !.barred = TRUE, !.active =
                 {[gap |-> g, used |-> FALSE] : g \in {g \in GapsIn(s.bars) : ~TooSmall(g, s.bars[g.born].atr)}}]

EntrySpec == EntryInit /\ [][EntryBarCloses]_entryVars

EntryTypeOK ==
  /\ \A d \in DOMAIN verdicts : verdicts[d] \in {Flat, "LONG", "SHORT"}
  /\ manual \in BOOLEAN /\ test.barred \in BOOLEAN /\ test.spent \in 0..Today
  /\ \A t \in test.open : t.entry \in Int /\ t.stop \in Int /\ t.at \in 1..Len(entryBars)

-----------------------------------------------------------------------------
(* Properties. *)

\* Gaps that the live step and the backtest weigh apart: the backtest has traded the
\* gap before, or it crossed the size threshold since its birth.
WeighedApart ==
  LET i == Len(entryBars)
  IN  {g \in GapsIn(entryBars) :
         /\ InReach(g, i)
         /\ \/ \E c \in test.active : c.gap = g /\ c.used /\ \A e \in test.opened : e.gap # g
            \/ TooSmall(g, entryBars[i].atr) # TooSmall(g, entryBars[g.born].atr)}

\* "The exact, validated entry decision from run_backtest": whenever the backtest is
\* flat and the day unspent, with the same breaks and swings in sight, past the
\* first bars and days and with no gap weighed apart, the live step enters where
\* the backtest does: the same gap, entry and stop, or none.
LiveFollowsBacktest ==
  LET i == Len(entryBars)
  IN  (/\ i >= Required /\ i > 0 /\ Len(verdicts) # MinDays
       /\ ~test.barred /\ entryBars[i].seen = entryBars[i].full
       /\ WeighedApart = {})
      => LiveEntry = test.opened

\* A trade of the backtest that banked its 2R part never ends below its entry, and
\* one that did not never loses more than its stop.
BankedNeverLoses ==
  \A e \in test.ended :
    (e.exit - (IF e.banked THEN e.entry ELSE e.stop)) * e.way >= 0
=============================================================================
