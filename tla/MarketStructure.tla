---------------------------- MODULE MarketStructure ----------------------------
(***************************************************************************)
(* The market structure of one timeframe as services/rules reads it from   *)
(* closed bars (prim_001 to prim_007): swings, the breaks that consume     *)
(* them, imbalances and their overlaps, liquidity pools and their sweeps,  *)
(* flipped levels, order blocks.  Every reading scans the whole series     *)
(* anew; a bar is appended at each close.  A bar's time is its index.      *)
(***************************************************************************)
EXTENDS Integers, Sequences, FiniteSets, FiniteSetsExt, SequencesExt

CONSTANTS
  Shapes,         \* the bars that may close: [open, high, low, close]
  Wing,           \* fractal window: bars on either side of a swing
  EqualsPerMille, \* RELATIVE_EQUALS_MAX_DIFF_PCT, in thousandths of the mean
  PeriodBars,     \* bars of a day (a week, a month, a session: the same with other lengths)
  SuperOverlap, SuperLookback, \* SUPER_BPR_MIN_OVERLAP, SUPER_BPR_LOOKBACK_BARS
  WalkBack,       \* DECLARED_WALK_BACK_CAP
  Histories       \* where a series starts, and how many bars close: [bars, more]

ClosedBars == {b \in [open : Nat \ {0}, high : Nat \ {0}, low : Nat \ {0}, close : Nat \ {0}] :
           b.low <= b.open /\ b.low <= b.close /\ b.open <= b.high /\ b.close <= b.high}

ASSUME StructureAssumption ==
  /\ Shapes \subseteq ClosedBars
  /\ {Wing, PeriodBars, WalkBack} \subseteq Nat \ {0} /\ {SuperOverlap, SuperLookback, EqualsPerMille} \subseteq Nat
  /\ \A h \in Histories : h.bars \in Seq(ClosedBars) /\ h.more \in Nat

VARIABLES
  series,   \* the bars that have closed
  coming    \* bound: the bars that may still close

structureVars == <<series, coming>>

-----------------------------------------------------------------------------
(* PRIM-001: swings. *)

\* Mutant: a swing is taken before the bars to its right have closed.
WingsSeen(bs) == (Wing + 1)..Len(bs)

\* The bars that have Wing bars on either side.
WingsClosed(bs) == (Wing + 1)..(Len(bs) - Wing)

Beside(bs, i) == (((i - Wing)..(i + Wing)) \cap DOMAIN bs) \ {i}

Swings(bs) ==
  {[at |-> i, kind |-> "HIGH", price |-> bs[i].high] :
     i \in {j \in WingsClosed(bs) : \A k \in Beside(bs, j) : bs[k].high < bs[j].high}} \union
  {[at |-> i, kind |-> "LOW", price |-> bs[i].low] :
     i \in {j \in WingsClosed(bs) : \A k \in Beside(bs, j) : bs[k].low > bs[j].low}}

-----------------------------------------------------------------------------
(* PRIM-005: a swing is consumed by the first later bar that trades through it. *)

Through(bar, s) == IF s.kind = "HIGH" THEN bar.high > s.price ELSE bar.low < s.price
BreakBars(bs, s) == {i \in (s.at + 1)..Len(bs) : Through(bs[i], s)}
Way(s) == IF s.kind = "HIGH" THEN "UP" ELSE "DOWN"

\* Bars in order, and the swings a bar breaks in theirs, highs first.
BreakBefore(x, y) ==
  \/ x.bar < y.bar
  \/ x.bar = y.bar /\ x.swing.at < y.swing.at
  \/ x.bar = y.bar /\ x.swing.at = y.swing.at /\ x.swing.kind = "HIGH" /\ y.swing.kind = "LOW"

Consumptions(bs) ==
  {[bar |-> Min(BreakBars(bs, s)), swing |-> s] : s \in {t \in Swings(bs) : BreakBars(bs, t) # {}}}

\* With the run of breaks a break is a continuation (BOS); against it the
\* structure has turned (MSB).
Breaks(bs) ==
  LET all == Consumptions(bs)
      order == [k \in 1..Cardinality(all) |->
                 CHOOSE c \in all : Cardinality({d \in all : BreakBefore(d, c)}) = k - 1]
  IN  [k \in DOMAIN order |->
        [bar |-> order[k].bar, swing |-> order[k].swing, way |-> Way(order[k].swing),
         type |-> IF k = 1 \/ Way(order[k - 1].swing) = Way(order[k].swing) THEN "BOS" ELSE "MSB"]]

\* classify_strength: each break weakens what it consumed and makes the nearest
\* opposite swing before it the one that must hold; the last word counts.
Holds(bs, brk, s) ==
  /\ s.kind # brk.swing.kind /\ s.at < brk.bar
  /\ \A t \in Swings(bs) : t.kind = s.kind /\ t.at < brk.bar => t.at <= s.at

Strength(bs, s) ==
  LET brks  == Breaks(bs)
      words == {k \in DOMAIN brks : brks[k].swing = s \/ Holds(bs, brks[k], s)}
  IN  IF words = {} THEN "UNCONFIRMED"
      ELSE IF brks[Max(words)].swing = s THEN "WEAK" ELSE "STRONG"

-----------------------------------------------------------------------------
(* PRIM-002: imbalances. *)

BodyHigh(b) == IF b.open > b.close THEN b.open ELSE b.close
BodyLow(b) == IF b.open > b.close THEN b.close ELSE b.open
Zone(type, way, low, high, at) == [type |-> type, way |-> way, low |-> low, high |-> high, at |-> at]

\* Between the wicks of the bars beside a bar.
FairValueGaps(bs) ==
  {Zone("FVG", "BULLISH", bs[i - 2].high, bs[i].low, i) :
     i \in {j \in 3..Len(bs) : bs[j].low > bs[j - 2].high}} \union
  {Zone("FVG", "BEARISH", bs[i].high, bs[i - 2].low, i) :
     i \in {j \in 3..Len(bs) : bs[j].high < bs[j - 2].low}}

\* Between the bodies of two bars, or between their wicks when these are apart too.
TwoBarImbalances(bs) ==
  {IF bs[i].low > bs[i - 1].high THEN Zone("GAP", "BULLISH", bs[i - 1].high, bs[i].low, i)
   ELSE Zone("VOLUME_IMBALANCE", "BULLISH", BodyHigh(bs[i - 1]), BodyLow(bs[i]), i) :
     i \in {j \in 2..Len(bs) : BodyLow(bs[j]) > BodyHigh(bs[j - 1])}} \union
  {IF bs[i].high < bs[i - 1].low THEN Zone("GAP", "BEARISH", bs[i].high, bs[i - 1].low, i)
   ELSE Zone("VOLUME_IMBALANCE", "BEARISH", BodyHigh(bs[i]), BodyLow(bs[i - 1]), i) :
     i \in {j \in 2..Len(bs) : BodyHigh(bs[j]) < BodyLow(bs[j - 1])}}

Simple(bs) == FairValueGaps(bs) \union TwoBarImbalances(bs)

Later(a, b) == IF a.at > b.at THEN a ELSE b
Overlaps(a, b) == a.way # b.way /\ a.low < b.high /\ b.low < a.high

\* The overlap of two opposite imbalances; one zone for each overlap, of the
\* pair that formed it first.  Among those that formed at one bar the fair value
\* gap is named first.
Pairings(bs) ==
  LET Overlap(a, b) ==
        [low |-> Max({a.low, b.low}), high |-> Min({a.high, b.high}), at |-> Later(a, b).at,
         way |-> IF a.at # b.at THEN Later(a, b).way ELSE IF a.type = "FVG" THEN a.way ELSE b.way]
  IN  {Overlap(p[1], p[2]) : p \in {q \in Simple(bs) \X Simple(bs) : Overlaps(q[1], q[2])}}

Covering(bs, p) ==
  {z \in Simple(bs) : z.low <= p.low /\ z.high >= p.high
                      /\ z.at <= p.at /\ p.at - z.at <= SuperLookback}

IsSuper(bs, p) ==
  /\ Cardinality(Covering(bs, p)) >= SuperOverlap
  /\ Cardinality({z.way : z \in Covering(bs, p)}) = 2

BalancedRanges(bs) ==
  {Zone(IF IsSuper(bs, p) THEN "SUPER_BPR" ELSE "BPR", p.way, p.low, p.high, p.at) :
     p \in {q \in Pairings(bs) : \A r \in Pairings(bs) :
              r.low = q.low /\ r.high = q.high => q.at <= r.at}}

Imbalances(bs) == Simple(bs) \union BalancedRanges(bs)

Touches(bar, z) == bar.high >= z.low /\ bar.low <= z.high
Reach(bar, z) == IF z.way = "BULLISH" THEN z.high - bar.low ELSE bar.high - z.low
ClosedPast(bar, z) == IF z.way = "BULLISH" THEN bar.close < z.low ELSE bar.close > z.high

\* _resolve_fill, from the bars after the one that formed it.
FillState(bs, z) ==
  LET after   == (z.at + 1)..Len(bs)
      deepest == Max({0} \union {Reach(bs[i], z) : i \in after})
  IN  IF \E i \in after : ClosedPast(bs[i], z) THEN 3
      ELSE IF deepest >= z.high - z.low THEN 2 ELSE IF deepest > 0 THEN 1 ELSE 0

\* Entries into the zone, not bars in it.
TestCount(bs, z) ==
  Cardinality({i \in (z.at + 1)..Len(bs) :
                 Touches(bs[i], z) /\ (i = z.at + 1 \/ ~Touches(bs[i - 1], z))})

-----------------------------------------------------------------------------
(* PRIM-003 and PRIM-004: liquidity pools, and the sweeps of them. *)

Pool(class, side, price, at) == [class |-> class, side |-> side, price |-> price, at |-> at]
SwingPools(bs) == {Pool("SWING_LEVEL", s.kind, s.price, s.at) : s \in Swings(bs)}

EqualsClass(a, b) ==
  IF a.price = b.price THEN "PERFECT"
  ELSE IF 2000 * Max({a.price - b.price, b.price - a.price}) <= EqualsPerMille * (a.price + b.price)
       THEN "RELATIVE" ELSE "SEPARATE_POOLS"

\* The outer of two equal swings is the level.
EqualsPools(bs) ==
  LET Outer(a, b) ==
        Pool(EqualsClass(a, b), a.kind,
             IF a.kind = "HIGH" THEN Max({a.price, b.price}) ELSE Min({a.price, b.price}), b.at)
  IN  {Outer(p[1], p[2]) : p \in {q \in Swings(bs) \X Swings(bs) :
                                   /\ q[1].kind = q[2].kind /\ q[1].at < q[2].at
                                   /\ EqualsClass(q[1], q[2]) # "SEPARATE_POOLS"}}

\* Previous day, week, month, Monday and sessions: the extremes of every
\* period but the one in progress.
PeriodPools(bs) ==
  LET period(n) == {i \in DOMAIN bs : (i - 1) \div PeriodBars = n}
      ended     == {n \in 0..Len(bs) : period(n) # {} /\ period(n + 1) # {}}
  IN  UNION {{Pool("PREVIOUS", "HIGH", Max({bs[i].high : i \in period(n)}), Max(period(n))),
              Pool("PREVIOUS", "LOW", Min({bs[i].low : i \in period(n)}), Max(period(n)))} : n \in ended}

Pools(bs) == SwingPools(bs) \union EqualsPools(bs) \union PeriodPools(bs)

Above(bar, p) == IF p.side = "HIGH" THEN bar.high - p.price ELSE p.price - bar.low
ClosedBeyond(bar, p) == IF p.side = "HIGH" THEN bar.close > p.price ELSE bar.close < p.price

\* The maximal runs of bars beyond the level, as the set of their bars.
Excursions(bs, p) ==
  LET beyond == {i \in (p.at + 1)..Len(bs) : Above(bs[i], p) > 0}
      run(i) == {j \in beyond : \A k \in Min({i, j})..Max({i, j}) : k \in beyond}
  IN  {run(i) : i \in beyond}

\* The first of the bars that went furthest.
Deepest(bs, p, run) ==
  Min({i \in run : \A j \in run : Above(bs[j], p) <= Above(bs[i], p)})

\* TARGET-005: structure turned against the run after it.
ClearedBy(bs, p, run) ==
  LET brks  == Breaks(bs)
      after == {k \in DOMAIN brks : brks[k].bar > Deepest(bs, p, run)}
  IN  after # {} /\ brks[Min(after)].way = IF p.side = "HIGH" THEN "DOWN" ELSE "UP"

PoolState(bs, p) ==
  IF Excursions(bs, p) = {} THEN "UNTESTED"
  ELSE IF \E run \in Excursions(bs, p) : ClearedBy(bs, p, run) THEN "CONSUMED"
  ELSE "TESTED_NOT_CONSUMED"

-----------------------------------------------------------------------------
(* PRIM-006 and PRIM-007: flipped levels and order blocks. *)

\* A broken level that was tested from the other side and never closed back through.
FlippedLevels(bs) ==
  LET back(b) == {i \in (b.bar + 1)..Len(bs) :
                    IF b.way = "UP" THEN bs[i].low <= b.swing.price ELSE bs[i].high >= b.swing.price}
      lost(b) == \E i \in (b.bar + 1)..Len(bs) :
                    IF b.way = "UP" THEN bs[i].close < b.swing.price ELSE bs[i].close > b.swing.price
  IN  {[level |-> b.swing.price, from |-> b.swing, touches |-> Cardinality(back(b)),
        extreme |-> IF b.way = "UP" THEN Min({bs[i].low : i \in back(b)})
                    ELSE Max({bs[i].high : i \in back(b)})] :
         b \in {c \in Range(Breaks(bs)) : back(c) # {} /\ ~lost(c)}}

OppositeColour(bar, way) == IF way = "UP" THEN bar.close < bar.open ELSE bar.close > bar.open

\* The last candle of the other colour before the break, or the bar at the break's foot.
OriginCandle(bs, b) ==
  LET walked == Max({1, b.bar - WalkBack})..(b.bar - 1)
      other  == {i \in walked : OppositeColour(bs[i], b.way)}
  IN  IF other = {} THEN b.bar - 1 ELSE Max(other)

\* A close through the far side fails it; a return after leaving the box tests it.
BlockState(bs, b) ==
  LET o      == OriginCandle(bs, b)
      after  == (o + 1)..Len(bs)
      inside(i) == bs[i].low <= bs[o].high /\ bs[i].high >= bs[o].low
  IN  IF \E i \in after : IF b.way = "UP" THEN bs[i].close < bs[o].low ELSE bs[i].close > bs[o].high
      THEN "FAILED"
      ELSE IF \E i, j \in after : i < j /\ ~inside(i) /\ inside(j) THEN "TESTED" ELSE "UNTESTED"

-----------------------------------------------------------------------------
StructureTypeOK == series \in Seq(ClosedBars) /\ coming \in Nat

StructureInit == \E h \in Histories : series = h.bars /\ coming = h.more

BarCloses ==
  /\ coming > 0 /\ coming' = coming - 1
  /\ \E bar \in Shapes : series' = Append(series, bar)

StructureSpec == StructureInit /\ [][BarCloses]_structureVars

-----------------------------------------------------------------------------
(* Properties. *)

\* What cs still reads of what bs read.
Unrepainted(bs, cs) ==
  /\ Swings(bs) \subseteq Swings(cs)
  /\ IsPrefix(Breaks(bs), Breaks(cs))
  /\ \A s \in Swings(bs) :
       /\ Strength(bs, s) = "WEAK" => Strength(cs, s) # "UNCONFIRMED"
       /\ Strength(bs, s) = "STRONG" /\ Strength(cs, s) = "UNCONFIRMED" =>
            \E t \in Swings(cs) \ Swings(bs) : t.kind = s.kind /\ t.at > s.at
  /\ Imbalances(bs) \subseteq Imbalances(cs)
  /\ \A z \in Imbalances(bs) : FillState(bs, z) <= FillState(cs, z) /\ TestCount(bs, z) <= TestCount(cs, z)
  /\ Pools(bs) \subseteq Pools(cs)
  /\ \A p \in Pools(bs) :
       /\ PoolState(bs, p) # "UNTESTED" => PoolState(cs, p) # "UNTESTED"
       /\ \A run \in Excursions(bs, p) :
            Max(run) < Len(bs) /\ ClearedBy(bs, p, run) =>
              run \in Excursions(cs, p) /\ PoolState(cs, p) = "CONSUMED"
  /\ \A f \in FlippedLevels(bs), g \in FlippedLevels(cs) :
       f.from = g.from => f.level = g.level /\ f.touches <= g.touches
  /\ \A b \in Range(Breaks(bs)) :
       /\ OriginCandle(bs, b) = OriginCandle(cs, b)
       /\ BlockState(bs, b) = "FAILED" => BlockState(cs, b) = "FAILED"

\* What was read from closed bars is read again from every longer series: a new
\* bar confirms swings and adds breaks, imbalances, pools and blocks, and takes
\* back or reorders none.  A swing that was taken out keeps a strength, and only a
\* later swing of its kind takes STRONG away from one: with two bars or more beside
\* a swing, the foot of a break is confirmed after the break.  A fill never empties,
\* a pool's sweep that has ended and was cleared stays so, and a failed block never
\* revives.
StructureNeverRepaints == [][Len(series') > Len(series) => Unrepainted(series, series')]_series
===============================================================================
