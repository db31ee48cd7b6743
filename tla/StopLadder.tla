----------------------------- MODULE StopLadder -----------------------------
(***************************************************************************)
(* The setup that a window of closed bars holds, the five anchors its stop *)
(* may stand behind, and the choice among them (services/rules: ENTRY-001, *)
(* GATE-025 to 031, stop_ladder_corpus.py).  Everything is a function of   *)
(* the series.  Prices are doubled, so that the middle of a zone is a      *)
(* number; a ratio of reward to risk is compared by multiplying across.    *)
(***************************************************************************)
EXTENDS LayoutRules, ExitModel

CONSTANTS
  Placements   \* where in the zone the entry stands: "MID", "FAR_EDGE", "NEAR_EDGE"

ASSUME PlacementAssumption == Placements \subseteq {"MID", "FAR_EDGE", "NEAR_EDGE"}

-----------------------------------------------------------------------------
(* ENTRY-001: a balanced range before a plain imbalance, then the oldest. *)

SubRank(z) == CASE z.type = "SUPER_BPR" -> 1 [] z.type = "BPR" -> 2 [] OTHER -> 3

\* Ids decide between two of one bar: the fair value gap's names the bar before,
\* and the ranges of one bar are numbered from the lowest.
PoiBefore(y, z) ==
  \/ SubRank(y) < SubRank(z)
  \/ SubRank(y) = SubRank(z) /\ y.at < z.at
  \/ /\ SubRank(y) = SubRank(z) /\ y.at = z.at
     /\ IF SubRank(y) = 3 THEN y.type = "FVG" /\ z.type # "FVG"
        ELSE y.low < z.low \/ (y.low = z.low /\ y.high < z.high)

\* Whatever its fill, a zone the last close lies in.
AtClose(bs) ==
  {z \in Imbalances(bs) : z.low <= bs[Len(bs)].close /\ bs[Len(bs)].close <= z.high}
Poi(zones) == CHOOSE z \in zones : \A y \in zones : y = z \/ PoiBefore(z, y)

EntryPrice(z, way, placement) ==
  CASE placement = "MID"       -> z.high + z.low
    [] placement = "FAR_EDGE"  -> 2 * (IF way = 1 THEN z.low ELSE z.high)
    [] placement = "NEAR_EDGE" -> 2 * (IF way = 1 THEN z.high ELSE z.low)

-----------------------------------------------------------------------------
(* GATE-027: the anchors of a stop, from the outermost idea to the innermost. *)

Rungs == <<"DEEPEST_SWING", "MOMENTUM_IMBALANCE", "LIQUIDITY_SWEEP_QML", "ORDER_BLOCK", "INNER_MSB">>

OnStopSide(way, entry, price) == (entry - price) * way > 0
Outermost(way, prices) == IF way = 1 THEN Min(prices) ELSE Max(prices)
Innermost(way, prices) == IF way = 1 THEN Max(prices) ELSE Min(prices)
FarEdge(z, way) == IF way = 1 THEN z.low ELSE z.high

\* A swept level is passed by as much as the sweep passed it, on the stop's side
\* whichever side the pool is of.
SweptLevels(bs, way) ==
  UNION {{p.price - way * Above(bs[Deepest(bs, p, run)], p) : run \in Excursions(bs, p)} : p \in Pools(bs)}

\* The wick of the origin candle of a break of the trade's way.
StopAnchors(bs, way) ==
  {IF way = 1 THEN bs[OriginCandle(bs, b)].low ELSE bs[OriginCandle(bs, b)].high :
     b \in {c \in Range(Breaks(bs)) : c.way = IF way = 1 THEN "UP" ELSE "DOWN"}}

\* The prices a rung may stand at.
Anchors(bs, way, rung) ==
  LET brks == Breaks(bs)
  IN  CASE rung = "DEEPEST_SWING" ->
             {s.price : s \in {t \in Swings(bs) : /\ t.kind = IF way = 1 THEN "LOW" ELSE "HIGH"
                                                  /\ t.at > brks[Len(brks)].bar}}
        [] rung = "MOMENTUM_IMBALANCE" ->
             {FarEdge(z, way) : z \in {y \in Imbalances(bs) : FillState(bs, y) <= 1}}
        [] rung = "LIQUIDITY_SWEEP_QML" -> SweptLevels(bs, way)
        [] rung = "ORDER_BLOCK" -> StopAnchors(bs, way)
        [] rung = "INNER_MSB" -> {b.swing.price : b \in Range(brks)}

\* The located ones of these rungs, and their stops.
Ladder(way, entry, anchors, rungs) ==
  LET prices == [k \in rungs |-> {q \in {2 * p : p \in anchors[k]} : OnStopSide(way, entry, q)}]
  IN  [k \in {j \in rungs : prices[j] # {}} |->
         IF Rungs[k] = "INNER_MSB" THEN Innermost(way, prices[k]) ELSE Outermost(way, prices[k])]

\* Liquidity not consumed, and the edges of imbalances that are open.
Objectives(bs, way) ==
  {p.price : p \in {q \in Pools(bs) : PoolState(bs, q) # "CONSUMED"}} \union
  {FarEdge(z, -way) : z \in {y \in Imbalances(bs) : FillState(bs, y) <= 1}}

TargetDistances(way, entry, objectives) == {d \in {way * (2 * p - entry) : p \in objectives} : d > 0}

\* Of a zone, wherever the entry stands in it.  Order blocks have no producer among the
\* rules; a caller that has none leaves the fourth rung out.
SetupsIn(way, poi, anchors, objectives) ==
  {LET entry == EntryPrice(poi, way, placement)
   IN  [way |-> way, entry |-> entry, poi |-> poi,
        ladder |-> Ladder(way, entry, anchors, DOMAIN Rungs \ absent),
        rewards |-> TargetDistances(way, entry, objectives)] :
     placement \in Placements, absent \in {{}, {4}}}

\* extract_setup: the way is of the last break, whatever its type.
Setups(bs) ==
  LET way == IF Last(Breaks(bs)).way = "UP" THEN 1 ELSE -1
  IN  IF Breaks(bs) = <<>> \/ AtClose(bs) = {} THEN {}
      ELSE SetupsIn(way, Poi(AtClose(bs)), [k \in DOMAIN Rungs |-> Anchors(bs, way, Rungs[k])],
                    Objectives(bs, way))

-----------------------------------------------------------------------------
(* GATE-025, 026 and 028: the floor, the terminal skip, the choice. *)

Cushion(s, rung) == (s.entry - s.ladder[rung]) * s.way

\* Mutant: what GATE-029 flags is not taken.
WithinBand(s, reward) ==
  {k \in DOMAIN s.ladder : reward >= 2 * Cushion(s, k) /\ reward <= 4 * Cushion(s, k)}

Accepted(s, reward) == {k \in DOMAIN s.ladder : reward >= 2 * Cushion(s, k)}

\* How far from three to one, against another.
FromThree(reward, cushion) == IF reward >= 3 * cushion THEN reward - 3 * cushion ELSE 3 * cushion - reward
Closer(reward, c, d) == FromThree(reward, c) * d < FromThree(reward, d) * c

\* The stop closest to 3R; of two the one with the larger cushion, then the first.
Selected(s, reward) ==
  LET survivors == Accepted(s, reward)
  IN  CHOOSE k \in survivors : \A j \in survivors :
        LET c == Cushion(s, k)  d == Cushion(s, j)
        IN  \/ Closer(reward, c, d)
            \/ ~Closer(reward, d, c) /\ (c > d \/ (c = d /\ k <= j))

-----------------------------------------------------------------------------
(* GATE-027 note (b), 029, 030 and 031: after the choice. *)

\* A zone the stop lies in is covered whole, once; it may end inside another.
Covered(bs, way, stop) ==
  LET around == {z \in Imbalances(bs) : 2 * z.low <= stop /\ stop <= 2 * z.high}
  IN  Outermost(way, {stop} \union {2 * FarEdge(z, way) : z \in around})

RiskTo(s, stop) == (s.entry - stop) * s.way
WidenedBelowFloor(s, reward, stop) == reward < 2 * RiskTo(s, stop)
AboveBand(s, reward, stop) == reward > 4 * RiskTo(s, stop)
TighterThanNecessary(s, reward, rung) ==
  \E k \in Accepted(s, reward) : Cushion(s, k) > Cushion(s, rung)

\* Mutant: a target at the partial's own level leaves a runner.
FlaggedInside(s, reward, stop) == reward < 2 * RiskTo(s, stop)

DegenerateRunner(s, reward, stop) == reward <= 2 * RiskTo(s, stop)

-----------------------------------------------------------------------------
(* Properties. *)

\* The sweep over targets asks what a farther objective does to a setup.  It never
\* rejects a stop that was accepted, so it never turns a trade into a skip, and the
\* stop closest to 3R only moves outwards: a nearer objective is never traded with a
\* wider stop than a farther one.
StopFollowsTarget ==
  \A s \in Setups(series) :
    LET traded == {r \in s.rewards : Accepted(s, r) # {}}
        chosen == [r \in traded |-> Selected(s, r)]
    IN  /\ \A near \in traded, far \in s.rewards : near < far =>
             /\ Accepted(s, near) \subseteq Accepted(s, far)
             /\ Cushion(s, chosen[near]) <= Cushion(s, chosen[far])
        /\ \A r \in traded : ~(AboveBand(s, r, s.ladder[chosen[r]]) /\ TighterThanNecessary(s, r, chosen[r]))

\* Widening a selected stop may lose the floor, and nothing selects again: the flags
\* of the stop say what the exit model will make of the trade.  Its plan is refused
\* exactly when the widened stop is below the floor, and the runner is flagged exactly
\* when the plan is refused or has nothing left to run.
RunnersAgree ==
  \A s \in Setups(series) : \A reward \in s.rewards :
    Accepted(s, reward) # {} =>
      LET stop   == Covered(series, s.way, s.ladder[Selected(s, reward)])
          record == TrancheRecord([way |-> s.way, entry |-> s.entry, stop |-> stop,
                                   target |-> s.entry + s.way * reward])
      IN  /\ record.planned <=> ~WidenedBelowFloor(s, reward, stop)
          /\ DegenerateRunner(s, reward, stop) <=> (~record.planned \/ record.degenerate)

\* The stop and the exits answer the same target: the stop moves outwards only with it, and
\* the flags of a widened stop foretell what the exit model makes of it.
StopAnswersTarget == StopFollowsTarget /\ RunnersAgree
=============================================================================
