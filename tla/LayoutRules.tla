---------------------------- MODULE LayoutRules ----------------------------
(***************************************************************************)
(* The structure box of the last break, its grade, and the decision of     *)
(* evaluate_layout over it and the reads of the four panels                *)
(* (services/rules/evaluator.py; GRADE-001 to 008, GATE-001 to 009, 036).  *)
(* The rules run in one order, and the first that fails decides.           *)
(***************************************************************************)
EXTENDS MarketStructure

CONSTANTS
  Panels,         \* the roster: asset -> "MAIN", "POSITIVE" or "NEGATIVE"
  PanelHistories, \* breaks of a panel's series that its read may see: <<[way, type], ...>>
  HeavyMin        \* HEAVY_MIN_DISTURBED

\* Two panels disturbed are heavy in the code; with three the six forms of GATE-009 would
\* take something from what GATE-001 lets through.
ASSUME LayoutAssumption ==
  /\ Panels \in [DOMAIN Panels -> {"MAIN", "POSITIVE", "NEGATIVE"}] /\ IsFiniteSet(DOMAIN Panels)
  /\ "main" \in DOMAIN Panels /\ Panels["main"] = "MAIN"
  /\ PanelHistories \subseteq Seq([way : {"UP", "DOWN"}, type : {"BOS", "MSB"}])
  /\ HeavyMin \in 1..2

VARIABLE panels   \* the breaks of each panel's series, or that it cannot be read

-----------------------------------------------------------------------------
(* GRADE-001: the box from the swing a break consumed to the far extreme. *)

Box(bs, b) ==
  LET span == b.swing.at..b.bar
  IN  [way |-> b.way, from |-> b.swing.at, born |-> b.bar,
       low  |-> IF b.way = "UP" THEN Min({bs[i].low : i \in span}) ELSE b.swing.price,
       high |-> IF b.way = "UP" THEN b.swing.price ELSE Max({bs[i].high : i \in span})]

NoBox == [way |-> "none", from |-> 0, born |-> 0, low |-> 0, high |-> 0]

\* Mutant: the box that has stood longest.
OldestBox(bs) == LET brks == Breaks(bs) IN IF brks = <<>> THEN NoBox ELSE Box(bs, brks[1])

\* The latest break decides; of two at one bar the first in order.
LatestBox(bs) ==
  LET brks == Breaks(bs)
  IN  IF brks = <<>> THEN NoBox
      ELSE Box(bs, brks[Min({k \in DOMAIN brks : brks[k].bar = brks[Len(brks)].bar})])

-----------------------------------------------------------------------------
(* The evidence of a grade: what the bars after the break did in the box. *)

Pullback(bs, box) == (box.born + 1)..Len(bs)

\* Mutant: an imbalance that price has filled since does not count.
OpenTap(bs, box) ==
  \E z \in Imbalances(bs), i \in Pullback(bs, box) :
    /\ FillState(bs, z) < 2
    /\ z.high >= box.low /\ z.low <= box.high /\ Touches(bs[i], z)

ImbalanceTap(bs, box) ==
  \E z \in Imbalances(bs), i \in Pullback(bs, box) :
    z.high >= box.low /\ z.low <= box.high /\ Touches(bs[i], z)

\* A wick beyond a minor swing of the box that leaves its extreme standing.
InnerSweep(bs, box) ==
  \E s \in Swings(bs), i \in Pullback(bs, box) :
    /\ box.from <= s.at /\ s.at <= box.born
    /\ IF box.way = "UP"
       THEN s.kind = "LOW" /\ s.price > box.low /\ bs[i].low < s.price /\ bs[i].low >= box.low
       ELSE s.kind = "HIGH" /\ s.price < box.high /\ bs[i].high > s.price /\ bs[i].high <= box.high

\* Somebody's liquidity was run between the swing and the counter-break.
SweptBefore(bs, box, bar) ==
  \E p \in Pools(bs) : \E run \in Excursions(bs, p) :
    Deepest(bs, p, run) \in box.from..bar

\* GRADE-008: the first break against the box came after a sweep, the next one
\* resumed its way, and price went past it.  Unfinished is not fake.
FakeMSB(bs, box) ==
  LET counter == SelectSeq(Breaks(bs), LAMBDA b : b.bar > box.born /\ b.way # box.way)
      after   == SelectSeq(Breaks(bs), LAMBDA b : b.bar > counter[1].bar)
  IN  /\ counter # <<>>
      /\ SweptBefore(bs, box, counter[1].bar)
      /\ after # <<>> /\ after[1].way = box.way
      /\ \E i \in after[1].bar..Len(bs) :
           IF box.way = "UP" THEN bs[i].high > box.high ELSE bs[i].low < box.low

\* Without the tap there is no grade; each further component is a rung.
Fuel(bs, box) ==
  IF box = NoBox \/ ~ImbalanceTap(bs, box) THEN 0
  ELSE 1 + Cardinality({c \in {"sweep", "fake"} :
                          IF c = "sweep" THEN InnerSweep(bs, box) ELSE FakeMSB(bs, box)})

-----------------------------------------------------------------------------
(* The panels. *)

\* build_correlate_reads: the flow of the last break, and whether it turned.
Read(history) ==
  [flow |-> IF history = <<>> THEN "NEUTRAL" ELSE history[Len(history)].way,
   broke |-> history # <<>>,
   state |-> IF history = <<>> THEN "NONE"
             ELSE IF history[Len(history)].type = "MSB" THEN "MSB_IN_WINDOW"
             ELSE IF \E k \in DOMAIN history : history[k].type = "MSB"
                  THEN "ALREADY_MSB_CONTINUING_BOS" ELSE "NONE"]

Opposite(way) == IF way = "UP" THEN "DOWN" ELSE "UP"

\* Mutant: the dominance panel is read like the others.
Alike(asset, way) == way

Expected(asset, way) == IF Panels[asset] = "NEGATIVE" THEN Opposite(way) ELSE way

Against(reads, asset, way) == reads[asset].flow = Opposite(Expected(asset, way))

\* Of the eight off-conditions the reads can show two: a flow that is opposite,
\* and no break at all.
Disturbed(reads, asset, way) == Against(reads, asset, way) \/ ~reads[asset].broke

\* Of the panels but the main one.
DisturbedCount(reads, way) ==
  Cardinality({a \in DOMAIN Panels : Panels[a] # "MAIN" /\ Disturbed(reads, a, way)})

\* GATE-009: any of the six forms; the sixth needs objectives that no read has.
Aligned(reads, way) ==
  LET states == {reads[a].state : a \in DOMAIN Panels}
  IN  \/ states = {"MSB_IN_WINDOW"}
      \/ "ALREADY_MSB_CONTINUING_BOS" \in states
      \/ Cardinality(states) > 1 /\ \A a \in DOMAIN Panels : ~Disturbed(reads, a, way)
      \/ \A a \in DOMAIN Panels : Panels[a] = "POSITIVE" => ~Against(reads, a, way)
      \/ \A a \in DOMAIN Panels :
           Panels[a] = "NEGATIVE" => reads[a].flow = Expected(a, way)

\* A panel without a read, of another timeframe or of thin bars: the layout
\* cannot be read.
Unreadable == <<[way |-> "unreadable", type |-> "none"]>>
Readable(histories) == \A a \in DOMAIN Panels : histories[a] # Unreadable

-----------------------------------------------------------------------------
(* The decision, and the rule that made it. *)

\* way: of the box, or "none" without one.
Decide(way, fuel, histories) ==
  LET reads == [a \in DOMAIN Panels |-> Read(histories[a])] IN
  CASE ~Readable(histories)                          -> <<"STAND_ASIDE", "GATE-008">>
    [] Readable(histories) /\ way = "none"            -> <<"STAND_ASIDE", "GRADE-001">>
    [] Readable(histories) /\ way # "none" /\ fuel = 0 -> <<"SKIP", "GRADE-006">>
    [] OTHER ->
         IF DisturbedCount(reads, way) >= HeavyMin THEN <<"SKIP", "GATE-001">>
         ELSE IF ~Aligned(reads, way) THEN <<"SKIP", "GATE-009">>
         ELSE <<"TAKE", "GATE-009">>

-----------------------------------------------------------------------------
(* GATE-032: the risk of a graded layout, in hundredths of a percent. *)

\* A row for each rung of fuel: no panel disturbed, fewer than heavy, heavy.
RiskMatrix == << <<100, 25, 0>>, <<125, 50, 0>>, <<150, 75, 0>> >>

DisturbanceGrade(count) == IF count = 0 THEN 1 ELSE IF count < HeavyMin THEN 2 ELSE 3

\* Mutant: the day moves the trade along the other axis, to the row below.
RowDown(fuel, grade, redFolder) ==
  IF ~redFolder THEN RiskMatrix[fuel][grade] ELSE IF fuel = 1 THEN 0 ELSE RiskMatrix[fuel - 1][grade]

\* A red-folder day costs one rung of disturbance.
Cell(fuel, grade, redFolder) ==
  IF ~redFolder THEN RiskMatrix[fuel][grade]
  ELSE IF grade = 3 THEN 0 ELSE RiskMatrix[fuel][grade + 1]

Size(fuel, count, class, redFolder) ==
  LET risk == IF class = "ALTCOIN" \/ fuel = 0 THEN 0 ELSE Cell(fuel, DisturbanceGrade(count), redFolder)
  IN  [risk |-> risk,
       outcome |-> IF class = "ALTCOIN" THEN "REFUSED" ELSE IF fuel = 0 THEN "UNGRADED_BOX"
                   ELSE IF risk = 0 THEN "SKIP" ELSE "SIZED"]

\* SIZE-004: at most the ceiling, and a value of the table.
Conforms(risk) == risk <= 150 /\ \E row \in Range(RiskMatrix) : risk \in Range(row)

-----------------------------------------------------------------------------
(* What the shadow says, and the panels move. *)

\* How many panels the shadow evaluation writes down as disturbed.  It grades the
\* short side only below a main panel that falls.
ShadowCount(histories) ==
  LET reads == [a \in DOMAIN Panels |-> Read(histories[a])]
  IN  DisturbedCount(reads, IF reads["main"].flow = "DOWN" THEN "DOWN" ELSE "UP")

\* A panel's series breaks again, or the panel is lost and found.
PanelMoves ==
  \E a \in DOMAIN Panels, h \in PanelHistories \union {Unreadable} : panels' = [panels EXCEPT ![a] = h]

LayoutInit == panels = [a \in DOMAIN Panels |-> <<>>]

LayoutSpec == LayoutInit /\ [][PanelMoves]_panels

LayoutTypeOK == panels \in [DOMAIN Panels -> PanelHistories \union {<<>>, Unreadable}]

-----------------------------------------------------------------------------
(* Properties. *)

\* What cs still finds of the latest break of bs, if it is the latest.
FoundAgain(bs, cs) ==
  LET box == LatestBox(bs)
  IN  (box # NoBox /\ LatestBox(cs).born = box.born) =>
        /\ LatestBox(cs) = box
        /\ Fuel(bs, box) > 0 => Fuel(cs, box) > 0
        /\ InnerSweep(bs, box) => InnerSweep(cs, box)

\* While a break stays the latest, what was found of it stands: the box, its
\* tap and its inner sweep are read again from every longer series, so a layout
\* that had fuel keeps it, and an order placed on it is not orphaned.
TakeStands == [][Len(series') > Len(series) => FoundAgain(series, series')]_series

\* What the rules read from closed bars stands: the structure never repaints, and what
\* was found of the latest break is found again.
ReadingsStand == StructureNeverRepaints /\ TakeStands

\* The third rung of the ladder is never reached from evaluate_layout: a fake
\* break is seen of a box that a later break has replaced, and only the box of
\* the latest break is graded.  MANIPULATED is a grade nothing can get.
LatestNeverFake == ~FakeMSB(series, LatestBox(series))

\* Of two or three correlates with one negative: a graded layout that can be
\* read is traded exactly when all of them but one stand behind it.  The six
\* forms of GATE-009 take nothing from what GATE-001 lets through, and the count
\* that the shadow writes down is the one that decides.
TakeIsBacked ==
  LET way    == Read(panels["main"]).flow
      backing(a) == panels[a] # <<>> /\ panels[a][Len(panels[a])].way =
                      IF Panels[a] = "POSITIVE" THEN way ELSE Opposite(way)
      others == {a \in DOMAIN Panels : Panels[a] # "MAIN"}
  IN  (Readable(panels) /\ way # "NEUTRAL") =>
        \A fuel \in 1..3 :
          /\ Decide(way, fuel, panels)[1] = "TAKE"
               <=> Cardinality({a \in others : ~backing(a)}) < HeavyMin
          /\ ShadowCount(panels) = Cardinality({a \in others : ~backing(a)})

\* The matrix pays for what the decision takes and for nothing else: on a normal day
\* a layout is sized exactly when it is traded, on a red-folder day only with no
\* panel against it, and more disturbance, less fuel or such a day never pays more.
PaidAsTaken ==
  LET way    == Read(panels["main"]).flow
      count  == ShadowCount(panels)
      pay(fuel, n, red) == Size(fuel, n, "ALIGNED_MAJOR", red).risk
  IN  (Readable(panels) /\ way # "NEUTRAL") =>
        \A fuel \in 1..3 :
          /\ (pay(fuel, count, FALSE) > 0) <=> (Decide(way, fuel, panels)[1] = "TAKE")
          /\ (pay(fuel, count, TRUE) > 0) <=> (count = 0)
          /\ \A red \in BOOLEAN : /\ Conforms(pay(fuel, count, red))
                                 /\ pay(fuel, count, red) <= pay(fuel, count, FALSE)
                                 /\ pay(fuel, count + 1, red) <= pay(fuel, count, red)
                                 /\ fuel > 1 => pay(fuel - 1, count, red) <= pay(fuel, count, red)

\* What decides a trade and what sizes it read the same panels: a layout is taken when the
\* correlates back it, and paid for when it is taken.
TakenIsBackedAndPaid == TakeIsBacked /\ PaidAsTaken
=============================================================================
