------------------------------ MODULE MCMarket ------------------------------
(***************************************************************************)
(* The machines that turn prices into signals and paper trades, and share  *)
(* no state: the simulated venues, the candle pipeline, the ICT zones, the *)
(* alerts, the AI service, the market structure, the layout read over the  *)
(* panels and the stops under it, the exits of a trade, the entry decision *)
(* and its backtest, the feed of the panels and the health of the loop.  A *)
(* behaviour is one of theirs; the others rest in an initial state, so the *)
(* state graph is the sum of the eleven.                                   *)
(***************************************************************************)
EXTENDS SimVenue, CandlePipeline, IctZones, Alerts, AiGateway, StopLadder,
        EntryStep, DominanceFeed, LoopHealth

MCOrders == {[side |-> 1, units |-> 2, sl |-> 1, tp |-> 3],
             [side |-> -1, units |-> 1, sl |-> 3, tp |-> NoLevel]}

\* Bars that do nothing, reach both sides, break up, break down, gap up and down, reverse.
Shape(o, h, l, c) == [open |-> o, high |-> h, low |-> l, close |-> c]
MCShapes == {Shape(3, 3, 3, 3), Shape(3, 4, 2, 3), Shape(3, 5, 3, 5), Shape(3, 3, 1, 1),
             Shape(4, 5, 4, 4), Shape(2, 2, 1, 2), Shape(4, 4, 2, 2)}

\* A swing, and one that a break has consumed before the foot of the break is confirmed.
MCPeak == <<Shape(2, 2, 2, 2), Shape(3, 3, 2, 3), Shape(3, 4, 3, 4), Shape(3, 3, 2, 2), Shape(2, 2, 1, 2)>>
MCTurn == <<Shape(2, 2, 2, 2), Shape(3, 3, 3, 3), Shape(3, 4, 3, 4), Shape(3, 3, 3, 3), Shape(3, 3, 2, 2),
            Shape(3, 3, 3, 3), Shape(3, 5, 3, 5)>>

Doubled(legs) == [k \in 1..12 |-> legs[(k + 1) \div 2]]

\* Paths of six legs of two bars: impulses and retracements that leave every anchor of a stop.
Path(legs) ==
    LET at(k) == FoldLeft(LAMBDA price, m : price + m, 80, SubSeq(Doubled(legs), 1, k - 1))
    IN  [k \in 1..12 |->
            IF at(k + 1) > at(k) THEN Shape(at(k), at(k + 1) + 1, at(k), at(k + 1))
            ELSE Shape(at(k), at(k), at(k + 1) - 1, at(k + 1))]

MCHistories ==
    {[bars |-> <<>>, more |-> 4], [bars |-> MCPeak, more |-> 4], [bars |-> MCTurn, more |-> 3]}
    \union {[bars |-> Path(legs), more |-> 0] : legs \in {<<7>> \o l : l \in [1..5 -> {7, 2, -3, -6}]}}

\* Longs and shorts; of one of each the target is the 2R level, of one inside it.
MCTrades ==
    {[way |-> 1, entry |-> 3, stop |-> 2, target |-> 6], [way |-> 1, entry |-> 3, stop |-> 2, target |-> 5],
     [way |-> -1, entry |-> 4, stop |-> 5, target |-> 1], [way |-> -1, entry |-> 4, stop |-> 5, target |-> 2],
     [way |-> 1, entry |-> 3, stop |-> 2, target |-> 4]}

MCPanels == [main |-> "MAIN", eth |-> "POSITIVE", total |-> "POSITIVE", usdt |-> "NEGATIVE"]
MCPanelHistories ==
    LET Brk(way, type) == [way |-> way, type |-> type]
    IN  {<<>>, <<Brk("UP", "BOS")>>, <<Brk("UP", "BOS"), Brk("DOWN", "MSB")>>,
         <<Brk("DOWN", "BOS"), Brk("UP", "MSB"), Brk("UP", "BOS")>>}

Reads(bos, low, high) == [bos |-> bos, low |-> low, high |-> high]
EntryBar(o, h, l, c, atr, seen, full) ==
    [op |-> o, hi |-> h, lo |-> l, cl |-> c, atr |-> atr, seen |-> seen, full |-> full]
Plain(o, h, l, c, atr, seen) == EntryBar(o, h, l, c, atr, seen, seen)

Rising == Reads("LONG", 4, NoPrice)
Falling == Reads("SHORT", NoPrice, 14)

MCEntryBars ==
    {Plain(9, 9, 8, 9, 1, Rising), Plain(9, 10, 6, 9, 1, Rising), Plain(10, 20, 9, 15, 6, Rising),
     Plain(9, 9, 3, 4, 1, Rising), Plain(9, 11, 7, 10, 9, Rising),
     Plain(9, 13, 8, 9, 1, Falling), Plain(9, 10, 0, 2, 6, Falling),
     EntryBar(9, 10, 7, 9, 1, Rising, Falling)}

\* A gap up between 6 and 8, the same and one above it, and one down between 10 and 12
\* that is too small for the range of its day, or not.
Rise == <<Plain(5, 6, 4, 6, 1, Rising), Plain(6, 9, 6, 9, 1, Rising), Plain(9, 10, 8, 9, 1, Rising)>>
Climb == <<Plain(5, 6, 4, 6, 1, Rising), Plain(6, 9, 6, 9, 1, Rising), Plain(9, 12, 8, 12, 1, Rising),
           Plain(12, 13, 11, 13, 1, Rising)>>
Fall(atr) == <<Plain(13, 14, 12, 12, 1, Falling), Plain(12, 12, 9, 9, atr, Falling), Plain(9, 10, 8, 9, 1, Falling)>>

Start(days, past, m) == [days |-> days, bars |-> past, manual |-> m]
MCStarts ==
    {Start(<<"LONG">>, Rise, FALSE), Start(<<"SHORT", "LONG">>, Climb, FALSE),
     Start(<<"LONG", "SHORT">>, Fall(9), FALSE), Start(<<"LONG", "SHORT">>, Fall(1), FALSE),
     Start(<<"LONG", "none", "LONG">>, Rise, TRUE)}

\* Every page, one too few of one panel, none of one.
MCPages(btc, eth) == [a \in Perpetual |-> IF a = "BTCUSDT.P" THEN btc ELSE eth]
MCPageAnswers == {MCPages(2, 2), MCPages(1, 2), MCPages(2, 0)}

VARIABLE machine    \* whose behaviour it is

marketVars == <<machine, simVars, candleVars, ictVars, alertVars, aiVars, structureVars, panels, exitVars,
                entryVars, feedVars, healthVars>>

MarketInit ==
    /\ machine \in {"simulator", "candles", "zones", "alerts", "analyses", "structure", "layout", "exits",
                   "entries", "feed", "health"}
    /\ SimInit /\ CandleInit /\ IctInit /\ AlertInit /\ AiInit /\ StructureInit /\ LayoutInit
    /\ ExitInit /\ EntryInit /\ FeedInit /\ HealthInit
    /\ machine # "simulator" => kind = "paper"
    /\ machine # "structure" => series = <<>>
    /\ machine # "exits" => trade = [way |-> 1, entry |-> 3, stop |-> 2, target |-> 6]
    /\ machine # "entries" => verdicts = <<"LONG">>
    /\ machine # "feed" => answered = MCPages(2, 2)

MarketNext ==
    /\ UNCHANGED machine
    /\ \/ /\ machine = "simulator" /\ SimNext
          /\ UNCHANGED <<candleVars, ictVars, alertVars, aiVars, structureVars, panels,
                         exitVars, entryVars, feedVars, healthVars>>
       \/ /\ machine = "candles" /\ CandleNext
          /\ UNCHANGED <<simVars, ictVars, alertVars, aiVars, structureVars, panels,
                         exitVars, entryVars, feedVars, healthVars>>
       \/ /\ machine = "zones" /\ IctNext
          /\ UNCHANGED <<simVars, candleVars, alertVars, aiVars, structureVars, panels,
                         exitVars, entryVars, feedVars, healthVars>>
       \/ /\ machine = "alerts" /\ AlertNext
          /\ UNCHANGED <<simVars, candleVars, ictVars, aiVars, structureVars, panels,
                         exitVars, entryVars, feedVars, healthVars>>
       \/ /\ machine = "analyses" /\ AiNext
          /\ UNCHANGED <<simVars, candleVars, ictVars, alertVars, structureVars, panels,
                         exitVars, entryVars, feedVars, healthVars>>
       \/ /\ machine = "structure" /\ BarCloses
          /\ UNCHANGED <<simVars, candleVars, ictVars, alertVars, aiVars, panels,
                         exitVars, entryVars, feedVars, healthVars>>
       \/ /\ machine = "layout" /\ PanelMoves
          /\ UNCHANGED <<simVars, candleVars, ictVars, alertVars, aiVars, structureVars,
                         exitVars, entryVars, feedVars, healthVars>>
       \/ /\ machine = "exits" /\ PriceComes
          /\ UNCHANGED <<simVars, candleVars, ictVars, alertVars, aiVars, structureVars,
                         panels, entryVars, feedVars, healthVars>>
       \/ /\ machine = "entries" /\ EntryBarCloses
          /\ UNCHANGED <<simVars, candleVars, ictVars, alertVars, aiVars, structureVars,
                         panels, exitVars, feedVars, healthVars>>
       \/ /\ machine = "feed" /\ FeedNext
          /\ UNCHANGED <<simVars, candleVars, ictVars, alertVars, aiVars, structureVars,
                         panels, exitVars, entryVars, healthVars>>
       \/ /\ machine = "health" /\ HealthNext
          /\ UNCHANGED <<simVars, candleVars, ictVars, alertVars, aiVars, structureVars,
                         panels, exitVars, entryVars, feedVars>>

MarketSpec == MarketInit /\ [][MarketNext]_marketVars

MarketTypeOK ==
    /\ SimTypeOK /\ CandleTypeOK /\ IctTypeOK /\ AlertTypeOK /\ AiTypeOK
    /\ StructureTypeOK /\ LayoutTypeOK /\ ExitTypeOK
    /\ EntryTypeOK /\ FeedTypeOK /\ HealthTypeOK
=============================================================================
