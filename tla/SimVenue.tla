------------------------------- MODULE SimVenue -------------------------------
(***************************************************************************)
(* The two simulated venues of services/broker: PaperBroker (paper.py),    *)
(* whose price is the last mark and which never suspends, and              *)
(* SimPropFirmBroker (cft_sim.py), whose market price is awaited and which *)
(* enforces the rules of a prop-firm challenge.  One pair.  The loop's     *)
(* task and one HTTP request (close, kill switch) use the broker; between  *)
(* two awaits each of them runs alone.                                     *)
(***************************************************************************)
EXTENDS Integers, FiniteSets

CONSTANTS
  Prices,          \* the prices the source may answer, a set of integers
  SimOrders,       \* what the loop may ask for: [side, units, sl, tp]
  MaxFills,        \* bound on the positions opened
  MaxDays,         \* bound on the calendar
  StartingBalance, DailyLossAmount, DrawdownPct, TargetPct  \* PropFirmRules

NoLevel == -1      \* sl or tp not given

ASSUME SimAssumption ==
  /\ Prices \subseteq Nat \ {0} /\ IsFiniteSet(Prices)
  /\ SimOrders \subseteq [side : {1, -1}, units : Nat \ {0}, sl : Prices \union {NoLevel},
                          tp : Prices \union {NoLevel}]
  /\ {MaxFills, MaxDays, StartingBalance} \subseteq Nat /\ DailyLossAmount \in Nat \ {0}
  /\ {DrawdownPct, TargetPct} \subseteq 0..100

VARIABLES
  kind,      \* which class loop.paper is an instance of
  mark,      \* _marks[pair], NoLevel before the first price
  opened,    \* positions opened, in order: [order, entry, units, open]
  purse,     \* [balance, peak, dayPnl, day]
  verdict,   \* "active", or why the account is halted
  today,     \* the calendar
  armed,     \* the kill switch
  loop,      \* the loop's call of the broker: idle, or suspended in _fetch_price
  caller,    \* the HTTP request's: idle, or what is left of its closes
  settled,   \* history: units settled, per position
  lost       \* history: realized pnl per calendar day

simVars == <<kind, mark, opened, purse, verdict, today, armed, loop, caller, settled, lost>>

Kinds == {"paper", "cft_sim"}
Days == 0..MaxDays
NoDay == MaxDays + 1     \* _current_day before the first order or settle
All == 0                 \* lot_size None
SimIdle == [op |-> "idle"]
Fills == 1..MaxFills
OpenIds == {i \in DOMAIN opened : opened[i].open}

SimTypeOK ==
  /\ kind \in Kinds /\ mark \in Prices \union {NoLevel} /\ armed \in BOOLEAN
  /\ DOMAIN opened \subseteq Fills /\ DOMAIN settled = DOMAIN opened
  /\ \A i \in DOMAIN opened : opened[i].units \in Nat \ {0} /\ opened[i].open \in BOOLEAN
  /\ purse.day \in Days \union {NoDay} /\ today \in Days
  /\ verdict \in {"active", "daily_loss_limit", "max_drawdown", "profit_target_reached"}
  /\ loop.op \in {"idle", "place", "close"} /\ caller.op \in {"idle", "close", "close_all"}

SimInit ==
  /\ kind \in Kinds
  /\ mark = NoLevel /\ opened = <<>> /\ settled = <<>> /\ armed = FALSE
  /\ purse = [balance |-> StartingBalance, peak |-> StartingBalance, dayPnl |-> 0, day |-> NoDay]
  /\ verdict = "active" /\ today = 0 /\ lost = [d \in Days |-> 0]
  /\ loop = SimIdle /\ caller = SimIdle

(***************************************************************************)
(* The rule engine, as a function of a state of the broker                 *)
(* [kind, mark, opened, purse, verdict, settled, lost].                    *)
(***************************************************************************)
Book == [kind |-> kind, mark |-> mark, opened |-> opened, purse |-> purse, verdict |-> verdict,
         settled |-> settled, lost |-> lost]

Install(b) ==
  /\ mark' = b.mark /\ opened' = b.opened /\ purse' = b.purse /\ verdict' = b.verdict
  /\ settled' = b.settled /\ lost' = b.lost
  /\ UNCHANGED kind

Pnl(p, price, units) == p.order.side * (price - p.entry) * units

\* _unrealized; at most two positions are open, so the sum is written out by id.
Unrealized(b) ==
  LET upnl(i) == IF i \in DOMAIN b.opened /\ b.opened[i].open
                 THEN Pnl(b.opened[i], b.mark, b.opened[i].units) ELSE 0
      sum[n \in 0..MaxFills] == IF n = 0 THEN 0 ELSE upnl(n) + sum[n - 1]
  IN  sum[MaxFills]

Equity(b) == b.purse.balance + Unrealized(b)
AtFloor(b, amount) == amount * 100 <= b.purse.peak * (100 - DrawdownPct)
AtTarget(amount) == amount * 100 >= StartingBalance * (100 + TargetPct)

\* _roll_day.
RollDay(b, day) ==
  IF b.kind = "paper" \/ b.purse.day = day THEN b
  ELSE [b EXCEPT !.purse.day = day,
                 !.purse.dayPnl = IF b.purse.day = NoDay THEN @ ELSE 0]

\* _evaluate_rules.
EvaluateRules(b) ==
  LET e   == Equity(b)
      top == IF e > b.purse.peak THEN [b EXCEPT !.purse.peak = e] ELSE b
  IN  IF b.kind = "paper" THEN b
      ELSE IF b.verdict # "active" THEN top
      ELSE IF top.purse.dayPnl <= -DailyLossAmount THEN [top EXCEPT !.verdict = "daily_loss_limit"]
      ELSE IF AtFloor(top, e) THEN [top EXCEPT !.verdict = "max_drawdown"]
      ELSE IF AtTarget(e) THEN [top EXCEPT !.verdict = "profit_target_reached"]
      ELSE top

\* Mutant: a partial close settles the position and leaves it open as it was.
SettleWhole(b, i, price, lot) ==
  LET p      == b.opened[i]
      closed == IF lot = All \/ lot > p.units THEN p.units ELSE lot
      pnl    == Pnl(p, price, closed)
  IN  EvaluateRules([RollDay(b, today) EXCEPT
        !.purse.balance = @ + pnl, !.purse.dayPnl = @ + pnl,
        !.opened[i].open = p.open /\ closed < p.units,
        !.settled[i] = @ + closed, !.lost[today] = @ + pnl])

\* _settle: the object the caller holds is settled, in the book or not.
Settle(b, i, price, lot) ==
  LET p      == b.opened[i]
      closed == IF lot = All \/ lot > p.units THEN p.units ELSE lot
      pnl    == Pnl(p, price, closed)
  IN  EvaluateRules([RollDay(b, today) EXCEPT
        !.purse.balance = @ + pnl, !.purse.dayPnl = @ + pnl,
        !.opened[i].open = p.open /\ closed < p.units,
        !.opened[i].units = IF closed < p.units THEN p.units - closed ELSE @,
        !.settled[i] = @ + closed, !.lost[today] = @ + pnl])

\* The level a price reaches: the stop before the target.
Reached(p, price) ==
  LET past(level) == level # NoLevel /\ p.order.side * price <= p.order.side * level
      beyond(level) == level # NoLevel /\ p.order.side * price >= p.order.side * level
  IN  IF past(p.order.sl) THEN p.order.sl
      ELSE IF beyond(p.order.tp) THEN p.order.tp ELSE NoLevel

\* on_tick: every open position in turn, then the rules on the floating equity.
OnTick(price) ==
  LET hit(b, i) == i \in DOMAIN b.opened /\ b.opened[i].open
                   /\ Reached(b.opened[i], price) # NoLevel
      swept[n \in 0..MaxFills] ==
        IF n = 0 THEN [Book EXCEPT !.mark = price]
        ELSE IF hit(swept[n - 1], n)
             THEN Settle(swept[n - 1], n, Reached(opened[n], price), All)
             ELSE swept[n - 1]
  IN  EvaluateRules(swept[MaxFills])

(***************************************************************************)
(* The loop's task: a tick, then a partial or an order.                    *)
(***************************************************************************)
Tick ==
  /\ loop = SimIdle
  /\ \E price \in Prices : Install(OnTick(price))
  /\ UNCHANGED <<today, armed, loop, caller>>

\* place_order up to its await: the day is rolled, then direction and halt are
\* asked.  A refusal answers at once; the paper account has only the direction's.
PlaceOrder(order) ==
  /\ loop = SimIdle /\ mark # NoLevel /\ Cardinality(DOMAIN opened) < MaxFills
  /\ LET b == RollDay(Book, today)
     IN  /\ Install(b)
         /\ loop' \in {IF b.verdict # "active" THEN SimIdle ELSE [op |-> "place", order |-> order],
                       SimIdle}  \* DirectionPolicy.refusal
  /\ UNCHANGED <<today, armed, caller>>

\* Mutant: the pre-trade check is taken to repeat the one made before the await.
WorstCaseUnchecked(b, order, fill) == ~armed

\* What is asked after the last suspension: the kill switch, then whether the
\* order's worst case would breach a limit.  The halt is not asked again.
Accepts(b, order, fill) ==
  LET worst == IF order.sl = NoLevel THEN 0
               ELSE (IF fill > order.sl THEN fill - order.sl ELSE order.sl - fill) * order.units
  IN  /\ ~armed
      /\ b.kind = "paper" \/ /\ b.purse.dayPnl - worst > -DailyLossAmount
                             /\ ~AtFloor(b, Equity(b) - worst)

Fill(order, price) ==
  LET b == [Book EXCEPT !.mark = price]
      i == Cardinality(DOMAIN opened) + 1
      p == [order |-> order, entry |-> price, units |-> order.units, open |-> TRUE]
  IN  IF Accepts(b, order, price)
      THEN [b EXCEPT !.opened = [j \in 1..i |-> IF j = i THEN p ELSE opened[j]],
                     !.settled = [j \in 1..i |-> IF j = i THEN 0 ELSE settled[j]]]
      ELSE b

\* The prices _fetch_price (awaited) and _price (the mark) may answer.
Answers == IF kind = "paper" THEN {mark} ELSE Prices

PlaceResumes ==
  /\ loop.op = "place"
  /\ \/ \E price \in Answers : Install(Fill(loop.order, price))
     \/ kind = "cft_sim" /\ Install(Book)  \* the price source raised
  /\ loop' = SimIdle
  /\ UNCHANGED <<today, armed, caller>>

\* _take_partials: the position is found open, part of it is closed.
TakePartial ==
  /\ loop = SimIdle
  /\ \E i \in OpenIds : \E lot \in 1..(opened[i].units - 1) :
       loop' = [op |-> "close", id |-> i, lot |-> lot]
  /\ UNCHANGED <<kind, mark, opened, purse, verdict, today, armed, caller, settled, lost>>

PartialResumes ==
  /\ loop.op = "close"
  /\ \/ \E price \in Answers : Install(Settle([Book EXCEPT !.mark = price], loop.id, price, loop.lot))
     \/ kind = "cft_sim" /\ Install(Book)
  /\ loop' = SimIdle
  /\ UNCHANGED <<today, armed, caller>>

(***************************************************************************)
(* The HTTP side: one position by id, or the kill switch's sweep.          *)
(***************************************************************************)
ClosePosition ==
  /\ caller = SimIdle
  /\ \E i \in OpenIds : caller' = [op |-> "close", todo |-> {i}]
  /\ UNCHANGED <<kind, mark, opened, purse, verdict, today, armed, loop, settled, lost>>

KillSwitchSweeps ==
  /\ caller = SimIdle /\ ~armed
  /\ armed' = TRUE
  /\ caller' = IF OpenIds = {} THEN SimIdle ELSE [op |-> "close_all", todo |-> OpenIds]
  /\ UNCHANGED <<kind, mark, opened, purse, verdict, today, loop, settled, lost>>

\* The next price arrives and the position captured before the await is settled.
CloseResumes ==
  /\ caller # SimIdle
  /\ \E i \in caller.todo, price \in Answers :
       /\ Install(Settle([Book EXCEPT !.mark = price], i, price, All))
       /\ caller' = IF caller.todo = {i} THEN SimIdle ELSE [caller EXCEPT !.todo = @ \ {i}]
  /\ UNCHANGED <<today, armed, loop>>

\* The price source raises: what is left of the sweep is not closed.
CloseRaises ==
  /\ caller # SimIdle /\ kind = "cft_sim"
  /\ caller' = SimIdle
  /\ UNCHANGED <<kind, mark, opened, purse, verdict, today, armed, loop, settled, lost>>

Disarm ==
  /\ armed /\ caller = SimIdle /\ armed' = FALSE
  /\ UNCHANGED <<kind, mark, opened, purse, verdict, today, loop, caller, settled, lost>>

Midnight ==
  /\ today < MaxDays /\ today' = today + 1
  /\ UNCHANGED <<kind, mark, opened, purse, verdict, armed, loop, caller, settled, lost>>

\* A paper call runs to its end before anything else does.
InCall == kind = "paper" /\ (loop # SimIdle \/ caller # SimIdle)
LoopStarts == Tick \/ TakePartial \/ \E order \in SimOrders : PlaceOrder(order)
CallEnds == PlaceResumes \/ PartialResumes \/ CloseResumes \/ CloseRaises
SimNext ==
  \/ ~InCall /\ (LoopStarts \/ ClosePosition \/ KillSwitchSweeps \/ Disarm \/ Midnight)
  \/ CallEnds

SimSpec == SimInit /\ [][SimNext]_simVars

(***************************************************************************)
(* Properties.                                                             *)
(***************************************************************************)
Filled == DOMAIN opened' # DOMAIN opened

\* An armed switch is obeyed at the send, whatever was awaited since the order
\* was checked.
ArmedNeverFills == [][Filled => ~armed]_simVars

\* A challenge account takes no position on a day whose realized loss has
\* reached the limit, though the halt is read before the price is awaited and
\* the day may turn or a stop may settle meanwhile.
NoFillPastDailyLoss == [][Filled /\ kind = "cft_sim" => lost[today] > -DailyLossAmount]_simVars

\* The paper account never settles more than it filled, partials included.
PaperSettlesOnce ==
  kind = "paper" => \A i \in DOMAIN opened : settled[i] <= opened[i].order.units

===============================================================================
