---------------------------- MODULE TradingProofs ----------------------------
(***************************************************************************)
(* Theorems about money, for any prices, orders and parameters: a          *)
(* simulated position pays once, no challenge takes a position on a day    *)
(* past its loss limit, an armed switch is obeyed, the live step enters    *)
(* where the backtest does, no banked trade of the backtest loses, the     *)
(* live loop and the model of exits end a trade alike, a layout is taken   *)
(* when its panels back it and paid for when it is taken, the stop of a    *)
(* setup answers its target, and what the rules read from closed bars is   *)
(* read again from every longer series.                                    *)
(* The tick of a venue settles position by position: what it computes is a *)
(* fold over the positions, whose existence and whose properties are       *)
(* proved by induction on the number of positions it has passed.           *)
(***************************************************************************)
EXTENDS SimVenue, EntryStep, StopLadder, SumLemmas

\* What the rules may say of an account, and what a mark may be.
Verdicts == {"active", "daily_loss_limit", "max_drawdown", "profit_target_reached"}
Levels == Prices \union {NoLevel}

\* A book is a record of these fields, and so is its purse.
Shaped(b) ==
  /\ b.verdict \in Verdicts
  /\ b = [kind |-> b.kind, mark |-> b.mark, opened |-> b.opened, purse |-> b.purse,
          verdict |-> b.verdict, settled |-> b.settled, lost |-> b.lost]
  /\ b.purse = [balance |-> b.purse.balance, peak |-> b.purse.peak, dayPnl |-> b.purse.dayPnl,
                day |-> b.purse.day]

\* A position as the venue holds it.
Positions == [order : SimOrders, entry : Int, units : Nat \ {0}, open : BOOLEAN]

\* What was filled and settled is counted per position.
Dealt(b) ==
  /\ b.opened \in [DOMAIN b.opened -> Positions] /\ b.settled \in [DOMAIN b.opened -> Nat]

\* The realized loss the rules look at is the one of the day that was rolled to; the days
\* after it have none.
DayKept(b) ==
  /\ b.lost \in [Days -> Int] /\ b.purse.dayPnl \in Int /\ b.purse.day \in Days \union {NoDay}
  /\ b.kind = "cft_sim" =>
       /\ b.purse.day = NoDay => b.purse.dayPnl = 0 /\ \A d \in Days : b.lost[d] = 0
       /\ b.purse.day # NoDay => /\ b.purse.day <= today /\ b.lost[b.purse.day] = b.purse.dayPnl
                                 /\ \A d \in Days : d > b.purse.day => b.lost[d] = 0

\* A book the venue can be in.
Sound(b) == Shaped(b) /\ Dealt(b) /\ DayKept(b)

\* What is settled and what is still open is no more than was filled.
PaidOnce(b) ==
  \A i \in DOMAIN b.opened :
    b.settled[i] + (IF b.opened[i].open THEN b.opened[i].units ELSE 0) <= b.opened[i].order.units

\* The orders have numbers for their levels.
LEMMA OrderFacts ==
  /\ \A o \in SimOrders : o.side \in {1, -1} /\ o.units \in Nat \ {0} /\ o.sl \in Int /\ o.tp \in Int
  /\ Prices \subseteq Int /\ NoLevel \in Int /\ Levels \subseteq Int /\ MaxDays \in Nat /\ MaxFills \in Nat
  /\ DailyLossAmount \in Nat \ {0} /\ NoDay \notin Days /\ Days \subseteq Nat
<1>1. \A o \in SimOrders : o \in [side : {1, -1}, units : Nat \ {0}, sl : Prices \union {NoLevel}, tp : Prices \union {NoLevel}]
  BY SimAssumption
<1>2. Prices \subseteq Int /\ NoLevel \in Int /\ Levels \subseteq Int
  BY SimAssumption DEF NoLevel, Levels
<1>3. /\ MaxDays \in Nat /\ MaxFills \in Nat /\ DailyLossAmount \in Nat \ {0}
      /\ NoDay \notin Days /\ Days \subseteq Nat
  BY SimAssumption DEF NoDay, Days
<1>4. ASSUME NEW o \in SimOrders PROVE o.side \in {1, -1} /\ o.units \in Nat \ {0} /\ o.sl \in Int /\ o.tp \in Int
  <2>1. o.side \in {1, -1} /\ o.units \in Nat \ {0} /\ o.sl \in Prices \union {NoLevel} /\ o.tp \in Prices \union {NoLevel}
    BY <1>1
  <2> QED BY <1>2, <2>1
<1> QED BY <1>2, <1>3, <1>4

\* The fields of a book a rolled day leaves alone, and what it makes of the others.
LEMMA RollKeeps ==
  ASSUME NEW b, Sound(b), today \in Days
  PROVE  LET r == RollDay(b, today)
         IN  /\ Sound(r) /\ r.kind = b.kind /\ r.opened = b.opened /\ r.settled = b.settled
             /\ r.mark = b.mark /\ r.lost = b.lost
             /\ b.kind = "cft_sim" => r.purse.day = today /\ r.purse.dayPnl = r.lost[today]
             /\ b.kind = "paper" => r = b
<1> DEFINE r == RollDay(b, today)
           pnl == IF b.purse.day = NoDay THEN b.purse.dayPnl ELSE 0
<1>1. CASE b.kind = "paper" \/ b.purse.day = today
  <2>1. r = b
    BY <1>1 DEF RollDay
  <2> QED BY <1>1, <2>1, OrderFacts DEF Sound, DayKept
<1>2. CASE b.kind # "paper" /\ b.purse.day # today
  <2>1. r = [b EXCEPT !.purse = [b.purse EXCEPT !.day = today, !.dayPnl = pnl]]
    BY <1>2, Zenon DEF RollDay
  <2>2. r = [kind |-> b.kind, mark |-> b.mark, opened |-> b.opened,
             purse |-> [balance |-> b.purse.balance, peak |-> b.purse.peak, dayPnl |-> pnl, day |-> today],
             verdict |-> b.verdict, settled |-> b.settled, lost |-> b.lost]
    BY <2>1 DEF Sound, Shaped
  <2> HIDE DEF r
  <2>3. Shaped(r) /\ Dealt(r)
    BY <2>2 DEF Sound, Shaped, Dealt
  <2>4. b.kind = "cft_sim" => pnl = 0 /\ b.lost[today] = 0 /\ \A d \in Days : d > today => b.lost[d] = 0
    BY <1>2, OrderFacts DEF Sound, DayKept
  <2>5. pnl \in Int /\ today <= today
    BY OrderFacts DEF Sound, DayKept
  <2> HIDE DEF pnl
  <2>6. DayKept(r)
    BY <2>2, <2>4, <2>5, OrderFacts DEF Sound, DayKept
  <2>7. /\ r.kind = b.kind /\ r.opened = b.opened /\ r.settled = b.settled /\ r.mark = b.mark
        /\ r.lost = b.lost /\ r.purse.day = today /\ r.purse.dayPnl = pnl
    BY <2>2
  <2> QED BY <1>2, <2>3, <2>4, <2>6, <2>7 DEF Sound, r
<1> QED BY <1>1, <1>2

\* The rules move the peak and the verdict.
LEMMA RulesKeep ==
  ASSUME NEW b, Sound(b)
  PROVE  LET e == EvaluateRules(b)
         IN  /\ Sound(e) /\ e.kind = b.kind /\ e.opened = b.opened /\ e.settled = b.settled
             /\ e.mark = b.mark /\ e.lost = b.lost
<1> DEFINE e == EvaluateRules(b)
           Other(peak, v) == [kind |-> b.kind, mark |-> b.mark, opened |-> b.opened,
                              purse |-> [balance |-> b.purse.balance, peak |-> peak,
                                         dayPnl |-> b.purse.dayPnl, day |-> b.purse.day],
                              verdict |-> v, settled |-> b.settled, lost |-> b.lost]
<1>1. ASSUME NEW peak, NEW v
      PROVE  [b EXCEPT !.purse.peak = peak] = Other(peak, b.verdict) /\ [Other(peak, b.verdict) EXCEPT !.verdict = v] = Other(peak, v)
  BY DEF Sound, Shaped
<1>2. b = Other(b.purse.peak, b.verdict)
  BY DEF Sound, Shaped
<1>3. \E peak : \E v \in Verdicts : e = Other(peak, v)
  <2> DEFINE top == IF Equity(b) > b.purse.peak THEN [b EXCEPT !.purse.peak = Equity(b)] ELSE b
  <2>1. \E peak : top = Other(peak, b.verdict)
    BY <1>1, <1>2
  <2>2. \E v \in Verdicts : e = top \/ e = b \/ e = [top EXCEPT !.verdict = v]
    <3>1. \/ e = top \/ e = b
          \/ \E v \in {"daily_loss_limit", "max_drawdown", "profit_target_reached"} :
                e = [top EXCEPT !.verdict = v]
      BY Zenon DEF EvaluateRules
    <3>2. {"daily_loss_limit", "max_drawdown", "profit_target_reached"} \subseteq Verdicts
      BY DEF Verdicts
    <3> QED BY <3>1, <3>2, Zenon
  <2>3. PICK peak : top = Other(peak, b.verdict)
    BY <2>1
  <2>4. PICK v \in Verdicts : e = top \/ e = b \/ e = [top EXCEPT !.verdict = v]
    BY <2>2
  <2>6. b.verdict \in Verdicts
    BY DEF Sound, Shaped
  <2>5. [top EXCEPT !.verdict = v] = Other(peak, v)
    BY <1>1, <2>3
  <2> HIDE DEF top, e, Other
  <2> QED BY <1>2, <2>3, <2>4, <2>5, <2>6
<1>4. ASSUME NEW peak, NEW v \in Verdicts PROVE Sound(Other(peak, v))
  BY DEF Sound, Shaped, Dealt, DayKept
<1>0. PICK peak : \E v \in Verdicts : e = Other(peak, v)
  BY <1>3
<1>5. PICK v \in Verdicts : e = Other(peak, v)
  BY <1>0
<1>6. /\ e.kind = b.kind /\ e.opened = b.opened /\ e.settled = b.settled
      /\ e.mark = b.mark /\ e.lost = b.lost
  BY <1>5
<1>7. Sound(e)
  BY <1>4, <1>5
<1> QED BY <1>6, <1>7

\* To settle a part of a position, or what is left of it: the day's loss takes on what was
\* realized, and an open position pays once.
LEMMA SettleKeeps ==
  ASSUME NEW b, Sound(b), today \in Days, NEW i \in DOMAIN b.opened, NEW price \in Int, NEW lot \in Nat
  PROVE  LET s == Settle(b, i, price, lot)
         IN  /\ Sound(s) /\ s.kind = b.kind /\ s.mark = b.mark /\ DOMAIN s.opened = DOMAIN b.opened
             /\ \A j \in DOMAIN b.opened \ {i} : s.opened[j] = b.opened[j]
             /\ PaidOnce(b) /\ b.opened[i].open => PaidOnce(s)
<1> DEFINE p == b.opened[i]
           closed == IF lot = All \/ lot > p.units THEN p.units ELSE lot
           pnl == Pnl(p, price, closed)
           r == RollDay(b, today)
           left == IF closed < p.units THEN p.units - closed ELSE p.units
           open == p.open /\ closed < p.units
<1>1. p \in Positions /\ p.units \in Nat \ {0} /\ p.entry \in Int /\ p.open \in BOOLEAN /\ p.order \in SimOrders
  BY DEF Sound, Dealt, Positions
<1>2. closed \in Nat /\ closed <= p.units
  BY <1>1 DEF All
<1>3. pnl \in Int
  <2>1. p.order.side \in Int
    BY <1>1, OrderFacts
  <2>2. price - p.entry \in Int
    BY <1>1
  <2>3. p.order.side * (price - p.entry) \in Int
    BY <2>1, <2>2
  <2> QED BY <1>2, <2>3 DEF Pnl
<1>4. /\ Sound(r) /\ r.kind = b.kind /\ r.opened = b.opened /\ r.settled = b.settled
      /\ r.mark = b.mark /\ r.lost = b.lost
      /\ b.kind = "cft_sim" => r.purse.day = today /\ r.purse.dayPnl = r.lost[today]
  BY RollKeeps
<1> HIDE DEF r, closed, pnl
<1>5. PICK t : t = [r EXCEPT !.purse.balance = @ + pnl, !.purse.dayPnl = @ + pnl,
                            !.opened[i].open = open,
                            !.opened[i].units = IF closed < p.units THEN p.units - closed ELSE @,
                            !.settled[i] = @ + closed, !.lost[today] = @ + pnl]
  OBVIOUS
<1>6. Settle(b, i, price, lot) = EvaluateRules(t)
  BY <1>5, Zenon DEF Settle, r, closed, pnl
<1> HIDE DEF left, open
<1>7. PICK q : q = [p EXCEPT !.open = open, !.units = left]
  OBVIOUS
<1>8. q = [order |-> p.order, entry |-> p.entry, units |-> left, open |-> open]
  <2>1. p = [order |-> p.order, entry |-> p.entry, units |-> p.units, open |-> p.open]
    BY <1>1 DEF Positions
  <2> HIDE DEF p
  <2> QED BY <1>7, <2>1
<1>9. t = [kind |-> b.kind, mark |-> b.mark, opened |-> [b.opened EXCEPT ![i] = q],
           purse |-> [balance |-> r.purse.balance + pnl, peak |-> r.purse.peak,
                      dayPnl |-> r.purse.dayPnl + pnl, day |-> r.purse.day],
           verdict |-> r.verdict, settled |-> [b.settled EXCEPT ![i] = @ + closed],
           lost |-> [b.lost EXCEPT ![today] = @ + pnl]]
  <2>1. /\ r = [kind |-> b.kind, mark |-> b.mark, opened |-> b.opened, purse |-> r.purse, verdict |-> r.verdict,
                settled |-> b.settled, lost |-> b.lost]
        /\ r.purse = [balance |-> r.purse.balance, peak |-> r.purse.peak, dayPnl |-> r.purse.dayPnl,
                      day |-> r.purse.day]
    BY <1>4 DEF Sound, Shaped
  <2>2. PICK moved : moved = [r.purse EXCEPT !.balance = @ + pnl, !.dayPnl = @ + pnl]
    OBVIOUS
  <2>3. moved = [balance |-> r.purse.balance + pnl, peak |-> r.purse.peak,
                 dayPnl |-> r.purse.dayPnl + pnl, day |-> r.purse.day]
    BY <2>1, <2>2
  <2>4. PICK opens : opens = [b.opened EXCEPT ![i].open = open, ![i].units = left]
    OBVIOUS
  <2>5. opens = [b.opened EXCEPT ![i] = q]
    BY <1>7, <2>4 DEF Sound, Dealt
  <2> HIDE DEF p
  <2>6. PICK t1 : t1 = [r EXCEPT !.purse.balance = @ + pnl, !.purse.dayPnl = @ + pnl]
    OBVIOUS
  <2>7. t1 = [kind |-> b.kind, mark |-> b.mark, opened |-> b.opened, purse |-> moved, verdict |-> r.verdict,
              settled |-> b.settled, lost |-> b.lost]
    <3>1. t1 = [r EXCEPT !.purse = moved]
      BY <2>2, <2>6
    <3> QED BY <2>1, <3>1
  <2>8. PICK t2 : t2 = [t1 EXCEPT !.opened[i].open = open, !.opened[i].units = left]
    OBVIOUS
  <2>9. t2 = [kind |-> b.kind, mark |-> b.mark, opened |-> opens, purse |-> moved, verdict |-> r.verdict,
              settled |-> b.settled, lost |-> b.lost]
    BY <2>4, <2>7, <2>8
  <2>10. t = [t2 EXCEPT !.settled[i] = @ + closed, !.lost[today] = @ + pnl]
    <3>1. left = IF closed < p.units THEN p.units - closed ELSE r.opened[i].units
      BY <1>4 DEF left, p
    <3>2. t2.settled = r.settled /\ t2.lost = r.lost
      BY <2>1, <2>9
    <3> QED BY <1>5, <2>6, <2>8, <3>1, <3>2
  <2>11. t = [kind |-> b.kind, mark |-> b.mark, opened |-> opens, purse |-> moved,
             verdict |-> r.verdict, settled |-> [b.settled EXCEPT ![i] = @ + closed],
             lost |-> [b.lost EXCEPT ![today] = @ + pnl]]
    BY <2>9, <2>10
  <2> QED BY <2>3, <2>5, <2>11
<1>10. q \in Positions /\ q.order = p.order
  <2>1. open \in BOOLEAN
    BY DEF open
  <2>2. left \in Nat \ {0}
    BY <1>1, <1>2 DEF left
  <2> QED BY <1>1, <1>8, <2>1, <2>2 DEF Positions
<1>11. Dealt(t)
  <2>1. [b.opened EXCEPT ![i] = q] \in [DOMAIN b.opened -> Positions]
    BY <1>10 DEF Sound, Dealt
  <2>2. [b.settled EXCEPT ![i] = @ + closed] \in [DOMAIN b.opened -> Nat]
    BY <1>2 DEF Sound, Dealt
  <2> QED BY <1>9, <2>1, <2>2 DEF Dealt
<1>12. Shaped(t)
  BY <1>4, <1>9 DEF Sound, Shaped
<1>13. DayKept(t)
  <2>1. /\ b.lost \in [Days -> Int] /\ r.purse.dayPnl \in Int /\ r.purse.day \in Days \union {NoDay}
        /\ b.kind = "cft_sim" => /\ r.purse.day = today /\ r.purse.dayPnl = b.lost[today]
                                 /\ \A d \in Days : d > today => b.lost[d] = 0
    BY <1>4, OrderFacts DEF Sound, DayKept
  <2>2. /\ t.lost = [b.lost EXCEPT ![today] = @ + pnl] /\ t.purse.dayPnl = r.purse.dayPnl + pnl
        /\ t.purse.day = r.purse.day /\ t.kind = b.kind
    BY <1>9
  <2> QED BY <1>3, <2>1, <2>2, OrderFacts DEF DayKept
<1>14. /\ t.kind = b.kind /\ t.mark = b.mark /\ DOMAIN t.opened = DOMAIN b.opened
       /\ \A j \in DOMAIN b.opened \ {i} : t.opened[j] = b.opened[j] /\ t.settled[j] = b.settled[j]
       /\ t.opened[i] = q /\ t.settled[i] = b.settled[i] + closed
  BY <1>9 DEF Sound, Dealt
<1>15. PaidOnce(b) /\ p.open => PaidOnce(t)
  <2> SUFFICES ASSUME PaidOnce(b), p.open, NEW j \in DOMAIN b.opened
               PROVE  t.settled[j] + (IF t.opened[j].open THEN t.opened[j].units ELSE 0) <= t.opened[j].order.units
    BY <1>14 DEF PaidOnce
  <2>1. CASE j # i
    BY <1>14, <2>1 DEF PaidOnce
  <2>2. CASE j = i
    <3>1. b.settled[i] + p.units <= p.order.units /\ b.settled[i] \in Nat /\ p.order.units \in Nat
      BY <1>1, OrderFacts DEF PaidOnce, Sound, Dealt
    <3>2. q.open => q.units = p.units - closed
      BY <1>8 DEF open, left
    <3>3. t.settled[i] + (IF q.open THEN p.units - closed ELSE 0) <= p.order.units
      BY <1>1, <1>2, <1>14, <3>1
    <3> QED BY <1>10, <1>14, <2>2, <3>2, <3>3
  <2> QED BY <2>1, <2>2
<1>16. Sound(t)
  BY <1>11, <1>12, <1>13 DEF Sound
<1> DEFINE e == EvaluateRules(t)
<1>17. /\ Sound(e) /\ e.kind = t.kind /\ e.opened = t.opened /\ e.settled = t.settled /\ e.mark = t.mark
  BY <1>16, RulesKeep
<1>18. Settle(b, i, price, lot) = e
  BY <1>6
<1> HIDE DEF e
<1>19. PaidOnce(t) => PaidOnce(e)
  BY <1>17 DEF PaidOnce
<1> QED BY <1>14, <1>15, <1>17, <1>18, <1>19

\* What on_tick folds over the positions.
Hit(b, n, price) == n \in DOMAIN b.opened /\ b.opened[n].open /\ Reached(b.opened[n], price) # NoLevel
SweepStep(b, n, price) == IF Hit(b, n, price) THEN Settle(b, n, Reached(opened[n], price), All) ELSE b

\* g is the book after each of the first m positions.
IsSwept(g, m, price) ==
  g = [n \in 0..m |-> IF n = 0 THEN [Book EXCEPT !.mark = price] ELSE SweepStep(g[n - 1], n, price)]

\* on_tick is this fold, and the rules after it.
LEMMA TickIsSweep ==
  ASSUME NEW price
  PROVE  OnTick(price) = EvaluateRules((CHOOSE g : IsSwept(g, MaxFills, price))[MaxFills])
BY Zenon DEF OnTick, IsSwept, SweepStep, Hit

\* There is such a fold, for any number of positions.
LEMMA SweepExists == ASSUME NEW price PROVE \A m \in Nat : \E g : IsSwept(g, m, price)
<1> DEFINE P == {m \in Nat : \E g : IsSwept(g, m, price)}
<1>1. 0 \in P
  <2>1. IsSwept([n \in 0..0 |-> [Book EXCEPT !.mark = price]], 0, price)
    BY DEF IsSwept
  <2> QED BY <2>1
<1>2. ASSUME NEW m \in P PROVE m + 1 \in P
  <2>1. PICK g : IsSwept(g, m, price)
    OBVIOUS
  <2> DEFINE h == [n \in 0..(m + 1) |-> IF n = m + 1 THEN SweepStep(g[m], m + 1, price) ELSE g[n]]
  <2>2. \A n \in 0..m : g[n] = IF n = 0 THEN [Book EXCEPT !.mark = price] ELSE SweepStep(g[n - 1], n, price)
    BY <2>1 DEF IsSwept
  <2>3. ASSUME NEW n \in 0..(m + 1)
        PROVE  h[n] = IF n = 0 THEN [Book EXCEPT !.mark = price] ELSE SweepStep(h[n - 1], n, price)
    <3>1. CASE n = 0
      BY <2>2, <3>1
    <3>2. CASE n # 0 /\ n # m + 1
      <4>1. n \in 0..m /\ n - 1 \in 0..m /\ n - 1 # m + 1
        BY <3>2
      <4>2. h[n] = g[n] /\ h[n - 1] = g[n - 1]
        BY <4>1
      <4> QED BY <2>2, <3>2, <4>1, <4>2
    <3>3. CASE n = m + 1
      <4>1. h[n - 1] = g[m] /\ h[n] = SweepStep(g[m], m + 1, price) /\ n # 0
        BY <3>3
      <4> QED BY <3>3, <4>1
    <3> QED BY <3>1, <3>2, <3>3
  <2>4. IsSwept(h, m + 1, price)
    BY <2>3 DEF IsSwept
  <2> QED BY <2>4
<1> HIDE DEF P
<1>3. P = Nat
  BY <1>1, <1>2, Naturals DEF P
<1> QED BY <1>3 DEF P

\* The level that is reached is one of the order's, or none.
LEMMA ReachedIsInt == ASSUME NEW p \in Positions, NEW price PROVE Reached(p, price) \in Int
<1>1. p.order \in SimOrders
  BY DEF Positions
<1>2. Reached(p, price) \in {p.order.sl, p.order.tp, NoLevel}
  BY DEF Reached
<1> QED BY <1>1, <1>2, OrderFacts

\* A tick settles what it settles once, on the day it comes.
LEMMA TickKeeps ==
  ASSUME Sound(Book), today \in Days, NEW price \in Int
  PROVE  LET t == OnTick(price)
         IN  /\ Sound(t) /\ t.kind = kind /\ t.mark = price /\ DOMAIN t.opened = DOMAIN opened
             /\ PaidOnce(Book) => PaidOnce(t)
<1> DEFINE Fine(b) == /\ Sound(b) /\ b.kind = kind /\ b.mark = price /\ DOMAIN b.opened = DOMAIN opened
                      /\ PaidOnce(Book) => PaidOnce(b)
           g == CHOOSE g : IsSwept(g, MaxFills, price)
           P == {m \in Nat : m <= MaxFills => Fine(g[m])}
<1>0. MaxFills \in Nat
  BY OrderFacts
<1>1. IsSwept(g, MaxFills, price)
  BY <1>0, SweepExists
<1> HIDE DEF g
<1>2. \A n \in 0..MaxFills : g[n] = IF n = 0 THEN [Book EXCEPT !.mark = price] ELSE SweepStep(g[n - 1], n, price)
  BY <1>1 DEF IsSwept
<1>3. 0 \in P
  <2> DEFINE b == [kind |-> kind, mark |-> price, opened |-> opened, purse |-> purse, verdict |-> verdict,
                   settled |-> settled, lost |-> lost]
  <2>1. g[0] = b
    BY <1>0, <1>2 DEF Book
  <2>2. Fine(b)
    BY DEF Book, Sound, Shaped, Dealt, DayKept, PaidOnce
  <2> QED BY <2>1, <2>2
<1>4. ASSUME NEW m \in P PROVE m + 1 \in P
  <2> SUFFICES ASSUME m + 1 <= MaxFills PROVE Fine(g[m + 1])
    OBVIOUS
  <2> DEFINE b == g[m]
             n == m + 1
  <2>1. m \in Nat /\ n \in Nat /\ n # 0 /\ n - 1 = m /\ n \in 0..MaxFills /\ Fine(b)
    BY <1>0
  <2>2. g[n] = SweepStep(b, n, price)
    BY <1>2, <2>1
  <2> HIDE DEF b, n
  <2>3. CASE ~Hit(b, n, price)
    BY <2>1, <2>2, <2>3 DEF SweepStep, n
  <2>4. CASE Hit(b, n, price)
    <3>1. n \in DOMAIN b.opened /\ b.opened[n].open
      BY <2>4 DEF Hit
    <3>2. n \in DOMAIN opened /\ opened[n] \in Positions
      BY <2>1, <3>1 DEF Sound, Dealt, Book
    <3>3. Reached(opened[n], price) \in Int /\ All \in Nat
      BY <3>2, ReachedIsInt DEF All
    <3>4. g[n] = Settle(b, n, Reached(opened[n], price), All)
      BY <2>2, <2>4 DEF SweepStep
    <3> HIDE DEF Fine
    <3>5. Fine(g[n])
      BY <2>1, <3>1, <3>3, <3>4, SettleKeeps DEF Fine
    <3> QED BY <3>5 DEF n
  <2> QED BY <2>3, <2>4
<1> HIDE DEF P, Fine
<1>5. P = Nat
  BY <1>3, <1>4, Naturals DEF P
<1>6. Fine(g[MaxFills])
  BY <1>0, <1>5 DEF P
<1> DEFINE e == EvaluateRules(g[MaxFills])
<1>7. /\ Sound(e) /\ e.kind = g[MaxFills].kind /\ e.opened = g[MaxFills].opened
      /\ e.settled = g[MaxFills].settled /\ e.mark = g[MaxFills].mark
  BY <1>6, RulesKeep DEF Fine
<1>8. OnTick(price) = e
  BY TickIsSweep DEF g
<1> HIDE DEF e
<1>9. PaidOnce(g[MaxFills]) => PaidOnce(e)
  BY <1>7 DEF PaidOnce
<1> QED BY <1>6, <1>7, <1>8, <1>9 DEF Fine

\* One more position may be opened; what was asked of it before an await holds after it.
Room == \E n \in 0..MaxFills - 1 : DOMAIN opened = 1..n

\* What a suspended call holds: an order that was asked for, positions of the book.  A paper
\* call holds positions that are still open, since nothing comes between its steps.
LoopHolds ==
  \/ loop = SimIdle
  \/ loop.op = "place" /\ loop.order \in SimOrders /\ Room
  \/ loop.op = "close" /\ loop.id \in DOMAIN opened /\ loop.lot \in Nat
CallerHolds ==
  \/ caller = SimIdle
  \/ /\ caller = [op |-> caller.op, todo |-> caller.todo] /\ caller.todo \subseteq DOMAIN opened
     /\ caller.op \in {"close", "close_all"}
PaperAlone ==
  kind = "paper" =>
    /\ loop = SimIdle \/ caller = SimIdle
    /\ loop.op = "close" => opened[loop.id].open
    /\ caller # SimIdle => \A i \in caller.todo : opened[i].open
CallsKept == LoopHolds /\ CallerHolds /\ PaperAlone

\* The book of the account.
BookKept ==
  /\ Sound(Book) /\ (kind = "paper" => PaidOnce(Book)) /\ mark \in Levels
  /\ \E n \in 0..MaxFills : DOMAIN opened = 1..n

SimInv == kind \in Kinds /\ today \in Days /\ BookKept /\ CallsKept

\* A position is taken with the switch off and, of a challenge, before the day's limit.
Obeys == Filled => ~armed /\ (kind = "cft_sim" => lost[today] > -DailyLossAmount)

\* The book that is installed is the next one.
LEMMA Installed ==
  ASSUME NEW b, Sound(b), b.kind = kind, Install(b), today' = today,
         kind = "paper" => PaidOnce(b), b.mark \in Levels, \E n \in 0..MaxFills : DOMAIN b.opened = 1..n
  PROVE  BookKept' /\ kind' = kind /\ opened' = b.opened
<1>1. /\ kind' = kind /\ mark' = b.mark /\ opened' = b.opened /\ purse' = b.purse /\ verdict' = b.verdict
      /\ settled' = b.settled /\ lost' = b.lost
  BY DEF Install
<1>2. b = [kind |-> b.kind, mark |-> b.mark, opened |-> b.opened, purse |-> b.purse,
           verdict |-> b.verdict, settled |-> b.settled, lost |-> b.lost]
  BY DEF Sound, Shaped
<1>3. Book' = b
  BY <1>1, <1>2 DEF Book
<1>4. Sound(Book)'
  <2>1. Shaped(Book)' /\ Dealt(Book)'
    BY <1>3 DEF Sound, Shaped, Dealt
  <2>2. DayKept(Book)'
    BY <1>3 DEF Sound, DayKept, Days, NoDay
  <2> QED BY <2>1, <2>2 DEF Sound
<1>5. kind' = "paper" => PaidOnce(Book)'
  BY <1>1, <1>3 DEF PaidOnce
<1> QED BY <1>1, <1>4, <1>5 DEF BookKept

\* Nothing of the book moves.
LEMMA BookStays ==
  ASSUME BookKept, UNCHANGED <<kind, mark, opened, purse, verdict, settled, lost>>, today' = today
  PROVE  BookKept' /\ Obeys
<1>1. Book' = Book
  BY DEF Book
<1>2. Sound(Book)' /\ (PaidOnce(Book) => PaidOnce(Book)')
  <2>1. Shaped(Book)' /\ Dealt(Book)' /\ (PaidOnce(Book) => PaidOnce(Book)')
    BY <1>1 DEF BookKept, Sound, Shaped, Dealt, PaidOnce
  <2>2. DayKept(Book)'
    BY <1>1 DEF BookKept, Sound, DayKept, Days, NoDay
  <2> QED BY <2>1, <2>2 DEF Sound
<1> QED BY <1>2 DEF BookKept, Obeys, Filled

\* A tick of the loop.
LEMMA TickStep == ASSUME SimInv, ~InCall, Tick PROVE SimInv' /\ Obeys
<1>1. PICK price \in Prices : Install(OnTick(price))
  BY DEF Tick
<1> DEFINE t == OnTick(price)
<1>2. /\ Sound(t) /\ t.kind = kind /\ t.mark = price /\ DOMAIN t.opened = DOMAIN opened
      /\ PaidOnce(Book) => PaidOnce(t)
  BY OrderFacts, TickKeeps DEF SimInv, BookKept
<1> HIDE DEF t
<1>3. BookKept' /\ kind' = kind /\ opened' = t.opened
  <2>1. price \in Levels /\ today' = today /\ Install(t)
    BY <1>1 DEF Levels, Tick, t
  <2> QED BY <1>2, <2>1, Installed DEF SimInv, BookKept
<1>4. loop' = loop /\ caller' = caller /\ loop = SimIdle /\ today' = today
  BY DEF Tick
<1>5. kind = "paper" => caller = SimIdle
  BY DEF InCall
<1>6. CallsKept'
  BY <1>2, <1>3, <1>4, <1>5 DEF SimInv, CallsKept, LoopHolds, CallerHolds, PaperAlone, SimIdle
<1> QED BY <1>2, <1>3, <1>4, <1>6 DEF SimInv, Obeys, Filled, Days

\* An order up to its await rolls the day.
LEMMA PlaceStep == ASSUME SimInv, ~InCall, NEW order \in SimOrders, PlaceOrder(order) PROVE SimInv' /\ Obeys
<1> DEFINE b == RollDay(Book, today)
<1>1. Install(b) /\ today' = today /\ caller' = caller /\ loop = SimIdle
      /\ loop' \in {[op |-> "place", order |-> order], SimIdle}
  BY DEF PlaceOrder
<1>2. Sound(b) /\ b.kind = kind /\ b.opened = opened /\ b.settled = settled /\ b.mark = mark
  BY RollKeeps DEF SimInv, BookKept, Book
<1> HIDE DEF b
<1>3. kind = "paper" => PaidOnce(b)
  BY <1>2 DEF SimInv, BookKept, PaidOnce, Book
<1>4. BookKept' /\ kind' = kind /\ opened' = opened
  BY <1>1, <1>2, <1>3, Installed DEF SimInv, BookKept
<1>5. kind = "paper" => caller = SimIdle
  BY DEF InCall
<1>7. Room'
  <2>1. PICK n \in 0..MaxFills : DOMAIN opened = 1..n
    BY DEF SimInv, BookKept
  <2>2. Cardinality(DOMAIN opened) = n
    BY <2>1, FS_Interval, OrderFacts
  <2>3. n \in 0..MaxFills - 1
    BY <2>2, OrderFacts DEF PlaceOrder
  <2> QED BY <1>4, <2>1, <2>3 DEF Room
<1>6. CallsKept'
  BY <1>1, <1>4, <1>5, <1>7 DEF SimInv, CallsKept, LoopHolds, CallerHolds, PaperAlone, SimIdle
<1> QED BY <1>1, <1>4, <1>6 DEF SimInv, Obeys, Filled, Days

\* The answer to an order: none, or one more position.
LEMMA FillStep == ASSUME SimInv, PlaceResumes PROVE SimInv' /\ Obeys
<1>0. /\ loop.op = "place" /\ loop.order \in SimOrders /\ loop # SimIdle
      /\ loop' = SimIdle /\ today' = today /\ armed' = armed /\ caller' = caller
  BY DEF PlaceResumes, SimInv, CallsKept, LoopHolds, CallerHolds, PaperAlone, SimIdle
<1>1. PICK n \in Nat : DOMAIN opened = 1..n /\ n + 1 \in 0..MaxFills
  <2>1. PICK n \in 0..MaxFills - 1 : DOMAIN opened = 1..n
    BY <1>0 DEF SimInv, CallsKept, LoopHolds, CallerHolds, PaperAlone, Room, SimIdle
  <2> QED BY <2>1, OrderFacts
<1>2. Cardinality(DOMAIN opened) = n
  BY <1>1, FS_Interval
<1>3. kind = "paper" => caller = SimIdle
  BY <1>0 DEF SimInv, CallsKept, LoopHolds, CallerHolds, PaperAlone
<1>4. CASE Install(Book)
  <2>1. UNCHANGED <<kind, mark, opened, purse, verdict, settled, lost>>
    BY <1>4 DEF Install, Book
  <2>2. BookKept' /\ Obeys
    BY <1>0, <2>1, BookStays DEF SimInv
  <2>3. CallsKept'
    BY <1>0, <1>3, <2>1 DEF SimInv, CallsKept, LoopHolds, CallerHolds, PaperAlone, SimIdle
  <2> QED BY <1>0, <2>1, <2>2, <2>3 DEF SimInv, Days
<1>5. ASSUME NEW price \in Answers, Install(Fill(loop.order, price)) PROVE SimInv' /\ Obeys
  <2>0. price \in Int /\ price \in Levels
    BY OrderFacts DEF Answers, SimInv, BookKept, Levels
  <2> DEFINE b == [kind |-> kind, mark |-> price, opened |-> opened, purse |-> purse, verdict |-> verdict,
                   settled |-> settled, lost |-> lost]
             p == [order |-> loop.order, entry |-> price, units |-> loop.order.units, open |-> TRUE]
             c == [kind |-> kind, mark |-> price,
                   opened |-> [j \in 1..(n + 1) |-> IF j = n + 1 THEN p ELSE opened[j]],
                   purse |-> purse, verdict |-> verdict,
                   settled |-> [j \in 1..(n + 1) |-> IF j = n + 1 THEN 0 ELSE settled[j]], lost |-> lost]
             f == Fill(loop.order, price)
  <2>1. [Book EXCEPT !.mark = price] = b
    BY DEF Book
  <2>2. Sound(b) /\ (kind = "paper" => PaidOnce(b))
    BY DEF SimInv, BookKept, Book, Sound, Shaped, Dealt, DayKept, PaidOnce
  <2>3. f = IF Accepts(b, loop.order, price) THEN c ELSE b
    <3>1. PICK x : x = [b EXCEPT !.opened = [j \in 1..(n + 1) |-> IF j = n + 1 THEN p ELSE opened[j]],
                                 !.settled = [j \in 1..(n + 1) |-> IF j = n + 1 THEN 0 ELSE settled[j]]]
      OBVIOUS
    <3>2. x = c
      BY <3>1
    <3>3. f = IF Accepts(b, loop.order, price) THEN x ELSE b
      BY <1>2, <2>1, <3>1 DEF Fill
    <3> QED BY <3>2, <3>3
  <2>4. p \in Positions /\ p.order = loop.order /\ p.units = loop.order.units
    BY <1>0, <2>0, OrderFacts DEF Positions
  <2>5. Sound(c) /\ (kind = "paper" => PaidOnce(c))
    <3>1. /\ opened \in [1..n -> Positions] /\ settled \in [1..n -> Nat]
      BY <1>1 DEF SimInv, BookKept, Sound, Dealt, Book
    <3> HIDE DEF p
    <3>2. c.opened \in [1..(n + 1) -> Positions] /\ c.settled \in [1..(n + 1) -> Nat]
      BY <2>4, <3>1
    <3>3. Dealt(c)
      BY <3>2 DEF Dealt
    <3>4. Shaped(c) /\ DayKept(c)
      BY <2>2 DEF Sound, Shaped, DayKept
    <3>5. kind = "paper" => PaidOnce(c)
      <4> SUFFICES ASSUME kind = "paper", NEW j \in 1..(n + 1)
                   PROVE  c.settled[j] + (IF c.opened[j].open THEN c.opened[j].units ELSE 0) <= c.opened[j].order.units
        BY DEF PaidOnce
      <4>1. CASE j = n + 1
        BY <2>4, <4>1, <1>0, OrderFacts DEF p
      <4>2. CASE j # n + 1
        <5>1. j \in 1..n
          BY <4>2
        <5> QED BY <1>1, <2>2, <4>2, <5>1 DEF PaidOnce
      <4> QED BY <4>1, <4>2
    <3> QED BY <3>3, <3>4, <3>5 DEF Sound
  <2>6. /\ c.kind = kind /\ c.mark = price /\ DOMAIN c.opened = 1..(n + 1)
        /\ \A j \in 1..n : c.opened[j] = opened[j]
        /\ b.kind = kind /\ b.mark = price /\ b.opened = opened
    OBVIOUS
  <2>7. Accepts(b, loop.order, price) => ~armed /\ (kind = "cft_sim" => lost[today] > -DailyLossAmount)
    <3> SUFFICES ASSUME Accepts(b, loop.order, price), kind = "cft_sim" PROVE lost[today] > -DailyLossAmount
      BY DEF Accepts
    <3> DEFINE worst == IF loop.order.sl = NoLevel THEN 0
                        ELSE (IF price > loop.order.sl THEN price - loop.order.sl ELSE loop.order.sl - price) * loop.order.units
               reach == IF price > loop.order.sl THEN price - loop.order.sl ELSE loop.order.sl - price
    <3>1. purse.dayPnl - worst > -DailyLossAmount
      BY DEF Accepts
    <3>2. reach \in Nat /\ loop.order.units \in Nat
      BY <1>0, <2>0, OrderFacts
    <3>3. reach * loop.order.units \in Nat
      BY <3>2
    <3>4. worst \in Nat
      BY <3>3
    <3> HIDE DEF worst
    <3>5. /\ purse.dayPnl \in Int /\ purse.day \in Days \union {NoDay}
          /\ purse.day = NoDay => \A d \in Days : lost[d] = 0
          /\ purse.day # NoDay => /\ purse.day <= today /\ lost[purse.day] = purse.dayPnl
                                  /\ \A d \in Days : d > purse.day => lost[d] = 0
      BY DEF SimInv, BookKept, Sound, DayKept, Book
    <3>6. purse.dayPnl > -DailyLossAmount
      BY <3>1, <3>4, <3>5, OrderFacts
    <3>7. lost[today] = 0 \/ lost[today] = purse.dayPnl
      <4>1. today \in Days /\ today \in Nat
        BY OrderFacts DEF SimInv
      <4>2. purse.day # NoDay => purse.day \in Nat
        BY <3>5, OrderFacts
      <4>3. purse.day # NoDay => purse.day = today \/ today > purse.day
        BY <3>5, <4>1, <4>2
      <4> QED BY <3>5, <4>1, <4>3
    <3> QED BY <3>6, <3>7, OrderFacts
  <2> HIDE DEF b, c, f
  <2>8. CASE f = c /\ Accepts(b, loop.order, price)
    <3>1. BookKept' /\ kind' = kind /\ opened' = c.opened
      BY <1>0, <1>1, <1>5, <2>0, <2>5, <2>6, <2>8, Installed DEF f
    <3>2. CallsKept'
      BY <1>0, <1>1, <1>3, <2>6, <3>1 DEF SimInv, CallsKept, LoopHolds, CallerHolds, PaperAlone, SimIdle
    <3> QED BY <1>0, <2>7, <2>8, <3>1, <3>2 DEF SimInv, Obeys, Days
  <2>9. CASE f = b
    <3>1. BookKept' /\ kind' = kind /\ opened' = opened
      BY <1>0, <1>5, <2>0, <2>2, <2>6, <2>9, Installed DEF f, SimInv, BookKept
    <3>2. CallsKept'
      BY <1>0, <1>3, <3>1 DEF SimInv, CallsKept, LoopHolds, CallerHolds, PaperAlone, SimIdle
    <3> QED BY <1>0, <3>1, <3>2 DEF SimInv, Obeys, Filled, Days
  <2> QED BY <2>3, <2>8, <2>9
<1> QED BY <1>4, <1>5 DEF PlaceResumes

\* A settlement at an awaited price, of a position of the book.
LEMMA SettleStep ==
  ASSUME SimInv, NEW price \in Answers, NEW i \in DOMAIN opened, NEW lot \in Nat, today' = today,
         kind = "paper" => opened[i].open,
         Install(Settle([Book EXCEPT !.mark = price], i, price, lot))
  PROVE  /\ BookKept' /\ kind' = kind /\ DOMAIN opened' = DOMAIN opened
         /\ \A j \in DOMAIN opened \ {i} : opened'[j] = opened[j]
<1>0. price \in Int /\ price \in Levels
  BY OrderFacts DEF Answers, SimInv, BookKept, Levels
<1> DEFINE b == [kind |-> kind, mark |-> price, opened |-> opened, purse |-> purse, verdict |-> verdict,
                 settled |-> settled, lost |-> lost]
           s == Settle(b, i, price, lot)
<1>1. [Book EXCEPT !.mark = price] = b
  BY DEF Book
<1>2. Sound(b) /\ (kind = "paper" => PaidOnce(b)) /\ b.kind = kind /\ b.mark = price /\ b.opened = opened
  BY DEF SimInv, BookKept, Book, Sound, Shaped, Dealt, DayKept, PaidOnce
<1> HIDE DEF b
<1>3. /\ Sound(s) /\ s.kind = kind /\ s.mark = price /\ DOMAIN s.opened = DOMAIN opened
      /\ \A j \in DOMAIN opened \ {i} : s.opened[j] = opened[j]
      /\ kind = "paper" => PaidOnce(s)
  BY <1>0, <1>2, SettleKeeps DEF SimInv
<1>4. Install(s)
  BY <1>1
<1> HIDE DEF s
<1>5. BookKept' /\ kind' = kind /\ opened' = s.opened
  BY <1>0, <1>3, <1>4, Installed DEF SimInv, BookKept
<1> QED BY <1>3, <1>5

\* A partial settles the position it found, open still where nothing came between.
LEMMA PartialStep == ASSUME SimInv, PartialResumes PROVE SimInv' /\ Obeys
<1>0. /\ loop.op = "close" /\ loop.id \in DOMAIN opened /\ loop.lot \in Nat /\ loop # SimIdle
      /\ loop' = SimIdle /\ today' = today /\ caller' = caller
  BY DEF PartialResumes, SimInv, CallsKept, LoopHolds, CallerHolds, PaperAlone, SimIdle
<1>1. kind = "paper" => caller = SimIdle /\ opened[loop.id].open
  BY <1>0 DEF SimInv, CallsKept, LoopHolds, CallerHolds, PaperAlone
<1>2. CASE Install(Book)
  <2>1. UNCHANGED <<kind, mark, opened, purse, verdict, settled, lost>>
    BY <1>2 DEF Install, Book
  <2>2. BookKept' /\ Obeys
    BY <1>0, <2>1, BookStays DEF SimInv
  <2>3. CallsKept'
    BY <1>0, <1>1, <2>1 DEF SimInv, CallsKept, LoopHolds, CallerHolds, PaperAlone, SimIdle
  <2> QED BY <1>0, <2>1, <2>2, <2>3 DEF SimInv, Days
<1>3. ASSUME NEW price \in Answers, Install(Settle([Book EXCEPT !.mark = price], loop.id, price, loop.lot))
      PROVE  SimInv' /\ Obeys
  <2>1. BookKept' /\ kind' = kind /\ DOMAIN opened' = DOMAIN opened
    BY <1>0, <1>1, <1>3, SettleStep
  <2>2. CallsKept'
    BY <1>0, <1>1, <2>1 DEF SimInv, CallsKept, LoopHolds, CallerHolds, PaperAlone, SimIdle
  <2> QED BY <1>0, <2>1, <2>2 DEF SimInv, Obeys, Filled, Days
<1> QED BY <1>2, <1>3 DEF PartialResumes

\* A close or a sweep settles one of the positions it captured.
LEMMA CloseStep == ASSUME SimInv, CloseResumes PROVE SimInv' /\ Obeys
<1>0. /\ caller # SimIdle /\ caller = [op |-> caller.op, todo |-> caller.todo] /\ caller.todo \subseteq DOMAIN opened
      /\ today' = today /\ loop' = loop
  BY DEF CloseResumes, SimInv, CallsKept, LoopHolds, CallerHolds, PaperAlone
<1>1. PICK i \in caller.todo, price \in Answers :
        /\ Install(Settle([Book EXCEPT !.mark = price], i, price, All))
        /\ caller' = IF caller.todo = {i} THEN SimIdle ELSE [caller EXCEPT !.todo = @ \ {i}]
  BY DEF CloseResumes
<1>2. kind = "paper" => loop = SimIdle /\ \A j \in caller.todo : opened[j].open
  BY <1>0 DEF SimInv, CallsKept, LoopHolds, CallerHolds, PaperAlone
<1>3. /\ BookKept' /\ kind' = kind /\ DOMAIN opened' = DOMAIN opened
      /\ \A j \in DOMAIN opened \ {i} : opened'[j] = opened[j]
  BY <1>0, <1>1, <1>2, SettleStep DEF All
<1>4. CallsKept'
  <2>1. /\ loop = SimIdle \/ (loop.op = "place" /\ loop.order \in SimOrders /\ Room)
             \/ (loop.op = "close" /\ loop.id \in DOMAIN opened /\ loop.lot \in Nat)
        /\ caller.op \in {"close", "close_all"} /\ (Room => Room')
    BY <1>0, <1>3 DEF SimInv, CallsKept, LoopHolds, CallerHolds, PaperAlone, Room
  <2>2. CASE caller' = SimIdle
    <3>1. LoopHolds' /\ CallerHolds'
      BY <1>0, <1>3, <2>1, <2>2 DEF LoopHolds, CallerHolds, SimIdle
    <3>2. PaperAlone'
      BY <1>0, <1>2, <1>3, <2>2 DEF PaperAlone, SimIdle
    <3> QED BY <3>1, <3>2 DEF CallsKept
  <2>3. CASE caller' = [caller EXCEPT !.todo = @ \ {i}]
    <3>1. caller' = [op |-> caller.op, todo |-> caller.todo \ {i}]
      BY <1>0, <2>3
    <3>2. caller' = [op |-> caller'.op, todo |-> caller'.todo] /\ caller'.todo = caller.todo \ {i} /\ caller'.op = caller.op
      BY <3>1
    <3>3. LoopHolds' /\ CallerHolds'
      BY <1>0, <1>3, <2>1, <3>2 DEF LoopHolds, CallerHolds, SimIdle
    <3>4. PaperAlone'
      BY <1>0, <1>2, <1>3, <3>2 DEF PaperAlone, SimIdle
    <3> QED BY <3>3, <3>4 DEF CallsKept
  <2> QED BY <1>1, <2>2, <2>3
<1> QED BY <1>0, <1>3, <1>4 DEF SimInv, Obeys, Filled, Days

\* The steps that do not touch the book.
LEMMA OtherSteps ==
  ASSUME SimInv,
         \/ ~InCall /\ (TakePartial \/ ClosePosition \/ KillSwitchSweeps \/ Disarm \/ Midnight)
         \/ CloseRaises \/ UNCHANGED simVars
  PROVE  SimInv' /\ Obeys
<1>1. UNCHANGED <<kind, mark, opened, purse, verdict, settled, lost>>
  BY DEF TakePartial, ClosePosition, KillSwitchSweeps, Disarm, Midnight, CloseRaises, simVars
<1>2. CASE ~Midnight
  <2>1. today' = today
    BY <1>2 DEF TakePartial, ClosePosition, KillSwitchSweeps, Disarm, CloseRaises, simVars
  <2>2. BookKept' /\ Obeys
    BY <1>1, <2>1, BookStays DEF SimInv
  <2>3. CASE ~InCall /\ TakePartial
    <3>0. PICK i \in OpenIds : \E lot \in 1..(opened[i].units - 1) : loop' = [op |-> "close", id |-> i, lot |-> lot]
      BY <2>3 DEF TakePartial
    <3>1. PICK lot \in 1..(opened[i].units - 1) : loop' = [op |-> "close", id |-> i, lot |-> lot]
      BY <3>0
    <3>2. i \in DOMAIN opened /\ opened[i].open /\ opened[i].units \in Nat
      BY DEF OpenIds, SimInv, BookKept, Sound, Dealt, Book, Positions
    <3>3. lot \in Nat
      BY <3>1, <3>2
    <3>4. caller' = caller /\ (kind = "paper" => caller = SimIdle)
      BY <2>3 DEF TakePartial, InCall
    <3> QED BY <1>1, <2>1, <2>2, <3>1, <3>2, <3>3, <3>4 DEF SimInv, CallsKept, LoopHolds, CallerHolds, PaperAlone, SimIdle, Days, Room
  <2>4. CASE ~InCall /\ ClosePosition
    <3>1. PICK i \in OpenIds : caller' = [op |-> "close", todo |-> {i}]
      BY <2>4 DEF ClosePosition
    <3>2. loop' = loop /\ (kind = "paper" => loop = SimIdle)
      BY <2>4 DEF ClosePosition, InCall
    <3> QED BY <1>1, <2>1, <2>2, <3>1, <3>2 DEF SimInv, CallsKept, LoopHolds, CallerHolds, PaperAlone, SimIdle, Days, Room, OpenIds
  <2>5. CASE ~InCall /\ KillSwitchSweeps
    <3>1. caller' \in {SimIdle, [op |-> "close_all", todo |-> OpenIds]}
      BY <2>5 DEF KillSwitchSweeps
    <3>2. loop' = loop /\ (kind = "paper" => loop = SimIdle)
      BY <2>5 DEF KillSwitchSweeps, InCall
    <3> QED BY <1>1, <2>1, <2>2, <3>1, <3>2 DEF SimInv, CallsKept, LoopHolds, CallerHolds, PaperAlone, SimIdle, Days, Room, OpenIds
  <2>6. CASE CloseRaises
    BY <1>1, <2>1, <2>2, <2>6 DEF CloseRaises, SimInv, CallsKept, LoopHolds, CallerHolds, PaperAlone, SimIdle, Days, Room
  <2>7. CASE Disarm \/ UNCHANGED simVars
    BY <1>1, <2>1, <2>2, <2>7 DEF Disarm, simVars, SimInv, CallsKept, LoopHolds, CallerHolds, PaperAlone, SimIdle, Days, Room
  <2> QED BY <1>2, <2>3, <2>4, <2>5, <2>6, <2>7
<1>3. CASE Midnight
  <2>1. today' = today + 1 /\ today' \in Days /\ today \in Nat
    BY <1>3, OrderFacts DEF Midnight, Days, SimInv
  <2>2. Book' = Book
    BY <1>1 DEF Book
  <2>3. /\ DayKept(Book)' /\ (PaidOnce(Book) => PaidOnce(Book)') /\ Shaped(Book)' /\ Dealt(Book)'
    <3>1. Shaped(Book)' /\ Dealt(Book)' /\ (PaidOnce(Book) => PaidOnce(Book)')
      BY <2>2 DEF SimInv, BookKept, Sound, Shaped, Dealt, PaidOnce
    <3>2. DayKept(Book)
      BY DEF SimInv, BookKept, Sound
    <3>3. Book.purse.day <= today => Book.purse.day <= today + 1 \/ Book.purse.day = NoDay
      <4> DEFINE day == Book.purse.day
      <4>1. day \in Nat \/ day = NoDay
        BY <3>2, OrderFacts DEF DayKept
      <4> HIDE DEF day
      <4>2. day \in Nat /\ day <= today => day <= today + 1
        BY <2>1
      <4> QED BY <4>1, <4>2 DEF day
    <3>4. DayKept(Book)'
      BY <2>1, <2>2, <3>2, <3>3 DEF DayKept, Days, NoDay
    <3> QED BY <3>1, <3>4
  <2>4. BookKept'
    BY <1>1, <2>3 DEF SimInv, BookKept, Sound
  <2>5. CallsKept'
    BY <1>1, <1>3 DEF Midnight, SimInv, CallsKept, LoopHolds, CallerHolds, PaperAlone, SimIdle, Room
  <2> QED BY <1>1, <2>1, <2>4, <2>5 DEF SimInv, Obeys, Filled, Days
<1> QED BY <1>2, <1>3

\* Every step keeps the invariant, and takes a position only as it may.
LEMMA SimStep == SimInv /\ [SimNext]_simVars => SimInv' /\ Obeys
BY TickStep, PlaceStep, FillStep, PartialStep, CloseStep, OtherSteps DEF SimNext, LoopStarts, CallEnds

\* An account that has not traded.
LEMMA SimStarts == SimInit => SimInv
<1> SUFFICES ASSUME SimInit PROVE SimInv
  OBVIOUS
<1>1. /\ purse = [balance |-> StartingBalance, peak |-> StartingBalance, dayPnl |-> 0, day |-> NoDay]
      /\ DOMAIN opened = {} /\ settled = opened /\ lost = [d \in Days |-> 0] /\ today = 0 /\ mark = NoLevel
      /\ opened \in [DOMAIN opened -> Positions] /\ settled \in [DOMAIN opened -> Nat]
  BY DEF SimInit
<1>2. Sound(Book)
  <2>0. verdict \in Verdicts
    BY DEF SimInit, Verdicts
  <2>1. Shaped(Book) /\ Dealt(Book)
    BY <1>1, <2>0 DEF Book, Shaped, Dealt
  <2>2. DayKept(Book)
    BY <1>1 DEF Book, DayKept
  <2> QED BY <2>1, <2>2 DEF Sound
<1>3. PaidOnce(Book) /\ mark \in Levels /\ DOMAIN opened = 1..0 /\ 0 \in 0..MaxFills
  BY <1>1, OrderFacts DEF PaidOnce, Book, Levels
<1>4. kind \in Kinds /\ today \in Days /\ loop = SimIdle /\ caller = SimIdle
  BY OrderFacts DEF SimInit, Days
<1> QED BY <1>2, <1>3, <1>4 DEF SimInv, BookKept, CallsKept, LoopHolds, CallerHolds, PaperAlone, SimIdle

\* The switch is on or off.
SwitchTyped == armed \in BOOLEAN
LEMMA SwitchKept == SwitchTyped /\ [SimNext]_simVars => SwitchTyped'
<1> SUFFICES ASSUME armed \in BOOLEAN, [SimNext]_simVars PROVE armed' \in BOOLEAN
  BY DEF SwitchTyped
<1>1. CASE armed' = armed
  BY <1>1
<1>2. CASE KillSwitchSweeps \/ Disarm
  BY <1>2, Zenon DEF KillSwitchSweeps, Disarm
<1>3. armed' = armed \/ KillSwitchSweeps \/ Disarm
  BY DEF SimNext, LoopStarts, CallEnds, Tick, TakePartial, PlaceOrder, PlaceResumes, PartialResumes, CloseResumes,
         CloseRaises, ClosePosition, Midnight, simVars
<1> QED BY <1>1, <1>2, <1>3

\* Type correctness of the simulated venues: no more positions than were asked for, at prices of the
\* source, whatever is awaited between the question and the fill.
THEOREM SimTypeCorrect == SimSpec => []SimTypeOK
<1>1. SimInit => SwitchTyped
  BY Zenon DEF SimInit, SwitchTyped
<1>2. SimInv /\ SwitchTyped => SimTypeOK
  <2> SUFFICES ASSUME SimInv, armed \in BOOLEAN PROVE SimTypeOK
    BY DEF SwitchTyped
  <2>1. /\ kind \in Kinds /\ mark \in Prices \union {NoLevel} /\ today \in Days /\ purse.day \in Days \union {NoDay}
        /\ verdict \in {"active", "daily_loss_limit", "max_drawdown", "profit_target_reached"}
    BY DEF SimInv, BookKept, Levels, Sound, Shaped, DayKept, Book, Verdicts
  <2>2. DOMAIN opened \subseteq Fills /\ DOMAIN settled = DOMAIN opened
    BY OrderFacts DEF SimInv, BookKept, Sound, Dealt, Book, Fills
  <2>3. ASSUME NEW i \in DOMAIN opened PROVE opened[i].units \in Nat \ {0} /\ opened[i].open \in BOOLEAN
    <3>1. opened[i] \in Positions
      BY DEF SimInv, BookKept, Sound, Dealt, Book
    <3> QED BY <3>1 DEF Positions
  <2>4. loop.op \in {"idle", "place", "close"}
    BY DEF SimInv, CallsKept, LoopHolds, SimIdle
  <2>5. caller.op \in {"idle", "close", "close_all"}
    BY DEF SimInv, CallsKept, CallerHolds, SimIdle
  <2> QED BY <2>1, <2>2, <2>3, <2>4, <2>5 DEF SimTypeOK
<1> QED BY <1>1, <1>2, SwitchKept, SimStarts, SimStep, PTL DEF SimSpec

\* PaperSettlesOnce: whatever partials, closes, sweeps and ticks come, what a paper position
\* paid out is no more than what was filled.
THEOREM PaperPaysOnce == SimSpec => []PaperSettlesOnce
<1>1. SimInv => PaperSettlesOnce
  <2> SUFFICES ASSUME SimInv, kind = "paper", NEW i \in DOMAIN opened
               PROVE  settled[i] <= opened[i].order.units
    BY DEF PaperSettlesOnce
  <2>1. opened[i] \in Positions /\ settled[i] \in Nat
    BY DEF SimInv, BookKept, Sound, Dealt, Book
  <2>2. settled[i] + (IF opened[i].open THEN opened[i].units ELSE 0) <= opened[i].order.units
    BY DEF SimInv, BookKept, PaidOnce, Book
  <2>3. opened[i].units \in Nat /\ opened[i].order.units \in Nat
    BY <2>1, OrderFacts DEF Positions
  <2> QED BY <2>1, <2>2, <2>3
<1> QED BY <1>1, SimStarts, SimStep, PTL DEF SimSpec

\* NoFillPastDailyLoss: the rules look at a day that may be over when the order is filled, but
\* nothing was realized on a later one.
THEOREM DailyLossHolds == SimSpec => NoFillPastDailyLoss
<1>1. SimInv /\ [SimNext]_simVars => [Filled /\ kind = "cft_sim" => lost[today] > -DailyLossAmount]_simVars
  BY SimStep DEF Obeys
<1> QED BY <1>1, SimStarts, SimStep, PTL DEF SimSpec, NoFillPastDailyLoss

\* ArmedNeverFills: the kill switch is asked after the last await of an order.
THEOREM ArmedIsObeyed == SimSpec => ArmedNeverFills
<1>1. SimInv /\ [SimNext]_simVars => [Filled => ~armed]_simVars
  BY SimStep DEF Obeys
<1> QED BY <1>1, SimStarts, SimStep, PTL DEF SimSpec, ArmedNeverFills


-----------------------------------------------------------------------------
(* The trades of the backtest. *)

\* A gap as the detector reports it.
GapRecords == [dir : {"LONG", "SHORT"}, low : Int, high : Int, born : Nat]

\* A trade that is open: its stop lies behind it, and once it banked its 2R part the
\* runner's stop is at the entry or better.
Held(t) ==
  /\ t = [gap |-> t.gap, entry |-> t.entry, stop |-> t.stop, at |-> t.at,
          banked |-> t.banked, peak |-> t.peak, runner |-> t.runner]
  /\ t.gap.dir \in {"LONG", "SHORT"} /\ t.banked \in BOOLEAN
  /\ t.entry \in Int /\ t.stop \in Int /\ t.at \in Int /\ t.peak \in Int /\ t.runner \in Int
  /\ RiskOf(t) > 0
  /\ t.banked => (t.runner - t.entry) * WayOf(t.gap.dir) >= 0

\* A trade that ended where it may.
EndsWell(e) == (e.exit - (IF e.banked THEN e.entry ELSE e.stop)) * e.way >= 0

\* The better of up to three stops is one of them, and none is better.
LEMMA TightestOfThree ==
  ASSUME NEW way \in {1, -1}, NEW x \in Int, NEW y \in Int, NEW z \in Int,
         NEW levels, levels = {x, y, z}
  PROVE  /\ Tightest(way, levels) \in {x, y, z}
         /\ \A l \in levels : (Tightest(way, levels) - l) * way >= 0
<1> DEFINE scaled == {way * l : l \in levels}
           top == Max(scaled)
<1>1. scaled = {way * x, way * y, way * z}
  OBVIOUS
<1>2. way * x \in Int /\ way * y \in Int /\ way * z \in Int
  OBVIOUS
<1>3. \E m \in scaled : \A n \in scaled : m >= n
  <2> HIDE DEF scaled
  <2>1. PICK a \in Int, b \in Int, c \in Int : a = way * x /\ b = way * y /\ c = way * z
    BY <1>2
  <2>2. scaled = {a, b, c}
    BY <1>1, <2>1
  <2> QED BY <2>2, SMTT(30)
<1>4. top \in scaled /\ \A n \in scaled : top >= n
  BY <1>3 DEF Max
<1>5. PICK l \in {x, y, z} : top = way * l
  BY <1>1, <1>4
<1>6. Tightest(way, levels) = l
  <2>1. Tightest(way, levels) = way * top
    BY DEF Tightest
  <2> QED BY <2>1, <1>5, SMTT(30)
<1>7. ASSUME NEW k \in levels PROVE (l - k) * way >= 0
  <2>1. way * l >= way * k
    BY <1>4, <1>5
  <2> QED BY <2>1, SMTT(30)
<1> QED BY <1>5, <1>6, <1>7

\* A bar leaves an open trade as a trade may be, or ends it where one may end.
LEMMA ManageKeeps ==
  ASSUME NEW t, Held(t), NEW b, WellFormed(b), NEW i \in Int
  PROVE  /\ \A u \in Manage(t, b, i).open : Held(u)
         /\ \A e \in Manage(t, b, i).ended : EndsWell(e)
<1> DEFINE way    == WayOf(t.gap.dir)
           good   == Favourable(b, way)
           bad    == Adverse(b, way)
           hit(l) == (Adverse(b, way) - l) * way <= 0
           target == t.entry + way * 2 * RiskOf(t)
           peak   == Tightest(way, {t.peak, good})
           runner == Tightest(way, Trail(t, b, peak, {t.runner}))
           first  == Tightest(way, Trail(t, b, good, {}))
           Still(u) == [open |-> {u}, ended |-> {}]
           Close(exit) == [open |-> {}, ended |-> {Ended(t, exit)}]
<1>1. way \in {1, -1} /\ (t.gap.dir = "LONG" => way = 1) /\ (t.gap.dir = "SHORT" => way = -1)
  BY DEF Held, WayOf
<1>2. good \in Int /\ bad \in Int /\ b.cl \in Int /\ b.atr \in Nat
  BY <1>1 DEF WellFormed, EntryFrame, Favourable, Adverse
<1>3. (b.cl - bad) * way >= 0
  BY <1>1, <1>2 DEF WellFormed, EntryFrame, Adverse
<1>4. peak \in Int
  <2>1. {t.peak, good} = {t.peak, good, good}
    OBVIOUS
  <2>2. peak \in {t.peak, good, good}
    BY <2>1, <1>1, <1>2, TightestOfThree DEF Held
  <2> QED BY <2>2, <1>2 DEF Held
<1>5. \A p \in Int : p - way * ((5 * b.atr) \div 2) \in Int
  BY <1>1, <1>2
<1>6. runner \in Int /\ (runner - t.entry) * way >= 0
  <2> PICK x \in Int : x = peak - way * ((5 * b.atr) \div 2)
    BY <1>4, <1>5
  <2>1. Trail(t, b, peak, {t.runner}) = {t.entry, x, t.runner}
    BY DEF Trail
  <2>2. t.entry \in Int /\ t.runner \in Int
    BY DEF Held
  <2>3. PICK e \in Int, r \in Int : e = t.entry /\ r = t.runner
    BY <2>2
  <2>4. runner = Tightest(way, {e, x, r})
    BY <2>1, <2>3
  <2>5. /\ Tightest(way, {e, x, r}) \in {e, x, r}
        /\ \A l \in {e, x, r} : (Tightest(way, {e, x, r}) - l) * way >= 0
    <3> HIDE DEF way, peak, runner
    <3>1. way \in {1, -1} /\ e \in Int /\ x \in Int /\ r \in Int
      BY <1>1, <2>3
    <3> QED BY <3>1, TightestOfThree
  <2> HIDE DEF runner
  <2> QED BY <2>3, <2>4, <2>5
<1>7. first \in Int /\ (first - t.entry) * way >= 0
  <2> PICK x \in Int : x = good - way * ((5 * b.atr) \div 2)
    BY <1>2, <1>5
  <2>1. Trail(t, b, good, {}) = {t.entry, x, x}
    BY DEF Trail
  <2>2. first \in {t.entry, x, x} /\ \A l \in {t.entry, x, x} : (first - l) * way >= 0
    BY <2>1, <1>1, TightestOfThree DEF Held
  <2> QED BY <2>2 DEF Held
<1>8. \A exit : Ended(t, exit) = [banked |-> t.banked, way |-> way, entry |-> t.entry, stop |-> t.stop, exit |-> exit]
  BY DEF Ended
<1>9. \A exit : EndsWell(Ended(t, exit)) <=> (exit - (IF t.banked THEN t.entry ELSE t.stop)) * way >= 0
  BY <1>8 DEF EndsWell
<1> DEFINE R == Manage(t, b, i)
<1>10. R = IF ~t.banked
           THEN IF hit(t.stop) THEN Close(t.stop)
                ELSE IF (good - target) * way >= 0
                     THEN Still([t EXCEPT !.banked = TRUE, !.peak = good, !.runner = first])
                ELSE IF i - t.at >= MaxHold THEN Close(b.cl) ELSE Still(t)
           ELSE IF hit(runner) THEN Close(runner)
                ELSE IF i - t.at >= RunnerHold THEN Close(b.cl)
                ELSE Still([t EXCEPT !.peak = peak, !.runner = runner])
  BY DEF Manage
<1> HIDE DEF R, peak, runner, first
<1>11. CASE ~t.banked
  <2>1. CASE hit(t.stop)
    <3>1. R = Close(t.stop)
      BY <1>10, <1>11, <2>1
    <3>2. (t.stop - t.stop) * way >= 0
      BY <1>1 DEF Held
    <3>3. EndsWell(Ended(t, t.stop))
      BY <3>2, <1>9, <1>11
    <3> QED BY <3>1, <3>3 DEF R
  <2>2. CASE ~hit(t.stop) /\ (good - target) * way >= 0
    <3> DEFINE u == [t EXCEPT !.banked = TRUE, !.peak = good, !.runner = first]
    <3>1. R = Still(u)
      BY <1>10, <1>11, <2>2
    <3> PICK g, n, s, a, k, p, r : t = [gap |-> g, entry |-> n, stop |-> s, at |-> a,
                                         banked |-> k, peak |-> p, runner |-> r]
      BY DEF Held
    <3>2. u = [gap |-> t.gap, entry |-> t.entry, stop |-> t.stop, at |-> t.at,
               banked |-> TRUE, peak |-> good, runner |-> first]
      <4>1. u = [[gap |-> g, entry |-> n, stop |-> s, at |-> a, banked |-> k, peak |-> p, runner |-> r]
                 EXCEPT !.banked = TRUE, !.peak = good, !.runner = first]
        OBVIOUS
      <4> HIDE DEF u, good
      <4>2. u = [gap |-> g, entry |-> n, stop |-> s, at |-> a, banked |-> TRUE, peak |-> good, runner |-> first]
        BY <4>1
      <4> QED BY <4>2
    <3>3. Held(u)
      BY <3>2, <1>2, <1>7 DEF Held, RiskOf
    <3> QED BY <3>1, <3>3 DEF R
  <2>3. CASE ~hit(t.stop) /\ ~((good - target) * way >= 0) /\ i - t.at >= MaxHold
    <3>1. R = Close(b.cl)
      BY <1>10, <1>11, <2>3
    <3>2. (b.cl - t.stop) * way >= 0
      BY <2>3, <1>1, <1>2, <1>3, SMTT(30) DEF Held
    <3>3. EndsWell(Ended(t, b.cl))
      BY <3>2, <1>9, <1>11
    <3> QED BY <3>1, <3>3 DEF R
  <2>4. CASE ~hit(t.stop) /\ ~((good - target) * way >= 0) /\ ~(i - t.at >= MaxHold)
    <3>1. R = Still(t)
      BY <1>10, <1>11, <2>4
    <3> QED BY <3>1 DEF R
  <2> QED BY <2>1, <2>2, <2>3, <2>4
<1>12. CASE t.banked
  <2>1. CASE hit(runner)
    <3>1. R = Close(runner)
      BY <1>10, <1>12, <2>1
    <3>2. EndsWell(Ended(t, runner))
      BY <1>6, <1>9, <1>12
    <3> QED BY <3>1, <3>2 DEF R
  <2>2. CASE ~hit(runner) /\ i - t.at >= RunnerHold
    <3>1. R = Close(b.cl)
      BY <1>10, <1>12, <2>2
    <3>2. (b.cl - t.entry) * way >= 0
      BY <2>2, <1>1, <1>2, <1>3, <1>6, SMTT(30) DEF Held
    <3>3. EndsWell(Ended(t, b.cl))
      BY <3>2, <1>9, <1>12
    <3> QED BY <3>1, <3>3 DEF R
  <2>3. CASE ~hit(runner) /\ ~(i - t.at >= RunnerHold)
    <3> DEFINE u == [t EXCEPT !.peak = peak, !.runner = runner]
    <3>1. R = Still(u)
      BY <1>10, <1>12, <2>3
    <3> PICK g, n, s, a, k, p, r : t = [gap |-> g, entry |-> n, stop |-> s, at |-> a,
                                         banked |-> k, peak |-> p, runner |-> r]
      BY DEF Held
    <3>2. u = [gap |-> t.gap, entry |-> t.entry, stop |-> t.stop, at |-> t.at,
               banked |-> t.banked, peak |-> peak, runner |-> runner]
      <4>1. u = [[gap |-> g, entry |-> n, stop |-> s, at |-> a, banked |-> k, peak |-> p, runner |-> r]
                 EXCEPT !.peak = peak, !.runner = runner]
        OBVIOUS
      <4> HIDE DEF u
      <4>2. u = [gap |-> g, entry |-> n, stop |-> s, at |-> a, banked |-> k, peak |-> peak, runner |-> runner]
        BY <4>1
      <4> QED BY <4>2
    <3>3. Held(u)
      BY <3>2, <1>4, <1>6 DEF Held, RiskOf
    <3> QED BY <3>1, <3>3 DEF R
  <2> QED BY <2>1, <2>2, <2>3
<1> QED BY <1>11, <1>12 DEF Held, R

LEMMA ManageAllKeeps ==
  ASSUME NEW open, \A t \in open : Held(t), NEW b, WellFormed(b), NEW i \in Int
  PROVE  /\ \A u \in ManageAll(open, b, i).open : Held(u)
         /\ \A e \in ManageAll(open, b, i).ended : EndsWell(e)
BY ManageKeeps DEF ManageAll

-----------------------------------------------------------------------------
(* The gaps of a series. *)

\* The bars of the entry frame, and whose gaps are asked.
Framed(bs) == bs \in Seq(EntryFrame) /\ \A k \in 1..Len(bs) : WellFormed(bs[k])

\* A gap around a candle is a gap, born there or at the next one.
LEMMA GapsAroundFacts ==
  ASSUME NEW bs, Framed(bs), manual \in BOOLEAN, NEW k \in 2..(Len(bs) - 1)
  PROVE  \A g \in GapsAround(bs, k) : g \in GapRecords /\ g.born \in 1..Len(bs)
<1> DEFINE born == IF manual THEN k + 1 ELSE k
<1>1. born \in 1..Len(bs)
  <2>1. Len(bs) \in Nat
    BY DEF Framed
  <2> QED BY <2>1
<1>2. bs[k - 1] \in EntryFrame /\ bs[k + 1] \in EntryFrame
  BY DEF Framed, WellFormed
<1>3. bs[k - 1].hi \in Int /\ bs[k - 1].lo \in Int /\ bs[k + 1].hi \in Int /\ bs[k + 1].lo \in Int
  BY <1>2 DEF EntryFrame
<1>4. \A g \in GapsAround(bs, k) :
        \/ g = [dir |-> "LONG", low |-> bs[k - 1].hi, high |-> bs[k + 1].lo, born |-> born]
        \/ g = [dir |-> "SHORT", low |-> bs[k + 1].hi, high |-> bs[k - 1].lo, born |-> born]
  BY DEF GapsAround, Gap
<1> HIDE DEF born
<1> QED BY <1>1, <1>3, <1>4 DEF GapRecords

LEMMA GapsInFacts ==
  ASSUME NEW bs, Framed(bs), manual \in BOOLEAN
  PROVE  \A g \in GapsIn(bs) : g \in GapRecords /\ g.born \in 1..Len(bs)
BY GapsAroundFacts DEF GapsIn

\* A bar that closes brings the gaps around the one before it, and no others.
LEMMA GapsOfOneMore ==
  ASSUME NEW bs, Framed(bs), NEW b, WellFormed(b)
  PROVE  /\ Framed(Append(bs, b))
         /\ GapsIn(Append(bs, b)) =
              GapsIn(bs) \union (IF Len(bs) + 1 < 3 THEN {} ELSE GapsAround(Append(bs, b), Len(bs)))
<1> PICK cs : cs = Append(bs, b)
  OBVIOUS
<1>1. /\ cs \in Seq(EntryFrame) /\ Len(cs) = Len(bs) + 1 /\ Len(bs) \in Nat
      /\ cs[Len(bs) + 1] = b /\ \A k \in 1..Len(bs) : cs[k] = bs[k]
  <2> HIDE DEF EntryFrame
  <2>1. bs \in Seq(EntryFrame) /\ b \in EntryFrame
    BY DEF Framed, WellFormed
  <2> QED BY <2>1
<1>2. Framed(cs)
  BY <1>1 DEF Framed
<1>3. \A k \in 2..(Len(bs) - 1) : GapsAround(cs, k) = GapsAround(bs, k)
  <2> TAKE k \in 2..(Len(bs) - 1)
  <2>1. cs[k - 1] = bs[k - 1] /\ cs[k] = bs[k] /\ cs[k + 1] = bs[k + 1]
    BY <1>1
  <2> QED BY <2>1 DEF GapsAround
<1>4. CASE Len(bs) + 1 < 3
  <2>1. 2..(Len(cs) - 1) = {} /\ 2..(Len(bs) - 1) = {}
    BY <1>1, <1>4
  <2>2. GapsIn(cs) = {} /\ GapsIn(bs) = {}
    BY <2>1 DEF GapsIn
  <2> QED BY <1>2, <1>4, <2>2
<1>5. CASE ~(Len(bs) + 1 < 3)
  <2>1. 2..(Len(cs) - 1) = (2..(Len(bs) - 1)) \union {Len(bs)}
    BY <1>1, <1>5
  <2>2. GapsIn(cs) = (UNION {GapsAround(cs, k) : k \in 2..(Len(bs) - 1)}) \union GapsAround(cs, Len(bs))
    BY <2>1 DEF GapsIn
  <2>3. {GapsAround(cs, k) : k \in 2..(Len(bs) - 1)} = {GapsAround(bs, k) : k \in 2..(Len(bs) - 1)}
    BY <1>3
  <2> QED BY <1>2, <1>5, <2>2, <2>3 DEF GapsIn
<1> QED BY <1>4, <1>5

\* Past the first days the two biases are the same.
LEMMA BiasesAgree ==
  ASSUME Len(verdicts) \in Nat, Len(verdicts) # MinDays
  PROVE  LiveBias = BacktestBias
<1> PICK n \in Nat : n = Len(verdicts)
  OBVIOUS
<1>0. MinDays \in Nat
  BY EntryAssumption
<1> DEFINE days(to) == {d \in (MinDays + 1)..to : verdicts[d] # Flat}
<1>1. CASE n < MinDays
  <2>1. days(n) = {}
    BY <1>0, <1>1
  <2> QED BY <1>1, <2>1 DEF LiveBias, BacktestBias, LastVerdict
<1>2. CASE n > MinDays /\ verdicts[n] # Flat
  <2>1. n \in days(n) /\ \A d \in days(n) : n >= d /\ d \in Int
    BY <1>0, <1>2
  <2>2. Max(days(n)) = n
    <3>1. Max(days(n)) \in days(n) /\ \A d \in days(n) : Max(days(n)) >= d
      BY <2>1 DEF Max
    <3> HIDE DEF days
    <3> QED BY <2>1, <3>1
  <2>3. days(n) # {}
    BY <2>1
  <2>4. verdicts # <<>>
    BY <1>0, <1>2
  <2>5. LiveBias = verdicts[n]
    BY <1>0, <1>2, <2>4 DEF LiveBias
  <2>6. LastVerdict(MinDays + 1, n) = verdicts[n]
    BY <2>2, <2>3 DEF LastVerdict
  <2> QED BY <2>5, <2>6 DEF BacktestBias
<1>3. CASE n > MinDays /\ verdicts[n] = Flat
  <2>1. days(n) = days(n - 1)
    BY <1>0, <1>3
  <2>2. verdicts # <<>>
    BY <1>0, <1>3
  <2>3. LastVerdict(MinDays + 1, n) = LastVerdict(MinDays + 1, n - 1)
    BY <2>1 DEF LastVerdict
  <2> QED BY <1>0, <1>3, <2>2, <2>3 DEF LiveBias, BacktestBias
<1> QED BY <1>0, <1>1, <1>2, <1>3
-----------------------------------------------------------------------------
(* The candidates. *)

\* The candidates are gaps of the series that were large enough when they were born.
Known(active, bs) ==
  \A c \in active :
    /\ c = [gap |-> c.gap, used |-> c.used] /\ c.used \in BOOLEAN /\ c.gap \in GapRecords
    /\ c.gap \in GapsIn(bs) /\ ~TooSmall(c.gap, bs[c.gap.born].atr)

\* Every such gap that is not stale is one.
Watched(active, bs) ==
  \A g \in GapsIn(bs) :
    ~TooSmall(g, bs[g.born].atr) /\ Len(bs) - g.born <= FvgLookback => \E c \in active : c.gap = g

\* The gaps the backtest may enter with the bar that closed, what it did enter counted in.
Enterable(active, taken, bs, bias) ==
  LET i == Len(bs)
      b == bs[i]
  IN  {c.gap : c \in {c \in active :
         /\ ~c.used \/ \E e \in taken : e.gap = c.gap
         /\ c.gap.dir = bias /\ InReach(c.gap, i) /\ b.full.bos = bias
         /\ Retraced(c.gap, b) /\ RiskOf(EntryAt(c.gap, b.full, b.atr)) > 0}}

\* What the backtest enters then.
Admitted(active, taken, bs, bias) ==
  {EntryAt(g, bs[Len(bs)].full, bs[Len(bs)].atr) : g \in Earliest(Enterable(active, taken, bs, bias))}

LEMMA RegisterKeeps ==
  ASSUME NEW bs, Framed(bs), manual \in BOOLEAN, NEW b, WellFormed(b), NEW active,
         Known(active, bs), Watched(active, bs), NEW cs, cs = Append(bs, b)
  PROVE  Known(Register(active, cs), cs) /\ Watched(Register(active, cs), cs)
<1> DEFINE new == IF Len(cs) < 3 THEN {} ELSE GapsAround(cs, Len(cs) - 1)
           fresh == {[gap |-> g, used |-> FALSE] : g \in {g \in new : ~TooSmall(g, cs[g.born].atr)}}
<1>1. Framed(cs) /\ Len(cs) = Len(bs) + 1 /\ Len(bs) \in Nat /\ \A k \in 1..Len(bs) : cs[k] = bs[k]
  <2> HIDE DEF EntryFrame
  <2>1. bs \in Seq(EntryFrame) /\ b \in EntryFrame
    BY DEF Framed, WellFormed
  <2>2. Framed(cs)
    BY GapsOfOneMore
  <2> QED BY <2>1, <2>2
<1>2. GapsIn(cs) = GapsIn(bs) \union new
  <2>1. Len(cs) - 1 = Len(bs)
    BY <1>1
  <2> QED BY <2>1, <1>1, GapsOfOneMore
<1>3. \A g \in GapsIn(cs) : g \in GapRecords /\ g.born \in 1..Len(cs)
  BY <1>1, GapsInFacts
<1>4. \A g \in GapsIn(bs) : g.born \in 1..Len(bs) /\ cs[g.born] = bs[g.born]
  BY <1>1, GapsInFacts
<1>5. Register(active, cs) = {c \in active \union fresh : Len(cs) - c.gap.born <= FvgLookback}
  BY DEF Register
<1> HIDE DEF new
<1>6. Known(active, cs)
  BY <1>2, <1>4 DEF Known
<1>7. Known(fresh, cs)
  <2> SUFFICES ASSUME NEW c \in fresh
               PROVE  /\ c = [gap |-> c.gap, used |-> c.used] /\ c.used \in BOOLEAN /\ c.gap \in GapRecords
                      /\ c.gap \in GapsIn(cs) /\ ~TooSmall(c.gap, cs[c.gap.born].atr)
    BY DEF Known
  <2>1. PICK g \in new : c = [gap |-> g, used |-> FALSE] /\ ~TooSmall(g, cs[g.born].atr)
    OBVIOUS
  <2>2. g \in GapsIn(cs) /\ g \in GapRecords
    BY <1>2, <1>3
  <2> HIDE DEF fresh
  <2> QED BY <2>1, <2>2
<1>8. Watched(Register(active, cs), cs)
  <2> SUFFICES ASSUME NEW g \in GapsIn(cs), ~TooSmall(g, cs[g.born].atr), Len(cs) - g.born <= FvgLookback
               PROVE  \E c \in active \union fresh : c.gap = g
    BY <1>5 DEF Watched
  <2>1. CASE g \in GapsIn(bs)
    <3>1. ~TooSmall(g, bs[g.born].atr)
      BY <1>4, <2>1
    <3>2. Len(bs) - g.born <= FvgLookback
      <4>1. g.born \in Int /\ FvgLookback \in Int
        BY <1>4, <2>1, EntryAssumption
      <4> QED BY <4>1, <1>1
    <3> QED BY <3>1, <3>2, <2>1 DEF Watched
  <2>2. CASE g \in new
    <3>1. [gap |-> g, used |-> FALSE] \in fresh
      BY <2>2
    <3> HIDE DEF fresh
    <3> QED BY <3>1
  <2> QED BY <2>1, <2>2, <1>2
<1> HIDE DEF fresh
<1> QED BY <1>5, <1>6, <1>7, <1>8 DEF Known

\* A candidate the bar marks is the same gap, used when it was or was just traded.
MarkOf(c, taken) == [c EXCEPT !.used = @ \/ \E e \in taken : e.gap = c.gap]

\* The candidates once the ones just traded are marked.
Stamped(active, taken) == {MarkOf(c, taken) : c \in active}

LEMMA MarkFacts ==
  ASSUME NEW bs, NEW active, NEW taken, Known(active, bs), NEW c \in active
  PROVE  /\ MarkOf(c, taken) = [gap |-> c.gap, used |-> MarkOf(c, taken).used]
         /\ MarkOf(c, taken).used \in BOOLEAN /\ MarkOf(c, taken).gap = c.gap
         /\ MarkOf(c, taken).used <=> (c.used \/ \E e \in taken : e.gap = c.gap)
<1> DEFINE stamp == [c EXCEPT !.used = @ \/ \E e \in taken : e.gap = c.gap]
<1>1. c = [gap |-> c.gap, used |-> c.used] /\ c.used \in BOOLEAN
  BY DEF Known
<1>2. PICK g, u : c = [gap |-> g, used |-> u] /\ u \in BOOLEAN
  BY <1>1
<1>3. (u \/ \E e \in taken : e.gap = g) \in BOOLEAN
  OBVIOUS
<1>4. PICK o \in BOOLEAN : o = (u \/ \E e \in taken : e.gap = g)
  BY <1>3
<1>5. stamp = [gap |-> g, used |-> o]
  BY <1>2, <1>4
<1>6. MarkOf(c, taken) = stamp
  BY DEF MarkOf
<1> HIDE DEF stamp
<1>7. o <=> (u \/ \E e \in taken : e.gap = g)
  BY <1>4
<1>8. c.gap = g /\ (c.used = u)
  BY <1>2
<1>9. stamp.gap = g /\ (stamp.used = o)
  BY <1>5
<1>10. stamp = [gap |-> c.gap, used |-> stamp.used] /\ (stamp.used = o)
  BY <1>5, <1>8
<1>11. stamp.used \in BOOLEAN /\ stamp.gap = c.gap
  BY <1>8, <1>9, <1>10
<1>12. stamp.used <=> (c.used \/ \E e \in taken : e.gap = c.gap)
  BY <1>7, <1>8, <1>9
<1> QED BY <1>6, <1>10, <1>11, <1>12

LEMMA MarkedKeeps ==
  ASSUME NEW bs, NEW active, NEW taken, Known(active, bs), Watched(active, bs)
  PROVE  Known(Stamped(active, taken), bs) /\ Watched(Stamped(active, taken), bs)
<1>1. Stamped(active, taken) = {MarkOf(c, taken) : c \in active}
  BY DEF Stamped
<1>2. Known(Stamped(active, taken), bs)
  <2> SUFFICES ASSUME NEW c \in active
               PROVE  LET s == MarkOf(c, taken)
                      IN  /\ s = [gap |-> s.gap, used |-> s.used] /\ s.used \in BOOLEAN /\ s.gap \in GapRecords
                          /\ s.gap \in GapsIn(bs) /\ ~TooSmall(s.gap, bs[s.gap.born].atr)
    BY <1>1 DEF Known
  <2>1. c.gap \in GapRecords /\ c.gap \in GapsIn(bs) /\ ~TooSmall(c.gap, bs[c.gap.born].atr)
    BY DEF Known
  <2>2. /\ MarkOf(c, taken) = [gap |-> c.gap, used |-> MarkOf(c, taken).used]
        /\ MarkOf(c, taken).used \in BOOLEAN /\ MarkOf(c, taken).gap = c.gap
    BY MarkFacts
  <2> QED BY <2>1, <2>2
<1>3. Watched(Stamped(active, taken), bs)
  <2>1. \A c \in active : MarkOf(c, taken) \in Stamped(active, taken) /\ MarkOf(c, taken).gap = c.gap
    BY <1>1, MarkFacts
  <2> QED BY <2>1 DEF Watched
<1> QED BY <1>2, <1>3

\* The bar enters what its candidates allow, once the gaps it enters are marked.
LEMMA OpenedIsAdmitted ==
  ASSUME NEW bs, NEW active, NEW taken, Known(active, bs), NEW bias, taken = Opened(active, bs, bias)
  PROVE  taken = Admitted(Stamped(active, taken), taken, bs, bias)
<1> DEFINE stamp(c) == MarkOf(c, taken)
<1>1. \A c \in active : stamp(c).gap = c.gap /\ (stamp(c).used <=> (c.used \/ \E e \in taken : e.gap = c.gap))
  BY MarkFacts
<1>2. Stamped(active, taken) = {stamp(c) : c \in active}
  BY DEF Stamped
<1> HIDE DEF stamp
<1> DEFINE b == bs[Len(bs)]
           may(g) == /\ g.dir = bias /\ InReach(g, Len(bs)) /\ b.full.bos = bias
                     /\ Retraced(g, b) /\ RiskOf(EntryAt(g, b.full, b.atr)) > 0
           fits == {c.gap : c \in {c \in active : ~c.used /\ may(c.gap)}}
<1>3. taken = {EntryAt(g, b.full, b.atr) : g \in Earliest(fits)}
  BY DEF Opened
<1>4. \A e \in taken : e.gap \in fits
  BY <1>3 DEF EntryAt, Earliest
<1>5. Enterable(Stamped(active, taken), taken, bs, bias) =
        {c.gap : c \in {c \in Stamped(active, taken) : (~c.used \/ \E e \in taken : e.gap = c.gap) /\ may(c.gap)}}
  BY DEF Enterable
<1> HIDE DEF may
<1>6. Enterable(Stamped(active, taken), taken, bs, bias) \subseteq fits
  <2> SUFFICES ASSUME NEW c \in active, ~stamp(c).used \/ \E e \in taken : e.gap = stamp(c).gap, may(stamp(c).gap)
               PROVE  stamp(c).gap \in fits
    BY <1>5, <1>2
  <2>1. CASE ~stamp(c).used
    BY <2>1, <1>1
  <2>2. CASE \E e \in taken : e.gap = stamp(c).gap
    BY <2>2, <1>4
  <2> QED BY <2>1, <2>2
<1>7. fits \subseteq Enterable(Stamped(active, taken), taken, bs, bias)
  <2> SUFFICES ASSUME NEW c \in active, ~c.used, may(c.gap)
               PROVE  c.gap \in Enterable(Stamped(active, taken), taken, bs, bias)
    OBVIOUS
  <2>1. stamp(c) \in Stamped(active, taken) /\ stamp(c).gap = c.gap
    BY <1>1, <1>2
  <2>2. ~stamp(c).used \/ \E e \in taken : e.gap = stamp(c).gap
    BY <1>1
  <2> QED BY <1>5, <2>1, <2>2
<1> QED BY <1>3, <1>6, <1>7 DEF Admitted

-----------------------------------------------------------------------------
(* The run of the backtest. *)

EntryShape ==
  /\ Framed(entryBars) /\ manual \in BOOLEAN /\ verdicts \in Seq({Flat, "LONG", "SHORT"})

CandidatesRight == Known(test.active, entryBars) /\ Watched(test.active, entryBars)

\* No trade that is open has a loose stop.
StopsRight == \A t \in test.open : Held(t)

\* What the backtest entered with the bar, when it might, is what its candidates allowed.
EntersAsAdmitted ==
  ~test.barred =>
    test.opened =
      IF BacktestBias = Flat THEN {}
      ELSE Admitted(test.active, test.opened, entryBars, BacktestBias)

\* The candidates are the gaps to watch, the last entry is theirs, and no trade has a loose stop.
EntryInv ==
  /\ EntryShape
  /\ CandidatesRight
  /\ EntersAsAdmitted
  /\ StopsRight
  /\ BankedNeverLoses

LEMMA EntryInvInit == EntryInit => EntryInv
<1> SUFFICES ASSUME EntryInit PROVE EntryInv
  OBVIOUS
<1>1. PICK s \in Starts :
        /\ verdicts = s.days /\ entryBars = s.bars /\ manual = s.manual
        /\ test = [Untraded EXCEPT !.barred = TRUE, !.active =
                 {[gap |-> g, used |-> FALSE] : g \in {g \in GapsIn(s.bars) : ~TooSmall(g, s.bars[g.born].atr)}}]
  BY DEF EntryInit
<1> DEFINE first == {[gap |-> g, used |-> FALSE] : g \in {g \in GapsIn(s.bars) : ~TooSmall(g, s.bars[g.born].atr)}}
<1>2. test = [open |-> {}, active |-> first, spent |-> 0, barred |-> TRUE, opened |-> {}, ended |-> {}]
  BY <1>1 DEF Untraded
<1>3. EntryShape
  BY <1>1, EntryAssumption DEF EntryShape, Framed, Flat
<1>4. \A g \in GapsIn(entryBars) : g \in GapRecords
  BY <1>3, GapsInFacts DEF EntryShape
<1>5. Known(first, entryBars)
  <2> SUFFICES ASSUME NEW c \in first
               PROVE  /\ c = [gap |-> c.gap, used |-> c.used] /\ c.used \in BOOLEAN /\ c.gap \in GapRecords
                      /\ c.gap \in GapsIn(entryBars) /\ ~TooSmall(c.gap, entryBars[c.gap.born].atr)
    BY DEF Known
  <2>1. PICK g \in GapsIn(entryBars) : c = [gap |-> g, used |-> FALSE] /\ ~TooSmall(g, entryBars[g.born].atr)
    BY <1>1
  <2> HIDE DEF first
  <2> QED BY <2>1, <1>4
<1>6. Watched(first, entryBars)
  <2> SUFFICES ASSUME NEW g \in GapsIn(entryBars), ~TooSmall(g, entryBars[g.born].atr)
               PROVE  \E c \in first : c.gap = g
    BY DEF Watched
  <2>1. [gap |-> g, used |-> FALSE] \in first
    BY <1>1
  <2> HIDE DEF first
  <2> QED BY <2>1
<1> HIDE DEF first
<1> QED BY <1>2, <1>3, <1>5, <1>6 DEF EntryInv, EntersAsAdmitted, CandidatesRight, StopsRight,
       BankedNeverLoses

\* A position that a turn opens may be open.
LEMMA OpenedHeld ==
  ASSUME NEW bs, Framed(bs), Len(bs) \in 1..Len(bs), NEW active, Known(active, bs), NEW bias,
         NEW e \in Opened(active, bs, bias)
  PROVE  Held(Position(e, Len(bs)))
<1> PICK b : b = bs[Len(bs)]
  OBVIOUS
<1>1. b \in EntryFrame
  BY DEF Framed, WellFormed
<1>2. PICK c \in active : e = EntryAt(c.gap, b.full, b.atr) /\ RiskOf(EntryAt(c.gap, b.full, b.atr)) > 0
  BY DEF Opened, Earliest
<1>3. PICK g \in GapRecords : g = c.gap
  BY DEF Known
<1>4. e = [gap |-> g, entry |-> NearSide(g), stop |-> Stop(g, b.full, b.atr)] /\ RiskOf(e) > 0
  BY <1>2, <1>3 DEF EntryAt
<1>5. NearSide(g) \in Int /\ FarSide(g) \in Int /\ g.dir \in {"LONG", "SHORT"}
  BY DEF GapRecords, NearSide, FarSide
<1>6. Stop(g, b.full, b.atr) \in Int
  <2>1. b.full.low \in Int /\ b.full.high \in Int /\ b.atr \in Nat
    BY <1>1 DEF EntryFrame, BreakReads
  <2>2. BuffersPerAtr \in Nat \ {0}
    BY EntryAssumption
  <2>3. b.atr \div BuffersPerAtr \in Int
    BY <2>1, <2>2, Z3
  <2>4. WayOf(g.dir) \in {1, -1}
    BY DEF WayOf
  <2>5. PICK cushion \in Int : cushion = b.atr \div BuffersPerAtr
    BY <2>3
  <2> QED BY <2>1, <2>4, <2>5, <1>5 DEF Stop
<1>7. Position(e, Len(bs)) = [gap |-> g, entry |-> e.entry, stop |-> e.stop, at |-> Len(bs),
                              banked |-> FALSE, peak |-> 0, runner |-> 0]
  BY <1>4 DEF Position
<1>8. RiskOf(Position(e, Len(bs))) > 0
  BY <1>4, <1>7 DEF RiskOf
<1>9. e.entry \in Int /\ e.stop \in Int /\ Len(bs) \in Int
  BY <1>4, <1>5, <1>6
<1> PICK p : p = Position(e, Len(bs))
  OBVIOUS
<1> QED BY <1>5, <1>7, <1>8, <1>9 DEF Held

LEMMA EntryInvStep == EntryInv /\ [EntryBarCloses]_entryVars => EntryInv'
<1> SUFFICES ASSUME EntryInv, [EntryBarCloses]_entryVars PROVE EntryInv'
  OBVIOUS
<1>1. CASE EntryBarCloses
  <2>1. PICK b \in EntryBars, said \in {Flat, "LONG", "SHORT"} :
          /\ entryBars' = Append(entryBars, b)
          /\ IF entryBars # <<>> /\ Len(entryBars) % EntryDay = 0
             THEN verdicts' = Append(verdicts, said)
             ELSE said = Flat /\ UNCHANGED verdicts
    BY <1>1 DEF EntryBarCloses
  <2>2. test' = Turn(test, entryBars', Today', BacktestBias') /\ manual' = manual
    BY <1>1 DEF EntryBarCloses
  <2> PICK bs : bs = entryBars
    OBVIOUS
  <2> PICK cs : cs = entryBars'
    OBVIOUS
  <2> PICK bias : bias = BacktestBias'
    OBVIOUS
  <2> PICK was : was = test
    OBVIOUS
  <2>3. Framed(bs) /\ manual \in BOOLEAN /\ WellFormed(b) /\ cs = Append(bs, b)
    BY <2>1, EntryAssumption DEF EntryInv, EntryShape
  <2>4. Framed(cs)
    BY <2>3, GapsOfOneMore
  <2>5. Len(cs) = Len(bs) + 1 /\ cs[Len(cs)] = b /\ Len(cs) \in 1..Len(cs)
    <3> HIDE DEF EntryFrame
    <3>1. bs \in Seq(EntryFrame) /\ b \in EntryFrame
      BY <2>3 DEF Framed, WellFormed
    <3> QED BY <3>1, <2>3
  <2>6. EntryShape'
    <3>1. verdicts' \in Seq({Flat, "LONG", "SHORT"})
      <4>1. verdicts \in Seq({Flat, "LONG", "SHORT"})
        BY DEF EntryInv, EntryShape
      <4> PICK V : V = {Flat, "LONG", "SHORT"}
        OBVIOUS
      <4>2. verdicts \in Seq(V) /\ said \in V
        BY <4>1
      <4>3. Append(verdicts, said) \in Seq(V)
        BY <4>2
      <4> QED BY <4>2, <4>3, <2>1
    <3> QED BY <3>1, <2>2, <2>3, <2>4 DEF EntryShape, Framed
  <2> DEFINE first  == ManageAll(was.open, cs[Len(cs)], Len(cs))
             cands == Register(was.active, cs)
             barred == first.open # {} \/ was.spent = Today'
             taken == IF barred \/ bias = Flat THEN {} ELSE Opened(cands, cs, bias)
             then   == ManageAll({Position(e, Len(cs)) : e \in taken}, cs[Len(cs)], Len(cs))
  <2>7. /\ test'.open = first.open \union then.open
        /\ test'.active = Stamped(cands, taken)
        /\ test'.barred = barred /\ test'.opened = taken
        /\ test'.ended = first.ended \union then.ended
    BY <2>2 DEF Turn, Stamped, MarkOf
  <2>8. Known(cands, cs) /\ Watched(cands, cs)
    BY <2>3, RegisterKeeps DEF EntryInv, CandidatesRight
  <2>9. /\ \A t \in first.open : Held(t)
        /\ \A e \in first.ended : EndsWell(e)
    <3>1. \A t \in was.open : Held(t)
      BY DEF EntryInv, StopsRight
    <3>2. Len(cs) \in Int
      BY <2>5
    <3> QED BY <3>1, <3>2, <2>3, <2>5, ManageAllKeeps
  <2>10. \A e \in taken : Held(Position(e, Len(cs)))
    BY <2>4, <2>5, <2>8, OpenedHeld
  <2>11. /\ \A t \in then.open : Held(t)
         /\ \A e \in then.ended : EndsWell(e)
    <3>1. \A t \in {Position(e, Len(cs)) : e \in taken} : Held(t)
      BY <2>10
    <3> PICK fresh : fresh = {Position(e, Len(cs)) : e \in taken}
      OBVIOUS
    <3> HIDE DEF taken
    <3>2. \A t \in fresh : Held(t)
      BY <3>1
    <3>3. Len(cs) \in Int
      BY <2>5
    <3> QED BY <3>2, <3>3, <2>3, <2>5, ManageAllKeeps
  <2> HIDE DEF first, cands, then, barred
  <2>12. Known(Stamped(cands, taken), cs) /\ Watched(Stamped(cands, taken), cs)
    BY <2>8, MarkedKeeps
  <2>13. ~barred /\ bias # Flat =>
           taken = Admitted(Stamped(cands, taken), taken, cs, bias)
    <3>1. ~barred /\ bias # Flat => taken = Opened(cands, cs, bias)
      OBVIOUS
    <3> HIDE DEF taken
    <3>2. taken = Opened(cands, cs, bias) => taken = Admitted(Stamped(cands, taken), taken, cs, bias)
      BY <2>8, OpenedIsAdmitted
    <3> QED BY <3>1, <3>2
  <2>14. bias = Flat => taken = {}
    OBVIOUS
  <2> HIDE DEF taken
  <2>15. \A as : (Known(as, cs))' <=> Known(as, cs)
    BY <2>2 DEF Known, GapsIn, GapsAround
  <2>16. \A as : (Watched(as, cs))' <=> Watched(as, cs)
    BY <2>2 DEF Watched, GapsIn, GapsAround
  <2>17. CandidatesRight'
    BY <2>7, <2>12, <2>15, <2>16 DEF CandidatesRight
  <2>18. EntersAsAdmitted'
    BY <2>7, <2>13, <2>14 DEF EntersAsAdmitted
  <2>19. StopsRight' /\ BankedNeverLoses'
    BY <2>7, <2>9, <2>11 DEF StopsRight, BankedNeverLoses, EndsWell
  <2> QED BY <2>6, <2>17, <2>18, <2>19 DEF EntryInv
<1>2. CASE UNCHANGED entryVars
  <2>1. verdicts' = verdicts /\ entryBars' = entryBars /\ manual' = manual /\ test' = test
    BY <1>2 DEF entryVars
  <2>2. EntryShape'
    BY <2>1 DEF EntryInv, EntryShape
  <2>3. CandidatesRight'
    BY <2>1 DEF EntryInv, CandidatesRight, Known, Watched, GapsIn, GapsAround
  <2>4. EntersAsAdmitted'
    BY <2>1 DEF EntryInv, EntersAsAdmitted, BacktestBias, LastVerdict
  <2>5. StopsRight' /\ BankedNeverLoses'
    BY <2>1 DEF EntryInv, StopsRight, BankedNeverLoses
  <2> QED BY <2>2, <2>3, <2>4, <2>5 DEF EntryInv
<1> QED BY <1>1, <1>2
LEMMA EntryInvHolds == EntrySpec => []EntryInv
BY EntryInvInit, EntryInvStep, PTL DEF EntrySpec

\* A trade of the backtest that banked its 2R part never ends below its entry, and one that
\* did not never loses more than its stop, for any bars, hold times and buffers
\* (backtest/engine.py, _manage_open).
THEOREM BankedTradesNeverLose == EntrySpec => []BankedNeverLoses
<1>1. EntryInv => BankedNeverLoses
  BY DEF EntryInv
<1> QED BY <1>1, EntryInvHolds, PTL

\* A bar never moves the opening of a trade.
LEMMA ManageKeepsOpening ==
  ASSUME NEW t, Held(t), NEW b, NEW i
  PROVE  \A u \in Manage(t, b, i).open : u.at = t.at
<1> DEFINE R == Manage(t, b, i)
<1> PICK g, n, s, a, k, p, r : t = [gap |-> g, entry |-> n, stop |-> s, at |-> a,
                                     banked |-> k, peak |-> p, runner |-> r]
  BY DEF Held
<1>1. \E y, z :
        \/ R.open = {} \/ R.open = {t}
        \/ R.open = {[t EXCEPT !.banked = TRUE, !.peak = y, !.runner = z]}
        \/ R.open = {[t EXCEPT !.peak = y, !.runner = z]}
  BY Zenon DEF Manage
<1> HIDE DEF R
<1>2. PICK y, z :
        \/ R.open = {} \/ R.open = {t}
        \/ R.open = {[t EXCEPT !.banked = TRUE, !.peak = y, !.runner = z]}
        \/ R.open = {[t EXCEPT !.peak = y, !.runner = z]}
  BY <1>1
<1>3. /\ [t EXCEPT !.banked = TRUE, !.peak = y, !.runner = z].at = t.at
      /\ [t EXCEPT !.peak = y, !.runner = z].at = t.at
  OBVIOUS
<1>4. \A u \in R.open : u.at = t.at
  BY <1>2, <1>3
<1> QED BY <1>4 DEF R

\* No day is spent before it comes, and the trades of the backtest were opened at a bar that closed.
OpenedAt(t, bs) == t.at \in 1..Len(bs)
EntryTypes == test.barred \in BOOLEAN /\ test.spent \in 0..Today /\ \A t \in test.open : OpenedAt(t, entryBars)

LEMMA EntryTypesStart == EntryInit => EntryTypes
<1> SUFFICES ASSUME EntryInit PROVE EntryTypes
  OBVIOUS
<1>1. PICK s \in Starts : \E active :
        verdicts = s.days /\ test = [Untraded EXCEPT !.barred = TRUE, !.active = active]
  BY DEF EntryInit
<1>4. PICK active : test = [Untraded EXCEPT !.barred = TRUE, !.active = active]
  BY <1>1
<1>2. test = [open |-> {}, active |-> active, spent |-> 0, barred |-> TRUE, opened |-> {}, ended |-> {}]
  BY <1>4 DEF Untraded
<1>3. Today \in Nat
  BY <1>1, EntryAssumption DEF Today
<1> QED BY <1>2, <1>3 DEF EntryTypes

LEMMA EntryTypesStep == EntryInv /\ EntryTypes /\ [EntryBarCloses]_entryVars => EntryTypes'
<1> SUFFICES ASSUME EntryInv, EntryTypes, [EntryBarCloses]_entryVars PROVE EntryTypes'
  OBVIOUS
<1>1. CASE EntryBarCloses
  <2>1. PICK b \in EntryBars, said \in {Flat, "LONG", "SHORT"} :
          /\ entryBars' = Append(entryBars, b)
          /\ IF entryBars # <<>> /\ Len(entryBars) % EntryDay = 0
             THEN verdicts' = Append(verdicts, said)
             ELSE said = Flat /\ UNCHANGED verdicts
    BY <1>1 DEF EntryBarCloses
  <2>2. test' = Turn(test, entryBars', Today', BacktestBias')
    BY <1>1 DEF EntryBarCloses
  <2> PICK bs : bs = entryBars
    OBVIOUS
  <2> PICK cs : cs = entryBars'
    OBVIOUS
  <2> PICK bias : bias = BacktestBias'
    OBVIOUS
  <2> PICK was : was = test
    OBVIOUS
  <2>3. bs \in Seq(EntryFrame) /\ b \in EntryFrame /\ cs = Append(bs, b)
    BY <2>1, EntryAssumption DEF EntryInv, EntryShape, Framed, WellFormed
  <2>4. Len(bs) \in Nat /\ Len(cs) = Len(bs) + 1 /\ Len(cs) \in 1..Len(cs)
    <3> HIDE DEF EntryFrame
    <3> QED BY <2>3
  <2>5. Today \in Nat /\ Today' \in Nat /\ Today <= Today'
    <3> PICK V : V = {Flat, "LONG", "SHORT"}
      OBVIOUS
    <3>1. verdicts \in Seq(V) /\ said \in V
      BY DEF EntryInv, EntryShape
    <3>2. Len(verdicts) \in Nat /\ (Len(verdicts') = Len(verdicts) \/ Len(verdicts') = Len(verdicts) + 1)
      BY <2>1, <3>1
    <3> QED BY <3>2 DEF Today
  <2> PICK day : day = Today'
    OBVIOUS
  <2> DEFINE first  == ManageAll(was.open, cs[Len(cs)], Len(cs))
             cands == Register(was.active, cs)
             barred == first.open # {} \/ was.spent = day
             taken == IF barred \/ bias = Flat THEN {} ELSE Opened(cands, cs, bias)
             fresh == {Position(e, Len(cs)) : e \in taken}
             then  == ManageAll(fresh, cs[Len(cs)], Len(cs))
  <2>6. /\ test'.open = first.open \union then.open
        /\ test'.spent = IF taken # {} THEN day ELSE was.spent
    BY <2>2 DEF Turn
  <2>7. test'.barred \in BOOLEAN
    BY <2>2 DEF Turn
  <2>8. Known(cands, cs) /\ \A t \in was.open : Held(t) /\ OpenedAt(t, bs)
    <3>1. Framed(bs) /\ manual \in BOOLEAN /\ WellFormed(b)
      BY <2>1, EntryAssumption DEF EntryInv, EntryShape
    <3> QED BY <2>3, <3>1, RegisterKeeps DEF EntryInv, CandidatesRight, StopsRight, EntryTypes
  <2>9. \A t \in first.open : OpenedAt(t, cs)
    <3>1. \A t \in first.open : \E s \in was.open : t \in Manage(s, cs[Len(cs)], Len(cs)).open
      BY DEF ManageAll
    <3> HIDE DEF first
    <3>2. \A t \in first.open : \E s \in was.open : t.at = s.at
      BY <2>8, <3>1, ManageKeepsOpening
    <3> QED BY <2>4, <2>8, <3>2 DEF OpenedAt
  <2>10. \A t \in fresh : Held(t) /\ t.at = Len(cs)
    <3>1. Framed(cs)
      <4>1. Framed(bs) /\ WellFormed(b)
        BY <2>1, EntryAssumption DEF EntryInv, EntryShape
      <4> QED BY <2>3, <4>1, GapsOfOneMore DEF EntryInv, EntryShape
    <3>2. \A e \in taken : Held(Position(e, Len(cs)))
      BY <2>4, <2>8, <3>1, OpenedHeld
    <3> HIDE DEF taken
    <3> QED BY <3>2 DEF Position
  <2>11. \A t \in then.open : OpenedAt(t, cs)
    <3>1. \A t \in then.open : \E s \in fresh : t \in Manage(s, cs[Len(cs)], Len(cs)).open
      BY DEF ManageAll
    <3> HIDE DEF then, fresh
    <3>2. \A t \in then.open : t.at = Len(cs)
      BY <2>10, <3>1, ManageKeepsOpening
    <3> QED BY <2>4, <3>2 DEF OpenedAt
  <2> HIDE DEF first, then, fresh, taken, barred
  <2>12. test'.spent \in 0..day
    BY <2>5, <2>6 DEF EntryTypes
  <2> QED BY <2>6, <2>7, <2>9, <2>11, <2>12 DEF EntryTypes
<1>2. CASE UNCHANGED entryVars
  BY <1>2 DEF entryVars, EntryTypes, Today, OpenedAt
<1> QED BY <1>1, <1>2

\* The type invariant of the entries, for any bars: the backtest's trades were opened at bars that
\* closed, with a price and a stop, and no day is spent before it comes (backtest/engine.py, run_backtest).
THEOREM EntryTypeCorrect == EntrySpec => []EntryTypeOK
<1>1. EntryInv /\ EntryTypes => EntryTypeOK
  <2> SUFFICES ASSUME EntryInv, EntryTypes PROVE EntryTypeOK
    OBVIOUS
  <2>1. verdicts \in Seq({Flat, "LONG", "SHORT"}) /\ manual \in BOOLEAN
    BY DEF EntryInv, EntryShape
  <2>2. \A d \in DOMAIN verdicts : verdicts[d] \in {Flat, "LONG", "SHORT"}
    <3> PICK V : V = {Flat, "LONG", "SHORT"}
      OBVIOUS
    <3>1. verdicts \in Seq(V)
      BY <2>1
    <3>2. \A d \in DOMAIN verdicts : verdicts[d] \in V
      BY <3>1
    <3> QED BY <3>2
  <2>3. \A t \in test.open : t.entry \in Int /\ t.stop \in Int /\ t.at \in 1..Len(entryBars)
    BY DEF EntryInv, StopsRight, Held, EntryTypes, OpenedAt
  <2> QED BY <2>1, <2>2, <2>3 DEF EntryTypeOK, EntryTypes
<1> QED BY <1>1, EntryInvHolds, EntryTypesStart, EntryTypesStep, PTL DEF EntrySpec

\* What the invariant says of the live step, whatever the bars.
LEMMA LiveFollows == EntryInv => LiveFollowsBacktest
<1> PICK i : i = Len(entryBars)
  OBVIOUS
<1> PICK b : b = entryBars[i]
  OBVIOUS
<1> SUFFICES ASSUME EntryInv, i >= Required, i > 0, Len(verdicts) # MinDays,
                    ~test.barred, b.seen = b.full, WeighedApart = {}
             PROVE  LiveEntry = test.opened
  BY DEF LiveFollowsBacktest
<1>1. LiveBias = BacktestBias
  <2>1. Len(verdicts) \in Nat
    BY DEF EntryInv, EntryShape
  <2> QED BY <2>1, BiasesAgree
<1>2. i \in Nat /\ Required \in Nat /\ FvgLookback \in Nat
  BY EntryAssumption DEF EntryInv, EntryShape, Framed
<1>3. CASE LiveBias = Flat
  <2>1. LiveEntry = {}
    BY <1>3 DEF LiveEntry
  <2> QED BY <1>1, <1>3, <2>1 DEF EntryInv, EntersAsAdmitted
<1>4. CASE LiveBias # Flat /\ b.seen.bos # LiveBias
  <2>1. Enterable(test.active, test.opened, entryBars, BacktestBias) = {}
    BY <1>1, <1>4 DEF Enterable
  <2>2. test.opened = {}
    BY <2>1, <1>1, <1>4 DEF EntryInv, EntersAsAdmitted, Admitted, Earliest
  <2>3. LiveEntry = {}
    BY <1>4 DEF LiveEntry
  <2> QED BY <2>2, <2>3
<1>5. CASE LiveBias # Flat /\ b.seen.bos = LiveBias
  <2> DEFINE may(g) == /\ InReach(g, i) /\ g.dir = LiveBias
                       /\ Retraced(g, b) /\ RiskOf(EntryAt(g, b.seen, b.atr)) > 0
             fits == {g \in GapsIn(entryBars) : may(g) /\ ~TooSmall(g, b.atr)}
             enter == Enterable(test.active, test.opened, entryBars, BacktestBias)
  <2>1. LiveEntry = {EntryAt(g, b.seen, b.atr) : g \in Earliest(fits)}
    <3>1. fits = {g \in GapsIn(entryBars) :
                  /\ InReach(g, i) /\ g.dir = LiveBias /\ ~TooSmall(g, b.atr)
                  /\ Retraced(g, b) /\ RiskOf(EntryAt(g, b.seen, b.atr)) > 0}
      OBVIOUS
    <3> HIDE DEF fits
    <3>2. ~(i < Required)
      BY <1>2
    <3> QED BY <3>1, <3>2, <1>5 DEF LiveEntry
  <2>2. test.opened = {EntryAt(g, b.seen, b.atr) : g \in Earliest(enter)}
    BY <1>1, <1>5 DEF EntryInv, EntersAsAdmitted, Admitted
  <2>3. enter = {c.gap : c \in {c \in test.active : (~c.used \/ \E e \in test.opened : e.gap = c.gap) /\ may(c.gap)}}
    BY <1>1, <1>5 DEF Enterable
  <2>4. \A g \in GapsIn(entryBars) : may(g) =>
          /\ TooSmall(g, b.atr) <=> TooSmall(g, entryBars[g.born].atr)
          /\ \A c \in test.active : c.gap = g /\ c.used => \E e \in test.opened : e.gap = g
          /\ i - g.born <= FvgLookback
    <3> SUFFICES ASSUME NEW g \in GapsIn(entryBars), may(g)
                 PROVE  /\ TooSmall(g, b.atr) <=> TooSmall(g, entryBars[g.born].atr)
                        /\ \A c \in test.active : c.gap = g /\ c.used => \E e \in test.opened : e.gap = g
                        /\ i - g.born <= FvgLookback
      OBVIOUS
    <3>1. InReach(g, i)
      OBVIOUS
    <3>2. g \notin WeighedApart
      OBVIOUS
    <3>3. g.born \in Int
      BY GapsInFacts DEF EntryInv, EntryShape
    <3>4. i - g.born <= FvgLookback
      BY <1>2, <3>1, <3>3 DEF InReach
    <3> HIDE DEF may
    <3> QED BY <3>1, <3>2, <3>4 DEF WeighedApart, TooSmall
  <2> HIDE DEF may
  <2>5. fits \subseteq enter
    <3> SUFFICES ASSUME NEW g \in GapsIn(entryBars), may(g), ~TooSmall(g, b.atr) PROVE g \in enter
      OBVIOUS
    <3>1. PICK c \in test.active : c.gap = g
      BY <2>4 DEF EntryInv, CandidatesRight, Watched
    <3>2. c.used \in BOOLEAN
      BY DEF EntryInv, CandidatesRight, Known
    <3>3. ~c.used \/ \E e \in test.opened : e.gap = c.gap
      BY <2>4, <3>1, <3>2
    <3> QED BY <2>3, <3>1, <3>3
  <2>6. enter \subseteq fits
    <3> SUFFICES ASSUME NEW c \in test.active, may(c.gap) PROVE c.gap \in fits
      BY <2>3
    <3>1. c.gap \in GapsIn(entryBars) /\ ~TooSmall(c.gap, entryBars[c.gap.born].atr)
      BY DEF EntryInv, CandidatesRight, Known
    <3> QED BY <2>4, <3>1
  <2> HIDE DEF fits, enter
  <2>7. fits = enter
    BY <2>5, <2>6
  <2> QED BY <2>1, <2>2, <2>7
<1> QED BY <1>3, <1>4, <1>5

\* "The exact, validated entry decision from run_backtest" (live/strategy_step.py:3): past the
\* first bars and days, with the same breaks and swings in sight and no gap weighed apart, the
\* live step enters where the backtest does, for any bars and parameters.
THEOREM LiveEntersAsTheBacktest == EntrySpec => []LiveFollowsBacktest
BY EntryInvHolds, LiveFollows, PTL


-----------------------------------------------------------------------------
(* The panels of a layout. *)

PanelBreaks == [way : {"UP", "DOWN"}, type : {"BOS", "MSB"}]

LEMMA PanelsTyped == LayoutSpec => []LayoutTypeOK
<1>1. LayoutInit => LayoutTypeOK
  BY DEF LayoutInit, LayoutTypeOK
<1>2. LayoutTypeOK /\ [PanelMoves]_panels => LayoutTypeOK'
  BY DEF LayoutTypeOK, PanelMoves
<1> QED BY <1>1, <1>2, PTL DEF LayoutSpec

\* A panel stands behind a way when its last break goes the way that is expected of it.
Backing(a, way) ==
  panels[a] # <<>> /\ panels[a][Len(panels[a])].way = IF Panels[a] = "POSITIVE" THEN way ELSE Opposite(way)

ReadsNow == [a \in DOMAIN Panels |-> Read(panels[a])]

\* What is read of a panel that can be read.
LEMMA ReadFacts ==
  ASSUME LayoutTypeOK, Readable(panels), NEW a \in DOMAIN Panels
  PROVE  /\ ReadsNow[a].broke <=> panels[a] # <<>>
         /\ panels[a] # <<>> => /\ ReadsNow[a].flow = panels[a][Len(panels[a])].way
                                /\ panels[a][Len(panels[a])].way \in {"UP", "DOWN"}
         /\ panels[a] = <<>> => ReadsNow[a].flow = "NEUTRAL"
<1> PICK h : h = panels[a]
  OBVIOUS
<1>1. h \in Seq(PanelBreaks)
  <2>1. h \in PanelHistories \union {<<>>}
    BY DEF LayoutTypeOK, Readable
  <2>2. PanelHistories \subseteq Seq(PanelBreaks)
    BY LayoutAssumption DEF PanelBreaks
  <2>3. <<>> \in Seq(PanelBreaks)
    <3> HIDE DEF PanelBreaks
    <3> QED OBVIOUS
  <2> HIDE DEF PanelBreaks
  <2> QED BY <2>1, <2>2, <2>3
<1>2. h # <<>> => h[Len(h)].way \in {"UP", "DOWN"}
  <2>1. h # <<>> => h[Len(h)] \in PanelBreaks
    <3> HIDE DEF PanelBreaks
    <3> QED BY <1>1
  <2> QED BY <2>1 DEF PanelBreaks
<1>3. ReadsNow[a] = Read(h)
  BY DEF ReadsNow
<1>4. (Read(h).broke <=> h # <<>>) /\ Read(h).flow = (IF h = <<>> THEN "NEUTRAL" ELSE h[Len(h)].way)
  BY DEF Read
<1> QED BY <1>2, <1>3, <1>4

\* A panel but the main one is disturbed exactly when it does not stand behind the layout.
LEMMA DisturbedFacts ==
  ASSUME LayoutTypeOK, Readable(panels), NEW way \in {"UP", "DOWN"},
         NEW a \in DOMAIN Panels, Panels[a] # "MAIN"
  PROVE  /\ Disturbed(ReadsNow, a, way) <=> ~Backing(a, way)
         /\ Backing(a, way) => ReadsNow[a].flow = Expected(a, way) /\ ~Against(ReadsNow, a, way)
<1>1. Panels[a] \in {"POSITIVE", "NEGATIVE"}
  BY LayoutAssumption
<1>2. Expected(a, way) = (IF Panels[a] = "POSITIVE" THEN way ELSE Opposite(way)) /\ Expected(a, way) \in {"UP", "DOWN"}
  BY <1>1 DEF Expected, Opposite
<1>3. Opposite(Expected(a, way)) # Expected(a, way) /\ Opposite(Expected(a, way)) \in {"UP", "DOWN"}
  BY <1>2 DEF Opposite
<1> HIDE DEF Expected, Opposite
<1>4. CASE panels[a] = <<>>
  BY <1>4, ReadFacts DEF Backing, Disturbed
<1>5. CASE panels[a] # <<>>
  <2>1. /\ ReadsNow[a].broke /\ ReadsNow[a].flow = panels[a][Len(panels[a])].way
        /\ ReadsNow[a].flow \in {"UP", "DOWN"}
    BY <1>5, ReadFacts
  <2>2. Backing(a, way) <=> ReadsNow[a].flow = Expected(a, way)
    BY <1>2, <1>5, <2>1 DEF Backing
  <2>3. Disturbed(ReadsNow, a, way) <=> ReadsNow[a].flow = Opposite(Expected(a, way))
    BY <2>1 DEF Disturbed, Against
  <2> QED BY <1>2, <1>3, <2>1, <2>2, <2>3 DEF Against, Opposite
<1> QED BY <1>4, <1>5

Others == {a \in DOMAIN Panels : Panels[a] # "MAIN"}
Unbacked(way) == {a \in Others : ~Backing(a, way)}

LEMMA CountFacts ==
  ASSUME LayoutTypeOK, Readable(panels), NEW way \in {"UP", "DOWN"}
  PROVE  /\ DisturbedCount(ReadsNow, way) = Cardinality(Unbacked(way))
         /\ Cardinality(Unbacked(way)) \in Nat
         /\ Cardinality(Unbacked(way)) < HeavyMin => Aligned(ReadsNow, way)
<1>1. {a \in DOMAIN Panels : Panels[a] # "MAIN" /\ Disturbed(ReadsNow, a, way)} = Unbacked(way)
  BY DisturbedFacts DEF Unbacked, Others
<1>2. DisturbedCount(ReadsNow, way) = Cardinality(Unbacked(way))
  BY <1>1 DEF DisturbedCount
<1>3. IsFiniteSet(Unbacked(way)) /\ Cardinality(Unbacked(way)) \in Nat
  BY LayoutAssumption, FS_Subset, FS_CardinalityType DEF Unbacked, Others
<1>4. ASSUME Cardinality(Unbacked(way)) < HeavyMin PROVE Aligned(ReadsNow, way)
  <2>1. \A a, b \in Unbacked(way) : a = b
    <3> SUFFICES ASSUME NEW a \in Unbacked(way), NEW b \in Unbacked(way), a # b PROVE FALSE
      OBVIOUS
    <3>1. {a, b} \subseteq Unbacked(way)
      OBVIOUS
    <3>2. Cardinality({a, b}) = 2
      <4>1. IsFiniteSet({a}) /\ Cardinality({a}) = 1
        BY FS_Singleton
      <4>2. Cardinality({a} \union {b}) = Cardinality({a}) + 1
        BY <4>1, FS_AddElement
      <4>3. {a, b} = {a} \union {b}
        OBVIOUS
      <4> QED BY <4>1, <4>2, <4>3
    <3>3. Cardinality({a, b}) <= Cardinality(Unbacked(way))
      BY <3>1, <1>3, FS_Subset
    <3> QED BY <1>3, <1>4, <3>2, <3>3, LayoutAssumption
  <2>2. CASE \E a \in Unbacked(way) : Panels[a] = "NEGATIVE"
    <3>1. \A a \in DOMAIN Panels : Panels[a] = "POSITIVE" => Backing(a, way)
      BY <2>1, <2>2 DEF Unbacked, Others
    <3>2. \A a \in DOMAIN Panels : Panels[a] = "POSITIVE" => ~Against(ReadsNow, a, way)
      BY <3>1, DisturbedFacts
    <3> QED BY <3>2 DEF Aligned
  <2>3. CASE ~\E a \in Unbacked(way) : Panels[a] = "NEGATIVE"
    <3>1. \A a \in DOMAIN Panels : Panels[a] = "NEGATIVE" => Backing(a, way)
      BY <2>3 DEF Unbacked, Others
    <3>2. \A a \in DOMAIN Panels : Panels[a] = "NEGATIVE" => ReadsNow[a].flow = Expected(a, way)
      BY <3>1, DisturbedFacts
    <3> QED BY <3>2 DEF Aligned
  <2> QED BY <2>2, <2>3
<1> QED BY <1>2, <1>3, <1>4

\* What decides and what is counted.
LEMMA DecisionFacts ==
  ASSUME LayoutTypeOK, Readable(panels), Read(panels["main"]).flow # "NEUTRAL"
  PROVE  LET way == Read(panels["main"]).flow IN
         /\ way \in {"UP", "DOWN"} /\ ShadowCount(panels) = Cardinality(Unbacked(way))
         /\ Cardinality(Unbacked(way)) \in Nat
         /\ \A fuel \in 1..3 : Decide(way, fuel, panels)[1] = "TAKE" <=> Cardinality(Unbacked(way)) < HeavyMin
<1> PICK way : way = Read(panels["main"]).flow
  OBVIOUS
<1>1. "main" \in DOMAIN Panels /\ ReadsNow["main"] = Read(panels["main"])
  BY LayoutAssumption DEF ReadsNow
<1>2. way \in {"UP", "DOWN"} /\ ReadsNow["main"].flow = way
  BY <1>1, ReadFacts
<1>3. ShadowCount(panels) = DisturbedCount(ReadsNow, way)
  <2>1. ShadowCount(panels) = DisturbedCount(ReadsNow, IF ReadsNow["main"].flow = "DOWN" THEN "DOWN" ELSE "UP")
    BY DEF ShadowCount, ReadsNow
  <2>2. (IF ReadsNow["main"].flow = "DOWN" THEN "DOWN" ELSE "UP") = way
    BY <1>2
  <2> QED BY <2>1, <2>2
<1>4. ASSUME NEW fuel \in 1..3
      PROVE  Decide(way, fuel, panels)[1] = "TAKE" <=> Cardinality(Unbacked(way)) < HeavyMin
  <2>1. Decide(way, fuel, panels) =
          IF DisturbedCount(ReadsNow, way) >= HeavyMin THEN <<"SKIP", "GATE-001">>
          ELSE IF ~Aligned(ReadsNow, way) THEN <<"SKIP", "GATE-009">>
          ELSE <<"TAKE", "GATE-009">>
    BY <1>2 DEF Decide, ReadsNow
  <2>2. DisturbedCount(ReadsNow, way) = Cardinality(Unbacked(way)) /\ Cardinality(Unbacked(way)) \in Nat
    BY <1>2, CountFacts
  <2>3. Cardinality(Unbacked(way)) < HeavyMin => Aligned(ReadsNow, way)
    BY <1>2, CountFacts
  <2>4. HeavyMin \in Nat
    BY LayoutAssumption
  <2>5. CASE Cardinality(Unbacked(way)) < HeavyMin
    <3>1. Decide(way, fuel, panels) = <<"TAKE", "GATE-009">>
      BY <2>1, <2>2, <2>3, <2>4, <2>5
    <3> QED BY <2>5, <3>1
  <2>6. CASE ~(Cardinality(Unbacked(way)) < HeavyMin)
    <3>1. Decide(way, fuel, panels) = <<"SKIP", "GATE-001">>
      BY <2>1, <2>2, <2>4, <2>6
    <3> QED BY <2>6, <3>1
  <2> QED BY <2>5, <2>6
<1> QED BY <1>2, <1>3, <1>4, CountFacts

-----------------------------------------------------------------------------
(* The risk of a layout. *)

\* What the matrix pays, cell by cell.
LEMMA Cells ==
  ASSUME NEW fuel \in 1..3, NEW grade \in 1..3, NEW red \in BOOLEAN
  PROVE  Cell(fuel, grade, red) =
           IF grade = 3 \/ (red /\ grade = 2) THEN 0
           ELSE IF red \/ grade = 2 THEN 25 * fuel ELSE 75 + 25 * fuel
<1>1. /\ RiskMatrix[1] = <<100, 25, 0>> /\ RiskMatrix[2] = <<125, 50, 0>> /\ RiskMatrix[3] = <<150, 75, 0>>
  BY DEF RiskMatrix
<1>2. \A f \in 1..3 : RiskMatrix[f] = <<75 + 25 * f, 25 * f, 0>>
  BY <1>1
<1>3. RiskMatrix[fuel] = <<75 + 25 * fuel, 25 * fuel, 0>>
  BY <1>2
<1>4. RiskMatrix[fuel][1] = 75 + 25 * fuel /\ RiskMatrix[fuel][2] = 25 * fuel /\ RiskMatrix[fuel][3] = 0
  BY <1>3
<1> QED BY <1>4 DEF Cell

LEMMA Payments ==
  ASSUME NEW fuel \in 1..3, NEW n \in Nat, NEW red \in BOOLEAN
  PROVE  LET pay == Size(fuel, n, "ALIGNED_MAJOR", red).risk IN
         /\ pay = IF n >= HeavyMin \/ (red /\ n > 0) THEN 0
                  ELSE IF red \/ n > 0 THEN 25 * fuel ELSE 75 + 25 * fuel
         /\ Conforms(pay)
<1>1. HeavyMin \in Nat \ {0}
  BY LayoutAssumption
<1> PICK grade : grade = DisturbanceGrade(n)
  OBVIOUS
<1>2. /\ grade \in 1..3 /\ (grade = 3 <=> n >= HeavyMin)
      /\ (grade = 2 <=> n > 0 /\ ~(n >= HeavyMin))
  BY <1>1 DEF DisturbanceGrade
<1> PICK pay : pay = Size(fuel, n, "ALIGNED_MAJOR", red).risk
  OBVIOUS
<1>3. pay = Cell(fuel, grade, red)
  BY DEF Size
<1>4. pay = IF grade = 3 \/ (red /\ grade = 2) THEN 0
            ELSE IF red \/ grade = 2 THEN 25 * fuel ELSE 75 + 25 * fuel
  BY <1>2, <1>3, Cells
<1>5. pay = IF n >= HeavyMin \/ (red /\ n > 0) THEN 0
            ELSE IF red \/ n > 0 THEN 25 * fuel ELSE 75 + 25 * fuel
  BY <1>2, <1>4
<1>6. Conforms(pay)
  <2>1. /\ RiskMatrix[1] = <<100, 25, 0>> /\ RiskMatrix[2] = <<125, 50, 0>> /\ RiskMatrix[3] = <<150, 75, 0>>
        /\ DOMAIN RiskMatrix = 1..3
    BY DEF RiskMatrix
  <2>2. \A f \in 1..3 : RiskMatrix[f] = <<75 + 25 * f, 25 * f, 0>>
    BY <2>1
  <2>3. RiskMatrix[fuel] \in Range(RiskMatrix)
    BY <2>1 DEF Range
  <2>4. PICK row : row = <<75 + 25 * fuel, 25 * fuel, 0>> /\ row = RiskMatrix[fuel]
    BY <2>2
  <2>5. /\ DOMAIN row = 1..3 /\ row[1] = 75 + 25 * fuel /\ row[2] = 25 * fuel /\ row[3] = 0
    BY <2>4
  <2>6. {75 + 25 * fuel, 25 * fuel, 0} \subseteq Range(row)
    BY <2>5 DEF Range
  <2>7. pay \in {75 + 25 * fuel, 25 * fuel, 0} /\ pay <= 150
    BY <1>5
  <2>8. row \in Range(RiskMatrix) /\ pay \in Range(row)
    BY <2>3, <2>4, <2>6, <2>7
  <2> QED BY <2>7, <2>8 DEF Conforms
<1> QED BY <1>5, <1>6

LEMMA LayoutDecides == LayoutTypeOK => TakenIsBackedAndPaid
<1> SUFFICES ASSUME LayoutTypeOK, Readable(panels), Read(panels["main"]).flow # "NEUTRAL"
             PROVE  TakenIsBackedAndPaid
  BY DEF TakenIsBackedAndPaid, TakeIsBacked, PaidAsTaken
<1> PICK way : way = Read(panels["main"]).flow
  OBVIOUS
<1> PICK count : count = Cardinality(Unbacked(way))
  OBVIOUS
<1>1. /\ way \in {"UP", "DOWN"} /\ ShadowCount(panels) = count /\ count \in Nat
      /\ \A fuel \in 1..3 : Decide(way, fuel, panels)[1] = "TAKE" <=> count < HeavyMin
  BY DecisionFacts
<1>2. HeavyMin \in Nat \ {0}
  BY LayoutAssumption
<1>3. TakeIsBacked
  <2>1. \A a : Backing(a, way) <=> (panels[a] # <<>> /\ panels[a][Len(panels[a])].way =
                      IF Panels[a] = "POSITIVE" THEN way ELSE Opposite(way))
    BY DEF Backing
  <2>2. count = Cardinality({a \in {a \in DOMAIN Panels : Panels[a] # "MAIN"} :
                  ~(panels[a] # <<>> /\ panels[a][Len(panels[a])].way =
                      IF Panels[a] = "POSITIVE" THEN way ELSE Opposite(way))})
    BY <2>1 DEF Unbacked, Others
  <2> QED BY <1>1, <2>2 DEF TakeIsBacked
<1>4. PaidAsTaken
  <2> DEFINE pay(fuel, n, red) == Size(fuel, n, "ALIGNED_MAJOR", red).risk
  <2>1. \A fuel \in 1..3, n \in Nat, red \in BOOLEAN :
          /\ pay(fuel, n, red) = IF n >= HeavyMin \/ (red /\ n > 0) THEN 0
                                 ELSE IF red \/ n > 0 THEN 25 * fuel ELSE 75 + 25 * fuel
          /\ Conforms(pay(fuel, n, red))
    BY Payments
  <2> HIDE DEF pay
  <2>2. ASSUME NEW fuel \in 1..3
        PROVE  /\ (pay(fuel, count, FALSE) > 0) <=> (Decide(way, fuel, panels)[1] = "TAKE")
               /\ (pay(fuel, count, TRUE) > 0) <=> (count = 0)
               /\ \A red \in BOOLEAN : /\ Conforms(pay(fuel, count, red))
                                      /\ pay(fuel, count, red) <= pay(fuel, count, FALSE)
                                      /\ pay(fuel, count + 1, red) <= pay(fuel, count, red)
                                      /\ fuel > 1 => pay(fuel - 1, count, red) <= pay(fuel, count, red)
    <3>1. /\ pay(fuel, count, FALSE) = IF count >= HeavyMin THEN 0 ELSE IF count > 0 THEN 25 * fuel ELSE 75 + 25 * fuel
          /\ pay(fuel, count, TRUE) = IF count >= HeavyMin \/ count > 0 THEN 0 ELSE 25 * fuel
      <4>1. \A red \in BOOLEAN :
              pay(fuel, count, red) = IF count >= HeavyMin \/ (red /\ count > 0) THEN 0
                                      ELSE IF red \/ count > 0 THEN 25 * fuel ELSE 75 + 25 * fuel
        BY <1>1, <2>1
      <4>2. pay(fuel, count, FALSE) = IF count >= HeavyMin \/ (FALSE /\ count > 0) THEN 0
                                      ELSE IF FALSE \/ count > 0 THEN 25 * fuel ELSE 75 + 25 * fuel
        BY <4>1
      <4>3. pay(fuel, count, TRUE) = IF count >= HeavyMin \/ (TRUE /\ count > 0) THEN 0
                                      ELSE IF TRUE \/ count > 0 THEN 25 * fuel ELSE 75 + 25 * fuel
        BY <4>1
      <4> QED BY <4>2, <4>3
    <3>2. PICK normal : normal = pay(fuel, count, FALSE)
      BY Zenon
    <3>3. PICK folder : folder = pay(fuel, count, TRUE)
      BY Zenon
    <3>4. /\ normal = IF count >= HeavyMin THEN 0 ELSE IF count > 0 THEN 25 * fuel ELSE 75 + 25 * fuel
          /\ folder = IF count >= HeavyMin \/ count > 0 THEN 0 ELSE 25 * fuel
      BY <3>1, <3>2, <3>3, Zenon
    <3>5. (normal > 0 <=> count < HeavyMin) /\ (folder > 0 <=> count = 0)
      BY <1>1, <1>2, <3>4
    <3>6. /\ (pay(fuel, count, FALSE) > 0) <=> (Decide(way, fuel, panels)[1] = "TAKE")
          /\ (pay(fuel, count, TRUE) > 0) <=> (count = 0)
      <4>1. normal > 0 <=> (Decide(way, fuel, panels)[1] = "TAKE")
        BY <1>1, <3>5
      <4> QED BY <3>5, <3>2, <3>3, <4>1, Zenon
    <3>7. ASSUME NEW red \in BOOLEAN
          PROVE  /\ Conforms(pay(fuel, count, red))
                 /\ pay(fuel, count, red) <= pay(fuel, count, FALSE)
                 /\ pay(fuel, count + 1, red) <= pay(fuel, count, red)
                 /\ fuel > 1 => pay(fuel - 1, count, red) <= pay(fuel, count, red)
      <4>1. Conforms(pay(fuel, count, red))
        BY <1>1, <2>1
      <4>2. pay(fuel, count, red) <= pay(fuel, count, FALSE)
        <5>1. pay(fuel, count, red) <= normal
          BY <1>1, <1>2, <2>1, <3>4
        <5> QED BY <5>1, <3>2, Zenon
      <4>3. pay(fuel, count + 1, red) <= pay(fuel, count, red)
        <5>1. count + 1 \in Nat
          BY <1>1
        <5> QED BY <5>1, <1>1, <1>2, <2>1
      <4>4. fuel > 1 => pay(fuel - 1, count, red) <= pay(fuel, count, red)
        <5>1. fuel > 1 => fuel - 1 \in 1..3
          OBVIOUS
        <5> QED BY <5>1, <1>1, <1>2, <2>1
      <4> QED BY <4>1, <4>2, <4>3, <4>4
    <3> QED BY <3>6, <3>7, Zenon
  <2>3. PaidAsTaken <=>
          \A fuel \in 1..3 :
            /\ (pay(fuel, count, FALSE) > 0) <=> (Decide(way, fuel, panels)[1] = "TAKE")
            /\ (pay(fuel, count, TRUE) > 0) <=> (count = 0)
            /\ \A red \in BOOLEAN : /\ Conforms(pay(fuel, count, red))
                                   /\ pay(fuel, count, red) <= pay(fuel, count, FALSE)
                                   /\ pay(fuel, count + 1, red) <= pay(fuel, count, red)
                                   /\ fuel > 1 => pay(fuel - 1, count, red) <= pay(fuel, count, red)
    BY <1>1 DEF PaidAsTaken, pay
  <2> QED BY <2>2, <2>3
<1> QED BY <1>3, <1>4 DEF TakenIsBackedAndPaid

\* A layout that can be read is taken exactly when all its correlates, or all but one, stand
\* behind it, and is paid for exactly when it is taken, for any roster of panels and any
\* history of theirs (rules/evaluator.py, evaluate_layout; gate_032_risk_matrix.py).
THEOREM LayoutTakesWhatIsBacked == LayoutSpec => []TakenIsBackedAndPaid
BY PanelsTyped, LayoutDecides, PTL


-----------------------------------------------------------------------------
(* The exits of a trade, in the model and in the live loop. *)

ExitRows == [at : Nat, tenths : 0..10, price : Int, reason : Terminal \union {"PARTIAL_2R"}]

\* An exit banks the partial, or closes what it leaves.
Banks(e) == e.reason = "PARTIAL_2R" /\ e.tenths = 7
Ends(e, tenths) == e.reason \in Terminal /\ e.tenths = tenths

\* The exits of a trade: none, the partial, a runner of the whole, or a partial and its runner.
Laddered(evs) ==
  /\ evs \in Seq(ExitRows)
  /\ \/ Len(evs) = 0
     \/ Len(evs) = 1 /\ (Banks(evs[1]) \/ Ends(evs[1], 10))
     \/ Len(evs) = 2 /\ Banks(evs[1]) /\ Ends(evs[2], 3)

\* EXIT-001 has ended the trade at its target or at a session's close.
EndedApart == \E k \in DOMAIN exits : exits[k].reason \in {"FINAL_TARGET", "SESSION_CLOSE"}

\* The model's exits and the loop's, alike in size and time until EXIT-001 ends the trade apart.
ExitInv ==
  /\ trade \in Trades /\ Plannable(trade) /\ lastMark \in Int /\ hours \in Seq(Nat)
  /\ Laddered(exits) /\ Laddered(banked)
  /\ ~EndedApart => Sized(exits) = Sized(banked)

\* What one more exit adds.
LEMMA OutAppend ==
  ASSUME NEW evs \in Seq(ExitRows), NEW e \in ExitRows
  PROVE  Out(<<>>) = 0 /\ Out(Append(evs, e)) = Out(evs) + e.tenths /\ Out(evs) \in Int
<1> DEFINE n == Len(evs) + 1
           S == 1..n
           T == 1..Len(evs)
           more == Append(evs, e)
           f == [k \in DOMAIN more |-> more[k].tenths]
           g == [k \in DOMAIN evs |-> evs[k].tenths]
<1>0. Len(evs) \in Nat /\ n \in Int /\ Len(evs) \in Int /\ 1 \in Int
  OBVIOUS
<1>1. IsFiniteSet(S) /\ IsFiniteSet(T) /\ IsFiniteSet({}) /\ T = S \ {n} /\ n \in S
  <2>1. IsFiniteSet(S) /\ IsFiniteSet(T) /\ IsFiniteSet({})
    BY <1>0, FS_Interval, FS_EmptySet
  <2>2. T = S \ {n} /\ n \in S
    BY <1>0
  <2> QED BY <2>1, <2>2
<1>2. DOMAIN more = S /\ DOMAIN evs = T /\ more[n] = e /\ \A k \in T : more[k] = evs[k] /\ evs[k] \in ExitRows
  BY <1>0
<1>3. f \in [S -> Int] /\ f[n] = e.tenths /\ g \in [T -> Int] /\ \A k \in T : f[k] \in Int /\ g[k] = f[k]
  <2>1. e.tenths \in Int /\ \A k \in T : evs[k].tenths \in Int
    <3>1. \A x \in ExitRows : x.tenths \in 0..10
      BY DEF ExitRows
    <3> HIDE DEF S, T, n, more
    <3> QED BY <1>2, <3>1
  <2>2. \A k \in S : k = n \/ k \in T
    BY <1>1
  <2> HIDE DEF S, T, n, more
  <2>3. \A k \in S : f[k] = more[k].tenths /\ more[k].tenths \in Int
    BY <1>2, <2>1, <2>2
  <2>4. \A k \in T : g[k] = evs[k].tenths
    BY <1>2
  <2> QED BY <1>1, <1>2, <2>1, <2>2, <2>3, <2>4
<1>4. Out(more) = SumFunctionOnSet(f, S) /\ Out(evs) = SumFunctionOnSet(g, T)
  BY <1>2 DEF Out
<1> HIDE DEF S, T, f, g, n, more
<1>5. SumFunctionOnSet(f, S) = f[n] + SumFunctionOnSet(f, S \ {n})
  BY <1>1, <1>3, SumWithout
<1>6. SumFunctionOnSet(f, T) = SumFunctionOnSet(g, T)
  BY <1>1, <1>3, SumSame
<1>7. SumFunctionOnSet(g, T) \in Int
  BY <1>1, <1>3, SumRecursion
<1>8. Out(<<>>) = 0
  <2> DEFINE h == [k \in DOMAIN <<>> |-> (<<>>)[k].tenths]
  <2>1. DOMAIN <<>> = {} /\ h \in [{} -> Int]
    OBVIOUS
  <2>2. Out(<<>>) = SumFunctionOnSet(h, {})
    BY <2>1 DEF Out
  <2> HIDE DEF h
  <2>3. SumFunctionOnSet(h, {}) = 0
    BY <1>1, <2>1, SumRecursion
  <2> QED BY <2>2, <2>3
<1>9. Out(more) = Out(evs) + e.tenths
  BY <1>1, <1>3, <1>4, <1>5, <1>6, <1>7
<1> QED BY <1>4, <1>7, <1>8, <1>9 DEF more

\* What is out of a laddered trade.
LEMMA OutOfLadder ==
  ASSUME NEW evs, Laddered(evs)
  PROVE  /\ Len(evs) = 0 => Out(evs) = 0
         /\ Len(evs) = 1 => Out(evs) = evs[1].tenths
         /\ Len(evs) = 2 => Out(evs) = 10
<1>1. evs \in Seq(ExitRows)
  BY DEF Laddered
<1>2. CASE Len(evs) = 0
  <2>1. evs = <<>>
    BY <1>1, <1>2
  <2>2. [at |-> 0, tenths |-> 0, price |-> 0, reason |-> "PARTIAL_2R"] \in ExitRows
    BY DEF ExitRows
  <2>3. Out(<<>>) = 0
    BY <1>1, <2>2, OutAppend
  <2> QED BY <1>2, <2>1, <2>3
<1>3. CASE Len(evs) = 1
  <2>1. PICK e \in ExitRows : e = evs[1]
    BY <1>1, <1>3
  <2>2. evs = Append(<<>>, e) /\ <<>> \in Seq(ExitRows)
    BY <1>1, <1>3, <2>1
  <2>3. Out(Append(<<>>, e)) = Out(<<>>) + e.tenths /\ Out(<<>>) = 0
    BY <2>2, OutAppend
  <2>4. e.tenths \in Int
    BY DEF ExitRows
  <2> QED BY <1>3, <2>1, <2>2, <2>3, <2>4
<1>4. CASE Len(evs) = 2
  <2>1. PICK e \in ExitRows, h \in ExitRows : e = evs[1] /\ h = evs[2]
    <3>1. evs[1] \in ExitRows /\ evs[2] \in ExitRows
      <4>1. evs \in [1..2 -> ExitRows]
        BY <1>1, <1>4
      <4> QED BY <4>1
    <3> QED BY <3>1, Zenon
  <2>2. PICK one : one = Append(<<>>, e)
    OBVIOUS
  <2>3. evs = Append(one, h) /\ <<>> \in Seq(ExitRows) /\ one \in Seq(ExitRows)
    BY <1>1, <1>4, <2>1, <2>2
  <2>4. Out(one) = Out(<<>>) + e.tenths /\ Out(<<>>) = 0
    BY <2>2, <2>3, OutAppend
  <2>5. Out(evs) = Out(one) + h.tenths
    BY <2>3, OutAppend
  <2>6. e.tenths = 7 /\ h.tenths = 3
    BY <1>4, <2>1 DEF Laddered, Banks, Ends
  <2> QED BY <1>4, <2>4, <2>5, <2>6
<1> QED BY <1>2, <1>3, <1>4

\* A laddered trade is whole or open, and either way has no second partial or runner.
LEMMA LadderKept ==
  ASSUME NEW evs, Laddered(evs)
  PROVE  /\ LadderViolations(evs) = {}
         /\ (Left(evs) = 0) <=> (Terminals(evs) # {})
         /\ (Partials(evs) = {}) <=> ~(Len(evs) > 0 /\ Banks(evs[1]))
         /\ Left(evs) = IF Len(evs) = 0 THEN 10 ELSE IF Len(evs) = 1 /\ Banks(evs[1]) THEN 3 ELSE 0
<1>1. /\ Len(evs) = 0 => Out(evs) = 0
      /\ Len(evs) = 1 => Out(evs) = evs[1].tenths
      /\ Len(evs) = 2 => Out(evs) = 10
  BY OutOfLadder
<1>2. evs \in Seq(ExitRows) /\ DOMAIN evs = 1..Len(evs) /\ Len(evs) \in {0, 1, 2}
  BY DEF Laddered
<1>3. Partials(evs) = IF Len(evs) > 0 /\ Banks(evs[1]) THEN {1} ELSE {}
  BY <1>2 DEF Partials, Of, Laddered, Banks, Ends, Terminal
<1>4. Terminals(evs) = IF Len(evs) = 2 THEN {2} ELSE IF Len(evs) = 1 /\ ~Banks(evs[1]) THEN {1} ELSE {}
  BY <1>2 DEF Terminals, Of, Laddered, Banks, Ends, Terminal
<1>5. Left(evs) = IF Len(evs) = 0 THEN 10 ELSE IF Len(evs) = 1 /\ Banks(evs[1]) THEN 3 ELSE 0
  BY <1>1, <1>2 DEF Left, Laddered, Banks, Ends
<1>6. Cardinality({}) = 0 /\ Cardinality({1}) = 1 /\ Cardinality({2}) = 1
  BY FS_EmptySet, FS_Singleton
<1>7. ~(Cardinality(Partials(evs)) > 1) /\ ~(Cardinality(Terminals(evs)) > 1)
  BY <1>3, <1>4, <1>6
<1>8. ~(Len(evs) > 2) /\ ~(Out(evs) > 10)
  BY <1>1, <1>2 DEF Laddered, Banks, Ends
<1>9. LadderViolations(evs) = {}
  BY <1>7, <1>8 DEF LadderViolations
<1>10. (Left(evs) = 0) <=> (Terminals(evs) # {})
  <2>1. CASE Len(evs) = 0
    BY <1>4, <1>5, <2>1
  <2>2. CASE Len(evs) = 2
    BY <1>4, <1>5, <2>2
  <2>3. CASE Len(evs) = 1 /\ Banks(evs[1])
    BY <1>4, <1>5, <2>3
  <2>4. CASE Len(evs) = 1 /\ ~Banks(evs[1])
    BY <1>4, <1>5, <2>4
  <2> QED BY <1>2, <2>1, <2>2, <2>3, <2>4
<1> QED BY <1>3, <1>5, <1>9, <1>10

\* Sequences with one domain are of one length.
LEMMA SameDomain ==
  ASSUME NEW S, NEW s \in Seq(S), NEW t \in Seq(S), DOMAIN s = DOMAIN t
  PROVE  DOMAIN s = DOMAIN t /\ Len(s) = Len(t)
<1>1. Len(s) \in Nat /\ Len(t) \in Nat /\ DOMAIN s = 1..Len(s) /\ DOMAIN t = 1..Len(t)
  OBVIOUS
<1>2. \A n, m \in Nat : 1..n = 1..m => ~(n < m)
  <2> SUFFICES ASSUME NEW n \in Nat, NEW m \in Nat, n < m, 1..n = 1..m PROVE FALSE
    OBVIOUS
  <2>1. m \in 1..m /\ m \notin 1..n
    OBVIOUS
  <2> QED BY <2>1, Zenon
<1>3. 1..Len(s) = 1..Len(t)
  BY <1>1, Zenon
<1>4. \A n, m \in Nat : ~(n < m) /\ ~(m < n) => n = m
  OBVIOUS
<1> QED BY <1>1, <1>2, <1>3, <1>4, Zenon

\* The size and the time of the exits, one more.
LEMMA SizedAlike ==
  ASSUME NEW evs \in Seq(ExitRows), NEW other \in Seq(ExitRows), NEW e \in ExitRows, NEW d \in ExitRows,
         Sized(evs) = Sized(other), e.at = d.at, e.tenths = d.tenths, e.reason = d.reason
  PROVE  Sized(Append(evs, e)) = Sized(Append(other, d))
<1>1. DOMAIN Sized(evs) = DOMAIN evs /\ DOMAIN Sized(other) = DOMAIN other
  BY DEF Sized
<1>2. DOMAIN evs = DOMAIN other /\ Len(evs) = Len(other)
  <2>1. DOMAIN evs = DOMAIN other
    BY <1>1, Zenon
  <2>2. evs \in Seq(ExitRows) /\ other \in Seq(ExitRows)
    OBVIOUS
  <2> QED BY <2>1, <2>2, SameDomain
<1>3. \A k \in DOMAIN evs : evs[k].at = other[k].at /\ evs[k].tenths = other[k].tenths /\ evs[k].reason = other[k].reason
  <2> TAKE k \in DOMAIN evs
  <2>1. Sized(evs)[k] = [at |-> evs[k].at, tenths |-> evs[k].tenths, reason |-> evs[k].reason]
        /\ Sized(other)[k] = [at |-> other[k].at, tenths |-> other[k].tenths, reason |-> other[k].reason]
    BY <1>2 DEF Sized
  <2>2. [at |-> evs[k].at, tenths |-> evs[k].tenths, reason |-> evs[k].reason]
        = [at |-> other[k].at, tenths |-> other[k].tenths, reason |-> other[k].reason]
    BY <2>1
  <2> QED BY <2>2
<1> DEFINE more == Append(evs, e)
           most == Append(other, d)
<1>4. DOMAIN more = DOMAIN most
      /\ \A k \in DOMAIN more : more[k].at = most[k].at /\ more[k].tenths = most[k].tenths /\ more[k].reason = most[k].reason
  BY <1>2, <1>3
<1> HIDE DEF more, most
<1>5. Sized(more) = Sized(most)
  BY <1>4 DEF Sized
<1> QED BY <1>5 DEF more, most

\* The same size and time: the same kind of exits so far.
LEMMA AlikeKind ==
  ASSUME NEW evs, NEW other, Laddered(evs), Laddered(other), Sized(evs) = Sized(other)
  PROVE  Len(evs) = Len(other) /\ (Len(evs) > 0 => (Banks(evs[1]) <=> Banks(other[1])))
<1>1. evs \in Seq(ExitRows) /\ other \in Seq(ExitRows)
  BY DEF Laddered
<1>2. DOMAIN Sized(evs) = DOMAIN evs /\ DOMAIN Sized(other) = DOMAIN other
  BY DEF Sized
<1>3. DOMAIN evs = DOMAIN other /\ Len(evs) = Len(other)
  <2>1. DOMAIN evs = DOMAIN other
    BY <1>1, <1>2, Zenon
  <2>2. evs \in Seq(ExitRows) /\ other \in Seq(ExitRows)
    BY <1>1
  <2> QED BY <2>1, <2>2, SameDomain
<1>4. ASSUME Len(evs) > 0 PROVE Banks(evs[1]) <=> Banks(other[1])
  <2>1. Sized(evs)[1] = [at |-> evs[1].at, tenths |-> evs[1].tenths, reason |-> evs[1].reason]
        /\ Sized(other)[1] = [at |-> other[1].at, tenths |-> other[1].tenths, reason |-> other[1].reason]
    BY <1>1, <1>3, <1>4 DEF Sized
  <2>2. [at |-> evs[1].at, tenths |-> evs[1].tenths, reason |-> evs[1].reason]
        = [at |-> other[1].at, tenths |-> other[1].tenths, reason |-> other[1].reason]
    BY <2>1
  <2>3. evs[1].tenths = other[1].tenths /\ evs[1].reason = other[1].reason
    BY <2>2
  <2> QED BY <2>3 DEF Banks
<1> QED BY <1>3, <1>4

\* A laddered trade that is not whole takes its partial once, and then its runner.
LEMMA PartialBanks ==
  ASSUME NEW evs, Laddered(evs), Left(evs) = 10, NEW at \in Nat, NEW price \in Int
  PROVE  Exit(at, 7, price, "PARTIAL_2R") \in ExitRows /\ Laddered(Append(evs, Exit(at, 7, price, "PARTIAL_2R")))
<1>1. evs \in Seq(ExitRows) /\ Len(evs) = 0
  BY LadderKept DEF Laddered
<1>2. PICK e : e = Exit(at, 7, price, "PARTIAL_2R")
  OBVIOUS
<1>3. e \in ExitRows /\ Banks(e)
  BY <1>2 DEF Exit, ExitRows, Banks
<1>4. Append(evs, e) \in Seq(ExitRows) /\ Len(Append(evs, e)) = 1 /\ Append(evs, e)[1] = e
  BY <1>1, <1>3
<1>5. Laddered(Append(evs, e))
  BY <1>3, <1>4 DEF Laddered
<1> QED BY <1>2, <1>3, <1>5

LEMMA RunnerEnds ==
  ASSUME NEW evs, Laddered(evs), Left(evs) # 0, NEW at \in Nat, NEW price \in Int, NEW reason \in Terminal
  PROVE  Exit(at, Left(evs), price, reason) \in ExitRows /\ Laddered(Append(evs, Exit(at, Left(evs), price, reason)))
<1>1. /\ evs \in Seq(ExitRows) /\ Len(evs) \in {0, 1} /\ (Len(evs) = 1 => Banks(evs[1]))
      /\ Left(evs) = IF Len(evs) = 0 THEN 10 ELSE 3
  BY LadderKept DEF Laddered
<1>2. PICK e : e = Exit(at, Left(evs), price, reason)
  OBVIOUS
<1>3. e \in ExitRows /\ Ends(e, IF Len(evs) = 0 THEN 10 ELSE 3)
  BY <1>1, <1>2 DEF Exit, ExitRows, Ends
<1>4. Append(evs, e) \in Seq(ExitRows) /\ Len(Append(evs, e)) = Len(evs) + 1 /\ Append(evs, e)[Len(evs) + 1] = e
      /\ (Len(evs) = 1 => Append(evs, e)[1] = evs[1])
  BY <1>1, <1>3
<1>5. Laddered(Append(evs, e))
  BY <1>1, <1>3, <1>4 DEF Laddered
<1> QED BY <1>2, <1>3, <1>5

\* One tick of EXIT-001: the partial, if it is due, and the runner, if it ends.
Due(p, evs, price) == Len(evs) = 0 /\ Beyond(p, price, PartialLevel(p))
Paid(p, evs, at, price, was) ==
  IF Due(p, evs, price) THEN Append(evs, Exit(at, 7, was, "PARTIAL_2R")) ELSE evs

ModelTick(p, evs, at, price, paid, next) ==
  \/ ~AtOrWorse(p, price, p.stop) /\ next = paid
  \/ /\ AtOrWorse(p, price, p.stop)
     /\ next = Append(paid, Exit(at, Left(paid), price, "STOP_HIT"))
  \/ /\ ~AtOrWorse(p, price, p.stop)
     /\ \E why \in {"FINAL_TARGET", "SESSION_CLOSE"} : next = Append(paid, Exit(at, Left(paid), price, why))

LoopTick(p, at, price, paid, then) ==
  then = IF Left(paid) > 0 /\ AtOrWorse(p, price, p.stop)
         THEN Append(paid, Exit(at, Left(paid), p.stop, "STOP_HIT")) ELSE paid

LEMMA Simulated ==
  ASSUME NEW p, NEW evs, Laddered(evs), NEW at \in Nat, NEW close, NEW price \in Int
  PROVE  /\ Left(evs) = 0 => Simulate(p, evs, at, close, price) = evs
         /\ Left(evs) # 0 =>
              ModelTick(p, evs, at, price, Paid(p, evs, at, price, price), Simulate(p, evs, at, close, price))
<1>1. CASE Left(evs) = 0
  BY <1>1 DEF Simulate
<1>2. CASE Left(evs) # 0
  <2>1. (Partials(evs) = {}) <=> Len(evs) = 0
    BY <1>2, LadderKept DEF Laddered
  <2>2. PICK paid : paid = Paid(p, evs, at, price, price)
    OBVIOUS
  <2>3. paid = IF Partials(evs) = {} /\ Beyond(p, price, PartialLevel(p))
               THEN Append(evs, Exit(at, 7, price, "PARTIAL_2R")) ELSE evs
    BY <2>1, <2>2 DEF Due, Paid
  <2>4. PICK ends : ends = IF AtOrWorse(p, price, p.stop) THEN {"STOP_HIT"}
                           ELSE IF Beyond(p, price, p.target) THEN {"FINAL_TARGET"}
                           ELSE IF at >= close THEN {"SESSION_CLOSE"} ELSE {}
    OBVIOUS
  <2>5. Simulate(p, evs, at, close, price)
        = IF ends = {} THEN paid ELSE Append(paid, Exit(at, Left(paid), price, CHOOSE why \in ends : TRUE))
    <3> DEFINE full == IF Partials(evs) = {} /\ Beyond(p, price, PartialLevel(p))
                       THEN Append(evs, Exit(at, 7, price, "PARTIAL_2R")) ELSE evs
               over == IF AtOrWorse(p, price, p.stop) THEN {"STOP_HIT"}
                       ELSE IF Beyond(p, price, p.target) THEN {"FINAL_TARGET"}
                       ELSE IF at >= close THEN {"SESSION_CLOSE"} ELSE {}
    <3>1. Simulate(p, evs, at, close, price)
          = IF Left(evs) = 0 THEN evs
            ELSE IF over = {} THEN full
            ELSE Append(full, Exit(at, Left(full), price, CHOOSE why \in over : TRUE))
      BY Zenon DEF Simulate
    <3>2. full = paid /\ over = ends
      BY <2>3, <2>4, Zenon
    <3> HIDE DEF full, over
    <3> QED BY <1>2, <3>1, <3>2, Zenon
  <2>6. \A x : (CHOOSE why \in {x} : TRUE) = x
    OBVIOUS
  <2> SUFFICES ModelTick(p, evs, at, price, paid, Simulate(p, evs, at, close, price))
    BY <1>2, <2>2, Zenon
  <2>7. CASE ends = {}
    <3>1. ~AtOrWorse(p, price, p.stop)
      BY <2>4, <2>7
    <3> QED BY <2>5, <2>7, <3>1, Zenon DEF ModelTick
  <2>8. ASSUME NEW x, ends = {x} PROVE Simulate(p, evs, at, close, price) = Append(paid, Exit(at, Left(paid), price, x))
    <3>1. (CHOOSE why \in ends : TRUE) = x
      BY <2>6, <2>8, Zenon
    <3>2. ends # {}
      BY <2>8
    <3> QED BY <2>5, <3>1, <3>2, Zenon
  <2>9. CASE AtOrWorse(p, price, p.stop)
    <3>1. ends = {"STOP_HIT"}
      BY <2>4, <2>9
    <3> QED BY <2>8, <2>9, <3>1, Zenon DEF ModelTick
  <2>10. CASE ~AtOrWorse(p, price, p.stop) /\ ends # {}
    <3>1. PICK x \in {"FINAL_TARGET", "SESSION_CLOSE"} : ends = {x}
      BY <2>4, <2>10
    <3> QED BY <2>8, <2>10, <3>1, Zenon DEF ModelTick
  <2> QED BY <2>7, <2>9, <2>10, Zenon
<1> QED BY <1>1, <1>2, Zenon

\* A pass of the loop: the same partial, and the runner at a stop.
LEMMA Looped ==
  ASSUME NEW p, NEW evs, Laddered(evs), NEW at \in Nat, NEW price \in Int
  PROVE  /\ Left(evs) = 0 => TickStops(p, TakePartials(p, evs, at, price), at, price) = evs
         /\ Left(evs) # 0 => LoopTick(p, at, price, Paid(p, evs, at, price, lastMark),
                                      TickStops(p, TakePartials(p, evs, at, price), at, price))
<1>1. /\ (Partials(evs) = {} /\ Left(evs) = 10) <=> Len(evs) = 0
      /\ Left(evs) \in {0, 3, 10}
      /\ Len(evs) = 0 => Left(evs) = 10
  <2>1. /\ (Partials(evs) = {}) <=> ~(Len(evs) > 0 /\ Banks(evs[1]))
        /\ Left(evs) = IF Len(evs) = 0 THEN 10 ELSE IF Len(evs) = 1 /\ Banks(evs[1]) THEN 3 ELSE 0
    BY LadderKept
  <2> QED BY <2>1 DEF Laddered
<1>2. PICK paid : paid = Paid(p, evs, at, price, lastMark)
  OBVIOUS
<1>3. TakePartials(p, evs, at, price) = paid
  BY <1>1, <1>2, Zenon DEF TakePartials, Due, Paid
<1>4. TickStops(p, TakePartials(p, evs, at, price), at, price)
      = IF Left(paid) > 0 /\ AtOrWorse(p, price, p.stop)
        THEN Append(paid, Exit(at, Left(paid), p.stop, "STOP_HIT")) ELSE paid
  BY <1>3, Zenon DEF TickStops
<1>5. CASE Left(evs) = 0
  <2>1. paid = evs
    BY <1>1, <1>2, <1>5 DEF Due, Paid
  <2> QED BY <1>4, <1>5, <2>1
<1>6. CASE Left(evs) # 0
  BY <1>2, <1>4, <1>6, Zenon DEF LoopTick
<1> QED BY <1>5, <1>6, Zenon

\* What is appended to nothing comes first.
LEMMA AppendFirst ==
  ASSUME NEW S, NEW evs \in Seq(S), NEW e \in S, Len(evs) = 0
  PROVE  Len(Append(evs, e)) = 1 /\ Append(evs, e)[1] = e
OBVIOUS

\* A trade that is not whole is not when its partial is out either.
LEMMA PaidKept ==
  ASSUME NEW p, NEW evs, Laddered(evs), Left(evs) # 0, NEW at \in Nat, NEW price \in Int, NEW was \in Int, NEW paid,
         paid = Paid(p, evs, at, price, was)
  PROVE  Laddered(paid) /\ Left(paid) # 0 /\ Left(paid) > 0
<1>1. Left(evs) \in {3, 10} /\ (Len(evs) = 0 => Left(evs) = 10) /\ evs \in Seq(ExitRows) /\ Len(evs) \in Nat
  BY LadderKept DEF Laddered
<1>2. CASE ~Due(p, evs, price)
  BY <1>1, <1>2 DEF Paid
<1>3. CASE Due(p, evs, price)
  <2>1. PICK e : e = Exit(at, 7, was, "PARTIAL_2R")
    OBVIOUS
  <2>2. paid = Append(evs, e) /\ Len(evs) = 0 /\ Left(evs) = 10
    BY <1>1, <1>3, <2>1 DEF Due, Paid
  <2>3. e \in ExitRows /\ Laddered(paid)
    BY <2>1, <2>2, PartialBanks, Zenon
  <2>4. Len(paid) = 1 /\ paid[1] = e
    BY <1>1, <2>2, <2>3, AppendFirst
  <2>5. Banks(e)
    BY <2>1 DEF Exit, Banks
  <2>6. Left(paid) = 3
    BY <2>3, <2>4, <2>5, LadderKept
  <2> QED BY <2>3, <2>6
<1> QED BY <1>2, <1>3

\* The loop's trade stays laddered.
LEMMA LoopLaddered ==
  ASSUME NEW p, p.stop \in Int, NEW evs, Laddered(evs), NEW at \in Nat, NEW price \in Int, lastMark \in Int
  PROVE  Laddered(TickStops(p, TakePartials(p, evs, at, price), at, price))
<1>1. CASE Left(evs) = 0
  BY <1>1, Looped
<1>2. CASE Left(evs) # 0
  <2>1. PICK paid : paid = Paid(p, evs, at, price, lastMark)
    OBVIOUS
  <2>5. LoopTick(p, at, price, paid, TickStops(p, TakePartials(p, evs, at, price), at, price))
    BY <1>2, <2>1, Looped
  <2>2. Laddered(paid) /\ Left(paid) # 0
    BY <1>2, <2>1, PaidKept, Zenon
  <2>3. "STOP_HIT" \in Terminal
    BY DEF Terminal
  <2>4. Laddered(Append(paid, Exit(at, Left(paid), p.stop, "STOP_HIT")))
    BY <2>2, <2>3, RunnerEnds, Zenon
  <2> QED BY <2>2, <2>4, <2>5, Zenon DEF LoopTick
<1> QED BY <1>1, <1>2

\* The model's trade and the loop's, open alike, after one more pass.
LEMMA OpenAlike ==
  ASSUME NEW p, p.stop \in Int, NEW evs, NEW other, Laddered(evs), Laddered(other), Sized(evs) = Sized(other),
         Left(evs) # 0, NEW at \in Nat, NEW close, NEW price \in Int, lastMark \in Int,
         NEW next, next = Simulate(p, evs, at, close, price),
         NEW then, then = TickStops(p, TakePartials(p, other, at, price), at, price)
  PROVE  /\ Laddered(next)
         /\ \/ \E k \in DOMAIN next : next[k].reason \in {"FINAL_TARGET", "SESSION_CLOSE"}
            \/ Sized(next) = Sized(then)
<1>1. Len(evs) = Len(other) /\ Left(other) = Left(evs) /\ evs \in Seq(ExitRows) /\ other \in Seq(ExitRows)
  <2>1. Len(evs) = Len(other) /\ (Len(evs) > 0 => (Banks(evs[1]) <=> Banks(other[1])))
    BY AlikeKind
  <2>2. /\ Left(evs) = IF Len(evs) = 0 THEN 10 ELSE IF Len(evs) = 1 /\ Banks(evs[1]) THEN 3 ELSE 0
        /\ Left(other) = IF Len(other) = 0 THEN 10 ELSE IF Len(other) = 1 /\ Banks(other[1]) THEN 3 ELSE 0
    BY LadderKept
  <2>3. evs \in Seq(ExitRows) /\ other \in Seq(ExitRows)
    BY DEF Laddered
  <2> QED BY <2>1, <2>2, <2>3
<1>2. PICK paid : paid = Paid(p, evs, at, price, price)
  OBVIOUS
<1>3. PICK took : took = Paid(p, other, at, price, lastMark)
  OBVIOUS
<1>11. ModelTick(p, evs, at, price, paid, next)
  BY <1>2, Simulated
<1>12. LoopTick(p, at, price, took, then)
  BY <1>1, <1>3, Looped
<1>4. Laddered(paid) /\ Left(paid) # 0
  BY <1>2, PaidKept, Zenon
<1>5. Laddered(took) /\ Left(took) # 0 /\ Left(took) > 0
  BY <1>1, <1>3, PaidKept, Zenon
<1>6. Sized(paid) = Sized(took)
  <2>1. Due(p, evs, price) <=> Due(p, other, price)
    BY <1>1 DEF Due
  <2>2. CASE ~Due(p, evs, price)
    BY <1>2, <1>3, <2>1, <2>2 DEF Paid
  <2>3. CASE Due(p, evs, price)
    <3>1. PICK e : e = Exit(at, 7, price, "PARTIAL_2R")
      OBVIOUS
    <3>2. PICK d : d = Exit(at, 7, lastMark, "PARTIAL_2R")
      OBVIOUS
    <3>3. e \in ExitRows /\ d \in ExitRows /\ e.at = d.at /\ e.tenths = d.tenths /\ e.reason = d.reason
      BY <3>1, <3>2 DEF Exit, ExitRows
    <3>4. paid = Append(evs, e) /\ took = Append(other, d)
      BY <1>2, <1>3, <2>1, <2>3, <3>1, <3>2, Zenon DEF Paid
    <3> QED BY <1>1, <3>3, <3>4, SizedAlike
  <2> QED BY <2>2, <2>3
<1>7. Left(took) = Left(paid) /\ paid \in Seq(ExitRows) /\ took \in Seq(ExitRows)
  <2>1. Len(paid) = Len(took) /\ (Len(paid) > 0 => (Banks(paid[1]) <=> Banks(took[1])))
    BY <1>4, <1>5, <1>6, AlikeKind
  <2>2. /\ Left(paid) = IF Len(paid) = 0 THEN 10 ELSE IF Len(paid) = 1 /\ Banks(paid[1]) THEN 3 ELSE 0
        /\ Left(took) = IF Len(took) = 0 THEN 10 ELSE IF Len(took) = 1 /\ Banks(took[1]) THEN 3 ELSE 0
    BY <1>4, <1>5, LadderKept
  <2>3. paid \in Seq(ExitRows) /\ took \in Seq(ExitRows)
    BY <1>4, <1>5 DEF Laddered
  <2> QED BY <2>1, <2>2, <2>3
<1>8. CASE ~AtOrWorse(p, price, p.stop) /\ next = paid
  BY <1>4, <1>6, <1>8, <1>12 DEF LoopTick
<1>9. CASE AtOrWorse(p, price, p.stop) /\ next = Append(paid, Exit(at, Left(paid), price, "STOP_HIT"))
  <2>1. PICK e : e = Exit(at, Left(paid), price, "STOP_HIT")
    OBVIOUS
  <2>2. PICK d : d = Exit(at, Left(took), p.stop, "STOP_HIT")
    OBVIOUS
  <2>3. "STOP_HIT" \in Terminal
    BY DEF Terminal
  <2>4. e \in ExitRows /\ Laddered(Append(paid, e))
    BY <1>4, <2>1, <2>3, RunnerEnds, Zenon
  <2>5. d \in ExitRows
    BY <1>5, <2>2, <2>3, RunnerEnds, Zenon
  <2>6. e.at = d.at /\ e.tenths = d.tenths /\ e.reason = d.reason
    BY <1>7, <2>1, <2>2 DEF Exit
  <2>7. Sized(Append(paid, e)) = Sized(Append(took, d))
    BY <1>6, <1>7, <2>4, <2>5, <2>6, SizedAlike
  <2>8. next = Append(paid, e) /\ then = Append(took, d)
    BY <1>5, <1>9, <1>12, <2>1, <2>2, Zenon DEF LoopTick
  <2> QED BY <2>4, <2>7, <2>8
<1>10. ASSUME NEW why \in {"FINAL_TARGET", "SESSION_CLOSE"}, next = Append(paid, Exit(at, Left(paid), price, why))
       PROVE  Laddered(next) /\ \E k \in DOMAIN next : next[k].reason \in {"FINAL_TARGET", "SESSION_CLOSE"}
  <2>1. PICK e : e = Exit(at, Left(paid), price, why)
    OBVIOUS
  <2>2. why \in Terminal
    BY DEF Terminal
  <2>3. e \in ExitRows /\ Laddered(Append(paid, e)) /\ next = Append(paid, e)
    BY <1>4, <1>10, <2>1, <2>2, RunnerEnds, Zenon
  <2>4. e.reason = why
    BY <2>1 DEF Exit
  <2>5. Len(paid) + 1 \in DOMAIN next /\ next[Len(paid) + 1] = e
    BY <1>7, <2>3
  <2> QED BY <2>3, <2>4, <2>5
<1> QED BY <1>8, <1>9, <1>10, <1>11, Zenon DEF ModelTick

\* No exits yet.
LEMMA ExitsStart == ExitInit => ExitInv
<1> SUFFICES ASSUME ExitInit PROVE ExitInv
  OBVIOUS
<1>1. trade \in Trades /\ Plannable(trade) /\ exits = <<>> /\ banked = <<>> /\ hours = <<>> /\ lastMark = trade.entry
  BY DEF ExitInit
<1>2. trade.entry \in Int
  BY <1>1, ExitAssumption
<1>3. Laddered(<<>>) /\ <<>> \in Seq(Nat)
  BY DEF Laddered
<1> QED BY <1>1, <1>2, <1>3 DEF ExitInv

\* A pass over both.
LEMMA PassKeepsExits == ExitInv /\ [PriceComes]_exitVars => ExitInv'
<1> SUFFICES ASSUME ExitInv, [PriceComes]_exitVars PROVE ExitInv'
  OBVIOUS
<1>1. CASE UNCHANGED exitVars
  BY <1>1 DEF exitVars, ExitInv, EndedApart
<1>2. CASE PriceComes
  <2>1. PICK price \in ExitPrices, at \in IF hours = <<>> THEN FirstHours ELSE {Last(hours) + g : g \in Gaps} :
          /\ hours' = Append(hours, at)
          /\ exits' = Simulate(trade, exits, at, NextSessionClose(IF hours = <<>> THEN at ELSE hours[1]), price)
          /\ banked' = TickStops(trade, TakePartials(trade, banked, at, price), at, price)
          /\ lastMark' = price
    BY <1>2, Zenon DEF PriceComes
  <2>2. price \in Int /\ at \in Nat /\ hours' \in Seq(Nat)
    <3>1. hours # <<>> => Last(hours) \in Nat
      BY DEF ExitInv, Last
    <3>2. at \in Nat
      <4>1. FirstHours \subseteq Nat /\ Gaps \subseteq Nat
        BY ExitAssumption, Zenon
      <4>2. CASE hours = <<>>
        <5>1. at \in FirstHours
          BY <2>1, <4>2, Zenon
        <5> QED BY <4>1, <5>1
      <4>3. CASE hours # <<>>
        <5>1. PICK g \in Gaps : at = Last(hours) + g
          BY <2>1, <4>3
        <5>2. g \in Nat /\ Last(hours) \in Nat
          BY <3>1, <4>1, <4>3, Zenon
        <5> QED BY <5>1, <5>2
      <4> QED BY <4>2, <4>3
    <3> QED BY <2>1, <3>2, ExitAssumption DEF ExitInv
  <2>3. PICK close : close = NextSessionClose(IF hours = <<>> THEN at ELSE hours[1])
    OBVIOUS
  <2>4. exits' = Simulate(trade, exits, at, close, price)
    BY <2>1, <2>3, Zenon
  <2>5. trade \in Trades /\ trade.stop \in Int /\ trade' = trade /\ lastMark \in Int /\ lastMark' \in Int
        /\ Laddered(exits) /\ Laddered(banked)
    BY <1>2, <2>1, <2>2, ExitAssumption DEF PriceComes, ExitInv
  <2>6. Laddered(banked')
    BY <2>1, <2>2, <2>5, LoopLaddered, Zenon
  <2>7. CASE Left(exits) = 0
    <3>1. exits' = exits
      BY <2>2, <2>4, <2>5, <2>7, Simulated, Zenon
    <3>2. ASSUME ~EndedApart PROVE banked' = banked
      <4>1. Sized(exits) = Sized(banked)
        BY <3>2 DEF ExitInv
      <4>2. Len(exits) = Len(banked) /\ (Len(exits) > 0 => (Banks(exits[1]) <=> Banks(banked[1])))
        BY <2>5, <4>1, AlikeKind
      <4>3. /\ Left(exits) = IF Len(exits) = 0 THEN 10 ELSE IF Len(exits) = 1 /\ Banks(exits[1]) THEN 3 ELSE 0
            /\ Left(banked) = IF Len(banked) = 0 THEN 10 ELSE IF Len(banked) = 1 /\ Banks(banked[1]) THEN 3 ELSE 0
        BY <2>5, LadderKept
      <4>4. Left(banked) = 0
        BY <2>7, <4>2, <4>3 DEF ExitInv, Laddered
      <4> QED BY <2>1, <2>2, <2>5, <4>4, Looped, Zenon
    <3>3. EndedApart' = EndedApart
      BY <3>1 DEF EndedApart
    <3>4. ~EndedApart' => Sized(exits') = Sized(banked')
      BY <3>1, <3>2, <3>3 DEF ExitInv
    <3> QED BY <2>2, <2>5, <2>6, <3>1, <3>4 DEF ExitInv
  <2>8. CASE Left(exits) # 0
    <3>1. ~EndedApart
      <4>1. Len(exits) = 0 \/ (Len(exits) = 1 /\ Banks(exits[1]))
        BY <2>5, <2>8, LadderKept
      <4>2. exits \in Seq(ExitRows)
        BY <2>5 DEF Laddered
      <4> QED BY <4>1, <4>2 DEF EndedApart, Banks
    <3>2. Sized(exits) = Sized(banked)
      BY <3>1 DEF ExitInv
    <3>3. PICK next : next = exits'
      OBVIOUS
    <3>4. PICK then : then = banked'
      OBVIOUS
    <3>5. next = Simulate(trade, exits, at, close, price) /\ then = TickStops(trade, TakePartials(trade, banked, at, price), at, price)
      BY <2>1, <2>4, <3>3, <3>4, Zenon
    <3>6. /\ Laddered(next)
          /\ \/ \E k \in DOMAIN next : next[k].reason \in {"FINAL_TARGET", "SESSION_CLOSE"}
             \/ Sized(next) = Sized(then)
      BY <2>2, <2>5, <2>8, <3>2, <3>5, OpenAlike
    <3>7. Laddered(exits') /\ (~EndedApart' => Sized(exits') = Sized(banked'))
      BY <3>3, <3>4, <3>6, Zenon DEF EndedApart
    <3> QED BY <2>2, <2>5, <2>6, <3>7 DEF ExitInv
  <2> QED BY <2>7, <2>8
<1> QED BY <1>1, <1>2

\* In the model and in the live loop (exit_001_v1_model.py, crypto_loop.py:2375-2421, paper.py:118-150),
\* for any prices, gaps between the passes and sessions: one partial and one runner at most, whole with
\* one reason, and alike in size and time until EXIT-001 ends the trade at a target or a session.
THEOREM ExitsAreAlike == ExitSpec => []ExitsAgree
<1>1. ExitInv => ExitsAgree
  <2> SUFFICES ASSUME ExitInv PROVE ExitsAgree
    OBVIOUS
  <2>1. /\ LadderViolations(exits) = {} /\ (Left(exits) = 0 <=> Terminals(exits) # {})
        /\ LadderViolations(banked) = {} /\ (Left(banked) = 0 <=> Terminals(banked) # {})
    BY LadderKept DEF ExitInv
  <2>2. Of(exits, {"FINAL_TARGET", "SESSION_CLOSE"}) = {} => ~EndedApart
    BY DEF Of, EndedApart
  <2> QED BY <2>1, <2>2 DEF ExitsAgree, ExitInv
<1> QED BY <1>1, ExitsStart, PassKeepsExits, PTL DEF ExitSpec

\* The exits of a trade, in the model and in the loop, are those the rules name (exit_001_v1_model.py).
THEOREM ExitTypeCorrect == ExitSpec => []ExitTypeOK
<1>1. ExitInv => ExitTypeOK
  <2> SUFFICES ASSUME ExitInv PROVE ExitTypeOK
    OBVIOUS
  <2>1. exits \in Seq(ExitRows) /\ banked \in Seq(ExitRows)
    BY DEF ExitInv, Laddered
  <2>2. \A e \in ExitRows : e.reason \in Terminal \union {"PARTIAL_2R"}
    BY DEF ExitRows
  <2>3. \A e \in Range(exits) \union Range(banked) : e \in ExitRows
    <3> HIDE DEF ExitRows
    <3> QED BY <2>1 DEF Range
  <2>4. trade \in Trades /\ Plannable(trade) /\ lastMark \in Int
    BY DEF ExitInv
  <2> QED BY <2>2, <2>3, <2>4 DEF ExitTypeOK
<1> QED BY <1>1, ExitsStart, PassKeepsExits, PTL DEF ExitSpec

-----------------------------------------------------------------------------
(* The ladder of a stop: every reading of a series is of numbers of its bars, so each least,
greatest and best that a setup asks for exists; then the choice is arithmetic. *)

\* The least and the greatest of integers that are bounded.
LEMMA LeastOf ==
  ASSUME NEW lo \in Int, NEW S, S \subseteq Int, S # {}, \A x \in S : x >= lo
  PROVE  Min(S) \in S /\ \A y \in S : Min(S) <= y
<1> DEFINE T == {x - lo : x \in S}
<1>0. PICK a \in S : TRUE
  OBVIOUS
<1>1. T \subseteq Nat /\ T # {}
  <2>1. \A x \in S : x >= lo /\ x - lo \in Nat
    OBVIOUS
  <2>2. a - lo \in T
    BY <1>0
  <2> QED BY <2>1, <2>2
<1>2. PICK t \in T : \A y \in T : t <= y
  BY <1>1, Least
<1>3. PICK m \in S : t = m - lo
  OBVIOUS
<1>4. ASSUME NEW y \in S PROVE m <= y
  <2>1. y - lo \in T /\ y \in Int /\ m \in Int
    OBVIOUS
  <2>2. m - lo <= y - lo
    BY <1>2, <1>3, <2>1
  <2> QED BY <2>1, <2>2
<1>5. \E x \in S : \A y \in S : x <= y
  BY <1>4
<1> QED BY <1>5, Zenon DEF Min

LEMMA MostOf ==
  ASSUME NEW hi \in Int, NEW S, S \subseteq Int, S # {}, \A x \in S : x <= hi
  PROVE  Max(S) \in S /\ \A y \in S : y <= Max(S)
<1> DEFINE T == {hi - x : x \in S}
<1>0. PICK a \in S : TRUE
  OBVIOUS
<1>1. T \subseteq Nat /\ T # {}
  <2>1. \A x \in S : x <= hi /\ hi - x \in Nat
    OBVIOUS
  <2>2. hi - a \in T
    BY <1>0
  <2> QED BY <2>1, <2>2
<1>2. PICK t \in T : \A y \in T : t <= y
  BY <1>1, Least
<1>3. PICK m \in S : t = hi - m
  OBVIOUS
<1>4. ASSUME NEW y \in S PROVE m >= y
  <2>1. hi - y \in T /\ y \in Int /\ m \in Int
    OBVIOUS
  <2>2. hi - m <= hi - y
    BY <1>2, <1>3, <2>1
  <2> QED BY <2>1, <2>2
<1>5. \E x \in S : \A y \in S : x >= y
  BY <1>4
<1>6. Max(S) \in S /\ \A y \in S : Max(S) >= y
  BY <1>5, Zenon DEF Max
<1> QED BY <1>6

\* The greater and the less of two.
LEMMA OfTwo ==
  ASSUME NEW a \in Int, NEW b \in Int
  PROVE  /\ Max({a, b}) \in {a, b} /\ a <= Max({a, b}) /\ b <= Max({a, b}) /\ Max({a, b}) \in Int
         /\ Min({a, b}) \in {a, b} /\ Min({a, b}) <= a /\ Min({a, b}) <= b /\ Min({a, b}) \in Int
<1> DEFINE S == {a, b}
           hi == IF a > b THEN a ELSE b
           lo == IF a > b THEN b ELSE a
<1>1. S \subseteq Int /\ S # {} /\ a \in S /\ b \in S /\ \A x \in S : x = a \/ x = b
  OBVIOUS
<1>2. hi \in Int /\ lo \in Int /\ \A x \in S : lo <= x /\ x <= hi
  OBVIOUS
<1> HIDE DEF S, hi, lo
<1>3. Max(S) \in S /\ \A y \in S : y <= Max(S)
  BY <1>1, <1>2, MostOf
<1>4. Min(S) \in S /\ \A y \in S : Min(S) <= y
  BY <1>1, <1>2, LeastOf
<1>5. /\ Max(S) \in S /\ a <= Max(S) /\ b <= Max(S) /\ Max(S) \in Int
      /\ Min(S) \in S /\ Min(S) <= a /\ Min(S) <= b /\ Min(S) \in Int
  BY <1>1, <1>3, <1>4
<1> QED BY <1>5 DEF S

\* The prices of a closed bar.
LEMMA BarFacts ==
  ASSUME NEW bs \in Seq(ClosedBars), NEW i \in 1..Len(bs)
  PROVE  /\ bs[i].open \in Nat /\ bs[i].high \in Nat /\ bs[i].low \in Nat /\ bs[i].close \in Nat
         /\ 0 < bs[i].low /\ bs[i].low <= bs[i].high
         /\ bs[i].low <= bs[i].open /\ bs[i].low <= bs[i].close
         /\ bs[i].open <= bs[i].high /\ bs[i].close <= bs[i].high
         /\ BodyHigh(bs[i]) \in Nat /\ BodyLow(bs[i]) \in Nat
         /\ bs[i].low <= BodyLow(bs[i]) /\ BodyLow(bs[i]) <= BodyHigh(bs[i]) /\ BodyHigh(bs[i]) <= bs[i].high
<1>1. bs[i] \in ClosedBars
  <2> HIDE DEF ClosedBars
  <2> QED OBVIOUS
<1> QED BY <1>1 DEF ClosedBars, BodyHigh, BodyLow

\* No bar goes above some price.
Capped(bs, top) == top \in Nat /\ \A i \in 1..Len(bs) : bs[i].high <= top

LEMMA SomeCap == ASSUME NEW bs \in Seq(ClosedBars) PROVE \E top \in Nat : Capped(bs, top)
<1> DEFINE P == {n \in Nat : n <= Len(bs) => \E top \in Nat : \A i \in 1..n : bs[i].high <= top}
<1>1. 0 \in P
  <2>1. \A i \in 1..0 : bs[i].high <= 0
    OBVIOUS
  <2> QED BY <2>1
<1>2. ASSUME NEW n \in P PROVE n + 1 \in P
  <2> SUFFICES ASSUME n + 1 <= Len(bs) PROVE \E top \in Nat : \A i \in 1..(n + 1) : bs[i].high <= top
    OBVIOUS
  <2>0. n \in Nat /\ n <= Len(bs) /\ n + 1 \in 1..Len(bs)
    OBVIOUS
  <2>1. PICK top \in Nat : \A i \in 1..n : bs[i].high <= top
    BY <2>0
  <2>2. \A i \in 1..(n + 1) : bs[i].high \in Nat
    <3> TAKE i \in 1..(n + 1)
    <3>1. i \in 1..Len(bs)
      BY <2>0
    <3> QED BY <3>1, BarFacts
  <2> DEFINE more == top + bs[n + 1].high
  <2>3. more \in Nat
    BY <2>0, <2>2
  <2>4. \A i \in 1..(n + 1) : bs[i].high <= more
    <3> TAKE i \in 1..(n + 1)
    <3>1. CASE i \in 1..n
      BY <3>1, <2>0, <2>1, <2>2
    <3>2. CASE i = n + 1
      BY <3>2, <2>0, <2>2
    <3> QED BY <2>0, <3>1, <3>2
  <2> QED BY <2>3, <2>4
<1>3. P = Nat
  <2> HIDE DEF P
  <2>1. P \subseteq Nat
    BY DEF P
  <2> QED BY <1>1, <1>2, <2>1, Naturals
<1> HIDE DEF P
<1>4. Len(bs) \in P
  BY <1>3
<1> QED BY <1>4 DEF Capped, P

-----------------------------------------------------------------------------
(* Imbalances. *)

\* What a fair value gap and a two-bar imbalance are.
LEMMA GapFacts ==
  ASSUME NEW bs \in Seq(ClosedBars), NEW z \in FairValueGaps(bs)
  PROVE  /\ z.at \in 3..Len(bs)
         /\ \/ z = Zone("FVG", "BULLISH", bs[z.at - 2].high, bs[z.at].low, z.at) /\ bs[z.at].low > bs[z.at - 2].high
            \/ z = Zone("FVG", "BEARISH", bs[z.at].high, bs[z.at - 2].low, z.at) /\ bs[z.at].high < bs[z.at - 2].low
BY DEF FairValueGaps, Zone

LEMMA PairFacts ==
  ASSUME NEW bs \in Seq(ClosedBars), NEW z \in TwoBarImbalances(bs)
  PROVE  /\ z.at \in 2..Len(bs) /\ z.type \in {"GAP", "VOLUME_IMBALANCE"}
         /\ \/ /\ BodyLow(bs[z.at]) > BodyHigh(bs[z.at - 1])
               /\ z = IF bs[z.at].low > bs[z.at - 1].high
                      THEN Zone("GAP", "BULLISH", bs[z.at - 1].high, bs[z.at].low, z.at)
                      ELSE Zone("VOLUME_IMBALANCE", "BULLISH", BodyHigh(bs[z.at - 1]), BodyLow(bs[z.at]), z.at)
            \/ /\ BodyHigh(bs[z.at]) < BodyLow(bs[z.at - 1])
               /\ z = IF bs[z.at].high < bs[z.at - 1].low
                      THEN Zone("GAP", "BEARISH", bs[z.at].high, bs[z.at - 1].low, z.at)
                      ELSE Zone("VOLUME_IMBALANCE", "BEARISH", BodyHigh(bs[z.at]), BodyLow(bs[z.at - 1]), z.at)
<1>1. CASE \E i \in {j \in 2..Len(bs) : BodyLow(bs[j]) > BodyHigh(bs[j - 1])} :
             z = IF bs[i].low > bs[i - 1].high THEN Zone("GAP", "BULLISH", bs[i - 1].high, bs[i].low, i)
                 ELSE Zone("VOLUME_IMBALANCE", "BULLISH", BodyHigh(bs[i - 1]), BodyLow(bs[i]), i)
  <2>1. PICK i \in {j \in 2..Len(bs) : BodyLow(bs[j]) > BodyHigh(bs[j - 1])} :
             z = IF bs[i].low > bs[i - 1].high THEN Zone("GAP", "BULLISH", bs[i - 1].high, bs[i].low, i)
                 ELSE Zone("VOLUME_IMBALANCE", "BULLISH", BodyHigh(bs[i - 1]), BodyLow(bs[i]), i)
    BY <1>1
  <2>2. z.at = i /\ z.type \in {"GAP", "VOLUME_IMBALANCE"}
    BY <2>1 DEF Zone
  <2> QED BY <2>1, <2>2
<1>2. CASE \E i \in {j \in 2..Len(bs) : BodyHigh(bs[j]) < BodyLow(bs[j - 1])} :
             z = IF bs[i].high < bs[i - 1].low THEN Zone("GAP", "BEARISH", bs[i].high, bs[i - 1].low, i)
                 ELSE Zone("VOLUME_IMBALANCE", "BEARISH", BodyHigh(bs[i]), BodyLow(bs[i - 1]), i)
  <2>1. PICK i \in {j \in 2..Len(bs) : BodyHigh(bs[j]) < BodyLow(bs[j - 1])} :
             z = IF bs[i].high < bs[i - 1].low THEN Zone("GAP", "BEARISH", bs[i].high, bs[i - 1].low, i)
                 ELSE Zone("VOLUME_IMBALANCE", "BEARISH", BodyHigh(bs[i]), BodyLow(bs[i - 1]), i)
    BY <1>2
  <2>2. z.at = i /\ z.type \in {"GAP", "VOLUME_IMBALANCE"}
    BY <2>1 DEF Zone
  <2> QED BY <2>1, <2>2
<1> QED BY <1>1, <1>2 DEF TwoBarImbalances

\* A zone: its prices, and where it stands.
Placed(z, bs) ==
  /\ z = Zone(z.type, z.way, z.low, z.high, z.at)
  /\ z.way \in {"BULLISH", "BEARISH"}
  /\ z.low \in Nat /\ z.high \in Nat /\ z.low < z.high /\ z.at \in 1..Len(bs)
  /\ \E i \in 1..Len(bs) : z.high <= bs[i].high

LEMMA SimplePlaced ==
  ASSUME NEW bs \in Seq(ClosedBars), NEW z \in Simple(bs)
  PROVE  Placed(z, bs) /\ z.type \in {"FVG", "GAP", "VOLUME_IMBALANCE"}
<1>1. CASE z \in FairValueGaps(bs)
  <2> DEFINE t == z.at
  <2>1. t \in 3..Len(bs) /\ t \in 1..Len(bs) /\ t - 2 \in 1..Len(bs)
    BY <1>1, GapFacts
  <2> HIDE DEF t
  <2>2. /\ bs[t].low \in Nat /\ bs[t].high \in Nat /\ bs[t].low <= bs[t].high
        /\ bs[t - 2].low \in Nat /\ bs[t - 2].high \in Nat /\ bs[t - 2].low <= bs[t - 2].high
    BY <2>1, BarFacts
  <2>3. \/ z = Zone("FVG", "BULLISH", bs[t - 2].high, bs[t].low, t) /\ bs[t].low > bs[t - 2].high
        \/ z = Zone("FVG", "BEARISH", bs[t].high, bs[t - 2].low, t) /\ bs[t].high < bs[t - 2].low
    BY <1>1, GapFacts DEF t
  <2> QED BY <2>1, <2>2, <2>3 DEF Zone, Placed
<1>2. CASE z \in TwoBarImbalances(bs)
  <2> DEFINE t == z.at
  <2>1. t \in 2..Len(bs) /\ t \in 1..Len(bs) /\ t - 1 \in 1..Len(bs)
    BY <1>2, PairFacts
  <2>2. /\ bs[t].low \in Nat /\ bs[t].high \in Nat /\ BodyHigh(bs[t]) <= bs[t].high /\ bs[t].low <= bs[t].high
        /\ BodyLow(bs[t]) \in Nat /\ BodyHigh(bs[t]) \in Nat /\ BodyLow(bs[t]) <= BodyHigh(bs[t])
    BY <2>1, BarFacts
  <2>3. /\ bs[t - 1].low \in Nat /\ bs[t - 1].high \in Nat /\ BodyHigh(bs[t - 1]) <= bs[t - 1].high
        /\ bs[t - 1].low <= bs[t - 1].high
        /\ BodyLow(bs[t - 1]) \in Nat /\ BodyHigh(bs[t - 1]) \in Nat /\ BodyLow(bs[t - 1]) <= BodyHigh(bs[t - 1])
    BY <2>1, BarFacts
  <2>4. CASE BodyLow(bs[t]) > BodyHigh(bs[t - 1]) /\ z = Zone("GAP", "BULLISH", bs[t - 1].high, bs[t].low, t)
             /\ bs[t].low > bs[t - 1].high
    BY <2>1, <2>2, <2>3, <2>4 DEF Zone, Placed
  <2>5. CASE BodyLow(bs[t]) > BodyHigh(bs[t - 1])
             /\ z = Zone("VOLUME_IMBALANCE", "BULLISH", BodyHigh(bs[t - 1]), BodyLow(bs[t]), t)
    <3>1. BodyLow(bs[t]) <= bs[t].high
      BY <2>2
    <3> QED BY <2>1, <2>2, <2>3, <2>5, <3>1 DEF Zone, Placed
  <2>6. CASE BodyHigh(bs[t]) < BodyLow(bs[t - 1]) /\ z = Zone("GAP", "BEARISH", bs[t].high, bs[t - 1].low, t)
             /\ bs[t].high < bs[t - 1].low
    BY <2>1, <2>2, <2>3, <2>6 DEF Zone, Placed
  <2>7. CASE BodyHigh(bs[t]) < BodyLow(bs[t - 1])
             /\ z = Zone("VOLUME_IMBALANCE", "BEARISH", BodyHigh(bs[t]), BodyLow(bs[t - 1]), t)
    <3>1. BodyLow(bs[t - 1]) <= bs[t - 1].high
      BY <2>3
    <3> QED BY <2>1, <2>2, <2>3, <2>7, <3>1 DEF Zone, Placed
  <2> QED BY <1>2, PairFacts, <2>4, <2>5, <2>6, <2>7
<1> QED BY <1>1, <1>2 DEF Simple

\* Of the imbalances of one bar, one is a fair value gap and one is not.
LEMMA SimpleUnique ==
  ASSUME NEW bs \in Seq(ClosedBars), NEW y \in Simple(bs), NEW z \in Simple(bs),
         y.at = z.at, (y.type = "FVG") <=> (z.type = "FVG")
  PROVE  y = z
<1> DEFINE t == z.at
<1>1. CASE y \in FairValueGaps(bs) /\ z \in FairValueGaps(bs)
  <2>1. t \in 1..Len(bs) /\ t - 2 \in 1..Len(bs)
    BY <1>1, GapFacts
  <2>2. /\ bs[t].low \in Nat /\ bs[t].high \in Nat /\ bs[t].low <= bs[t].high
        /\ bs[t - 2].low \in Nat /\ bs[t - 2].high \in Nat /\ bs[t - 2].low <= bs[t - 2].high
    BY <2>1, BarFacts
  <2>3. \/ z = Zone("FVG", "BULLISH", bs[t - 2].high, bs[t].low, t) /\ bs[t].low > bs[t - 2].high
        \/ z = Zone("FVG", "BEARISH", bs[t].high, bs[t - 2].low, t) /\ bs[t].high < bs[t - 2].low
    BY <1>1, GapFacts
  <2>4. \/ y = Zone("FVG", "BULLISH", bs[t - 2].high, bs[t].low, t) /\ bs[t].low > bs[t - 2].high
        \/ y = Zone("FVG", "BEARISH", bs[t].high, bs[t - 2].low, t) /\ bs[t].high < bs[t - 2].low
    BY <1>1, GapFacts
  <2> HIDE DEF t
  <2> QED BY <2>2, <2>3, <2>4
<1>2. CASE y \in TwoBarImbalances(bs) /\ z \in TwoBarImbalances(bs)
  <2>1. t \in 1..Len(bs) /\ t - 1 \in 1..Len(bs)
    BY <1>2, PairFacts
  <2>2. /\ BodyLow(bs[t]) \in Nat /\ BodyHigh(bs[t]) \in Nat /\ BodyLow(bs[t]) <= BodyHigh(bs[t])
        /\ BodyLow(bs[t - 1]) \in Nat /\ BodyHigh(bs[t - 1]) \in Nat /\ BodyLow(bs[t - 1]) <= BodyHigh(bs[t - 1])
    BY <2>1, BarFacts
  <2> DEFINE up   == IF bs[t].low > bs[t - 1].high THEN Zone("GAP", "BULLISH", bs[t - 1].high, bs[t].low, t)
                     ELSE Zone("VOLUME_IMBALANCE", "BULLISH", BodyHigh(bs[t - 1]), BodyLow(bs[t]), t)
             down == IF bs[t].high < bs[t - 1].low THEN Zone("GAP", "BEARISH", bs[t].high, bs[t - 1].low, t)
                     ELSE Zone("VOLUME_IMBALANCE", "BEARISH", BodyHigh(bs[t]), BodyLow(bs[t - 1]), t)
  <2>3. \/ z = up /\ BodyLow(bs[t]) > BodyHigh(bs[t - 1])
        \/ z = down /\ BodyHigh(bs[t]) < BodyLow(bs[t - 1])
    BY <1>2, PairFacts
  <2>4. \/ y = up /\ BodyLow(bs[t]) > BodyHigh(bs[t - 1])
        \/ y = down /\ BodyHigh(bs[t]) < BodyLow(bs[t - 1])
    BY <1>2, PairFacts
  <2> HIDE DEF up, down, t
  <2> QED BY <2>2, <2>3, <2>4
<1>3. \A x \in FairValueGaps(bs) : x.type = "FVG"
  BY GapFacts DEF Zone
<1>4. \A x \in TwoBarImbalances(bs) : x.type # "FVG"
  BY PairFacts
<1> QED BY <1>1, <1>2, <1>3, <1>4 DEF Simple

\* Imbalances of one bar and of opposite ways lie apart.
LEMMA SameBarApart ==
  ASSUME NEW bs \in Seq(ClosedBars), NEW y \in Simple(bs), NEW z \in Simple(bs),
         y.at = z.at, y.way # z.way
  PROVE  ~(y.low < z.high /\ z.low < y.high)
<1> DEFINE t == z.at
<1>1. CASE (y.type = "FVG") <=> (z.type = "FVG")
  BY <1>1, SimpleUnique
<1>3. \A x \in FairValueGaps(bs) : x.type = "FVG"
  BY GapFacts DEF Zone
<1>4. \A x \in TwoBarImbalances(bs) : x.type # "FVG"
  BY PairFacts
<1>5. ASSUME NEW g \in FairValueGaps(bs), NEW v \in TwoBarImbalances(bs), g.at = t, v.at = t, g.way # v.way
      PROVE  ~(g.low < v.high /\ v.low < g.high)
  <2>1. t \in 1..Len(bs) /\ t - 1 \in 1..Len(bs) /\ t - 2 \in 1..Len(bs)
    BY <1>5, GapFacts
  <2>2. /\ bs[t].low \in Nat /\ bs[t].high \in Nat /\ bs[t].low <= BodyLow(bs[t])
        /\ BodyLow(bs[t]) \in Nat /\ BodyHigh(bs[t]) \in Nat /\ BodyLow(bs[t]) <= BodyHigh(bs[t])
        /\ BodyHigh(bs[t]) <= bs[t].high
    BY <2>1, BarFacts
  <2>3. \/ g = Zone("FVG", "BULLISH", bs[t - 2].high, bs[t].low, t)
        \/ g = Zone("FVG", "BEARISH", bs[t].high, bs[t - 2].low, t)
    BY <1>5, GapFacts
  <2>4. \/ v.way = "BULLISH" /\ (v.high = bs[t].low \/ v.high = BodyLow(bs[t]))
        \/ v.way = "BEARISH" /\ (v.low = bs[t].high \/ v.low = BodyHigh(bs[t]))
    <3>1. \/ v = IF bs[t].low > bs[t - 1].high THEN Zone("GAP", "BULLISH", bs[t - 1].high, bs[t].low, t)
                 ELSE Zone("VOLUME_IMBALANCE", "BULLISH", BodyHigh(bs[t - 1]), BodyLow(bs[t]), t)
          \/ v = IF bs[t].high < bs[t - 1].low THEN Zone("GAP", "BEARISH", bs[t].high, bs[t - 1].low, t)
                 ELSE Zone("VOLUME_IMBALANCE", "BEARISH", BodyHigh(bs[t]), BodyLow(bs[t - 1]), t)
      BY <1>5, PairFacts
    <3> HIDE DEF t
    <3> QED BY <3>1 DEF Zone
  <2> HIDE DEF t
  <2>5. \/ g.way = "BULLISH" /\ g.high = bs[t].low
        \/ g.way = "BEARISH" /\ g.low = bs[t].high
    BY <2>3 DEF Zone
  <2> QED BY <1>5, <2>2, <2>4, <2>5
<1> QED BY <1>1, <1>3, <1>4, <1>5 DEF Simple

\* The overlap of two simple imbalances: a zone within each, of the way of the later one.
LEMMA PairingFacts ==
  ASSUME NEW bs \in Seq(ClosedBars), NEW p \in Pairings(bs)
  PROVE  /\ p.low \in Nat /\ p.high \in Nat /\ p.low < p.high /\ p.at \in 1..Len(bs)
         /\ \E i \in 1..Len(bs) : p.high <= bs[i].high
         /\ \E z \in Simple(bs) : /\ z.at = p.at /\ z.way = p.way
                                  /\ z.low <= p.low /\ p.high <= z.high
<1>1. PICK a \in Simple(bs), b \in Simple(bs) :
        /\ Overlaps(a, b)
        /\ p = [low |-> Max({a.low, b.low}), high |-> Min({a.high, b.high}), at |-> Later(a, b).at,
                way |-> IF a.at # b.at THEN Later(a, b).way ELSE IF a.type = "FVG" THEN a.way ELSE b.way]
  BY DEF Pairings
<1>2. Placed(a, bs) /\ Placed(b, bs)
  BY SimplePlaced
<1>3. a.at # b.at
  <2> SUFFICES ASSUME a.at = b.at PROVE FALSE
    OBVIOUS
  <2>1. a.way # b.way /\ a.low < b.high /\ b.low < a.high
    BY <1>1 DEF Overlaps
  <2> QED BY <2>1, SameBarApart, Zenon
<1>4. Max({a.low, b.low}) \in {a.low, b.low} /\ a.low <= Max({a.low, b.low}) /\ b.low <= Max({a.low, b.low})
  <2>1. a.low \in Int /\ b.low \in Int
    BY <1>2 DEF Placed
  <2> QED BY <2>1, OfTwo
<1>5. Min({a.high, b.high}) \in {a.high, b.high} /\ Min({a.high, b.high}) <= a.high /\ Min({a.high, b.high}) <= b.high
  <2>1. a.high \in Int /\ b.high \in Int
    BY <1>2 DEF Placed
  <2> QED BY <2>1, OfTwo
<1> DEFINE lo == Max({a.low, b.low})
           hi == Min({a.high, b.high})
<1>6. p.low = lo /\ p.high = hi /\ p.at = Later(a, b).at /\ p.way = Later(a, b).way
  BY <1>1, <1>3
<1>7. Later(a, b) \in {a, b}
  BY DEF Later
<1> HIDE DEF lo, hi
<1>8. lo \in Nat /\ hi \in Nat /\ lo < hi /\ a.low <= lo /\ b.low <= lo /\ hi <= a.high /\ hi <= b.high
  BY <1>1, <1>2, <1>4, <1>5 DEF Placed, Overlaps, lo, hi
<1>9. \E i \in 1..Len(bs) : p.high <= bs[i].high
  <2>1. PICK i \in 1..Len(bs) : a.high <= bs[i].high
    BY <1>2 DEF Placed
  <2>2. bs[i].high \in Nat /\ a.high \in Nat
    BY <1>2, BarFacts DEF Placed
  <2> QED BY <1>6, <1>8, <2>1, <2>2
<1> QED BY <1>2, <1>6, <1>7, <1>8, <1>9 DEF Placed


LEMMA RangeFacts ==
  ASSUME NEW bs \in Seq(ClosedBars), NEW z \in BalancedRanges(bs)
  PROVE  /\ Placed(z, bs) /\ z.type \in {"BPR", "SUPER_BPR"}
         /\ \E p \in Pairings(bs) : p.low = z.low /\ p.high = z.high /\ p.at = z.at /\ p.way = z.way
<1>1. PICK p \in Pairings(bs) :
        z = Zone(IF IsSuper(bs, p) THEN "SUPER_BPR" ELSE "BPR", p.way, p.low, p.high, p.at)
  BY DEF BalancedRanges
<1>2. z.type \in {"BPR", "SUPER_BPR"} /\ z = Zone(z.type, p.way, p.low, p.high, p.at)
  BY <1>1 DEF Zone
<1>3. z.low = p.low /\ z.high = p.high /\ z.at = p.at /\ z.way = p.way
  BY <1>2 DEF Zone
<1>4. /\ p.low \in Nat /\ p.high \in Nat /\ p.low < p.high /\ p.at \in 1..Len(bs)
      /\ \E i \in 1..Len(bs) : p.high <= bs[i].high
  BY PairingFacts
<1>5. p.way \in {"BULLISH", "BEARISH"}
  <2>1. PICK y \in Simple(bs) : y.way = p.way
    BY PairingFacts
  <2> QED BY <2>1, SimplePlaced DEF Placed
<1> QED BY <1>2, <1>3, <1>4, <1>5 DEF Placed

\* Every imbalance is a zone of the prices that traded.
LEMMA ImbalancePlaced ==
  ASSUME NEW bs \in Seq(ClosedBars), NEW z \in Imbalances(bs)
  PROVE  Placed(z, bs) /\ z.type \in {"FVG", "GAP", "VOLUME_IMBALANCE", "BPR", "SUPER_BPR"}
BY SimplePlaced, RangeFacts DEF Imbalances

\* Two balanced ranges of one place, one kind and one moment are the same.
LEMMA RangeUnique ==
  ASSUME NEW bs \in Seq(ClosedBars), NEW y \in BalancedRanges(bs), NEW z \in BalancedRanges(bs),
         y.type = z.type, y.low = z.low, y.high = z.high, y.at = z.at
  PROVE  y = z
<1>1. PICK p \in Pairings(bs) : p.low = y.low /\ p.high = y.high /\ p.at = y.at /\ p.way = y.way
  BY RangeFacts
<1>2. PICK q \in Pairings(bs) : q.low = z.low /\ q.high = z.high /\ q.at = z.at /\ q.way = z.way
  BY RangeFacts
<1>3. PICK u \in Simple(bs) : u.at = p.at /\ u.way = p.way /\ u.low <= p.low /\ p.high <= u.high
  BY PairingFacts
<1>4. PICK v \in Simple(bs) : v.at = q.at /\ v.way = q.way /\ v.low <= q.low /\ q.high <= v.high
  BY PairingFacts
<1>5. Placed(u, bs) /\ Placed(v, bs) /\ Placed(y, bs) /\ Placed(z, bs)
  BY SimplePlaced, RangeFacts
<1>6. u.low < v.high /\ v.low < u.high /\ u.at = v.at
  <2>1. u.low \in Nat /\ u.high \in Nat /\ v.low \in Nat /\ v.high \in Nat /\ y.low \in Nat /\ y.high \in Nat /\ y.low < y.high
    BY <1>5 DEF Placed
  <2> QED BY <2>1, <1>1, <1>2, <1>3, <1>4
<1>7. u.way = v.way
  <2> SUFFICES ASSUME u.way # v.way PROVE FALSE
    OBVIOUS
  <2> QED BY <1>6, SameBarApart, Zenon
<1>8. y.way = z.way
  BY <1>1, <1>2, <1>3, <1>4, <1>7
<1> QED BY <1>5, <1>8 DEF Placed

-----------------------------------------------------------------------------
(* ENTRY-001. *)

LEMMA RankFacts ==
  ASSUME NEW bs \in Seq(ClosedBars), NEW z \in Imbalances(bs)
  PROVE  /\ SubRank(z) \in {1, 2, 3}
         /\ SubRank(z) = 3 <=> z \in Simple(bs)
         /\ SubRank(z) = 1 => z \in BalancedRanges(bs) /\ z.type = "SUPER_BPR"
         /\ SubRank(z) = 2 => z \in BalancedRanges(bs) /\ z.type = "BPR"
<1>1. z \in Simple(bs) => SubRank(z) = 3
  BY SimplePlaced DEF SubRank
<1>2. z \in BalancedRanges(bs) => SubRank(z) = IF z.type = "SUPER_BPR" THEN 1 ELSE 2
  BY RangeFacts DEF SubRank
<1> QED BY <1>1, <1>2, RangeFacts DEF Imbalances

\* The order of ENTRY-001 tells any two zones apart, so it has a first.
LEMMA PoiIsOne ==
  ASSUME NEW bs \in Seq(ClosedBars), NEW zones, zones \subseteq Imbalances(bs), zones # {}
  PROVE  Poi(zones) \in zones
<1> DEFINE ranks == {SubRank(z) : z \in zones}
<1>0. \A z \in zones : z \in Imbalances(bs)
  OBVIOUS
<1>1. ranks \subseteq Nat /\ ranks # {}
  BY <1>0, RankFacts
<1>2. PICK r \in ranks : \A x \in ranks : r <= x
  BY <1>1, Least
<1> DEFINE first == {z \in zones : SubRank(z) = r}
           times == {z.at : z \in first}
<1>3. first # {} /\ first \subseteq zones /\ \A z \in zones : z \in first \/ r < SubRank(z)
  <2>1. PICK z \in zones : SubRank(z) = r
    BY <1>2
  <2>2. z \in first
    BY <2>1
  <2>3. \A y \in zones : SubRank(y) \in Nat /\ r \in Nat /\ r <= SubRank(y)
    BY <1>1, <1>2
  <2> QED BY <2>2, <2>3
<1>4. \A z \in zones : z.at \in Nat /\ z.low \in Nat /\ z.high \in Nat
  BY <1>0, ImbalancePlaced DEF Placed
<1>5. times \subseteq Nat /\ times # {}
  BY <1>3, <1>4
<1>6. PICK t \in times : \A x \in times : t <= x
  BY <1>5, Least
<1> DEFINE oldest == {z \in first : z.at = t}
<1>7. oldest # {} /\ oldest \subseteq first /\ \A z \in first : z \in oldest \/ t < z.at
  <2>1. PICK z \in first : z.at = t
    BY <1>6
  <2>2. z \in oldest
    BY <2>1
  <2>3. \A y \in first : y.at \in Nat /\ t \in Nat /\ t <= y.at
    BY <1>5, <1>6
  <2> QED BY <2>2, <2>3
<1> HIDE DEF ranks, first, times, oldest
<1>8. ASSUME NEW z \in oldest, \A y \in oldest : y = z \/ PoiBefore(z, y)
      PROVE  \A y \in zones : y = z \/ PoiBefore(z, y)
  <2> TAKE y \in zones
  <2>1. SubRank(z) = r /\ z.at = t /\ z \in zones
    BY <1>3, <1>7, <1>8 DEF first, oldest
  <2>2. CASE y \notin first
    BY <1>3, <2>1, <2>2 DEF PoiBefore
  <2>3. CASE y \in first /\ y \notin oldest
    BY <1>7, <2>1, <2>3 DEF PoiBefore, first
  <2>4. CASE y \in oldest
    BY <1>8, <2>4
  <2> QED BY <2>2, <2>3, <2>4
<1>9. \A z \in oldest : z \in zones /\ z \in Imbalances(bs) /\ SubRank(z) = r /\ z.at = t
  BY <1>0, <1>3, <1>7 DEF first, oldest
<1>10. \E z \in oldest : \A y \in oldest : y = z \/ PoiBefore(z, y)
  <2>1. CASE r = 3
    <3>1. \A z \in oldest : z \in Simple(bs)
      BY <1>9, <2>1, RankFacts
    <3>2. CASE \E z \in oldest : z.type = "FVG"
      <4>1. PICK z \in oldest : z.type = "FVG"
        BY <3>2
      <4>2. ASSUME NEW y \in oldest PROVE y = z \/ PoiBefore(z, y)
        <5>1. CASE y.type = "FVG"
          BY <1>9, <3>1, <4>1, <5>1, SimpleUnique
        <5>2. CASE y.type # "FVG"
          BY <1>9, <2>1, <4>1, <5>2 DEF PoiBefore
        <5> QED BY <5>1, <5>2
      <4> QED BY <4>2
    <3>3. CASE \A z \in oldest : z.type # "FVG"
      <4>1. PICK z \in oldest : TRUE
        BY <1>7
      <4>2. \A y \in oldest : y = z
        BY <1>9, <3>1, <3>3, SimpleUnique
      <4> QED BY <4>2
    <3> QED BY <3>2, <3>3
  <2>2. CASE r # 3
    <3> DEFINE lows == {z.low : z \in oldest}
    <3>1. lows \subseteq Nat /\ lows # {}
      BY <1>4, <1>7, <1>9
    <3>2. PICK l \in lows : \A x \in lows : l <= x
      BY <3>1, Least
    <3> DEFINE lowest == {z \in oldest : z.low = l}
               highs == {z.high : z \in lowest}
    <3>3. lowest # {} /\ \A z \in oldest : z \in lowest \/ l < z.low
      <4>1. PICK z \in oldest : z.low = l
        BY <3>2
      <4>2. z \in lowest
        BY <4>1
      <4>3. \A y \in oldest : y.low \in Nat /\ l \in Nat /\ l <= y.low
        BY <3>1, <3>2
      <4> QED BY <4>2, <4>3
    <3>4. highs \subseteq Nat /\ highs # {}
      BY <1>4, <1>9, <3>3
    <3>5. PICK h \in highs : \A x \in highs : h <= x
      BY <3>4, Least
    <3>6. PICK z \in lowest : z.high = h
      OBVIOUS
    <3>7. ASSUME NEW y \in oldest PROVE y = z \/ PoiBefore(z, y)
      <4>0. z \in oldest /\ z.low = l
        OBVIOUS
      <4>1. CASE y \notin lowest
        BY <1>9, <2>2, <3>3, <4>0, <4>1 DEF PoiBefore
      <4>2. CASE y \in lowest /\ y.high # h
        <5>1. h <= y.high /\ y.high \in Nat /\ h \in Nat
          BY <1>4, <1>9, <3>4, <3>5, <4>2
        <5> QED BY <1>9, <2>2, <3>6, <4>0, <4>2, <5>1 DEF PoiBefore
      <4>3. CASE y \in lowest /\ y.high = h
        <5>1. z \in BalancedRanges(bs) /\ y \in BalancedRanges(bs) /\ y.type = z.type
          BY <1>9, <2>2, <4>0, RankFacts
        <5> QED BY <1>9, <3>6, <4>0, <4>3, <5>1, RangeUnique
      <4> QED BY <4>1, <4>2, <4>3
    <3> QED BY <3>7
  <2> QED BY <2>1, <2>2
<1>11. \E z \in zones : \A y \in zones : y = z \/ PoiBefore(z, y)
  BY <1>8, <1>9, <1>10
<1> QED BY <1>11, Zenon DEF Poi

-----------------------------------------------------------------------------
(* Swings, and the order of their breaks. *)

\* Members of a set of pairs of numbers.
LEMMA SwingFacts ==
  ASSUME NEW bs \in Seq(ClosedBars), NEW s \in Swings(bs)
  PROVE  /\ s = [at |-> s.at, kind |-> s.kind, price |-> s.price]
         /\ s.at \in (Wing + 1)..(Len(bs) - Wing) /\ s.at \in 2..Len(bs) /\ s.kind \in {"HIGH", "LOW"}
         /\ s.kind = "HIGH" => s.price = bs[s.at].high /\ \A k \in Beside(bs, s.at) : bs[k].high < s.price
         /\ s.kind = "LOW" => s.price = bs[s.at].low /\ \A k \in Beside(bs, s.at) : bs[k].low > s.price
         /\ s.price \in Nat /\ s.price <= bs[s.at].high
<1>0. Wing \in Nat \ {0} /\ Len(bs) \in Nat
  BY StructureAssumption
<1>1. /\ s = [at |-> s.at, kind |-> s.kind, price |-> s.price]
      /\ s.at \in (Wing + 1)..(Len(bs) - Wing) /\ s.kind \in {"HIGH", "LOW"}
      /\ s.kind = "HIGH" => s.price = bs[s.at].high /\ \A k \in Beside(bs, s.at) : bs[k].high < s.price
      /\ s.kind = "LOW" => s.price = bs[s.at].low /\ \A k \in Beside(bs, s.at) : bs[k].low > s.price
  BY DEF Swings, WingsClosed
<1>2. s.at \in 2..Len(bs) /\ s.at \in 1..Len(bs)
  BY <1>0, <1>1
<1>3. bs[s.at].high \in Nat /\ bs[s.at].low \in Nat /\ bs[s.at].low <= bs[s.at].high
  BY <1>2, BarFacts
<1> QED BY <1>1, <1>2, <1>3

\* What a break is.
LEMMA ConsumptionFacts ==
  ASSUME NEW bs \in Seq(ClosedBars), NEW c \in Consumptions(bs)
  PROVE  /\ c = [bar |-> c.bar, swing |-> c.swing] /\ c.swing \in Swings(bs)
         /\ c.bar \in (c.swing.at + 1)..Len(bs) /\ Through(bs[c.bar], c.swing)
         /\ \A i \in (c.swing.at + 1)..Len(bs) : Through(bs[i], c.swing) => c.bar <= i
         /\ c.bar \in 3..Len(bs)
<1>1. PICK s \in Swings(bs) : BreakBars(bs, s) # {} /\ c = [bar |-> Min(BreakBars(bs, s)), swing |-> s]
  BY DEF Consumptions
<1>2. s.at \in 2..Len(bs) /\ Len(bs) \in Nat
  BY SwingFacts
<1>3. BreakBars(bs, s) \subseteq Int /\ \A x \in BreakBars(bs, s) : x >= 1
  BY <1>2 DEF BreakBars
<1>4. Min(BreakBars(bs, s)) \in BreakBars(bs, s) /\ \A y \in BreakBars(bs, s) : Min(BreakBars(bs, s)) <= y
  BY <1>1, <1>3, LeastOf
<1>5. c.bar = Min(BreakBars(bs, s)) /\ c.swing = s
  BY <1>1
<1>6. c.bar \in (s.at + 1)..Len(bs) /\ Through(bs[c.bar], s)
  BY <1>4, <1>5 DEF BreakBars
<1>7. \A i \in (s.at + 1)..Len(bs) : Through(bs[i], s) => c.bar <= i
  BY <1>4, <1>5 DEF BreakBars
<1>8. c.bar \in 3..Len(bs)
  BY <1>2, <1>6
<1> QED BY <1>1, <1>5, <1>6, <1>7, <1>8

\* And every swing that some bar trades through later is broken.
LEMMA Consumed ==
  ASSUME NEW bs \in Seq(ClosedBars), NEW s \in Swings(bs), NEW i \in (s.at + 1)..Len(bs), Through(bs[i], s)
  PROVE  \E c \in Consumptions(bs) : c.swing = s /\ c.bar <= i
<1>1. i \in BreakBars(bs, s)
  BY DEF BreakBars
<1> DEFINE c == [bar |-> Min(BreakBars(bs, s)), swing |-> s]
<1>2. c \in Consumptions(bs) /\ c.swing = s
  BY <1>1 DEF Consumptions
<1>3. c.bar <= i
  <2> HIDE DEF c
  <2> QED BY <1>2, ConsumptionFacts
<1> QED BY <1>2, <1>3

LEMMA ConsumedOnce ==
  ASSUME NEW bs \in Seq(ClosedBars), NEW c \in Consumptions(bs), NEW d \in Consumptions(bs), c.swing = d.swing
  PROVE  c = d
BY ConsumptionFacts DEF Consumptions

\* The breaks are in a line.
LEMMA BreaksInLine ==
  ASSUME NEW bs \in Seq(ClosedBars)
  PROVE  /\ \A c, d \in Consumptions(bs) : c = d \/ BreakBefore(c, d) \/ BreakBefore(d, c)
         /\ \A c \in Consumptions(bs) : ~BreakBefore(c, c)
         /\ \A c, d, e \in Consumptions(bs) : BreakBefore(c, d) /\ BreakBefore(d, e) => BreakBefore(c, e)
<1>1. \A c \in Consumptions(bs) : c.bar \in Nat /\ c.swing.at \in Nat /\ c.swing.kind \in {"HIGH", "LOW"}
  <2> TAKE c \in Consumptions(bs)
  <2>1. c.swing \in Swings(bs) /\ c.bar \in 3..Len(bs)
    BY ConsumptionFacts
  <2> QED BY <2>1, SwingFacts
<1>2. ASSUME NEW c \in Consumptions(bs), NEW d \in Consumptions(bs), c.swing.at = d.swing.at, c.swing.kind = d.swing.kind
      PROVE  c = d
  <2>1. c.swing \in Swings(bs) /\ d.swing \in Swings(bs)
    BY ConsumptionFacts
  <2>2. \A s \in Swings(bs) : /\ s = [at |-> s.at, kind |-> s.kind, price |-> s.price]
                              /\ s.kind = "HIGH" => s.price = bs[s.at].high
                              /\ s.kind = "LOW" => s.price = bs[s.at].low
                              /\ s.kind \in {"HIGH", "LOW"}
    BY SwingFacts
  <2>3. c.swing = d.swing
    BY <1>2, <2>1, <2>2
  <2> QED BY <2>3, ConsumedOnce
<1>3. \A c, d \in Consumptions(bs) : c = d \/ BreakBefore(c, d) \/ BreakBefore(d, c)
  <2> TAKE c, d \in Consumptions(bs)
  <2> QED BY <1>1, <1>2 DEF BreakBefore
<1>4. \A c \in Consumptions(bs) : ~BreakBefore(c, c)
  BY <1>1 DEF BreakBefore
<1>5. \A c, d, e \in Consumptions(bs) : BreakBefore(c, d) /\ BreakBefore(d, e) => BreakBefore(c, e)
  <2> TAKE c, d, e \in Consumptions(bs)
  <2> QED BY <1>1 DEF BreakBefore
<1> QED BY <1>3, <1>4, <1>5

\* There are finitely many.
LEMMA FiniteBreaks ==
  ASSUME NEW bs \in Seq(ClosedBars)
  PROVE  IsFiniteSet(Consumptions(bs)) /\ Cardinality(Consumptions(bs)) \in Nat
<1> DEFINE all == Consumptions(bs)
           place(c) == 2 * c.swing.at + (IF c.swing.kind = "HIGH" THEN 0 ELSE 1)
           f == [c \in all |-> place(c)]
           n == 2 * Len(bs) + 1
<1>1. \A c \in all : c.swing \in Swings(bs) /\ c.swing.at \in 2..Len(bs) /\ c.swing.kind \in {"HIGH", "LOW"}
  <2> TAKE c \in all
  <2>1. c.swing \in Swings(bs)
    BY ConsumptionFacts
  <2> QED BY <2>1, SwingFacts
<1>2. \A c \in all : place(c) \in 0..n
  BY <1>1
<1>3. ASSUME NEW c \in all, NEW d \in all, place(c) = place(d) PROVE c = d
  <2>1. c.swing.at = d.swing.at /\ c.swing.kind = d.swing.kind
    BY <1>1, <1>3
  <2>3. c.swing = d.swing
    <3>1. \A s \in Swings(bs) : /\ s = [at |-> s.at, kind |-> s.kind, price |-> s.price]
                                /\ s.kind = "HIGH" => s.price = bs[s.at].high
                                /\ s.kind = "LOW" => s.price = bs[s.at].low
      BY SwingFacts
    <3> QED BY <1>1, <2>1, <3>1
  <2> QED BY <2>3, ConsumedOnce
<1> HIDE DEF place, n, all
<1>4. f \in Injection(all, 0..n)
  BY <1>2, <1>3 DEF Injection, IsInjective
<1>5. IsFiniteSet(0..n)
  <2>1. n \in Int
    BY DEF n
  <2> QED BY <2>1, FS_Interval
<1>6. IsFiniteSet(all)
  <2> HIDE DEF f
  <2> QED BY <1>4, <1>5, FS_Injection
<1> QED BY <1>6, FS_CardinalityType DEF all

\* In a finite line, the members are told by how many come before them.
Below(A, R, c) == {d \in A : <<d, c>> \in R}
InLine(A, R) ==
  /\ \A c, d \in A : c = d \/ <<c, d>> \in R \/ <<d, c>> \in R
  /\ \A c \in A : <<c, c>> \notin R
  /\ \A c, d, e \in A : <<c, d>> \in R /\ <<d, e>> \in R => <<c, e>> \in R

LEMMA Ranks ==
  ASSUME NEW A, NEW R, IsFiniteSet(A), NEW n \in Nat, n = Cardinality(A), InLine(A, R)
  PROVE  /\ \A c \in A : Cardinality(Below(A, R, c)) \in 0..(n - 1)
         /\ \A c, d \in A : <<c, d>> \in R => Cardinality(Below(A, R, c)) < Cardinality(Below(A, R, d))
         /\ \A c, d \in A : Cardinality(Below(A, R, c)) = Cardinality(Below(A, R, d)) => c = d
         /\ \A k \in 0..(n - 1) : \E c \in A : Cardinality(Below(A, R, c)) = k
<1> DEFINE rank(c) == Cardinality(Below(A, R, c))
<1>0. /\ \A c, d \in A : c = d \/ <<c, d>> \in R \/ <<d, c>> \in R
      /\ \A c \in A : <<c, c>> \notin R
      /\ \A c, d, e \in A : <<c, d>> \in R /\ <<d, e>> \in R => <<c, e>> \in R
  BY DEF InLine
<1>1. ASSUME NEW c \in A PROVE IsFiniteSet(Below(A, R, c)) /\ rank(c) \in Nat /\ rank(c) < n
  <2>1. Below(A, R, c) \in SUBSET A /\ c \notin Below(A, R, c)
    BY <1>0 DEF Below
  <2>2. IsFiniteSet(Below(A, R, c)) /\ Cardinality(Below(A, R, c)) <= n /\ Cardinality(Below(A, R, c)) # n
    BY <2>1, FS_Subset
  <2>3. rank(c) \in Nat
    BY <2>2, FS_CardinalityType
  <2> QED BY <2>2, <2>3
<1>2. ASSUME NEW c \in A, NEW d \in A, <<c, d>> \in R PROVE rank(c) < rank(d)
  <2>1. Below(A, R, c) \in SUBSET Below(A, R, d) /\ c \notin Below(A, R, c) /\ c \in Below(A, R, d)
    BY <1>0, <1>2 DEF Below
  <2>2. IsFiniteSet(Below(A, R, d))
    BY <1>1
  <2>3. Cardinality(Below(A, R, c)) <= Cardinality(Below(A, R, d)) /\ Cardinality(Below(A, R, c)) # Cardinality(Below(A, R, d))
    BY <2>1, <2>2, FS_Subset
  <2> QED BY <1>1, <2>3
<1> HIDE DEF rank
<1>3. \A c, d \in A : rank(c) = rank(d) => c = d
  <2> SUFFICES ASSUME NEW c \in A, NEW d \in A, rank(c) = rank(d), c # d PROVE FALSE
    OBVIOUS
  <2>1. rank(c) \in Nat /\ rank(d) \in Nat
    BY <1>1
  <2>2. CASE <<c, d>> \in R
    BY <1>2, <2>1, <2>2
  <2>3. CASE <<d, c>> \in R
    BY <1>2, <2>1, <2>3
  <2> QED BY <1>0, <2>2, <2>3
<1> DEFINE f == [c \in A |-> rank(c)]
<1>4. f \in Injection(A, 0..(n - 1))
  BY <1>1, <1>3 DEF Injection, IsInjective
<1>5. IsFiniteSet(0..(n - 1)) /\ Cardinality(0..(n - 1)) = n
  <2>1. 0 \in Int /\ n - 1 \in Int
    OBVIOUS
  <2>2. Cardinality(0..(n - 1)) = IF 0 > n - 1 THEN 0 ELSE (n - 1) - 0 + 1
    BY <2>1, FS_Interval
  <2> QED BY <2>1, <2>2, FS_Interval
<1>6. f \in Surjection(A, 0..(n - 1))
  <2> HIDE DEF f
  <2> QED BY <1>4, <1>5, FS_Injection
<1>7. \A k \in 0..(n - 1) : \E c \in A : rank(c) = k
  BY <1>6 DEF Surjection
<1> QED BY <1>1, <1>2, <1>3, <1>7 DEF rank

\* A break of a list of breaks: it is a consumption, at its rank.
IsBreak(bs, brks, k) ==
  LET c == [bar |-> brks[k].bar, swing |-> brks[k].swing]
  IN  /\ c \in Consumptions(bs) /\ Cardinality({d \in Consumptions(bs) : BreakBefore(d, c)}) = k - 1
      /\ brks[k].way = Way(brks[k].swing)
      /\ brks[k] = [bar |-> brks[k].bar, swing |-> brks[k].swing, way |-> brks[k].way,
                    type |-> IF k = 1 \/ Way(brks[k - 1].swing) = Way(brks[k].swing) THEN "BOS" ELSE "MSB"]

IsBreaks(bs, brks) ==
  /\ brks \in Seq([bar : 3..Len(bs), swing : Swings(bs), way : {"UP", "DOWN"}, type : {"BOS", "MSB"}])
  /\ Len(brks) = Cardinality(Consumptions(bs)) /\ \A k \in DOMAIN brks : IsBreak(bs, brks, k)
  /\ \A c \in Consumptions(bs) : \E k \in DOMAIN brks : brks[k].bar = c.bar /\ brks[k].swing = c.swing

\* The breaks list every consumption once, by its rank.
LEMMA BreaksFacts ==
  ASSUME NEW bs \in Seq(ClosedBars)
  PROVE  IsBreaks(bs, Breaks(bs))
<1> DEFINE all == Consumptions(bs)
           n == Cardinality(all)
           R == {p \in all \X all : BreakBefore(p[1], p[2])}
           order == [k \in 1..n |-> CHOOSE c \in all : Cardinality({d \in all : BreakBefore(d, c)}) = k - 1]
           brks == [k \in DOMAIN order |->
                     [bar |-> order[k].bar, swing |-> order[k].swing, way |-> Way(order[k].swing),
                      type |-> IF k = 1 \/ Way(order[k - 1].swing) = Way(order[k].swing) THEN "BOS" ELSE "MSB"]]
<1>1. Breaks(bs) = brks
  BY Zenon DEF Breaks
<1>2. IsFiniteSet(all) /\ n \in Nat
  BY FiniteBreaks
<1>3. \A c, d \in all : <<c, d>> \in R <=> BreakBefore(c, d)
  OBVIOUS
<1>4. /\ \A c, d \in all : c = d \/ BreakBefore(c, d) \/ BreakBefore(d, c)
      /\ \A c \in all : ~BreakBefore(c, c)
      /\ \A c, d, e \in all : BreakBefore(c, d) /\ BreakBefore(d, e) => BreakBefore(c, e)
  BY BreaksInLine
<1>5. \A c \in all : Below(all, R, c) = {d \in all : BreakBefore(d, c)}
  BY <1>3 DEF Below
<1>6. \A c \in all : c.bar \in 3..Len(bs) /\ c.swing \in Swings(bs) /\ c = [bar |-> c.bar, swing |-> c.swing]
  BY ConsumptionFacts
<1>7. \A s \in Swings(bs) : Way(s) \in {"UP", "DOWN"}
  BY DEF Way
<1> HIDE DEF all, n, R
<1>8. /\ \A c \in all : Cardinality(Below(all, R, c)) \in 0..(n - 1)
      /\ \A k \in 0..(n - 1) : \E c \in all : Cardinality(Below(all, R, c)) = k
      /\ \A c, d \in all : Cardinality(Below(all, R, c)) = Cardinality(Below(all, R, d)) => c = d
  <2>1. n = Cardinality(all)
    BY DEF n
  <2>2. /\ \A c, d \in all : c = d \/ <<c, d>> \in R \/ <<d, c>> \in R
        /\ \A c \in all : <<c, c>> \notin R
        /\ \A c, d, e \in all : <<c, d>> \in R /\ <<d, e>> \in R => <<c, e>> \in R
    <3>1. \A c, d \in all : c = d \/ <<c, d>> \in R \/ <<d, c>> \in R
      BY <1>3, <1>4, Zenon
    <3>2. \A c \in all : <<c, c>> \notin R
      BY <1>3, <1>4, Zenon
    <3>3. \A c, d, e \in all : <<c, d>> \in R /\ <<d, e>> \in R => <<c, e>> \in R
      BY <1>3, <1>4, Zenon
    <3> QED BY <3>1, <3>2, <3>3, Zenon
  <2>3. InLine(all, R)
    BY <2>2, Zenon DEF InLine
  <2> QED BY <1>2, <2>1, <2>3, Ranks
<1>9. \A k \in 1..n : order[k] \in all /\ Cardinality({d \in all : BreakBefore(d, order[k])}) = k - 1
  <2> TAKE k \in 1..n
  <2>1. k - 1 \in 0..(n - 1)
    BY <1>2
  <2>2. \E c \in all : Cardinality({d \in all : BreakBefore(d, c)}) = k - 1
    BY <1>5, <1>8, <2>1
  <2>3. order[k] = CHOOSE c \in all : Cardinality({d \in all : BreakBefore(d, c)}) = k - 1
    OBVIOUS
  <2> QED BY <2>2, <2>3, Zenon
<1>10. DOMAIN order = 1..n
  OBVIOUS
<1>11. \A c \in all : \E k \in 1..n : order[k] = c
  <2> TAKE c \in all
  <2> DEFINE k == Cardinality(Below(all, R, c)) + 1
  <2>1. Cardinality(Below(all, R, c)) \in 0..(n - 1)
    BY <1>8
  <2>2. k \in 1..n /\ k - 1 = Cardinality(Below(all, R, c))
    BY <1>2, <2>1
  <2> HIDE DEF k, order
  <2>3. order[k] \in all /\ Cardinality(Below(all, R, order[k])) = k - 1
    BY <1>5, <1>9, <2>2
  <2>4. order[k] = c
    BY <1>8, <2>2, <2>3, Zenon
  <2> QED BY <2>2, <2>4
<1> DEFINE B == [bar : 3..Len(bs), swing : Swings(bs), way : {"UP", "DOWN"}, type : {"BOS", "MSB"}]
<1>12. DOMAIN brks = 1..n
  BY <1>10
<1>13. \A k \in 1..n : brks[k] = [bar |-> order[k].bar, swing |-> order[k].swing, way |-> Way(order[k].swing),
                      type |-> IF k = 1 \/ Way(order[k - 1].swing) = Way(order[k].swing) THEN "BOS" ELSE "MSB"]
  BY <1>10
<1> HIDE DEF order
<1>14. \A k \in 1..n : /\ brks[k] \in B /\ brks[k].bar = order[k].bar /\ brks[k].swing = order[k].swing
                       /\ brks[k].way = Way(order[k].swing)
  <2> TAKE k \in 1..n
  <2> HIDE DEF brks
  <2>1. order[k] \in all
    BY <1>9
  <2>2. order[k].bar \in 3..Len(bs) /\ order[k].swing \in Swings(bs)
    BY <1>6, <2>1
  <2>3. Way(order[k].swing) \in {"UP", "DOWN"}
    BY <1>7, <2>2
  <2> DEFINE o == order[k]
             u == IF k = 1 \/ Way(order[k - 1].swing) = Way(o.swing) THEN "BOS" ELSE "MSB"
  <2>4. u \in {"BOS", "MSB"}
    OBVIOUS
  <2>5. brks[k] = [bar |-> o.bar, swing |-> o.swing, way |-> Way(o.swing), type |-> u]
    BY <1>13
  <2> HIDE DEF u
  <2> QED BY <2>2, <2>3, <2>4, <2>5
<1>15. brks \in Seq(B)
  <2>1. brks \in [1..n -> B]
    <3>1. brks = [k \in 1..n |-> brks[k]]
      BY <1>10
    <3> HIDE DEF brks, B
    <3> QED BY <1>12, <1>14, <3>1
  <2> HIDE DEF brks, B
  <2> QED BY <1>2, <2>1
<1>16. \A k \in DOMAIN brks :
              /\ [bar |-> brks[k].bar, swing |-> brks[k].swing] \in all
              /\ brks[k].way = Way(brks[k].swing)
  <2> SUFFICES ASSUME NEW k \in 1..n PROVE [bar |-> brks[k].bar, swing |-> brks[k].swing] \in all /\ brks[k].way = Way(brks[k].swing)
    BY <1>12
  <2> HIDE DEF brks
  <2>1. brks[k].bar = order[k].bar /\ brks[k].swing = order[k].swing /\ order[k] \in all /\ brks[k].way = Way(order[k].swing)
    BY <1>9, <1>14
  <2>2. [bar |-> brks[k].bar, swing |-> brks[k].swing] = order[k]
    BY <1>6, <2>1
  <2> QED BY <2>1, <2>2
<1>17. \A c \in all : \E k \in DOMAIN brks : brks[k].bar = c.bar /\ brks[k].swing = c.swing
  <2> TAKE c \in all
  <2> HIDE DEF brks
  <2>1. PICK k \in 1..n : order[k] = c
    BY <1>11
  <2>2. brks[k].bar = c.bar /\ brks[k].swing = c.swing
    BY <1>14, <2>1
  <2> QED BY <1>12, <2>2
<1>18. \A k \in DOMAIN brks :
         /\ Cardinality({d \in all : BreakBefore(d, [bar |-> brks[k].bar, swing |-> brks[k].swing])}) = k - 1
         /\ brks[k] = [bar |-> brks[k].bar, swing |-> brks[k].swing, way |-> brks[k].way,
                       type |-> IF k = 1 \/ Way(brks[k - 1].swing) = Way(brks[k].swing) THEN "BOS" ELSE "MSB"]
  <2> SUFFICES ASSUME NEW k \in 1..n
               PROVE  /\ Cardinality({d \in all : BreakBefore(d, [bar |-> brks[k].bar, swing |-> brks[k].swing])}) = k - 1
                      /\ brks[k] = [bar |-> brks[k].bar, swing |-> brks[k].swing, way |-> brks[k].way,
                                    type |-> IF k = 1 \/ Way(brks[k - 1].swing) = Way(brks[k].swing) THEN "BOS" ELSE "MSB"]
    BY <1>12
  <2> HIDE DEF brks
  <2>1. order[k] \in all /\ Cardinality({d \in all : BreakBefore(d, order[k])}) = k - 1
    BY <1>9
  <2>2. [bar |-> brks[k].bar, swing |-> brks[k].swing] = order[k]
    BY <1>6, <1>14, <2>1
  <2>3. k # 1 => brks[k - 1].swing = order[k - 1].swing
    <3>1. k # 1 => k - 1 \in 1..n
      BY <1>2
    <3> QED BY <1>14, <3>1
  <2>4. brks[k].bar = order[k].bar /\ brks[k].swing = order[k].swing /\ brks[k].way = Way(order[k].swing)
    BY <1>14
  <2>5. (k = 1 \/ Way(order[k - 1].swing) = Way(order[k].swing)) <=> (k = 1 \/ Way(brks[k - 1].swing) = Way(brks[k].swing))
    BY <2>3, <2>4
  <2>6. brks[k] = [bar |-> brks[k].bar, swing |-> brks[k].swing, way |-> brks[k].way,
                   type |-> IF k = 1 \/ Way(brks[k - 1].swing) = Way(brks[k].swing) THEN "BOS" ELSE "MSB"]
    <3>1. brks[k] = [bar |-> order[k].bar, swing |-> order[k].swing, way |-> Way(order[k].swing),
                     type |-> IF k = 1 \/ Way(order[k - 1].swing) = Way(order[k].swing) THEN "BOS" ELSE "MSB"]
      BY <1>13
    <3> QED BY <2>4, <2>5, <3>1
  <2> QED BY <2>1, <2>2, <2>6
<1>19. Len(brks) = n
  <2> HIDE DEF brks
  <2>1. DOMAIN brks = 1..Len(brks) /\ Len(brks) \in Nat
    BY <1>15
  <2> QED BY <1>2, <1>12, <2>1
<1> HIDE DEF brks
<1>20. \A k \in DOMAIN brks : IsBreak(bs, brks, k)
  <2> TAKE k \in DOMAIN brks
  <2>1. /\ [bar |-> brks[k].bar, swing |-> brks[k].swing] \in Consumptions(bs)
        /\ Cardinality({d \in Consumptions(bs) : BreakBefore(d, [bar |-> brks[k].bar, swing |-> brks[k].swing])}) = k - 1
        /\ brks[k].way = Way(brks[k].swing)
        /\ brks[k] = [bar |-> brks[k].bar, swing |-> brks[k].swing, way |-> brks[k].way,
                      type |-> IF k = 1 \/ Way(brks[k - 1].swing) = Way(brks[k].swing) THEN "BOS" ELSE "MSB"]
    BY <1>16, <1>18, Zenon DEF all
  <2> QED BY <2>1, Zenon DEF IsBreak
<1>21. IsBreaks(bs, brks)
  BY <1>15, <1>17, <1>19, <1>20, Zenon DEF IsBreaks, all, n
<1> QED BY <1>1, <1>21, Zenon

\* A break is of a swing before it, and its origin candle is before it.
LEMMA BreakPlaced ==
  ASSUME NEW bs \in Seq(ClosedBars), NEW b \in Range(Breaks(bs))
  PROVE  /\ b.bar \in 3..Len(bs) /\ b.swing \in Swings(bs) /\ b.way \in {"UP", "DOWN"} /\ b.way = Way(b.swing)
         /\ b.swing.at < b.bar /\ OriginCandle(bs, b) \in 1..(b.bar - 1) /\ OriginCandle(bs, b) \in 1..Len(bs)
<1>1. PICK k \in DOMAIN Breaks(bs) : b = Breaks(bs)[k]
  BY DEF Range
<1>2. /\ b.bar \in 3..Len(bs) /\ b.swing \in Swings(bs) /\ b.way \in {"UP", "DOWN"} /\ b.way = Way(b.swing)
      /\ [bar |-> b.bar, swing |-> b.swing] \in Consumptions(bs)
  <2>1. /\ [bar |-> b.bar, swing |-> b.swing] \in Consumptions(bs)
        /\ b.way = Way(b.swing)
    BY <1>1, BreaksFacts, Zenon DEF IsBreaks, IsBreak
  <2> DEFINE c == [bar |-> b.bar, swing |-> b.swing]
  <2>2. c.swing \in Swings(bs) /\ c.bar \in 3..Len(bs)
    <3> HIDE DEF c
    <3>1. c \in Consumptions(bs)
      BY <2>1 DEF c
    <3> QED BY <3>1, ConsumptionFacts
  <2>3. Way(b.swing) \in {"UP", "DOWN"}
    BY DEF Way
  <2> QED BY <2>1, <2>2, <2>3
<1>3. b.swing.at < b.bar
  <2> DEFINE c == [bar |-> b.bar, swing |-> b.swing]
  <2>1. c \in Consumptions(bs) /\ c.bar = b.bar /\ c.swing = b.swing
    BY <1>2
  <2>3. c.bar \in (c.swing.at + 1)..Len(bs)
    <3> HIDE DEF c
    <3> QED BY <2>1, ConsumptionFacts
  <2>2. b.swing.at \in Nat
    BY <1>2, SwingFacts
  <2> QED BY <1>2, <2>1, <2>2, <2>3
<1>4. OriginCandle(bs, b) \in 1..(b.bar - 1)
  <2> DEFINE walked == Max({1, b.bar - WalkBack})..(b.bar - 1)
             other == {i \in walked : OppositeColour(bs[i], b.way)}
  <2>1. WalkBack \in Nat \ {0} /\ b.bar \in Nat /\ b.bar >= 3 /\ b.bar - 1 \in 1..(b.bar - 1)
    BY <1>2, StructureAssumption
  <2>2. Max({1, b.bar - WalkBack}) \in {1, b.bar - WalkBack} /\ Max({1, b.bar - WalkBack}) >= 1
    <3>1. 1 \in Int /\ b.bar - WalkBack \in Int
      BY <2>1
    <3> QED BY <3>1, OfTwo
  <2> HIDE DEF walked
  <2>3. walked \subseteq 1..(b.bar - 1)
    BY <2>1, <2>2 DEF walked
  <2>4. CASE other = {}
    BY <2>1, <2>4 DEF OriginCandle, walked
  <2>5. CASE other # {}
    <3>1. other \subseteq 1..(b.bar - 1)
      BY <2>3
    <3>3. OriginCandle(bs, b) = Max(other)
      BY <2>5, Zenon DEF OriginCandle, walked
    <3> HIDE DEF other
    <3>2. Max(other) \in other
      <4>1. other \subseteq Int /\ b.bar - 1 \in Int /\ \A x \in other : x <= b.bar - 1
        BY <2>1, <3>1
      <4> QED BY <2>5, <4>1, MostOf
    <3> QED BY <3>1, <3>2, <3>3
  <2> QED BY <2>4, <2>5
<1> QED BY <1>2, <1>3, <1>4

-----------------------------------------------------------------------------
(* Pools, sweeps and the anchors of a stop. *)

\* The ends of a bounded set of numbers.
LEMMA EndsOf ==
  ASSUME NEW lo \in Int, NEW hi \in Int, NEW S, S \subseteq lo..hi, S # {}
  PROVE  /\ Min(S) \in S /\ \A y \in S : Min(S) <= y
         /\ Max(S) \in S /\ \A y \in S : y <= Max(S)
         /\ Min(S) \in lo..hi /\ Max(S) \in lo..hi
<1>1. S \subseteq Int /\ \A x \in S : x >= lo /\ x <= hi
  OBVIOUS
<1>2. Min(S) \in S /\ \A y \in S : Min(S) <= y
  BY <1>1, LeastOf
<1>3. Max(S) \in S /\ \A y \in S : y <= Max(S)
  BY <1>1, MostOf
<1> QED BY <1>2, <1>3

PoolPlaced(p, bs, top) ==
  p.price \in 0..top /\ p.side \in {"HIGH", "LOW"} /\ p.at \in 1..Len(bs)

LEMMA SwingPlaced ==
  ASSUME NEW bs \in Seq(ClosedBars), NEW top \in Nat, Capped(bs, top), NEW s \in Swings(bs)
  PROVE  s.price \in 0..top /\ s.at \in 1..Len(bs) /\ s.kind \in {"HIGH", "LOW"}
<1>1. s.price \in Nat /\ s.price <= bs[s.at].high /\ s.at \in 2..Len(bs) /\ s.kind \in {"HIGH", "LOW"}
  BY SwingFacts
<1>2. s.at \in 1..Len(bs)
  BY <1>1
<1>3. bs[s.at].high \in Nat /\ bs[s.at].high <= top
  BY <1>2, BarFacts DEF Capped
<1> QED BY <1>1, <1>2, <1>3

LEMMA PeriodPlaced ==
  ASSUME NEW bs \in Seq(ClosedBars), NEW top \in Nat, Capped(bs, top), NEW p \in PeriodPools(bs)
  PROVE  PoolPlaced(p, bs, top)
<1> DEFINE period(n) == {i \in DOMAIN bs : (i - 1) \div PeriodBars = n}
           ended     == {n \in 0..Len(bs) : period(n) # {} /\ period(n + 1) # {}}
           two(n) == {Pool("PREVIOUS", "HIGH", Max({bs[i].high : i \in period(n)}), Max(period(n))),
                      Pool("PREVIOUS", "LOW", Min({bs[i].low : i \in period(n)}), Max(period(n)))}
<1>1. PeriodPools(bs) = UNION {two(n) : n \in ended}
  BY Zenon DEF PeriodPools
<1>2. \A n \in ended : period(n) # {} /\ period(n) \subseteq 1..Len(bs)
  OBVIOUS
<1> HIDE DEF period, ended, two
<1>3. PICK n \in ended : p \in two(n)
  BY <1>1
<1> DEFINE S == period(n)
           highs == {bs[i].high : i \in S}
           lows == {bs[i].low : i \in S}
<1>4. S # {} /\ S \subseteq 1..Len(bs) /\ Len(bs) \in Nat
  BY <1>2
<1>5. p = Pool("PREVIOUS", "HIGH", Max(highs), Max(S)) \/ p = Pool("PREVIOUS", "LOW", Min(lows), Max(S))
  BY <1>3 DEF two
<1> HIDE DEF S
<1>6. \A i \in S : bs[i].high \in 0..top /\ bs[i].low \in 0..top
  <2> TAKE i \in S
  <2>1. i \in 1..Len(bs)
    BY <1>4
  <2> QED BY <2>1, BarFacts DEF Capped
<1>7. Max(S) \in 1..Len(bs)
  <2>1. 1 \in Int /\ Len(bs) \in Int /\ S \subseteq 1..Len(bs) /\ S # {}
    BY <1>4
  <2> QED BY <2>1, EndsOf, Zenon
<1>8. PICK i \in S : TRUE
  BY <1>4
<1>9. highs \subseteq 0..top /\ highs # {} /\ lows \subseteq 0..top /\ lows # {}
  <2>1. bs[i].high \in highs /\ bs[i].low \in lows
    BY <1>8
  <2> QED BY <1>6, <2>1
<1> HIDE DEF highs, lows
<1>10. Max(highs) \in 0..top /\ Min(lows) \in 0..top
  <2>1. 0 \in Int /\ top \in Int
    OBVIOUS
  <2> QED BY <1>9, <2>1, EndsOf, Zenon
<1> QED BY <1>5, <1>7, <1>10 DEF Pool, PoolPlaced

LEMMA PoolFacts ==
  ASSUME NEW bs \in Seq(ClosedBars), NEW top \in Nat, Capped(bs, top), NEW p \in Pools(bs)
  PROVE  PoolPlaced(p, bs, top)
<1>1. CASE p \in SwingPools(bs)
  <2>1. PICK s \in Swings(bs) : p = Pool("SWING_LEVEL", s.kind, s.price, s.at)
    BY <1>1 DEF SwingPools
  <2>2. s.price \in 0..top /\ s.at \in 1..Len(bs) /\ s.kind \in {"HIGH", "LOW"}
    BY SwingPlaced
  <2> QED BY <2>1, <2>2 DEF Pool, PoolPlaced
<1>2. CASE p \in EqualsPools(bs)
  <2>1. PICK a \in Swings(bs), b \in Swings(bs) :
          p = Pool(EqualsClass(a, b), a.kind,
                   IF a.kind = "HIGH" THEN Max({a.price, b.price}) ELSE Min({a.price, b.price}), b.at)
    BY <1>2 DEF EqualsPools
  <2>2. /\ a.price \in 0..top /\ a.kind \in {"HIGH", "LOW"}
        /\ b.price \in 0..top /\ b.at \in 1..Len(bs)
    BY SwingPlaced
  <2>3. a.price \in Int /\ b.price \in Int
    BY <2>2
  <2>4. Max({a.price, b.price}) \in {a.price, b.price} /\ Min({a.price, b.price}) \in {a.price, b.price}
    BY <2>3, OfTwo
  <2> QED BY <2>1, <2>2, <2>4 DEF Pool, PoolPlaced
<1>3. CASE p \in PeriodPools(bs)
  BY <1>3, PeriodPlaced
<1> QED BY <1>1, <1>2, <1>3 DEF Pools

\* The bars of a sweep are after the level, and one of them went furthest.
LEMMA SweepFacts ==
  ASSUME NEW bs \in Seq(ClosedBars), NEW top \in Nat, Capped(bs, top), NEW p, PoolPlaced(p, bs, top),
         NEW run \in Excursions(bs, p)
  PROVE  /\ run # {} /\ run \subseteq (p.at + 1)..Len(bs) /\ run \subseteq 1..Len(bs)
         /\ \A i \in run : Above(bs[i], p) \in 1..top
         /\ Deepest(bs, p, run) \in run
         /\ \A j \in run : Above(bs[j], p) <= Above(bs[Deepest(bs, p, run)], p)
<1> DEFINE beyond == {i \in (p.at + 1)..Len(bs) : Above(bs[i], p) > 0}
           r(i) == {j \in beyond : \A k \in Min({i, j})..Max({i, j}) : k \in beyond}
<1>1. Excursions(bs, p) = {r(i) : i \in beyond}
  BY Zenon DEF Excursions
<1>2. p.at \in Nat /\ p.at >= 1 /\ Len(bs) \in Nat /\ beyond \subseteq 1..Len(bs) /\ beyond \subseteq (p.at + 1)..Len(bs)
  BY DEF PoolPlaced
<1>3. \A i \in beyond : Above(bs[i], p) \in 1..top
  <2> TAKE i \in beyond
  <2>1. i \in 1..Len(bs) /\ Above(bs[i], p) > 0
    BY <1>2
  <2>2. bs[i].high \in 0..top /\ bs[i].low \in 0..top
    BY <2>1, BarFacts DEF Capped
  <2> HIDE DEF beyond
  <2> QED BY <2>1, <2>2 DEF PoolPlaced, Above
<1> HIDE DEF beyond
<1>4. PICK i \in beyond : run = r(i)
  BY <1>1
<1>5. i \in run
  <2>1. i \in Int
    BY <1>2
  <2>2. Min({i, i}) \in {i, i} /\ Max({i, i}) \in {i, i}
    BY <2>1, OfTwo
  <2>3. \A k \in Min({i, i})..Max({i, i}) : k \in beyond
    BY <2>1, <2>2
  <2> QED BY <1>4, <2>3
<1>6. run \subseteq beyond
  BY <1>4
<1> DEFINE far == {Above(bs[j], p) : j \in run}
           best == {a \in run : \A j \in run : Above(bs[j], p) <= Above(bs[a], p)}
<1>7. Max(far) \in far /\ \A y \in far : y <= Max(far)
  <2>1. \A x \in far : x \in 1..top
    BY <1>3, <1>6
  <2>2. Above(bs[i], p) \in far
    BY <1>5
  <2> HIDE DEF far
  <2>3. far \subseteq 1..top /\ far # {} /\ 1 \in Int /\ top \in Int
    BY <2>1, <2>2
  <2> QED BY <2>3, EndsOf, Zenon
<1>8. PICK a \in run : Max(far) = Above(bs[a], p)
  BY <1>7
<1>9. a \in best
  <2>1. \A j \in run : Above(bs[j], p) \in far
    OBVIOUS
  <2> HIDE DEF far
  <2> QED BY <1>7, <1>8, <2>1
<1>10. best # {} /\ best \subseteq 1..Len(bs) /\ 1 \in Int /\ Len(bs) \in Int
  <2>1. best \subseteq run
    OBVIOUS
  <2> HIDE DEF best
  <2> QED BY <1>2, <1>6, <1>9, <2>1
<1>11. Deepest(bs, p, run) = Min(best)
  BY Zenon DEF Deepest
<1>12. \A b \in best : b \in run /\ \A j \in run : Above(bs[j], p) <= Above(bs[b], p)
  OBVIOUS
<1> HIDE DEF best, far
<1>13. Min(best) \in best
  BY <1>10, EndsOf, Zenon
<1>14. Deepest(bs, p, run) \in best
  BY <1>11, <1>13
<1> QED BY <1>2, <1>3, <1>5, <1>6, <1>12, <1>14

\* The prices a rung stands at are numbers, and bounded.
LEMMA AnchorsBounded ==
  ASSUME NEW bs \in Seq(ClosedBars), NEW top \in Nat, Capped(bs, top), NEW way \in {1, -1}, NEW rung
  PROVE  rung \in {"DEEPEST_SWING", "MOMENTUM_IMBALANCE", "LIQUIDITY_SWEEP_QML", "ORDER_BLOCK", "INNER_MSB"} =>
           Anchors(bs, way, rung) \subseteq (-top)..(2 * top)
<1> SUFFICES ASSUME rung \in {"DEEPEST_SWING", "MOMENTUM_IMBALANCE", "LIQUIDITY_SWEEP_QML", "ORDER_BLOCK", "INNER_MSB"},
                    NEW x \in Anchors(bs, way, rung)
             PROVE  x \in (-top)..(2 * top)
  OBVIOUS
<1>0. \A y \in 0..top : y \in (-top)..(2 * top)
  OBVIOUS
<1>1. CASE rung = "DEEPEST_SWING"
  <2>1. PICK s \in Swings(bs) : x = s.price
    BY <1>1 DEF Anchors
  <2> QED BY <1>0, <2>1, SwingPlaced
<1>2. CASE rung = "MOMENTUM_IMBALANCE"
  <2>1. PICK z \in Imbalances(bs) : x = FarEdge(z, way)
    BY <1>2 DEF Anchors
  <2>2. Placed(z, bs)
    BY ImbalancePlaced
  <2>3. z.low \in 0..top /\ z.high \in 0..top
    BY <2>2, BarFacts DEF Placed, Capped
  <2> QED BY <1>0, <2>1, <2>3 DEF FarEdge
<1>3. CASE rung = "LIQUIDITY_SWEEP_QML"
  <2>1. x \in SweptLevels(bs, way)
    BY <1>3 DEF Anchors
  <2>7. PICK p \in Pools(bs) : x \in {p.price - way * Above(bs[Deepest(bs, p, run)], p) : run \in Excursions(bs, p)}
    BY <2>1 DEF SweptLevels
  <2>2. PICK run \in Excursions(bs, p) : x = p.price - way * Above(bs[Deepest(bs, p, run)], p)
    BY <2>7
  <2>3. PoolPlaced(p, bs, top)
    BY PoolFacts
  <2> DEFINE d == Above(bs[Deepest(bs, p, run)], p)
  <2>4. d \in 1..top
    BY <2>3, SweepFacts
  <2>5. x = p.price - way * d /\ p.price \in 0..top
    BY <2>2, <2>3 DEF PoolPlaced
  <2> HIDE DEF d
  <2>6. way * d = d \/ way * d = -d
    BY <2>4
  <2> QED BY <2>4, <2>5, <2>6
<1>4. CASE rung = "ORDER_BLOCK"
  <2>1. x \in StopAnchors(bs, way)
    BY <1>4 DEF Anchors
  <2>2. PICK b \in Range(Breaks(bs)) : x = IF way = 1 THEN bs[OriginCandle(bs, b)].low ELSE bs[OriginCandle(bs, b)].high
    BY <2>1 DEF StopAnchors
  <2>3. OriginCandle(bs, b) \in 1..Len(bs)
    BY BreakPlaced
  <2>4. bs[OriginCandle(bs, b)].low \in 0..top /\ bs[OriginCandle(bs, b)].high \in 0..top
    BY <2>3, BarFacts DEF Capped
  <2> QED BY <1>0, <2>2, <2>4
<1>5. CASE rung = "INNER_MSB"
  <2>1. PICK b \in Range(Breaks(bs)) : x = b.swing.price
    BY <1>5 DEF Anchors
  <2>2. b.swing \in Swings(bs)
    BY BreakPlaced
  <2> QED BY <1>0, <2>1, <2>2, SwingPlaced
<1> QED BY <1>1, <1>2, <1>3, <1>4, <1>5

-----------------------------------------------------------------------------
(* Setups. *)

\* The located rungs stand at numbers on the stop's side of the entry.
LEMMA LadderFacts ==
  ASSUME NEW way \in {1, -1}, NEW entry \in Int, NEW lo \in Int, NEW hi \in Int, NEW K, K \subseteq 1..5,
         NEW anchors, \A k \in K : anchors[k] \subseteq lo..hi
  PROVE  /\ DOMAIN Ladder(way, entry, anchors, K) \subseteq K
         /\ \A k \in DOMAIN Ladder(way, entry, anchors, K) :
              /\ Ladder(way, entry, anchors, K)[k] \in Int
              /\ (entry - Ladder(way, entry, anchors, K)[k]) * way \in Nat \ {0}
<1> DEFINE side(k) == {q \in {2 * p : p \in anchors[k]} : OnStopSide(way, entry, q)}
           prices == [k \in K |-> side(k)]
           located == {j \in K : prices[j] # {}}
           choice(k) == IF Rungs[k] = "INNER_MSB" THEN Innermost(way, prices[k]) ELSE Outermost(way, prices[k])
           L == [k \in located |-> choice(k)]
<1>1. Ladder(way, entry, anchors, K) = L
  BY Zenon DEF Ladder
<1>2. DOMAIN L = located /\ \A k \in located : L[k] = choice(k)
  OBVIOUS
<1>3. located \subseteq K /\ \A k \in located : prices[k] # {} /\ prices[k] = side(k) /\ k \in K
  OBVIOUS
<1>4. ASSUME NEW k \in located PROVE choice(k) \in Int /\ (entry - choice(k)) * way \in Nat \ {0}
  <2>1. prices[k] # {} /\ prices[k] = side(k) /\ k \in K
    BY <1>3
  <2> DEFINE S == side(k)
             c == choice(k)
  <2>2. S \subseteq (2 * lo)..(2 * hi) /\ \A q \in S : (entry - q) * way > 0
    <3>1. anchors[k] \subseteq lo..hi
      BY <2>1
    <3>2. \A p \in anchors[k] : 2 * p \in (2 * lo)..(2 * hi)
      BY <3>1
    <3> QED BY <3>2 DEF OnStopSide
  <2>3. c \in {Min(S), Max(S)}
    BY <2>1 DEF Innermost, Outermost
  <2>4. S # {} /\ 2 * lo \in Int /\ 2 * hi \in Int
    BY <2>1
  <2> HIDE DEF S, c, prices, located
  <2>5. Min(S) \in S /\ Max(S) \in S
    <3>1. PICK l \in Int, h \in Int : l = 2 * lo /\ h = 2 * hi
      BY <2>4
    <3>2. S \subseteq l..h
      BY <2>2, <3>1
    <3> QED BY <2>4, <3>2, EndsOf
  <2>6. c \in S
    BY <2>3, <2>5
  <2>7. c \in Int /\ (entry - c) * way > 0
    BY <2>2, <2>4, <2>6
  <2>8. (entry - c) * way = entry - c \/ (entry - c) * way = c - entry
    BY <2>7
  <2> QED BY <2>7, <2>8 DEF c
<1> HIDE DEF L, located, choice
<1> QED BY <1>1, <1>2, <1>3, <1>4

\* What a setup is.
SetupWhole(s) ==
  /\ s.way \in {1, -1} /\ s.entry \in Int /\ s.rewards \subseteq Nat \ {0}
  /\ DOMAIN s.ladder \subseteq 1..5
  /\ \A k \in DOMAIN s.ladder : s.ladder[k] \in Int /\ Cushion(s, k) \in Nat \ {0}

SetupFrom(s, way, poi, anchors, objectives) ==
  \E placement \in Placements, absent \in {{}, {4}} :
    /\ s.way = way /\ s.entry = EntryPrice(poi, way, placement)
    /\ s.ladder = Ladder(way, s.entry, anchors, DOMAIN Rungs \ absent)
    /\ s.rewards = TargetDistances(way, s.entry, objectives)

LEMMA InFacts ==
  ASSUME NEW way, NEW poi, NEW anchors, NEW objectives, NEW s \in SetupsIn(way, poi, anchors, objectives)
  PROVE  SetupFrom(s, way, poi, anchors, objectives)
BY DEF SetupsIn, SetupFrom

LEMMA SetupFacts ==
  ASSUME NEW bs \in Seq(ClosedBars), NEW s \in Setups(bs)
  PROVE  SetupWhole(s)
<1>1. PICK top \in Nat : Capped(bs, top)
  BY SomeCap
<1> DEFINE way == IF Last(Breaks(bs)).way = "UP" THEN 1 ELSE -1
           zones == AtClose(bs)
           poi == Poi(zones)
           anchors == [k \in DOMAIN Rungs |-> Anchors(bs, way, Rungs[k])]
           objectives == Objectives(bs, way)
<1>2. zones # {} /\ s \in SetupsIn(way, poi, anchors, objectives)
  BY Zenon DEF Setups
<1>3. way \in {1, -1}
  OBVIOUS
<1>4. poi \in zones /\ zones \subseteq Imbalances(bs)
  <2>1. zones \subseteq Imbalances(bs)
    BY DEF AtClose
  <2> HIDE DEF zones
  <2> QED BY <1>2, <2>1, PoiIsOne
<1>5. \A z \in Imbalances(bs) : z.low \in 0..top /\ z.high \in 0..top
  <2> TAKE z \in Imbalances(bs)
  <2>1. Placed(z, bs)
    BY ImbalancePlaced
  <2> QED BY <1>1, <2>1, BarFacts DEF Placed, Capped
<1>6. \A k \in 1..5 : Anchors(bs, way, Rungs[k]) \subseteq (-top)..(2 * top)
  <2> TAKE k \in 1..5
  <2>1. Rungs[k] \in {"DEEPEST_SWING", "MOMENTUM_IMBALANCE", "LIQUIDITY_SWEEP_QML", "ORDER_BLOCK", "INNER_MSB"}
    BY DEF Rungs
  <2> HIDE DEF way
  <2> QED BY <1>1, <1>3, <2>1, AnchorsBounded
<1>7. objectives \subseteq 0..top
  <2> HIDE DEF way
  <2>1. \A p \in Pools(bs) : p.price \in 0..top
    BY <1>1, PoolFacts DEF PoolPlaced
  <2>2. \A z \in Imbalances(bs) : FarEdge(z, -way) \in 0..top
    BY <1>5 DEF FarEdge
  <2> QED BY <2>1, <2>2 DEF Objectives
<1>8. PICK placement \in Placements, absent \in {{}, {4}} :
           /\ s.way = way /\ s.entry = EntryPrice(poi, way, placement)
           /\ s.ladder = Ladder(way, s.entry, anchors, DOMAIN Rungs \ absent)
           /\ s.rewards = TargetDistances(way, s.entry, objectives)
  <2> HIDE DEF way, poi, anchors, objectives
  <2>1. SetupFrom(s, way, poi, anchors, objectives)
    BY <1>2, InFacts
  <2> QED BY <2>1 DEF SetupFrom
<1> DEFINE e == s.entry
           K == DOMAIN Rungs \ absent
           L == Ladder(way, e, anchors, K)
<1>9. e \in Int
  <2>1. poi.low \in Int /\ poi.high \in Int
    BY <1>4, <1>5
  <2> HIDE DEF poi, way
  <2> QED BY <1>8, <2>1, PlacementAssumption DEF EntryPrice
<1>10. K \subseteq 1..5
  BY DEF Rungs
<1>11. \A k \in K : anchors[k] \subseteq (-top)..(2 * top)
  <2>1. \A k \in K : anchors[k] = Anchors(bs, way, Rungs[k]) /\ k \in 1..5
    BY <1>10
  <2> QED BY <1>6, <2>1
<1>12. s.way = way /\ s.entry = e /\ s.ladder = L /\ s.rewards = TargetDistances(way, e, objectives)
  BY <1>8
<1> HIDE DEF way, e, K, anchors, objectives
<1>13. /\ DOMAIN L \subseteq 1..5
       /\ \A k \in DOMAIN L : L[k] \in Int /\ (e - L[k]) * way \in Nat \ {0}
  <2>1. -top \in Int /\ 2 * top \in Int /\ e \in Int
    BY <1>9 DEF e
  <2>2. /\ DOMAIN L \subseteq K
        /\ \A k \in DOMAIN L : L[k] \in Int /\ (e - L[k]) * way \in Nat \ {0}
    <3>1. PICK lo \in Int, hi \in Int : lo = -top /\ hi = 2 * top
      BY <2>1
    <3>2. \A k \in K : anchors[k] \subseteq lo..hi
      BY <1>11, <3>1
    <3>3. e \in Int
      BY <2>1
    <3> QED BY <1>3, <1>10, <3>2, <3>3, LadderFacts
  <2> QED BY <1>10, <2>2
<1>14. s.rewards \subseteq Nat \ {0}
  <2>1. ASSUME NEW d \in s.rewards PROVE d \in Nat \ {0}
    <3>1. PICK p \in objectives : d = way * (2 * p - e) /\ d > 0
      BY <1>12, <2>1 DEF TargetDistances
    <3>2. p \in Int /\ e \in Int
      BY <1>7, <1>9 DEF e
    <3>3. way * (2 * p - e) = 2 * p - e \/ way * (2 * p - e) = e - 2 * p
      BY <1>3, <3>2
    <3> QED BY <3>1, <3>2, <3>3
  <2> QED BY <2>1
<1>15. \A k \in DOMAIN s.ladder : s.ladder[k] \in Int /\ Cushion(s, k) \in Nat \ {0}
  BY <1>12, <1>13 DEF Cushion
<1> QED BY <1>3, <1>9, <1>12, <1>13, <1>14, <1>15 DEF SetupWhole, e

-----------------------------------------------------------------------------
(* The choice. *)

\* Numbered things that are compared two by two, and consistently, have a best one.
LEMMA BestOf ==
  ASSUME NEW n \in Nat, NEW S, S \subseteq 1..n, S # {}, NEW Q,
         \A k, j \in S : <<k, j>> \in Q \/ <<j, k>> \in Q,
         \A k, j, i \in S : <<k, j>> \in Q /\ <<j, i>> \in Q => <<k, i>> \in Q
  PROVE  \E k \in S : \A j \in S : <<k, j>> \in Q
<1> DEFINE Has(T) == \E k \in T : \A j \in T : <<k, j>> \in Q
           P == {m \in Nat : \A T \in SUBSET S : T # {} /\ T \subseteq 1..m => Has(T)}
<1>1. 0 \in P
  <2>1. \A T : T # {} => ~(T \subseteq 1..0)
    OBVIOUS
  <2> QED BY <2>1
<1>2. ASSUME NEW m \in P PROVE m + 1 \in P
  <2>0. m \in Nat /\ \A T \in SUBSET S : T # {} /\ T \subseteq 1..m => Has(T)
    OBVIOUS
  <2>a. m + 1 \in Nat
    BY <2>0
  <2> SUFFICES ASSUME NEW T \in SUBSET S, T # {}, T \subseteq 1..(m + 1) PROVE Has(T)
    <3> HIDE DEF Has
    <3> QED BY <2>a, Zenon
  <2> DEFINE R == T \ {m + 1}
  <2>1. R \in SUBSET S /\ R \subseteq 1..m
    BY <2>0
  <2>2. CASE R = {}
    <3>1. T = {m + 1} /\ m + 1 \in S
      BY <2>2
    <3> QED BY <3>1
  <2>3. CASE m + 1 \notin T
    <3>1. R = T
      BY <2>3
    <3> QED BY <2>0, <2>1, <3>1
  <2>4. CASE R # {} /\ m + 1 \in T
    <3>1. PICK b \in R : \A j \in R : <<b, j>> \in Q
      BY <2>0, <2>1, <2>4
    <3>2. b \in S /\ m + 1 \in S /\ R \subseteq S /\ T = R \cup {m + 1}
      BY <2>1, <2>4
    <3> HIDE DEF R
    <3>3. CASE <<b, m + 1>> \in Q
      <4>1. b \in T /\ \A j \in T : <<b, j>> \in Q
        BY <3>1, <3>2, <3>3
      <4> QED BY <4>1
    <3>4. CASE <<m + 1, b>> \in Q
      <4>1. <<m + 1, m + 1>> \in Q
        BY <3>2
      <4>2. ASSUME NEW j \in R PROVE <<m + 1, j>> \in Q
        <5>1. <<b, j>> \in Q /\ j \in S
          BY <3>1, <3>2
        <5> QED BY <3>2, <3>4, <5>1, Zenon
      <4>3. m + 1 \in T /\ \A j \in T : <<m + 1, j>> \in Q
        BY <2>4, <3>2, <4>1, <4>2
      <4> QED BY <4>3
    <3> QED BY <3>2, <3>3, <3>4
  <2> QED BY <2>2, <2>3, <2>4
<1>3. P = Nat
  <2> HIDE DEF P
  <2>1. P \subseteq Nat
    BY DEF P
  <2> QED BY <1>1, <1>2, <2>1, Naturals
<1> HIDE DEF P, Has
<1>4. n \in P /\ S \in SUBSET S
  BY <1>3
<1>5. Has(S)
  BY <1>4 DEF P
<1> QED BY <1>5 DEF Has

\* Fractions, compared by multiplying across.
LEMMA Fractions ==
  ASSUME NEW a \in Nat, NEW b \in Nat, NEW g \in Nat,
         NEW c \in Nat \ {0}, NEW d \in Nat \ {0}, NEW e \in Nat \ {0},
         a * d <= b * c, b * e <= g * d
  PROVE  /\ a * e <= g * c
         /\ (a * d < b * c \/ b * e < g * d) => a * e < g * c
<1> DEFINE x == a * d
           y == b * c
           u == b * e
           v == g * d
           l == a * e
           r == g * c
<1>1. /\ x \in Nat /\ y \in Nat /\ u \in Nat /\ v \in Nat /\ l \in Nat /\ r \in Nat
      /\ d * l = x * e /\ y * e = u * c /\ v * c = d * r
  BY Z3
<1>2. x <= y /\ u <= v
  OBVIOUS
<1>3. ASSUME NEW p \in Nat, NEW q \in Nat, NEW w \in Nat \ {0}
      PROVE  (p <= q => p * w <= q * w) /\ (p < q => p * w < q * w)
  <2>1. p <= q => (q - p) * w >= 0
    BY Z3
  <2>2. p < q => (q - p) * w >= w
    <3>1. p < q => (q - p - 1) * w >= 0
      BY Z3
    <3>2. (q - p) * w = (q - p - 1) * w + w
      BY Z3
    <3> QED BY <3>1, <3>2, Z3
  <2>3. (q - p) * w = q * w - p * w
    BY Z3
  <2>4. p * w \in Int /\ q * w \in Int
    BY Z3
  <2> QED BY <2>1, <2>2, <2>3, <2>4, Z3
<1> HIDE DEF x, y, u, v, l, r
<1>4. x * e <= y * e /\ u * c <= v * c /\ (x < y => x * e < y * e) /\ (u < v => u * c < v * c)
  BY <1>1, <1>2, <1>3
<1>5. x * e \in Int /\ y * e \in Int /\ u * c \in Int /\ v * c \in Int
  BY <1>1, Z3
<1>6. d * l <= d * r /\ (x < y \/ u < v => d * l < d * r)
  BY <1>1, <1>4, <1>5
<1>7. ~(l <= r) => r * d < l * d
  BY <1>1, <1>3
<1>8. ~(l < r) => r * d <= l * d
  BY <1>1, <1>3
<1>9. r * d = d * r /\ l * d = d * l /\ d * l \in Int /\ d * r \in Int
  BY <1>1, Z3
<1>10. l <= r /\ (x < y \/ u < v => l < r)
  BY <1>1, <1>6, <1>7, <1>8, <1>9
<1> QED BY <1>10 DEF x, y, u, v, l, r

\* The preference among the survivors, as a relation.
Preferred(s, reward, k, j) ==
  LET c == Cushion(s, k)  d == Cushion(s, j)
  IN  \/ Closer(reward, c, d)
      \/ ~Closer(reward, d, c) /\ (c > d \/ (c = d /\ k <= j))

LEMMA Choice ==
  ASSUME NEW s, SetupWhole(s), NEW reward \in Nat, Accepted(s, reward) # {}
  PROVE  /\ Selected(s, reward) \in Accepted(s, reward)
         /\ \A j \in Accepted(s, reward) : Preferred(s, reward, Selected(s, reward), j)
<1> DEFINE S == Accepted(s, reward)
           Q == {p \in S \X S : Preferred(s, reward, p[1], p[2])}
           f(k) == FromThree(reward, Cushion(s, k))
           c(k) == Cushion(s, k)
<1>1. S \subseteq 1..5 /\ \A k \in S : c(k) \in Nat \ {0} /\ f(k) \in Nat /\ k \in Nat
  <2>1. S \subseteq 1..5 /\ \A k \in S : c(k) \in Nat \ {0} /\ k \in DOMAIN s.ladder
    BY DEF SetupWhole, Accepted
  <2> HIDE DEF S, c
  <2>2. ASSUME NEW x \in Nat \ {0} PROVE FromThree(reward, x) \in Nat
    BY DEF FromThree
  <2>3. \A k \in S : f(k) = FromThree(reward, c(k))
    BY DEF c
  <2> QED BY <2>1, <2>2, <2>3
<1>2. \A k, j \in S : /\ <<k, j>> \in Q <=> Preferred(s, reward, k, j)
  OBVIOUS
<1>3. \A k, j \in S : Preferred(s, reward, k, j) <=>
        \/ f(k) * c(j) < f(j) * c(k)
        \/ ~(f(j) * c(k) < f(k) * c(j)) /\ (c(k) > c(j) \/ (c(k) = c(j) /\ k <= j))
  BY Zenon DEF Preferred, Closer
<1> HIDE DEF S, Q, f, c
<1>4. \A k, j \in S : f(k) * c(j) \in Int
  BY <1>1, Z3
<1>5. \A k, j \in S : <<k, j>> \in Q \/ <<j, k>> \in Q
  <2> SUFFICES ASSUME NEW k \in S, NEW j \in S PROVE <<k, j>> \in Q \/ <<j, k>> \in Q
    OBVIOUS
  <2> DEFINE x == f(k) * c(j)
             y == f(j) * c(k)
  <2>1. x \in Int /\ y \in Int
    BY <1>4
  <2>2. /\ <<k, j>> \in Q <=> (x < y \/ (~(y < x) /\ (c(k) > c(j) \/ (c(k) = c(j) /\ k <= j))))
        /\ <<j, k>> \in Q <=> (y < x \/ (~(x < y) /\ (c(j) > c(k) \/ (c(j) = c(k) /\ j <= k))))
    BY <1>2, <1>3, Zenon
  <2> HIDE DEF x, y
  <2>3. c(k) \in Nat /\ c(j) \in Nat /\ k \in Nat /\ j \in Nat
    BY <1>1
  <2> QED BY <2>1, <2>2, <2>3
<1>6. \A k, j, i \in S : <<k, j>> \in Q /\ <<j, i>> \in Q => <<k, i>> \in Q
  <2> SUFFICES ASSUME NEW k \in S, NEW j \in S, NEW i \in S, <<k, j>> \in Q, <<j, i>> \in Q PROVE <<k, i>> \in Q
    OBVIOUS
  <2> DEFINE kj == f(k) * c(j)
             jk == f(j) * c(k)
             ji == f(j) * c(i)
             ij == f(i) * c(j)
             ki == f(k) * c(i)
             ik == f(i) * c(k)
  <2>1. kj \in Int /\ jk \in Int /\ ji \in Int /\ ij \in Int /\ ki \in Int /\ ik \in Int
    BY <1>4
  <2>2. /\ kj < jk \/ (~(jk < kj) /\ (c(k) > c(j) \/ (c(k) = c(j) /\ k <= j)))
        /\ ji < ij \/ (~(ij < ji) /\ (c(j) > c(i) \/ (c(j) = c(i) /\ j <= i)))
        /\ <<k, i>> \in Q <=> (ki < ik \/ (~(ik < ki) /\ (c(k) > c(i) \/ (c(k) = c(i) /\ k <= i))))
    BY <1>2, <1>3, Zenon
  <2>3. kj <= jk /\ ji <= ij => ki <= ik /\ (kj < jk \/ ji < ij => ki < ik)
    <3>1. /\ f(k) \in Nat /\ f(j) \in Nat /\ f(i) \in Nat
          /\ c(k) \in Nat \ {0} /\ c(j) \in Nat \ {0} /\ c(i) \in Nat \ {0}
      BY <1>1
    <3> QED BY <3>1, Fractions, Zenon
  <2> HIDE DEF kj, jk, ji, ij, ki, ik
  <2>4. c(k) \in Nat /\ c(j) \in Nat /\ c(i) \in Nat /\ k \in Nat /\ j \in Nat /\ i \in Nat
    BY <1>1
  <2> QED BY <2>1, <2>2, <2>3, <2>4
<1>7. PICK k \in S : \A j \in S : <<k, j>> \in Q
  <2>1. 5 \in Nat /\ S # {}
    BY DEF S
  <2> QED BY <1>1, <1>5, <1>6, <2>1, BestOf
<1>8. \A j \in S : Preferred(s, reward, k, j)
  BY <1>2, <1>7
<1>9. Selected(s, reward) = CHOOSE m \in S : \A j \in S : Preferred(s, reward, m, j)
  BY Zenon DEF Selected, Preferred, S
<1>10. Selected(s, reward) \in S /\ \A j \in S : Preferred(s, reward, Selected(s, reward), j)
  BY <1>8, <1>9, Zenon
<1> QED BY <1>10 DEF S

\* A product keeps the order.
LEMMA Products ==
  ASSUME NEW a \in Int, NEW b \in Int, NEW w \in Nat \ {0}
  PROVE  /\ a * w \in Int /\ b * w \in Int /\ w * a = a * w
         /\ a <= b => a * w <= b * w
         /\ a < b => a * w < b * w
<1>1. a * w \in Int /\ b * w \in Int /\ w * a = a * w /\ (b - a) * w = b * w - a * w
  BY Z3
<1>2. a <= b => (b - a) * w >= 0
  BY Z3
<1>3. a < b => (b - a - 1) * w >= 0 /\ (b - a) * w = (b - a - 1) * w + w /\ (b - a - 1) * w \in Int
  BY Z3
<1> QED BY <1>1, <1>2, <1>3

\* Of two cushions the larger is closer to three to one exactly when the reward is far
\* enough, and above four to one it is closer whenever it is accepted.
LEMMA TurningPoint ==
  ASSUME NEW c \in Nat \ {0}, NEW d \in Nat \ {0}, d < c, NEW r \in Nat \ {0}
  PROVE  /\ ~Closer(r, d, c) => r * (c + d) >= 6 * (c * d)
         /\ Closer(r, d, c) => r * (c + d) < 6 * (c * d)
<1> DEFINE p == c * d
           rc == r * c
           rd == r * d
<1>1. /\ p \in Int /\ rc \in Int /\ rd \in Int /\ r * (c + d) = rc + rd /\ d * c = p
      /\ (3 * c) * d = 3 * p /\ (3 * d) * c = 3 * p
      /\ (r - 3 * c) * d = rd - 3 * p /\ (3 * c - r) * d = 3 * p - rd
      /\ (r - 3 * d) * c = rc - 3 * p /\ (3 * d - r) * c = 3 * p - rc
  BY Z3
<1>2. /\ r >= 3 * c => rd >= 3 * p
      /\ r < 3 * c => rd < 3 * p
  BY <1>1, Products
<1>3. /\ r >= 3 * d => rc >= 3 * p
      /\ r < 3 * d => rc < 3 * p
  BY <1>1, Products
<1>4. rd < rc
  <2>1. d * r < c * r
    BY Products
  <2>2. d * r = rd /\ c * r = rc
    BY Z3
  <2> QED BY <2>1, <2>2
<1>5. Closer(r, d, c) <=> (IF r >= 3 * d THEN rc - 3 * p ELSE 3 * p - rc) < (IF r >= 3 * c THEN rd - 3 * p ELSE 3 * p - rd)
  <2>1. FromThree(r, d) * c = IF r >= 3 * d THEN rc - 3 * p ELSE 3 * p - rc
    BY <1>1 DEF FromThree
  <2>2. FromThree(r, c) * d = IF r >= 3 * c THEN rd - 3 * p ELSE 3 * p - rd
    BY <1>1 DEF FromThree
  <2> QED BY <2>1, <2>2, Zenon DEF Closer
<1> HIDE DEF p, rc, rd
<1>6. ~Closer(r, d, c) => rc + rd >= 6 * p
  BY <1>1, <1>2, <1>3, <1>4, <1>5
<1>7. Closer(r, d, c) => rc + rd < 6 * p
  BY <1>1, <1>2, <1>3, <1>4, <1>5
<1> QED BY <1>1, <1>6, <1>7

\* A stop accepted for one reward is accepted for a greater one; the stop chosen moves
\* outwards only, and is above the band only when none with a larger cushion was accepted.
LEMMA FollowsTarget == ASSUME NEW s, SetupWhole(s), NEW near \in Nat \ {0}, Accepted(s, near) # {}
  PROVE  /\ \A far \in Nat \ {0} : near < far =>
              /\ Accepted(s, near) \subseteq Accepted(s, far)
              /\ Cushion(s, Selected(s, near)) <= Cushion(s, Selected(s, far))
         /\ ~(AboveBand(s, near, s.ladder[Selected(s, near)]) /\ TighterThanNecessary(s, near, Selected(s, near)))
<1>1. \A r \in Nat \ {0} : \A k : k \in Accepted(s, r) <=> k \in DOMAIN s.ladder /\ r >= 2 * Cushion(s, k)
  BY DEF Accepted
<1>2. \A k \in DOMAIN s.ladder : Cushion(s, k) \in Nat \ {0}
  BY DEF SetupWhole
<1> DEFINE k == Selected(s, near)
           c == Cushion(s, k)
<1>3. k \in Accepted(s, near) /\ \A i \in Accepted(s, near) : Preferred(s, near, k, i)
  BY Choice
<1>4. k \in DOMAIN s.ladder /\ c \in Nat \ {0} /\ near >= 2 * c
  BY <1>1, <1>2, <1>3
<1> HIDE DEF k
<1>5. ASSUME NEW far \in Nat \ {0}, near < far
      PROVE  /\ Accepted(s, near) \subseteq Accepted(s, far)
             /\ c <= Cushion(s, Selected(s, far))
  <2>1. Accepted(s, near) \subseteq Accepted(s, far)
    BY <1>1, <1>2, <1>5
  <2> DEFINE j == Selected(s, far)
             d == Cushion(s, j)
  <2>2. j \in Accepted(s, far) /\ \A i \in Accepted(s, far) : Preferred(s, far, j, i)
    <3>1. Accepted(s, far) # {}
      BY <2>1
    <3> QED BY <3>1, Choice
  <2> HIDE DEF j
  <2>3. j \in DOMAIN s.ladder /\ d \in Nat \ {0}
    BY <1>1, <1>2, <2>2
  <2> SUFFICES ASSUME d < c PROVE FALSE
    BY <1>4, <2>1, <2>3 DEF j
  <2>4. j \in Accepted(s, near)
    BY <1>1, <1>4, <2>3
  <2>5. Preferred(s, near, k, j) /\ Preferred(s, far, j, k)
    BY <1>3, <2>1, <2>2, <2>4
  <2>6. Closer(near, c, d) \/ ~Closer(near, d, c)
    BY <2>5, Zenon DEF Preferred
  <2>7. Closer(far, d, c)
    <3>1. Closer(far, d, c) \/ d > c \/ d = c
      BY <2>5, Zenon DEF Preferred
    <3> QED BY <1>4, <2>3, <3>1
  <2> HIDE DEF c, d
  <2>8. ~Closer(near, d, c)
    <3>1. Closer(near, c, d) => ~Closer(near, d, c)
      <4>1. FromThree(near, c) \in Nat /\ FromThree(near, d) \in Nat
        BY <1>4, <2>3 DEF FromThree
      <4> DEFINE x == FromThree(near, c) * d
                 y == FromThree(near, d) * c
      <4>2. x \in Int /\ y \in Int
        BY <1>4, <2>3, <4>1, Z3
      <4>3. (Closer(near, c, d) <=> x < y) /\ (Closer(near, d, c) <=> y < x)
        BY Zenon DEF Closer
      <4> HIDE DEF x, y
      <4>4. x < y => ~(y < x)
        BY <4>2
      <4> QED BY <4>3, <4>4, Zenon
    <3> QED BY <2>6, <3>1, Zenon
  <2>9. near * (c + d) >= 6 * (c * d)
    BY <1>4, <2>3, <2>8, TurningPoint
  <2>10. far * (c + d) < 6 * (c * d)
    BY <1>4, <2>3, <2>7, TurningPoint
  <2>11. c + d \in Nat \ {0} /\ near \in Int /\ far \in Int
    BY <1>4, <2>3
  <2>12. near * (c + d) < far * (c + d) /\ near * (c + d) \in Int /\ far * (c + d) \in Int
    BY <1>5, <2>11, Products
  <2>13. 6 * (c * d) \in Int
    BY <1>4, <2>3, Z3
  <2> QED BY <2>9, <2>10, <2>12, <2>13
<1>6. ASSUME AboveBand(s, near, s.ladder[k]), TighterThanNecessary(s, near, k) PROVE FALSE
  <2>1. near > 4 * c
    BY <1>6 DEF AboveBand, RiskTo, Cushion
  <2>2. PICK j \in Accepted(s, near) : Cushion(s, j) > c
    BY <1>6 DEF TighterThanNecessary
  <2> DEFINE d == Cushion(s, j)
  <2>3. d \in Nat \ {0} /\ near >= 2 * d /\ c < d
    BY <1>1, <1>2, <2>2
  <2>4. Closer(near, c, d) \/ c > d \/ c = d
    BY <1>3, Zenon DEF Preferred
  <2> HIDE DEF c, d
  <2>5. Closer(near, c, d)
    BY <1>4, <2>3, <2>4
  <2>6. near * (d + c) < 6 * (d * c)
    BY <1>4, <2>3, <2>5, TurningPoint
  <2> DEFINE nc == near * c
             nd == near * d
             p == d * c
  <2>7. nc \in Int /\ nd \in Int /\ p \in Int /\ near * (d + c) = nd + nc /\ (2 * d) * c = 2 * p /\ (4 * c) * d = 4 * p
    BY <1>4, <2>3, Z3
  <2>8. (4 * c) * d < nd
    BY <1>4, <2>1, <2>3, Products
  <2>9. (2 * d) * c <= nc
    BY <1>4, <2>3, Products
  <2> HIDE DEF nc, nd, p
  <2>10. nd + nc < 6 * p
    BY <2>6, <2>7 DEF p
  <2> QED BY <2>7, <2>8, <2>9, <2>10
<1> QED BY <1>5, <1>6 DEF k, c

\* Covering the zones around a stop moves it outwards, or leaves it.
LEMMA CoveredOutwards ==
  ASSUME NEW bs \in Seq(ClosedBars), NEW way \in {1, -1}, NEW stop \in Int
  PROVE  Covered(bs, way, stop) \in Int /\ (stop - Covered(bs, way, stop)) * way >= 0
<1> DEFINE around == {z \in Imbalances(bs) : 2 * z.low <= stop /\ stop <= 2 * z.high}
           S == {stop} \union {2 * FarEdge(z, way) : z \in around}
<1>1. PICK top \in Nat : Capped(bs, top)
  BY SomeCap
<1>2. \A z \in around : 2 * FarEdge(z, way) \in 0..(2 * top)
  <2> TAKE z \in around
  <2>1. Placed(z, bs)
    BY ImbalancePlaced
  <2>2. z.low \in 0..top /\ z.high \in 0..top
    BY <1>1, <2>1, BarFacts DEF Placed, Capped
  <2> QED BY <2>2 DEF FarEdge
<1>3. Covered(bs, way, stop) = IF way = 1 THEN Min(S) ELSE Max(S)
  BY Zenon DEF Covered, Outermost
<1>4. PICK lo \in Int, hi \in Int : S \subseteq lo..hi
  <2> DEFINE l == IF stop < 0 THEN stop ELSE 0
             h == IF stop > 2 * top THEN stop ELSE 2 * top
  <2>1. l \in Int /\ h \in Int /\ stop \in l..h /\ 0..(2 * top) \subseteq l..h
    OBVIOUS
  <2> HIDE DEF l, h, around
  <2>2. S \subseteq l..h
    BY <1>2, <2>1
  <2> QED BY <2>1, <2>2
<1>5. S # {} /\ stop \in S
  OBVIOUS
<1> HIDE DEF S
<1>6. /\ Min(S) \in S /\ Min(S) <= stop /\ Min(S) \in Int
      /\ Max(S) \in S /\ stop <= Max(S) /\ Max(S) \in Int
  <2>1. /\ Min(S) \in S /\ \A y \in S : Min(S) <= y
        /\ Max(S) \in S /\ \A y \in S : y <= Max(S)
        /\ Min(S) \in lo..hi /\ Max(S) \in lo..hi
    BY <1>4, <1>5, EndsOf, Zenon
  <2> QED BY <1>5, <2>1
<1>7. CASE way = 1
  BY <1>3, <1>6, <1>7
<1>8. CASE way = -1
  BY <1>3, <1>6, <1>8
<1> QED BY <1>7, <1>8

\* What the exit model makes of a plan, by its risk and its reward.
LEMMA Planned ==
  ASSUME NEW p, p.way \in {1, -1}, p.entry \in Int, p.stop \in Int,
         NEW reward \in Nat, p.target = p.entry + p.way * reward
  PROVE  /\ Plannable(p) <=> Risk(p) > 0 /\ reward >= 2 * Risk(p)
         /\ NothingLeftToRun(p) <=> reward <= 2 * Risk(p)
<1>1. CASE p.way = 1
  <2>1. Risk(p) = p.entry - p.stop /\ RunnerDistance(p) = reward - 2 * (p.entry - p.stop)
    BY <1>1 DEF Risk, RunnerDistance, PartialLevel
  <2> QED BY <2>1 DEF Plannable, NothingLeftToRun
<1>2. CASE p.way = -1
  <2>1. Risk(p) = p.stop - p.entry /\ RunnerDistance(p) = reward - 2 * (p.stop - p.entry)
    BY <1>2 DEF Risk, RunnerDistance, PartialLevel
  <2> QED BY <2>1 DEF Plannable, NothingLeftToRun
<1> QED BY <1>1, <1>2

LEMMA FlagsForetell ==
  ASSUME NEW s, SetupWhole(s), NEW reward \in Nat \ {0}, Accepted(s, reward) # {},
         NEW bs \in Seq(ClosedBars), NEW stop, stop = Covered(bs, s.way, s.ladder[Selected(s, reward)]),
         NEW record,
         record = TrancheRecord([way |-> s.way, entry |-> s.entry, stop |-> stop, target |-> s.entry + s.way * reward])
  PROVE  /\ record.planned <=> ~WidenedBelowFloor(s, reward, stop)
         /\ DegenerateRunner(s, reward, stop) <=> (~record.planned \/ record.degenerate)
<1> DEFINE k == Selected(s, reward)
           p == [way |-> s.way, entry |-> s.entry, stop |-> stop, target |-> s.entry + s.way * reward]
           risk == RiskTo(s, stop)
<1>1. s.way \in {1, -1} /\ s.entry \in Int /\ k \in DOMAIN s.ladder /\ s.ladder[k] \in Int /\ Cushion(s, k) > 0
  <2>1. k \in Accepted(s, reward)
    BY Choice
  <2>2. k \in DOMAIN s.ladder
    BY <2>1 DEF Accepted
  <2> QED BY <2>2 DEF SetupWhole
<1>2. stop \in Int /\ (s.ladder[k] - stop) * s.way >= 0
  BY <1>1, CoveredOutwards
<1>3. risk = (s.entry - stop) * s.way /\ risk > 0 /\ risk \in Int
  <2>1. (s.entry - s.ladder[k]) * s.way > 0
    BY <1>1 DEF Cushion
  <2> HIDE DEF k
  <2>2. CASE s.way = 1
    BY <1>1, <1>2, <2>1, <2>2 DEF RiskTo
  <2>3. CASE s.way = -1
    BY <1>1, <1>2, <2>1, <2>3 DEF RiskTo
  <2> QED BY <1>1, <2>2, <2>3
<1>4. (Plannable(p) <=> reward >= 2 * risk) /\ (NothingLeftToRun(p) <=> reward <= 2 * risk)
  <2>1. /\ p.way = s.way /\ p.entry = s.entry /\ p.stop = stop
        /\ p.target = p.entry + p.way * reward /\ Risk(p) = (s.entry - stop) * s.way
    BY DEF Risk
  <2> HIDE DEF p, risk
  <2>2. /\ Plannable(p) <=> Risk(p) > 0 /\ reward >= 2 * Risk(p)
        /\ NothingLeftToRun(p) <=> reward <= 2 * Risk(p)
    <3>1. p.way \in {1, -1} /\ p.entry \in Int /\ p.stop \in Int /\ reward \in Nat
      BY <1>1, <1>2, <2>1
    <3> QED BY <2>1, <3>1, Planned
  <2> QED BY <1>3, <2>1, <2>2
<1>5. (record.planned <=> Plannable(p)) /\ (record.degenerate <=> Plannable(p) /\ NothingLeftToRun(p))
  BY Zenon DEF TrancheRecord
<1>6. (WidenedBelowFloor(s, reward, stop) <=> reward < 2 * risk) /\ (DegenerateRunner(s, reward, stop) <=> reward <= 2 * risk)
  BY Zenon DEF WidenedBelowFloor, DegenerateRunner
<1> HIDE DEF p, risk
<1>7. (reward >= 2 * risk <=> ~(reward < 2 * risk)) /\ (reward <= 2 * risk <=> (~(reward >= 2 * risk) \/ (reward >= 2 * risk /\ reward <= 2 * risk)))
  BY <1>3
<1> QED BY <1>4, <1>5, <1>6, <1>7, Zenon

LEMMA TargetAnswered == StructureTypeOK => StopAnswersTarget
<1> SUFFICES ASSUME StructureTypeOK PROVE StopAnswersTarget
  OBVIOUS
<1>1. series \in Seq(ClosedBars)
  BY DEF StructureTypeOK
<1>2. ASSUME NEW s \in Setups(series) PROVE SetupWhole(s) /\ s.rewards \subseteq Nat \ {0}
  BY <1>1, SetupFacts DEF SetupWhole
<1>3. StopFollowsTarget
  <2> SUFFICES ASSUME NEW s \in Setups(series)
               PROVE  LET traded == {r \in s.rewards : Accepted(s, r) # {}}
                          chosen == [r \in traded |-> Selected(s, r)]
                      IN  /\ \A near \in traded, far \in s.rewards : near < far =>
                               /\ Accepted(s, near) \subseteq Accepted(s, far)
                               /\ Cushion(s, chosen[near]) <= Cushion(s, chosen[far])
                          /\ \A r \in traded : ~(AboveBand(s, r, s.ladder[chosen[r]]) /\ TighterThanNecessary(s, r, chosen[r]))
    BY Zenon DEF StopFollowsTarget
  <2> DEFINE traded == {r \in s.rewards : Accepted(s, r) # {}}
             chosen == [r \in traded |-> Selected(s, r)]
  <2>1. \A r \in traded : chosen[r] = Selected(s, r) /\ Accepted(s, r) # {} /\ r \in Nat \ {0}
    BY <1>2
  <2>2. \A r \in s.rewards : Accepted(s, r) # {} => r \in traded
    OBVIOUS
  <2>3. ASSUME NEW near \in traded, NEW far \in s.rewards, near < far
        PROVE  /\ Accepted(s, near) \subseteq Accepted(s, far)
               /\ Cushion(s, chosen[near]) <= Cushion(s, chosen[far])
    <3>1. near \in Nat \ {0} /\ far \in Nat \ {0} /\ Accepted(s, near) # {} /\ SetupWhole(s)
      BY <1>2, <2>1
    <3>2. /\ Accepted(s, near) \subseteq Accepted(s, far)
          /\ Cushion(s, Selected(s, near)) <= Cushion(s, Selected(s, far))
      BY <2>3, <3>1, FollowsTarget
    <3>3. far \in traded
      BY <2>2, <3>1, <3>2
    <3> QED BY <2>1, <3>2, <3>3
  <2>4. ASSUME NEW r \in traded
        PROVE  ~(AboveBand(s, r, s.ladder[chosen[r]]) /\ TighterThanNecessary(s, r, chosen[r]))
    <3>1. r \in Nat \ {0} /\ Accepted(s, r) # {} /\ SetupWhole(s) /\ chosen[r] = Selected(s, r)
      BY <1>2, <2>1
    <3> HIDE DEF chosen
    <3>2. ~(AboveBand(s, r, s.ladder[Selected(s, r)]) /\ TighterThanNecessary(s, r, Selected(s, r)))
      BY <3>1, FollowsTarget
    <3> QED BY <3>1, <3>2, Zenon
  <2> HIDE DEF chosen, traded
  <2>5. /\ \A near \in traded, far \in s.rewards : near < far =>
               /\ Accepted(s, near) \subseteq Accepted(s, far)
               /\ Cushion(s, chosen[near]) <= Cushion(s, chosen[far])
        /\ \A r \in traded : ~(AboveBand(s, r, s.ladder[chosen[r]]) /\ TighterThanNecessary(s, r, chosen[r]))
    BY <2>3, <2>4
  <2> QED BY <2>5, Zenon DEF chosen, traded
<1>4. RunnersAgree
  <2> SUFFICES ASSUME NEW s \in Setups(series), NEW reward \in s.rewards, Accepted(s, reward) # {}
               PROVE  LET stop   == Covered(series, s.way, s.ladder[Selected(s, reward)])
                          record == TrancheRecord([way |-> s.way, entry |-> s.entry, stop |-> stop,
                                                   target |-> s.entry + s.way * reward])
                      IN  /\ record.planned <=> ~WidenedBelowFloor(s, reward, stop)
                          /\ DegenerateRunner(s, reward, stop) <=> (~record.planned \/ record.degenerate)
    BY Zenon DEF RunnersAgree
  <2>1. SetupWhole(s) /\ reward \in Nat \ {0}
    BY <1>2
  <2> QED BY <1>1, <2>1, FlagsForetell
<1> QED BY <1>3, <1>4 DEF StopAnswersTarget

LEMMA StructureTyped == StructureSpec => []StructureTypeOK
<1>1. StructureInit => StructureTypeOK
  BY StructureAssumption DEF StructureInit, StructureTypeOK
<1>2. StructureTypeOK /\ [BarCloses]_structureVars => StructureTypeOK'
  <2> SUFFICES ASSUME StructureTypeOK, [BarCloses]_structureVars PROVE StructureTypeOK'
    OBVIOUS
  <2>1. CASE BarCloses
    <3>1. PICK bar \in Shapes : series' = Append(series, bar)
      BY <2>1 DEF BarCloses
    <3>2. bar \in ClosedBars /\ series \in Seq(ClosedBars) /\ coming \in Nat
      BY StructureAssumption DEF StructureTypeOK
    <3>3. coming' \in Nat
      BY <2>1, <3>2 DEF BarCloses
    <3>4. series' \in Seq(ClosedBars)
      <4> HIDE DEF ClosedBars
      <4> QED BY <3>1, <3>2
    <3> QED BY <3>3, <3>4 DEF StructureTypeOK
  <2>2. CASE UNCHANGED structureVars
    BY <2>2 DEF structureVars, StructureTypeOK
  <2> QED BY <2>1, <2>2
<1> QED BY <1>1, <1>2, PTL DEF StructureSpec

\* In every setup of every series the stop moves outwards only with the target, a stop above
\* the band has no accepted one outside it, and the flags of a widened stop foretell what
\* EXIT-001 makes of its plan.
THEOREM StopsAnswerTargets == StructureSpec => []StopAnswersTarget
<1>1. StructureSpec => []StructureTypeOK
  BY StructureTyped
<1>2. StructureTypeOK => StopAnswersTarget
  BY TargetAnswered
<1> QED BY <1>1, <1>2, PTL

-----------------------------------------------------------------------------
(* One more bar: what was read before is read again. *)

OneMore(bs, cs) ==
  /\ bs \in Seq(ClosedBars) /\ cs \in Seq(ClosedBars) /\ Len(cs) = Len(bs) + 1
  /\ \A i \in 1..Len(bs) : cs[i] = bs[i]

LEMMA Prolonged ==
  ASSUME NEW bs \in Seq(ClosedBars), NEW bar \in ClosedBars
  PROVE  OneMore(bs, Append(bs, bar))
<1> HIDE DEF ClosedBars
<1> QED BY DEF OneMore

LEMMA SwingsStay ==
  ASSUME NEW bs, NEW cs, OneMore(bs, cs)
  PROVE  /\ Swings(bs) \subseteq Swings(cs)
         /\ \A s \in Swings(cs) \ Swings(bs) : s.at = Len(cs) - Wing
<1>0. /\ bs \in Seq(ClosedBars) /\ cs \in Seq(ClosedBars) /\ Len(bs) \in Nat /\ Len(cs) = Len(bs) + 1
      /\ DOMAIN bs = 1..Len(bs) /\ DOMAIN cs = 1..Len(cs)
      /\ \A i \in 1..Len(bs) : cs[i] = bs[i]
  BY DEF OneMore
<1>1. Wing \in Nat \ {0}
  BY StructureAssumption
<1>2. ASSUME NEW i \in WingsClosed(bs) PROVE i \in 1..Len(bs) /\ Beside(cs, i) = Beside(bs, i) /\ Beside(bs, i) \subseteq 1..Len(bs)
  BY <1>0, <1>1 DEF WingsClosed, Beside
<1>3. WingsClosed(bs) \subseteq WingsClosed(cs) /\ \A i \in WingsClosed(cs) \ WingsClosed(bs) : i = Len(cs) - Wing
  BY <1>0, <1>1 DEF WingsClosed
<1>4. ASSUME NEW i \in WingsClosed(bs)
      PROVE  /\ cs[i] = bs[i]
             /\ (\A k \in Beside(cs, i) : cs[k].high < cs[i].high) <=> (\A k \in Beside(bs, i) : bs[k].high < bs[i].high)
             /\ (\A k \in Beside(cs, i) : cs[k].low > cs[i].low) <=> (\A k \in Beside(bs, i) : bs[k].low > bs[i].low)
  BY <1>0, <1>2
<1> DEFINE highs(b) == {j \in WingsClosed(b) : \A k \in Beside(b, j) : b[k].high < b[j].high}
           lows(b) == {j \in WingsClosed(b) : \A k \in Beside(b, j) : b[k].low > b[j].low}
<1>5. \A b : Swings(b) = {[at |-> i, kind |-> "HIGH", price |-> b[i].high] : i \in highs(b)} \union
                         {[at |-> i, kind |-> "LOW", price |-> b[i].low] : i \in lows(b)}
  BY Zenon DEF Swings
<1>6. /\ \A i \in WingsClosed(bs) : (i \in highs(cs) <=> i \in highs(bs)) /\ (i \in lows(cs) <=> i \in lows(bs))
      /\ \A b : highs(b) \subseteq WingsClosed(b) /\ lows(b) \subseteq WingsClosed(b)
  BY <1>3, <1>4
<1> HIDE DEF highs, lows
<1>7. ASSUME NEW s \in Swings(bs) PROVE s \in Swings(cs)
  <2>1. CASE \E i \in highs(bs) : s = [at |-> i, kind |-> "HIGH", price |-> bs[i].high]
    BY <1>4, <1>5, <1>6, <2>1
  <2>2. CASE \E i \in lows(bs) : s = [at |-> i, kind |-> "LOW", price |-> bs[i].low]
    BY <1>4, <1>5, <1>6, <2>2
  <2> QED BY <1>5, <2>1, <2>2
<1>8. ASSUME NEW s \in Swings(cs), s \notin Swings(bs) PROVE s.at = Len(cs) - Wing
  <2>1. CASE \E i \in highs(cs) : s = [at |-> i, kind |-> "HIGH", price |-> cs[i].high]
    <3>1. PICK i \in highs(cs) : s = [at |-> i, kind |-> "HIGH", price |-> cs[i].high]
      BY <2>1
    <3>2. i \notin WingsClosed(bs)
      BY <1>4, <1>5, <1>6, <1>8, <3>1
    <3> QED BY <1>3, <1>6, <3>1, <3>2
  <2>2. CASE \E i \in lows(cs) : s = [at |-> i, kind |-> "LOW", price |-> cs[i].low]
    <3>1. PICK i \in lows(cs) : s = [at |-> i, kind |-> "LOW", price |-> cs[i].low]
      BY <2>2
    <3>2. i \notin WingsClosed(bs)
      BY <1>4, <1>5, <1>6, <1>8, <3>1
    <3> QED BY <1>3, <1>6, <3>1, <3>2
  <2> QED BY <1>5, <1>8, <2>1, <2>2
<1> QED BY <1>7, <1>8

\* The swing that the new bar confirms is not broken yet, and a bar breaks no earlier break.
LEMMA ConsumptionsStay ==
  ASSUME NEW bs, NEW cs, OneMore(bs, cs)
  PROVE  /\ Consumptions(bs) \subseteq Consumptions(cs)
         /\ \A c \in Consumptions(cs) \ Consumptions(bs) : c.bar = Len(cs)
<1>0. /\ bs \in Seq(ClosedBars) /\ cs \in Seq(ClosedBars) /\ Len(bs) \in Nat /\ Len(cs) = Len(bs) + 1
      /\ \A i \in 1..Len(bs) : cs[i] = bs[i]
  BY DEF OneMore
<1>1. Wing \in Nat \ {0}
  BY StructureAssumption
<1>2. ASSUME NEW c \in Consumptions(bs) PROVE c \in Consumptions(cs)
  <2>1. /\ c = [bar |-> c.bar, swing |-> c.swing] /\ c.swing \in Swings(bs)
        /\ c.bar \in (c.swing.at + 1)..Len(bs) /\ Through(bs[c.bar], c.swing)
        /\ \A i \in (c.swing.at + 1)..Len(bs) : Through(bs[i], c.swing) => c.bar <= i
    BY <1>0, ConsumptionFacts
  <2>2. c.swing \in Swings(cs) /\ c.swing.at \in 2..Len(bs)
    BY <1>0, <2>1, SwingsStay, SwingFacts
  <2>3. c.bar \in 1..Len(bs) /\ c.bar \in (c.swing.at + 1)..Len(cs) /\ Through(cs[c.bar], c.swing)
    BY <1>0, <2>1, <2>2
  <2>4. PICK d \in Consumptions(cs) : d.swing = c.swing /\ d.bar <= c.bar
    BY <1>0, <2>2, <2>3, Consumed
  <2>5. /\ d = [bar |-> d.bar, swing |-> d.swing]
        /\ d.bar \in (c.swing.at + 1)..Len(cs) /\ Through(cs[d.bar], c.swing)
    BY <1>0, <2>4, ConsumptionFacts
  <2>6. d.bar \in (c.swing.at + 1)..Len(bs) /\ d.bar \in 1..Len(bs)
    BY <1>0, <2>1, <2>2, <2>4, <2>5
  <2>7. c.bar <= d.bar
    BY <1>0, <2>1, <2>5, <2>6
  <2>8. c = d
    BY <2>1, <2>3, <2>4, <2>5, <2>6, <2>7
  <2> QED BY <2>8
<1>3. ASSUME NEW c \in Consumptions(cs), c \notin Consumptions(bs) PROVE c.bar = Len(cs)
  <2> SUFFICES ASSUME c.bar # Len(cs) PROVE FALSE
    OBVIOUS
  <2>1. /\ c = [bar |-> c.bar, swing |-> c.swing] /\ c.swing \in Swings(cs)
        /\ c.bar \in (c.swing.at + 1)..Len(cs) /\ Through(cs[c.bar], c.swing)
        /\ \A i \in (c.swing.at + 1)..Len(cs) : Through(cs[i], c.swing) => c.bar <= i
    BY <1>0, ConsumptionFacts
  <2>2. c.swing.at \in 2..Len(cs)
    BY <1>0, <2>1, SwingFacts
  <2>3. c.bar \in 1..Len(bs) /\ c.bar \in (c.swing.at + 1)..Len(bs) /\ Through(bs[c.bar], c.swing)
    BY <1>0, <2>1, <2>2
  <2>4. CASE c.swing \in Swings(bs)
    <3>1. PICK d \in Consumptions(bs) : d.swing = c.swing /\ d.bar <= c.bar
      BY <1>0, <2>3, <2>4, Consumed
    <3>2. d \in Consumptions(cs)
      BY <1>2
    <3>3. d = c
      BY <1>0, <3>1, <3>2, ConsumedOnce
    <3> QED BY <1>3, <3>3
  <2>5. CASE c.swing \notin Swings(bs)
    <3> DEFINE a == c.swing.at
               b == c.bar
    <3>1. a = Len(cs) - Wing
      BY <2>1, <2>5, SwingsStay
    <3>2. DOMAIN cs = 1..Len(cs) /\ a \in Nat /\ b \in Nat /\ b \in (a + 1)..Len(cs)
      BY <1>0, <2>1, <2>2
    <3>3. b \in Beside(cs, a)
      BY <1>0, <1>1, <3>1, <3>2 DEF Beside
    <3>4. /\ c.swing.kind \in {"HIGH", "LOW"}
          /\ c.swing.kind = "HIGH" => c.swing.price = cs[a].high /\ \A k \in Beside(cs, a) : cs[k].high < c.swing.price
          /\ c.swing.kind = "LOW" => c.swing.price = cs[a].low /\ \A k \in Beside(cs, a) : cs[k].low > c.swing.price
      BY <1>0, <2>1, SwingFacts
    <3>5. cs[b].high \in Nat /\ cs[b].low \in Nat /\ c.swing.price \in Nat
      <4>1. b \in 1..Len(cs)
        BY <2>2, <3>2
      <4> QED BY <1>0, <2>1, <4>1, BarFacts, SwingFacts
    <3> HIDE DEF a, b
    <3>6. Through(cs[b], c.swing)
      BY <2>1 DEF b
    <3> QED BY <3>3, <3>4, <3>5, <3>6 DEF Through
  <2> QED BY <2>4, <2>5
<1> QED BY <1>2, <1>3

\* The breaks of before keep their places, and every other is of the new bar.
SameBreaks(bs, cs) ==
  /\ Len(Breaks(bs)) \in Nat /\ Len(Breaks(cs)) \in Nat /\ Len(Breaks(bs)) <= Len(Breaks(cs))
  /\ DOMAIN Breaks(bs) = 1..Len(Breaks(bs)) /\ DOMAIN Breaks(cs) = 1..Len(Breaks(cs))
  /\ \A k \in 1..Len(Breaks(bs)) : Breaks(cs)[k] = Breaks(bs)[k] /\ Breaks(bs)[k].bar \in 1..Len(bs)
  /\ \A k \in 1..Len(Breaks(cs)) : k > Len(Breaks(bs)) => Breaks(cs)[k].bar = Len(cs)

LEMMA BreaksStay ==
  ASSUME NEW bs, NEW cs, OneMore(bs, cs)
  PROVE  SameBreaks(bs, cs) /\ IsPrefix(Breaks(bs), Breaks(cs))
<1> DEFINE old == Breaks(bs)
           new == Breaks(cs)
           all == Consumptions(bs)
           more == Consumptions(cs)
           n == Len(old)
           m == Len(new)
           was(k) == [bar |-> old[k].bar, swing |-> old[k].swing]
           is(k) == [bar |-> new[k].bar, swing |-> new[k].swing]
<1>0. /\ bs \in Seq(ClosedBars) /\ cs \in Seq(ClosedBars) /\ Len(bs) \in Nat /\ Len(cs) = Len(bs) + 1
  BY DEF OneMore
<1>1. IsBreaks(bs, old) /\ IsBreaks(cs, new)
  BY <1>0, BreaksFacts
<1>2. all \subseteq more /\ \A c \in more \ all : c.bar = Len(cs)
  BY ConsumptionsStay
<1>3. (\A c \in all : c.bar \in 3..Len(bs)) /\ (\A c \in more : c.bar \in Nat)
  BY <1>0, ConsumptionFacts
<1>4. /\ n \in Nat /\ m \in Nat /\ DOMAIN old = 1..n /\ DOMAIN new = 1..m
      /\ \A k \in 1..n : old[k].bar \in 3..Len(bs)
  <2>1. /\ old \in Seq([bar : 3..Len(bs), swing : Swings(bs), way : {"UP", "DOWN"}, type : {"BOS", "MSB"}])
        /\ new \in Seq([bar : 3..Len(cs), swing : Swings(cs), way : {"UP", "DOWN"}, type : {"BOS", "MSB"}])
    BY <1>1, Zenon DEF IsBreaks
  <2> DEFINE O == [bar : 3..Len(bs), swing : Swings(bs), way : {"UP", "DOWN"}, type : {"BOS", "MSB"}]
             N == [bar : 3..Len(cs), swing : Swings(cs), way : {"UP", "DOWN"}, type : {"BOS", "MSB"}]
  <2>2. \A b \in O : b.bar \in 3..Len(bs)
    OBVIOUS
  <2> HIDE DEF old, new, O, N
  <2>3. old \in Seq(O) /\ new \in Seq(N)
    BY <2>1, Zenon DEF O, N
  <2>4. n \in Nat /\ m \in Nat /\ DOMAIN old = 1..n /\ DOMAIN new = 1..m /\ \A k \in 1..n : old[k] \in O
    BY <2>3
  <2> QED BY <2>2, <2>4
<1> HIDE DEF old, new, all, more
<1>5. /\ \A k \in 1..n : /\ was(k) \in all /\ Cardinality({d \in all : BreakBefore(d, was(k))}) = k - 1
                         /\ old[k].way = Way(old[k].swing)
                         /\ old[k] = [bar |-> old[k].bar, swing |-> old[k].swing, way |-> old[k].way,
                              type |-> IF k = 1 \/ Way(old[k - 1].swing) = Way(old[k].swing) THEN "BOS" ELSE "MSB"]
      /\ \A c \in all : \E k \in 1..n : old[k].bar = c.bar /\ old[k].swing = c.swing
  <2>1. /\ \A k \in DOMAIN old : IsBreak(bs, old, k)
        /\ \A c \in all : \E k \in DOMAIN old : old[k].bar = c.bar /\ old[k].swing = c.swing
    BY <1>1, Zenon DEF IsBreaks, all
  <2>2. \A k \in 1..n : IsBreak(bs, old, k)
    BY <1>4, <2>1, Zenon
  <2>3. ASSUME NEW k \in 1..n
        PROVE /\ was(k) \in all /\ Cardinality({d \in all : BreakBefore(d, was(k))}) = k - 1
                         /\ old[k].way = Way(old[k].swing)
                         /\ old[k] = [bar |-> old[k].bar, swing |-> old[k].swing, way |-> old[k].way,
                              type |-> IF k = 1 \/ Way(old[k - 1].swing) = Way(old[k].swing) THEN "BOS" ELSE "MSB"]
    BY <2>2, Zenon DEF IsBreak, all
  <2>4. \A c \in all : \E k \in 1..n : old[k].bar = c.bar /\ old[k].swing = c.swing
    BY <1>4, <2>1, Zenon
  <2> QED BY <2>3, <2>4, Zenon
<1>6. /\ \A k \in 1..m : /\ is(k) \in more /\ Cardinality({d \in more : BreakBefore(d, is(k))}) = k - 1
                         /\ new[k].way = Way(new[k].swing)
                         /\ new[k] = [bar |-> new[k].bar, swing |-> new[k].swing, way |-> new[k].way,
                              type |-> IF k = 1 \/ Way(new[k - 1].swing) = Way(new[k].swing) THEN "BOS" ELSE "MSB"]
      /\ \A c \in more : \E k \in 1..m : new[k].bar = c.bar /\ new[k].swing = c.swing
  <2>1. /\ \A k \in DOMAIN new : IsBreak(cs, new, k)
        /\ \A c \in more : \E k \in DOMAIN new : new[k].bar = c.bar /\ new[k].swing = c.swing
    BY <1>1, Zenon DEF IsBreaks, more
  <2>2. \A k \in 1..m : IsBreak(cs, new, k)
    BY <1>4, <2>1, Zenon
  <2>3. ASSUME NEW k \in 1..m
        PROVE /\ is(k) \in more /\ Cardinality({d \in more : BreakBefore(d, is(k))}) = k - 1
                         /\ new[k].way = Way(new[k].swing)
                         /\ new[k] = [bar |-> new[k].bar, swing |-> new[k].swing, way |-> new[k].way,
                              type |-> IF k = 1 \/ Way(new[k - 1].swing) = Way(new[k].swing) THEN "BOS" ELSE "MSB"]
    BY <2>2, Zenon DEF IsBreak, more
  <2>4. \A c \in more : \E k \in 1..m : new[k].bar = c.bar /\ new[k].swing = c.swing
    BY <1>4, <2>1, Zenon
  <2> QED BY <2>3, <2>4, Zenon
<1>7. \A c \in all : {d \in more : BreakBefore(d, c)} = {d \in all : BreakBefore(d, c)}
  <2>1. ASSUME NEW c \in all, NEW d \in more, d \notin all PROVE ~BreakBefore(d, c)
    <3>1. d.bar = Len(cs) /\ c.bar \in 3..Len(bs)
      BY <1>2, <1>3, <2>1
    <3> QED BY <1>0, <3>1 DEF BreakBefore
  <2> QED BY <1>2, <2>1
<1>8. ASSUME NEW k \in 1..n PROVE k \in 1..m /\ new[k].bar = old[k].bar /\ new[k].swing = old[k].swing
  <2>1. was(k) \in all /\ was(k) \in more
    BY <1>2, <1>5
  <2>2. PICK j \in 1..m : new[j].bar = old[k].bar /\ new[j].swing = old[k].swing
    BY <1>6, <2>1
  <2>3. is(j) = was(k)
    BY <2>2
  <2>4. Cardinality({d \in more : BreakBefore(d, was(k))}) = j - 1
    BY <1>6, <2>3
  <2>5. Cardinality({d \in more : BreakBefore(d, was(k))}) = k - 1
    <3>1. {d \in more : BreakBefore(d, was(k))} = {d \in all : BreakBefore(d, was(k))}
      BY <1>7, <2>1, Zenon
    <3>2. Cardinality({d \in all : BreakBefore(d, was(k))}) = k - 1
      BY <1>5
    <3> HIDE DEF was
    <3> QED BY <3>1, <3>2, Zenon
  <2> HIDE DEF was, is
  <2>6. j = k
    BY <1>4, <2>4, <2>5
  <2> QED BY <2>2, <2>6
<1>9. n <= m
  <2>1. n # 0 => n \in 1..n
    BY <1>4
  <2>2. n # 0 => n \in 1..m
    BY <1>8, <2>1
  <2> QED BY <1>4, <2>2
<1>10. ASSUME NEW k \in 1..n PROVE new[k] = old[k]
  <2>1. k \in 1..m /\ new[k].bar = old[k].bar /\ new[k].swing = old[k].swing
    BY <1>8
  <2>2. k # 1 => k - 1 \in 1..n
    BY <1>4
  <2>3. k # 1 => new[k - 1].swing = old[k - 1].swing
    BY <1>8, <2>2
  <2>4. new[k].way = old[k].way
    <3>1. new[k].way = Way(new[k].swing)
      BY <1>6, <2>1
    <3>2. old[k].way = Way(old[k].swing)
      BY <1>5
    <3> QED BY <2>1, <3>1, <3>2, Zenon
  <2>5. (k = 1 \/ Way(new[k - 1].swing) = Way(new[k].swing)) <=> (k = 1 \/ Way(old[k - 1].swing) = Way(old[k].swing))
    BY <2>1, <2>3
  <2>6. new[k] = [bar |-> new[k].bar, swing |-> new[k].swing, way |-> new[k].way,
                  type |-> IF k = 1 \/ Way(new[k - 1].swing) = Way(new[k].swing) THEN "BOS" ELSE "MSB"]
    BY <1>6, <2>1
  <2>7. old[k] = [bar |-> old[k].bar, swing |-> old[k].swing, way |-> old[k].way,
                  type |-> IF k = 1 \/ Way(old[k - 1].swing) = Way(old[k].swing) THEN "BOS" ELSE "MSB"]
    BY <1>5
  <2> QED BY <2>1, <2>4, <2>5, <2>6, <2>7
<1>11. ASSUME NEW k \in 1..m, k > n PROVE new[k].bar = Len(cs)
  <2>1. is(k) \in more
    BY <1>6
  <2>2. is(k) \notin all
    <3> SUFFICES ASSUME is(k) \in all PROVE FALSE
      OBVIOUS
    <3>1. PICK j \in 1..n : old[j].bar = new[k].bar /\ old[j].swing = new[k].swing
      BY <1>5
    <3>2. j \in 1..m /\ new[j].bar = old[j].bar /\ new[j].swing = old[j].swing
      BY <1>8
    <3>3. is(j) = is(k)
      BY <3>1, <3>2
    <3>4. Cardinality({d \in more : BreakBefore(d, is(j))}) = j - 1 /\ Cardinality({d \in more : BreakBefore(d, is(k))}) = k - 1
      BY <1>6, <3>2
    <3> HIDE DEF is
    <3>5. j - 1 = k - 1
      BY <3>3, <3>4
    <3> QED BY <1>4, <1>11, <3>5
  <2> QED BY <1>2, <2>1, <2>2
<1>12. \A k \in 1..n : old[k].bar \in 1..Len(bs)
  BY <1>4
<1>13. SameBreaks(bs, cs)
  BY <1>4, <1>9, <1>10, <1>11, <1>12 DEF SameBreaks, old, new
<1>14. IsPrefix(old, new)
  <2>1. \E S : old \in Seq(S)
    BY <1>1, Zenon DEF IsBreaks
  <2>2. \E S : new \in Seq(S)
    BY <1>1, Zenon DEF IsBreaks
  <2>3. SubSeq(old, 1, n) = [k \in 1..n |-> old[k]] /\ SubSeq(new, 1, n) = [k \in 1..n |-> new[k]]
    BY <1>4, <1>9, <2>1, <2>2
  <2> QED BY <1>9, <1>10, <2>3 DEF IsPrefix
<1> QED BY <1>13, <1>14 DEF old, new

LEMMA SimpleStays ==
  ASSUME NEW bs, NEW cs, OneMore(bs, cs)
  PROVE  /\ Simple(bs) \subseteq Simple(cs)
         /\ \A z \in Simple(cs) \ Simple(bs) : z.at = Len(cs)
<1>0. /\ bs \in Seq(ClosedBars) /\ cs \in Seq(ClosedBars) /\ Len(bs) \in Nat /\ Len(cs) = Len(bs) + 1
      /\ \A i \in 1..Len(bs) : cs[i] = bs[i]
  BY DEF OneMore
<1>1. FairValueGaps(bs) \subseteq FairValueGaps(cs)
  <2> SUFFICES ASSUME NEW z \in FairValueGaps(bs) PROVE z \in FairValueGaps(cs)
    OBVIOUS
  <2> DEFINE t == z.at
  <2>1. /\ t \in 3..Len(bs)
        /\ \/ z = Zone("FVG", "BULLISH", bs[t - 2].high, bs[t].low, t) /\ bs[t].low > bs[t - 2].high
           \/ z = Zone("FVG", "BEARISH", bs[t].high, bs[t - 2].low, t) /\ bs[t].high < bs[t - 2].low
    BY <1>0, GapFacts
  <2> HIDE DEF t
  <2>2. t \in 3..Len(cs) /\ cs[t] = bs[t] /\ cs[t - 2] = bs[t - 2]
    BY <1>0, <2>1
  <2> QED BY <2>1, <2>2 DEF FairValueGaps
<1>2. ASSUME NEW z \in FairValueGaps(cs), z.at # Len(cs) PROVE z \in FairValueGaps(bs)
  <2> DEFINE t == z.at
  <2>1. /\ t \in 3..Len(cs)
        /\ \/ z = Zone("FVG", "BULLISH", cs[t - 2].high, cs[t].low, t) /\ cs[t].low > cs[t - 2].high
           \/ z = Zone("FVG", "BEARISH", cs[t].high, cs[t - 2].low, t) /\ cs[t].high < cs[t - 2].low
    BY <1>0, GapFacts
  <2>3. t # Len(cs)
    BY <1>2
  <2> HIDE DEF t
  <2>2. t \in 3..Len(bs) /\ cs[t] = bs[t] /\ cs[t - 2] = bs[t - 2]
    BY <1>0, <2>1, <2>3
  <2> QED BY <2>1, <2>2 DEF FairValueGaps
<1> DEFINE up(b, i) == IF b[i].low > b[i - 1].high THEN Zone("GAP", "BULLISH", b[i - 1].high, b[i].low, i)
                       ELSE Zone("VOLUME_IMBALANCE", "BULLISH", BodyHigh(b[i - 1]), BodyLow(b[i]), i)
           down(b, i) == IF b[i].high < b[i - 1].low THEN Zone("GAP", "BEARISH", b[i].high, b[i - 1].low, i)
                         ELSE Zone("VOLUME_IMBALANCE", "BEARISH", BodyHigh(b[i]), BodyLow(b[i - 1]), i)
           above(b) == {j \in 2..Len(b) : BodyLow(b[j]) > BodyHigh(b[j - 1])}
           below(b) == {j \in 2..Len(b) : BodyHigh(b[j]) < BodyLow(b[j - 1])}
<1>3. \A b : TwoBarImbalances(b) = {up(b, i) : i \in above(b)} \union {down(b, i) : i \in below(b)}
  BY Zenon DEF TwoBarImbalances
<1>4. ASSUME NEW i \in 2..Len(bs)
      PROVE  /\ cs[i] = bs[i] /\ cs[i - 1] = bs[i - 1] /\ i \in 2..Len(cs)
  BY <1>0
<1>5. \A i \in 2..Len(bs) : up(cs, i) = up(bs, i) /\ down(cs, i) = down(bs, i)
  BY <1>4
<1>6. \A i \in 2..Len(bs) : (i \in above(cs) <=> i \in above(bs)) /\ (i \in below(cs) <=> i \in below(bs))
  BY <1>4
<1>7. /\ above(bs) \subseteq 2..Len(bs) /\ below(bs) \subseteq 2..Len(bs)
      /\ above(cs) \subseteq 2..Len(cs) /\ below(cs) \subseteq 2..Len(cs)
      /\ \A i \in 2..Len(cs) : up(cs, i).at = i /\ down(cs, i).at = i
  <2>1. \A i \in 2..Len(cs) : up(cs, i).at = i /\ down(cs, i).at = i
    BY DEF Zone
  <2> QED BY <2>1
<1> HIDE DEF up, down, above, below
<1>8. TwoBarImbalances(bs) \subseteq TwoBarImbalances(cs)
  BY <1>3, <1>5, <1>6, <1>7
<1>9. ASSUME NEW z \in TwoBarImbalances(cs), z.at # Len(cs) PROVE z \in TwoBarImbalances(bs)
  <2>1. CASE \E i \in above(cs) : z = up(cs, i)
    <3>1. PICK i \in above(cs) : z = up(cs, i)
      BY <2>1
    <3>2. i \in 2..Len(bs)
      BY <1>0, <1>7, <1>9, <3>1
    <3> QED BY <1>3, <1>5, <1>6, <3>1, <3>2
  <2>2. CASE \E i \in below(cs) : z = down(cs, i)
    <3>1. PICK i \in below(cs) : z = down(cs, i)
      BY <2>2
    <3>2. i \in 2..Len(bs)
      BY <1>0, <1>7, <1>9, <3>1
    <3> QED BY <1>3, <1>5, <1>6, <3>1, <3>2
  <2> QED BY <1>3, <2>1, <2>2
<1> QED BY <1>1, <1>2, <1>8, <1>9 DEF Simple

\* The pair of two zones.
Overlap(a, b) ==
  [low |-> Max({a.low, b.low}), high |-> Min({a.high, b.high}), at |-> Later(a, b).at,
   way |-> IF a.at # b.at THEN Later(a, b).way ELSE IF a.type = "FVG" THEN a.way ELSE b.way]

LEMMA PairingsAre ==
  ASSUME NEW bs
  PROVE  /\ \A a, b \in Simple(bs) : Overlaps(a, b) => Overlap(a, b) \in Pairings(bs)
         /\ \A p \in Pairings(bs) : \E a, b \in Simple(bs) : Overlaps(a, b) /\ p = Overlap(a, b)
<1>1. Pairings(bs) = {Overlap(p[1], p[2]) : p \in {q \in Simple(bs) \X Simple(bs) : Overlaps(q[1], q[2])}}
  BY Zenon DEF Pairings, Overlap
<1>2. ASSUME NEW a \in Simple(bs), NEW b \in Simple(bs), Overlaps(a, b) PROVE Overlap(a, b) \in Pairings(bs)
  <2> DEFINE q == <<a, b>>
  <2>1. q \in Simple(bs) \X Simple(bs) /\ q[1] = a /\ q[2] = b
    OBVIOUS
  <2> HIDE DEF q
  <2> QED BY <1>1, <1>2, <2>1
<1>3. ASSUME NEW p \in Pairings(bs) PROVE \E a, b \in Simple(bs) : Overlaps(a, b) /\ p = Overlap(a, b)
  <2>1. PICK q \in {r \in Simple(bs) \X Simple(bs) : Overlaps(r[1], r[2])} : p = Overlap(q[1], q[2])
    BY <1>1
  <2>2. q[1] \in Simple(bs) /\ q[2] \in Simple(bs) /\ Overlaps(q[1], q[2])
    OBVIOUS
  <2> QED BY <2>1, <2>2
<1> QED BY <1>2, <1>3

LEMMA PairingsStay ==
  ASSUME NEW bs, NEW cs, OneMore(bs, cs)
  PROVE  /\ Pairings(bs) \subseteq Pairings(cs)
         /\ \A p \in Pairings(cs) \ Pairings(bs) : p.at = Len(cs)
         /\ \A p \in Pairings(bs) : p.at \in 1..Len(bs) /\ Covering(cs, p) = Covering(bs, p)
<1>0. /\ bs \in Seq(ClosedBars) /\ cs \in Seq(ClosedBars) /\ Len(bs) \in Nat /\ Len(cs) = Len(bs) + 1
  BY DEF OneMore
<1>1. Simple(bs) \subseteq Simple(cs) /\ \A z \in Simple(cs) \ Simple(bs) : z.at = Len(cs)
  BY SimpleStays
<1>2. \A z \in Simple(cs) : z.at \in 1..Len(cs)
  BY <1>0, SimplePlaced DEF Placed
<1>3. Pairings(bs) \subseteq Pairings(cs)
  <2> SUFFICES ASSUME NEW p \in Pairings(bs) PROVE p \in Pairings(cs)
    OBVIOUS
  <2>1. PICK a \in Simple(bs), b \in Simple(bs) : Overlaps(a, b) /\ p = Overlap(a, b)
    BY PairingsAre
  <2> QED BY <1>1, <2>1, PairingsAre
<1>4. ASSUME NEW p \in Pairings(cs), p \notin Pairings(bs) PROVE p.at = Len(cs)
  <2>1. PICK a \in Simple(cs), b \in Simple(cs) : Overlaps(a, b) /\ p = Overlap(a, b)
    BY PairingsAre
  <2>2. a \notin Simple(bs) \/ b \notin Simple(bs)
    BY <1>4, <2>1, PairingsAre
  <2>3. a.at = Len(cs) \/ b.at = Len(cs)
    BY <1>1, <2>2
  <2>4. a.at \in 1..Len(cs) /\ b.at \in 1..Len(cs) /\ Len(cs) \in Nat
    BY <1>0, <1>2
  <2>5. p.at = Later(a, b).at
    BY <2>1 DEF Overlap
  <2> QED BY <2>3, <2>4, <2>5 DEF Later
<1>5. ASSUME NEW p \in Pairings(bs) PROVE p.at \in 1..Len(bs) /\ Covering(cs, p) = Covering(bs, p)
  <2>1. p.at \in 1..Len(bs)
    BY <1>0, PairingFacts
  <2>2. \A z \in Simple(cs) : z.at <= p.at => z \in Simple(bs)
    BY <1>0, <1>1, <1>2, <2>1
  <2> QED BY <1>1, <2>1, <2>2 DEF Covering
<1> QED BY <1>3, <1>4, <1>5

LEMMA ImbalancesStay ==
  ASSUME NEW bs, NEW cs, OneMore(bs, cs)
  PROVE  Imbalances(bs) \subseteq Imbalances(cs)
<1>0. /\ bs \in Seq(ClosedBars) /\ cs \in Seq(ClosedBars) /\ Len(bs) \in Nat /\ Len(cs) = Len(bs) + 1
  BY DEF OneMore
<1>1. Simple(bs) \subseteq Simple(cs)
  BY SimpleStays
<1>2. BalancedRanges(bs) \subseteq BalancedRanges(cs)
  <2> DEFINE first(b) == {q \in Pairings(b) : \A r \in Pairings(b) : r.low = q.low /\ r.high = q.high => q.at <= r.at}
             range(b, p) == Zone(IF IsSuper(b, p) THEN "SUPER_BPR" ELSE "BPR", p.way, p.low, p.high, p.at)
  <2>1. \A b : BalancedRanges(b) = {range(b, p) : p \in first(b)}
    BY Zenon DEF BalancedRanges
  <2>2. /\ Pairings(bs) \subseteq Pairings(cs)
        /\ \A p \in Pairings(cs) \ Pairings(bs) : p.at = Len(cs)
        /\ \A p \in Pairings(bs) : p.at \in 1..Len(bs) /\ Covering(cs, p) = Covering(bs, p)
    BY PairingsStay
  <2>3. \A p \in Pairings(bs) : IsSuper(cs, p) <=> IsSuper(bs, p)
    BY <2>2, Zenon DEF IsSuper
  <2>4. \A p \in Pairings(bs) : range(cs, p) = range(bs, p)
    BY <2>3, Zenon
  <2>5. ASSUME NEW p \in first(bs) PROVE p \in first(cs)
    <3>1. p \in Pairings(bs) /\ p \in Pairings(cs) /\ p.at \in 1..Len(bs)
      BY <2>2
    <3>2. ASSUME NEW r \in Pairings(cs), r.low = p.low, r.high = p.high PROVE p.at <= r.at
      <4>1. CASE r \in Pairings(bs)
        BY <3>2, <4>1
      <4>2. CASE r \notin Pairings(bs)
        BY <1>0, <2>2, <3>1, <4>2
      <4> QED BY <4>1, <4>2
    <3> QED BY <3>1, <3>2
  <2>6. \A p \in first(bs) : p \in Pairings(bs)
    OBVIOUS
  <2> HIDE DEF first, range
  <2> QED BY <2>1, <2>4, <2>5, <2>6
<1> QED BY <1>1, <1>2 DEF Imbalances

\* A fill never empties, and a zone is tested no fewer times.
LEMMA FillsGrow ==
  ASSUME NEW bs, NEW cs, OneMore(bs, cs), NEW z \in Imbalances(bs)
  PROVE  FillState(bs, z) <= FillState(cs, z) /\ TestCount(bs, z) <= TestCount(cs, z)
<1>0. /\ bs \in Seq(ClosedBars) /\ cs \in Seq(ClosedBars) /\ Len(bs) \in Nat /\ Len(cs) = Len(bs) + 1
      /\ \A i \in 1..Len(bs) : cs[i] = bs[i]
  BY DEF OneMore
<1>1. Placed(z, bs)
  BY <1>0, ImbalancePlaced
<1>2. z.at \in 1..Len(bs) /\ z.low \in Nat /\ z.high \in Nat
  BY <1>1 DEF Placed
<1>3. PICK top \in Nat : Capped(cs, top)
  BY <1>0, SomeCap
<1> DEFINE after(b) == (z.at + 1)..Len(b)
           reached(b) == {0} \union {Reach(b[i], z) : i \in after(b)}
<1>4. after(bs) \subseteq after(cs) /\ after(bs) \subseteq 1..Len(bs) /\ after(cs) \subseteq 1..Len(cs)
  BY <1>0, <1>2
<1>5. \A i \in after(cs) : Reach(cs[i], z) \in (-z.low - top)..(z.high + top)
  <2> SUFFICES ASSUME NEW i \in after(cs) PROVE Reach(cs[i], z) \in (-z.low - top)..(z.high + top)
    OBVIOUS
  <2>0. i \in 1..Len(cs)
    BY <1>4
  <2> HIDE DEF after
  <2>1. cs[i].high \in Nat /\ cs[i].low \in Nat /\ cs[i].low <= cs[i].high
    BY <1>0, <2>0, BarFacts
  <2>2. cs[i].high <= top
    BY <1>3, <2>0 DEF Capped
  <2>3. cs[i].high \in 0..top /\ cs[i].low \in 0..top
    BY <1>3, <2>1, <2>2
  <2>4. Reach(cs[i], z) = z.high - cs[i].low \/ Reach(cs[i], z) = cs[i].high - z.low
    BY DEF Reach
  <2>5. \A u, v \in Nat : \A x, y \in 0..top : u - x \in (-v - top)..(u + top) /\ y - v \in (-v - top)..(u + top)
    BY <1>3
  <2> QED BY <1>2, <2>3, <2>4, <2>5
<1>6. \A i \in after(bs) : Reach(bs[i], z) = Reach(cs[i], z) /\ (ClosedPast(bs[i], z) => ClosedPast(cs[i], z))
  BY <1>0, <1>4
<1> HIDE DEF after
<1>7. reached(bs) \subseteq reached(cs) /\ reached(cs) \subseteq (-z.low - top)..(z.high + top) /\ 0 \in reached(bs)
  BY <1>2, <1>4, <1>5, <1>6
<1> HIDE DEF reached
<1>8. Max(reached(bs)) <= Max(reached(cs)) /\ Max(reached(bs)) \in Int /\ Max(reached(cs)) \in Int
  <2>1. PICK lo \in Int, hi \in Int : reached(cs) \subseteq lo..hi
    <3>1. -z.low - top \in Int /\ z.high + top \in Int
      BY <1>2
    <3> QED BY <1>7, <3>1
  <2>2. reached(bs) \subseteq lo..hi /\ reached(bs) # {} /\ reached(cs) # {}
    BY <1>7, <2>1
  <2>3. Max(reached(bs)) \in reached(bs) /\ Max(reached(bs)) \in lo..hi
    BY <2>2, EndsOf, Zenon
  <2>4. Max(reached(cs)) \in lo..hi /\ \A y \in reached(cs) : y <= Max(reached(cs))
    BY <2>1, <2>2, EndsOf, Zenon
  <2> QED BY <1>7, <2>3, <2>4
<1>9. FillState(bs, z) <= FillState(cs, z)
  <2> DEFINE state(b) == IF \E i \in after(b) : ClosedPast(b[i], z) THEN 3
                         ELSE IF Max(reached(b)) >= z.high - z.low THEN 2 ELSE IF Max(reached(b)) > 0 THEN 1 ELSE 0
  <2>1. FillState(bs, z) = state(bs) /\ FillState(cs, z) = state(cs)
    BY Zenon DEF FillState, after, reached
  <2>2. (\E i \in after(bs) : ClosedPast(bs[i], z)) => (\E i \in after(cs) : ClosedPast(cs[i], z))
    BY <1>4, <1>6, Zenon
  <2> QED BY <1>2, <1>8, <2>1, <2>2
<1>10. TestCount(bs, z) <= TestCount(cs, z)
  <2> DEFINE tests(b) == {i \in (z.at + 1)..Len(b) : Touches(b[i], z) /\ (i = z.at + 1 \/ ~Touches(b[i - 1], z))}
  <2>1. \A i \in (z.at + 1)..Len(bs) : cs[i] = bs[i] /\ i \in (z.at + 1)..Len(cs) /\ (i # z.at + 1 => cs[i - 1] = bs[i - 1])
    BY <1>0, <1>2
  <2>2. tests(bs) \subseteq tests(cs)
    BY <2>1
  <2>3. IsFiniteSet(tests(cs))
    <3>1. z.at + 1 \in Int /\ Len(cs) \in Int
      BY <1>0, <1>2
    <3>2. IsFiniteSet((z.at + 1)..Len(cs))
      BY <3>1, FS_Interval
    <3>3. tests(cs) \in SUBSET ((z.at + 1)..Len(cs))
      OBVIOUS
    <3> HIDE DEF tests
    <3> QED BY <3>2, <3>3, FS_Subset
  <2>4. TestCount(bs, z) = Cardinality(tests(bs)) /\ TestCount(cs, z) = Cardinality(tests(cs))
    BY Zenon DEF TestCount
  <2> HIDE DEF tests
  <2> QED BY <2>2, <2>3, <2>4, FS_Subset
<1> QED BY <1>9, <1>10

\* A swing that was taken out keeps a strength, and a later swing takes STRONG away.
LEMMA StrengthsStay ==
  ASSUME NEW bs, NEW cs, OneMore(bs, cs), NEW s \in Swings(bs)
  PROVE  /\ Strength(bs, s) = "WEAK" => Strength(cs, s) # "UNCONFIRMED"
         /\ Strength(bs, s) = "STRONG" /\ Strength(cs, s) = "UNCONFIRMED" =>
              \E t \in Swings(cs) \ Swings(bs) : t.kind = s.kind /\ t.at > s.at
<1> DEFINE W(b) == {k \in DOMAIN Breaks(b) : Breaks(b)[k].swing = s \/ Holds(b, Breaks(b)[k], s)}
           n == Len(Breaks(bs))
<1>0. /\ bs \in Seq(ClosedBars) /\ cs \in Seq(ClosedBars) /\ Len(bs) \in Nat /\ Len(cs) = Len(bs) + 1
  BY DEF OneMore
<1>1. /\ n \in Nat /\ DOMAIN Breaks(bs) = 1..n
      /\ \A k \in 1..n : k \in DOMAIN Breaks(cs) /\ Breaks(cs)[k] = Breaks(bs)[k] /\ Breaks(bs)[k].bar \in 1..Len(bs)
  BY BreaksStay DEF SameBreaks
<1>2. /\ Swings(bs) \subseteq Swings(cs)
      /\ \A t \in Swings(cs) : t.at \in Int
      /\ s.at \in Int
  BY <1>0, SwingsStay, SwingFacts
<1>3. \A b : Strength(b, s) = IF W(b) = {} THEN "UNCONFIRMED"
                              ELSE IF Breaks(b)[Max(W(b))].swing = s THEN "WEAK" ELSE "STRONG"
  BY Zenon DEF Strength
<1>4. W(bs) \subseteq 1..n
  BY <1>1
<1>5. ASSUME Strength(bs, s) = "WEAK" PROVE Strength(cs, s) # "UNCONFIRMED"
  <2>1. W(bs) # {} /\ Breaks(bs)[Max(W(bs))].swing = s
    BY <1>3, <1>5
  <2>2. PICK k \in 1..n : Breaks(bs)[k].swing = s
    <3> HIDE DEF W
    <3>1. Max(W(bs)) \in 1..n
      <4>1. 1 \in Int /\ n \in Int
        BY <1>1
      <4> HIDE DEF n
      <4> QED BY <1>4, <2>1, <4>1, EndsOf, Zenon
    <3> QED BY <2>1, <3>1
  <2>3. k \in W(cs)
    BY <1>1, <2>2
  <2> HIDE DEF W
  <2> QED BY <1>3, <2>3
<1>6. ASSUME Strength(bs, s) = "STRONG", Strength(cs, s) = "UNCONFIRMED"
      PROVE  \E t \in Swings(cs) \ Swings(bs) : t.kind = s.kind /\ t.at > s.at
  <2>1. W(bs) # {} /\ W(cs) = {}
    <3> HIDE DEF W
    <3> QED BY <1>3, <1>6
  <2>2. PICK k \in W(bs) : TRUE
    BY <2>1
  <2> DEFINE brk == Breaks(bs)[k]
  <2>3. k \in 1..n /\ k \in DOMAIN Breaks(cs) /\ Breaks(cs)[k] = brk /\ brk.bar \in Int
    BY <1>1, <1>4, <2>2
  <2>4. brk.swing = s \/ Holds(bs, brk, s)
    BY <2>2
  <2>5. brk.swing # s /\ ~Holds(cs, brk, s)
    BY <2>1, <2>3
  <2> HIDE DEF brk, W
  <2>6. Holds(bs, brk, s)
    BY <2>4, <2>5
  <2>7. /\ s.kind # brk.swing.kind /\ s.at < brk.bar
        /\ \A t \in Swings(bs) : t.kind = s.kind /\ t.at < brk.bar => t.at <= s.at
    BY <2>6, Zenon DEF Holds
  <2>8. PICK t \in Swings(cs) : t.kind = s.kind /\ t.at < brk.bar /\ ~(t.at <= s.at)
    BY <2>5, <2>7, Zenon DEF Holds
  <2>9. t \notin Swings(bs)
    BY <2>7, <2>8
  <2> QED BY <1>2, <2>8, <2>9
<1> QED BY <1>5, <1>6

LEMMA Quotients ==
  ASSUME NEW P \in Nat \ {0}, NEW i \in Nat, NEW j \in Nat, i <= j
  PROVE  i \div P \in Nat /\ i \div P <= j \div P
<1> QED OBVIOUS

\* A period that had ended keeps its bars.
LEMMA PeriodsStay ==
  ASSUME NEW bs, NEW cs, OneMore(bs, cs)
  PROVE  PeriodPools(bs) \subseteq PeriodPools(cs)
<1> DEFINE period(b, n) == {i \in DOMAIN b : (i - 1) \div PeriodBars = n}
           ended(b)     == {n \in 0..Len(b) : period(b, n) # {} /\ period(b, n + 1) # {}}
           two(b, n) == {Pool("PREVIOUS", "HIGH", Max({b[i].high : i \in period(b, n)}), Max(period(b, n))),
                         Pool("PREVIOUS", "LOW", Min({b[i].low : i \in period(b, n)}), Max(period(b, n)))}
<1>0. /\ bs \in Seq(ClosedBars) /\ cs \in Seq(ClosedBars) /\ Len(bs) \in Nat /\ Len(cs) = Len(bs) + 1
      /\ DOMAIN bs = 1..Len(bs) /\ DOMAIN cs = 1..Len(cs)
      /\ \A i \in 1..Len(bs) : cs[i] = bs[i]
  BY DEF OneMore
<1>1. \A b : PeriodPools(b) = UNION {two(b, n) : n \in ended(b)}
  BY Zenon DEF PeriodPools
<1>2. PeriodBars \in Nat \ {0}
  BY StructureAssumption
<1>3. ASSUME NEW n \in ended(bs) PROVE n \in ended(cs) /\ period(cs, n) = period(bs, n)
  <2>1. n \in 0..Len(bs) /\ n \in Int /\ period(bs, n) # {} /\ period(bs, n + 1) # {}
    OBVIOUS
  <2>2. PICK i \in 1..Len(bs) : (i - 1) \div PeriodBars = n + 1
    BY <1>0, <2>1
  <2>3. (Len(cs) - 1) \div PeriodBars >= n + 1
    <3>1. i - 1 \in Nat /\ Len(cs) - 1 \in Nat /\ i - 1 <= Len(cs) - 1
      BY <1>0
    <3>2. \A u, v \in Nat : u <= v => u \div PeriodBars <= v \div PeriodBars
      BY <1>2, Quotients
    <3>3. (i - 1) \div PeriodBars <= (Len(cs) - 1) \div PeriodBars
      BY <3>1, <3>2, Zenon
    <3>4. (Len(cs) - 1) \div PeriodBars \in Int
      BY <1>2, <3>1
    <3> QED BY <2>1, <2>2, <3>3, <3>4
  <2>4. \A m : period(bs, m) \subseteq period(cs, m)
    BY <1>0
  <2>5. period(cs, n) \subseteq period(bs, n)
    <3> SUFFICES ASSUME NEW k \in period(cs, n) PROVE k \in period(bs, n)
      OBVIOUS
    <3>1. k \in 1..Len(cs) /\ (k - 1) \div PeriodBars = n
      BY <1>0
    <3>2. k # Len(cs)
      BY <2>1, <2>3, <3>1
    <3>3. k \in 1..Len(bs)
      <4> HIDE DEF period
      <4> QED BY <1>0, <3>1, <3>2
    <3> QED BY <1>0, <3>1, <3>3
  <2>6. n \in 0..Len(cs)
    BY <1>0, <2>1
  <2>7. period(cs, n) # {} /\ period(cs, n + 1) # {}
    <3> HIDE DEF period
    <3> QED BY <2>1, <2>4
  <2> QED BY <2>4, <2>5, <2>6, <2>7
<1>4. ASSUME NEW n \in ended(bs) PROVE two(cs, n) = two(bs, n)
  <2> DEFINE S == period(bs, n)
  <2>1. period(cs, n) = S /\ S \subseteq 1..Len(bs)
    BY <1>0, <1>3
  <2> HIDE DEF S
  <2>2. {cs[i].high : i \in S} = {bs[i].high : i \in S} /\ {cs[i].low : i \in S} = {bs[i].low : i \in S}
    BY <1>0, <2>1
  <2>3. period(bs, n) = S
    BY DEF S
  <2> HIDE DEF period
  <2> QED BY <2>1, <2>2, <2>3, Zenon
<1> HIDE DEF period, ended, two
<1> QED BY <1>1, <1>3, <1>4

\* The level of two equal swings.
Outer(a, b) ==
  Pool(EqualsClass(a, b), a.kind,
       IF a.kind = "HIGH" THEN Max({a.price, b.price}) ELSE Min({a.price, b.price}), b.at)

LEMMA PoolsStay ==
  ASSUME NEW bs, NEW cs, OneMore(bs, cs)
  PROVE  Pools(bs) \subseteq Pools(cs)
<1>1. Swings(bs) \subseteq Swings(cs)
  BY SwingsStay
<1>2. SwingPools(bs) \subseteq SwingPools(cs)
  BY <1>1 DEF SwingPools
<1>3. EqualsPools(bs) \subseteq EqualsPools(cs)
  <2> DEFINE pairs(b) == {q \in Swings(b) \X Swings(b) : /\ q[1].kind = q[2].kind /\ q[1].at < q[2].at
                                                        /\ EqualsClass(q[1], q[2]) # "SEPARATE_POOLS"}
  <2>1. \A b : EqualsPools(b) = {Outer(p[1], p[2]) : p \in pairs(b)}
    BY Zenon DEF EqualsPools, Outer
  <2>2. pairs(bs) \subseteq pairs(cs)
    BY <1>1
  <2> HIDE DEF pairs
  <2> QED BY <2>1, <2>2
<1>4. PeriodPools(bs) \subseteq PeriodPools(cs)
  BY PeriodsStay
<1> QED BY <1>2, <1>3, <1>4 DEF Pools

\* A level that was traded beyond stays tested, and the runs that ended stay as they were.
LEMMA RunsStay ==
  ASSUME NEW bs, NEW cs, OneMore(bs, cs), NEW p, p.at \in 1..Len(bs)
  PROVE  /\ Excursions(bs, p) # {} => Excursions(cs, p) # {}
         /\ \A run \in Excursions(bs, p) : run \subseteq 1..Len(bs)
         /\ \A run \in Excursions(bs, p) : Max(run) < Len(bs) => run \in Excursions(cs, p)
<1> DEFINE beyond(b) == {i \in (p.at + 1)..Len(b) : Above(b[i], p) > 0}
           r(b, i) == {j \in beyond(b) : \A k \in Min({i, j})..Max({i, j}) : k \in beyond(b)}
<1>0. /\ bs \in Seq(ClosedBars) /\ cs \in Seq(ClosedBars) /\ Len(bs) \in Nat /\ Len(cs) = Len(bs) + 1
      /\ \A i \in 1..Len(bs) : cs[i] = bs[i]
      /\ p.at \in Nat
  BY DEF OneMore
<1>1. \A b : Excursions(b, p) = {r(b, i) : i \in beyond(b)}
  BY Zenon DEF Excursions
<1>2. /\ beyond(bs) \subseteq 1..Len(bs) /\ beyond(bs) \subseteq beyond(cs) /\ beyond(cs) \subseteq 1..Len(cs)
      /\ \A i \in beyond(cs) : i # Len(cs) => i \in beyond(bs)
  <2>1. beyond(bs) \subseteq 1..Len(bs) /\ beyond(cs) \subseteq 1..Len(cs)
    BY <1>0
  <2>2. ASSUME NEW i \in beyond(bs) PROVE i \in beyond(cs)
    BY <1>0, <2>1
  <2>3. ASSUME NEW i \in beyond(cs), i # Len(cs) PROVE i \in beyond(bs)
    BY <1>0, <2>1, <2>3
  <2> QED BY <2>1, <2>2, <2>3
<1>3. \A b : \A i \in beyond(b) : r(b, i) \in Excursions(b, p)
  <2> HIDE DEF beyond, r
  <2> QED BY <1>1
<1>7. \A run \in Excursions(bs, p) : \E i \in beyond(bs) : run = r(bs, i)
  <2> HIDE DEF beyond, r
  <2> QED BY <1>1
<1> HIDE DEF beyond
<1>4. ASSUME Excursions(bs, p) # {} PROVE Excursions(cs, p) # {}
  <2>1. PICK i \in beyond(bs) : TRUE
    BY <1>1, <1>4
  <2>2. i \in beyond(cs)
    BY <1>2
  <2> HIDE DEF r
  <2> QED BY <1>3, <2>2
<1>5. ASSUME NEW run \in Excursions(bs, p) PROVE run \subseteq 1..Len(bs)
  <2>1. PICK i \in beyond(bs) : run = r(bs, i)
    BY <1>7
  <2> QED BY <1>2, <2>1
<1>6. ASSUME NEW run \in Excursions(bs, p), Max(run) < Len(bs) PROVE run \in Excursions(cs, p)
  <2>1. PICK i \in beyond(bs) : run = r(bs, i)
    BY <1>7
  <2>2. i \in 1..Len(bs) /\ i \in beyond(cs)
    BY <1>2
  <2>3. Len(bs) \notin run
    <3> SUFFICES ASSUME Len(bs) \in run PROVE FALSE
      OBVIOUS
    <3>1. 1 \in Int /\ Len(bs) \in Int /\ run # {} /\ run \subseteq 1..Len(bs)
      BY <1>0, <1>5
    <3>2. Max(run) \in 1..Len(bs) /\ \A y \in run : y <= Max(run)
      BY <3>1, EndsOf, Zenon
    <3> QED BY <1>6, <3>1, <3>2
  <2>4. ASSUME NEW j \in r(cs, i) PROVE j \in run
    <3>1. j \in beyond(cs) /\ j \in 1..Len(cs) /\ \A k \in Min({i, j})..Max({i, j}) : k \in beyond(cs)
      BY <1>2
    <3>2. CASE j = Len(cs)
      <4>1. Min({i, j}) \in Int /\ Min({i, j}) <= i /\ Max({i, j}) \in Int /\ j <= Max({i, j})
        <5>1. i \in Int /\ j \in Int
          BY <2>2, <3>1
        <5> QED BY <5>1, OfTwo
      <4>2. \A k \in i..Len(bs) : k \in beyond(bs)
        <5> TAKE k \in i..Len(bs)
        <5>1. k \in Min({i, j})..Max({i, j}) /\ k # Len(cs)
          BY <1>0, <2>2, <3>2, <4>1
        <5> QED BY <1>2, <3>1, <5>1
      <4> DEFINE l == Len(bs)
      <4>3. i \in Int /\ l \in Int /\ i <= l /\ l \in beyond(bs)
        BY <1>0, <2>2, <4>2
      <4>4. Min({i, l}) \in {i, l} /\ Max({i, l}) \in {i, l} /\ Min({i, l}) <= i /\ l <= Max({i, l})
        <5> HIDE DEF l
        <5> QED BY <4>3, OfTwo
      <4>5. Min({i, l})..Max({i, l}) \subseteq i..l
        <5> HIDE DEF l
        <5> QED BY <4>3, <4>4
      <4>6. l \in r(bs, i)
        BY <4>2, <4>3, <4>5
      <4> QED BY <2>1, <2>3, <4>6
    <3>3. CASE j # Len(cs)
      <4>1. j \in beyond(bs) /\ j \in 1..Len(bs)
        BY <1>2, <3>1, <3>3
      <4>2. i \in Int /\ j \in Int /\ Max({i, j}) \in {i, j} /\ Min({i, j}) \in Int
        <5>1. i \in Int /\ j \in Int
          BY <2>2, <3>1
        <5> QED BY <5>1, OfTwo
      <4>3. \A k \in Min({i, j})..Max({i, j}) : k \in beyond(bs)
        <5> TAKE k \in Min({i, j})..Max({i, j})
        <5>1. k # Len(cs)
          BY <1>0, <2>2, <4>1, <4>2
        <5> QED BY <1>2, <3>1, <5>1
      <4> QED BY <2>1, <4>1, <4>3
    <3> QED BY <3>2, <3>3
  <2>5. ASSUME NEW j \in run PROVE j \in r(cs, i)
    <3>1. j \in beyond(bs) /\ \A k \in Min({i, j})..Max({i, j}) : k \in beyond(bs)
      BY <2>1
    <3> QED BY <1>2, <3>1
  <2>6. run = r(cs, i)
    BY <2>4, <2>5
  <2> HIDE DEF r
  <2> QED BY <1>3, <2>2, <2>6
<1> QED BY <1>4, <1>5, <1>6

\* What cleared a level cleared it for good.
LEMMA SweepsStay ==
  ASSUME NEW bs, NEW cs, OneMore(bs, cs), NEW p \in Pools(bs)
  PROVE  /\ PoolState(bs, p) # "UNTESTED" => PoolState(cs, p) # "UNTESTED"
         /\ \A run \in Excursions(bs, p) :
              Max(run) < Len(bs) /\ ClearedBy(bs, p, run) =>
                run \in Excursions(cs, p) /\ PoolState(cs, p) = "CONSUMED"
<1>0. /\ bs \in Seq(ClosedBars) /\ cs \in Seq(ClosedBars) /\ Len(bs) \in Nat /\ Len(cs) = Len(bs) + 1
      /\ \A i \in 1..Len(bs) : cs[i] = bs[i]
  BY DEF OneMore
<1>1. PICK top \in Nat : Capped(bs, top)
  BY <1>0, SomeCap
<1>2. PoolPlaced(p, bs, top)
  BY <1>0, <1>1, PoolFacts
<1>3. p.at \in 1..Len(bs)
  BY <1>2 DEF PoolPlaced
<1>4. ASSUME PoolState(bs, p) # "UNTESTED" PROVE PoolState(cs, p) # "UNTESTED"
  <2>1. Excursions(bs, p) # {}
    BY <1>4 DEF PoolState
  <2>2. Excursions(cs, p) # {}
    BY <1>3, <2>1, RunsStay
  <2> QED BY <2>2 DEF PoolState
<1>5. ASSUME NEW run \in Excursions(bs, p), Max(run) < Len(bs), ClearedBy(bs, p, run)
      PROVE  run \in Excursions(cs, p) /\ PoolState(cs, p) = "CONSUMED"
  <2>1. run \in Excursions(cs, p) /\ run \subseteq 1..Len(bs)
    BY <1>3, <1>5, RunsStay
  <2> DEFINE d == Deepest(bs, p, run)
             best(b) == {i \in run : \A j \in run : Above(b[j], p) <= Above(b[i], p)}
             after(b) == {k \in DOMAIN Breaks(b) : Breaks(b)[k].bar > d}
             past(b) == {k \in DOMAIN Breaks(b) : Breaks(b)[k].bar > Deepest(b, p, run)}
             n == Len(Breaks(bs))
             m == Len(Breaks(cs))
  <2>2. Deepest(cs, p, run) = d
    <3>1. best(cs) = best(bs)
      BY <1>0, <2>1
    <3>2. \A b : Deepest(b, p, run) = Min(best(b))
      BY Zenon DEF Deepest
    <3> HIDE DEF best
    <3> QED BY <3>1, <3>2
  <2>3. d \in 1..Len(bs)
    <3>1. d \in run
      BY <1>0, <1>1, <1>2, SweepFacts
    <3> HIDE DEF d
    <3> QED BY <2>1, <3>1
  <2>4. after(bs) # {} /\ Breaks(bs)[Min(after(bs))].way = IF p.side = "HIGH" THEN "DOWN" ELSE "UP"
    BY <1>5, Zenon DEF ClearedBy
  <2>5. ClearedBy(cs, p, run) <=>
          (after(cs) # {} /\ Breaks(cs)[Min(after(cs))].way = IF p.side = "HIGH" THEN "DOWN" ELSE "UP")
    <3>1. past(cs) = after(cs)
      <4> HIDE DEF d
      <4> QED BY <2>2
    <3>2. ClearedBy(cs, p, run) <=>
            (past(cs) # {} /\ Breaks(cs)[Min(past(cs))].way = IF p.side = "HIGH" THEN "DOWN" ELSE "UP")
      BY Zenon DEF ClearedBy
    <3> HIDE DEF past, after
    <3>3. Min(past(cs)) = Min(after(cs))
      BY <3>1, Zenon
    <3> QED BY <3>1, <3>2, <3>3
  <2> HIDE DEF d
  <2>6. /\ n \in Nat /\ m \in Nat /\ n <= m /\ DOMAIN Breaks(bs) = 1..n /\ DOMAIN Breaks(cs) = 1..m
        /\ \A k \in 1..n : Breaks(cs)[k] = Breaks(bs)[k]
    BY BreaksStay DEF SameBreaks
  <2> HIDE DEF n, m
  <2>7. /\ after(bs) \subseteq 1..n /\ after(cs) \subseteq 1..m
        /\ \A k \in 1..n : k \in after(cs) <=> k \in after(bs)
    BY <2>6
  <2> HIDE DEF after
  <2>8. after(bs) # {} /\ after(cs) # {} /\ 1 \in Int /\ n \in Int /\ m \in Int
    BY <2>4, <2>6, <2>7
  <2>9. Min(after(bs)) \in after(bs) /\ \A y \in after(bs) : Min(after(bs)) <= y
    BY <2>7, <2>8, EndsOf, Zenon
  <2>10. Min(after(cs)) \in after(cs) /\ \A y \in after(cs) : Min(after(cs)) <= y
    BY <2>7, <2>8, EndsOf, Zenon
  <2> DEFINE k == Min(after(bs))
             l == Min(after(cs))
  <2>11. l = k /\ k \in 1..n
    <3>1. k \in after(bs) /\ (\A y \in after(bs) : k <= y) /\ l \in after(cs) /\ \A y \in after(cs) : l <= y
      BY <2>9, <2>10
    <3> HIDE DEF k, l
    <3>2. k \in 1..n /\ k \in after(cs) /\ l \in 1..m
      BY <2>6, <2>7, <3>1
    <3>3. l <= k /\ l \in 1..n
      BY <2>6, <3>1, <3>2
    <3>4. k <= l
      BY <2>7, <3>1, <3>3
    <3> QED BY <3>2, <3>3, <3>4
  <2>12. Breaks(cs)[l] = Breaks(bs)[k]
    BY <2>6, <2>11
  <2>13. ClearedBy(cs, p, run)
    <3>1. Breaks(cs)[Min(after(cs))].way = Breaks(bs)[Min(after(bs))].way
      BY <2>12
    <3>2. Breaks(cs)[Min(after(cs))].way = IF p.side = "HIGH" THEN "DOWN" ELSE "UP"
      BY <2>4, <3>1, Zenon
    <3> QED BY <2>5, <2>8, <3>2, Zenon
  <2>14. Excursions(cs, p) # {} /\ \E r \in Excursions(cs, p) : ClearedBy(cs, p, r)
    BY <2>1, <2>13
  <2> QED BY <2>1, <2>14, Zenon DEF PoolState
<1> QED BY <1>4, <1>5

LEMMA BreakConsumes ==
  ASSUME NEW bs \in Seq(ClosedBars), NEW b \in Range(Breaks(bs))
  PROVE  [bar |-> b.bar, swing |-> b.swing] \in Consumptions(bs) /\ b.way = Way(b.swing)
<1>1. IsBreaks(bs, Breaks(bs))
  BY BreaksFacts
<1>2. PICK k \in DOMAIN Breaks(bs) : b = Breaks(bs)[k]
  BY DEF Range
<1>3. IsBreak(bs, Breaks(bs), k)
  BY <1>1, Zenon DEF IsBreaks
<1> QED BY <1>2, <1>3, Zenon DEF IsBreak

\* A broken level is of one break, and its touches are kept.
LEMMA TouchesGrow ==
  ASSUME NEW bs, NEW cs, OneMore(bs, cs),
         NEW f \in FlippedLevels(bs), NEW g \in FlippedLevels(cs), f.from = g.from
  PROVE  f.level = g.level /\ f.touches <= g.touches
<1> DEFINE hit(b, i, brk) == IF brk.way = "UP" THEN b[i].low <= brk.swing.price ELSE b[i].high >= brk.swing.price
           back(b, brk) == {i \in (brk.bar + 1)..Len(b) : hit(b, i, brk)}
           gone(b, brk) == \E i \in (brk.bar + 1)..Len(b) :
                             IF brk.way = "UP" THEN b[i].close < brk.swing.price ELSE b[i].close > brk.swing.price
           held(b) == {brk \in Range(Breaks(b)) : back(b, brk) # {} /\ ~gone(b, brk)}
           extreme(b, brk) == IF brk.way = "UP" THEN Min({b[i].low : i \in back(b, brk)})
                              ELSE Max({b[i].high : i \in back(b, brk)})
           flip(b, brk) == [level |-> brk.swing.price, from |-> brk.swing, touches |-> Cardinality(back(b, brk)),
                            extreme |-> extreme(b, brk)]
<1>0. /\ bs \in Seq(ClosedBars) /\ cs \in Seq(ClosedBars) /\ Len(bs) \in Nat /\ Len(cs) = Len(bs) + 1
      /\ \A i \in 1..Len(bs) : cs[i] = bs[i]
  BY DEF OneMore
<1>9. ASSUME NEW x, NEW y \in FlippedLevels(x)
      PROVE  \E brk \in Range(Breaks(x)) : y.level = brk.swing.price /\ y.from = brk.swing /\ y.touches = Cardinality(back(x, brk))
  <2>1. FlippedLevels(x) = {flip(x, brk) : brk \in held(x)}
    BY Zenon DEF FlippedLevels
  <2>2. held(x) \subseteq Range(Breaks(x))
    OBVIOUS
  <2> HIDE DEF held
  <2>3. PICK brk \in held(x) : y = flip(x, brk)
    <3> HIDE DEF flip
    <3> QED BY <1>9, <2>1
  <2> HIDE DEF back, extreme
  <2>4. y.level = brk.swing.price /\ y.from = brk.swing /\ y.touches = Cardinality(back(x, brk))
    BY <2>3
  <2> QED BY <2>2, <2>4
<1>1. PICK b \in Range(Breaks(bs)) : f.level = b.swing.price /\ f.from = b.swing /\ f.touches = Cardinality(back(bs, b))
  BY <1>9, Zenon
<1>2. PICK c \in Range(Breaks(cs)) : g.level = c.swing.price /\ g.from = c.swing /\ g.touches = Cardinality(back(cs, c))
  BY <1>9, Zenon
<1>3. b.swing = c.swing
  BY <1>1, <1>2
<1>4. b.bar = c.bar /\ b.way = c.way
  <2>1. [bar |-> b.bar, swing |-> b.swing] \in Consumptions(cs) /\ [bar |-> c.bar, swing |-> c.swing] \in Consumptions(cs)
    BY <1>0, BreakConsumes, ConsumptionsStay
  <2> DEFINE x == [bar |-> b.bar, swing |-> b.swing]
             y == [bar |-> c.bar, swing |-> c.swing]
  <2>2. x.swing = y.swing
    BY <1>3
  <2>3. x.bar = b.bar /\ y.bar = c.bar
    OBVIOUS
  <2>4. x = y
    <3> HIDE DEF x, y
    <3>1. x \in Consumptions(cs) /\ y \in Consumptions(cs)
      BY <2>1 DEF x, y
    <3> QED BY <1>0, <2>2, <3>1, ConsumedOnce
  <2>5. b.bar = c.bar
    <3> HIDE DEF x, y
    <3> QED BY <2>3, <2>4
  <2>6. b.way = Way(b.swing) /\ c.way = Way(c.swing)
    BY <1>0, BreakConsumes
  <2> QED BY <1>3, <2>5, <2>6
<1>5. b.bar \in 3..Len(bs)
  BY <1>0, BreakPlaced
<1>6. back(bs, b) \subseteq back(cs, c)
  <2> SUFFICES ASSUME NEW i \in back(bs, b) PROVE i \in back(cs, c)
    OBVIOUS
  <2>1. i \in (b.bar + 1)..Len(bs) /\ hit(bs, i, b)
    OBVIOUS
  <2>2. i \in (c.bar + 1)..Len(cs) /\ cs[i] = bs[i]
    BY <1>0, <1>4, <1>5, <2>1
  <2>3. hit(cs, i, c)
    BY <1>3, <1>4, <2>1, <2>2
  <2> QED BY <2>2, <2>3
<1>7. IsFiniteSet(back(cs, c))
  <2>1. c.bar + 1 \in Int /\ Len(cs) \in Int
    BY <1>0, <1>4, <1>5
  <2>2. IsFiniteSet((c.bar + 1)..Len(cs))
    BY <2>1, FS_Interval
  <2>3. back(cs, c) \in SUBSET ((c.bar + 1)..Len(cs))
    OBVIOUS
  <2> HIDE DEF back
  <2> QED BY <2>2, <2>3, FS_Subset
<1> HIDE DEF back
<1>8. Cardinality(back(bs, b)) <= Cardinality(back(cs, c))
  BY <1>6, <1>7, FS_Subset
<1> QED BY <1>1, <1>2, <1>3, <1>8

\* An order block stays where it was, and one that failed stays failed.
LEMMA BlocksStay ==
  ASSUME NEW bs, NEW cs, OneMore(bs, cs), NEW b \in Range(Breaks(bs))
  PROVE  /\ OriginCandle(bs, b) = OriginCandle(cs, b)
         /\ BlockState(bs, b) = "FAILED" => BlockState(cs, b) = "FAILED"
<1>0. /\ bs \in Seq(ClosedBars) /\ cs \in Seq(ClosedBars) /\ Len(bs) \in Nat /\ Len(cs) = Len(bs) + 1
      /\ \A i \in 1..Len(bs) : cs[i] = bs[i]
  BY DEF OneMore
<1>1. b.bar \in 3..Len(bs) /\ OriginCandle(bs, b) \in 1..Len(bs)
  BY <1>0, BreakPlaced
<1>2. OriginCandle(bs, b) = OriginCandle(cs, b)
  <2> DEFINE walked == Max({1, b.bar - WalkBack})..(b.bar - 1)
             other(x) == {i \in walked : OppositeColour(x[i], b.way)}
  <2>1. walked \subseteq 1..Len(bs)
    <3>1. 1 \in Int /\ b.bar - WalkBack \in Int
      BY <1>1, StructureAssumption
    <3>2. \A u \in Int : 1 <= Max({1, u}) /\ Max({1, u}) \in Int
      BY OfTwo
    <3>3. Max({1, b.bar - WalkBack}) \in Int /\ 1 <= Max({1, b.bar - WalkBack})
      BY <3>1, <3>2, Zenon
    <3> DEFINE q == Max({1, b.bar - WalkBack})
    <3> HIDE DEF q
    <3>4. q..(b.bar - 1) \subseteq 1..Len(bs)
      BY <1>0, <1>1, <3>3 DEF q
    <3> QED BY <3>4 DEF q
  <2>2. \A x : OriginCandle(x, b) = IF other(x) = {} THEN b.bar - 1 ELSE Max(other(x))
    BY Zenon DEF OriginCandle
  <2> HIDE DEF walked
  <2>3. other(bs) = other(cs)
    BY <1>0, <2>1
  <2> HIDE DEF other
  <2> QED BY <2>2, <2>3
<1>3. ASSUME BlockState(bs, b) = "FAILED" PROVE BlockState(cs, b) = "FAILED"
  <2> DEFINE o == OriginCandle(bs, b)
             gone(x, i) == IF b.way = "UP" THEN x[i].close < x[o].low ELSE x[i].close > x[o].high
  <2>1. \E i \in (o + 1)..Len(bs) : gone(bs, i)
    BY <1>3 DEF BlockState
  <2>2. o \in 1..Len(bs) /\ cs[o] = bs[o]
    BY <1>0, <1>1
  <2>3. PICK i \in (o + 1)..Len(bs) : gone(bs, i)
    BY <2>1
  <2>4. o = OriginCandle(cs, b)
    BY <1>2
  <2> HIDE DEF o
  <2>5. i \in (o + 1)..Len(cs) /\ cs[i] = bs[i]
    BY <1>0, <2>2
  <2>6. gone(cs, i)
    BY <2>2, <2>3, <2>5
  <2> QED BY <2>4, <2>5, <2>6, Zenon DEF BlockState
<1> QED BY <1>2, <1>3

LEMMA ReadAgain == ASSUME NEW bs, NEW cs, OneMore(bs, cs) PROVE Unrepainted(bs, cs)
<1>1. Swings(bs) \subseteq Swings(cs)
  BY SwingsStay
<1>2. IsPrefix(Breaks(bs), Breaks(cs))
  BY BreaksStay
<1>3. Imbalances(bs) \subseteq Imbalances(cs)
  BY ImbalancesStay
<1>4. Pools(bs) \subseteq Pools(cs)
  BY PoolsStay
<1>5. \A z \in Imbalances(bs) : FillState(bs, z) <= FillState(cs, z) /\ TestCount(bs, z) <= TestCount(cs, z)
  BY FillsGrow
<1>6. \A s \in Swings(bs) :
       /\ Strength(bs, s) = "WEAK" => Strength(cs, s) # "UNCONFIRMED"
       /\ Strength(bs, s) = "STRONG" /\ Strength(cs, s) = "UNCONFIRMED" =>
            \E t \in Swings(cs) \ Swings(bs) : t.kind = s.kind /\ t.at > s.at
  BY StrengthsStay
<1>7. \A p \in Pools(bs) :
       /\ PoolState(bs, p) # "UNTESTED" => PoolState(cs, p) # "UNTESTED"
       /\ \A run \in Excursions(bs, p) :
            Max(run) < Len(bs) /\ ClearedBy(bs, p, run) =>
              run \in Excursions(cs, p) /\ PoolState(cs, p) = "CONSUMED"
  BY SweepsStay
<1>8. \A f \in FlippedLevels(bs), g \in FlippedLevels(cs) :
       f.from = g.from => f.level = g.level /\ f.touches <= g.touches
  BY TouchesGrow
<1>9. \A b \in Range(Breaks(bs)) :
       /\ OriginCandle(bs, b) = OriginCandle(cs, b)
       /\ BlockState(bs, b) = "FAILED" => BlockState(cs, b) = "FAILED"
  BY BlocksStay
<1> QED BY <1>1, <1>2, <1>3, <1>4, <1>5, <1>6, <1>7, <1>8, <1>9, Zenon DEF Unrepainted

\* The box is that of the first of the breaks at the bar of the last.
LEMMA BoxOfLatest ==
  ASSUME NEW x \in Seq(ClosedBars), Breaks(x) # <<>>
  PROVE  \E k \in 1..Len(Breaks(x)) :
           /\ LatestBox(x) = Box(x, Breaks(x)[k]) /\ Breaks(x)[k].bar = Breaks(x)[Len(Breaks(x))].bar
           /\ \A j \in 1..Len(Breaks(x)) : Breaks(x)[j].bar = Breaks(x)[k].bar => k <= j
<1> DEFINE brks == Breaks(x)
           n == Len(brks)
           last == {k \in DOMAIN brks : brks[k].bar = brks[n].bar}
<1>1. n \in Nat /\ DOMAIN brks = 1..n /\ n \in 1..n
  <2>1. \E S : brks \in Seq(S)
    BY BreaksFacts, Zenon DEF IsBreaks
  <2>2. brks # <<>>
    OBVIOUS
  <2> HIDE DEF brks
  <2> QED BY <2>1, <2>2
<1>2. LatestBox(x) = Box(x, brks[Min(last)])
  BY Zenon DEF LatestBox
<1> HIDE DEF brks, n
<1>3. last # {} /\ last \subseteq 1..n /\ 1 \in Int /\ n \in Int
  BY <1>1
<1>4. \A k \in 1..n : k \in last <=> brks[k].bar = brks[n].bar
  BY <1>1
<1> HIDE DEF last
<1>5. Min(last) \in last /\ \A y \in last : Min(last) <= y
  BY <1>3, EndsOf, Zenon
<1>6. \E k \in 1..n : /\ LatestBox(x) = Box(x, brks[k]) /\ brks[k].bar = brks[n].bar
                      /\ \A j \in 1..n : brks[j].bar = brks[k].bar => k <= j
  <2> DEFINE k == Min(last)
  <2>1. k \in 1..n /\ brks[k].bar = brks[n].bar
    BY <1>3, <1>4, <1>5
  <2>2. \A j \in 1..n : brks[j].bar = brks[k].bar => k <= j
    BY <1>4, <1>5, <2>1
  <2> QED BY <1>2, <2>1, <2>2
<1> QED BY <1>6 DEF brks, n

\* While a break is the latest, its box stands.
LEMMA BoxStays ==
  ASSUME NEW bs, NEW cs, OneMore(bs, cs), LatestBox(bs) # NoBox, LatestBox(cs).born = LatestBox(bs).born
  PROVE  LatestBox(cs) = LatestBox(bs) /\ LatestBox(bs).born \in 3..Len(bs)
<1> DEFINE old == Breaks(bs)
           new == Breaks(cs)
           n == Len(old)
           m == Len(new)
<1>0. /\ bs \in Seq(ClosedBars) /\ cs \in Seq(ClosedBars) /\ Len(bs) \in Nat /\ Len(cs) = Len(bs) + 1
      /\ \A i \in 1..Len(bs) : cs[i] = bs[i]
  BY DEF OneMore
<1>1. /\ n \in Nat /\ m \in Nat /\ n <= m /\ DOMAIN old = 1..n
      /\ \A k \in 1..n : new[k] = old[k] /\ old[k].bar \in 1..Len(bs)
      /\ \A k \in 1..m : k > n => new[k].bar = Len(cs)
  BY BreaksStay DEF SameBreaks
<1>2. old # <<>>
  BY DEF LatestBox
<1>3. n # 0
  <2>1. \E S : old \in Seq(S)
    BY <1>0, BreaksFacts, Zenon DEF IsBreaks
  <2> HIDE DEF old
  <2> QED BY <1>2, <2>1
<1>4. new # <<>>
  <2> SUFFICES ASSUME new = <<>> PROVE FALSE
    OBVIOUS
  <2>1. m = 0
    OBVIOUS
  <2> HIDE DEF m, n
  <2> QED BY <1>1, <1>3, <2>1
<1>5. PICK k \in 1..n : /\ LatestBox(bs) = Box(bs, old[k]) /\ old[k].bar = old[n].bar
                        /\ \A j \in 1..n : old[j].bar = old[k].bar => k <= j
  BY <1>0, <1>2, BoxOfLatest, Zenon
<1>6. PICK l \in 1..m : /\ LatestBox(cs) = Box(cs, new[l]) /\ new[l].bar = new[m].bar
                        /\ \A j \in 1..m : new[j].bar = new[l].bar => l <= j
  BY <1>0, <1>4, BoxOfLatest, Zenon
<1> HIDE DEF n, m
<1>7. LatestBox(bs).born = old[k].bar /\ LatestBox(cs).born = new[l].bar
  BY <1>5, <1>6 DEF Box
<1>8. old[k] \in Range(Breaks(bs))
  BY <1>1 DEF Range
<1> DEFINE b == old[k]
<1>9. b.bar \in 3..Len(bs) /\ b.swing.at \in 2..Len(bs)
  <2>1. b \in Range(Breaks(bs))
    BY <1>8
  <2> HIDE DEF b
  <2>2. b.bar \in 3..Len(bs) /\ b.swing \in Swings(bs)
    BY <1>0, <2>1, BreakPlaced
  <2> QED BY <1>0, <2>2, SwingFacts
<1> HIDE DEF old, new
<1>10. n = m
  <2> SUFFICES ASSUME n # m PROVE FALSE
    OBVIOUS
  <2>1. m \in 1..m /\ m > n
    BY <1>1
  <2>2. new[m].bar = Len(cs)
    BY <1>1, <2>1
  <2> QED BY <1>0, <1>6, <1>7, <1>9, <2>2
<1>11. new[l] = old[l] /\ l \in 1..n /\ new[k] = old[k] /\ k \in 1..m
  BY <1>1, <1>10
<1>12. k = l
  <2>1. old[l].bar = old[k].bar
    BY <1>7, <1>11
  <2>2. k <= l
    BY <1>5, <1>11, <2>1
  <2>3. l <= k
    BY <1>6, <1>11, <2>1
  <2> QED BY <1>5, <1>6, <2>2, <2>3, <1>1
<1>13. LatestBox(cs) = Box(cs, b) /\ LatestBox(bs) = Box(bs, b)
  BY <1>5, <1>6, <1>11, <1>12
<1> HIDE DEF b
<1>14. Box(cs, b) = Box(bs, b)
  <2> DEFINE span == b.swing.at..b.bar
  <2>1. span \subseteq 1..Len(bs)
    BY <1>0, <1>9
  <2> HIDE DEF span
  <2>2. {cs[i].low : i \in span} = {bs[i].low : i \in span} /\ {cs[i].high : i \in span} = {bs[i].high : i \in span}
    BY <1>0, <2>1
  <2>3. \A x : Box(x, b) = [way |-> b.way, from |-> b.swing.at, born |-> b.bar,
                            low  |-> IF b.way = "UP" THEN Min({x[i].low : i \in span}) ELSE b.swing.price,
                            high |-> IF b.way = "UP" THEN b.swing.price ELSE Max({x[i].high : i \in span})]
    BY Zenon DEF Box, span
  <2> QED BY <2>2, <2>3, Zenon
<1>15. Box(bs, b).born = b.bar
  BY DEF Box
<1> QED BY <1>9, <1>13, <1>14, <1>15

LEMMA TakeFoundAgain == ASSUME NEW bs, NEW cs, OneMore(bs, cs) PROVE FoundAgain(bs, cs)
<1> DEFINE box == LatestBox(bs)
<1> SUFFICES ASSUME box # NoBox, LatestBox(cs).born = box.born
             PROVE  /\ LatestBox(cs) = box
                    /\ Fuel(bs, box) > 0 => Fuel(cs, box) > 0
                    /\ InnerSweep(bs, box) => InnerSweep(cs, box)
  BY Zenon DEF FoundAgain
<1>0. /\ bs \in Seq(ClosedBars) /\ cs \in Seq(ClosedBars) /\ Len(bs) \in Nat /\ Len(cs) = Len(bs) + 1
      /\ \A i \in 1..Len(bs) : cs[i] = bs[i]
  BY DEF OneMore
<1>1. LatestBox(cs) = box /\ box.born \in 3..Len(bs)
  BY BoxStays
<1>2. box # NoBox
  OBVIOUS
<1> HIDE DEF box
<1>3. \A i \in Pullback(bs, box) : i \in Pullback(cs, box) /\ cs[i] = bs[i]
  BY <1>0, <1>1 DEF Pullback
<1>4. ASSUME ImbalanceTap(bs, box) PROVE ImbalanceTap(cs, box)
  <2>1. Imbalances(bs) \subseteq Imbalances(cs)
    BY ImbalancesStay
  <2>2. PICK z \in Imbalances(bs), i \in Pullback(bs, box) :
          z.high >= box.low /\ z.low <= box.high /\ Touches(bs[i], z)
    BY <1>4, Zenon DEF ImbalanceTap
  <2>3. z \in Imbalances(cs) /\ i \in Pullback(cs, box) /\ Touches(cs[i], z)
    BY <1>3, <2>1, <2>2
  <2> QED BY <2>2, <2>3, Zenon DEF ImbalanceTap
<1>5. ASSUME InnerSweep(bs, box) PROVE InnerSweep(cs, box)
  <2> DEFINE swept(x, s, i) ==
        /\ box.from <= s.at /\ s.at <= box.born
        /\ IF box.way = "UP"
           THEN s.kind = "LOW" /\ s.price > box.low /\ x[i].low < s.price /\ x[i].low >= box.low
           ELSE s.kind = "HIGH" /\ s.price < box.high /\ x[i].high > s.price /\ x[i].high <= box.high
  <2>1. \A x : InnerSweep(x, box) <=> \E s \in Swings(x), i \in Pullback(x, box) : swept(x, s, i)
    BY Zenon DEF InnerSweep
  <2>2. PICK s \in Swings(bs), i \in Pullback(bs, box) : swept(bs, s, i)
    BY <1>5, <2>1
  <2>3. s \in Swings(cs) /\ i \in Pullback(cs, box) /\ cs[i] = bs[i]
    BY <1>3, SwingsStay
  <2>4. swept(cs, s, i)
    BY <2>2, <2>3
  <2> HIDE DEF swept
  <2> QED BY <2>1, <2>3, <2>4
<1>6. ASSUME Fuel(bs, box) > 0 PROVE Fuel(cs, box) > 0
  <2>1. ImbalanceTap(bs, box)
    <3> SUFFICES ASSUME ~ImbalanceTap(bs, box) PROVE FALSE
      OBVIOUS
    <3>1. Fuel(bs, box) = 0
      BY Zenon DEF Fuel
    <3> QED BY <1>6, <3>1
  <2> DEFINE T == {c \in {"sweep", "fake"} : IF c = "sweep" THEN InnerSweep(cs, box) ELSE FakeMSB(cs, box)}
  <2>2. Fuel(cs, box) = 1 + Cardinality(T)
    BY <1>2, <1>4, <2>1, Zenon DEF Fuel
  <2>3. Cardinality(T) \in Nat
    <3>1. T \subseteq {"sweep", "fake"}
      BY Zenon
    <3>2. IsFiniteSet({"sweep"}) 
      BY FS_Singleton
    <3>3. {"sweep", "fake"} = {"sweep"} \cup {"fake"}
      OBVIOUS
    <3>4. IsFiniteSet({"sweep", "fake"})
      BY <3>2, <3>3, FS_AddElement
    <3> HIDE DEF T
    <3> QED BY <3>1, <3>4, FS_Subset, FS_CardinalityType
  <2> HIDE DEF T
  <2> QED BY <2>2, <2>3
<1> QED BY <1>1, <1>4, <1>5, <1>6

\* What the rules read from closed bars is read again from every longer series, of
\* any bars and with any number of them beside a swing, and what was found of the
\* latest break is found again (prim_001 to prim_007, evaluator).
THEOREM ReadingsAreKept == StructureSpec => ReadingsStand
<1>1. StructureTypeOK /\ [BarCloses]_structureVars => [Len(series') > Len(series) => Unrepainted(series, series')]_series
  <2> SUFFICES ASSUME StructureTypeOK, BarCloses PROVE Unrepainted(series, series')
    BY DEF structureVars
  <2>1. OneMore(series, series')
    <3>1. PICK bar \in ClosedBars : series' = Append(series, bar)
      BY StructureAssumption DEF BarCloses
    <3> QED BY <3>1, Prolonged DEF StructureTypeOK
  <2> QED BY <2>1, ReadAgain
<1>2. StructureTypeOK /\ [BarCloses]_structureVars => [Len(series') > Len(series) => FoundAgain(series, series')]_series
  <2> SUFFICES ASSUME StructureTypeOK, BarCloses PROVE FoundAgain(series, series')
    BY DEF structureVars
  <2>1. OneMore(series, series')
    <3>1. PICK bar \in ClosedBars : series' = Append(series, bar)
      BY StructureAssumption DEF BarCloses
    <3> QED BY <3>1, Prolonged DEF StructureTypeOK
  <2> QED BY <2>1, TakeFoundAgain
<1>3. StructureSpec => []StructureTypeOK
  BY StructureTyped
<1> QED BY <1>1, <1>2, <1>3, PTL DEF StructureSpec, ReadingsStand, StructureNeverRepaints, TakeStands
=============================================================================
