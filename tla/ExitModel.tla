----------------------------- MODULE ExitModel -----------------------------
(***************************************************************************)
(* How a trade ends: EXIT-001 walked over a path of prices, checked by     *)
(* EXIT-002 (services/rules/exit_001_v1_model.py, exit_002_ladder_off.py), *)
(* and the same path through the live loop on the paper venue, which banks *)
(* the partial before it advances the venue (crypto_loop._take_partials).  *)
(* Sizes are tenths of the position; a pass comes every hour or later.     *)
(***************************************************************************)
EXTENDS Integers, Sequences, FiniteSets, SequencesExt

CONSTANTS
  Trades,        \* [way, entry, stop, target]: way is 1 for a long, -1 for a short
  ExitPrices,    \* the prices of a path
  MaxTicks,      \* bound on the length of a path
  CloseHour,     \* DECLARED_SESSION_CLOSE, of a day of DayHours
  DayHours,
  FirstHours,    \* when a path may start
  Gaps           \* hours from one pass to the next: more than one while the loop is down

ASSUME ExitAssumption ==
  /\ Trades \subseteq [way : {1, -1}, entry : Int, stop : Int, target : Int]
  /\ CloseHour \in 0..(DayHours - 1) /\ FirstHours \subseteq Nat /\ Gaps \subseteq Nat \ {0}
  /\ ExitPrices \subseteq Int

VARIABLES
  trade,    \* the plan of the position
  hours,    \* the hours of the path's ticks so far
  exits,    \* what the model has closed: [at, tenths, price, reason]
  banked,   \* what the loop has closed on the paper venue
  lastMark      \* the price at which the paper venue would settle now

exitVars == <<trade, hours, exits, banked, lastMark>>

-----------------------------------------------------------------------------
(* TradePlan. *)

Risk(p) == (p.entry - p.stop) * p.way
PartialLevel(p) == p.entry + 2 * (p.entry - p.stop)
Beyond(p, price, level) == (price - level) * p.way >= 0
AtOrWorse(p, price, level) == (level - price) * p.way >= 0
RunnerDistance(p) == (p.target - PartialLevel(p)) * p.way

\* What the constructor accepts: R is positive, the target not inside the 2R level.
Plannable(p) == Risk(p) > 0 /\ RunnerDistance(p) >= 0
NothingLeftToRun(p) == RunnerDistance(p) <= 0

\* What the decision trace says of a plan.
TrancheRecord(p) == [planned |-> Plannable(p), degenerate |-> Plannable(p) /\ NothingLeftToRun(p)]

-----------------------------------------------------------------------------
(* Exits. *)

Exit(at, tenths, price, reason) == [at |-> at, tenths |-> tenths, price |-> price, reason |-> reason]
Terminal == {"STOP_HIT", "FINAL_TARGET", "SESSION_CLOSE"}

\* The exits for these reasons, by their place.
Of(evs, reasons) == {k \in DOMAIN evs : evs[k].reason \in reasons}
Partials(evs) == Of(evs, {"PARTIAL_2R"})
Terminals(evs) == Of(evs, Terminal)
Out(evs) == SumFunctionOnSet([k \in DOMAIN evs |-> evs[k].tenths], DOMAIN evs)
Left(evs) == 10 - Out(evs)

\* EXIT-002: more than one partial and one runner.
LadderViolations(evs) ==
  {v \in {"MULTIPLE_PARTIALS", "MULTIPLE_TERMINALS", "TOO_MANY_TRANCHES", "OVERSIZED_EXIT"} :
     CASE v = "MULTIPLE_PARTIALS"  -> Cardinality(Partials(evs)) > 1
       [] v = "MULTIPLE_TERMINALS" -> Cardinality(Terminals(evs)) > 1
       [] v = "TOO_MANY_TRANCHES"  -> Len(evs) > 2
       [] v = "OVERSIZED_EXIT"     -> Out(evs) > 10}

\* The first close after an hour; an hour on the close belongs to the day it opens.
NextSessionClose(hour) ==
  LET today == (hour \div DayHours) * DayHours + CloseHour
  IN  IF today > hour THEN today ELSE today + DayHours

\* One tick of EXIT-001: the partial once, then the first terminal condition.
Simulate(p, evs, at, close, price) ==
  LET paid == IF Partials(evs) = {} /\ Beyond(p, price, PartialLevel(p))
              THEN Append(evs, Exit(at, 7, price, "PARTIAL_2R")) ELSE evs
      ends == IF AtOrWorse(p, price, p.stop) THEN {"STOP_HIT"}
              ELSE IF Beyond(p, price, p.target) THEN {"FINAL_TARGET"}
              ELSE IF at >= close THEN {"SESSION_CLOSE"} ELSE {}
  IN  IF Left(evs) = 0 THEN evs
      ELSE IF ends = {} THEN paid
      ELSE Append(paid, Exit(at, Left(paid), price, CHOOSE why \in ends : TRUE))

-----------------------------------------------------------------------------
(* The live loop on the paper venue. *)

\* Mutant: what was banked before is not asked.
TakeAlways(p, evs, at, price) ==
  IF Beyond(p, price, PartialLevel(p)) /\ Left(evs) > 0
  THEN Append(evs, Exit(at, (7 * Left(evs)) \div 10, lastMark, "PARTIAL_2R")) ELSE evs

\* The level is compared with the price of this pass; the venue settles at the
\* mark of the last one.
TakePartials(p, evs, at, price) ==
  IF Partials(evs) = {} /\ Left(evs) = 10 /\ Beyond(p, price, PartialLevel(p))
  THEN Append(evs, Exit(at, 7, lastMark, "PARTIAL_2R")) ELSE evs

\* on_tick: the signal has no target, the session's flatten is suppressed, and
\* the stop settles at its own level.
TickStops(p, evs, at, price) ==
  IF Left(evs) > 0 /\ AtOrWorse(p, price, p.stop)
  THEN Append(evs, Exit(at, Left(evs), p.stop, "STOP_HIT")) ELSE evs

PriceComes ==
  /\ Len(hours) < MaxTicks
  /\ \E price \in ExitPrices, at \in IF hours = <<>> THEN FirstHours ELSE {Last(hours) + g : g \in Gaps} :
       LET close == NextSessionClose(IF hours = <<>> THEN at ELSE hours[1])
       IN  /\ hours' = Append(hours, at)
           /\ exits' = Simulate(trade, exits, at, close, price)
           /\ banked' = TickStops(trade, TakePartials(trade, banked, at, price), at, price)
           /\ lastMark' = price
  /\ UNCHANGED trade

ExitInit ==
  /\ trade \in {p \in Trades : Plannable(p)}
  /\ hours = <<>> /\ exits = <<>> /\ banked = <<>> /\ lastMark = trade.entry

ExitSpec == ExitInit /\ [][PriceComes]_exitVars

ExitTypeOK ==
  /\ trade \in Trades /\ Plannable(trade) /\ lastMark \in Int
  /\ {e.reason : e \in Range(exits) \union Range(banked)} \subseteq Terminal \union {"PARTIAL_2R"}

-----------------------------------------------------------------------------
(* Properties. *)

Sized(evs) == [k \in DOMAIN evs |-> [at |-> evs[k].at, tenths |-> evs[k].tenths, reason |-> evs[k].reason]]

\* The model and the loop end a trade alike: each in at most one partial and one
\* runner, a closed trade out whole with one reason, and until EXIT-001 ends it at
\* a target or a session the loop has closed the same sizes at the same passes.
ExitsAgree ==
  /\ LadderViolations(exits) = {} /\ LadderViolations(banked) = {}
  /\ \A evs \in {exits, banked} : (Left(evs) = 0) <=> (Terminals(evs) # {})
  /\ Of(exits, {"FINAL_TARGET", "SESSION_CLOSE"}) = {} => Sized(exits) = Sized(banked)

\* "Bank EXIT-001's 70% when price reaches the 2R level": what is banked is worth
\* the level.  It is settled at the mark of the pass before, which was short of it.
PartialBanksItsLevel ==
  \A e \in Range(banked) : e.reason = "PARTIAL_2R" => Beyond(trade, e.price, PartialLevel(trade))
=============================================================================
