----------------------------- MODULE EntryOrder -----------------------------
(***************************************************************************)
(* One market entry from the strategy's signal to the engine's book: the   *)
(* reference price and the size (execution/service.py, reference.py), the  *)
(* pre-send record, the order at the venue and what its answer is taken to *)
(* mean (broker/alpaca.py, live/crypto_loop.py).  The simulators fill at   *)
(* the mark and report no filled quantity; Alpaca takes its fee in kind,   *)
(* fills in parts, and is measured by the position before and after.  Its  *)
(* protocol below the answer is AlpacaAccount, the records EntryRecord.    *)
(***************************************************************************)
EXTENDS Integers

CONSTANTS
  Venues,      \* of {"alpaca", "simulator"}: what the loop may be bound to
  Signals,     \* [dir, entry, stop]: what the strategy may ask for
  MarkReads,   \* [price, age]: the loop's Binance mark, when the order is sized
  QuoteReads,  \* [price, age]: the venue's quote and its own time stamp
  Budgets,     \* equity times risk_pct
  MarkMaxAge, QuoteMaxAge,
  DriftsPerR,  \* one over max_entry_drift_r
  MinNotional, Increment, MinSize,
  FeePart,     \* a buy of FeePart units pays one of them as the fee
  UnitsWindow, \* OPENED_UNITS_WINDOW
  OtherTrades, \* what somebody else may trade on the account
  MaxOthers,   \* bound on their number
  MaxSignals   \* bound on the signals of a run

ASSUME OrderAssumption ==
  /\ Venues \subseteq {"alpaca", "simulator"}
  /\ {DriftsPerR, Increment, FeePart} \subseteq Nat \ {0}
  /\ {MarkMaxAge, QuoteMaxAge, MinNotional, MinSize, UnitsWindow, MaxOthers, MaxSignals} \subseteq Nat
  /\ Budgets \subseteq Nat /\ OtherTrades \subseteq Int
  /\ Signals \subseteq [dir : {"LONG", "SHORT"}, entry : Int, stop : Int]
  /\ MarkReads \union QuoteReads \subseteq [price : Int, age : Int]

VARIABLES
  bound,      \* the venue of the run
  attempt,    \* execute() under way: [at, sig, ref, budget, lot, before], or NoAttempt
  placed,     \* the order the venue holds: [qty, filled, open, away, budget], or NoOrder
  account,    \* units of the pair on the account
  reply,      \* the last result: [status, filled, units, held, within]
  tracked,       \* units the engine has booked
  outcome,    \* of the last signal's DecisionRecord; "none": there is no row
  stopped,    \* the halt in force, or "no"
  presend,    \* _presend_failing
  own,        \* history: what the engine's orders added to the account
  grown,       \* history: how much of it after the account was last read
  others,     \* history: trades of somebody else
  signals     \* signals so far

tradeVars == <<tracked, outcome, stopped, presend>>
historyVars == <<own, grown, others, signals>>
orderVars == <<bound, attempt, placed, account, reply, tradeVars, historyVars>>

NoAttempt == [at |-> "no"]
NoOrder == [qty |-> 0, filled |-> 0, open |-> FALSE, away |-> 0, budget |-> 0]
NoRead == -1   \* no price, or none that can be used
Unread == -1   \* the key is there and its value is None
Absent == -2   \* the key is not there
NoReply == [status |-> "none", filled |-> Absent, units |-> Absent, held |-> Absent, within |-> "unknown"]

Away(a, b) == IF a < b THEN b - a ELSE a - b

-----------------------------------------------------------------------------
(* Price and size. *)

\* A simulator evaluates a bar only in a pass that read its mark.
MarkRead(mark) == bound = "simulator" => mark.price # NoRead

\* get_account of Alpaca fails where the equity or the cash is missing.
EquityRead(readable) == bound = "simulator" => readable

\* The quote carries the venue's own time stamp; one from the future is no quote.
QuoteUsable(quote) == quote.price # NoRead /\ quote.age \in 0..QuoteMaxAge

\* choose_reference: the live mark, or the venue's quote; never a stale one.
ChooseReference(mark, quote) ==
  IF mark.price # NoRead /\ mark.age <= MarkMaxAge THEN mark.price
  ELSE IF QuoteUsable(quote) THEN quote.price ELSE NoRead

\* A simulator has no quote: it fills at the mark, however old.
ReferencePrice(mark, quote) ==
  IF bound = "simulator" THEN mark.price ELSE ChooseReference(mark, quote)

\* Mutant: sized at the level the strategy named, filled at the market.
SizeAtLevel(budget, sig, ref) == budget \div Away(sig.entry, sig.stop)

SizePosition(budget, sig, ref) == budget \div Away(ref, sig.stop)

Drifted(sig, ref) == Away(ref, sig.entry) * DriftsPerR > Away(sig.entry, sig.stop)

ThroughStop(sig, ref) ==
  IF sig.dir = "LONG" THEN ref <= sig.stop ELSE ref >= sig.stop

\* The refusals of execute() that send nothing; the notional minimum is Alpaca's.
Refused(sig, ref, budget) ==
  \/ ref <= 0 \/ sig.entry = sig.stop
  \/ Drifted(sig, ref) \/ ThroughStop(sig, ref)
  \/ SizePosition(budget, sig, ref) <= 0
  \/ bound = "alpaca" /\ SizePosition(budget, sig, ref) * ref < MinNotional

\* The quantity grid of the asset: never up.
Quantised(lot) == (lot \div Increment) * Increment

\* Every venue of the loop is long only; below the asset's minimum nothing is sent.
Accepts(a) ==
  /\ a.sig.dir = "LONG"
  /\ bound = "alpaca" => Quantised(a.lot) >= MinSize

-----------------------------------------------------------------------------
(* What a reply means. *)

FillStatuses == {"FILLED", "PARTIALLY_FILLED"}

\* _order_result: an order that ended on a readable quantity is a closed partial, or
\* refused; everything that is not known is neither.
StatusOf(order, filled) ==
  CASE order.filled = order.qty -> "FILLED"
    [] order.open /\ order.filled \in 1..(order.qty - 1) -> "PARTIALLY_FILLED"
    [] ~order.open /\ order.filled < order.qty /\ filled > 0 -> "PARTIALLY_FILLED"
    [] ~order.open /\ order.filled < order.qty /\ filled = 0 -> "REJECTED"
    [] OTHER -> "NOT_KNOWN"

\* classify_order_status
KindOf(status) ==
  CASE status \in FillStatuses -> "filled"
    [] status = "REJECTED" -> "refused"
    [] OTHER -> "unresolved"

Positive(n) == IF n > 0 THEN n ELSE Unread

\* Mutant: what was filled stands in for a holding that could not be read.
FilledStandsIn(r) ==
  IF r.held > 0 THEN r.held ELSE IF r.filled # Absent THEN Positive(r.filled) ELSE Positive(r.units)

\* _position_units: the measured holding where there is one, then what the venue says it
\* filled, and what was asked only where a venue reports neither.
PositionUnits(r) ==
  IF r.held # Absent THEN Positive(r.held)
  ELSE IF r.filled # Absent THEN Positive(r.filled)
  ELSE IF r.status = "FILLED" THEN Positive(r.units) ELSE Unread

\* What a buy adds to the account.
NetOf(n) == n - n \div FeePart

\* _with_opened_units: the position moved by the fill less the fee, or it did not; None
\* where the fill was not readable.
Within(filled, delta) ==
  IF filled = Unread THEN "unknown"
  ELSE IF Away(NetOf(filled), delta) <= UnitsWindow THEN "yes" ELSE "no"

-----------------------------------------------------------------------------
Ends(row) == attempt' = NoAttempt /\ outcome' = row

\* The order of the attempt: open until it is filled.
OrderOf(qty, filled) ==
  [qty |-> qty, filled |-> filled, open |-> filled < qty,
   away |-> Away(attempt.ref, attempt.sig.stop), budget |-> attempt.budget]

\* The strategy has a signal and no gate blocks it: sized from what can be read now, or
\* refused with a row.  readable: get_account answers with its equity.
Take(sig, mark, quote, budget, readable) ==
  LET ref == ReferencePrice(mark, quote)
  IN  /\ attempt = NoAttempt /\ stopped = "no" /\ tracked = 0
      /\ signals < MaxSignals /\ signals' = signals + 1
      /\ MarkRead(mark) /\ EquityRead(readable)
      /\ IF readable /\ ~Refused(sig, ref, budget)
         THEN /\ attempt' = [at |-> "sized", sig |-> sig, ref |-> ref, budget |-> budget,
                             lot |-> SizePosition(budget, sig, ref), before |-> 0]
              /\ UNCHANGED outcome
         ELSE Ends("REJECTED")
      /\ reply' = NoReply
      /\ UNCHANGED <<bound, placed, account, tracked, stopped, presend, own, grown, others>>

\* before_send: the identity is durable before the order can be.
WriteSubmitting ==
  /\ attempt.at = "sized"
  /\ attempt' = [attempt EXCEPT !.at = "written"]
  /\ outcome' = "SUBMITTING" /\ presend' = FALSE
  /\ UNCHANGED <<bound, placed, account, reply, tracked, stopped, historyVars>>

\* It failed: nothing is sent, there is no row and no halt.
PresendFails ==
  /\ attempt.at = "sized"
  /\ Ends("none") /\ presend' = TRUE
  /\ UNCHANGED <<bound, placed, account, reply, tracked, stopped, historyVars>>

\* place_order refuses before it sends: the direction, the size, the kill switch, a
\* prop-firm rule, an asset or a position that cannot be read.
RefusedUnplaced ==
  /\ attempt.at = "written"
  /\ Ends("REJECTED")
  /\ UNCHANGED <<bound, placed, account, reply, tracked, stopped, presend, historyVars>>

\* A simulator fills the whole order at the mark.
FillAtMark ==
  /\ bound = "simulator" /\ attempt.at = "written" /\ Accepts(attempt)
  /\ placed' = OrderOf(attempt.lot, attempt.lot)
  /\ account' = account + attempt.lot /\ own' = own + attempt.lot
  /\ reply' = [NoReply EXCEPT !.status = "FILLED", !.units = attempt.lot]
  /\ attempt' = [attempt EXCEPT !.at = "answered"]
  /\ UNCHANGED <<bound, tradeVars, grown, others, signals>>

\* The position is read and the order submitted; the venue may not create it.
Submit(created) ==
  /\ bound = "alpaca" /\ attempt.at = "written" /\ Accepts(attempt)
  /\ attempt' = [attempt EXCEPT !.at = "submitted", !.before = account]
  /\ placed' = IF created THEN OrderOf(Quantised(attempt.lot), 0) ELSE NoOrder
  /\ UNCHANGED <<bound, account, reply, tradeVars, historyVars>>

\* The venue fills some of it, before or after the engine has read its answer.
Fill(n) ==
  /\ placed.open /\ placed.filled + n <= placed.qty
  /\ placed' = [placed EXCEPT !.filled = @ + n, !.open = placed.filled + n < placed.qty]
  /\ account' = account + NetOf(n) /\ own' = own + NetOf(n)
  /\ grown' = IF attempt.at \in {"submitted", "verdict"} THEN grown ELSE grown + NetOf(n)
  /\ UNCHANGED <<bound, attempt, reply, tradeVars, others, signals>>

\* Canceled, expired or rejected.
OrderEnds ==
  /\ placed.open
  /\ placed' = [placed EXCEPT !.open = FALSE]
  /\ UNCHANGED <<bound, attempt, account, reply, tradeVars, historyVars>>

\* Somebody else trades the pair on this account.
OtherTrade(n) ==
  /\ bound = "alpaca" /\ others < MaxOthers /\ account + n >= 0
  /\ account' = account + n /\ others' = others + 1
  /\ UNCHANGED <<bound, attempt, placed, reply, tradeVars, own, grown, signals>>

\* The submission failed and the venue proved that there is no order.
NotCreated ==
  /\ attempt.at = "submitted" /\ placed = NoOrder
  /\ Ends("REJECTED")
  /\ UNCHANGED <<bound, placed, account, reply, tracked, stopped, presend, historyVars>>

\* It failed, and whether there is an order could not be established.
Unconfirmed ==
  /\ attempt.at = "submitted"
  /\ reply' = [NoReply EXCEPT !.status = "SUBMISSION_UNCONFIRMED", !.filled = Unread]
  /\ attempt' = [attempt EXCEPT !.at = "answered"]
  /\ UNCHANGED <<bound, placed, account, tradeVars, historyVars>>

\* _verdict_for_placed: the last state of the order the resolver read, terminal or not.
ReadVerdict(readable) ==
  LET filled == IF readable THEN placed.filled ELSE Unread
      status == StatusOf(placed, filled)
  IN  /\ attempt.at = "submitted" /\ placed # NoOrder
      /\ reply' = [status |-> status, filled |-> filled, units |-> placed.qty,
                   held |-> Absent, within |-> "unknown"]
      /\ attempt' = [attempt EXCEPT !.at = IF status \in FillStatuses THEN "verdict" ELSE "answered"]
      /\ UNCHANGED <<bound, placed, account, tradeVars, historyVars>>

\* The position after a fill, or that it could not be read.
ReadAfter(readable) ==
  LET delta == account - attempt.before
  IN  /\ attempt.at = "verdict"
      /\ reply' = IF readable
                  THEN [reply EXCEPT !.held = Positive(delta), !.within = Within(reply.filled, delta)]
                  ELSE [reply EXCEPT !.held = Unread]
      /\ attempt' = [attempt EXCEPT !.at = "answered"]
      /\ UNCHANGED <<bound, placed, account, tradeVars, historyVars>>

Halt(why, row) == stopped' = why /\ outcome' = row /\ UNCHANGED tracked

\* The three outcomes of _tick_symbol, the two halts of a fill first.
Answer ==
  LET kind  == KindOf(reply.status)
      units == PositionUnits(reply)
  IN  /\ attempt.at = "answered" /\ attempt' = NoAttempt
      /\ CASE kind = "filled" /\ reply.within = "no" -> Halt("UNITS_DISAGREE", "UNSIZED_FILL")
           [] kind = "filled" /\ reply.within # "no" /\ units = Unread -> Halt("PARTIAL_UNSIZED", "UNSIZED_FILL")
           [] kind = "filled" /\ reply.within # "no" /\ units # Unread ->
                tracked' = tracked + units /\ outcome' = "OPEN" /\ UNCHANGED stopped
           [] kind = "refused" -> outcome' = "REJECTED" /\ UNCHANGED <<tracked, stopped>>
           [] OTHER -> Halt("UNRESOLVED", "SUBMITTING")
      /\ UNCHANGED <<bound, placed, account, reply, presend, historyVars>>

OrderInit ==
  /\ bound \in Venues
  /\ attempt = NoAttempt /\ placed = NoOrder /\ account = 0 /\ reply = NoReply
  /\ tracked = 0 /\ outcome = "none" /\ stopped = "no" /\ presend = FALSE
  /\ own = 0 /\ grown = 0 /\ others = 0 /\ signals = 0

OrderNext ==
  \/ \E s \in Signals, m \in MarkReads, q \in QuoteReads, b \in Budgets, r \in BOOLEAN : Take(s, m, q, b, r)
  \/ WriteSubmitting \/ PresendFails
  \/ RefusedUnplaced \/ FillAtMark \/ \E c \in BOOLEAN : Submit(c)
  \/ Fill(FeePart) \/ OrderEnds \/ \E n \in OtherTrades : OtherTrade(n)
  \/ NotCreated \/ Unconfirmed \/ \E r \in BOOLEAN : ReadVerdict(r) \/ ReadAfter(r)
  \/ Answer

OrderSpec == OrderInit /\ [][OrderNext]_orderVars

-----------------------------------------------------------------------------
OrderTypeOK ==
  /\ attempt.at \in {"no", "sized", "written", "submitted", "verdict", "answered"}
  /\ account \in Nat /\ own \in Nat /\ grown \in 0..own
  /\ outcome \in {"none", "SUBMITTING", "OPEN", "REJECTED", "UNSIZED_FILL"}
  /\ stopped \in {"no", "UNITS_DISAGREE", "PARTIAL_UNSIZED", "UNRESOLVED"}
  /\ presend \in BOOLEAN

\* Somebody traded while the venue would not say what it filled, or while the order filled
\* more than it had said: nothing to compare with.
NothingToCompare ==
  others > 0 /\ (reply.filled = Unread \/ NetOf(reply.filled) # own - grown)

\* However the venue fills and whatever can be read of it, once an entry is over and the
\* engine goes on trading, its book holds what its orders had bought when the account was
\* read (_position_units, units_check), and a row that says refused, or none at all, means
\* that nothing was bought, then or later.
BoughtIsTracked ==
  attempt = NoAttempt /\ stopped = "no" =>
    /\ Away(tracked, own - grown) <= UnitsWindow \/ NothingToCompare
    /\ outcome \in {"REJECTED", "none"} => own = 0

\* What an order puts at risk between its price and the stop is never more than the part of
\* the equity it was sized for, wherever the market was (execute, B280).
RiskWithinBudget == placed.qty * placed.away <= placed.budget

\* The entry does what its record says.
EntryTellsTruth == BoughtIsTracked /\ RiskWithinBudget
=============================================================================
