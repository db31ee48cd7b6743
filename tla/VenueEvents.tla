----------------------------- MODULE VenueEvents -----------------------------
(***************************************************************************)
(* The position manager of one engine position on a venue broker           *)
(* (services/live/position_events.py, VenueEvents) with the writes of its   *)
(* settles (services/live/crypto_loop.py).  One pass at a time: the         *)
(* quantity held is read, failed writes are retried, an unresolved close is *)
(* looked up, and then one close may be sent, sized from that reading.      *)
(* Between any two of its awaits the venue fills orders, a person (or the   *)
(* kill switch) sells on the same account, and the write tasks end.         *)
(*                                                                         *)
(* Blind, stop and take-profit closes differ in their trigger only: STOP    *)
(* stands for the three.  Quantities are whole multiples of the venue's     *)
(* increment.  Alerts, entry blocks and halts are left out.                 *)
(***************************************************************************)
EXTENDS Integers, FiniteSets, Functions

CONSTANTS
    Opened,          \* units the engine's entry opened
    Foreign,         \* units of the same symbol that are not the engine's
    MinOrder,        \* the venue's min_order_size
    PartialPercent,  \* partial_fraction
    MaxAttempts,     \* bound: PROFIT_ATTEMPT_MAX and PROTECTIVE_ATTEMPT_MAX
    LateOrders,      \* may an order appear after the venue said it has none?
    NoClose

Legs == {"PARTIAL", "STOP"}
Ids  == Legs \X (1..MaxAttempts)        \* close_client_order_id
External == <<"external", 0>>
Keys == Ids \cup {External}             \* what a settle is keyed by

ASSUME UnitsAssumption ==
    /\ Opened \in Nat \ {0} /\ Foreign \in Nat /\ MinOrder \in Nat \ {0}
    /\ PartialPercent \in 0..100 /\ MaxAttempts \in Nat \ {0}
    /\ LateOrders \in BOOLEAN /\ NoClose \notin Ids

VARIABLES
    held,        \* the venue: quantity of the symbol, the engine's and foreign
    state,       \* the venue: where each close order is
    qty,         \* the venue: its quantity
    filled,      \* the venue: how much of it filled
    engineSold,  \* the venue: all that close orders ever filled
    othersSold,  \* the venue: all that anyone else sold
    pc,          \* where the pass is
    seen,        \* venue_qty, read at the start of the pass
    sending,     \* the close place_close is working on
    units,       \* EnginePosition.units
    attempts,    \* EnginePosition.attempts
    partial,     \* partial_taken and partial_skipped
    pending,     \* EnginePosition.pending_close
    settled,     \* units each settle took off the position
    write,       \* unpriced, in_flight and the rows written, by settle
    resolved     \* the decision left the book

venueVars == <<held, state, qty, filled, engineSold, othersSold>>
bookVars  == <<units, attempts, partial, pending, settled, write, resolved>>
vars == <<venueVars, pc, seen, sending, bookVars>>

OrderStates == {"none", "sent", "absent", "working", "done"}
WriteStates == {"none", "unpriced", "writing", "failed", "written"}

TypeOK ==
    /\ held \in 0..(Opened + Foreign) /\ seen \in 0..(Opened + Foreign)
    /\ state \in [Ids -> OrderStates]
    /\ qty \in [Ids -> 0..(Opened + Foreign)] /\ filled \in [Ids -> 0..(Opened + Foreign)]
    /\ engineSold \in 0..(Opened + Foreign) /\ othersSold \in 0..(Opened + Foreign)
    /\ pc \in {"idle", "price", "follow", "decide", "closing"}
    /\ sending \in Ids \cup {NoClose} /\ pending \in Ids \cup {NoClose}
    /\ units \in 0..Opened
    /\ attempts \in [Legs -> 0..MaxAttempts]
    /\ partial \in {"open", "taken", "skipped"}
    /\ settled \in [Keys -> 0..Opened]
    /\ write \in [Keys -> WriteStates]
    /\ resolved \in BOOLEAN

Init ==
    /\ held = Opened + Foreign /\ seen = 0
    /\ state = [i \in Ids |-> "none"]
    /\ qty = [i \in Ids |-> 0] /\ filled = [i \in Ids |-> 0]
    /\ engineSold = 0 /\ othersSold = 0
    /\ pc = "idle" /\ sending = NoClose /\ pending = NoClose
    /\ units = Opened
    /\ attempts = [l \in Legs |-> 0]
    /\ partial = "open"
    /\ settled = [k \in Keys |-> 0]
    /\ write = [k \in Keys |-> "none"]
    /\ resolved = FALSE

Smaller(a, b) == IF a < b THEN a ELSE b
Unwritten(w)  == {k \in Keys : w[k] \in {"unpriced", "writing", "failed"}}

-----------------------------------------------------------------------------
(* The venue and the other sellers of the account. *)

\* An order the venue stores; it is refused at once when the account does not hold it.
Store(i) ==
    /\ state[i] = "sent"
    /\ state' = [state EXCEPT ![i] = IF qty[i] <= held THEN "working" ELSE "done"]
    /\ UNCHANGED <<held, qty, filled, engineSold, othersSold, pc, seen, sending, bookVars>>

Fill(i, n) ==
    /\ state[i] = "working" /\ n <= held /\ n <= qty[i] - filled[i]
    /\ filled' = [filled EXCEPT ![i] = @ + n]
    /\ held' = held - n
    /\ engineSold' = engineSold + n
    /\ state' = [state EXCEPT ![i] = IF filled'[i] = qty[i] THEN "done" ELSE "working"]
    /\ UNCHANGED <<qty, othersSold, pc, seen, sending, bookVars>>

\* Cancelled, expired or rejected, with what it filled so far.
EndOrder(i) ==
    /\ state[i] = "working"
    /\ state' = [state EXCEPT ![i] = "done"]
    /\ UNCHANGED <<held, qty, filled, engineSold, othersSold, pc, seen, sending, bookVars>>

OthersSell(n) ==
    /\ n <= held
    /\ held' = held - n
    /\ othersSold' = othersSold + n
    /\ UNCHANGED <<state, qty, filled, engineSold, pc, seen, sending, bookVars>>

-----------------------------------------------------------------------------
(* Settles and their writes. *)

\* Mutant: the whole order is taken off the position, filled or not.
SettleOrdered(i) ==
    LET n == Smaller(qty[i], units)
    IN  /\ units' = units - n
        /\ settled' = [settled EXCEPT ![i] = n]
        /\ partial' = IF i[1] = "PARTIAL" THEN "taken" ELSE partial
        /\ \E w \in {"unpriced", "writing"} : write' = [write EXCEPT ![i] = w]

\* _settle_fill: the filled units leave the position; without a readable price the write
\* waits for one.
SettleFill(i) ==
    LET n == Smaller(filled[i], units)
    IN  /\ units' = units - n
        /\ settled' = [settled EXCEPT ![i] = n]
        /\ partial' = IF i[1] = "PARTIAL" THEN "taken" ELSE partial
        /\ \E w \in {"unpriced", "writing"} : write' = [write EXCEPT ![i] = w]

\* Mutant: the markers are counted before the one just written is cleared.
ResolvesBefore(w) == units = 0 /\ Unwritten(write) = {} /\ pending = NoClose

\* Mutant: the final close resolves, whatever else is unwritten.
ResolvesOnUnits(w) == units = 0

\* settle_persisted: every unit closed, every fill written, nothing pending.
ResolvesNow(w) == units = 0 /\ Unwritten(w) = {} /\ pending = NoClose

\* The task of a settle ends: its row is committed, or the write failed and is kept.
WriteCommits(k) ==
    /\ write[k] = "writing"
    /\ write' = [write EXCEPT ![k] = "written"]
    /\ resolved' = (resolved \/ ResolvesNow(write'))
    /\ UNCHANGED <<venueVars, pc, seen, sending, units, attempts, partial, pending, settled>>

WriteFails(k) ==
    /\ write[k] = "writing"
    /\ write' = [write EXCEPT ![k] = "failed"]
    /\ UNCHANGED <<venueVars, pc, seen, sending, units, attempts, partial, pending, settled, resolved>>

-----------------------------------------------------------------------------
(* One pass: tick and _manage. *)

\* Mutant: a write that failed is not tried again.
RetryNone(w) == w

\* _retry_failed_settles.
RetryFailed(w) == [k \in Keys |-> IF w[k] = "failed" THEN "writing" ELSE w[k]]

\* The quantity is read (an unreadable one ends the pass with nothing decided).
ReadQuantity ==
    /\ pc = "idle" /\ ~resolved
    /\ units > 0 \/ Unwritten(write) # {} \/ pending # NoClose
    /\ seen' = held
    /\ write' = RetryFailed(write)
    /\ pc' = "price"
    /\ UNCHANGED <<venueVars, sending, units, attempts, partial, pending, settled, resolved>>

\* _price_unpriced: a price is read, from the order or from its own fills.
PriceRead(k) ==
    /\ pc = "price" /\ write[k] = "unpriced"
    /\ write' = [write EXCEPT ![k] = "writing"]
    /\ UNCHANGED <<venueVars, pc, seen, sending, units, attempts, partial, pending, settled, resolved>>

PricesDone ==
    /\ pc = "price"
    /\ pc' = IF pending = NoClose THEN "decide" ELSE "follow"
    /\ UNCHANGED <<venueVars, seen, sending, bookVars>>

\* _follow_pending_close: the lookup failed, or the order still works: the pass ends.
StillPending ==
    /\ pc = "follow"
    /\ pc' = "idle"
    /\ UNCHANGED <<venueVars, seen, sending, bookVars>>

\* The venue has no such order: "never created".  It stays so unless LateOrders.
NeverCreated ==
    /\ pc = "follow" /\ state[pending] \in {"sent", "absent"}
    /\ state' = [state EXCEPT ![pending] = IF LateOrders THEN @ ELSE "absent"]
    /\ pending' = NoClose
    /\ pc' = "decide"
    /\ UNCHANGED <<held, qty, filled, engineSold, othersSold, seen, sending,
                   units, attempts, partial, settled, write, resolved>>

PendingEnded ==
    /\ pc = "follow" /\ state[pending] = "done"
    /\ IF filled[pending] > 0 THEN SettleFill(pending)
                              ELSE UNCHANGED <<units, settled, partial, write>>
    /\ pending' = NoClose
    /\ pc' = "decide"
    /\ UNCHANGED <<venueVars, seen, sending, attempts, resolved>>

\* No level is hit, a resting order blocks the close, a read raised, nothing is left, the
\* close is below the minimum, or the attempts are used up.
DecideNothing ==
    /\ pc = "decide"
    /\ pc' = "idle"
    /\ UNCHANGED <<venueVars, seen, sending, bookVars>>

\* Mutant: the close is sized from what the venue holds.
AllHeld(leg) == seen

\* Never foreign units, never more than the venue held; a partial is quantised down.
CloseQty(leg) ==
    LET h == Smaller(units, seen)
    IN  IF leg = "PARTIAL" THEN (h * PartialPercent) \div 100 ELSE h

Triggered(leg) ==
    /\ pc = "decide" /\ units > 0 /\ seen >= MinOrder
    /\ leg = "PARTIAL" => partial = "open"

\* Mutant: the ceiling is compared one too late.
OneMoreAttempt(leg) == attempts[leg] <= MaxAttempts

\* _next_attempt: nothing is sent past the ceiling.
AttemptLeft(leg) == attempts[leg] < MaxAttempts

SkipPartial ==
    /\ Triggered("PARTIAL") /\ CloseQty("PARTIAL") < MinOrder
    /\ partial' = "skipped"
    /\ pc' = "idle"
    /\ UNCHANGED <<venueVars, seen, sending, units, attempts, pending, settled, write, resolved>>

\* _close: the symbol's resting orders are cancelled, the attempt is taken, the order leaves.
SendClose(leg) ==
    LET i == <<leg, attempts[leg] + 1>>
    IN  /\ Triggered(leg) /\ CloseQty(leg) >= MinOrder
        /\ AttemptLeft(leg)
        /\ attempts' = [attempts EXCEPT ![leg] = @ + 1]
        /\ state' = [j \in Ids |-> IF j = i THEN "sent"
                                   ELSE IF state[j] = "working" THEN "done" ELSE state[j]]
        /\ qty' = [qty EXCEPT ![i] = CloseQty(leg)]
        /\ sending' = i
        /\ pc' = "closing"
        /\ UNCHANGED <<held, filled, engineSold, othersSold, seen,
                       units, partial, pending, settled, write, resolved>>

\* Mutant: a refused close gives its number back.
RefusedGivesBack ==
    /\ pc = "closing" /\ state[sending] = "sent"
    /\ state' = [state EXCEPT ![sending] = "absent"]
    /\ attempts' = [attempts EXCEPT ![sending[1]] = @ - 1]
    /\ sending' = NoClose /\ pc' = "idle"
    /\ UNCHANGED <<held, qty, filled, engineSold, othersSold, seen,
                   units, partial, pending, settled, write, resolved>>

\* place_close raised: the venue answered that no order was made.  The attempt is spent.
CloseRefused ==
    /\ pc = "closing" /\ state[sending] = "sent"
    /\ state' = [state EXCEPT ![sending] = "absent"]
    /\ sending' = NoClose /\ pc' = "idle"
    /\ UNCHANGED <<held, qty, filled, engineSold, othersSold, seen, bookVars>>

\* _on_close_result, a final status: its fill is settled, or nothing filled.
CloseEnded ==
    /\ pc = "closing" /\ state[sending] = "done"
    /\ IF filled[sending] > 0 THEN SettleFill(sending)
                              ELSE UNCHANGED <<units, settled, partial, write>>
    /\ sending' = NoClose /\ pc' = "idle"
    /\ UNCHANGED <<venueVars, seen, attempts, pending, resolved>>

\* Mutant: an unresolved close is forgotten; the next pass sends the next attempt.
UnresolvedForgotten ==
    /\ pc = "closing"
    /\ sending' = NoClose /\ pc' = "idle"
    /\ UNCHANGED <<venueVars, seen, bookVars>>

\* The close is working, or nobody knows: it is followed before anything else is sent.
CloseUnresolved ==
    /\ pc = "closing"
    /\ pending' = sending
    /\ sending' = NoClose /\ pc' = "idle"
    /\ UNCHANGED <<venueVars, seen, units, attempts, partial, settled, write, resolved>>

-----------------------------------------------------------------------------
(* _settle_gone: the venue holds less than the minimum and no close of ours is unwritten. *)

\* Mutant: closing fills already settled are counted again.
EveryFill == {i \in Ids : filled[i] > 0}

\* Closes of this position that filled and were never settled.
UnsettledFills == {i \in Ids : filled[i] > 0 /\ write[i] = "none"}

Gone == pc = "decide" /\ units > 0 /\ seen < MinOrder /\ Unwritten(write) = {}

\* The fills account for the units: the engine's own closes first, then the others' sales.
SettleGone ==
    /\ Gone
    /\ LET mine  == UnsettledFills
           total == SumFunctionOnSet(filled, mine)
       IN  /\ units - (total + othersSold) < MinOrder
           /\ \E share \in [mine -> 0..units] :
                LET own == SumFunctionOnSet(share, mine)
                    ext == Smaller(units - own, othersSold)
                IN  /\ \A i \in mine : share[i] <= filled[i]
                    /\ own \in 0..units /\ own = Smaller(units, total)
                    /\ settled' = [k \in Keys |-> IF k \in mine THEN share[k]
                                                  ELSE IF k = External THEN ext ELSE settled[k]]
                    /\ write' = [k \in Keys |-> IF settled'[k] > settled[k] THEN "writing"
                                                                          ELSE write[k]]
                    /\ units' = IF units - own - ext < MinOrder THEN 0 ELSE units - own - ext
    /\ pc' = "idle"
    /\ UNCHANGED <<venueVars, seen, sending, attempts, partial, pending, resolved>>

-----------------------------------------------------------------------------
Venue ==
    \/ \E i \in Ids : Store(i) \/ EndOrder(i)
    \/ \E i \in Ids, n \in 1..Opened : Fill(i, n)
    \/ \E n \in 1..(Opened + Foreign) : OthersSell(n)

Pass ==
    \/ ReadQuantity \/ PricesDone \/ StillPending \/ NeverCreated \/ PendingEnded
    \/ DecideNothing \/ SkipPartial \/ SettleGone
    \/ CloseRefused \/ CloseEnded \/ CloseUnresolved
    \/ \E k \in Keys : PriceRead(k)
    \/ \E leg \in Legs : SendClose(leg)

Next == Venue \/ Pass \/ \E k \in Keys : WriteCommits(k) \/ WriteFails(k)

Spec == Init /\ [][Next]_vars

\* Passes go on; of the prices read and the writes tried at every pass one succeeds in the end, and
\* none has to succeed twice.
Fairness ==
    /\ WF_vars(Pass)
    /\ SF_vars(\E k \in Keys : PriceRead(k) \/ WriteCommits(k))

FairSpec == Spec /\ Fairness

-----------------------------------------------------------------------------
(* Properties. *)

\* The engine's closes together never sell more than the engine bought: foreign units of
\* the symbol are never the engine's to sell, whatever is refused, partial or unresolved.
NoForeignSold == engineSold <= Opened

\* Never two closes of the position that can both still fill.
OneCloseAtATime == Cardinality({i \in Ids : state[i] \in {"sent", "working"}}) <= 1

\* What an order sold is settled once, to the unit, unless its answer is still awaited.
SettledAsFilled == \A i \in Ids \ {sending, pending} : settled[i] = filled[i]

\* No unit is lost or counted twice between the position and its settles, except a rest
\* below the venue's minimum that is dropped when the position is gone.
UnitsAccounted ==
    /\ Opened - units - SumFunctionOnSet(settled, Keys) \in 0..(MinOrder - 1)
    /\ settled[External] <= othersSold

\* A decision leaves the book only when all its units are closed and all its rows written.
ResolvedWhenWritten ==
    resolved => /\ units = 0 /\ pending = NoClose
                /\ \A k \in Keys : settled[k] > 0 => write[k] = "written"

\* A position whose every unit is closed and every fill written has left the book.
ClosedIsResolved == units = 0 /\ Unwritten(write) = {} /\ pending = NoClose => resolved

\* The closes, their settles and their rows keep the book that UnitLedger promises: what one close at
\* a time sold is taken off the position once, to the unit, and its rows resolve the decision.
Book == INSTANCE UnitLedger WITH
    Bought <- Opened, Least <- MinOrder, Sales <- Ids, WrittenOff <- External,
    sold <- filled, gone <- othersSold, left <- units, entered <- settled,
    recorded <- {k \in Keys : write[k] = "written"}, closed <- resolved

ImplementsLedger == Book!Spec

\* A client id the venue has seen is never sent again.
IdsSentOnce == [][\A i \in Ids : state'[i] = "sent" => state[i] \in {"none", "sent"}]_vars

\* Once every unit is closed the decision is resolved, whatever writes failed before.
ClosedGetsResolved == []<>(units # 0 \/ resolved)
=============================================================================
