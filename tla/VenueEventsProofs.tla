------------------------- MODULE VenueEventsProofs -------------------------
(***************************************************************************)
(* Theorems about VenueEvents, for any number of units, any minimum and    *)
(* any ceiling of attempts.  What the closes sell is bounded at a venue    *)
(* whose answer "no such order" is final (~LateOrders); types and the use  *)
(* of client ids need no such assumption.                                  *)
(***************************************************************************)
EXTENDS VenueEvents, SumLemmas

\* Nothing is sold twice and nothing is made: the account's quantity is what is left.
Conserved == held + engineSold + othersSold = Opened + Foreign

\* Beyond the attempts taken no order was sent and nothing was settled.
Fresh ==
    \A i \in Ids : i[2] > attempts[i[1]] =>
        state[i] = "none" /\ filled[i] = 0 /\ settled[i] = 0 /\ write[i] = "none"

\* An order the venue never stored filled nothing.
Unstored == \A i \in Ids : state[i] \in {"none", "sent", "absent"} => filled[i] = 0

\* Where the pass is says which close it works on.
Place ==
    /\ (pc = "closing") = (sending # NoClose)
    /\ pc \in {"decide", "closing"} => pending = NoClose
    /\ pc = "follow" => pending # NoClose
    /\ \A i \in Ids : i \in {sending, pending} => i[2] <= attempts[i[1]]

\* Only the close that is sent or followed can still fill.
Alone == \A i \in Ids : state[i] \in {"sent", "working"} => i \in {sending, pending}

\* What was sold was taken off the position, except by the close that is sent or followed,
\* and that one was sized for what the position still has.
Room ==
    /\ \A i \in Ids : i \in {sending, pending} =>
         /\ filled[i] <= qty[i] /\ qty[i] <= units /\ units > 0
         /\ engineSold + units <= Opened + filled[i]
         /\ settled[i] = 0 /\ write[i] = "none"
    /\ {sending, pending} \subseteq {NoClose} => engineSold + units <= Opened

\* A settle of some units has a write.
Settles == \A k \in Keys : settled[k] > 0 => write[k] # "none"

IInv ==
    /\ TypeOK /\ Conserved /\ Fresh /\ Unstored /\ Place /\ Settles
    /\ ~LateOrders => Alone /\ Room /\ SettledAsFilled /\ ResolvedWhenWritten

-----------------------------------------------------------------------------
\* A percentage of a quantity, rounded down, is no more than the quantity.
LEMMA PartOf ==
    ASSUME NEW h \in Nat, NEW p \in 0..100
    PROVE  (h * p) \div 100 \in 0..h
  <1>1. h * p \in Nat /\ h * p <= h * 100
    OBVIOUS
  <1> QED
    BY <1>1

\* A close is sized for no more than the position has and no more than was held.
LEMMA CloseSize ==
    ASSUME TypeOK, NEW leg \in Legs
    PROVE  CloseQty(leg) \in 0..units /\ CloseQty(leg) \in 0..seen
  <1>1. Smaller(units, seen) \in Nat /\ Smaller(units, seen) <= units /\ Smaller(units, seen) <= seen
    BY UnitsAssumption DEF TypeOK, Smaller
  <1>2. (Smaller(units, seen) * PartialPercent) \div 100 \in 0..Smaller(units, seen)
    BY <1>1, PartOf, UnitsAssumption
  <1>3. CASE leg = "PARTIAL"
    <2>1. CloseQty(leg) \in 0..Smaller(units, seen)
      BY <1>2, <1>3 DEF CloseQty
    <2>2. units \in Int /\ seen \in Int
      BY UnitsAssumption DEF TypeOK
    <2> HIDE DEF Smaller
    <2> QED
      BY <1>1, <2>1, <2>2
  <1>4. CASE leg # "PARTIAL"
    BY <1>1, <1>4, UnitsAssumption DEF CloseQty, TypeOK
  <1> QED
    BY <1>3, <1>4

\* A fill that fits the position is taken off it whole.
LEMMA SmallerFits ==
    ASSUME NEW a \in Nat, NEW b \in Nat, a <= b
    PROVE  Smaller(a, b) = a
  BY DEF Smaller

\* What fitted beside a quantity fits beside a smaller one.
LEMMA StillFits ==
    ASSUME NEW a \in Nat, NEW b \in Nat, NEW c \in 0..b, NEW d \in Nat, a + b <= d
    PROVE  a + c <= d
  OBVIOUS

\* The venue's own steps: only the close that is sent or followed fills.
LEMMA VenueKeeps ==
    ASSUME IInv
    PROVE  /\ (\E i \in Ids : Store(i)) => IInv'
           /\ (\E i \in Ids : EndOrder(i)) => IInv'
           /\ (\E i \in Ids, n \in 1..Opened : Fill(i, n)) => IInv'
           /\ (\E n \in 1..(Opened + Foreign) : OthersSell(n)) => IInv'
  <1> USE UnitsAssumption DEF IInv, TypeOK, Conserved, Fresh, Unstored, Place, Settles,
      Alone, Room, SettledAsFilled, ResolvedWhenWritten, Ids, Keys, External, OrderStates,
      WriteStates, Legs, Unwritten, Smaller, venueVars, bookVars
  <1>1. ASSUME NEW i \in Ids, Store(i) PROVE IInv'
    <2>1. TypeOK'
      BY <1>1 DEF Store
    <2>2. (Conserved /\ Fresh /\ Unstored /\ Place /\ Settles)'
      BY <1>1 DEF Store
    <2>3. (~LateOrders => Alone /\ Room /\ SettledAsFilled /\ ResolvedWhenWritten)'
      BY <1>1 DEF Store
    <2> QED
      BY <2>1, <2>2, <2>3 DEF IInv
  <1>2. ASSUME NEW i \in Ids, EndOrder(i) PROVE IInv'
    <2>1. TypeOK'
      BY <1>2 DEF EndOrder
    <2>2. (Conserved /\ Fresh /\ Unstored /\ Place /\ Settles)'
      BY <1>2 DEF EndOrder
    <2>3. (~LateOrders => Alone /\ Room /\ SettledAsFilled /\ ResolvedWhenWritten)'
      BY <1>2 DEF EndOrder
    <2> QED
      BY <2>1, <2>2, <2>3 DEF IInv
  <1>3. ASSUME NEW i \in Ids, NEW n \in 1..Opened, Fill(i, n) PROVE IInv'
    <2>1. TypeOK'
      BY <1>3 DEF Fill
    <2>2. (Conserved /\ Fresh /\ Unstored /\ Place /\ Settles)'
      BY <1>3 DEF Fill
    <2>3. (~LateOrders => Alone /\ Room /\ SettledAsFilled /\ ResolvedWhenWritten)'
      BY <1>3 DEF Fill
    <2> QED
      BY <2>1, <2>2, <2>3 DEF IInv
  <1>4. ASSUME NEW n \in 1..(Opened + Foreign), OthersSell(n) PROVE IInv'
    <2>1. TypeOK'
      BY <1>4 DEF OthersSell
    <2>2. (Conserved /\ Fresh /\ Unstored /\ Place /\ Settles)'
      BY <1>4 DEF OthersSell
    <2>3. (~LateOrders => Alone /\ Room /\ SettledAsFilled /\ ResolvedWhenWritten)'
      BY <1>4 DEF OthersSell
    <2> QED
      BY <2>1, <2>2, <2>3 DEF IInv
  <1> QED
    BY <1>1, <1>2, <1>3, <1>4

\* Writes that end, are tried again or find their price.
LEMMA WritesKeep ==
    ASSUME IInv
    PROVE  /\ (\E k \in Keys : WriteCommits(k)) => IInv'
           /\ (\E k \in Keys : WriteFails(k)) => IInv'
           /\ (\E k \in Keys : PriceRead(k)) => IInv'
           /\ (ReadQuantity => IInv')
  <1> USE UnitsAssumption DEF IInv, TypeOK, Conserved, Fresh, Unstored, Place, Settles,
      Alone, Room, SettledAsFilled, ResolvedWhenWritten, Ids, Keys, External, OrderStates,
      WriteStates, Legs, Unwritten, Smaller, venueVars, bookVars
  <1>1. ASSUME NEW k \in Keys, WriteCommits(k) PROVE IInv'
    <2>1. TypeOK'
      BY <1>1 DEF WriteCommits, ResolvesNow
    <2>2. (Conserved /\ Fresh /\ Unstored /\ Place /\ Settles)'
      BY <1>1 DEF WriteCommits, ResolvesNow
    <2>3. (~LateOrders => Alone /\ Room /\ SettledAsFilled /\ ResolvedWhenWritten)'
      BY <1>1 DEF WriteCommits, ResolvesNow
    <2> QED
      BY <2>1, <2>2, <2>3 DEF IInv
  <1>2. ASSUME NEW k \in Keys, WriteFails(k) PROVE IInv'
    <2>1. TypeOK'
      BY <1>2 DEF WriteFails
    <2>2. (Conserved /\ Fresh /\ Unstored /\ Place /\ Settles)'
      BY <1>2 DEF WriteFails
    <2>3. (~LateOrders => Alone /\ Room /\ SettledAsFilled /\ ResolvedWhenWritten)'
      BY <1>2 DEF WriteFails
    <2> QED
      BY <2>1, <2>2, <2>3 DEF IInv
  <1>3. ASSUME NEW k \in Keys, PriceRead(k) PROVE IInv'
    <2>1. TypeOK'
      BY <1>3 DEF PriceRead
    <2>2. (Conserved /\ Fresh /\ Unstored /\ Place /\ Settles)'
      BY <1>3 DEF PriceRead
    <2>3. (~LateOrders => Alone /\ Room /\ SettledAsFilled /\ ResolvedWhenWritten)'
      BY <1>3 DEF PriceRead
    <2> QED
      BY <2>1, <2>2, <2>3 DEF IInv
  <1>4. ASSUME ReadQuantity PROVE IInv'
    <2>1. TypeOK'
      BY <1>4 DEF ReadQuantity, RetryFailed
    <2>2. (Conserved /\ Fresh /\ Unstored /\ Place /\ Settles)'
      BY <1>4 DEF ReadQuantity, RetryFailed
    <2>3. (~LateOrders => Alone /\ Room /\ SettledAsFilled /\ ResolvedWhenWritten)'
      BY <1>4 DEF ReadQuantity, RetryFailed
    <2> QED
      BY <2>1, <2>2, <2>3 DEF IInv
  <1> QED
    BY <1>1, <1>2, <1>3, <1>4

\* The steps of a pass that settle nothing and send nothing.
LEMMA PassKeeps ==
    ASSUME IInv
    PROVE  /\ (PricesDone => IInv')
           /\ (StillPending => IInv')
           /\ (NeverCreated => IInv')
           /\ (DecideNothing => IInv')
           /\ (SkipPartial => IInv')
           /\ (CloseRefused => IInv')
           /\ (CloseUnresolved => IInv')
  <1> USE UnitsAssumption DEF IInv, TypeOK, Conserved, Fresh, Unstored, Place, Settles,
      Alone, Room, SettledAsFilled, ResolvedWhenWritten, Ids, Keys, External, OrderStates,
      WriteStates, Legs, Unwritten, Smaller, venueVars, bookVars
  <1>1. ASSUME PricesDone PROVE IInv'
    <2>1. TypeOK'
      BY <1>1 DEF PricesDone
    <2>2. (Conserved /\ Fresh /\ Unstored /\ Place /\ Settles)'
      BY <1>1 DEF PricesDone
    <2>3. (~LateOrders => Alone /\ Room /\ SettledAsFilled /\ ResolvedWhenWritten)'
      BY <1>1 DEF PricesDone
    <2> QED
      BY <2>1, <2>2, <2>3 DEF IInv
  <1>2. ASSUME StillPending PROVE IInv'
    <2>1. TypeOK'
      BY <1>2 DEF StillPending
    <2>2. (Conserved /\ Fresh /\ Unstored /\ Place /\ Settles)'
      BY <1>2 DEF StillPending
    <2>3. (~LateOrders => Alone /\ Room /\ SettledAsFilled /\ ResolvedWhenWritten)'
      BY <1>2 DEF StillPending
    <2> QED
      BY <2>1, <2>2, <2>3 DEF IInv
  <1>3. ASSUME NeverCreated PROVE IInv'
    <2>1. TypeOK'
      BY <1>3 DEF NeverCreated
    <2>2. (Conserved /\ Fresh /\ Unstored /\ Place /\ Settles)'
      BY <1>3 DEF NeverCreated
    <2>3. (~LateOrders => Alone /\ Room /\ SettledAsFilled /\ ResolvedWhenWritten)'
      BY <1>3 DEF NeverCreated
    <2> QED
      BY <2>1, <2>2, <2>3 DEF IInv
  <1>4. ASSUME DecideNothing PROVE IInv'
    <2>1. TypeOK'
      BY <1>4 DEF DecideNothing
    <2>2. (Conserved /\ Fresh /\ Unstored /\ Place /\ Settles)'
      BY <1>4 DEF DecideNothing
    <2>3. (~LateOrders => Alone /\ Room /\ SettledAsFilled /\ ResolvedWhenWritten)'
      BY <1>4 DEF DecideNothing
    <2> QED
      BY <2>1, <2>2, <2>3 DEF IInv
  <1>5. ASSUME SkipPartial PROVE IInv'
    <2>1. TypeOK'
      BY <1>5 DEF SkipPartial, Triggered
    <2>2. (Conserved /\ Fresh /\ Unstored /\ Place /\ Settles)'
      BY <1>5 DEF SkipPartial, Triggered
    <2>3. (~LateOrders => Alone /\ Room /\ SettledAsFilled /\ ResolvedWhenWritten)'
      BY <1>5 DEF SkipPartial, Triggered
    <2> QED
      BY <2>1, <2>2, <2>3 DEF IInv
  <1>6. ASSUME CloseRefused PROVE IInv'
    <2>1. TypeOK'
      BY <1>6 DEF CloseRefused
    <2>2. (Conserved /\ Fresh /\ Unstored /\ Place /\ Settles)'
      BY <1>6 DEF CloseRefused
    <2>3. (~LateOrders => Alone /\ Room /\ SettledAsFilled /\ ResolvedWhenWritten)'
      BY <1>6 DEF CloseRefused
    <2> QED
      BY <2>1, <2>2, <2>3 DEF IInv
  <1>7. ASSUME CloseUnresolved PROVE IInv'
    <2>1. TypeOK'
      BY <1>7 DEF CloseUnresolved
    <2>2. (Conserved /\ Fresh /\ Unstored /\ Place /\ Settles)'
      BY <1>7 DEF CloseUnresolved
    <2>3. (~LateOrders => Alone /\ Room /\ SettledAsFilled /\ ResolvedWhenWritten)'
      BY <1>7 DEF CloseUnresolved
    <2> QED
      BY <2>1, <2>2, <2>3 DEF IInv
  <1> QED
    BY <1>1, <1>2, <1>3, <1>4, <1>5, <1>6, <1>7

\* A close is sent only when none can still fill, for no more than the position has.
LEMMA SendCloseKeeps ==
    ASSUME IInv
    PROVE   (\E leg \in Legs : SendClose(leg)) => IInv'
  <1> USE UnitsAssumption DEF IInv, TypeOK, Conserved, Fresh, Unstored, Place, Settles,
      Alone, Room, SettledAsFilled, ResolvedWhenWritten, Ids, Keys, External, OrderStates,
      WriteStates, Legs, Unwritten, Smaller, venueVars, bookVars
  <1> USE CloseSize
  <1>1. ASSUME NEW leg \in Legs, SendClose(leg) PROVE IInv'
    <2>1. TypeOK'
      BY <1>1 DEF SendClose, Triggered, AttemptLeft
    <2>2. (Conserved /\ Fresh /\ Unstored /\ Place /\ Settles)'
      BY <1>1 DEF SendClose, Triggered, AttemptLeft
    <2>3. (~LateOrders => Alone /\ Room /\ SettledAsFilled /\ ResolvedWhenWritten)'
      BY <1>1 DEF SendClose, Triggered, AttemptLeft
    <2> QED
      BY <2>1, <2>2, <2>3 DEF IInv
  <1> QED
    BY <1>1

\* A close that ended: what it filled fits what the position still has, so it is settled whole.
LEMMA SettleFillKeeps ==
    ASSUME IInv
    PROVE  /\ (PendingEnded => IInv')
           /\ (CloseEnded => IInv')
  <1> USE UnitsAssumption DEF IInv, TypeOK, Conserved, Fresh, Unstored, Place, Settles,
      Alone, Room, SettledAsFilled, ResolvedWhenWritten, Ids, Keys, External, OrderStates,
      WriteStates, Legs, Unwritten, Smaller, venueVars, bookVars
  <1>1. ASSUME PendingEnded PROVE IInv'
    <2>1. TypeOK'
      BY <1>1 DEF PendingEnded, SettleFill
    <2>2. (Conserved /\ Fresh /\ Unstored /\ Place /\ Settles)'
      BY SMTT(30), <1>1 DEF PendingEnded, SettleFill
    <2>3. CASE LateOrders
      BY <2>1, <2>2, <2>3 DEF PendingEnded
    <2>4. CASE ~LateOrders /\ filled[pending] = 0
      <3>1. (~LateOrders => Alone /\ Room /\ SettledAsFilled /\ ResolvedWhenWritten)'
        BY <1>1, <2>4 DEF PendingEnded
      <3> QED
        BY <2>1, <2>2, <3>1
    <2>5. CASE ~LateOrders /\ filled[pending] # 0
      <3>1. pending \in Ids /\ filled[pending] <= units /\ filled[pending] > 0
            /\ filled[pending] \in Nat /\ units \in Nat
        BY <1>1, <2>5 DEF PendingEnded
      <3>2. units' = units - filled[pending]
        BY <1>1, <3>1 DEF PendingEnded, SettleFill
      <3>3. settled' = [settled EXCEPT ![pending] = filled[pending]]
        <4>1. Smaller(filled[pending], units) = filled[pending]
          <5> HIDE DEF IInv, Ids, Smaller
          <5> QED
            BY <3>1, SmallerFits, Zenon
        <4>2. SettleFill(pending)
          BY <1>1, <3>1 DEF PendingEnded
        <4> HIDE DEF Smaller
        <4> QED
          BY <4>1, <4>2 DEF SettleFill
      <3>4. \E w \in {"unpriced", "writing"} : write' = [write EXCEPT ![pending] = w]
        BY <1>1, <3>1 DEF PendingEnded, SettleFill
      <3>5. (Alone /\ Room)'
        BY <1>1, <2>5, <3>1, <3>2, <3>3, <3>4 DEF PendingEnded
      <3>6. SettledAsFilled'
        BY <1>1, <2>5, <3>1, <3>2, <3>3, <3>4 DEF PendingEnded
      <3>7. ResolvedWhenWritten'
        BY <1>1, <2>5, <3>1, <3>2, <3>3, <3>4 DEF PendingEnded
      <3> QED
        BY <2>1, <2>2, <3>5, <3>6, <3>7
    <2> QED
      BY <2>3, <2>4, <2>5
  <1>2. ASSUME CloseEnded PROVE IInv'
    <2>1. TypeOK'
      BY SMTT(30), <1>2 DEF CloseEnded, SettleFill
    <2>2. (Conserved /\ Fresh /\ Unstored /\ Place /\ Settles)'
      BY <1>2 DEF CloseEnded, SettleFill
    <2>3. CASE LateOrders
      BY <2>1, <2>2, <2>3 DEF CloseEnded
    <2>4. CASE ~LateOrders /\ filled[sending] = 0
      <3>1. (~LateOrders => Alone /\ Room /\ SettledAsFilled /\ ResolvedWhenWritten)'
        BY <1>2, <2>4 DEF CloseEnded
      <3> QED
        BY <2>1, <2>2, <3>1
    <2>5. CASE ~LateOrders /\ filled[sending] # 0
      <3>1. sending \in Ids /\ filled[sending] <= units /\ filled[sending] > 0
            /\ filled[sending] \in Nat /\ units \in Nat
        BY <1>2, <2>5 DEF CloseEnded
      <3>2. units' = units - filled[sending]
        BY <1>2, <3>1 DEF CloseEnded, SettleFill
      <3>3. settled' = [settled EXCEPT ![sending] = filled[sending]]
        <4>1. Smaller(filled[sending], units) = filled[sending]
          <5> HIDE DEF IInv, Ids, Smaller
          <5> QED
            BY <3>1, SmallerFits, Zenon
        <4>2. SettleFill(sending)
          BY <1>2, <3>1 DEF CloseEnded
        <4> HIDE DEF Smaller
        <4> QED
          BY <4>1, <4>2 DEF SettleFill
      <3>4. \E w \in {"unpriced", "writing"} : write' = [write EXCEPT ![sending] = w]
        BY <1>2, <3>1 DEF CloseEnded, SettleFill
      <3>5. (Alone /\ Room)'
        BY <1>2, <2>5, <3>1, <3>2, <3>3, <3>4 DEF CloseEnded
      <3>6. SettledAsFilled'
        BY <1>2, <2>5, <3>1, <3>2, <3>3, <3>4 DEF CloseEnded
      <3>7. ResolvedWhenWritten'
        BY <1>2, <2>5, <3>1, <3>2, <3>3, <3>4 DEF CloseEnded
      <3> QED
        BY <2>1, <2>2, <3>5, <3>6, <3>7
    <2> QED
      BY <2>3, <2>4, <2>5
  <1> QED
    BY <1>1, <1>2

\* A position that is gone: at a venue whose answers are final no own close is unsettled.
LEMMA SettleGoneKeeps ==
    ASSUME IInv, SettleGone
    PROVE  IInv'
  <1> USE UnitsAssumption DEF IInv, TypeOK, Conserved, Fresh, Unstored, Place, Settles,
      Alone, Room, SettledAsFilled, ResolvedWhenWritten, Ids, Keys, External, OrderStates,
      WriteStates, Legs, Unwritten, Smaller, venueVars, bookVars
  <1>1. PICK share \in [UnsettledFills -> 0..units] :
          LET own == SumFunctionOnSet(share, UnsettledFills)
              ext == Smaller(units - own, othersSold)
          IN  /\ \A i \in UnsettledFills : share[i] <= filled[i]
              /\ own \in 0..units
              /\ settled' = [k \in Keys |-> IF k \in UnsettledFills THEN share[k]
                                            ELSE IF k = External THEN ext ELSE settled[k]]
              /\ write' = [k \in Keys |-> IF settled'[k] > settled[k] THEN "writing"
                                                                    ELSE write[k]]
              /\ units' = IF units - own - ext < MinOrder THEN 0 ELSE units - own - ext
    BY DEF SettleGone
  <1> DEFINE own == SumFunctionOnSet(share, UnsettledFills)
             ext == Smaller(units - own, othersSold)
  <1>2. own \in 0..units /\ ext \in 0..(units - own)
    BY <1>1
  <1> HIDE DEF own, ext
  <1>3. units' \in 0..units
    BY <1>1, <1>2 DEF own, ext
  <1>4. settled' \in [Keys -> 0..Opened]
    <2>1. settled' = [k \in Keys |-> IF k \in UnsettledFills THEN share[k]
                                     ELSE IF k = External THEN ext ELSE settled[k]]
      BY <1>1 DEF own, ext
    <2> QED
      BY <1>1, <1>2, <2>1
  <1>5. write' = [k \in Keys |-> IF settled'[k] > settled[k] THEN "writing" ELSE write[k]]
    BY <1>1
  <1>6. /\ pc = "decide" /\ pc' = "idle" /\ units > 0 /\ Unwritten(write) = {}
        /\ UNCHANGED <<venueVars, seen, sending, attempts, partial, pending, resolved>>
    BY DEF SettleGone, Gone
  <1>7. TypeOK'
    BY <1>3, <1>4, <1>5, <1>6
  <1>8. \A i \in Ids : i \notin UnsettledFills => settled'[i] = settled[i]
    BY <1>1 DEF own, ext
  <1>9. (Conserved /\ Fresh /\ Unstored /\ Place /\ Settles)'
    BY <1>4, <1>5, <1>6, <1>8 DEF UnsettledFills
  <1>10. ~LateOrders => UnsettledFills = {}
    BY <1>6 DEF UnsettledFills
  <1>11. (~LateOrders => Alone /\ Room /\ SettledAsFilled)'
    <2>1. (~LateOrders => Alone)'
      BY <1>6
    <2>2. (~LateOrders => Room)'
      <3>1. sending = NoClose /\ pending = NoClose /\ NoClose \notin Ids
        BY <1>6
      <3>2. ~LateOrders => engineSold + units <= Opened
        BY <3>1
      <3>3. ~LateOrders => engineSold' + units' <= Opened
        <4>1. engineSold' = engineSold /\ engineSold \in Nat /\ units \in Nat /\ Opened \in Nat
          BY <1>6
        <4> QED
          BY <1>3, <3>2, <4>1, StillFits
      <3> QED
        BY <1>6, <3>1, <3>3
    <2>3. (~LateOrders => SettledAsFilled)'
      BY <1>6, <1>8, <1>10
    <2> QED
      BY <2>1, <2>2, <2>3
  <1>12. (~LateOrders => ResolvedWhenWritten)'
    BY <1>6, <1>3
  <1> QED
    BY <1>7, <1>9, <1>11, <1>12 DEF IInv

\* The initial state satisfies the invariant.
LEMMA InitKeeps == Init => IInv
  <1> SUFFICES ASSUME Init PROVE IInv
    OBVIOUS
  <1>1. TypeOK
    <2>1. held \in 0..(Opened + Foreign) /\ 0 \in 0..(Opened + Foreign) /\ 0 \in 0..MaxAttempts
          /\ units \in 0..Opened /\ 0 \in 0..Opened
      BY UnitsAssumption DEF Init
    <2> QED
      BY <2>1 DEF Init, TypeOK, OrderStates, WriteStates
  <1>2. Conserved /\ Unstored
    BY UnitsAssumption DEF Init, Conserved, Unstored
  <1>3. Fresh /\ Settles
    BY DEF Init, Fresh, Settles, Keys
  <1>4. Place
    BY UnitsAssumption DEF Init, Place
  <1>5. Alone /\ SettledAsFilled /\ ResolvedWhenWritten
    BY DEF Init, Alone, SettledAsFilled, ResolvedWhenWritten, Keys
  <1>6. Room
    BY UnitsAssumption DEF Init, Room
  <1> QED
    BY <1>1, <1>2, <1>3, <1>4, <1>5, <1>6 DEF IInv

\* Every step keeps the invariant.
LEMMA StepKeeps == IInv /\ [Next]_vars => IInv'
  <1> SUFFICES ASSUME IInv, [Next]_vars PROVE IInv'
    OBVIOUS
  <1>1. CASE Venue
    BY <1>1, VenueKeeps DEF Venue
  <1>2. CASE Pass
    BY <1>2, PassKeeps, WritesKeep, SendCloseKeeps, SettleFillKeeps, SettleGoneKeeps DEF Pass
  <1>3. CASE \E k \in Keys : WriteCommits(k) \/ WriteFails(k)
    BY <1>3, WritesKeep
  <1>4. CASE UNCHANGED vars
    BY <1>4 DEF vars, venueVars, bookVars, IInv, TypeOK, Conserved, Fresh, Unstored, Place,
       Settles, Alone, Room, SettledAsFilled, ResolvedWhenWritten, Unwritten
  <1> QED
    BY <1>1, <1>2, <1>3, <1>4 DEF Next

-----------------------------------------------------------------------------
\* The inductive invariant holds in every reachable state.
THEOREM Inductive == Spec => []IInv
  BY InitKeeps, StepKeeps, PTL DEF Spec

\* Every variable keeps its type.
THEOREM TypeCorrect == Spec => []TypeOK
  <1>1. IInv => TypeOK
    BY DEF IInv
  <1> QED
    BY <1>1, Inductive, PTL

\* Where "no such order" is final, the closes together sell no more than the entry bought.
THEOREM NeverSellsForeign == Spec => [](~LateOrders => NoForeignSold)
  <1>1. IInv => (~LateOrders => NoForeignSold)
    <2> SUFFICES ASSUME IInv, ~LateOrders PROVE NoForeignSold
      OBVIOUS
    <2>1. CASE {sending, pending} \subseteq {NoClose}
      BY <2>1, UnitsAssumption DEF IInv, TypeOK, Room, NoForeignSold
    <2>2. CASE ~({sending, pending} \subseteq {NoClose})
      <3>1. PICK i \in Ids : i \in {sending, pending}
        BY <2>2 DEF IInv, TypeOK
      <3> QED
        BY <3>1, UnitsAssumption DEF IInv, TypeOK, Room, NoForeignSold
    <2> QED
      BY <2>1, <2>2
  <1> QED
    BY <1>1, Inductive, PTL

\* Where "no such order" is final, at most one close of the position can still fill.
THEOREM OneCanFill == Spec => [](~LateOrders => OneCloseAtATime)
  <1>1. IInv => (~LateOrders => OneCloseAtATime)
    <2> SUFFICES ASSUME IInv, ~LateOrders PROVE OneCloseAtATime
      OBVIOUS
    <2> DEFINE Live == {i \in Ids : state[i] \in {"sent", "working"}}
    <2>1. PICK c : Live \subseteq {c}
      <3>1. Live \subseteq {sending, pending} /\ NoClose \notin Live
        BY UnitsAssumption DEF IInv, Alone
      <3>2. sending = NoClose \/ pending = NoClose
        BY DEF IInv, TypeOK, Place
      <3> QED
        BY <3>1, <3>2
    <2>2. IsFiniteSet({c}) /\ Cardinality({c}) = 1
      BY FS_Singleton
    <2>3. Cardinality(Live) <= Cardinality({c})
      BY <2>1, <2>2, FS_Subset
    <2> QED
      BY <2>2, <2>3 DEF OneCloseAtATime
  <1> QED
    BY <1>1, Inductive, PTL

\* Where "no such order" is final, every order is settled for exactly what it filled.
THEOREM SettledWhole == Spec => [](~LateOrders => SettledAsFilled)
  <1>1. IInv => (~LateOrders => SettledAsFilled)
    BY DEF IInv
  <1> QED
    BY <1>1, Inductive, PTL

\* Where "no such order" is final, a decision leaves the book only closed and written.
THEOREM LeavesTheBookWritten == Spec => [](~LateOrders => ResolvedWhenWritten)
  <1>1. IInv => (~LateOrders => ResolvedWhenWritten)
    BY DEF IInv
  <1> QED
    BY <1>1, Inductive, PTL

\* Whatever the venue answers, a client id it has seen is never sent again.
THEOREM NeverResent == Spec => IdsSentOnce
  <1> DEFINE Once == \A i \in Ids : state'[i] = "sent" => state[i] \in {"none", "sent"}
  <1>1. IInv /\ [Next]_vars => [Once]_vars
    <2> SUFFICES ASSUME IInv, Next PROVE Once
      OBVIOUS
    <2>1. CASE \E leg \in Legs : SendClose(leg)
      BY <2>1, UnitsAssumption DEF SendClose, IInv, TypeOK, Fresh, Ids, Legs
    <2>2. CASE ~\E leg \in Legs : SendClose(leg)
      BY <2>2 DEF Next, Venue, Pass, Store, EndOrder, Fill, OthersSell, WriteCommits, WriteFails,
         PriceRead, ReadQuantity, PricesDone, StillPending, NeverCreated, PendingEnded,
         DecideNothing, SkipPartial, SettleGone, CloseRefused, CloseEnded, CloseUnresolved,
         venueVars, IInv, TypeOK
    <2> QED
      BY <2>1, <2>2
  <1> QED
    BY <1>1, Inductive, PTL DEF Spec, IdsSentOnce

-----------------------------------------------------------------------------
(* Every unit is accounted for, whatever the venue answers. *)

\* Nothing of a close that is sent or followed was settled yet.
Unanswered == \A i \in Ids : i \in {sending, pending} => settled[i] = 0 /\ write[i] = "none"

\* While the position has units every unit is accounted for, and none is charged to others.
Accounted ==
    /\ units > 0 => settled[External] = 0 /\ Opened - units = SumFunctionOnSet(settled, Keys)
    /\ UnitsAccounted

AccountInv == IInv /\ Unanswered /\ Accounted

\* There are finitely many settles, and the external one is not an order's.
LEMMA KeysFinite == IsFiniteSet(Keys) /\ IsFiniteSet(Ids) /\ External \in Keys /\ External \notin Ids
<1>1. IsFiniteSet(Legs)
  <2>1. IsFiniteSet({"PARTIAL"}) /\ Legs = {"PARTIAL"} \cup {"STOP"}
    BY FS_Singleton DEF Legs
  <2> QED BY <2>1, FS_AddElement
<1>2. IsFiniteSet(1..MaxAttempts)
  BY FS_Interval, UnitsAssumption
<1>3. IsFiniteSet(Ids)
  BY <1>1, <1>2, FS_Product DEF Ids
<1>4. External \notin Ids
  BY UnitsAssumption DEF External, Ids
<1>5. IsFiniteSet(Ids \cup {External})
  BY <1>3, FS_AddElement
<1> QED BY <1>3, <1>4, <1>5 DEF Keys

\* What was settled adds up.
LEMMA SettledSum == ASSUME TypeOK PROVE settled \in [Keys -> Int] /\ SumFunctionOnSet(settled, Keys) \in Int
<1>1. settled \in [Keys -> Int]
  BY UnitsAssumption DEF TypeOK
<1> QED BY <1>1, SumRecursion, KeysFinite

\* A step that settles nothing: others may have sold more.
LEMMA NothingSettled ==
    ASSUME AccountInv, TypeOK', units' = units, settled' = settled, othersSold' \in Int, othersSold' >= othersSold,
           {sending', pending'} \subseteq {sending, pending, NoClose},
           \A k \in Keys : write[k] = "none" => write'[k] = "none"
    PROVE  Unanswered' /\ Accounted'
<1>1. Unanswered'
  BY UnitsAssumption DEF Unanswered, AccountInv, Keys
<1>2. settled[External] \in Int /\ othersSold \in Int
  BY KeysFinite, UnitsAssumption DEF AccountInv, IInv, TypeOK
<1>3. Accounted'
  <2> DEFINE s == SumFunctionOnSet(settled, Keys)
  <2>1. SumFunctionOnSet(settled', Keys) = s
    OBVIOUS
  <2> HIDE DEF s
  <2> QED BY <1>2, <2>1 DEF AccountInv, Accounted, UnitsAccounted, s
<1> QED BY <1>1, <1>3

\* A fill that is settled: the units leave the position and enter the settle.
LEMMA FillSettled ==
    ASSUME AccountInv, NEW i \in Ids, i \in {sending, pending}, SettleFill(i), othersSold' = othersSold,
           {sending', pending'} \subseteq {NoClose}
    PROVE  Unanswered' /\ Accounted'
<1> DEFINE n == Smaller(filled[i], units)
<1>1. n \in 0..units /\ units \in 0..Opened
  BY UnitsAssumption DEF AccountInv, IInv, TypeOK, Smaller
<1>2. units' = units - n /\ settled' = [settled EXCEPT ![i] = n]
  BY DEF SettleFill
<1> HIDE DEF n
<1>3. settled \in [Keys -> Int] /\ SumFunctionOnSet(settled, Keys) \in Int /\ i \in Keys /\ settled[i] = 0 /\ n \in Int
  BY <1>1, SettledSum DEF AccountInv, IInv, Unanswered, Keys
<1>4. SumFunctionOnSet(settled', Keys) = SumFunctionOnSet(settled, Keys) + n
  <2>1. settled' \in [Keys -> Int] /\ settled'[i] = n /\ \A k \in Keys \ {i} : settled'[k] = settled[k]
    BY <1>2, <1>3
  <2>2. SumFunctionOnSet(settled', Keys) = SumFunctionOnSet(settled, Keys) - settled[i] + settled'[i]
    BY <1>3, <2>1, KeysFinite, SumChange
  <2> QED BY <2>1, <2>2, <1>3
<1>5. settled'[External] = settled[External]
  BY <1>2, <1>3, KeysFinite
<1>6. Unanswered'
  BY UnitsAssumption DEF Unanswered
<1>7. Accounted'
  <2> DEFINE s == SumFunctionOnSet(settled, Keys)
             t == SumFunctionOnSet(settled', Keys)
  <2>1. t = s + n /\ s \in Int
    BY <1>3, <1>4
  <2> HIDE DEF s, t
  <2>2. /\ units > 0 => settled[External] = 0 /\ Opened - units = s
        /\ Opened - units - s \in 0..(MinOrder - 1) /\ settled[External] <= othersSold
    BY DEF AccountInv, Accounted, UnitsAccounted, s
  <2>3. Opened \in Int /\ MinOrder \in Int
    BY UnitsAssumption
  <2>4. /\ units' > 0 => settled'[External] = 0 /\ Opened - units' = t
        /\ Opened - units' - t \in 0..(MinOrder - 1) /\ settled'[External] <= othersSold'
    BY <1>1, <1>2, <1>5, <2>1, <2>2, <2>3
  <2> QED BY <2>4 DEF Accounted, UnitsAccounted, t
<1> QED BY <1>6, <1>7

\* The engine's own closes first, then the others: what is left is what the fills left.
LEMMA GoneShares ==
    ASSUME NEW u \in Nat, NEW t \in Int, NEW o \in Nat, NEW m \in Nat \ {0}, u - (t + o) < m,
           NEW a \in 0..u, a = Smaller(u, t), NEW e, e = Smaller(u - a, o)
    PROVE  e \in 0..(u - a) /\ e <= o /\ a \in Int /\ e \in Int /\ u - a - e < m
<1>1. a \in Int /\ u - a \in Nat
  OBVIOUS
<1>2. CASE u < t
  BY <1>1, <1>2 DEF Smaller
<1>3. CASE ~(u < t)
  <2>1. a = t
    BY <1>3 DEF Smaller
  <2>2. CASE u - a < o
    BY <1>1, <2>1, <2>2 DEF Smaller
  <2>3. CASE ~(u - a < o)
    BY <1>1, <2>1, <2>3 DEF Smaller
  <2> QED BY <2>2, <2>3
<1> QED BY <1>2, <1>3

\* The position is gone: what its own closes sold and what others did accounts for it, up to
\* a rest below the minimum.
LEMMA GoneSettled == ASSUME AccountInv, SettleGone PROVE Unanswered' /\ Accounted'
<1> DEFINE mine == UnsettledFills
           total == SumFunctionOnSet(filled, mine)
<1>1. /\ pc = "decide" /\ units > 0
      /\ units - (total + othersSold) < MinOrder
      /\ sending' = sending /\ pending' = pending /\ othersSold' = othersSold
  BY DEF SettleGone, Gone, venueVars
<1>2. PICK share \in [mine -> 0..units] :
          LET own == SumFunctionOnSet(share, mine)
              ext == Smaller(units - own, othersSold)
          IN  /\ own \in 0..units /\ own = Smaller(units, total)
              /\ settled' = [k \in Keys |-> IF k \in mine THEN share[k]
                                            ELSE IF k = External THEN ext ELSE settled[k]]
              /\ units' = IF units - own - ext < MinOrder THEN 0 ELSE units - own - ext
  BY DEF SettleGone
<1> DEFINE own == SumFunctionOnSet(share, mine)
           ext == Smaller(units - own, othersSold)
<1>3. /\ own \in 0..units /\ own = Smaller(units, total)
      /\ settled' = [k \in Keys |-> IF k \in mine THEN share[k]
                                    ELSE IF k = External THEN ext ELSE settled[k]]
      /\ units' = IF units - own - ext < MinOrder THEN 0 ELSE units - own - ext
  BY <1>2
<1>4. mine \subseteq Ids /\ \A i \in mine : settled[i] = 0
  BY UnitsAssumption DEF UnsettledFills, AccountInv, IInv, TypeOK, Settles, Keys
<1>5. total \in Int
  <2>1. filled \in [Ids -> Int]
    BY UnitsAssumption DEF AccountInv, IInv, TypeOK
  <2> QED BY <2>1, <1>4, SumRecursion, KeysFinite
<1>6. units \in 0..Opened /\ othersSold \in Nat /\ MinOrder \in Nat \ {0} /\ Opened \in Nat
  BY UnitsAssumption DEF AccountInv, IInv, TypeOK
<1>7. /\ ext \in 0..(units - own) /\ ext <= othersSold /\ own \in Int /\ ext \in Int
      /\ units - own - ext < MinOrder
  <2> HIDE DEF total, own
  <2>1. own \in 0..units /\ own = Smaller(units, total) /\ ext = Smaller(units - own, othersSold)
    BY <1>3 DEF own
  <2> HIDE DEF ext
  <2>2. units \in Nat /\ units - (total + othersSold) < MinOrder
    BY <1>1, <1>6
  <2> QED BY <2>1, <2>2, <1>5, <1>6, GoneShares
<1>8. units' = 0
  BY <1>3, <1>7
<1> DEFINE Rest == Keys \ (mine \cup {External})
           f == [k \in Keys |-> IF k \in mine THEN share[k] ELSE IF k = External THEN ext ELSE settled[k]]
<1>9. f \in [Keys -> Int]
  BY <1>6, <1>7, SettledSum DEF AccountInv, IInv
<1>10. settled' = f
  BY <1>3
<1>11. SumFunctionOnSet(f, mine) = own
  <2>1. IsFiniteSet(mine)
    BY <1>4, KeysFinite, FS_Subset
  <2>2. \A k \in mine : f[k] \in Int /\ share[k] = f[k]
    BY <1>4, <1>9 DEF Keys
  <2> HIDE DEF f, mine
  <2>3. SumFunctionOnSet(f, mine) = SumFunctionOnSet(share, mine)
    BY <2>1, <2>2, SumSame
  <2> QED BY <2>3
<1>12. SumFunctionOnSet(f, {External}) = ext
  <2>1. f[External] = ext
    BY <1>4, KeysFinite
  <2> HIDE DEF f, ext, mine
  <2>2. {External} \in SUBSET Keys /\ External \in {External} /\ {External} \ {External} = {}
    BY KeysFinite
  <2>3. SumFunctionOnSet(f, {External}) = f[External] + SumFunctionOnSet(f, {})
    BY <2>2, <1>9, KeysFinite, SumWithout
  <2>4. SumFunctionOnSet(f, {}) = 0
    BY <1>9, KeysFinite, SumRecursion
  <2> QED BY <2>1, <2>3, <2>4, <1>7
<1> DEFINE rest == SumFunctionOnSet(settled, Rest)
<1>13. SumFunctionOnSet(f, Rest) = rest /\ rest \in Int
  <2>1. IsFiniteSet(Rest) /\ Rest \in SUBSET Keys
    BY KeysFinite, FS_Subset
  <2>2. settled \in [Keys -> Int]
    BY SettledSum DEF AccountInv, IInv
  <2>3. \A k \in Rest : f[k] \in Int /\ settled[k] = f[k]
    BY <1>9
  <2> HIDE DEF f, Rest
  <2> QED BY <2>1, <2>2, <2>3, SumSame, SumRecursion, KeysFinite
<1>14. /\ mine \in SUBSET Keys /\ {External} \in SUBSET Keys /\ Rest \in SUBSET Keys
       /\ mine \cap {External} = {} /\ (mine \cup {External}) \cap Rest = {}
       /\ (mine \cup {External}) \cup Rest = Keys /\ mine \cup {External} \in SUBSET Keys
  BY <1>4, KeysFinite DEF Keys
<1>15. ASSUME NEW g \in [Keys -> Int]
       PROVE  SumFunctionOnSet(g, Keys)
                = SumFunctionOnSet(g, mine) + SumFunctionOnSet(g, {External}) + SumFunctionOnSet(g, Rest)
  <2> HIDE DEF mine, Rest, f
  <2>1. SumFunctionOnSet(g, (mine \cup {External}) \cup Rest)
          = SumFunctionOnSet(g, mine \cup {External}) + SumFunctionOnSet(g, Rest)
    BY <1>14, KeysFinite, SumDisjoint
  <2>2. SumFunctionOnSet(g, mine \cup {External})
          = SumFunctionOnSet(g, mine) + SumFunctionOnSet(g, {External})
    BY <1>14, KeysFinite, SumDisjoint
  <2> QED BY <2>1, <2>2, <1>14
<1>16. SumFunctionOnSet(settled', Keys) = own + ext + rest
  <2> HIDE DEF f, Rest, rest, own, ext, mine
  <2> QED BY <1>9, <1>10, <1>11, <1>12, <1>13, <1>15
<1>17. SumFunctionOnSet(settled, Keys) = rest
  <2>1. settled \in [Keys -> Int]
    BY SettledSum DEF AccountInv, IInv
  <2>2. SumFunctionOnSet(settled, mine) = 0
    <3> DEFINE z == [k \in mine |-> 0]
    <3>1. IsFiniteSet(mine) /\ z \in [mine -> {0}]
      BY <1>4, KeysFinite, FS_Subset
    <3>2. \A k \in mine : z[k] \in Int /\ settled[k] = z[k]
      BY <1>4
    <3> HIDE DEF z, mine
    <3> QED BY <3>1, <3>2, SumSame, SumZeros
  <2>3. SumFunctionOnSet(settled, {External}) = 0
    <3>1. settled[External] = 0
      BY <1>1 DEF AccountInv, Accounted
    <3>2. {External} \in SUBSET Keys /\ External \in {External} /\ {External} \ {External} = {}
      BY KeysFinite
    <3>3. SumFunctionOnSet(settled, {External}) = settled[External] + SumFunctionOnSet(settled, {})
      BY <3>2, <2>1, KeysFinite, SumWithout
    <3>4. SumFunctionOnSet(settled, {}) = 0
      BY <2>1, KeysFinite, SumRecursion
    <3> QED BY <3>1, <3>3, <3>4
  <2> HIDE DEF mine, Rest, rest
  <2>4. SumFunctionOnSet(settled, Keys) = 0 + 0 + SumFunctionOnSet(settled, Rest)
    BY <2>1, <2>2, <2>3, <1>15
  <2> QED BY <2>4, <1>13 DEF rest
<1>18. Accounted'
  <2> HIDE DEF f, Rest, rest, own, ext, mine, total
  <2>1. Opened - units = rest
    BY <1>1, <1>17 DEF AccountInv, Accounted
  <2>2. settled'[External] = ext
    BY <1>4, <1>10, KeysFinite DEF f, mine
  <2>3. Opened - units' - (own + ext + rest) \in 0..(MinOrder - 1)
    BY <1>1, <1>3, <1>6, <1>7, <1>8, <1>13, <2>1
  <2> QED BY <1>1, <1>7, <1>8, <1>16, <2>2, <2>3 DEF Accounted, UnitsAccounted
<1>19. Unanswered'
  <2>1. sending' = NoClose /\ pending' = NoClose
    BY <1>1 DEF AccountInv, IInv, TypeOK, Place
  <2> QED BY <2>1, UnitsAssumption DEF Unanswered
<1> QED BY <1>18, <1>19

\* Every step accounts for the units it moves.
LEMMA StepAccounts == AccountInv /\ [Next]_vars => AccountInv'
<1> SUFFICES ASSUME AccountInv, [Next]_vars PROVE AccountInv'
  OBVIOUS
<1>1. IInv'
  BY StepKeeps DEF AccountInv
<1>2. TypeOK' /\ TypeOK
  BY <1>1 DEF IInv, AccountInv
<1>3. othersSold \in Nat /\ othersSold' \in Nat
  BY <1>2, UnitsAssumption DEF TypeOK
<1>4. CASE \/ UNCHANGED vars \/ Venue
           \/ ReadQuantity \/ PricesDone \/ StillPending \/ NeverCreated \/ DecideNothing \/ SkipPartial
           \/ CloseRefused \/ CloseUnresolved
           \/ \E k \in Keys : PriceRead(k) \/ WriteCommits(k) \/ WriteFails(k)
  <2>1. units' = units /\ settled' = settled /\ othersSold' >= othersSold
    BY <1>3, <1>4 DEF Venue, Store, EndOrder, Fill, OthersSell, vars, venueVars, bookVars, ReadQuantity, PricesDone,
       StillPending, NeverCreated, DecideNothing, SkipPartial, CloseRefused, CloseUnresolved, PriceRead,
       WriteCommits, WriteFails
  <2>2. {sending', pending'} \subseteq {sending, pending, NoClose}
    BY <1>4 DEF Venue, Store, EndOrder, Fill, OthersSell, vars, venueVars, bookVars, ReadQuantity, PricesDone,
       StillPending, NeverCreated, DecideNothing, SkipPartial, CloseRefused, CloseUnresolved, PriceRead,
       WriteCommits, WriteFails
  <2>3. \A k \in Keys : write[k] = "none" => write'[k] = "none"
    BY <1>2, <1>4 DEF TypeOK, Venue, Store, EndOrder, Fill, OthersSell, vars, venueVars, bookVars, ReadQuantity, PricesDone,
       StillPending, NeverCreated, DecideNothing, SkipPartial, CloseRefused, CloseUnresolved, PriceRead,
       WriteCommits, WriteFails, RetryFailed
  <2> QED BY <1>1, <1>2, <1>3, <2>1, <2>2, <2>3, NothingSettled DEF AccountInv
<1>5. CASE PendingEnded
  <2>1. pending \in Ids /\ sending = NoClose /\ sending' = NoClose /\ pending' = NoClose /\ othersSold' = othersSold
    BY <1>2, <1>5 DEF PendingEnded, AccountInv, IInv, TypeOK, Place, venueVars
  <2>2. CASE filled[pending] > 0
    BY <1>1, <1>5, <2>1, <2>2, FillSettled DEF PendingEnded, AccountInv
  <2>3. CASE ~(filled[pending] > 0)
    BY <1>1, <1>2, <1>3, <1>5, <2>1, <2>3, NothingSettled DEF PendingEnded, AccountInv
  <2> QED BY <2>2, <2>3
<1>6. CASE CloseEnded
  <2>1. sending \in Ids /\ pending = NoClose /\ sending' = NoClose /\ pending' = NoClose /\ othersSold' = othersSold
    BY <1>2, <1>6 DEF CloseEnded, AccountInv, IInv, TypeOK, Place, venueVars
  <2>2. CASE filled[sending] > 0
    BY <1>1, <1>6, <2>1, <2>2, FillSettled DEF CloseEnded, AccountInv
  <2>3. CASE ~(filled[sending] > 0)
    BY <1>1, <1>2, <1>3, <1>6, <2>1, <2>3, NothingSettled DEF CloseEnded, AccountInv
  <2> QED BY <2>2, <2>3
<1>7. ASSUME NEW leg \in Legs, SendClose(leg) PROVE AccountInv'
  <2> DEFINE i == <<leg, attempts[leg] + 1>>
  <2>1. i \in Ids /\ sending' = i /\ pending' = NoClose /\ units' = units /\ settled' = settled
        /\ write' = write /\ othersSold' = othersSold
    BY <1>2, <1>7, UnitsAssumption DEF SendClose, Triggered, AttemptLeft, AccountInv, IInv, Place, TypeOK, Ids, venueVars
  <2>2. settled[i] = 0 /\ write[i] = "none"
    BY <1>2, <2>1 DEF AccountInv, IInv, Fresh, TypeOK
  <2>3. Unanswered'
    BY <2>1, <2>2, UnitsAssumption DEF Unanswered
  <2>4. Accounted'
    BY <2>1 DEF AccountInv, Accounted, UnitsAccounted
  <2> QED BY <1>1, <2>3, <2>4 DEF AccountInv
<1>8. CASE SettleGone
  BY <1>1, <1>8, GoneSettled DEF AccountInv
<1> QED
  BY <1>4, <1>5, <1>6, <1>7, <1>8 DEF Next, Pass

\* At first every unit is the position's.
LEMMA InitAccounts == Init => AccountInv
<1> SUFFICES ASSUME Init PROVE AccountInv
  OBVIOUS
<1>1. settled \in [Keys -> {0}] /\ settled[External] = 0
  BY KeysFinite DEF Init
<1>2. SumFunctionOnSet(settled, Keys) = 0
  BY <1>1, KeysFinite, SumZeros
<1>3. Unanswered
  BY UnitsAssumption DEF Init, Unanswered
<1>4. Accounted
  <2> DEFINE s == SumFunctionOnSet(settled, Keys)
  <2> HIDE DEF s
  <2>1. s = 0
    BY <1>2 DEF s
  <2> QED BY <2>1, <1>1, UnitsAssumption DEF Init, Accounted, UnitsAccounted, s
<1> QED BY <1>3, <1>4, InitKeeps DEF AccountInv

\* Whatever the venue answers, no unit is lost or counted twice.
THEOREM EveryUnitAccounted == Spec => []UnitsAccounted
<1>1. Spec => []AccountInv
  BY InitAccounts, StepAccounts, PTL DEF Spec
<1>2. AccountInv => UnitsAccounted
  BY DEF AccountInv, Accounted
<1> QED BY <1>1, <1>2, PTL

-----------------------------------------------------------------------------
(* The refinement of UnitLedger. *)

\* What has a write was settled.
Written == \A k \in Keys : write[k] # "none" => settled[k] > 0

BookInv == AccountInv /\ Written

\* With nothing sent and nothing followed every fill is settled: only others can account for a
\* position that is gone.
LEMMA GoneToOthers ==
    ASSUME ~LateOrders, BookInv, SettleGone
    PROVE  /\ \A i \in Ids : settled[i] = filled[i]
           /\ settled[External] = 0 /\ units > 0 /\ units' = 0
           /\ \E n \in 0..units :
                 /\ n <= othersSold /\ units - n < MinOrder
                 /\ settled' = [settled EXCEPT ![External] = n]
                 /\ write' = [k \in Keys |-> IF settled'[k] > settled[k] THEN "writing" ELSE write[k]]
           /\ UNCHANGED <<filled, othersSold, resolved>>
<1> USE UnitsAssumption
<1>1. /\ pc = "decide" /\ units > 0
      /\ UNCHANGED <<filled, othersSold, resolved>>
      /\ write' = [k \in Keys |-> IF settled'[k] > settled[k] THEN "writing" ELSE write[k]]
  BY DEF SettleGone, Gone, venueVars
<1>2. sending = NoClose /\ pending = NoClose
  BY <1>1 DEF BookInv, AccountInv, IInv, Place, TypeOK
<1>3. \A i \in Ids : settled[i] = filled[i]
  BY <1>2 DEF BookInv, AccountInv, IInv, SettledAsFilled
<1>4. settled[External] = 0
  BY <1>1 DEF BookInv, AccountInv, Accounted
<1>5. UnsettledFills = {}
  BY <1>3 DEF UnsettledFills, BookInv, AccountInv, IInv, Settles, TypeOK, Keys
<1>6. filled \in [Ids -> Int] /\ othersSold \in Nat /\ units \in 0..Opened
  BY DEF BookInv, AccountInv, IInv, TypeOK
<1>7. SumFunctionOnSet(filled, {}) = 0
  BY <1>6, SumRecursion, KeysFinite
<1>8. PICK share \in [{} -> 0..units] :
          LET own == SumFunctionOnSet(share, {})
              ext == Smaller(units - own, othersSold)
          IN  /\ settled' = [k \in Keys |-> IF k \in {} THEN share[k]
                                            ELSE IF k = External THEN ext ELSE settled[k]]
              /\ units' = IF units - own - ext < MinOrder THEN 0 ELSE units - own - ext
  BY <1>5 DEF SettleGone
<1>9. units - (0 + othersSold) < MinOrder
  <2> DEFINE total == SumFunctionOnSet(filled, UnsettledFills)
  <2>1. units - (total + othersSold) < MinOrder
    BY DEF SettleGone
  <2>2. total = 0
    BY <1>5, <1>7
  <2> HIDE DEF total
  <2> QED BY <2>1, <2>2
<1>10. SumFunctionOnSet(share, {}) = 0
  <2>1. share \in [{} -> {0}]
    BY <1>8
  <2> QED BY <2>1, SumZeros, FS_EmptySet
<1> DEFINE ext == Smaller(units, othersSold)
<1>11. /\ settled' = [k \in Keys |-> IF k = External THEN ext ELSE settled[k]]
       /\ units' = IF units - ext < MinOrder THEN 0 ELSE units - ext
  <2>1. units - 0 = units
    BY <1>6
  <2> DEFINE own == SumFunctionOnSet(share, {})
             rest == Smaller(units - own, othersSold)
  <2>2. /\ settled' = [k \in Keys |-> IF k = External THEN rest ELSE settled[k]]
        /\ units' = IF units - own - rest < MinOrder THEN 0 ELSE units - own - rest
    BY <1>8
  <2>3. own = 0
    BY <1>10
  <2>4. rest = ext
    BY <2>1, <2>3
  <2> HIDE DEF own, rest, ext
  <2> QED BY <2>1, <2>2, <2>3, <2>4
<1>12. ext \in 0..units /\ ext <= othersSold /\ units - ext < MinOrder
  BY <1>6, <1>9 DEF Smaller
<1>13. units' = 0
  BY <1>11, <1>12
<1>14. settled' = [settled EXCEPT ![External] = ext]
  <2>1. settled \in [Keys -> 0..Opened]
    BY DEF BookInv, AccountInv, IInv, TypeOK
  <2> HIDE DEF ext
  <2> QED BY <1>11, <2>1
<1> HIDE DEF ext
<1> QED BY <1>1, <1>3, <1>4, <1>12, <1>13, <1>14

\* A fill that is settled is settled whole: the order was sized for what the position has.
LEMMA FillWhole ==
    ASSUME ~LateOrders, IInv, NEW i \in Ids, i \in {sending, pending}, filled[i] > 0, SettleFill(i)
    PROVE  /\ settled[i] = 0 /\ write[i] = "none"
           /\ units' = units - filled[i]
           /\ settled' = [settled EXCEPT ![i] = filled[i]]
           /\ \E w \in {"unpriced", "writing"} : write' = [write EXCEPT ![i] = w]
<1>1. settled[i] = 0 /\ write[i] = "none" /\ filled[i] <= qty[i] /\ qty[i] <= units
  BY DEF IInv, Room
<1>2. Smaller(filled[i], units) = filled[i]
  BY <1>1, UnitsAssumption DEF IInv, TypeOK, Smaller
<1> QED BY <1>1, <1>2 DEF SettleFill

\* Only the close that is sent or followed has a fill that is not settled.
LEMMA OthersEntered ==
    ASSUME ~LateOrders, IInv, NEW i \in Ids, i \in {sending, pending}
    PROVE  Book!EnteredBut(i)
<1>1. {sending, pending} \subseteq {i, NoClose}
  BY UnitsAssumption DEF IInv, Place, TypeOK
<1> QED BY <1>1, UnitsAssumption DEF IInv, SettledAsFilled, Book!EnteredBut

\* A step keeps a write where something was settled.
LEMMA WrittenStep == ~LateOrders /\ BookInv /\ [Next]_vars => BookInv'
<1> SUFFICES ASSUME ~LateOrders, BookInv, [Next]_vars PROVE BookInv'
  OBVIOUS
<1>1. AccountInv'
  BY StepAccounts DEF BookInv
<1>2. TypeOK /\ TypeOK' /\ IInv
  BY <1>1 DEF BookInv, AccountInv, IInv
<1> USE UnitsAssumption
<1>3. CASE \/ UNCHANGED vars \/ Venue
           \/ ReadQuantity \/ PricesDone \/ StillPending \/ NeverCreated \/ DecideNothing \/ SkipPartial
           \/ CloseRefused \/ CloseUnresolved
           \/ \E leg \in Legs : SendClose(leg)
           \/ \E k \in Keys : PriceRead(k) \/ WriteCommits(k) \/ WriteFails(k)
  <2>1. settled' = settled
    BY <1>3 DEF Venue, Store, EndOrder, Fill, OthersSell, vars, venueVars, bookVars, ReadQuantity, PricesDone,
       StillPending, NeverCreated, DecideNothing, SkipPartial, CloseRefused, CloseUnresolved, PriceRead,
       WriteCommits, WriteFails, SendClose
  <2>2. \A k \in Keys : write'[k] # "none" => write[k] # "none"
    BY <1>2, <1>3 DEF TypeOK, Venue, Store, EndOrder, Fill, OthersSell, vars, venueVars, bookVars, ReadQuantity,
       PricesDone, StillPending, NeverCreated, DecideNothing, SkipPartial, CloseRefused, CloseUnresolved, PriceRead,
       WriteCommits, WriteFails, RetryFailed, SendClose
  <2> QED BY <1>1, <2>1, <2>2 DEF BookInv, Written
<1>4. ASSUME NEW i \in Ids, i \in {sending, pending}, filled[i] > 0, SettleFill(i) PROVE Written'
  <2>1. /\ settled' = [settled EXCEPT ![i] = filled[i]]
        /\ \E w \in {"unpriced", "writing"} : write' = [write EXCEPT ![i] = w]
    BY <1>2, <1>4, FillWhole
  <2> QED BY <1>2, <1>4, <2>1 DEF Written, BookInv, TypeOK
<1>5. ASSUME UNCHANGED <<units, settled, partial, write>> PROVE Written'
  BY <1>5 DEF Written, BookInv
<1>6. CASE PendingEnded
  <2>1. pending \in Ids
    BY <1>2, <1>6 DEF PendingEnded, IInv, TypeOK, Place
  <2> QED BY <1>1, <1>4, <1>5, <1>6, <2>1 DEF PendingEnded, BookInv
<1>7. CASE CloseEnded
  <2>1. sending \in Ids
    BY <1>2, <1>7 DEF CloseEnded, IInv, TypeOK, Place
  <2> QED BY <1>1, <1>4, <1>5, <1>7, <2>1 DEF CloseEnded, BookInv
<1>8. CASE SettleGone
  <2>1. write[External] = "none"
    BY <1>8, GoneToOthers DEF BookInv, Written, Keys
  <2>2. PICK n \in 0..units :
          /\ settled' = [settled EXCEPT ![External] = n]
          /\ write' = [k \in Keys |-> IF settled'[k] > settled[k] THEN "writing" ELSE write[k]]
    BY <1>8, GoneToOthers
  <2>3. Written'
    BY <1>2, <2>1, <2>2 DEF Written, BookInv, TypeOK
  <2> QED BY <1>1, <2>3 DEF BookInv
<1> QED BY <1>3, <1>6, <1>7, <1>8 DEF Next, Pass

\* Each step keeps the book, or changes nothing the book speaks of.
LEMMA StepKeepsTheBook == ~LateOrders /\ BookInv /\ [Next]_vars => [Book!Next]_(Book!vars)
<1> SUFFICES ASSUME ~LateOrders, BookInv, [Next]_vars PROVE [Book!Next]_(Book!vars)
  OBVIOUS
<1> USE UnitsAssumption
<1>1. /\ IInv /\ TypeOK /\ Written
      /\ \A i \in Ids : i \in Keys
      /\ External \in Keys /\ Keys = Ids \cup {External}
  BY DEF BookInv, AccountInv, IInv, Keys
<1>2. ASSUME UNCHANGED <<filled, othersSold, units, settled, write, resolved>> PROVE UNCHANGED Book!vars
  BY <1>2 DEF Book!vars
<1>3. CASE \/ UNCHANGED vars
           \/ \E i \in Ids : Store(i) \/ EndOrder(i)
           \/ PricesDone \/ StillPending \/ NeverCreated \/ DecideNothing \/ SkipPartial
           \/ CloseRefused \/ CloseUnresolved
           \/ \E leg \in Legs : SendClose(leg)
  BY <1>2, <1>3 DEF vars, venueVars, bookVars, Store, EndOrder, PricesDone, StillPending, NeverCreated,
     DecideNothing, SkipPartial, CloseRefused, CloseUnresolved, SendClose
<1>4. ASSUME UNCHANGED <<filled, othersSold, units, settled, resolved>>,
             {k \in Keys : write'[k] = "written"} = {k \in Keys : write[k] = "written"}
      PROVE  UNCHANGED Book!vars
  BY <1>4 DEF Book!vars
<1>5. CASE ReadQuantity \/ \E k \in Keys : PriceRead(k) \/ WriteFails(k)
  <2>1. \A k \in Keys : write'[k] = "written" <=> write[k] = "written"
    BY <1>1, <1>5 DEF ReadQuantity, PriceRead, WriteFails, RetryFailed, TypeOK
  <2>2. UNCHANGED <<filled, othersSold, units, settled, resolved>>
    BY <1>5 DEF ReadQuantity, PriceRead, WriteFails, venueVars
  <2> QED BY <1>4, <2>1, <2>2
<1>6. ASSUME NEW i \in Ids, NEW n \in 1..Opened, Fill(i, n) PROVE Book!Sell(i, n)
  <2>1. i \in {sending, pending}
    BY <1>1, <1>6 DEF Fill, IInv, Alone
  <2>2. /\ n <= qty[i] - filled[i] /\ filled' = [filled EXCEPT ![i] = @ + n]
        /\ UNCHANGED <<othersSold, units, settled, write, resolved>>
    BY <1>6 DEF Fill, bookVars
  <2>3. qty[i] <= units /\ settled[i] = 0
    BY <1>1, <2>1 DEF IInv, Room
  <2>4. filled[i] + n <= units
    BY <1>1, <2>2, <2>3 DEF TypeOK
  <2> QED BY <1>1, <2>1, <2>2, <2>3, <2>4, OthersEntered DEF Book!Sell
<1>7. ASSUME NEW n \in 1..(Opened + Foreign), OthersSell(n) PROVE Book!SellElsewhere
  <2>1. othersSold' > othersSold
    BY <1>1, <1>7 DEF OthersSell, TypeOK
  <2>2. UNCHANGED <<filled, units, settled, write, resolved>>
    BY <1>7 DEF OthersSell, bookVars
  <2> QED BY <2>1, <2>2 DEF Book!SellElsewhere
<1>8. ASSUME NEW i \in Ids, i \in {sending, pending}, filled[i] > 0, SettleFill(i),
             UNCHANGED <<filled, othersSold, resolved>>
      PROVE  Book!Enter(i)
  <2>1. /\ settled[i] = 0 /\ write[i] = "none" /\ units' = units - filled[i]
        /\ settled' = [settled EXCEPT ![i] = filled[i]]
    BY <1>1, <1>8, FillWhole
  <2>2. PICK w \in {"unpriced", "writing"} : write' = [write EXCEPT ![i] = w]
    BY <1>1, <1>8, FillWhole
  <2>3. {k \in Keys : write'[k] = "written"} = {k \in Keys : write[k] = "written"}
    BY <1>1, <2>1, <2>2 DEF TypeOK
  <2> QED BY <1>1, <1>8, <2>1, <2>3, OthersEntered DEF Book!Enter
<1>9. CASE PendingEnded
  <2>1. pending \in Ids /\ UNCHANGED <<filled, othersSold, resolved>>
    BY <1>1, <1>9 DEF PendingEnded, IInv, TypeOK, Place, venueVars
  <2>2. CASE filled[pending] > 0
    BY <1>8, <1>9, <2>1, <2>2 DEF PendingEnded, Book!Next
  <2>3. CASE ~(filled[pending] > 0)
    BY <1>2, <1>9, <2>1, <2>3 DEF PendingEnded
  <2> QED BY <2>2, <2>3
<1>10. CASE CloseEnded
  <2>1. sending \in Ids /\ UNCHANGED <<filled, othersSold, resolved>>
    BY <1>1, <1>10 DEF CloseEnded, IInv, TypeOK, Place, venueVars
  <2>2. CASE filled[sending] > 0
    BY <1>8, <1>10, <2>1, <2>2 DEF CloseEnded, Book!Next
  <2>3. CASE ~(filled[sending] > 0)
    BY <1>2, <1>10, <2>1, <2>3 DEF CloseEnded
  <2> QED BY <2>2, <2>3
<1>11. CASE SettleGone
  <2>1. /\ \A i \in Ids : settled[i] = filled[i]
        /\ settled[External] = 0 /\ units > 0 /\ units' = 0
        /\ UNCHANGED <<filled, othersSold, resolved>>
    BY <1>11, GoneToOthers
  <2>2. PICK n \in 0..units :
          /\ n <= othersSold /\ units - n < MinOrder
          /\ settled' = [settled EXCEPT ![External] = n]
          /\ write' = [k \in Keys |-> IF settled'[k] > settled[k] THEN "writing" ELSE write[k]]
    BY <1>11, GoneToOthers
  <2>3. write[External] = "none"
    BY <1>1, <2>1 DEF Written
  <2>4. {k \in Keys : write'[k] = "written"} = {k \in Keys : write[k] = "written"}
    BY <1>1, <2>2, <2>3 DEF TypeOK
  <2>5. Book!WriteOff(n)
    BY <2>1, <2>2, <2>4 DEF Book!WriteOff
  <2> QED BY <2>2, <2>5 DEF Book!Next
<1>12. ASSUME NEW k \in Keys, WriteCommits(k) PROVE Book!Record(k)
  <2>1. /\ write[k] = "writing" /\ write' = [write EXCEPT ![k] = "written"]
        /\ resolved' = (resolved \/ ResolvesNow(write'))
        /\ UNCHANGED <<filled, othersSold, units, settled, pending, sending>>
    BY <1>12 DEF WriteCommits, venueVars
  <2>2. settled[k] > 0
    BY <1>1, <2>1 DEF Written
  <2>3. {j \in Keys : write'[j] = "written"} = {j \in Keys : write[j] = "written"} \cup {k}
    BY <1>1, <2>1 DEF TypeOK
  <2>4. \A j \in Keys : settled[j] > 0 <=> write'[j] # "none"
    BY <1>1, <2>1, <2>2 DEF TypeOK, IInv, Settles, Written
  <2>5. Unwritten(write') = {} <=> \A j \in Keys : settled[j] > 0 => write'[j] = "written"
    <3>1. write' \in [Keys -> WriteStates]
      BY <1>1, <2>1 DEF TypeOK, WriteStates
    <3> QED BY <2>4, <3>1 DEF Unwritten, WriteStates
  <2>6. units = 0 => pending = NoClose
    BY <1>1 DEF IInv, Room, TypeOK
  <2>7. ResolvesNow(write') <=> Book!Complete'
    BY <1>1, <2>1, <2>5, <2>6 DEF ResolvesNow, Book!Complete
  <2>8. resolved' = (resolved \/ Book!Complete')
    BY <2>1, <2>7
  <2> QED BY <1>1, <2>1, <2>2, <2>3, <2>8 DEF Book!Record
<1> QED
  BY <1>1, <1>3, <1>5, <1>6, <1>7, <1>9, <1>10, <1>11, <1>12 DEF Next, Venue, Pass, Book!Next

\* At a venue whose 404 is final the passes, closes, settles and rows of a position keep the book
\* that UnitLedger promises.
THEOREM KeepsTheBook == ~LateOrders => (Spec => ImplementsLedger)
<1> SUFFICES ASSUME ~LateOrders PROVE Spec => ImplementsLedger
  OBVIOUS
<1>1. Init => BookInv
  BY InitAccounts, UnitsAssumption DEF Init, BookInv, Written
<1>2. BookInv /\ [Next]_vars => BookInv'
  BY WrittenStep
<1>3. BookInv /\ [Next]_vars => [Book!Next]_(Book!vars)
  BY StepKeepsTheBook
<1>4. Init => Book!Init
  BY DEF Init, Book!Init, Keys
<1> QED
  BY <1>1, <1>2, <1>3, <1>4, PTL DEF Spec, ImplementsLedger, Book!Spec
=============================================================================
