------------------------ MODULE AlpacaAccountProofs ------------------------
(***************************************************************************)
(* Theorems about AlpacaAccount, for any entries, closes and symbols: what *)
(* the kill switch's report says of the positions that stay open, what its *)
(* second sweep never sells, and that both together are the one close that *)
(* AccountClose promises.                                                  *)
(***************************************************************************)
EXTENDS AlpacaAccount, TLAPS

\* The switch is armed from the pull on.
Armed == phase # "idle" => armed

\* A task past the lock holds it; sweep b holds it only while it is at work.
LockHeld ==
    /\ \A t \in Tasks : pc[t] \in Holding => lock = t
    /\ lock = SweepB => phase \in {"enumerate b", "sweep b"}

\* Nothing is at the venue for a task that has not sent.
Unsent ==
    \A t \in Tasks :
        pc[t] \in {"idle", "waiting", "reading before", "queued to send"} => order[t] = "none"

\* An entry that may still fill is waited for, or its task said that nobody knows.
Awaited ==
    \A e \in Entries :
        /\ order[e] \in {"sent", "working"} => pc[e] \in Holding \cup {"unresolved", "cancelled"}
        /\ pc[e] = "reading after" => order[e] = "filled"

\* A row that was not attempted has no order, a row that says CLOSED has a filled one.
RowsTrue ==
    \A r \in Sweeps \X Symbols :
        /\ row[r] \in {"none", "not attempted"} => order[r] = "none"
        /\ row[r] = "closed" => order[r] = "filled"

\* The rows each phase may have.
RowsByPhase ==
    \A s \in Symbols :
        /\ phase \in {"idle", "enumerate a"} => row[<<"a", s>>] = "none"
        /\ phase \in {"wait", "enumerate b", "sweep b", "done"} =>
              row[<<"a", s>>] \in {"none", "failed", "closed"}
        /\ phase \notin {"sweep b", "done", "cancelled"} => row[<<"b", s>>] = "none"
        /\ row[<<"b", s>>] # "none" => row[<<"a", s>>] \in {"none", "closed"}

\* The lots of entries, and those sells were sized for, come from filled entries.
LotsFilled ==
    /\ \A e \in lots \cap Entries : order[e] = "filled"
    /\ \A o \in Sells : \A e \in taken[o] \cap Entries : order[e] = "filled"

\* What a filled sell was sized for is gone.
Sold == \A o \in Sells : order[o] = "filled" => taken[o] \cap lots = {}

\* From the end of the wait on, an entry that may still fill said so, or is named.
Late ==
    phase \in {"enumerate b", "sweep b", "done"} =>
        \A e \in Entries : order[e] \in {"sent", "working"} =>
            pc[e] \in {"unresolved", "cancelled"} \/ named = e

\* A lot whose entry said so, or is named.
Excused(l) == l \in Entries /\ (pc[l] \in {"unresolved", "cancelled"} \/ named = l)

\* What is open while sweep b closes: excused, failed in sweep a, or in sweep b's hands.
Covered ==
    phase \in {"sweep b", "done"} /\ ~blind =>
        \A l \in lots :
            \/ Excused(l)
            \/ row[<<"a", Symbol(l)>>] = "failed"
            \/ row[<<"b", Symbol(l)>>] \in {"not attempted", "failed"}
            \/ row[<<"b", Symbol(l)>>] = "in flight" /\ l \in taken[<<"b", Symbol(l)>>]

\* Sweep b ends with every row decided.
Decided == phase = "done" => \A s \in Symbols : row[<<"b", s>>] \notin {"not attempted", "in flight"}

IInv ==
    /\ TypeOK /\ Armed /\ LockHeld /\ Unsent /\ Awaited /\ RowsTrue /\ RowsByPhase
    /\ LotsFilled /\ Sold /\ Late /\ Covered /\ Decided

-----------------------------------------------------------------------------
\* A lot is of a symbol.
LEMMA LotSymbols == ASSUME TypeOK, NEW l \in lots PROVE Symbol(l) \in Symbols
  BY TasksAssumption DEF TypeOK, Lots, Symbol, Tasks

\* The rows and the orders of the two sweeps.
LEMMA RowNames ==
    ASSUME NEW sweep \in Sweeps, NEW s \in Symbols
    PROVE  /\ <<sweep, s>> \in Sweeps \X Symbols /\ <<sweep, s>> \in Orders
           /\ <<sweep, s>> \in Sells /\ <<sweep, s>> \notin Tasks
  BY TasksAssumption DEF Orders, Sells

\* A row is of the first sweep or of the second.
LEMMA RowPair ==
    ASSUME NEW r \in Sweeps \X Symbols
    PROVE  \E s \in Symbols : r = <<"a", s>> \/ r = <<"b", s>>
  BY DEF Sweeps

-----------------------------------------------------------------------------
(* The steps of a task. *)

\* A task that moves, takes the lock or gives it back, and leaves the venue alone.
LEMMA TaskMoves ==
    ASSUME IInv, NEW t \in Tasks, NEW w \in TaskStates,
           pc' = [pc EXCEPT ![t] = w],
           UNCHANGED <<armed, venueVars, sweepVars>>,
           pc[t] \notin Verdicts,
           w \in Holding => lock' = t /\ lock \in {t, NoOne},
           w \notin Holding => \/ lock' = lock
                               \/ lock' = NoOne /\ lock \in {t, NoOne},
           w \in {"idle", "waiting", "reading before", "queued to send"} => order[t] = "none",
           t \in Entries /\ order[t] \in {"sent", "working"} =>
               w \in Holding \cup {"unresolved", "cancelled"},
           t \in Entries /\ w = "reading after" => order[t] = "filled"
    PROVE  IInv'
  <1> USE DEF venueVars, sweepVars
  <1>1. lock' \in {t, NoOne, lock}
    OBVIOUS
  <1>2. TypeOK'
    BY <1>1 DEF IInv, TypeOK
  <1>3. Armed'
    BY DEF IInv, Armed
  <1>4. LockHeld'
    <2>1. ASSUME NEW u \in Tasks, pc'[u] \in Holding PROVE lock' = u
      <3>1. CASE u = t
        BY <2>1, <3>1 DEF IInv, TypeOK
      <3>2. CASE u # t
        <4>1. lock = u /\ u # NoOne
          BY <2>1, <3>2, TasksAssumption DEF IInv, TypeOK, LockHeld
        <4> QED
          BY <3>2, <4>1
      <3> QED
        BY <3>1, <3>2
    <2>2. lock' = SweepB => lock = SweepB
      BY <1>1, TasksAssumption
    <2> QED
      BY <2>1, <2>2 DEF IInv, LockHeld
  <1>5. Unsent'
    BY DEF IInv, TypeOK, Unsent
  <1>6. Awaited'
    BY DEF IInv, TypeOK, Awaited, Tasks
  <1>7. RowsTrue' /\ RowsByPhase' /\ LotsFilled' /\ Sold' /\ Decided'
    BY DEF IInv, RowsTrue, RowsByPhase, LotsFilled, Sold, Decided
  <1>8. \A e \in Entries : pc[e] \in {"unresolved", "cancelled"} => pc'[e] = pc[e]
    BY DEF IInv, TypeOK, Tasks, Verdicts
  <1>9. Late'
    BY <1>8 DEF IInv, Late
  <1>10. Covered'
    BY <1>8 DEF IInv, Covered, Excused
  <1> QED
    BY <1>2, <1>3, <1>4, <1>5, <1>6, <1>7, <1>9, <1>10 DEF IInv

\* The steps of a task between two requests.
LEMMA WaitsKeep ==
    ASSUME IInv, NEW t \in Tasks,
           \/ AskForLock(t) \/ TakeLock(t) \/ ReadBefore(t) \/ SubmitAnswered(t) \/ LookUp(t)
           \/ Resolve(t) \/ ReadAfter(t) \/ CancelTask(t) \/ CancelledAnswered(t)
    PROVE  IInv'
  <1> USE DEF Goto, EndWith, TaskStates, Holding, OnTheWire, Verdicts
  <1>1. /\ pc[t] \in Holding => lock = t
        /\ pc[t] \in {"idle", "waiting", "reading before", "queued to send"} => order[t] = "none"
        /\ t \in Entries /\ order[t] \in {"sent", "working"} =>
              pc[t] \in Holding \cup {"unresolved", "cancelled"}
        /\ t \in Entries /\ pc[t] = "reading after" => order[t] = "filled"
        /\ t # NoOne /\ t # SweepB
        /\ pc \in [Tasks -> TaskStates]
    BY TasksAssumption DEF IInv, TypeOK, LockHeld, Unsent, Awaited
  <1>2. CASE AskForLock(t)
    BY <1>1, <1>2, TaskMoves DEF AskForLock
  <1>3. CASE TakeLock(t)
    BY <1>1, <1>3, TaskMoves DEF TakeLock
  <1>4. CASE ReadBefore(t)
    BY <1>1, <1>4, TaskMoves DEF ReadBefore
  <1>5. CASE SubmitAnswered(t)
    BY <1>1, <1>5, TaskMoves DEF SubmitAnswered
  <1>6. CASE LookUp(t)
    BY <1>1, <1>6, TaskMoves DEF LookUp
  <1>7. CASE Resolve(t)
    BY <1>1, <1>7, TaskMoves DEF Resolve
  <1>8. CASE ReadAfter(t)
    BY <1>1, <1>8, TaskMoves DEF ReadAfter
  <1>9. CASE CancelTask(t)
    BY <1>1, <1>9, TaskMoves DEF CancelTask
  <1>10. CASE CancelledAnswered(t)
    BY <1>1, <1>10, TaskMoves DEF CancelledAnswered
  <1> QED
    BY <1>2, <1>3, <1>4, <1>5, <1>6, <1>7, <1>8, <1>9, <1>10

\* A request is sent only by a task that holds the lock, an entry's only while not armed.
LEMMA SendKeeps ==
    ASSUME IInv, NEW t \in Tasks, Send(t)
    PROVE  IInv'
  <1> USE DEF Goto, EndWith, venueVars, sweepVars
  <1>1. /\ lock = t /\ pc[t] = "queued to send" /\ order[t] = "none"
        /\ t # NoOne /\ t # SweepB /\ t \in Orders /\ t \notin Sweeps \X Symbols
    BY TasksAssumption DEF Send, Holding, IInv, LockHeld, Unsent, Orders
  <1>2. CASE SwitchRefuses(t)
    BY <1>1, <1>2, TaskMoves DEF Send, TaskStates, Verdicts, Holding, OnTheWire
  <1>3. CASE ~SwitchRefuses(t)
    <2>1. /\ pc' = [pc EXCEPT ![t] = "on the wire"]
          /\ order' = [order EXCEPT ![t] = "sent"]
          /\ taken' = [o \in Sells |-> IF o = t THEN LotsOf(SymbolOf[t]) ELSE taken[o]]
          /\ UNCHANGED <<armed, lock, lots, phase, row, named, blind>>
      BY <1>3 DEF Send
    <2>2. LotsOf(SymbolOf[t]) \in SUBSET lots
      BY DEF LotsOf
    <2>3. TypeOK'
      BY <2>1, <2>2 DEF IInv, TypeOK, OrderStates, TaskStates, Holding, OnTheWire
    <2>4. Armed' /\ RowsByPhase' /\ Decided'
      BY <2>1 DEF IInv, Armed, RowsByPhase, Decided
    <2>5. LockHeld' /\ Unsent'
      <3>1. LockHeld'
        BY <1>1, <2>1 DEF IInv, TypeOK, LockHeld
      <3>2. Unsent'
        BY <1>1, <2>1 DEF IInv, TypeOK, Unsent, Orders
      <3> QED
        BY <3>1, <3>2
    <2>6. Awaited'
      BY <1>1, <2>1 DEF IInv, TypeOK, Awaited, Holding, OnTheWire, Orders, Tasks
    <2>7. RowsTrue'
      <3>1. \A r \in Sweeps \X Symbols : order'[r] = order[r]
        BY <1>1, <2>1 DEF IInv, TypeOK, Orders
      <3> QED
        BY <2>1, <3>1 DEF IInv, RowsTrue
    <2>8. LotsFilled'
      BY <1>1, <2>1, <2>2 DEF IInv, TypeOK, LotsFilled, Orders, Tasks
    <2>9. Sold'
      BY <1>1, <2>1 DEF IInv, TypeOK, Sold, Sells, Orders, Tasks
    <2>10. Late'
      BY <1>1, <1>3, <2>1 DEF IInv, TypeOK, Late, Armed, SwitchRefuses, Orders, Tasks
    <2>11. Covered'
      <3>1. \A l : Excused(l) => Excused(l)'
        BY <1>1, <2>1 DEF IInv, TypeOK, Excused, Tasks
      <3>2. \A s \in Symbols : taken'[<<"b", s>>] = taken[<<"b", s>>]
        BY <1>1, <2>1, RowNames DEF Sweeps
      <3>3. \A l \in lots : Symbol(l) \in Symbols
        BY LotSymbols DEF IInv
      <3> QED
        BY <2>1, <3>1, <3>2, <3>3 DEF IInv, Covered
    <2> QED
      BY <2>3, <2>4, <2>5, <2>6, <2>7, <2>8, <2>9, <2>10, <2>11 DEF IInv
  <1> QED
    BY <1>2, <1>3

\* An order the venue did not make is not awaited any more.
LEMMA NotCreatedKeeps ==
    ASSUME IInv, NEW t \in Tasks, NotCreated(t)
    PROVE  IInv'
  <1> USE DEF Goto, EndWith, venueVars, sweepVars
  <1>1. /\ lock = t /\ pc[t] \in Holding /\ order[t] = "sent"
        /\ t # NoOne /\ t # SweepB /\ t \in Orders /\ t \notin Sweeps \X Symbols
    BY TasksAssumption DEF NotCreated, Holding, OnTheWire, IInv, LockHeld, Orders
  <1>2. /\ pc' = [pc EXCEPT ![t] = "not created"] /\ lock' = NoOne
        /\ order' = [order EXCEPT ![t] = "none"]
        /\ UNCHANGED <<armed, lots, taken, phase, row, named, blind>>
    BY DEF NotCreated
  <1>3. TypeOK'
    BY <1>2 DEF IInv, TypeOK, OrderStates, TaskStates, Verdicts
  <1>4. Armed' /\ RowsByPhase' /\ Decided'
    BY <1>2 DEF IInv, Armed, RowsByPhase, Decided
  <1>5. LockHeld' /\ Unsent'
    <2>1. \A u \in Tasks : u # t => pc[u] \notin Holding /\ pc'[u] = pc[u]
      BY <1>1, <1>2 DEF IInv, TypeOK, LockHeld
    <2>2. pc'[t] \notin Holding /\ lock' # SweepB
      BY <1>2, TasksAssumption DEF IInv, TypeOK, Holding, OnTheWire
    <2>3. Unsent'
      BY <1>1, <1>2 DEF IInv, TypeOK, Unsent, Orders
    <2> QED
      BY <2>1, <2>2, <2>3 DEF LockHeld
  <1>6. Awaited'
    BY <1>1, <1>2 DEF IInv, TypeOK, Awaited, Orders, Tasks
  <1>7. RowsTrue'
    <2>1. \A r \in Sweeps \X Symbols : order'[r] = order[r]
      BY <1>1, <1>2 DEF IInv, TypeOK, Orders
    <2> QED
      BY <1>2, <2>1 DEF IInv, RowsTrue
  <1>8. LotsFilled' /\ Sold'
    BY <1>1, <1>2 DEF IInv, TypeOK, LotsFilled, Sold, Sells, Orders, Tasks
  <1>9. \A e \in Entries : pc[e] \in {"unresolved", "cancelled"} => pc'[e] = pc[e]
    BY <1>1, <1>2 DEF IInv, TypeOK, Tasks, Holding, OnTheWire
  <1>10. Late'
    BY <1>1, <1>2, <1>9 DEF IInv, TypeOK, Late, Orders, Tasks
  <1>11. Covered'
    BY <1>2, <1>9 DEF IInv, Covered, Excused
  <1> QED
    BY <1>3, <1>4, <1>5, <1>6, <1>7, <1>8, <1>10, <1>11 DEF IInv

-----------------------------------------------------------------------------
(* The steps of the venue. *)

\* An order stored or ended fills nothing.
LEMMA StoresAndEndsKeep ==
    ASSUME IInv, NEW o \in Orders, StoreOrder(o) \/ EndOrder(o)
    PROVE  IInv'
  <1> USE DEF venueVars, sweepVars
  <1>1. PICK w \in {"working", "ended"} :
            order' = [order EXCEPT ![o] = w]
    BY DEF StoreOrder, EndOrder
  <1>2. /\ UNCHANGED <<armed, lock, pc, lots, taken, phase, row, named, blind>>
        /\ order[o] \in {"sent", "working"}
    BY DEF StoreOrder, EndOrder
  <1>3. \A u \in Orders : /\ order'[u] = "filled" <=> order[u] = "filled"
                          /\ order'[u] = "none" <=> order[u] = "none"
                          /\ order'[u] \in {"sent", "working"} => order[u] \in {"sent", "working"}
    BY <1>1, <1>2 DEF IInv, TypeOK
  <1>4. TypeOK'
    BY <1>1, <1>2 DEF IInv, TypeOK, OrderStates
  <1>5. Armed' /\ RowsByPhase' /\ Decided' /\ LockHeld' /\ Covered'
    BY <1>2 DEF IInv, Armed, RowsByPhase, Decided, LockHeld, Covered, Excused
  <1>6. Unsent' /\ Awaited' /\ Late'
    BY <1>2, <1>3 DEF IInv, Unsent, Awaited, Late, Orders, Tasks
  <1>7. RowsTrue' /\ LotsFilled' /\ Sold'
    BY <1>2, <1>3 DEF IInv, RowsTrue, LotsFilled, Sold, Orders, Tasks, Sells
  <1> QED
    BY <1>4, <1>5, <1>6, <1>7 DEF IInv

\* A fill opens a lot, which only an entry does, or takes the lots it was sized for.
LEMMA FillKeeps ==
    ASSUME IInv, NEW o \in Orders, FillOrder(o)
    PROVE  IInv'
  <1> USE DEF venueVars, sweepVars
  <1>1. /\ order' = [order EXCEPT ![o] = "filled"] /\ order[o] = "working"
        /\ UNCHANGED <<armed, lock, pc, taken, phase, row, named, blind>>
    BY DEF FillOrder
  <1>2. \A u \in Orders : /\ order'[u] = "filled" <=> order[u] = "filled" \/ u = o
                          /\ order'[u] = "none" <=> order[u] = "none"
                          /\ order'[u] \in {"sent", "working"} => order[u] \in {"sent", "working"}
    BY <1>1 DEF IInv, TypeOK
  <1>3. \/ o \in Entries /\ lots' = lots \cup {o}
        \/ o \in Sells /\ o \notin Entries /\ lots' = lots \ taken[o]
    BY DEF FillOrder, Orders, Sells, Tasks
  <1>4. o \in Entries => o \notin Sells
    BY TasksAssumption DEF Sells, Tasks
  <1>5. TypeOK'
    BY <1>1, <1>3 DEF IInv, TypeOK, OrderStates, Lots
  <1>6. Armed' /\ RowsByPhase' /\ Decided' /\ LockHeld'
    BY <1>1 DEF IInv, Armed, RowsByPhase, Decided, LockHeld
  <1>7. Unsent' /\ Awaited' /\ Late'
    BY <1>1, <1>2 DEF IInv, Unsent, Awaited, Late, Orders, Tasks
  <1>8. RowsTrue'
    BY <1>1, <1>2 DEF IInv, RowsTrue, Orders
  <1>9. LotsFilled'
    BY <1>1, <1>2, <1>3 DEF IInv, LotsFilled, Orders, Tasks
  <1>10. Sold'
    <2>1. ASSUME NEW u \in Sells, order'[u] = "filled" PROVE taken[u] \cap lots' = {}
      <3>1. CASE u = o
        BY <1>3, <1>4, <3>1
      <3>2. CASE u # o
        <4>1. order[u] = "filled" /\ taken[u] \cap lots = {}
          BY <1>2, <2>1, <3>2 DEF IInv, Sold, Orders, Sells, Tasks
        <4>2. o \in Entries => o \notin taken[u]
          BY <1>1 DEF IInv, LotsFilled
        <4> QED
          BY <1>3, <4>1, <4>2
      <3> QED
        BY <3>1, <3>2
    <2> QED
      BY <1>1, <2>1 DEF Sold
  <1>11. Covered'
    <2>1. o \in Entries /\ phase \in {"sweep b", "done"} => Excused(o)
      BY <1>1 DEF IInv, Late, Excused
    <2>2. \A l : Excused(l)' = Excused(l)
      BY <1>1 DEF Excused
    <2> QED
      BY <1>1, <1>3, <2>1, <2>2 DEF IInv, Covered
  <1> QED
    BY <1>5, <1>6, <1>7, <1>8, <1>9, <1>10, <1>11 DEF IInv

-----------------------------------------------------------------------------
(* The steps of close_all_positions. *)

\* A request to close sells what is held then, once for each row.
LEMMA SendCloseKeeps ==
    ASSUME IInv, NEW sweep \in Sweeps, NEW s \in Symbols, SendClose(sweep, s)
    PROVE  IInv'
  <1> DEFINE r == <<sweep, s>>
  <1>1. /\ phase = IF sweep = "a" THEN "sweep a" ELSE "sweep b"
        /\ row[r] = "not attempted"
        /\ taken' = [taken EXCEPT ![r] = LotsOf(s)]
        /\ UNCHANGED <<armed, lock, pc, lots, phase, named, blind>>
    BY DEF SendClose, Closing, venueVars, sweepVars
  <1>2. PICK w \in {"none", "sent", "working"}, v \in {"in flight", "failed"} :
            /\ order' = [order EXCEPT ![r] = w]
            /\ row' = [row EXCEPT ![r] = v]
    <2>1. order[r] = "none" /\ order = [order EXCEPT ![r] = "none"]
      BY <1>1, RowNames DEF IInv, TypeOK, RowsTrue
    <2> QED
      BY <2>1 DEF SendClose, SetRow
  <1>3. r \in Sweeps \X Symbols /\ r \in Orders /\ r \in Sells /\ r \notin Tasks
    BY RowNames
  <1>4. order[r] = "none"
    BY <1>1, <1>3 DEF IInv, RowsTrue
  <1>5. \A t \in Tasks : order'[t] = order[t]
    BY <1>2, <1>3 DEF IInv, TypeOK, Orders
  <1>6. LotsOf(s) \in SUBSET lots /\ \A l \in lots : Symbol(l) = s => l \in LotsOf(s)
    BY DEF LotsOf
  <1> HIDE DEF r
  <1>7. TypeOK'
    BY <1>1, <1>2, <1>6 DEF IInv, TypeOK, OrderStates, Rows
  <1>8. Armed' /\ LockHeld'
    BY <1>1 DEF IInv, Armed, LockHeld
  <1>9. Unsent' /\ Awaited' /\ Late'
    BY <1>1, <1>5 DEF IInv, Unsent, Awaited, Late, Tasks
  <1>10. RowsTrue'
    BY <1>1, <1>2 DEF IInv, TypeOK, RowsTrue, Orders
  <1>11. RowsByPhase' /\ Decided'
    BY <1>1, <1>2, <1>3 DEF IInv, TypeOK, RowsByPhase, Decided, r, Sweeps
  <1>12. LotsFilled'
    BY <1>1, <1>5, <1>6 DEF IInv, TypeOK, LotsFilled, Tasks
  <1>13. Sold'
    <2>1. order'[r] # "filled"
      BY <1>2, <1>3 DEF IInv, TypeOK
    <2>2. \A o \in Sells : o # r => order'[o] = order[o] /\ taken'[o] = taken[o]
      BY <1>1, <1>2 DEF IInv, TypeOK, Orders, Sells, Tasks
    <2> QED
      BY <1>1, <2>1, <2>2 DEF IInv, Sold
  <1>14. Covered'
    <2> SUFFICES ASSUME phase \in {"sweep b", "done"}, ~blind, NEW l \in lots
                 PROVE  \/ Excused(l)'
                        \/ row'[<<"a", Symbol(l)>>] = "failed"
                        \/ row'[<<"b", Symbol(l)>>] \in {"not attempted", "failed"}
                        \/ row'[<<"b", Symbol(l)>>] = "in flight" /\ l \in taken'[<<"b", Symbol(l)>>]
      BY <1>1 DEF Covered, Symbol
    <2>1. sweep = "b" /\ Symbol(l) \in Symbols
      BY <1>1, LotSymbols DEF IInv, Sweeps
    <2>2. CASE Symbol(l) = s
      BY <1>1, <1>2, <1>3, <1>6, <2>1, <2>2 DEF IInv, TypeOK, r
    <2>3. CASE Symbol(l) # s
      <3>1. /\ row'[<<"a", Symbol(l)>>] = row[<<"a", Symbol(l)>>]
            /\ row'[<<"b", Symbol(l)>>] = row[<<"b", Symbol(l)>>]
            /\ taken'[<<"b", Symbol(l)>>] = taken[<<"b", Symbol(l)>>]
        BY <1>1, <1>2, <2>1, <2>3 DEF IInv, TypeOK, r, Sweeps, Sells
      <3> QED
        BY <1>1, <3>1 DEF IInv, Covered, Excused
    <2> QED
      BY <2>2, <2>3
  <1> QED
    BY <1>7, <1>8, <1>9, <1>10, <1>11, <1>12, <1>13, <1>14 DEF IInv

\* A row that is decided: refused as nothing held, failed, or confirmed sold.
LEMMA RowDecided ==
    ASSUME IInv, NEW sweep \in Sweeps, NEW s \in Symbols,
           CloseOfNothing(sweep, s) \/ ResolveClose(sweep, s)
    PROVE  IInv'
  <1> DEFINE r == <<sweep, s>>
  <1>1. /\ phase = IF sweep = "a" THEN "sweep a" ELSE "sweep b"
        /\ UNCHANGED <<armed, lock, pc, order, lots, taken, phase, named, blind>>
    BY DEF CloseOfNothing, ResolveClose, Closing, venueVars
  <1>2. PICK v \in {"none", "failed", "closed"} :
            /\ row' = [row EXCEPT ![r] = v]
            /\ v = "closed" => order[r] = "filled" /\ row[r] = "in flight"
            /\ v = "none" => /\ sweep = "b" /\ row[r] = "not attempted"
                             /\ LotsOf(s) = {}
    BY DEF CloseOfNothing, ResolveClose, SetRow
  <1>3. r \in Sweeps \X Symbols /\ r \in Orders /\ r \in Sells /\ r \notin Tasks
    BY RowNames
  <1>4. row[r] \in {"not attempted", "in flight"}
    BY DEF CloseOfNothing, ResolveClose
  <1>5. v = "none" => order[r] = "none"
    BY <1>2, <1>3 DEF IInv, RowsTrue
  <1> HIDE DEF r
  <1>6. TypeOK'
    BY <1>1, <1>2 DEF IInv, TypeOK, Rows
  <1>7. Armed' /\ LockHeld' /\ Unsent' /\ Awaited' /\ LotsFilled' /\ Sold' /\ Late'
    BY <1>1 DEF IInv, Armed, LockHeld, Unsent, Awaited, LotsFilled, Sold, Late
  <1>8. RowsTrue'
    BY <1>1, <1>2, <1>5 DEF IInv, TypeOK, RowsTrue
  <1>9. RowsByPhase' /\ Decided'
    BY <1>1, <1>2, <1>3, <1>4 DEF IInv, TypeOK, RowsByPhase, Decided, r, Sweeps
  <1>10. Covered'
    <2> SUFFICES ASSUME phase \in {"sweep b", "done"}, ~blind, NEW l \in lots
                 PROVE  \/ Excused(l)'
                        \/ row'[<<"a", Symbol(l)>>] = "failed"
                        \/ row'[<<"b", Symbol(l)>>] \in {"not attempted", "failed"}
                        \/ row'[<<"b", Symbol(l)>>] = "in flight" /\ l \in taken'[<<"b", Symbol(l)>>]
      BY <1>1 DEF Covered, Symbol
    <2>1. sweep = "b" /\ Symbol(l) \in Symbols
      BY <1>1, LotSymbols DEF IInv, Sweeps
    <2>2. Excused(l)' = Excused(l) /\ row'[<<"a", Symbol(l)>>] = row[<<"a", Symbol(l)>>]
      BY <1>1, <1>2, <2>1 DEF IInv, TypeOK, r, Sweeps, Excused
    <2>3. \/ Excused(l)
          \/ row[<<"a", Symbol(l)>>] = "failed"
          \/ row[<<"b", Symbol(l)>>] \in {"not attempted", "failed"}
          \/ row[<<"b", Symbol(l)>>] = "in flight" /\ l \in taken[<<"b", Symbol(l)>>]
      BY DEF IInv, Covered
    <2>4. CASE Symbol(l) = s
      <3>1. v # "none"
        BY <1>2, <2>4 DEF LotsOf
      <3>2. v = "closed" => l \notin taken[r] /\ row[r] = "in flight"
        BY <1>2, <1>3 DEF IInv, Sold
      <3>3. row'[r] = v
        BY <1>2, <1>3 DEF IInv, TypeOK
      <3>4. r = <<"b", Symbol(l)>>
        BY <2>1, <2>4 DEF r
      <3> QED
        BY <2>2, <2>3, <3>1, <3>2, <3>3, <3>4
    <2>5. CASE Symbol(l) # s
      <3>1. row'[<<"b", Symbol(l)>>] = row[<<"b", Symbol(l)>>]
        BY <1>2, <2>1, <2>5 DEF IInv, TypeOK, r, Sweeps
      <3> QED
        BY <1>1, <2>2, <2>3, <3>1
    <2> QED
      BY <2>4, <2>5
  <1> QED
    BY <1>6, <1>7, <1>8, <1>9, <1>10 DEF IInv

\* The sweep's other steps leave the tasks and the venue alone.
LEMMA PhaseMoves ==
    ASSUME IInv, UNCHANGED <<pc, order, lots, taken>>,
           lock' = lock \/ (lock' = NoOne /\ lock = SweepB)
    PROVE  Unsent' /\ Awaited' /\ LotsFilled' /\ Sold' /\ (\A t \in Tasks : pc'[t] \in Holding => lock' = t)
  BY TasksAssumption DEF IInv, LockHeld, Unsent, Awaited, LotsFilled, Sold

\* The pull, the first listing and the end of the first sweep.
LEMMA FirstSweepKeeps ==
    ASSUME IInv, Pull \/ EnumerateA \/ EndSweepA
    PROVE  IInv'
  <1>1. UNCHANGED <<lock, pc, order, lots, taken, named, blind>>
    BY DEF Pull, EnumerateA, EndSweepA, venueVars, sweepVars
  <1>2. Unsent' /\ Awaited' /\ LotsFilled' /\ Sold' /\ (\A t \in Tasks : pc'[t] \in Holding => lock' = t)
    BY <1>1, PhaseMoves
  <1>3. CASE Pull
    BY <1>1, <1>2, <1>3 DEF Pull, IInv, TypeOK, Armed, LockHeld, RowsTrue, RowsByPhase, Late, Covered,
       Decided, Phases, sweepVars, venueVars
  <1>4. CASE EnumerateA
    <2>1. phase = "enumerate a" /\ phase' \in {"sweep a", "raised"} /\ armed' = armed
      BY <1>4 DEF EnumerateA
    <2>2. row' = row \/ \E found \in Listings : Publish("a", found)
      BY <1>4 DEF EnumerateA
    <2>3. \A s \in Symbols : row[<<"a", s>>] = "none" /\ row[<<"b", s>>] = "none"
      BY <2>1 DEF IInv, RowsByPhase
    <2>4. /\ row' \in [Sweeps \X Symbols -> Rows]
          /\ \A s \in Symbols : row'[<<"a", s>>] \in {"none", "not attempted"}
          /\ \A s \in Symbols : row'[<<"b", s>>] = "none"
      <3>1. CASE row' = row
        BY <2>3, <3>1 DEF IInv, TypeOK
      <3>2. CASE \E found \in Listings : Publish("a", found)
        <4>1. row' \in [Sweeps \X Symbols -> Rows]
          BY <3>2 DEF Publish, IInv, TypeOK, Rows
        <4>2. \A s \in Symbols : /\ row'[<<"a", s>>] \in {"none", "not attempted"}
                                 /\ row'[<<"b", s>>] = "none"
          BY <2>3, <3>2 DEF Publish, Sweeps
        <4> QED
          BY <4>1, <4>2
      <3> QED
        BY <2>2, <3>1, <3>2
    <2>5. TypeOK'
      BY <1>1, <2>1, <2>4 DEF IInv, TypeOK, Phases
    <2>6. RowsTrue'
      <3>1. ASSUME NEW r \in Sweeps \X Symbols
            PROVE  row[r] = "none" /\ row'[r] \in {"none", "not attempted"}
        <4>1. PICK s \in Symbols : r = <<"a", s>> \/ r = <<"b", s>>
          BY RowPair
        <4> QED
          BY <2>3, <2>4, <4>1
      <3> QED
        BY <1>1, <3>1 DEF IInv, RowsTrue
    <2>7. RowsByPhase'
      BY <2>1, <2>4 DEF RowsByPhase
    <2>8. Armed' /\ LockHeld' /\ Late' /\ Covered' /\ Decided'
      BY <1>1, <1>2, <2>1 DEF IInv, Armed, LockHeld, Late, Covered, Decided
    <2> QED
      BY <1>2, <2>5, <2>6, <2>7, <2>8 DEF IInv
  <1>5. CASE EndSweepA
    <2>1. phase = "sweep a" /\ phase' = "wait" /\ armed' = armed /\ row' = row
      BY <1>5 DEF EndSweepA
    <2>2. \A s \in Symbols : row[<<"a", s>>] \in {"none", "failed", "closed"}
      BY <1>5 DEF EndSweepA, Swept, IInv, TypeOK, Rows, Sweeps
    <2>3. TypeOK' /\ RowsTrue'
      BY <1>1, <2>1 DEF IInv, TypeOK, RowsTrue, Phases
    <2>4. RowsByPhase'
      BY <2>1, <2>2 DEF IInv, RowsByPhase
    <2>5. Armed' /\ LockHeld' /\ Late' /\ Covered' /\ Decided'
      BY <1>1, <1>2, <2>1 DEF IInv, Armed, LockHeld, Late, Covered, Decided
    <2> QED
      BY <1>2, <2>3, <2>4, <2>5 DEF IInv
  <1> QED
    BY <1>3, <1>4, <1>5

\* The wait ends with the lock, or with the name of its holder: nobody else may still fill.
LEMMA WaitEndsKeeps ==
    ASSUME IInv, LockForB \/ WaitExpires
    PROVE  IInv'
  <1>1. /\ phase = "wait" /\ phase' = "enumerate b"
        /\ UNCHANGED <<armed, pc, order, lots, taken, row, blind>>
        /\ \/ lock = NoOne /\ lock' = SweepB /\ named' = named
           \/ lock' = lock /\ named' = lock
    BY DEF LockForB, WaitExpires, venueVars
  <1>2. lock \in Tasks \cup {NoOne} /\ SweepB # NoOne
    BY <1>1, TasksAssumption DEF IInv, TypeOK, LockHeld
  <1>3. TypeOK'
    BY <1>1, <1>2 DEF IInv, TypeOK, Phases
  <1>4. LockHeld'
    <2>1. \A t \in Tasks : pc[t] \in Holding => lock = t /\ t # NoOne
      BY TasksAssumption DEF IInv, LockHeld
    <2> QED
      BY <1>1, <2>1 DEF LockHeld
  <1>5. Armed' /\ Unsent' /\ Awaited' /\ RowsTrue' /\ LotsFilled' /\ Sold'
    BY <1>1 DEF IInv, Armed, Unsent, Awaited, RowsTrue, LotsFilled, Sold
  <1>6. RowsByPhase' /\ Covered' /\ Decided'
    BY <1>1 DEF IInv, RowsByPhase, Covered, Decided
  <1>7. Late'
    <2>1. ASSUME NEW e \in Entries, order[e] \in {"sent", "working"}, pc[e] \in Holding
          PROVE  named' = e
      BY <1>1, <2>1, TasksAssumption DEF IInv, LockHeld, Tasks
    <2> QED
      BY <1>1, <2>1 DEF IInv, Awaited, Late
  <1> QED
    BY <1>3, <1>4, <1>5, <1>6, <1>7 DEF IInv

\* The second listing: what is open has a row of sweep b, or the FAILED row of sweep a.
LEMMA SecondListingKeeps ==
    ASSUME IInv, EnumerateB
    PROVE  IInv'
  <1>1. /\ phase = "enumerate b" /\ phase' \in {"sweep b", "done"}
        /\ UNCHANGED <<armed, pc, order, lots, taken, named>>
        /\ lock' = lock \/ (lock' = NoOne /\ lock = SweepB)
        /\ phase' = "sweep b" => lock' = lock /\ blind' = blind
        /\ phase' = "done" => blind' = TRUE /\ row' = row /\ lock' # SweepB
    <2>1. SweepB # NoOne
      BY TasksAssumption
    <2>2. CASE phase' = "sweep b"
      BY <2>2 DEF EnumerateB, venueVars
    <2>3. CASE phase' = "done"
      BY <2>1, <2>3 DEF EnumerateB, ReleaseByB, venueVars
    <2> QED
      BY <2>2, <2>3 DEF EnumerateB
  <1>2. Unsent' /\ Awaited' /\ LotsFilled' /\ Sold' /\ (\A t \in Tasks : pc'[t] \in Holding => lock' = t)
    BY <1>1, PhaseMoves
  <1>3. PICK found \in SUBSET Symbols :
            /\ row' = [r \in Sweeps \X Symbols |->
                         IF r[1] = "b" /\ r[2] \in found THEN "not attempted" ELSE row[r]]
            /\ \A s \in found : row[<<"a", s>>] \in {"none", "closed"}
            /\ phase' = "sweep b" =>
                 \A l \in lots : row[<<"a", Symbol(l)>>] \in {"none", "closed"} => Symbol(l) \in found
    <2>1. CASE phase' = "done"
      <3>1. row = [r \in Sweeps \X Symbols |->
                      IF r[1] = "b" /\ r[2] \in {} THEN "not attempted" ELSE row[r]]
        BY DEF IInv, TypeOK
      <3> WITNESS {} \in SUBSET Symbols
      <3> QED
        BY <1>1, <2>1, <3>1
    <2>2. CASE phase' = "sweep b"
      <3>1. PICK listed \in Listings : Publish("b", ToCloseInB(listed))
        BY <2>2 DEF EnumerateB
      <3>2. listed \subseteq Symbols /\ \A l \in lots : Symbol(l) \in listed
        <4>1. \A o \in Sells : Target(o) \in Symbols
          BY TasksAssumption DEF Sells, Target, Tasks
        <4>2. \A l \in lots : Symbol(l) \in Symbols
          BY LotSymbols DEF IInv
        <4> QED
          BY <3>1, <4>1, <4>2 DEF Listings, OpenSymbols
      <3>3. /\ ToCloseInB(listed) \in SUBSET Symbols
            /\ \A s \in ToCloseInB(listed) : row[<<"a", s>>] \in {"none", "closed"}
            /\ \A l \in lots : row[<<"a", Symbol(l)>>] \in {"none", "closed"} =>
                  Symbol(l) \in ToCloseInB(listed)
        BY <3>2 DEF ToCloseInB
      <3> QED
        BY <3>1, <3>3 DEF Publish
    <2> QED
      BY <1>1, <2>1, <2>2
  <1>4. /\ \A s \in Symbols : row'[<<"a", s>>] = row[<<"a", s>>]
        /\ \A s \in Symbols : row'[<<"b", s>>] = IF s \in found THEN "not attempted" ELSE "none"
    <2>1. \A s \in Symbols : row[<<"b", s>>] = "none"
      BY <1>1 DEF IInv, RowsByPhase
    <2> QED
      BY <1>3, <2>1 DEF Sweeps
  <1>5. TypeOK'
    BY <1>1, <1>3 DEF IInv, TypeOK, Rows, Phases
  <1>6. Armed' /\ LockHeld' /\ Late'
    BY <1>1, <1>2 DEF IInv, Armed, LockHeld, Late
  <1>7. RowsTrue'
    <2>1. \A s \in Symbols : order[<<"b", s>>] = "none"
      BY <1>1, RowNames DEF IInv, RowsByPhase, RowsTrue, Sweeps
    <2>2. ASSUME NEW s \in Symbols
          PROVE  /\ row'[<<"a", s>>] = row[<<"a", s>>]
                 /\ row'[<<"b", s>>] \in {"none", "not attempted"} /\ order[<<"b", s>>] = "none"
      BY <1>4, <2>1
    <2>3. \A r \in Sweeps \X Symbols :
             row'[r] = row[r] \/ (row'[r] \in {"none", "not attempted"} /\ order[r] = "none")
      <3> TAKE r \in Sweeps \X Symbols
      <3>1. PICK s \in Symbols : r = <<"a", s>> \/ r = <<"b", s>>
        BY RowPair, Zenon
      <3>2. CASE r = <<"a", s>>
        BY <2>2, <3>2, Zenon
      <3>3. CASE r = <<"b", s>>
        BY <2>2, <3>3, Zenon
      <3> QED
        BY <3>1, <3>2, <3>3
    <2> QED
      BY <1>1, <2>3 DEF IInv, RowsTrue
  <1>8. RowsByPhase'
    <2> SUFFICES ASSUME NEW s \in Symbols
                 PROVE  /\ phase' \in {"idle", "enumerate a"}
                           => row'[<<"a", s>>] = "none"
                        /\ phase' \in {"wait", "enumerate b", "sweep b", "done"}
                           => row'[<<"a", s>>] \in {"none", "failed", "closed"}
                        /\ phase' \notin {"sweep b", "done", "cancelled"}
                           => row'[<<"b", s>>] = "none"
                        /\ row'[<<"b", s>>] # "none"
                           => row'[<<"a", s>>] \in {"none", "closed"}
      BY DEF RowsByPhase
    <2>1. phase' \in {"sweep b", "done"}
      BY <1>1
    <2>2. row[<<"a", s>>] \in {"none", "failed", "closed"}
      BY <1>1 DEF IInv, RowsByPhase
    <2>3. row'[<<"a", s>>] = row[<<"a", s>>]
      BY <1>4
    <2>4. row'[<<"b", s>>] # "none" => s \in found
      BY <1>4
    <2>5. s \in found => row[<<"a", s>>] \in {"none", "closed"}
      BY <1>3
    <2> QED
      BY <2>1, <2>2, <2>3, <2>4, <2>5
  <1>9. Decided'
    BY <1>1 DEF IInv, RowsByPhase, Decided
  <1>10. Covered'
    <2> SUFFICES ASSUME phase' = "sweep b", NEW l \in lots
                 PROVE  \/ row'[<<"a", Symbol(l)>>] = "failed"
                        \/ row'[<<"b", Symbol(l)>>] = "not attempted"
      BY <1>1 DEF Covered
    <2>1. Symbol(l) \in Symbols
      BY LotSymbols DEF IInv
    <2>2. row[<<"a", Symbol(l)>>] \in {"none", "failed", "closed"}
      BY <1>1, <2>1 DEF IInv, RowsByPhase
    <2> QED
      BY <1>3, <1>4, <2>1, <2>2
  <1> QED
    BY <1>2, <1>5, <1>6, <1>7, <1>8, <1>9, <1>10 DEF IInv

\* The report leaves, at the end of the second sweep or with a cancellation.
LEMMA ReportLeavesKeeps ==
    ASSUME IInv, EndSweepB \/ CancelSweep
    PROVE  IInv'
  <1>1. /\ UNCHANGED <<armed, pc, order, lots, taken, row, named, blind>>
        /\ phase # "idle" /\ phase' \in {"done", "cancelled"}
        /\ lock' = lock \/ (lock' = NoOne /\ lock = SweepB)
        /\ lock' # SweepB
        /\ phase' = "done" => phase = "sweep b" /\ Swept("b")
    <2>1. SweepB # NoOne
      BY TasksAssumption
    <2>2. CASE EndSweepB
      BY <2>1, <2>2 DEF EndSweepB, ReleaseByB, venueVars
    <2>3. CASE CancelSweep
      BY <2>1, <2>3 DEF CancelSweep, ReleaseByB, venueVars
    <2> QED
      BY <2>2, <2>3
  <1>2. Unsent' /\ Awaited' /\ LotsFilled' /\ Sold' /\ (\A t \in Tasks : pc'[t] \in Holding => lock' = t)
    BY <1>1, PhaseMoves
  <1>3. TypeOK' /\ Armed' /\ LockHeld' /\ RowsTrue'
    BY <1>1, <1>2 DEF IInv, TypeOK, Armed, LockHeld, RowsTrue, Phases
  <1>4. RowsByPhase'
    BY <1>1 DEF IInv, RowsByPhase
  <1>5. Late' /\ Covered'
    BY <1>1 DEF IInv, Late, Covered, Excused
  <1>6. Decided'
    BY <1>1 DEF Decided, Swept
  <1> QED
    BY <1>2, <1>3, <1>4, <1>5, <1>6 DEF IInv

-----------------------------------------------------------------------------
\* The initial states satisfy the invariant.
LEMMA InitKeeps == Init => IInv
  <1> SUFFICES ASSUME Init PROVE IInv
    OBVIOUS
  <1>1. TypeOK
    BY DEF Init, TypeOK, TaskStates, OrderStates, Lots, Phases, Rows
  <1>2. Armed /\ LockHeld /\ Unsent /\ Awaited /\ RowsTrue /\ RowsByPhase
    BY TasksAssumption DEF Init, Armed, LockHeld, Unsent, Awaited, RowsTrue, RowsByPhase, Orders, Tasks,
       Sweeps, Holding, OnTheWire
  <1>3. LotsFilled /\ Sold /\ Late /\ Covered /\ Decided
    BY TasksAssumption DEF Init, LotsFilled, Sold, Late, Covered, Decided, Sells, Orders, Tasks
  <1> QED
    BY <1>1, <1>2, <1>3 DEF IInv

\* Every step keeps the invariant.
LEMMA StepKeeps == IInv /\ [Next]_vars => IInv'
  <1> SUFFICES ASSUME IInv, [Next]_vars PROVE IInv'
    OBVIOUS
  <1>1. ASSUME NEW t \in Tasks, AskForLock(t) \/ TaskStep(t) \/ NotCreated(t) \/ CancelTask(t)
        PROVE  IInv'
    BY <1>1, WaitsKeep, SendKeeps, NotCreatedKeeps DEF TaskStep
  <1>2. ASSUME NEW o \in Orders, VenueStep(o)
        PROVE  IInv'
    BY <1>2, StoresAndEndsKeep, FillKeeps DEF VenueStep
  <1>3. CASE Pull \/ SweepStep \/ CancelSweep
    BY <1>3, SendCloseKeeps, RowDecided, FirstSweepKeeps, WaitEndsKeeps, SecondListingKeeps,
       ReportLeavesKeeps DEF SweepStep
  <1>4. CASE UNCHANGED vars
    BY <1>4 DEF vars, venueVars, sweepVars, IInv, TypeOK, Armed, LockHeld, Unsent, Awaited, RowsTrue,
       RowsByPhase, LotsFilled, Sold, Late, Covered, Excused, Decided
  <1> QED
    BY <1>1, <1>2, <1>3, <1>4 DEF Next

-----------------------------------------------------------------------------
\* The inductive invariant holds in every reachable state.
THEOREM Inductive == Spec => []IInv
  BY InitKeeps, StepKeeps, PTL DEF Spec

\* Every variable keeps its type.
THEOREM TypeCorrect == Spec => []TypeOK
  <1>1. IInv => TypeOK
    BY DEF IInv
  <1> QED
    BY <1>1, Inductive, PTL

\* The rows cover what is open when the sweep reports.
LEMMA ReportCovers == IInv => ExposureReported
  <1> SUFFICES ASSUME IInv, phase = "done", ~blind, NEW l \in lots
               PROVE  \/ \E sweep \in Sweeps : row[<<sweep, Symbol(l)>>] = "failed"
                      \/ named # NoOne /\ SymbolOf[named] = Symbol(l)
                      \/ \E e \in Entries \cap LotsOf(Symbol(l)) : pc[e] \in {"unresolved", "cancelled"}
    BY DEF ExposureReported, OpenSymbols
  <1>1. Symbol(l) \in Symbols
    BY LotSymbols DEF IInv
  <1>2. row[<<"b", Symbol(l)>>] \notin {"not attempted", "in flight"}
    BY <1>1 DEF IInv, Decided
  <1>3. Excused(l) \/ row[<<"a", Symbol(l)>>] = "failed" \/ row[<<"b", Symbol(l)>>] = "failed"
    BY <1>2 DEF IInv, Covered
  <1>4. Excused(l) /\ named = l => named # NoOne /\ SymbolOf[named] = Symbol(l)
    BY TasksAssumption DEF Excused, Symbol, Tasks
  <1> QED
    BY <1>3, <1>4 DEF Excused, LotsOf, Sweeps

\* Whatever is still open when the sweep reports is in its report, or its own task said that
\* nobody knows.
THEOREM ReportWhole == Spec => []ExposureReported
  BY ReportCovers, Inductive, PTL

\* Sweep b never sells what sweep a may still be selling.
THEOREM NeverSoldTwice == Spec => []NoSecondSell
  <1>1. IInv => NoSecondSell
    <2> SUFFICES ASSUME IInv, NEW s \in Symbols, order[<<"b", s>>] # "none"
                 PROVE  order[<<"a", s>>] \in {"none", "filled"}
      BY DEF NoSecondSell
    <2>1. row[<<"b", s>>] # "none"
      BY DEF IInv, RowsTrue, Sweeps
    <2>2. row[<<"a", s>>] \in {"none", "closed"}
      BY <2>1 DEF IInv, RowsByPhase
    <2> QED
      BY <2>2 DEF IInv, RowsTrue, Sweeps
  <1> QED
    BY <1>1, Inductive, PTL

\* CLOSED means sold.
THEOREM ClosedMeansSold == Spec => []ClosedIsSold
  <1>1. IInv => ClosedIsSold
    BY DEF IInv, RowsTrue, Sold, ClosedIsSold, Sells
  <1> QED
    BY <1>1, Inductive, PTL

\* No entry leaves over an armed switch.
THEOREM NoLateEntry == Spec => NoEntryOnceArmed
  <1> DEFINE Stays == armed => \A e \in Entries : order[e] = "none" => order'[e] = "none"
  <1>1. IInv /\ [Next]_vars => [Stays]_vars
    <2> SUFFICES ASSUME IInv, Next, armed, NEW e \in Entries, order[e] = "none"
                 PROVE  order'[e] = "none"
      OBVIOUS
    <2>1. e \in Tasks /\ e \in Orders /\ e \notin Sweeps \X Symbols
      BY TasksAssumption DEF Tasks, Orders
    <2>2. ASSUME NEW t \in Tasks, Send(t)
          PROVE  order'[e] = "none"
      BY <2>1, <2>2 DEF Send, SwitchRefuses, IInv, TypeOK
    <2>3. ASSUME NEW t \in Tasks, ~Send(t),
                 AskForLock(t) \/ TaskStep(t) \/ NotCreated(t) \/ CancelTask(t)
          PROVE  order'[e] = "none"
      BY <2>1, <2>3 DEF AskForLock, TaskStep, TakeLock, ReadBefore, SubmitAnswered, LookUp, Resolve,
         ReadAfter, CancelledAnswered, NotCreated, CancelTask, venueVars, IInv, TypeOK
    <2>4. ASSUME NEW o \in Orders, VenueStep(o)
          PROVE  order'[e] = "none"
      BY <2>1, <2>4 DEF VenueStep, StoreOrder, FillOrder, EndOrder, IInv, TypeOK
    <2>5. ASSUME NEW sweep \in Sweeps, NEW s \in Symbols, SendClose(sweep, s)
          PROVE  order'[e] = "none"
      <3>1. order' = order \/ \E w \in OrderStates : order' = [order EXCEPT ![<<sweep, s>>] = w]
        BY <2>5 DEF SendClose, OrderStates
      <3>2. e # <<sweep, s>>
        BY <2>1
      <3> QED
        BY <2>1, <3>1, <3>2 DEF IInv, TypeOK
    <2>6. CASE /\ Pull \/ SweepStep \/ CancelSweep
               /\ \A sweep \in Sweeps, s \in Symbols : ~SendClose(sweep, s)
      BY <2>6 DEF Pull, SweepStep, CancelSweep, EnumerateA, EndSweepA, LockForB, WaitExpires,
         EnumerateB, EndSweepB, CloseOfNothing, ResolveClose, venueVars
    <2> QED
      BY <2>2, <2>3, <2>4, <2>5, <2>6 DEF Next, SweepStep
  <1> QED
    BY <1>1, Inductive, PTL DEF Spec, NoEntryOnceArmed

-----------------------------------------------------------------------------
(* The close of the account as one step. *)

\* What the report answers for, once there is one.
LEMMA ReportAnswers == IInv => OneClose!Accounted /\ CalledClosed \cap lots = {}
  <1> SUFFICES ASSUME IInv, phase = "done"
               PROVE  OneClose!Accounted /\ CalledClosed \cap lots = {}
    BY DEF OneClose!Accounted, CloseState, CalledClosed
  <1>1. ASSUME NEW l \in lots
        PROVE  \/ Symbol(l) \in CalledOpen
               \/ \E e \in SaidToBeOpen \cap lots : Symbol(e) = Symbol(l)
    <2>1. Symbol(l) \in Symbols /\ Symbol(l) \in OpenSymbols
      BY LotSymbols DEF IInv, OpenSymbols
    <2>2. \/ \E sweep \in Sweeps : row[<<sweep, Symbol(l)>>] = "failed"
          \/ blind
          \/ named # NoOne /\ SymbolOf[named] = Symbol(l)
          \/ \E e \in Entries \cap LotsOf(Symbol(l)) : pc[e] \in {"unresolved", "cancelled"}
      BY <2>1, ReportCovers DEF ExposureReported
    <2> QED
      BY <2>1, <2>2 DEF CalledOpen, SaidToBeOpen, LotsOf
  <1>2. \A l : OneClose!SymbolAt(l) = Symbol(l)
    BY DEF OneClose!SymbolAt, Symbol
  <1>3. OneClose!Accounted
    BY <1>1, <1>2 DEF OneClose!Accounted
  <1>4. CalledClosed \cap lots = {}
    <2>1. CalledClosed = UNION {taken[r] : r \in {r \in Sweeps \X Symbols : row[r] = "closed"}}
      BY DEF CalledClosed
    <2>2. ASSUME NEW r \in Sweeps \X Symbols, row[r] = "closed"
          PROVE  taken[r] \cap lots = {}
      <3>1. order[r] = "filled"
        BY <2>2 DEF IInv, RowsTrue
      <3>2. r \in Sells
        BY DEF Sells
      <3> QED
        BY <3>1, <3>2 DEF IInv, Sold
    <2> QED
      BY <2>1, <2>2
  <1> QED
    BY <1>3, <1>4

LEMMA ReportStillAnswers == IInv' => OneClose!Accounted' /\ (CalledClosed \cap lots = {})'
  BY ReportAnswers, PTL

\* While nothing of the close moves, its report does not.
LEMMA SameReport ==
    ASSUME UNCHANGED <<phase, row, named, blind>>, \A r \in Sweeps \X Symbols : taken'[r] = taken[r]
    PROVE  CloseState' = CloseState /\ CalledOpen' = CalledOpen /\ CalledClosed' = CalledClosed
  BY DEF CloseState, CalledOpen, CalledClosed

\* Under way, there is none.
Ended == {"idle", "done", "raised", "cancelled"}

LEMMA NoReportYet ==
    /\ phase # "done" => CalledOpen = {} /\ CalledClosed = {}
    /\ phase \notin Ended => CloseState = "running"
  BY DEF CloseState, CalledOpen, CalledClosed, Ended

LEMMA NoReportThen ==
    /\ phase' # "done" => CalledOpen' = {} /\ CalledClosed' = {}
    /\ phase' \notin Ended => CloseState' = "running"
  BY DEF CloseState, CalledOpen, CalledClosed, Ended

LEMMA EntryNames ==
    ASSUME NEW e \in Entries
    PROVE  e \in Tasks /\ e \in Orders /\ e \notin Sweeps \X Symbols /\ e \notin Closes /\ e \notin Sells
  BY TasksAssumption DEF Tasks, Orders, Sells

\* A task that moves, and leaves the venue and the close alone: it says that its entry may
\* be open, or nothing that anybody reads.
LEMMA MoveIsSaid ==
    ASSUME IInv, NEW t \in Tasks, NEW w, pc' = [pc EXCEPT ![t] = w],
           pc[t] \notin {"unresolved", "cancelled"},
           UNCHANGED <<venueVars, sweepVars>>
    PROVE  [OneClose!Next]_(OneClose!vars)
  <1>1. CloseState' = CloseState /\ CalledOpen' = CalledOpen /\ CalledClosed' = CalledClosed
    BY SameReport DEF venueVars, sweepVars
  <1>2. lots' = lots /\ MaybeSent' = MaybeSent
    BY DEF venueVars, MaybeSent
  <1>3. \A e \in Entries : pc'[e] = IF e = t THEN w ELSE pc[e]
    BY EntryNames DEF IInv, TypeOK
  <1>4. CASE t \in Entries /\ w \in {"unresolved", "cancelled"}
    <2>1. SaidToBeOpen' = SaidToBeOpen \cup {t}
      BY <1>3, <1>4 DEF SaidToBeOpen
    <2>2. OneClose!Excuse(t)
      BY <1>1, <1>2, <2>1 DEF OneClose!Excuse
    <2> QED
      BY <1>4, <2>2 DEF OneClose!Next
  <1>5. CASE ~(t \in Entries /\ w \in {"unresolved", "cancelled"})
    <2>1. SaidToBeOpen' = SaidToBeOpen
      BY <1>3, <1>5 DEF SaidToBeOpen
    <2> QED
      BY <1>1, <1>2, <2>1 DEF OneClose!vars
  <1> QED
    BY <1>4, <1>5

\* A task waits, reads, looks up, resolves, ends or is cancelled.
LEMMA WaitsAreSaid ==
    ASSUME IInv, NEW t \in Tasks,
           \/ AskForLock(t) \/ TakeLock(t) \/ ReadBefore(t) \/ SubmitAnswered(t) \/ LookUp(t)
           \/ Resolve(t) \/ ReadAfter(t) \/ CancelTask(t) \/ CancelledAnswered(t)
    PROVE  [OneClose!Next]_(OneClose!vars)
  <1>1. /\ pc[t] \notin {"unresolved", "cancelled"} /\ UNCHANGED <<venueVars, sweepVars>>
        /\ \E w : pc' = [pc EXCEPT ![t] = w]
    BY DEF AskForLock, TakeLock, ReadBefore, SubmitAnswered, LookUp, Resolve, ReadAfter, CancelTask,
       CancelledAnswered, Goto, EndWith, Holding, OnTheWire
  <1>2. PICK w : pc' = [pc EXCEPT ![t] = w]
    BY <1>1
  <1> QED
    BY <1>1, <1>2, MoveIsSaid

\* A request that leaves: an entry's only before the pull.
LEMMA SendIsEntered ==
    ASSUME IInv, NEW t \in Tasks, Send(t)
    PROVE  [OneClose!Next]_(OneClose!vars)
  <1>1. CASE SwitchRefuses(t)
    <2>1. pc[t] \notin {"unresolved", "cancelled"} /\ UNCHANGED <<venueVars, sweepVars>>
      BY <1>1 DEF Send, venueVars
    <2>2. pc' = [pc EXCEPT ![t] = "refused by the switch"]
      BY <1>1 DEF Send, EndWith, Goto
    <2> QED
      BY <2>1, <2>2, MoveIsSaid
  <1>2. CASE ~SwitchRefuses(t)
    <2>1. /\ pc[t] = "queued to send" /\ pc' = [pc EXCEPT ![t] = "on the wire"]
          /\ order' = [order EXCEPT ![t] = "sent"]
          /\ taken' = [o \in Sells |-> IF o = t THEN LotsOf(SymbolOf[t]) ELSE taken[o]]
          /\ lots' = lots /\ UNCHANGED <<phase, row, named, blind>>
      BY <1>2 DEF Send, Goto, sweepVars
    <2>2. \A r \in Sweeps \X Symbols : taken'[r] = taken[r]
      BY <2>1, TasksAssumption DEF Sells
    <2>3. CloseState' = CloseState /\ CalledOpen' = CalledOpen /\ CalledClosed' = CalledClosed
      BY <2>1, <2>2, SameReport
    <2>4. SaidToBeOpen' = SaidToBeOpen
      <3>1. \A e \in Entries : pc'[e] \in {"unresolved", "cancelled"} <=> pc[e] \in {"unresolved", "cancelled"}
        BY <2>1, EntryNames DEF IInv, TypeOK
      <3> QED
        BY <3>1 DEF SaidToBeOpen
    <2>5. \A e \in Entries : order'[e] = IF e = t THEN "sent" ELSE order[e]
      BY <2>1, EntryNames DEF IInv, TypeOK
    <2>6. CASE t \in Entries
      <3>1. CloseState = "idle"
        BY <1>2, <2>6 DEF SwitchRefuses, IInv, TypeOK, Armed, CloseState
      <3>2. MaybeSent' = MaybeSent \cup {t}
        BY <2>5, <2>6 DEF MaybeSent
      <3>3. OneClose!Enter(t)
        BY <2>1, <2>3, <2>4, <3>1, <3>2 DEF OneClose!Enter
      <3> QED
        BY <2>6, <3>3 DEF OneClose!Next
    <2>7. CASE t \notin Entries
      <3>1. MaybeSent' = MaybeSent
        BY <2>5, <2>7 DEF MaybeSent
      <3> QED
        BY <2>1, <2>3, <2>4, <3>1 DEF OneClose!vars
    <2> QED
      BY <2>6, <2>7
  <1> QED
    BY <1>1, <1>2

\* The venue made no order.
LEMMA NotCreatedIsBounced ==
    ASSUME IInv, NEW t \in Tasks, NotCreated(t)
    PROVE  [OneClose!Next]_(OneClose!vars)
  <1>1. /\ pc[t] \in {"on the wire", "looking up"} /\ pc' = [pc EXCEPT ![t] = "not created"]
        /\ order[t] = "sent" /\ order' = [order EXCEPT ![t] = "none"]
        /\ lots' = lots /\ taken' = taken /\ UNCHANGED <<phase, row, named, blind>>
    BY DEF NotCreated, EndWith, Goto, sweepVars
  <1>2. CloseState' = CloseState /\ CalledOpen' = CalledOpen /\ CalledClosed' = CalledClosed
    BY <1>1, SameReport
  <1>3. SaidToBeOpen' = SaidToBeOpen
    <2>1. \A e \in Entries : pc'[e] \in {"unresolved", "cancelled"} <=> pc[e] \in {"unresolved", "cancelled"}
      BY <1>1, EntryNames DEF IInv, TypeOK
    <2> QED
      BY <2>1 DEF SaidToBeOpen
  <1>4. \A e \in Entries : order'[e] = IF e = t THEN "none" ELSE order[e]
    BY <1>1, EntryNames DEF IInv, TypeOK
  <1>5. CASE t \in Entries
    <2>1. t \in MaybeSent /\ t \notin lots /\ MaybeSent' = MaybeSent \ {t}
      BY <1>1, <1>4, <1>5 DEF MaybeSent, IInv, LotsFilled
    <2>2. OneClose!Bounce(t)
      BY <1>1, <1>2, <1>3, <2>1 DEF OneClose!Bounce
    <2> QED
      BY <1>5, <2>2 DEF OneClose!Next
  <1>6. CASE t \notin Entries
    <2>1. MaybeSent' = MaybeSent
      BY <1>4, <1>6 DEF MaybeSent
    <2> QED
      BY <1>1, <1>2, <1>3, <2>1 DEF OneClose!vars
  <1> QED
    BY <1>5, <1>6

\* The venue stores an order, fills it or ends it.
LEMMA VenueIsMarket ==
    ASSUME IInv, IInv', NEW o \in Orders, VenueStep(o)
    PROVE  [OneClose!Next]_(OneClose!vars)
  <1>1. /\ order[o] \in {"sent", "working"} /\ pc' = pc /\ taken' = taken /\ UNCHANGED <<phase, row, named, blind>>
        /\ \E w \in {"working", "filled", "ended"} : order' = [order EXCEPT ![o] = w]
    BY DEF VenueStep, StoreOrder, FillOrder, EndOrder, sweepVars
  <1>2. CloseState' = CloseState /\ CalledOpen' = CalledOpen /\ CalledClosed' = CalledClosed
    BY <1>1, SameReport
  <1>3. SaidToBeOpen' = SaidToBeOpen
    BY <1>1 DEF SaidToBeOpen
  <1>4. MaybeSent' = MaybeSent
    BY <1>1 DEF MaybeSent, IInv, TypeOK
  <1>5. OneClose!Accounted' /\ CalledClosed' \cap lots' = {}
    BY ReportStillAnswers
  <1>6. CASE lots' = lots
    BY <1>2, <1>3, <1>4, <1>6 DEF OneClose!vars
  <1>7. CASE FillOrder(o) /\ o \in Entries
    <2>1. lots' = lots \cup {o} /\ o \in MaybeSent /\ o \notin CalledClosed
      BY <1>1, <1>2, <1>5, <1>7 DEF FillOrder, MaybeSent
    <2>2. OneClose!Open(o)
      BY <1>2, <1>3, <1>4, <1>5, <2>1 DEF OneClose!Open
    <2> QED
      BY <1>7, <2>2 DEF OneClose!Next
  <1>8. CASE FillOrder(o) /\ o \notin Entries
    <2>1. taken[o] \in SUBSET lots /\ lots' = lots \ taken[o]
      BY <1>8 DEF FillOrder
    <2>2. OneClose!Sell(taken[o])
      BY <1>2, <1>3, <1>4, <1>5, <2>1 DEF OneClose!Sell
    <2> QED
      BY <2>1, <2>2 DEF OneClose!Next
  <1> QED
    BY <1>6, <1>7, <1>8 DEF VenueStep, StoreOrder, EndOrder

\* The pull, and the ends of the close; and what its sweeps do in between.
Fails   == CancelSweep \/ (EnumerateA /\ phase' = "raised")
Reports == EndSweepB \/ (EnumerateB /\ phase' = "done")

GoesOn ==
    \/ EndSweepA \/ LockForB \/ WaitExpires
    \/ EnumerateA /\ phase' # "raised"
    \/ EnumerateB /\ phase' # "done"
    \/ \E sweep \in Sweeps, s \in Symbols :
          SendClose(sweep, s) \/ CloseOfNothing(sweep, s) \/ ResolveClose(sweep, s)

\* The sweeps while they go on: nobody outside sees them.
LEMMA SweepsAreHidden ==
    ASSUME IInv, GoesOn
    PROVE  UNCHANGED OneClose!vars
  <1>1. phase \notin Ended /\ phase' \notin Ended
    BY DEF GoesOn, EndSweepA, LockForB, WaitExpires, EnumerateA, EnumerateB, SendClose, CloseOfNothing, ResolveClose,
       Closing, Ended, sweepVars
  <1>2. lots' = lots /\ pc' = pc
    BY DEF GoesOn, EndSweepA, LockForB, WaitExpires, EnumerateA, EnumerateB, SendClose, CloseOfNothing, ResolveClose,
       venueVars
  <1>3. \A e \in Entries : order'[e] = order[e]
    <2>1. CASE order' = order
      BY <2>1
    <2>2. ASSUME NEW sweep \in Sweeps, NEW s \in Symbols, SendClose(sweep, s)
          PROVE  \A e \in Entries : order'[e] = order[e]
      <3>1. order' = order \/ \E w : order' = [order EXCEPT ![<<sweep, s>>] = w]
        BY <2>2 DEF SendClose
      <3>2. \A e \in Entries : e # <<sweep, s>> /\ e \in Orders
        BY EntryNames, RowNames
      <3> QED
        BY <3>1, <3>2 DEF IInv, TypeOK
    <2> QED
      BY <2>1, <2>2 DEF GoesOn, EndSweepA, LockForB, WaitExpires, EnumerateA, EnumerateB, CloseOfNothing, ResolveClose,
         venueVars
  <1>4. MaybeSent' = MaybeSent /\ SaidToBeOpen' = SaidToBeOpen
    BY <1>2, <1>3 DEF MaybeSent, SaidToBeOpen
  <1> QED
    BY <1>1, <1>2, <1>4, NoReportYet, NoReportThen DEF OneClose!vars, Ended

\* The pull, and how the close ends.
LEMMA EndsAreOne ==
    ASSUME IInv, IInv',
           Pull \/ Fails \/ Reports
    PROVE  OneClose!Next
  <1>1. lots' = lots /\ MaybeSent' = MaybeSent /\ SaidToBeOpen' = SaidToBeOpen
    BY DEF Pull, Fails, Reports, CancelSweep, EndSweepB, EnumerateA, EnumerateB, venueVars, MaybeSent, SaidToBeOpen
  <1>2. CASE Pull
    <2>1. phase = "idle" /\ phase' = "enumerate a"
      BY <1>2 DEF Pull
    <2>2. OneClose!Pull
      BY <1>1, <2>1, NoReportYet, NoReportThen DEF OneClose!Pull, CloseState
    <2> QED
      BY <2>2 DEF OneClose!Next
  <1>3. CASE Fails
    <2>1. phase \notin Ended /\ phase' \in {"raised", "cancelled"}
      BY <1>3 DEF Fails, CancelSweep, EnumerateA, Ended
    <2>2. OneClose!Fail
      BY <1>1, <2>1, NoReportYet, NoReportThen DEF OneClose!Fail, CloseState, Ended
    <2> QED
      BY <2>2 DEF OneClose!Next
  <1>4. CASE Reports
    <2>1. phase \notin Ended /\ phase' = "done"
      BY <1>4 DEF Reports, EndSweepB, EnumerateB, Ended
    <2>2. CloseState = "running" /\ CloseState' = "reported"
      BY <2>1, NoReportYet DEF CloseState
    <2>3. CalledOpen' \subseteq Symbols
      BY DEF CalledOpen
    <2>4. OneClose!Accounted' /\ CalledClosed' \cap lots = {}
      BY <1>1, ReportStillAnswers
    <2>5. OneClose!Report
      BY <1>1, <2>2, <2>3, <2>4 DEF OneClose!Report
    <2> QED
      BY <2>5 DEF OneClose!Next
  <1> QED
    BY <1>2, <1>3, <1>4

\* ClosesAsOne: for whoever pulls the switch the two sweeps are one close, whose report answers
\* for what is open then and later, whatever entries were on the wire (close_all_positions).
THEOREM OneStepClose == Spec => ClosesAsOne
  <1>1. Init => OneClose!Init
    BY DEF Init, OneClose!Init, CloseState, MaybeSent, SaidToBeOpen, CalledOpen, CalledClosed, Orders, Tasks
  <1>2. IInv /\ IInv' /\ [Next]_vars => [OneClose!Next]_(OneClose!vars)
    <2> SUFFICES ASSUME IInv, IInv', [Next]_vars PROVE [OneClose!Next]_(OneClose!vars)
      OBVIOUS
    <2>1. ASSUME NEW t \in Tasks, AskForLock(t) \/ TaskStep(t) \/ NotCreated(t) \/ CancelTask(t)
          PROVE  [OneClose!Next]_(OneClose!vars)
      BY <2>1, WaitsAreSaid, SendIsEntered, NotCreatedIsBounced DEF TaskStep
    <2>2. ASSUME NEW o \in Orders, VenueStep(o)
          PROVE  [OneClose!Next]_(OneClose!vars)
      BY <2>2, VenueIsMarket
    <2>3. CASE Pull \/ SweepStep \/ CancelSweep
      <3>1. Pull \/ Fails \/ Reports \/ GoesOn
        BY <2>3 DEF SweepStep, Fails, Reports, GoesOn
      <3> QED
        BY <3>1, SweepsAreHidden, EndsAreOne
    <2>4. CASE UNCHANGED vars
      BY <2>4 DEF vars, venueVars, sweepVars, OneClose!vars, CloseState, MaybeSent, SaidToBeOpen, CalledOpen,
         CalledClosed
    <2> QED
      BY <2>1, <2>2, <2>3, <2>4 DEF Next
  <1> QED
    BY <1>1, <1>2, Inductive, PTL DEF Spec, ClosesAsOne, OneClose!Spec
=============================================================================
