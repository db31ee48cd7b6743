--------------------------- MODULE AlpacaAccount ---------------------------
(***************************************************************************)
(* One Alpaca account when the kill switch is pulled                       *)
(* (services/broker/alpaca.py).  Entries (place_order) and engine closes   *)
(* (place_close) take the account's order lock and keep it through their   *)
(* verdict; the switch is read under the lock and again on the account's   *)
(* one worker thread, right before the request goes out.  The kill         *)
(* switch's close_all_positions sweeps twice: sweep "a" takes no lock,      *)
(* sweep "b" waits for it, for a bounded time only.                        *)
(*                                                                         *)
(* The venue is the environment: it stores, fills or ends orders in its    *)
(* own time, an answer may be lost, a POST may be stored after its answer  *)
(* was lost, and a listing may still show a position that was just closed. *)
(* It never leaves an open position out of a listing.                      *)
(***************************************************************************)
EXTENDS FiniteSets

CONSTANTS
    Entries,     \* place_order tasks, each one opens a lot of its symbol
    Closes,      \* place_close tasks of the engine
    Symbols,
    SymbolOf,    \* the symbol of each task
    SweepB,      \* the lock holder "close_all_positions sweep (b)"
    NoOne        \* the lock is free; no entry is named

Tasks  == Entries \cup Closes
Sweeps == {"a", "b"}
Lots   == Symbols \cup Entries           \* a lot held before, and one per entry
Sells  == Closes \cup (Sweeps \X Symbols)
Orders == Tasks \cup (Sweeps \X Symbols)

ASSUME TasksAssumption ==
    /\ Entries \cap Closes = {} /\ Symbols \cap Entries = {}
    /\ SymbolOf \in [Tasks -> Symbols]
    /\ SweepB \notin Tasks /\ NoOne \notin Tasks \cup {SweepB}
    /\ Tasks \cap (Sweeps \X Symbols) = {}

VARIABLES
    armed,     \* KILL_SWITCH_STATE.armed
    lock,      \* the holder of the account's order lock
    pc,        \* where each task is
    order,     \* the venue's view of every order
    lots,      \* the lots held at the venue
    taken,     \* the lots each sell order was sized for
    phase,     \* where close_all_positions is
    row,       \* its report: one row per sweep and symbol
    named,     \* the holder named by the in-flight row of sweep b
    blind      \* the second enumeration failed, and a row says so

venueVars == <<order, lots, taken>>
sweepVars == <<phase, row, named, blind>>
vars == <<armed, lock, pc, venueVars, sweepVars>>

Symbol(l)  == IF l \in Symbols THEN l ELSE SymbolOf[l]
Target(o)  == IF o \in Tasks THEN SymbolOf[o] ELSE o[2]
LotsOf(s)  == {l \in lots : Symbol(l) = s}
OpenSymbols == {Symbol(l) : l \in lots}

\* Where a task is while it holds the lock, and what it ends with.
OnTheWire == {"on the wire", "cancelled on the wire"}
Holding  == {"reading before", "queued to send", "looking up", "resolving", "reading after"}
            \cup OnTheWire
Verdicts == {"refused by the switch", "not sent", "not created", "filled", "ended unfilled",
             "unresolved", "cancelled"}
TaskStates  == {"idle", "waiting"} \cup Holding \cup Verdicts
OrderStates == {"none", "sent", "working", "filled", "ended"}
Phases == {"idle", "enumerate a", "sweep a", "wait", "enumerate b", "sweep b",
           "done", "raised", "cancelled"}
Rows   == {"none", "not attempted", "in flight", "failed", "closed"}

TypeOK ==
    /\ armed \in BOOLEAN
    /\ lock \in Tasks \cup {SweepB, NoOne}
    /\ pc \in [Tasks -> TaskStates]
    /\ order \in [Orders -> OrderStates]
    /\ lots \subseteq Lots
    /\ taken \in [Sells -> SUBSET Lots]
    /\ phase \in Phases
    /\ row \in [Sweeps \X Symbols -> Rows]
    /\ named \in Tasks \cup {NoOne}
    /\ blind \in BOOLEAN

Init ==
    /\ armed = FALSE /\ lock = NoOne
    /\ pc = [t \in Tasks |-> "idle"]
    /\ order = [o \in Orders |-> "none"]
    /\ lots \in SUBSET Symbols
    /\ taken = [o \in Sells |-> {}]
    /\ phase = "idle"
    /\ row = [r \in Sweeps \X Symbols |-> "none"]
    /\ named = NoOne /\ blind = FALSE

-----------------------------------------------------------------------------
(* place_order and place_close. *)

\* Mutant: the gate in the loop is thought to be enough.
NeverRefuses(t) == FALSE

\* refuse_if_armed.
SwitchRefuses(t) == t \in Entries /\ armed

Goto(t, where) == pc' = [pc EXCEPT ![t] = where]

\* The verdict is returned or raised, and the lock is released.
EndWith(t, verdict) == Goto(t, verdict) /\ lock' = NoOne

\* The refusals before the lock (size, minimum, asset, budget) send nothing: no step here.
AskForLock(t) ==
    /\ pc[t] = "idle"
    /\ Goto(t, "waiting")
    /\ UNCHANGED <<armed, lock, venueVars, sweepVars>>

TakeLock(t) ==
    /\ pc[t] = "waiting" /\ lock = NoOne
    /\ IF SwitchRefuses(t)
       THEN EndWith(t, "refused by the switch")
       ELSE /\ lock' = t
            /\ Goto(t, IF t \in Entries THEN "reading before" ELSE "queued to send")
    /\ UNCHANGED <<armed, venueVars, sweepVars>>

\* The quantity held before the entry; a read that fails raises, and nothing is sent.
ReadBefore(t) ==
    /\ pc[t] = "reading before"
    /\ \/ Goto(t, "queued to send") /\ UNCHANGED lock
       \/ EndWith(t, "not sent")
    /\ UNCHANGED <<armed, venueVars, sweepVars>>

\* One thread serves the account: nothing else runs on it while a request is out.
WorkerFree == \A t \in Tasks : pc[t] \notin OnTheWire

\* The job on the worker: the check at the send, then the request.
Send(t) ==
    /\ pc[t] = "queued to send" /\ WorkerFree
    /\ IF SwitchRefuses(t)
       THEN EndWith(t, "refused by the switch") /\ UNCHANGED <<order, taken>>
       ELSE /\ Goto(t, "on the wire")
            /\ order' = [order EXCEPT ![t] = "sent"]
            /\ taken' = [o \in Sells |-> IF o = t THEN LotsOf(SymbolOf[t]) ELSE taken[o]]
            /\ UNCHANGED lock
    /\ UNCHANGED <<armed, lots, sweepVars>>

\* submit_order returned the order, or failed without an answer: then it is looked up.
SubmitAnswered(t) ==
    /\ pc[t] = "on the wire"
    /\ \/ order[t] # "sent" /\ Goto(t, "resolving")
       \/ Goto(t, "looking up")
    /\ UNCHANGED <<armed, lock, venueVars, sweepVars>>

\* The venue read the request and answered that it made no order.
NotCreated(t) ==
    /\ pc[t] \in {"on the wire", "looking up"} /\ order[t] = "sent"
    /\ order' = [order EXCEPT ![t] = "none"]
    /\ EndWith(t, "not created")
    /\ UNCHANGED <<armed, lots, taken, sweepVars>>

\* Mutant: the lookups go on until the order is found.
LookUpForEver(t) ==
    /\ pc[t] = "looking up"
    /\ order[t] # "sent" /\ Goto(t, "resolving")
    /\ UNCHANGED <<armed, lock, venueVars, sweepVars>>

\* _find_submitted_order: found, or not found within the budget.
LookUp(t) ==
    /\ pc[t] = "looking up"
    /\ \/ order[t] # "sent" /\ Goto(t, "resolving") /\ UNCHANGED lock
       \/ EndWith(t, "unresolved")
    /\ UNCHANGED <<armed, venueVars, sweepVars>>

\* _resolve_order: the order is terminal, or the budget is spent (a partial fill that may
\* still grow is not terminal).
Resolve(t) ==
    /\ pc[t] = "resolving"
    /\ \/ /\ order[t] = "filled"
          /\ IF t \in Entries THEN Goto(t, "reading after") /\ UNCHANGED lock
                              ELSE EndWith(t, "filled")
       \/ order[t] = "ended" /\ EndWith(t, "ended unfilled")
       \/ EndWith(t, "unresolved")
    /\ UNCHANGED <<armed, venueVars, sweepVars>>

\* The quantity held after the fill, readable or not: the fill is reported either way.
ReadAfter(t) ==
    /\ pc[t] = "reading after"
    /\ EndWith(t, "filled")
    /\ UNCHANGED <<armed, venueVars, sweepVars>>

\* A task cancelled at an await.  On the worker's queue the job is withdrawn, and nothing
\* is sent; a request on the wire is awaited to completion first, with the lock.
CancelTask(t) ==
    /\ pc[t] \in ({"waiting"} \cup Holding) \ {"cancelled on the wire"}
    /\ IF pc[t] = "on the wire"
       THEN Goto(t, "cancelled on the wire") /\ UNCHANGED lock
       ELSE Goto(t, "cancelled") /\ lock' = IF lock = t THEN NoOne ELSE lock
    /\ UNCHANGED <<armed, venueVars, sweepVars>>

\* Its answer, whatever it is, is logged, and CancelledError is raised.
CancelledAnswered(t) ==
    /\ pc[t] = "cancelled on the wire"
    /\ EndWith(t, "cancelled")
    /\ UNCHANGED <<armed, venueVars, sweepVars>>

-----------------------------------------------------------------------------
(* The venue. *)

StoreOrder(o) ==
    /\ order[o] = "sent"
    /\ order' = [order EXCEPT ![o] = "working"]
    /\ UNCHANGED <<armed, lock, pc, lots, taken, sweepVars>>

\* An entry's fill opens its lot; a sell's fill needs the lots it was sized for.
FillOrder(o) ==
    /\ order[o] = "working"
    /\ order' = [order EXCEPT ![o] = "filled"]
    /\ IF o \in Entries THEN lots' = lots \cup {o}
                        ELSE taken[o] \subseteq lots /\ lots' = lots \ taken[o]
    /\ UNCHANGED <<armed, lock, pc, taken, sweepVars>>

EndOrder(o) ==
    /\ order[o] = "working"
    /\ order' = [order EXCEPT ![o] = "ended"]
    /\ UNCHANGED <<armed, lock, pc, lots, taken, sweepVars>>

\* What get_all_positions may list: every open position, and perhaps one just closed.
Listings ==
    LET justClosed == {Target(o) : o \in {x \in Sells : order[x] = "filled"}}
    IN  {OpenSymbols \cup lagging : lagging \in SUBSET justClosed}

-----------------------------------------------------------------------------
(* close_all_positions. *)

\* trigger() arms the switch before its sweep calls the adapter.
Pull ==
    /\ phase = "idle"
    /\ armed' = TRUE
    /\ phase' = "enumerate a"
    /\ UNCHANGED <<lock, pc, venueVars, row, named, blind>>

\* A row for every position, before the first close is sent.
Publish(sweep, found) ==
    row' = [r \in Sweeps \X Symbols |->
               IF r[1] = sweep /\ r[2] \in found THEN "not attempted" ELSE row[r]]

EnumerateA ==
    /\ phase = "enumerate a" /\ WorkerFree
    /\ \/ \E found \in Listings : Publish("a", found) /\ phase' = "sweep a"
       \/ phase' = "raised" /\ UNCHANGED row
    /\ UNCHANGED <<armed, lock, pc, venueVars, named, blind>>

SetRow(sweep, s, disposition) == row' = [row EXCEPT ![<<sweep, s>>] = disposition]

Closing(sweep) ==
    /\ phase = IF sweep = "a" THEN "sweep a" ELSE "sweep b"

\* close_position(symbol) for the next row.  The venue answers with an order, or refuses
\* it, or the answer is lost and the order may exist.
SendClose(sweep, s) ==
    /\ Closing(sweep) /\ WorkerFree
    /\ row[<<sweep, s>>] = "not attempted"
    /\ \A x \in Symbols : row[<<sweep, x>>] # "in flight"
    /\ LotsOf(s) # {}
    /\ taken' = [taken EXCEPT ![<<sweep, s>>] = LotsOf(s)]
    /\ \/ /\ order' = [order EXCEPT ![<<sweep, s>>] = "working"]
          /\ SetRow(sweep, s, "in flight")
       \/ /\ order' = [order EXCEPT ![<<sweep, s>>] = "sent"]
          /\ SetRow(sweep, s, "failed")
       \/ /\ SetRow(sweep, s, "failed")
          /\ UNCHANGED order
    /\ UNCHANGED <<armed, lock, pc, lots, phase, named, blind>>

\* The venue refuses the close: position does not exist.  If sweep a confirmed this symbol
\* closed it was listing lag and b's row goes; otherwise the row is FAILED.
CloseOfNothing(sweep, s) ==
    /\ Closing(sweep) /\ WorkerFree
    /\ row[<<sweep, s>>] = "not attempted"
    /\ \A x \in Symbols : row[<<sweep, x>>] # "in flight"
    /\ LotsOf(s) = {}
    /\ SetRow(sweep, s, IF sweep = "b" /\ row[<<"a", s>>] = "closed" THEN "none" ELSE "failed")
    /\ UNCHANGED <<armed, lock, pc, venueVars, phase, named, blind>>

\* Mutant: a close the venue accepted is a closed position.
AcceptedIsClosed(sweep, s) ==
    /\ Closing(sweep)
    /\ row[<<sweep, s>>] = "in flight"
    /\ SetRow(sweep, s, "closed")
    /\ UNCHANGED <<armed, lock, pc, venueVars, phase, named, blind>>

\* _close_outcome: CLOSED only for a close the venue reports filled.
ResolveClose(sweep, s) ==
    /\ Closing(sweep)
    /\ row[<<sweep, s>>] = "in flight"
    /\ \/ order[<<sweep, s>>] = "filled" /\ SetRow(sweep, s, "closed")
       \/ SetRow(sweep, s, "failed")
    /\ UNCHANGED <<armed, lock, pc, venueVars, phase, named, blind>>

Swept(sweep) == \A s \in Symbols : row[<<sweep, s>>] \notin {"not attempted", "in flight"}

EndSweepA ==
    /\ phase = "sweep a" /\ Swept("a")
    /\ phase' = "wait"
    /\ UNCHANGED <<armed, lock, pc, venueVars, row, named, blind>>

\* Mutant: the holder's name is taken after sweep b wrote its own.
LockNamesItself ==
    /\ phase = "wait" /\ lock = NoOne
    /\ lock' = SweepB /\ named' = lock'
    /\ phase' = "enumerate b"
    /\ UNCHANGED <<armed, pc, venueVars, row, blind>>

\* Mutant: sweep b waits for an entry as long as it takes.
WaitsForEntries ==
    /\ phase = "wait" /\ lock \notin Entries
    /\ named' = lock
    /\ phase' = "enumerate b"
    /\ UNCHANGED <<armed, lock, pc, venueVars, row, blind>>

\* Sweep b waits for the lock, so for the entry that holds it.
LockForB ==
    /\ phase = "wait" /\ lock = NoOne
    /\ lock' = SweepB
    /\ phase' = "enumerate b"
    /\ UNCHANGED <<armed, pc, venueVars, row, named, blind>>

\* The wait for the lock is bounded; when it expires a NOT_ATTEMPTED row names the holder,
\* or nobody if the lock was given back between the timer and this task's next turn.
WaitExpires ==
    /\ phase = "wait"
    /\ named' = lock
    /\ phase' = "enumerate b"
    /\ UNCHANGED <<armed, lock, pc, venueVars, row, blind>>

ReleaseByB == lock' = IF lock = SweepB THEN NoOne ELSE lock

\* Mutants: sweep b closes whatever is listed, or only what sweep a never saw.
CloseAllListed(found) == found
CloseUnseen(found) == {s \in found : row[<<"a", s>>] = "none"}

\* A close of sweep a whose row is not CLOSED may still be working: never a second sell.
ToCloseInB(found) == {s \in found : row[<<"a", s>>] \in {"none", "closed"}}

EnumerateB ==
    /\ phase = "enumerate b" /\ WorkerFree
    /\ \/ /\ \E found \in Listings : Publish("b", ToCloseInB(found))
          /\ phase' = "sweep b"
          /\ UNCHANGED <<lock, blind>>
       \/ /\ blind' = TRUE
          /\ phase' = "done"
          /\ ReleaseByB
          /\ UNCHANGED row
    /\ UNCHANGED <<armed, pc, venueVars, named>>

EndSweepB ==
    /\ phase = "sweep b" /\ Swept("b")
    /\ phase' = "done"
    /\ ReleaseByB
    /\ UNCHANGED <<armed, pc, venueVars, row, named, blind>>

\* The sweep task is cancelled (a shutdown): the report leaves with the exception.
CancelSweep ==
    /\ phase \in {"enumerate a", "sweep a", "wait", "enumerate b", "sweep b"}
    /\ phase' = "cancelled"
    /\ ReleaseByB
    /\ UNCHANGED <<armed, pc, venueVars, row, named, blind>>

-----------------------------------------------------------------------------
TaskStep(t) ==
    \/ TakeLock(t) \/ ReadBefore(t) \/ Send(t) \/ SubmitAnswered(t)
    \/ LookUp(t) \/ Resolve(t) \/ ReadAfter(t) \/ CancelledAnswered(t)

VenueStep(o) == StoreOrder(o) \/ FillOrder(o) \/ EndOrder(o)

SweepStep ==
    \/ EnumerateA \/ EndSweepA \/ LockForB \/ WaitExpires \/ EnumerateB \/ EndSweepB
    \/ \E sweep \in Sweeps, s \in Symbols :
          SendClose(sweep, s) \/ CloseOfNothing(sweep, s) \/ ResolveClose(sweep, s)

Next ==
    \/ Pull \/ SweepStep \/ CancelSweep
    \/ \E t \in Tasks : AskForLock(t) \/ TaskStep(t) \/ NotCreated(t) \/ CancelTask(t)
    \/ \E o \in Orders : VenueStep(o)

Spec == Init /\ [][Next]_vars

\* The sweep is a ready task; a request on the wire is bounded by the HTTP timeouts.
Fairness == WF_vars(SweepStep) /\ \A t \in Tasks : WF_vars(SubmitAnswered(t)) /\ WF_vars(CancelledAnswered(t))

\* A task's lookups and reads are bounded by ORDER_RESOLUTION_BUDGET_S.
TaskFairness == \A t \in Tasks : WF_vars(TaskStep(t))

FairSpec == Spec /\ Fairness

-----------------------------------------------------------------------------
(* Properties. *)

\* When close_all_positions reports, every position still open at the venue is in the
\* report: as a FAILED row, under the in-flight holder it names, or under the failed second
\* enumeration.  The one exception is an entry whose own task already said that its order
\* may exist (UNRESOLVED, which halts, or cancelled, which is logged).
ExposureReported ==
    phase = "done" => \A s \in OpenSymbols :
        \/ \E sweep \in Sweeps : row[<<sweep, s>>] = "failed"
        \/ blind
        \/ named # NoOne /\ SymbolOf[named] = s
        \/ \E e \in Entries \cap LotsOf(s) : pc[e] \in {"unresolved", "cancelled"}

\* Sweep b never sells a symbol whose close in sweep a may still be working.
NoSecondSell ==
    \A s \in Symbols : order[<<"b", s>>] # "none" => order[<<"a", s>>] \in {"none", "filled"}

\* A row that says CLOSED stands for lots that are gone, whatever was opened since.
ClosedIsSold ==
    \A r \in Sweeps \X Symbols : row[r] = "closed" => order[r] = "filled" /\ taken[r] \cap lots = {}

\* Once the switch is armed no entry is sent any more, wherever it was when it was armed:
\* before the lock, reading the position, or queued on the worker.
NoEntryOnceArmed ==
    [][armed => \A e \in Entries : order[e] = "none" => order'[e] = "none"]_vars

\* The sweep reports (or raises) even if the entry that holds the lock never lets go.
SweepReports == []<>(phase \in {"idle", "done", "raised", "cancelled"})

\* A task that goes on never keeps the account's lock for ever, whatever the venue does
\* with its order.
LockReleased == TaskFairness => \A t \in Tasks : []<>(lock # t)

-----------------------------------------------------------------------------
(* The close of the account as one step, which is what the kill switch takes it for. *)

CloseState ==
    IF phase = "idle" THEN "idle"
    ELSE IF phase = "done" THEN "reported"
    ELSE IF phase \in {"raised", "cancelled"} THEN phase ELSE "running"

MaybeSent    == {e \in Entries : order[e] # "none"}
SaidToBeOpen == {e \in Entries : pc[e] \in {"unresolved", "cancelled"}}

\* The report, once there is one: a symbol is called open by a row that failed, by the holder
\* of the lock that the in-flight row names, or because the second listing failed.
CalledOpen ==
    IF phase # "done" THEN {}
    ELSE {s \in Symbols :
            \/ \E sweep \in Sweeps : row[<<sweep, s>>] = "failed"
            \/ blind
            \/ named # NoOne /\ SymbolOf[named] = s}

CalledClosed ==
    IF phase # "done" THEN {}
    ELSE UNION {taken[r] : r \in {r \in Sweeps \X Symbols : row[r] = "closed"}}

OneClose == INSTANCE AccountClose WITH
    close <- CloseState, held <- lots, sent <- MaybeSent, excused <- SaidToBeOpen,
    told <- CalledOpen, sold <- CalledClosed

\* The two sweeps, the lock and the worker are, for whoever pulls the switch, one close that
\* ends in one report: it answers for what is open then and later, and what it calls closed
\* stays sold, whatever entries were on the wire when it began.
ClosesAsOne == OneClose!Spec
=============================================================================
