----------------------------- MODULE EntryRecord -----------------------------
(***************************************************************************)
(* An entry and its record (services/live/crypto_loop.py, LiveCryptoLoop,   *)
(* with execution/service.py).  The loop passes the gate, commits a         *)
(* SUBMITTING row, sends the order, classifies the answer, books the        *)
(* position, and moves the row by compare-and-set; a write that raises is   *)
(* kept pending on the book entry and retried at the top of every pass.     *)
(*                                                                         *)
(* Meanwhile the venue fills and closes orders, the tasks of settled        *)
(* positions write results, stop() cancels the loop wherever it is, start() *)
(* abandons the rows nobody holds, and the process dies.  A row is an       *)
(* outcome; every database write may fail, and a commit may be followed by  *)
(* a raise.  Pauses, the kill switch and entry blocks refuse at the gate    *)
(* like a halt does and are left out.                                       *)
(***************************************************************************)
EXTENDS Integers, FiniteSets

CONSTANTS
    Pairs,
    MaxDecisions,   \* bound on the entries that pass the gate
    MaxConcurrent,  \* max_concurrent
    MaxStarts,      \* bound on start()
    MaxCrashes,     \* bound on deaths of the process
    NoPair

Decisions  == 1..MaxDecisions
NoDecision == 0

ASSUME EntriesAssumption ==
    /\ MaxDecisions \in Nat /\ MaxConcurrent \in Nat
    /\ MaxStarts \in Nat /\ MaxCrashes \in Nat
    /\ NoPair \notin Pairs

VARIABLES
    row,           \* the database: DecisionRecord.outcome
    position,      \* the venue: each entry's order and what became of it
    pairOf,        \* the pair of each decision
    pc,            \* where the loop is
    entering,      \* the decision of the entry in progress
    verdict,       \* the outcome its row is being moved to
    used,          \* decisions made so far
    book,          \* the keys of _book
    managed,       \* the book entries that hold a position
    pending,       \* record_pending: the outcome still to be written
    openDecision,  \* _open_decision
    settle,        \* the task of a settled position
    halted,        \* halt_reason
    alarm,         \* halt_record_failed
    alerted,       \* the durable alert of the halt
    stranded,      \* the rows reconcile_abandoned_decisions read
    starts,        \* calls of start() (bounded by MaxStarts)
    crashes,       \* deaths of the process (bounded by MaxCrashes)
    interrupted    \* history: entries cut short by stop() or by the process's death

venueVars == <<position, pairOf>>
loopVars  == <<pc, entering, verdict, used>>
bookVars  == <<book, managed, pending, openDecision>>
haltVars  == <<halted, alarm, alerted>>
runVars   == <<stranded, starts, crashes, interrupted>>
vars == <<row, venueVars, loopVars, bookVars, settle, haltVars, runVars>>

Verdicts == {"OPEN", "REJECTED", "UNSIZED_FILL"}
Results  == {"CLOSED", "REJECTED", "UNSIZED_FILL", "ABANDONED"}   \* CLOSED: WIN, LOSS or BE

\* Where an entry is in progress, and where it is not.
Entering == {"gated", "sending", "recording", "alerting"}
Resting  == {"off", "starting", "top", "scan", "stopping"}

TypeOK ==
    /\ row \in [Decisions -> {"none", "SUBMITTING", "OPEN"} \cup Results]
    /\ position \in [Decisions -> {"none", "wire", "refused", "open", "closed"}]
    /\ pairOf \in [Decisions -> Pairs \cup {NoPair}]
    /\ pc \in Entering \cup Resting
    /\ entering \in Decisions \cup {NoDecision}
    /\ (entering # NoDecision) = (pc \in Entering)
    /\ verdict \in Verdicts \cup {"none"}
    /\ used \in 0..MaxDecisions
    /\ managed \subseteq book /\ book \subseteq Decisions
    /\ pending \in [Decisions -> Verdicts \cup {"none"}]
    /\ {d \in Decisions : pending[d] # "none"} \subseteq book
    /\ openDecision \in [Pairs -> Decisions \cup {NoDecision}]
    /\ settle \in [Decisions -> {"none", "task", "writing", "done"}]
    /\ halted \in BOOLEAN /\ alerted \in BOOLEAN
    /\ alarm \in {"none", "unwritten", "failed"}
    /\ stranded \subseteq Decisions /\ interrupted \subseteq Decisions
    /\ starts \in 0..MaxStarts /\ crashes \in 0..MaxCrashes

Init ==
    /\ row = [d \in Decisions |-> "none"]
    /\ position = [d \in Decisions |-> "none"]
    /\ pairOf = [d \in Decisions |-> NoPair]
    /\ pc = "off" /\ entering = NoDecision /\ verdict = "none" /\ used = 0
    /\ book = {} /\ managed = {}
    /\ pending = [d \in Decisions |-> "none"]
    /\ openDecision = [p \in Pairs |-> NoDecision]
    /\ settle = [d \in Decisions |-> "none"]
    /\ halted = FALSE /\ alarm = "none" /\ alerted = FALSE
    /\ stranded = {} /\ interrupted = {}
    /\ starts = 0 /\ crashes = 0

Open    == {d \in Decisions : position[d] = "open"}
Pending == {d \in Decisions : pending[d] # "none"}

-----------------------------------------------------------------------------
(* The venue. *)

VenueFills(d) ==
    /\ position[d] = "wire"
    /\ position' = [position EXCEPT ![d] = "open"]
    /\ UNCHANGED <<row, pairOf, loopVars, bookVars, settle, haltVars, runVars>>

VenueRefuses(d) ==
    /\ position[d] = "wire"
    /\ position' = [position EXCEPT ![d] = "refused"]
    /\ UNCHANGED <<row, pairOf, loopVars, bookVars, settle, haltVars, runVars>>

\* A person or the kill switch closes it on the account.
OthersClose(d) ==
    /\ position[d] = "open"
    /\ position' = [position EXCEPT ![d] = "closed"]
    /\ UNCHANGED <<row, pairOf, loopVars, bookVars, settle, haltVars, runVars>>

-----------------------------------------------------------------------------
(* Moving a row. *)

\* Mutant: the move does not compare.
MoveAlways(d, to) ==
    row' = [row EXCEPT ![d] = to]

\* _transition_decision: UPDATE ... WHERE outcome = 'SUBMITTING'.
Move(d, to) ==
    row' = IF row[d] = "SUBMITTING" THEN [row EXCEPT ![d] = to] ELSE row

\* What it returns: moved now, or found where it should be.
Moved(d, to) == row'[d] = to

Remember(d, to) ==
    openDecision' = IF to = "OPEN" /\ Moved(d, to)
                    THEN [openDecision EXCEPT ![pairOf[d]] = d] ELSE openDecision

-----------------------------------------------------------------------------
(* The top of a pass: _retry_pending_records. *)

\* Mutant: the book entry goes whatever the outcome was.
KeepsNone(d, to) == FALSE

\* A position whose record says OPEN stays in the book; the others have no position.
KeepsEntry(d, to) == to = "OPEN"

\* Mutant: a refused move stays pending.
RetryStays(d) ==
    /\ pc = "top" /\ d \in Pending
    /\ LET to == pending[d]
       IN  /\ Move(d, to)
           /\ Remember(d, to)
           /\ pending' = [pending EXCEPT ![d] = IF Moved(d, to) THEN "none" ELSE to]
           /\ book' = IF KeepsEntry(d, to) \/ ~Moved(d, to) THEN book ELSE book \ {d}
           /\ managed' = managed \cap book'
    /\ UNCHANGED <<venueVars, loopVars, settle, haltVars, runVars>>

Retry(d) ==
    /\ pc = "top" /\ d \in Pending
    /\ LET to == pending[d]
       IN  /\ Move(d, to)
           /\ Remember(d, to)
           /\ pending' = [pending EXCEPT ![d] = "none"]
           /\ book' = IF KeepsEntry(d, to) THEN book ELSE book \ {d}
           /\ managed' = managed \cap book'
    /\ UNCHANGED <<venueVars, loopVars, settle, haltVars, runVars>>

\* The commit landed and the call raised: still pending.
RetryRaises(d) ==
    /\ pc = "top" /\ d \in Pending
    /\ Move(d, pending[d])
    /\ UNCHANGED <<venueVars, loopVars, bookVars, settle, haltVars, runVars>>

\* What was not written this time is tried at the next pass.
ScanBegins ==
    /\ pc = "top"
    /\ pc' = "scan"
    /\ UNCHANGED <<row, venueVars, entering, verdict, used, bookVars, settle, haltVars, runVars>>

PassEnds ==
    /\ pc = "scan"
    /\ pc' = "top"
    /\ UNCHANGED <<row, venueVars, entering, verdict, used, bookVars, settle, haltVars, runVars>>

-----------------------------------------------------------------------------
(* Managing positions: events.tick, and the tasks of the settles. *)

\* VenueEvents closes a position it manages (module VenueEvents shows how).
ManagedClose(d) ==
    /\ pc = "scan" /\ d \in managed /\ position[d] = "open"
    /\ position' = [position EXCEPT ![d] = "closed"]
    /\ UNCHANGED <<row, pairOf, loopVars, bookVars, settle, haltVars, runVars>>

\* Its settle event starts a task; one whose trade row was not written is started again.
SettleBegins(d) ==
    /\ pc = "scan" /\ d \in managed /\ position[d] = "closed" /\ settle[d] = "none"
    /\ settle' = [settle EXCEPT ![d] = "task"]
    /\ UNCHANGED <<row, venueVars, loopVars, bookVars, haltVars, runVars>>

PersistFails(d) ==
    /\ settle[d] = "task"
    /\ settle' = [settle EXCEPT ![d] = "none"]
    /\ UNCHANGED <<row, venueVars, loopVars, bookVars, haltVars, runVars>>

\* _resolve_decision first forgets the decision, unless its record is still pending ...
ResolveBegins(d) ==
    /\ settle[d] = "task"
    /\ settle' = [settle EXCEPT ![d] = "writing"]
    /\ openDecision' = [p \in Pairs |-> IF openDecision[p] = d THEN NoDecision ELSE openDecision[p]]
    /\ book' = IF pending[d] = "none" THEN book \ {d} ELSE book
    /\ managed' = managed \cap book'
    /\ UNCHANGED <<row, venueVars, loopVars, pending, haltVars, runVars>>

\* ... and then writes the result over whatever the row says.
ResolveCommits(d) ==
    /\ settle[d] = "writing"
    /\ settle' = [settle EXCEPT ![d] = "done"]
    /\ row' = [row EXCEPT ![d] = "CLOSED"]
    /\ UNCHANGED <<venueVars, loopVars, bookVars, haltVars, runVars>>

\* A failure is logged.
ResolveFails(d) ==
    /\ settle[d] = "writing"
    /\ settle' = [settle EXCEPT ![d] = "done"]
    /\ UNCHANGED <<row, venueVars, loopVars, bookVars, haltVars, runVars>>

-----------------------------------------------------------------------------
(* An entry: _entry_block_reason, execute, and what _tick_symbol makes of the answer. *)

\* Mutant: a record still pending does not refuse entries.
BlockedUnrecorded(p) ==
    \/ halted
    \/ \E d \in Open : pairOf[d] = p
    \/ Cardinality(Open) >= MaxConcurrent

\* Mutant: the venue's spelling of the pair is compared with the loop's.
BlockedUnmatched(p) ==
    \/ halted
    \/ Pending # {}
    \/ Cardinality(Open) >= MaxConcurrent

Blocked(p) ==
    \/ halted
    \/ Pending # {}
    \/ \E d \in Open : pairOf[d] = p
    \/ Cardinality(Open) >= MaxConcurrent

\* The gate passes; bars, news, the account and a price are still to be awaited.
Gate(p) ==
    LET d == used + 1
    IN  /\ pc = "scan" /\ used < MaxDecisions /\ ~Blocked(p)
        /\ used' = d
        /\ entering' = d
        /\ pairOf' = [pairOf EXCEPT ![d] = p]
        /\ pc' = "gated"
        /\ UNCHANGED <<row, position, verdict, bookVars, settle, haltVars, runVars>>

EntryOver == entering' = NoDecision /\ pc' = "scan"

\* Sized to nothing, too large, below the minimum: a REJECTED row of its own, or its write
\* failed and is only logged.
RefusedUnsent ==
    /\ pc = "gated"
    /\ \E outcome \in {"none", "REJECTED"} : row' = [row EXCEPT ![entering] = outcome]
    /\ EntryOver
    /\ UNCHANGED <<venueVars, verdict, used, bookVars, settle, haltVars, runVars>>

\* _write_submitting commits, and the order leaves.
Send ==
    /\ pc = "gated"
    /\ row' = [row EXCEPT ![entering] = "SUBMITTING"]
    /\ position' = [position EXCEPT ![entering] = "wire"]
    /\ pc' = "sending"
    /\ UNCHANGED <<pairOf, entering, verdict, used, bookVars, settle, haltVars, runVars>>

\* Mutant: the order leaves all the same.
SentUnwritten ==
    /\ pc = "gated"
    /\ position' = [position EXCEPT ![entering] = "wire"]
    /\ pc' = "sending"
    /\ UNCHANGED <<row, pairOf, entering, verdict, used, bookVars, settle, haltVars, runVars>>

\* The pre-send write raised, perhaps after it committed: NOT_SENT.
NotSent ==
    /\ pc = "gated"
    /\ \E outcome \in {"none", "SUBMITTING"} : row' = [row EXCEPT ![entering] = outcome]
    /\ EntryOver
    /\ UNCHANGED <<venueVars, verdict, used, bookVars, settle, haltVars, runVars>>

\* Mutant: the position is put on an entry the book does not hold yet.
BookedLoose ==
    /\ managed' = managed \cup {entering}
    /\ book' = book

\* _book_venue_position, before the record is moved.
Booked ==
    /\ managed' = managed \cup {entering}
    /\ book' = book \cup {entering}

\* A fill of known size.
AnsweredFilled ==
    /\ pc = "sending" /\ position[entering] \in {"open", "closed"}
    /\ Booked
    /\ verdict' = "OPEN"
    /\ pc' = "recording"
    /\ UNCHANGED <<row, venueVars, entering, used, pending, openDecision, settle, haltVars, runVars>>

\* Refused, or place_order raised: nothing was bought.
AnsweredRefused ==
    /\ pc = "sending" /\ position[entering] = "refused"
    /\ verdict' = "REJECTED"
    /\ pc' = "recording"
    /\ UNCHANGED <<row, venueVars, entering, used, bookVars, settle, haltVars, runVars>>

\* _declare_halt: the halt and its alarm, with no await between them.
DeclareHalt ==
    /\ halted' = TRUE
    /\ alarm' = "unwritten"
    /\ UNCHANGED alerted

\* A fill without a readable size, or one the position disagrees with.
AnsweredUnsized ==
    /\ pc = "sending" /\ position[entering] \in {"open", "closed"}
    /\ DeclareHalt
    /\ verdict' = "UNSIZED_FILL"
    /\ pc' = "recording"
    /\ UNCHANGED <<row, venueVars, entering, used, bookVars, settle, runVars>>

\* Neither a fill nor a refusal: the row stays SUBMITTING.
Unresolved ==
    /\ pc = "sending"
    /\ DeclareHalt
    /\ verdict' = "none"
    /\ pc' = "alerting"
    /\ UNCHANGED <<row, venueVars, entering, used, bookVars, settle, runVars>>

AfterRecord ==
    IF verdict = "UNSIZED_FILL"
    THEN pc' = "alerting" /\ UNCHANGED <<entering, verdict>>
    ELSE EntryOver /\ verdict' = "none"

\* _write_transition.
Recorded ==
    /\ pc = "recording"
    /\ Move(entering, verdict)
    /\ Remember(entering, verdict)
    /\ AfterRecord
    /\ UNCHANGED <<venueVars, used, book, managed, pending, settle, haltVars, runVars>>

\* It raised, perhaps after it committed: pending on the book entry.
RecordRaises ==
    /\ pc = "recording"
    /\ Move(entering, verdict) \/ UNCHANGED row
    /\ book' = book \cup {entering}
    /\ pending' = [pending EXCEPT ![entering] = verdict]
    /\ AfterRecord
    /\ UNCHANGED <<venueVars, used, managed, openDecision, settle, haltVars, runVars>>

\* Mutant: the alarm looks at the alert only.
OnlyAlert(ok) == ok

\* The halt is on record: the alert, and the row if there is one to move.
OnRecord(ok) == ok /\ pending[entering] = "none"

AlertEnds ==
    /\ pc = "alerting"
    /\ \E ok \in BOOLEAN :
          /\ alerted' = (alerted \/ ok)
          /\ alarm' = IF OnRecord(ok) THEN "none" ELSE "failed"
    /\ verdict' = "none"
    /\ EntryOver
    /\ UNCHANGED <<row, venueVars, used, bookVars, settle, halted, runVars>>

-----------------------------------------------------------------------------
(* stop(), start() and the process. *)

\* A write that is awaited when the task is cancelled has landed or has not.
CutWrite ==
    \/ UNCHANGED row
    \/ pc = "gated" /\ row' = [row EXCEPT ![entering] = "SUBMITTING"]
    \/ pc = "recording" /\ Move(entering, verdict)

\* stop() cancels the loop's task where it is; no `except Exception` sees the cancellation.
Stop ==
    /\ pc \notin {"off", "starting", "stopping"}
    /\ CutWrite
    /\ interrupted' = interrupted \cup ({entering} \ {NoDecision})
    /\ entering' = NoDecision /\ verdict' = "none"
    /\ pc' = "stopping"
    /\ UNCHANGED <<venueVars, used, bookVars, settle, haltVars, stranded, starts, crashes>>

\* close_all_positions, whose failures do not block stopping; then the run is ended.
StopSweep ==
    /\ pc = "stopping"
    /\ \E kept \in SUBSET Open :
          position' = [d \in Decisions |-> IF d \in Open \ kept THEN "closed" ELSE position[d]]
    /\ pc' = "off"
    /\ UNCHANGED <<row, pairOf, entering, verdict, used, bookVars, settle, haltVars, runVars>>

\* Mutant: only _open_decision says what is live.
OpenOnly == {openDecision[p] : p \in Pairs}

\* What the process holds.
Live == {openDecision[p] : p \in Pairs} \cup book

\* reconcile_abandoned_decisions reads the rows ...
StartReads ==
    /\ pc = "off" /\ starts < MaxStarts
    /\ stranded' = {d \in Decisions : row[d] \in {"OPEN", "SUBMITTING"}} \ Live
    /\ starts' = starts + 1
    /\ pc' = "starting"
    /\ UNCHANGED <<row, venueVars, entering, verdict, used, bookVars, settle, haltVars,
                   crashes, interrupted>>

\* ... and writes them, or fails and is only logged.  reset_run follows, and the loop.
StartWrites ==
    /\ pc = "starting"
    /\ \E ok \in BOOLEAN :
          row' = [d \in Decisions |-> IF ok /\ d \in stranded THEN "ABANDONED" ELSE row[d]]
    /\ stranded' = {}
    /\ openDecision' = [p \in Pairs |-> NoDecision]
    /\ pc' = "top"
    /\ UNCHANGED <<venueVars, entering, verdict, used, book, managed, pending, settle,
                   haltVars, starts, crashes, interrupted>>

\* The process dies: what is in memory is gone, the rows and the venue stay.
Crash ==
    /\ crashes < MaxCrashes
    /\ crashes' = crashes + 1
    /\ interrupted' = interrupted \cup (1..used)
    /\ pc' = "off" /\ entering' = NoDecision /\ verdict' = "none"
    /\ book' = {} /\ managed' = {}
    /\ pending' = [d \in Decisions |-> "none"]
    /\ openDecision' = [p \in Pairs |-> NoDecision]
    /\ settle' = [d \in Decisions |-> IF settle[d] = "done" THEN "done" ELSE "none"]
    /\ halted' = FALSE /\ alarm' = "none" /\ stranded' = {}
    /\ UNCHANGED <<row, venueVars, used, alerted, starts>>

-----------------------------------------------------------------------------
Venue == \E d \in Decisions : VenueFills(d) \/ VenueRefuses(d) \/ OthersClose(d)

Manage == \E d \in Decisions :
    \/ ManagedClose(d) \/ SettleBegins(d)
    \/ PersistFails(d) \/ ResolveBegins(d) \/ ResolveCommits(d) \/ ResolveFails(d)

Entry ==
    \/ \E p \in Pairs : Gate(p)
    \/ RefusedUnsent \/ Send \/ NotSent
    \/ AnsweredFilled \/ AnsweredRefused \/ AnsweredUnsized \/ Unresolved
    \/ Recorded \/ RecordRaises \/ AlertEnds

Pass ==
    \/ \E d \in Decisions : Retry(d) \/ RetryRaises(d)
    \/ ScanBegins \/ PassEnds

Life == Stop \/ StopSweep \/ StartReads \/ StartWrites \/ Crash

Next == Venue \/ Manage \/ Pass \/ Entry \/ Life

Spec == Init /\ [][Next]_vars

\* The loop goes on, an order sent is answered, a stop or a start that began ends, and a
\* write retried at every pass lands.
Fairness ==
    /\ WF_vars(ScanBegins) /\ WF_vars(PassEnds) /\ WF_vars(Entry)
    /\ WF_vars(StopSweep) /\ WF_vars(StartWrites)
    /\ \A d \in Decisions : SF_vars(Retry(d))

FairSpec == Spec /\ Fairness

-----------------------------------------------------------------------------
(* Properties. *)

\* The venue never has an order of a decision the database does not know.
NothingUnrecorded == \A d \in Decisions : position[d] # "none" => row[d] # "none"

\* A position the loop's own entry opened is managed, or the engine is halted, whatever
\* became of the row's write; entries cut short are the exception.
PositionTracked ==
    \A d \in Open \ (interrupted \cup {entering}) : d \in managed \/ halted

\* Two open positions on one pair only if one comes from an entry that was cut short.
OnePositionPerPair ==
    \A d, e \in Open : d # e /\ pairOf[d] = pairOf[e] => {d, e} \cap interrupted # {}

\* A halt whose alarm is clear is durable: its alert is written, and no row is still waiting
\* to become UNSIZED_FILL.
HaltOnRecord ==
    halted /\ alarm = "none" => /\ alerted
                                /\ \A d \in Decisions : pending[d] # "UNSIZED_FILL"

\* No order leaves while a position the loop manages is not OPEN on record, except one
\* whose own entry was cut short.
SendsOnRecord ==
    [][\A d \in Decisions : position[d] = "none" /\ position'[d] = "wire" =>
         \A e \in (Open \cap managed) \ interrupted : row[e] = "OPEN"]_vars

\* OPEN, REJECTED and UNSIZED_FILL are only ever written over SUBMITTING, or first.
VerdictsFromSubmitting ==
    [][\A d \in Decisions : row'[d] # row[d] /\ row'[d] \in Verdicts =>
         row[d] = "SUBMITTING" \/ (row[d] = "none" /\ row'[d] = "REJECTED")]_vars

\* A position the process manages is never written off.
ManagedNeverAbandoned ==
    [][\A d \in managed : row'[d] = "ABANDONED" => row[d] = "ABANDONED"]_vars

\* A pending record stops refusing entries in the end, while the engine runs.
PendingClears == \A d \in Decisions : []<>(pending[d] = "none" \/ pc = "off")

\* A stored outcome is never rewritten.
OutcomeFinal ==
    [][\A d \in Decisions : row[d] \in Results => row'[d] = row[d]]_vars

\* The gate refuses entries while the record of a managed position does not say OPEN.
RefusedUntilOpen ==
    [][pc = "scan" /\ pc' = "gated" => \A e \in Open \cap managed : row[e] = "OPEN"]_vars
=============================================================================
