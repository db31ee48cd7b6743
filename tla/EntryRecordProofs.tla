------------------------- MODULE EntryRecordProofs -------------------------
(***************************************************************************)
(* Theorems about EntryRecord, for every set of pairs and every value of   *)
(* max_concurrent, and any number of entries, starts and deaths of the     *)
(* process.                                                                *)
(***************************************************************************)
EXTENDS EntryRecord, TLAPS

\* A decision not made yet has left nothing anywhere, and the entry in progress nothing
\* behind the place where it is.
Fresh ==
    /\ entering <= used
    /\ \A d \in Decisions : d > used =>
         /\ row[d] = "none" /\ position[d] = "none"
         /\ pending[d] = "none" /\ settle[d] = "none" /\ d \notin book \cup stranded
    /\ pc = "gated" => row[entering] = "none" /\ position[entering] = "none"
    /\ pc \in {"gated", "sending"} => entering \notin book
    /\ pc \in Entering => settle[entering] = "none"

\* What holds at each place of an entry: no record is pending when one goes through the
\* gate, and none becomes pending before its own.
Phase ==
    /\ pc \in {"gated", "sending"} => ~halted
    /\ pc \in {"gated", "sending", "recording"} => Pending = {}
    /\ pc \in {"sending", "recording"} => row[entering] = "SUBMITTING"
    /\ pc = "recording" =>
         /\ verdict \in Verdicts
         /\ verdict = "UNSIZED_FILL" => halted /\ alarm = "unwritten"
         /\ verdict # "UNSIZED_FILL" => ~halted
         /\ verdict = "REJECTED" => position[entering] = "refused"
         /\ (verdict = "OPEN") = (entering \in managed)
    /\ pc = "alerting" => halted /\ alarm = "unwritten" /\ Pending \subseteq {entering}

\* What the loop holds of an entry agrees with what became of its order.
Matching ==
    \A d \in Decisions :
      /\ settle[d] # "none" => position[d] = "closed"
      /\ d \in managed => position[d] \in {"open", "closed"}
      /\ pending[d] = "REJECTED" => position[d] = "refused"
      /\ pending[d] \in {"REJECTED", "UNSIZED_FILL"} => d \notin managed
      /\ pending[d] = "UNSIZED_FILL" => halted
      /\ position[d] \in {"wire", "open"} /\ d \notin interrupted \cup {entering} =>
           halted \/ d \in managed

\* An entry occupies its pair from the gate until its position is closed.
Occupying ==
    {d \in Decisions \ interrupted :
        position[d] \in {"wire", "open"} \/ (d = entering /\ pc = "gated")}

OnePerPair == \A d, e \in Occupying : pairOf[d] = pairOf[e] => d = e

\* A managed position is OPEN on record, or its row is still to be moved there.
OnRecordManaged ==
    \A e \in (Open \cap managed) \ interrupted :
      \/ row[e] = "OPEN"
      \/ row[e] = "SUBMITTING" /\ (pending[e] = "OPEN" \/ (e = entering /\ pc = "recording"))

\* The rows a start is about to write off belong to no book entry.
StrandedNotHeld == stranded \cap book = {} /\ (pc # "starting" => stranded = {})

IInv ==
    /\ TypeOK /\ Fresh /\ Phase /\ Matching
    /\ OnePerPair /\ OnRecordManaged /\ StrandedNotHeld
    /\ NothingUnrecorded /\ HaltOnRecord

-----------------------------------------------------------------------------
\* The invariant holds of a process that has not been started.
LEMMA InitKeeps == Init => IInv
  <1> USE EntriesAssumption
      DEF Init, Decisions, NoDecision, Verdicts, Results, Entering, Resting, Open, Pending
  <1>1. ASSUME Init PROVE TypeOK
    <2>1. used \in 0..MaxDecisions /\ starts \in 0..MaxStarts /\ crashes \in 0..MaxCrashes
      BY <1>1
    <2>2. pc \in Entering \cup Resting /\ (entering # NoDecision) = (pc \in Entering)
      BY <1>1
    <2>3. {d \in Decisions : pending[d] # "none"} = {}
      BY <1>1
    <2> QED
      BY <1>1, <2>1, <2>2, <2>3 DEF TypeOK
  <1>2. Init => Fresh /\ Phase /\ Matching
    BY DEF Fresh, Phase, Matching
  <1>3. Init => OnePerPair /\ OnRecordManaged /\ StrandedNotHeld
    BY DEF OnePerPair, Occupying, OnRecordManaged, StrandedNotHeld
  <1>4. Init => NothingUnrecorded /\ HaltOnRecord
    BY DEF NothingUnrecorded, HaltOnRecord
  <1> QED
    BY <1>1, <1>2, <1>3, <1>4 DEF IInv

\* The venue's answers: only an order on the wire is answered, and a refused or managed
\* entry has none.
LEMMA VenueKeeps == ASSUME IInv, Venue PROVE IInv'
  <1> USE EntriesAssumption
      DEF IInv, TypeOK, Fresh, Phase, Matching, OnePerPair, Occupying, OnRecordManaged,
          StrandedNotHeld, NothingUnrecorded, HaltOnRecord, Decisions, NoDecision,
          Verdicts, Results, Entering, Resting, Open, Pending,
          loopVars, bookVars, haltVars, runVars
  <1>1. ASSUME NEW d \in Decisions, VenueFills(d) PROVE IInv'
    <2> USE <1>1 DEF VenueFills
    <2>1. TypeOK' /\ Fresh' /\ Phase'
      OBVIOUS
    <2>2. Matching' /\ OnePerPair'
      OBVIOUS
    <2>3. OnRecordManaged'
      OBVIOUS
    <2>4. StrandedNotHeld' /\ NothingUnrecorded' /\ HaltOnRecord'
      OBVIOUS
    <2> QED
      BY <2>1, <2>2, <2>3, <2>4
  <1>2. ASSUME NEW d \in Decisions, VenueRefuses(d) PROVE IInv'
    BY <1>2 DEF VenueRefuses
  <1>3. ASSUME NEW d \in Decisions, OthersClose(d) PROVE IInv'
    BY <1>3 DEF OthersClose
  <1> QED
    BY <1>1, <1>2, <1>3 DEF Venue

\* Managing: positions close, and the tasks of the closed ones write results.
LEMMA ManageKeeps == ASSUME IInv, Manage PROVE IInv'
  <1> USE EntriesAssumption
      DEF IInv, TypeOK, Fresh, Phase, Matching, OnePerPair, Occupying, OnRecordManaged,
          StrandedNotHeld, NothingUnrecorded, HaltOnRecord, Decisions, NoDecision,
          Verdicts, Results, Entering, Resting, Open, Pending,
          venueVars, loopVars, bookVars, haltVars, runVars
  <1>1. ASSUME NEW d \in Decisions, ManagedClose(d) PROVE IInv'
    BY <1>1 DEF ManagedClose
  <1>2. ASSUME NEW d \in Decisions, SettleBegins(d) PROVE IInv'
    BY <1>2 DEF SettleBegins
  <1>3. ASSUME NEW d \in Decisions, PersistFails(d) PROVE IInv'
    BY <1>3 DEF PersistFails
  <1>4. ASSUME NEW d \in Decisions, ResolveBegins(d) PROVE IInv'
    <2>1. d # entering /\ position[d] = "closed"
      BY <1>4 DEF ResolveBegins
    <2> QED
      BY <1>4, <2>1 DEF ResolveBegins
  <1>5. ASSUME NEW d \in Decisions, ResolveCommits(d) PROVE IInv'
    <2>1. d <= used /\ d # entering /\ position[d] = "closed"
      BY <1>5 DEF ResolveCommits
    <2>2. Fresh' /\ Phase'
      BY <1>5, <2>1 DEF ResolveCommits
    <2>3. OnRecordManaged' /\ NothingUnrecorded'
      BY <1>5, <2>1 DEF ResolveCommits
    <2>4. TypeOK' /\ Matching' /\ OnePerPair' /\ StrandedNotHeld' /\ HaltOnRecord'
      BY <1>5 DEF ResolveCommits
    <2> QED
      BY <2>2, <2>3, <2>4
  <1>6. ASSUME NEW d \in Decisions, ResolveFails(d) PROVE IInv'
    BY <1>6 DEF ResolveFails
  <1> QED
    BY <1>1, <1>2, <1>3, <1>4, <1>5, <1>6 DEF Manage

\* A record whose write is tried again is of a position that stays managed, or of none.
LEMMA RetryKeepsManaged ==
    ASSUME IInv, NEW d \in Decisions, Retry(d)
    PROVE  managed' = managed
  <1>1. pending[d] \in Verdicts /\ managed \subseteq book
    BY DEF IInv, TypeOK, Retry, Pending
  <1>2. pending[d] = "OPEN" \/ d \notin managed
    BY <1>1 DEF IInv, Matching, Verdicts
  <1>3. managed' = managed \cap book' /\ book' = IF pending[d] = "OPEN" THEN book ELSE book \ {d}
    BY DEF Retry, KeepsEntry
  <1> QED
    BY <1>1, <1>2, <1>3

\* A pass: a retried record leaves the book only when it holds no position.
LEMMA PassKeeps == ASSUME IInv, Pass PROVE IInv'
  <1> USE EntriesAssumption
      DEF IInv, TypeOK, Fresh, Phase, Matching, OnePerPair, Occupying, OnRecordManaged,
          StrandedNotHeld, NothingUnrecorded, HaltOnRecord, Decisions, NoDecision,
          Verdicts, Results, Entering, Resting, Open, Pending,
          venueVars, loopVars, bookVars, haltVars, runVars
  <1>1. ASSUME NEW d \in Decisions, Retry(d) PROVE IInv'
    <2>1. pending[d] \in Verdicts /\ d <= used /\ entering = NoDecision
      BY <1>1 DEF Retry
    <2>2. managed' = managed
      BY <1>1, RetryKeepsManaged, Zenon
    <2>3. openDecision' \in [Pairs -> Decisions \cup {NoDecision}]
      BY <1>1, <2>1 DEF Retry, Remember
    <2>4. row' \in {row, [row EXCEPT ![d] = pending[d]]}
      BY <1>1 DEF Retry, Move
    <2>5. TypeOK'
      BY <1>1, <2>1, <2>2, <2>3, <2>4 DEF Retry, KeepsEntry
    <2>6. Fresh'
      BY <1>1 DEF Retry, KeepsEntry, Move
    <2>7. Phase'
      BY <1>1 DEF Retry
    <2>8. OnRecordManaged' /\ NothingUnrecorded'
      BY <1>1, <2>1, <2>2 DEF Retry, Move
    <2>9. Matching' /\ OnePerPair' /\ StrandedNotHeld' /\ HaltOnRecord'
      BY <1>1, <2>1, <2>2 DEF Retry
    <2> QED
      BY <2>5, <2>6, <2>7, <2>8, <2>9
  <1>2. ASSUME NEW d \in Decisions, RetryRaises(d) PROVE IInv'
    BY <1>2 DEF RetryRaises, Move
  <1>3. CASE ScanBegins
    BY <1>3 DEF ScanBegins
  <1>4. CASE PassEnds
    BY <1>4 DEF PassEnds
  <1> QED
    BY <1>1, <1>2, <1>3, <1>4 DEF Pass

\* The gate: a pair it lets through is occupied by nobody, because an order without an
\* answer halts the engine and an open position blocks its pair.
LEMMA GateKeeps == ASSUME IInv, NEW p \in Pairs, Gate(p) PROVE IInv'
  <1> USE EntriesAssumption
      DEF IInv, TypeOK, Fresh, Phase, Matching, OnRecordManaged,
          StrandedNotHeld, NothingUnrecorded, HaltOnRecord, Decisions, NoDecision,
          Verdicts, Results, Entering, Resting, Open, Pending,
          bookVars, haltVars, runVars
  <1>1. /\ ~halted /\ Pending = {} /\ entering = NoDecision
        /\ \A d \in Open : pairOf[d] # p
    BY DEF Gate, Blocked
  <1>2. used + 1 \in Decisions /\ position[used + 1] = "none"
    BY EntriesAssumption DEF Gate
  <1>3. OnePerPair'
    <2>1. \A d \in Occupying : pairOf[d] # p
      BY <1>1 DEF Occupying, Gate
    <2>2. Occupying' \subseteq Occupying \cup {used + 1} /\ used + 1 \notin Occupying
      BY <1>1, <1>2 DEF Occupying, Gate
    <2>3. pairOf' = [pairOf EXCEPT ![used + 1] = p]
      BY DEF Gate
    <2>4. \A d \in Occupying : d \in Decisions
      BY DEF Occupying
    <2>5. \A d \in Occupying : pairOf'[d] = pairOf[d] /\ pairOf[d] # p
      BY <2>1, <2>2, <2>3, <2>4
    <2>6. pairOf'[used + 1] = p
      BY <1>2, <2>3
    <2> QED
      <3> HIDE DEF Occupying
      <3> QED
        BY <2>2, <2>5, <2>6 DEF OnePerPair
  <1>4. TypeOK' /\ Fresh' /\ Phase' /\ Matching'
    BY <1>1, <1>2 DEF Gate
  <1>5. OnRecordManaged' /\ StrandedNotHeld' /\ NothingUnrecorded' /\ HaltOnRecord'
    BY <1>1 DEF Gate
  <1> QED
    BY <1>3, <1>4, <1>5

\* From the gate to the wire: an entry that ends there leaves no order, one that goes on
\* has its row committed.
LEMMA SendKeeps == ASSUME IInv, RefusedUnsent \/ Send \/ NotSent PROVE IInv'
  <1> USE EntriesAssumption
      DEF IInv, TypeOK, Fresh, Phase, Matching, OnePerPair, Occupying, OnRecordManaged,
          StrandedNotHeld, NothingUnrecorded, HaltOnRecord, Decisions, NoDecision,
          Verdicts, Results, Entering, Resting, Open, Pending,
          venueVars, bookVars, haltVars, runVars
  <1>1. CASE RefusedUnsent
    BY <1>1 DEF RefusedUnsent, EntryOver
  <1>2. CASE Send
    BY <1>2 DEF Send
  <1>3. CASE NotSent
    BY <1>3 DEF NotSent, EntryOver
  <1> QED
    BY <1>1, <1>2, <1>3

\* The answer: a fill is booked before its record is moved, what cannot be managed halts.
LEMMA AnswerKeeps ==
    ASSUME IInv, AnsweredFilled \/ AnsweredRefused \/ AnsweredUnsized \/ Unresolved
    PROVE  IInv'
  <1> USE EntriesAssumption
      DEF IInv, TypeOK, Fresh, Phase, Matching, OnePerPair, Occupying, OnRecordManaged,
          StrandedNotHeld, NothingUnrecorded, HaltOnRecord, Decisions, NoDecision,
          Verdicts, Results, Entering, Resting, Open, Pending,
          venueVars, bookVars, haltVars, runVars
  <1>1. CASE AnsweredFilled
    BY <1>1 DEF AnsweredFilled, Booked
  <1>2. CASE AnsweredRefused
    BY <1>2 DEF AnsweredRefused
  <1>3. CASE AnsweredUnsized
    BY <1>3 DEF AnsweredUnsized, DeclareHalt
  <1>4. CASE Unresolved
    BY <1>4 DEF Unresolved, DeclareHalt
  <1> QED
    BY <1>1, <1>2, <1>3, <1>4

\* The record: its row moves, or the move becomes pending on the book entry; the alarm
\* of a halt is cleared only when neither the alert nor the row is missing.
LEMMA RecordKeeps == ASSUME IInv, Recorded \/ RecordRaises \/ AlertEnds PROVE IInv'
  <1> USE EntriesAssumption
      DEF IInv, TypeOK, Fresh, Phase, Matching, OnePerPair, Occupying, OnRecordManaged,
          StrandedNotHeld, NothingUnrecorded, HaltOnRecord, Decisions, NoDecision,
          Verdicts, Results, Entering, Resting, Open, Pending, EntryOver,
          venueVars, bookVars, haltVars, runVars
  <1>1. CASE Recorded
    <2> USE <1>1 DEF Recorded
    <2>1. row' = [row EXCEPT ![entering] = verdict] /\ verdict \in Verdicts
      BY DEF Move
    <2>2. openDecision' \in [Pairs -> Decisions \cup {NoDecision}]
      BY DEF Remember
    <2>3. TypeOK' /\ Fresh' /\ Phase'
      BY <2>1, <2>2 DEF AfterRecord
    <2>4. Matching' /\ OnePerPair' /\ HaltOnRecord'
      BY <2>1 DEF AfterRecord
    <2>5. OnRecordManaged' /\ StrandedNotHeld' /\ NothingUnrecorded'
      BY <2>1 DEF AfterRecord
    <2> QED
      BY <2>3, <2>4, <2>5
  <1>2. CASE RecordRaises
    <2> USE <1>2 DEF RecordRaises
    <2>1. row' \in {row, [row EXCEPT ![entering] = verdict]} /\ verdict \in Verdicts
      BY DEF Move
    <2>2. TypeOK'
      BY <2>1 DEF AfterRecord
    <2>3. Fresh'
      BY DEF AfterRecord, Move
    <2>4. Phase'
      BY <2>1 DEF AfterRecord
    <2>5. Matching' /\ OnePerPair' /\ HaltOnRecord'
      BY <2>1 DEF AfterRecord
    <2>6. OnRecordManaged'
      BY DEF AfterRecord, Move
    <2>7. StrandedNotHeld'
      BY DEF AfterRecord
    <2>8. NothingUnrecorded'
      BY DEF AfterRecord, Move
    <2> QED
      BY <2>2, <2>3, <2>4, <2>5, <2>6, <2>7, <2>8
  <1>3. CASE AlertEnds
    <2> USE <1>3 DEF AlertEnds, OnRecord
    <2>1. TypeOK' /\ Fresh' /\ Phase'
      OBVIOUS
    <2>2. Matching' /\ OnePerPair' /\ OnRecordManaged'
      OBVIOUS
    <2>3. StrandedNotHeld' /\ NothingUnrecorded'
      OBVIOUS
    <2>4. HaltOnRecord'
      <3>1. PICK ok \in BOOLEAN : /\ alerted' = (alerted \/ ok)
                                 /\ alarm' = IF OnRecord(ok) THEN "none" ELSE "failed"
        OBVIOUS
      <3>2. Pending \subseteq {entering} /\ pending' = pending
        OBVIOUS
      <3>3. alarm' = "none" => alerted' /\ \A d \in Decisions : pending[d] = "none"
        BY <3>1, <3>2
      <3> QED
        BY <3>2, <3>3
    <2> QED
      BY <2>1, <2>2, <2>3, <2>4
  <1> QED
    BY <1>1, <1>2, <1>3

\* A stop wherever the loop is, and its sweep.
LEMMA StopKeeps == ASSUME IInv, Stop \/ StopSweep PROVE IInv'
  <1> USE EntriesAssumption
      DEF IInv, TypeOK, Fresh, Phase, Matching, OnePerPair, Occupying, OnRecordManaged,
          StrandedNotHeld, NothingUnrecorded, HaltOnRecord, Decisions, NoDecision,
          Verdicts, Results, Entering, Resting, Open, Pending,
          venueVars, bookVars, haltVars, runVars
  <1>1. CASE Stop
    <2> USE <1>1 DEF Stop
    <2>1. row' \in [Decisions -> {"none", "SUBMITTING", "OPEN"} \cup Results]
      BY DEF CutWrite, Move
    <2>2. TypeOK'
      BY <2>1
    <2>3. Fresh' /\ NothingUnrecorded'
      BY DEF CutWrite, Move
    <2>4. Phase' /\ Matching' /\ OnePerPair'
      OBVIOUS
    <2>5. OnRecordManaged'
      BY DEF CutWrite, Move
    <2>6. StrandedNotHeld' /\ HaltOnRecord'
      OBVIOUS
    <2> QED
      BY <2>2, <2>3, <2>4, <2>5, <2>6
  <1>2. CASE StopSweep
    BY <1>2 DEF StopSweep
  <1> QED
    BY <1>1, <1>2

\* A start: the rows it read are held by no book entry, and nothing is booked meanwhile.
LEMMA StartKeeps == ASSUME IInv, StartReads \/ StartWrites PROVE IInv'
  <1> USE EntriesAssumption
      DEF IInv, TypeOK, Fresh, Phase, Matching, OnePerPair, Occupying, OnRecordManaged,
          StrandedNotHeld, NothingUnrecorded, HaltOnRecord, Decisions, NoDecision,
          Verdicts, Results, Entering, Resting, Open, Pending,
          venueVars, bookVars, haltVars, runVars
  <1>1. CASE StartReads
    BY <1>1 DEF StartReads, Live
  <1>2. CASE StartWrites
    BY <1>2 DEF StartWrites
  <1> QED
    BY <1>1, <1>2

\* What is left in memory when the process dies, by its types.
LEMMA CrashType == ASSUME TypeOK, Crash PROVE TypeOK'
  <1>1. settle' \in [Decisions -> {"none", "task", "writing", "done"}]
    BY DEF TypeOK, Crash
  <1>2. /\ pending' \in [Decisions -> Verdicts \cup {"none"}]
        /\ {d \in Decisions : pending'[d] # "none"} = {}
    BY DEF Crash
  <1>3. interrupted' \subseteq Decisions /\ crashes' \in 0..MaxCrashes
    BY EntriesAssumption DEF TypeOK, Crash, Decisions
  <1>4. /\ openDecision' \in [Pairs -> Decisions \cup {NoDecision}]
        /\ pc' = "off" /\ entering' = NoDecision /\ managed' = {} /\ book' = {}
    BY DEF Crash
  <1>5. (entering' # NoDecision) = (pc' \in Entering) /\ pc' \in Entering \cup Resting
    BY <1>4 DEF Entering, Resting
  <1>6. /\ row' = row /\ position' = position /\ pairOf' = pairOf /\ used' = used
        /\ starts' = starts /\ alerted' = alerted
        /\ verdict' = "none" /\ halted' = FALSE /\ alarm' = "none" /\ stranded' = {}
    BY DEF Crash, venueVars
  <1> QED
    BY <1>1, <1>2, <1>3, <1>4, <1>5, <1>6 DEF TypeOK

\* The process dies: every order there is becomes one of an interrupted entry.
LEMMA CrashKeeps == ASSUME IInv, Crash PROVE IInv'
  <1> USE EntriesAssumption
      DEF IInv, TypeOK, Fresh, Decisions, NoDecision, Verdicts, Results,
              Entering, Resting, Open, Pending, venueVars, Crash
  <1>1. \A d \in Decisions : position[d] # "none" => d \in interrupted'
    BY EntriesAssumption
  <1>2. TypeOK'
    BY CrashType
  <1>3. Fresh' /\ Phase'
    BY DEF Phase
  <1>4. Matching'
    BY <1>1 DEF Matching
  <1>5. OnePerPair' /\ OnRecordManaged'
    BY <1>1 DEF OnePerPair, Occupying, OnRecordManaged
  <1>6. StrandedNotHeld' /\ NothingUnrecorded' /\ HaltOnRecord'
    BY DEF StrandedNotHeld, NothingUnrecorded, HaltOnRecord
  <1> QED
    BY <1>2, <1>3, <1>4, <1>5, <1>6

-----------------------------------------------------------------------------
\* Every step keeps the invariant.
LEMMA StepKeeps == IInv /\ [Next]_vars => IInv'
  <1> SUFFICES ASSUME IInv, [Next]_vars PROVE IInv'
    OBVIOUS
  <1>1. CASE Venue
    BY <1>1, VenueKeeps
  <1>2. CASE Manage
    BY <1>2, ManageKeeps
  <1>3. CASE Pass
    BY <1>3, PassKeeps
  <1>4. CASE Entry
    BY <1>4, GateKeeps, SendKeeps, AnswerKeeps, RecordKeeps DEF Entry
  <1>5. CASE Life
    BY <1>5, StopKeeps, StartKeeps, CrashKeeps DEF Life
  <1>6. CASE UNCHANGED vars
    BY <1>6 DEF vars, venueVars, loopVars, bookVars, haltVars, runVars, IInv, TypeOK, Fresh,
                Phase, Matching, OnePerPair, Occupying, OnRecordManaged, StrandedNotHeld,
                NothingUnrecorded, HaltOnRecord, Open, Pending
  <1> QED
    BY <1>1, <1>2, <1>3, <1>4, <1>5, <1>6 DEF Next

\* The inductive invariant holds of every behaviour.
THEOREM Inductive == Spec => []IInv
  BY InitKeeps, StepKeeps, PTL DEF Spec

\* The loop's variables keep their types.
THEOREM TypeCorrect == Spec => []TypeOK
  BY Inductive, PTL DEF IInv

\* No order is at the venue whose decision the database does not know, wherever a write
\* fails, the loop is stopped or the process dies (_write_submitting before place_order).
THEOREM OrdersOnRecord == Spec => []NothingUnrecorded
  BY Inductive, PTL DEF IInv

\* A position the loop opened is managed or the engine is halted, whatever became of the
\* write of its row.
THEOREM PositionsTracked == Spec => []PositionTracked
  <1>1. IInv => PositionTracked
    BY DEF IInv, Matching, PositionTracked, Open
  <1> QED
    BY <1>1, Inductive, PTL

\* Two open positions share a pair only if one comes from an entry that was cut short.
THEOREM OneOnEachPair == Spec => []OnePositionPerPair
  <1>1. IInv => OnePositionPerPair
    BY DEF IInv, OnePerPair, Occupying, OnePositionPerPair, Open
  <1> QED
    BY <1>1, Inductive, PTL

\* A halt whose alarm is clear has its alert written, and no row waiting to say UNSIZED_FILL.
THEOREM HaltsAreOnRecord == Spec => []HaltOnRecord
  BY Inductive, PTL DEF IInv

-----------------------------------------------------------------------------
\* Only Send puts an order on the wire.
LEMMA OnlySendSends ==
    ASSUME TypeOK, Next, NEW d \in Decisions, position[d] = "none", position'[d] = "wire"
    PROVE  Send
  <1> USE DEF TypeOK, venueVars, Open
  <1>1. ~Venue
    BY DEF Venue, VenueFills, VenueRefuses, OthersClose
  <1>2. ~Manage
    BY DEF Manage, ManagedClose, SettleBegins, PersistFails, ResolveBegins, ResolveCommits,
           ResolveFails
  <1>3. ~Pass
    BY DEF Pass, Retry, RetryRaises, ScanBegins, PassEnds
  <1>4. ~Life
    BY DEF Life, Stop, StopSweep, StartReads, StartWrites, Crash
  <1>5. Entry => Send
    BY DEF Entry, Gate, RefusedUnsent, NotSent, AnsweredFilled, AnsweredRefused,
           AnsweredUnsized, Unresolved, Recorded, RecordRaises, AlertEnds
  <1> QED
    BY <1>1, <1>2, <1>3, <1>4, <1>5 DEF Next

\* No order leaves while a managed position is not OPEN on record.
THEOREM EverySendOnRecord == Spec => SendsOnRecord
  <1>1. IInv /\ [Next]_vars =>
          [\A d \in Decisions : position[d] = "none" /\ position'[d] = "wire" =>
             \A e \in (Open \cap managed) \ interrupted : row[e] = "OPEN"]_vars
    <2> SUFFICES ASSUME IInv, Next, NEW d \in Decisions,
                        position[d] = "none", position'[d] = "wire"
                 PROVE  \A e \in (Open \cap managed) \ interrupted : row[e] = "OPEN"
      OBVIOUS
    <2>1. Send
      BY OnlySendSends DEF IInv
    <2> QED
      BY <2>1 DEF Send, IInv, Phase, OnRecordManaged, Open, Pending
  <1> QED
    BY <1>1, Inductive, PTL DEF Spec, SendsOnRecord

\* A verdict is only written over SUBMITTING, or is the first and says REJECTED.
THEOREM VerdictsOverSubmitting == Spec => VerdictsFromSubmitting
  <1>1. IInv /\ [Next]_vars =>
          [\A d \in Decisions : row'[d] # row[d] /\ row'[d] \in Verdicts =>
             row[d] = "SUBMITTING" \/ (row[d] = "none" /\ row'[d] = "REJECTED")]_vars
    <2> SUFFICES ASSUME IInv, Next, NEW d \in Decisions,
                        row'[d] # row[d], row'[d] \in Verdicts
                 PROVE  row[d] = "SUBMITTING" \/ (row[d] = "none" /\ row'[d] = "REJECTED")
      OBVIOUS
    <2> USE DEF IInv, TypeOK, Verdicts, Move
    <2>1. ~Venue
      BY DEF Venue, VenueFills, VenueRefuses, OthersClose
    <2>2. ~Manage
      BY DEF Manage, ManagedClose, SettleBegins, PersistFails, ResolveBegins, ResolveCommits,
             ResolveFails
    <2>3. Pass => row[d] = "SUBMITTING"
      BY DEF Pass, Retry, RetryRaises, ScanBegins, PassEnds
    <2>4. CASE Life
      BY <2>4 DEF Life, Stop, CutWrite, StopSweep, StartReads, StartWrites, Crash
    <2>5. CASE Entry
      BY <2>5 DEF Entry, Gate, RefusedUnsent, Send, NotSent, AnsweredFilled, AnsweredRefused,
                  AnsweredUnsized, Unresolved, Recorded, RecordRaises, AlertEnds, Fresh
    <2> QED
      BY <2>1, <2>2, <2>3, <2>4, <2>5 DEF Next
  <1> QED
    BY <1>1, Inductive, PTL DEF Spec, VerdictsFromSubmitting

\* A position the process manages is never written off by a start.
THEOREM NeverWrittenOff == Spec => ManagedNeverAbandoned
  <1>1. IInv /\ [Next]_vars =>
          [\A d \in managed : row'[d] = "ABANDONED" => row[d] = "ABANDONED"]_vars
    <2> SUFFICES ASSUME IInv, Next, NEW d \in managed, row'[d] = "ABANDONED"
                 PROVE  row[d] = "ABANDONED"
      OBVIOUS
    <2> USE DEF IInv, TypeOK, Move
    <2>1. CASE Venue
      BY <2>1 DEF Venue, VenueFills, VenueRefuses, OthersClose
    <2>2. CASE Manage
      BY <2>2 DEF Manage, ManagedClose, SettleBegins, PersistFails, ResolveBegins,
                  ResolveCommits, ResolveFails
    <2>3. CASE Pass
      BY <2>3 DEF Pass, Retry, RetryRaises, ScanBegins, PassEnds, Pending, Verdicts
    <2>4. CASE Life
      BY <2>4 DEF Life, Stop, CutWrite, StopSweep, StartReads, StartWrites, Crash,
                  StrandedNotHeld, Phase, Verdicts
    <2>5. CASE Entry
      BY <2>5 DEF Entry, Gate, RefusedUnsent, Send, NotSent, AnsweredFilled, AnsweredRefused,
                  AnsweredUnsized, Unresolved, Recorded, RecordRaises, AlertEnds,
                  Phase, Verdicts
    <2> QED
      BY <2>1, <2>2, <2>3, <2>4, <2>5 DEF Next
  <1> QED
    BY <1>1, Inductive, PTL DEF Spec, ManagedNeverAbandoned
=============================================================================
