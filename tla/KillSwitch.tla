----------------------------- MODULE KillSwitch -----------------------------
(***************************************************************************)
(* The panic stop: KillSwitch.trigger (services/compliance/kill_switch.py) *)
(* and the sweep it runs over the broker registry                          *)
(* (BrokerManager.close_all_positions, services/broker/manager.py).        *)
(*                                                                         *)
(* A trigger is called by a request.  The first one marks the switch, arms *)
(* it and starts the sweep as a task of its own; any other answers "already *)
(* in progress".  The caller awaits the sweep through asyncio.shield, so a *)
(* cancelled caller goes on waiting, leaves an audit record in a session   *)
(* of its own, and then raises CancelledError.  Meanwhile reconnections    *)
(* change the registry the sweep iterates over.                            *)
(*                                                                         *)
(* What an adapter does inside its own close_all_positions is one step     *)
(* here; module AlpacaAccount opens it up.                                 *)
(***************************************************************************)
EXTENDS Integers, FiniteSets

CONSTANTS
    Triggers,      \* calls of trigger(), each one a request with its own DB session
    Adapters,      \* connection ids of the registry, one per broker account
    NoAdapter,     \* "no adapter is being awaited"
    MaxResizes     \* bound on the number of changes of the registry

ASSUME AdaptersAssumption == IsFiniteSet(Adapters) /\ NoAdapter \notin Adapters
ASSUME ResizesAssumption == MaxResizes \in Nat

VARIABLES
    armed,      \* KillSwitchState.armed
    marked,     \* KillSwitchState.trigger_started is not None
    down,       \* the event loop is shutting down: every task was cancelled
    caller,     \* where each call of trigger() is
    noted,      \* its local caller_cancelled
    sweep,      \* the sweep task each call started
    session,    \* the audit row of _run_trigger in the caller's own session
    record,     \* the audit row of a cancelled trigger, in a fresh session
    registry,   \* the keys of BrokerManager._adapters
    resizes,    \* how often the registry has changed (bounded by MaxResizes)
    size,       \* its size when the sweep's dict iterator was created
    visited,    \* the keys that iterator has passed
    current,    \* BrokerManager._close_all_current
    results,    \* BrokerManager._close_all_results: the accounts that have a row
    rows,       \* the accounts with a row in what each trigger reports
    steady      \* history: the accounts registered from each pull to the end of its sweep

callerVars   == <<caller, noted, record>>
sweepVars    == <<sweep, session, rows>>
registryVars == <<registry, resizes>>
loopVars     == <<size, visited, current, results>>
vars == <<armed, marked, down, callerVars, sweepVars, registryVars, loopVars, steady>>

CallerStates  == {"idle", "waiting", "recording",
                  "answered", "in progress", "raised", "cancelled"}
SweepStates   == {"none", "scheduled", "closing", "counting", "done", "raised", "cancelled"}
SessionStates == {"none", "flushed", "committed", "rolled back"}
RecordStates  == {"none", "writing", "committed", "failed"}

TypeOK ==
    /\ armed \in BOOLEAN /\ marked \in BOOLEAN /\ down \in BOOLEAN
    /\ caller \in [Triggers -> CallerStates]
    /\ noted \in [Triggers -> BOOLEAN]
    /\ sweep \in [Triggers -> SweepStates]
    /\ session \in [Triggers -> SessionStates]
    /\ record \in [Triggers -> RecordStates]
    /\ registry \subseteq Adapters
    /\ resizes \in 0..MaxResizes
    /\ size \in Nat
    /\ visited \subseteq Adapters
    /\ current \in Adapters \cup {NoAdapter}
    /\ results \subseteq Adapters
    /\ rows \in [Triggers -> SUBSET Adapters]
    /\ steady \in [Triggers -> SUBSET Adapters]

Init ==
    /\ armed = FALSE /\ marked = FALSE /\ down = FALSE
    /\ caller = [t \in Triggers |-> "idle"]
    /\ noted = [t \in Triggers |-> FALSE]
    /\ sweep = [t \in Triggers |-> "none"]
    /\ session = [t \in Triggers |-> "none"]
    /\ record = [t \in Triggers |-> "none"]
    /\ registry \in SUBSET Adapters
    /\ resizes = 0 /\ size = 0
    /\ visited = {} /\ current = NoAdapter /\ results = {}
    /\ rows = [t \in Triggers |-> {}]
    /\ steady = [t \in Triggers |-> {}]

-----------------------------------------------------------------------------
(* Arming and disarming. *)

Arm ==
    /\ armed' = TRUE
    /\ UNCHANGED <<marked, down, callerVars, sweepVars, registryVars, loopVars, steady>>

\* Mutant: a disarm that does not ask whether a trigger is running.
DisarmUnasked ==
    /\ armed' = FALSE
    /\ UNCHANGED <<marked, down, callerVars, sweepVars, registryVars, loopVars, steady>>

\* Refused (ComplianceError) while the mark is set.
Disarm ==
    /\ ~marked
    /\ armed' = FALSE
    /\ UNCHANGED <<marked, down, callerVars, sweepVars, registryVars, loopVars, steady>>

-----------------------------------------------------------------------------
(* trigger(): the check, the mark, the arming and the task are one step: no *)
(* await separates them.                                                   *)

\* Mutant: a trigger that leaves the arming to its callers.
BeginUnarmed(t) ==
    /\ caller[t] = "idle" /\ ~down /\ ~marked
    /\ marked' = TRUE
    /\ caller' = [caller EXCEPT ![t] = "waiting"]
    /\ sweep' = [sweep EXCEPT ![t] = "scheduled"]
    /\ steady' = [steady EXCEPT ![t] = registry]
    /\ UNCHANGED <<armed, down, noted, record, session, rows, registryVars, loopVars>>

BeginTrigger(t) ==
    /\ caller[t] = "idle" /\ ~down
    /\ ~marked
    /\ marked' = TRUE
    /\ armed' = TRUE
    /\ caller' = [caller EXCEPT ![t] = "waiting"]
    /\ sweep' = [sweep EXCEPT ![t] = "scheduled"]
    /\ steady' = [steady EXCEPT ![t] = registry]
    /\ UNCHANGED <<down, noted, record, session, rows, registryVars, loopVars>>

AnswerInProgress(t) ==
    /\ caller[t] = "idle" /\ ~down
    /\ marked
    /\ caller' = [caller EXCEPT ![t] = "in progress"]
    /\ UNCHANGED <<armed, marked, down, noted, record, sweepVars, registryVars, loopVars, steady>>

-----------------------------------------------------------------------------
(* The sweep task. *)

\* What the task's finally does, however the sweep ends.
ClearMark == marked' = FALSE

\* _run_trigger once close_all_positions is over: the rows are counted and the audit
\* row is flushed, best effort, into the caller's session.
CountAndFlush(t, accounts) ==
    /\ sweep' = [sweep EXCEPT ![t] = "counting"]
    /\ rows' = [rows EXCEPT ![t] = accounts]
    /\ \E flushed \in {"none", "flushed"} : session' = [session EXCEPT ![t] = flushed]
    /\ current' = NoAdapter

\* The dict iterator's next(), up to the next await.  A registry whose size is not the
\* one it started with raises RuntimeError: the exception carries no partial_report,
\* and _run_trigger then reports no row at all.
NextAdapter(t, done, startSize, seen) ==
    /\ size' = startSize
    /\ results' = done
    /\ \/ /\ Cardinality(registry) # startSize
          /\ CountAndFlush(t, {})
          /\ visited' = seen
       \/ /\ Cardinality(registry) = startSize
          /\ registry \subseteq seen
          /\ CountAndFlush(t, done)
          /\ visited' = seen
       \/ /\ Cardinality(registry) = startSize
          /\ \E a \in registry \ seen :
                /\ current' = a
                /\ visited' = seen \cup {a}
          /\ sweep' = [sweep EXCEPT ![t] = "closing"]
          /\ UNCHANGED <<rows, session>>

StartSweep(t) ==
    /\ sweep[t] = "scheduled"
    /\ NextAdapter(t, {}, Cardinality(registry), {})
    /\ UNCHANGED <<armed, marked, down, callerVars, registryVars, steady>>

\* Mutant: an adapter that raised without a report leaves no error row.
AnswersOrSilent(t) ==
    /\ sweep[t] = "closing"
    /\ \E answered \in {{}, {current}} : NextAdapter(t, results \cup answered, size, visited)
    /\ UNCHANGED <<armed, marked, down, callerVars, registryVars, steady>>

\* The adapter returned its rows, or raised with its partial report, or raised without
\* one: in each case its account has a row (at least the adapter's error row).
AdapterAnswers(t) ==
    /\ sweep[t] = "closing"
    /\ NextAdapter(t, results \cup {current}, size, visited)
    /\ UNCHANGED <<armed, marked, down, callerVars, registryVars, steady>>

SweepReturns(t) ==
    /\ sweep[t] = "counting"
    /\ sweep' = [sweep EXCEPT ![t] = "done"]
    /\ ClearMark
    /\ UNCHANGED <<armed, down, callerVars, session, rows, registryVars, loopVars, steady>>

\* Mutant: the mark is cleared on return only.
RaisesMarked(t) ==
    /\ sweep[t] = "counting"
    /\ sweep' = [sweep EXCEPT ![t] = "raised"]
    /\ UNCHANGED <<armed, marked, down, callerVars, session, rows, registryVars, loopVars, steady>>

\* An exception nothing in _run_trigger catches (a row that is not a dict, say).
SweepRaises(t) ==
    /\ sweep[t] = "counting"
    /\ sweep' = [sweep EXCEPT ![t] = "raised"]
    /\ ClearMark
    /\ UNCHANGED <<armed, down, callerVars, session, rows, registryVars, loopVars, steady>>

-----------------------------------------------------------------------------
(* The caller. *)

SweepOver(t) == sweep[t] \in {"done", "raised", "cancelled"}

\* Mutant: the mark belongs to the caller, whose finally clears it on a cancellation.
CancelUnmarks(t) ==
    /\ caller[t] \in {"waiting", "recording"}
    /\ noted' = [noted EXCEPT ![t] = TRUE]
    /\ marked' = FALSE
    /\ UNCHANGED <<armed, down, caller, record, sweepVars, registryVars, loopVars, steady>>

\* Cancelling the caller cancels the shield, never the sweep.  While the record is being
\* written a further cancellation is noted and the write is awaited again.
CancelCaller(t) ==
    /\ caller[t] \in {"waiting", "recording"}
    /\ noted' = [noted EXCEPT ![t] = TRUE]
    /\ UNCHANGED <<armed, marked, down, caller, record, sweepVars, registryVars, loopVars, steady>>

\* Mutant: the caller's session commits however the request ends.
CommitAnyway(t) ==
    session' = [session EXCEPT ![t] = IF @ = "flushed" THEN "committed" ELSE @]

\* get_session commits only after a normal exit.
RollBack(t) ==
    session' = [session EXCEPT ![t] = IF @ = "flushed" THEN "rolled back" ELSE @]

\* Mutant: a sweep that finished is reported, cancelled or not.
ReturnAnyway(t) ==
    /\ caller[t] = "waiting"
    /\ sweep[t] = "done"
    /\ caller' = [caller EXCEPT ![t] = "answered"]
    /\ UNCHANGED <<armed, marked, down, noted, record, sweepVars, registryVars, loopVars, steady>>

ReturnReport(t) ==
    /\ caller[t] = "waiting" /\ ~noted[t]
    /\ sweep[t] = "done"
    /\ caller' = [caller EXCEPT ![t] = "answered"]
    /\ UNCHANGED <<armed, marked, down, noted, record, sweepVars, registryVars, loopVars, steady>>

Propagate(t) ==
    /\ caller[t] = "waiting" /\ ~noted[t]
    /\ sweep[t] = "raised"
    /\ caller' = [caller EXCEPT ![t] = "raised"]
    /\ RollBack(t)
    /\ UNCHANGED <<armed, marked, down, noted, record, sweep, rows, registryVars, loopVars, steady>>

\* The sweep itself was cancelled: the rows are logged, no audit row is written.
SweepWasCancelled(t) ==
    /\ caller[t] = "waiting"
    /\ sweep[t] = "cancelled"
    /\ caller' = [caller EXCEPT ![t] = "cancelled"]
    /\ RollBack(t)
    /\ UNCHANGED <<armed, marked, down, noted, record, sweep, rows, registryVars, loopVars, steady>>

\* Mutant: a cancelled caller writes its record without waiting for the sweep.
RecordAtOnce(t) ==
    /\ caller[t] = "waiting" /\ noted[t]
    /\ caller' = [caller EXCEPT ![t] = "recording"]
    /\ record' = [record EXCEPT ![t] = "writing"]
    /\ UNCHANGED <<armed, marked, down, noted, sweepVars, registryVars, loopVars, steady>>

\* A cancelled caller whose sweep ended.  The rows of a sweep that raised are read from
\* the manager, as they are now.
BeginRecord(t) ==
    /\ caller[t] = "waiting" /\ noted[t]
    /\ sweep[t] \in {"done", "raised"}
    /\ caller' = [caller EXCEPT ![t] = "recording"]
    /\ record' = [record EXCEPT ![t] = "writing"]
    /\ rows' = [rows EXCEPT ![t] = IF sweep[t] = "raised" THEN results ELSE @]
    /\ UNCHANGED <<armed, marked, down, noted, sweep, session, registryVars, loopVars, steady>>

\* The write task: it commits, or fails (or is cancelled by the shutdown) and is logged.
WriteEnds(t) ==
    /\ record[t] = "writing"
    /\ \E outcome \in {"committed", "failed"} : record' = [record EXCEPT ![t] = outcome]
    /\ UNCHANGED <<armed, marked, down, caller, noted, sweepVars, registryVars, loopVars, steady>>

\* Mutant: no deadline, the caller stays until the write is over.
LeaveWhenWritten(t) ==
    /\ caller[t] = "recording" /\ record[t] # "writing"
    /\ caller' = [caller EXCEPT ![t] = "cancelled"]
    /\ RollBack(t)
    /\ UNCHANGED <<armed, marked, down, noted, record, sweep, rows, registryVars, loopVars, steady>>

\* The write is over, or its one deadline is: then it is left running.
LeaveCancelled(t) ==
    /\ caller[t] = "recording"
    /\ caller' = [caller EXCEPT ![t] = "cancelled"]
    /\ RollBack(t)
    /\ UNCHANGED <<armed, marked, down, noted, record, sweep, rows, registryVars, loopVars, steady>>

\* The request after a normal return: get_session commits, or the request is cancelled or
\* its commit fails.
EndRequest(t) ==
    /\ caller[t] = "answered"
    /\ session[t] = "flushed"
    /\ \E outcome \in {"committed", "rolled back"} : session' = [session EXCEPT ![t] = outcome]
    /\ UNCHANGED <<armed, marked, down, callerVars, sweep, rows, registryVars, loopVars, steady>>

-----------------------------------------------------------------------------
(* The registry, and the shutdown. *)

\* The sweep task is not done.
Sweeping(t) == sweep[t] \in {"scheduled", "closing", "counting"}

\* connect_broker and reconnect_broker take the old adapter out before they await the new
\* one; disconnect_broker and reconcile_connections take it out for good.  A key that
\* comes back goes to the end of the dict, so an iterator will pass it again.
DropAdapter(a) ==
    /\ resizes < MaxResizes /\ a \in registry
    /\ registry' = registry \ {a}
    /\ visited' = visited \ {a}
    /\ resizes' = resizes + 1
    /\ steady' = [t \in Triggers |-> IF Sweeping(t) THEN steady[t] \ {a} ELSE steady[t]]
    /\ UNCHANGED <<armed, marked, down, callerVars, sweepVars, size, current, results>>

\* Mutant: the bound is off by one.
AddBeyond(a) ==
    /\ resizes <= MaxResizes /\ a \notin registry
    /\ registry' = registry \cup {a}
    /\ resizes' = resizes + 1
    /\ UNCHANGED <<armed, marked, down, callerVars, sweepVars, loopVars, steady>>

AddAdapter(a) ==
    /\ resizes < MaxResizes /\ a \notin registry
    /\ registry' = registry \cup {a}
    /\ resizes' = resizes + 1
    /\ UNCHANGED <<armed, marked, down, callerVars, sweepVars, loopVars, steady>>

\* The loop cancels every task.  A sweep whose task has not started yet never enters its
\* try, so its finally does not run and the mark stays set.
Shutdown ==
    /\ ~down
    /\ down' = TRUE
    /\ noted' = [t \in Triggers |-> noted[t] \/ caller[t] \in {"waiting", "recording"}]
    /\ sweep' = [t \in Triggers |->
                    IF sweep[t] \in {"scheduled", "closing", "counting"} THEN "cancelled" ELSE sweep[t]]
    /\ record' = [t \in Triggers |-> IF record[t] = "writing" THEN "failed" ELSE record[t]]
    /\ marked' = (marked /\ \E t \in Triggers : sweep[t] = "scheduled")
    /\ current' = NoAdapter
    /\ UNCHANGED <<armed, caller, session, rows, registryVars, size, visited, results, steady>>

-----------------------------------------------------------------------------
SweepStep(t) ==
    \/ StartSweep(t) \/ AdapterAnswers(t) \/ SweepReturns(t) \/ SweepRaises(t)

CallerStep(t) ==
    \/ ReturnReport(t) \/ Propagate(t) \/ SweepWasCancelled(t) \/ BeginRecord(t)
    \/ LeaveCancelled(t)

Next ==
    \/ Arm \/ Disarm \/ Shutdown
    \/ \E t \in Triggers :
          \/ BeginTrigger(t) \/ AnswerInProgress(t) \/ CancelCaller(t)
          \/ SweepStep(t) \/ CallerStep(t)
          \/ WriteEnds(t) \/ EndRequest(t)
    \/ \E a \in Adapters : DropAdapter(a) \/ AddAdapter(a)

Spec == Init /\ [][Next]_vars

\* An adapter's own bounds end its close, and the loop runs every task that is ready; a
\* recording caller leaves at its deadline at the latest.
Fairness == \A t \in Triggers : WF_vars(SweepStep(t)) /\ WF_vars(CallerStep(t))

FairSpec == Spec /\ Fairness
-----------------------------------------------------------------------------
(* Properties. *)

\* However many requests pull the switch, and whenever their callers are cancelled, the
\* accounts are never swept twice at the same time: a second sweep is a second sell.
OneSweep ==
    \A t, u \in Triggers : Sweeping(t) /\ Sweeping(u) => t = u

\* A sweep never runs while the switch lets entries through: no disarm reaches into it,
\* and the trigger armed before it started (K2-11, K2-12).
SweepsArmed ==
    \A t \in Triggers : Sweeping(t) => armed

\* The request, and with it the DB session the sweep flushes into, stays until its sweep
\* is over, whatever number of times it is cancelled (B446).
CallerOutlivesSweep ==
    \A t \in Triggers : Sweeping(t) => caller[t] = "waiting"

\* A cancelled trigger never returns normally and never raises the sweep's own failure,
\* also when the cancellation lands after the sweep ended and before the caller woke up.
CancellationHonoured ==
    \A t \in Triggers : noted[t] => caller[t] \notin {"answered", "raised"}

\* A pull is never audited twice, in the caller's session and in the fresh one; and a
\* cancelled caller whose sweep ended by itself started the record before it left.
AuditedOnce ==
    \A t \in Triggers :
        /\ ~(session[t] = "committed" /\ record[t] # "none")
        /\ caller[t] = "cancelled" /\ sweep[t] \in {"done", "raised"} => record[t] # "none"

\* Every account that was registered when the switch was pulled, and stayed registered
\* while it was swept, has a row in the report the caller is given ("CLOSED, FAILED WITH A REASON, or NOT ATTEMPTED").
AccountsReported ==
    \A t \in Triggers : caller[t] = "answered" => steady[t] \subseteq rows[t]

\* The same, while no connection is made or dropped.
StillAccountsReported == resizes = 0 => AccountsReported

\* Every pull ends.  Its caller gets an answer, also one that is cancelled again and again and whose
\* audit write never ends; and the mark does not outlive the sweep of a running process, so that the
\* switch can be pulled again and disarmed (K2-10).
PullsEnd ==
    /\ \A t \in Triggers : []<>(caller[t] \notin {"waiting", "recording"})
    /\ []<>(~marked \/ down)

\* The detailed protocol implements the promise of PanicStop.
Told(t) ==
    CASE caller[t] = "answered"    -> "report"
      [] caller[t] = "raised"      -> "failure"
      [] caller[t] = "cancelled"   -> "cancelled"
      [] caller[t] = "in progress" -> "in progress"
      [] OTHER                     -> "nothing"

Promise == INSTANCE PanicStop WITH
    active      <- {t \in Triggers : Sweeping(t)},
    interrupted <- {t \in Triggers : noted[t]},
    told        <- [t \in Triggers |-> Told(t)]

\* Every behaviour of trigger(), disarm() and the sweep is one the promise allows.
ImplementsPanicStop == Promise!Spec
=============================================================================
