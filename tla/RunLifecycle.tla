---------------------------- MODULE RunLifecycle ----------------------------
(***************************************************************************)
(* The engine's life (LiveCryptoLoop.start, stop and the rebinding of its  *)
(* broker in services/live/crypto_loop.py; the buttons of                  *)
(* api/routers/engine.py): the flag `_running`, the task that scans, the   *)
(* rows of engine_runs, and the simulated broker each run is given anew.   *)
(*                                                                         *)
(* The endpoints hold no lock: a press is served while another waits for   *)
(* the database, for the venue or for the end of the task it cancelled.    *)
(* OneAtATime says that nobody presses before the last press was answered. *)
(***************************************************************************)
EXTENDS Naturals, FiniteSets

CONSTANTS
    Presses,      \* requests to start or to stop the engine
    MaxStarts,    \* bound: runs opened and brokers bound
    MaxDeaths,    \* bound: deaths of the process
    OneAtATime    \* whether a press waits for the answer to the one before it

ASSUME LifecycleAssumption ==
    /\ IsFiniteSet(Presses) /\ MaxStarts \in Nat /\ MaxDeaths \in Nat /\ OneAtATime \in BOOLEAN

VARIABLES
    running,     \* LiveCryptoLoop._running
    paused,      \* LiveCryptoLoop.paused
    runId,       \* LiveCryptoLoop.run_id; 0 before the first start of a process
    task,        \* LiveCryptoLoop._task; 0 when there is none
    scanning,    \* tasks of _loop that have not ended; each is named for the run that started it
    cancelled,   \* those of them that were cancelled
    openRuns,    \* rows of engine_runs without ended_at
    runsMade,    \* rows made so far
    paper,       \* the broker bound, LiveCryptoLoop.paper; brokers are numbered
    hooked,      \* brokers whose _on_settle is set
    position,    \* what each broker holds: the run under which it was opened; 0: nothing
    filed,       \* trade rows: the run of the position and the run_id the row was given
    press,       \* where each press is
    was, mine,   \* stop(): its locals was_running and task
    deaths

engineVars == <<running, paused, runId, task>>
loopVars == <<scanning, cancelled>>
runVars == <<openRuns, runsMade>>
brokerVars == <<paper, hooked, position, filed>>
pressVars == <<press, was, mine>>
lifecycleVars == <<engineVars, loopVars, runVars, brokerVars, pressVars, deaths>>

Runs == 0..MaxStarts
Brokers == 0..MaxStarts
PressStates == {"unpressed", "starting", "opening", "connecting",
                "joining", "closing", "ending", "answered"}

LifecycleTypeOK ==
    /\ running \in BOOLEAN /\ paused \in BOOLEAN /\ runId \in Runs /\ task \in Runs
    /\ cancelled \subseteq scanning /\ scanning \subseteq Runs
    /\ openRuns \subseteq Runs /\ runsMade \in Runs
    /\ paper \in Brokers /\ hooked \subseteq Brokers /\ position \in [Brokers -> Runs]
    /\ filed \subseteq Runs \X Runs
    /\ press \in [Presses -> PressStates]
    /\ was \in [Presses -> BOOLEAN] /\ mine \in [Presses -> Runs]
    /\ deaths \in 0..MaxDeaths

LifecycleInit ==
    /\ running = FALSE /\ paused = FALSE /\ runId = 0 /\ task = 0
    /\ scanning = {} /\ cancelled = {}
    /\ openRuns = {} /\ runsMade = 0
    /\ paper = 0 /\ hooked = {0} /\ position = [b \in Brokers |-> 0] /\ filed = {}
    /\ press = [p \in Presses |-> "unpressed"]
    /\ was = [p \in Presses |-> FALSE] /\ mine = [p \in Presses |-> 0]
    /\ deaths = 0

May(p) ==
    /\ press[p] = "unpressed"
    /\ OneAtATime => \A q \in Presses : press[q] \in {"unpressed", "answered"}

To(p, where) == press' = [press EXCEPT ![p] = where]

-----------------------------------------------------------------------------
(* start().  Between the check of _running and its assignment it awaits     *)
(* three times.                                                             *)

\* Running already, or a venue that cannot place or manage an order: nothing changes.
Press(p) ==
    /\ May(p)
    /\ To(p, IF running THEN "answered" ELSE "starting")
    /\ UNCHANGED <<engineVars, loopVars, runVars, brokerVars, was, mine, deaths>>

\* _bind_broker: the replacement is built first; the one that goes is deafened.
Rebind(p) ==
    /\ press[p] = "starting" /\ paper < MaxStarts
    /\ paper' = paper + 1
    /\ hooked' = (hooked \ {paper}) \cup {paper + 1}
    /\ To(p, "opening")
    /\ UNCHANGED <<engineVars, loopVars, runVars, position, filed, was, mine, deaths>>

\* The broker cannot be built, the rows cannot be written, the venue cannot be reached: start raises.
StartRaises(p) ==
    /\ press[p] \in {"starting", "opening", "connecting"}
    /\ To(p, "answered")
    /\ UNCHANGED <<engineVars, loopVars, runVars, brokerVars, was, mine, deaths>>

\* Mutant: a run that opens beside those a crash left open.
OpenRunBeside(p) ==
    /\ press[p] = "opening" /\ runsMade < MaxStarts
    /\ runsMade' = runsMade + 1
    /\ openRuns' = openRuns \cup {runsMade + 1}
    /\ runId' = runsMade + 1 /\ paused' = FALSE
    /\ To(p, "connecting")
    /\ UNCHANGED <<running, task, loopVars, brokerVars, was, mine, deaths>>

\* reset_run: every run that is open ends and a new one opens, in one transaction.
OpenRun(p) ==
    /\ press[p] = "opening" /\ runsMade < MaxStarts
    /\ runsMade' = runsMade + 1
    /\ openRuns' = {runsMade + 1}
    /\ runId' = runsMade + 1 /\ paused' = FALSE
    /\ To(p, "connecting")
    /\ UNCHANGED <<running, task, loopVars, brokerVars, was, mine, deaths>>

Run(p) ==
    /\ press[p] = "connecting"
    /\ running' = TRUE
    /\ task' = runId /\ scanning' = scanning \cup {runId}
    /\ To(p, "answered")
    /\ UNCHANGED <<paused, runId, cancelled, runVars, brokerVars, was, mine, deaths>>

-----------------------------------------------------------------------------
(* stop(). *)

PressStop(p) ==
    /\ May(p)
    /\ running' = FALSE /\ task' = 0
    /\ was' = [was EXCEPT ![p] = running]
    /\ mine' = [mine EXCEPT ![p] = task]
    /\ cancelled' = cancelled \cup ({task} \cap scanning)
    /\ To(p, "joining")
    /\ UNCHANGED <<paused, runId, scanning, runVars, brokerVars, deaths>>

\* The task it cancelled has ended.
Joined(p) ==
    /\ press[p] = "joining" /\ mine[p] \notin scanning
    /\ To(p, IF was[p] THEN "closing" ELSE "answered")
    /\ paused' = (paused /\ was[p])
    /\ UNCHANGED <<running, runId, task, loopVars, runVars, brokerVars, was, mine, deaths>>

\* A close settles through the hook: its row is given the run_id of the moment.
Settled(b) == IF position[b] # 0 /\ b \in hooked THEN {<<position[b], runId>>} ELSE {}

\* Mutant: a stop that leaves its positions to the next start.
CloseNothing(p) ==
    /\ press[p] = "closing"
    /\ To(p, "ending")
    /\ UNCHANGED <<engineVars, loopVars, runVars, brokerVars, was, mine, deaths>>

CloseAll(p) ==
    /\ press[p] = "closing"
    /\ filed' = filed \cup Settled(paper)
    /\ position' = [position EXCEPT ![paper] = 0]
    /\ To(p, "ending")
    /\ UNCHANGED <<engineVars, loopVars, runVars, paper, hooked, was, mine, deaths>>

\* _end_run never raises: a row it could not write stays open.
EndRun(p) ==
    /\ press[p] = "ending"
    /\ openRuns' \in {{}, openRuns}
    /\ paused' = FALSE
    /\ To(p, "answered")
    /\ UNCHANGED <<running, runId, task, loopVars, runsMade, brokerVars, was, mine, deaths>>

Pause ==
    /\ running /\ paused' = ~paused
    /\ UNCHANGED <<running, runId, task, loopVars, runVars, brokerVars, pressVars, deaths>>

-----------------------------------------------------------------------------
(* The scanning task, its positions, and the death of the process. *)

LoopOpens(t) ==
    /\ t \in scanning \ cancelled /\ running /\ ~paused
    /\ position[paper] = 0
    /\ position' = [position EXCEPT ![paper] = runId]
    /\ UNCHANGED <<engineVars, loopVars, runVars, paper, hooked, filed, pressVars, deaths>>

LoopCloses(t) ==
    /\ t \in scanning \ cancelled /\ position[paper] # 0
    /\ filed' = filed \cup Settled(paper)
    /\ position' = [position EXCEPT ![paper] = 0]
    /\ UNCHANGED <<engineVars, loopVars, runVars, paper, hooked, pressVars, deaths>>

\* A cancelled task ends where it awaits; any other at the top of its loop.
LoopEnds(t) ==
    /\ t \in scanning /\ (t \in cancelled \/ ~running)
    /\ scanning' = scanning \ {t} /\ cancelled' = cancelled \ {t}
    /\ UNCHANGED <<engineVars, runVars, brokerVars, pressVars, deaths>>

\* Positions of an in-process broker die with it.
Die ==
    /\ deaths < MaxDeaths
    /\ deaths' = deaths + 1
    /\ running' = FALSE /\ paused' = FALSE /\ runId' = 0 /\ task' = 0
    /\ scanning' = {} /\ cancelled' = {}
    /\ hooked' = {paper} /\ position' = [b \in Brokers |-> 0]
    /\ press' = [p \in Presses |-> IF press[p] = "unpressed" THEN "unpressed" ELSE "answered"]
    /\ UNCHANGED <<runVars, paper, filed, was, mine>>

LifecycleNext ==
    \/ \E p \in Presses :
           \/ Press(p) \/ Rebind(p) \/ StartRaises(p) \/ OpenRun(p) \/ Run(p)
           \/ PressStop(p) \/ Joined(p) \/ CloseAll(p) \/ EndRun(p)
    \/ \E t \in scanning : LoopOpens(t) \/ LoopCloses(t) \/ LoopEnds(t)
    \/ Pause \/ Die

LifecycleSpec == LifecycleInit /\ [][LifecycleNext]_lifecycleVars

-----------------------------------------------------------------------------
\* While the engine runs, its run is open and is the only one, one task scans under it, and the broker
\* that task trades on still reports its closes.
RunningIsWhole ==
    running => /\ openRuns = {runId} /\ task = runId
               /\ scanning \ cancelled = {runId} /\ paper \in hooked

\* A position is closed, and its trade filed, under the run that opened it; none is left on a broker
\* that nothing sweeps any more.
TradesStayInTheirRun ==
    /\ \A row \in filed : row[1] = row[2]
    /\ \A b \in Brokers : position[b] # 0 => b = paper

\* The run of a running engine neither ends nor changes: pressing Start again does nothing to it.
RunningKeepsItsRun ==
    [][running /\ running' => runId' = runId /\ (runId \in openRuns => runId \in openRuns')]_lifecycleVars
=============================================================================
