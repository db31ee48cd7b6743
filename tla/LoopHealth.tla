----------------------------- MODULE LoopHealth -----------------------------
(***************************************************************************)
(* What monitoring/data_health.py says of the live loop, from the rows the *)
(* loop leaves behind and the gate it is asked about: whether the shadow   *)
(* still records (shadow_health), whether a symbol is withdrawn from       *)
(* trading by a position that was closed in part (order_path_health), and  *)
(* the answer over both (data_health).  One symbol, on a venue that keeps  *)
(* the position when the process dies.  Time is counted in bars; a         *)
(* position is of ten parts, and its partial closes seven.                 *)
(***************************************************************************)
EXTENDS Integers, Sequences, FiniteSetsExt

CONSTANTS
  ShadowStale,   \* SHADOW_STALE_BARS and SHADOW_DOWN_BARS
  ShadowDown,
  BlockedFloor,  \* ORDER_PATH_BLOCKED_BARS_FLOOR
  MaxClock,      \* bounds on the bars, the runs and the entries
  MaxRuns,
  MaxEntries

ASSUME HealthAssumption ==
  /\ {ShadowStale, BlockedFloor, MaxClock, MaxRuns, MaxEntries} \subseteq Nat
  /\ ShadowDown \in Nat /\ ShadowStale <= ShadowDown

VARIABLES
  clock,      \* the time
  runs,       \* engine_runs: [started, ended]
  alive,      \* the loop of the last run turns
  diedAt,     \* when its process died
  decided,    \* created_at of the newest decision of the symbol
  recorded,   \* created_at of the newest setup_evaluation
  entered,    \* decisions with sized units: [run, at, late, parts], parts being the
              \* lots of its trade rows and late a fill over a second after the decision
  held,       \* the position that the venue holds: [entry, left], entry 0 for none
  halt        \* the gate has a reason that comes before the position

healthVars == <<clock, runs, alive, diedAt, decided, recorded, entered, held, halt>>

NoPosition == [entry |-> 0, left |-> 0]
NeverAt == -1
ThisRun == Len(runs)
RunOver == ThisRun = 0 \/ runs[ThisRun].ended
Since == runs[ThisRun].started

-----------------------------------------------------------------------------
(* shadow_health. *)

\* The newest row of the run; a silence is counted from the run's start at the earliest.
ShadowAge == clock - (IF recorded >= Since THEN recorded ELSE Since)

ShadowStatus ==
  IF RunOver THEN "idle"
  ELSE IF ShadowAge > ShadowDown THEN "down"
  ELSE IF ShadowAge > ShadowStale THEN "stale"
  ELSE "healthy"

-----------------------------------------------------------------------------
(* order_path_health, of the open run or else of the last. *)

OfRun == {k \in DOMAIN entered : entered[k].run = ThisRun}

\* The lots of the trades that were entered within a second of the decision.
Matched(k) == IF entered[k].late THEN 0 ELSE entered[k].parts

\* entry_has_outstanding_remainder.
Outstanding(k) == 0 < Matched(k) /\ Matched(k) < 10

\* Mutant: the first entry alone is asked for a remainder.
FirstRemainder == OfRun # {} /\ Outstanding(Min(OfRun))

\* outstanding_remainder_by_symbol: any entry of the run.
Remainder == \E k \in OfRun : Outstanding(k)

BarsBlocked == clock - (IF decided >= Since THEN decided ELSE Since)

\* _entry_block_reason answers with the position only when nothing comes before it.
BlockedByPosition == ~halt /\ held.entry # 0

Withdrawn == BlockedByPosition /\ Remainder /\ BarsBlocked > BlockedFloor

OrderPathStatus ==
  IF ThisRun = 0 THEN "idle"
  ELSE IF Withdrawn THEN "withdrawn" ELSE IF RunOver THEN "idle" ELSE "healthy"

\* data_health, as far as it is about the loop.
OkStatuses == {"healthy", "idle"}
Problems == {ShadowStatus, OrderPathStatus} \ OkStatuses

-----------------------------------------------------------------------------
(* The loop. *)

\* start: what runs is ended and a run is opened, whatever the venue holds.
StartRun ==
  /\ ~alive /\ ThisRun < MaxRuns
  /\ runs' = Append([r \in DOMAIN runs |-> [runs[r] EXCEPT !.ended = TRUE]], [started |-> clock, ended |-> FALSE])
  /\ alive' = TRUE /\ diedAt' = 0
  /\ UNCHANGED <<clock, decided, recorded, entered, held, halt>>

\* The close of some parts, and its row unless the write is lost.
ClosePart(parts) ==
  /\ \E wrote \in BOOLEAN :
       entered' = [entered EXCEPT ![held.entry].parts = @ + IF wrote THEN parts ELSE 0]
  /\ held' = IF held.left = parts THEN NoPosition ELSE [held EXCEPT !.left = @ - parts]

\* stop: the positions are closed if the venue lets it, and the run is ended.
StopRun ==
  /\ alive
  /\ alive' = FALSE /\ UNCHANGED diedAt
  /\ runs' = [runs EXCEPT ![ThisRun].ended = TRUE]
  /\ \/ held.entry # 0 /\ ClosePart(held.left)
     \/ UNCHANGED <<entered, held>>
  /\ UNCHANGED <<clock, decided, recorded, halt>>

\* The process dies: the run stays open in the database.
LoopDies ==
  /\ alive /\ alive' = FALSE /\ diedAt' = clock
  /\ UNCHANGED <<clock, runs, decided, recorded, entered, held, halt>>

\* A bar of the loop: the shadow records unless it raises, and the gate lets the bar
\* reach a decision or not; a decision may enter.
BarOfLoop ==
  /\ alive /\ clock < MaxClock /\ clock' = clock + 1
  /\ recorded' \in {recorded, clock'}
  /\ IF halt \/ held.entry # 0 THEN UNCHANGED <<decided, entered, held>>
     ELSE /\ decided' = clock'
          /\ \/ UNCHANGED <<entered, held>>
             \/ /\ Len(entered) < MaxEntries
                /\ \E late \in BOOLEAN :
                     entered' = Append(entered, [run |-> ThisRun, at |-> clock', late |-> late, parts |-> 0])
                /\ held' = [entry |-> Len(entered'), left |-> 10]
  /\ UNCHANGED <<runs, alive, diedAt, halt>>

\* The partial, or what is left.
Exits ==
  /\ alive /\ held.entry # 0
  /\ \/ held.left = 10 /\ ClosePart(7)
     \/ ClosePart(held.left)
  /\ UNCHANGED <<clock, runs, alive, diedAt, decided, recorded, halt>>

\* A bar that no loop sees.
BarAlone ==
  /\ ~alive /\ clock < MaxClock /\ clock' = clock + 1
  /\ UNCHANGED <<runs, alive, diedAt, decided, recorded, entered, held, halt>>

\* A halt, an armed kill switch or a blind symbol begins or ends.
HaltTurns ==
  /\ alive /\ halt' = ~halt
  /\ UNCHANGED <<clock, runs, alive, diedAt, decided, recorded, entered, held>>

HealthInit ==
  /\ clock = 0 /\ runs = <<>> /\ alive = FALSE /\ diedAt = 0
  /\ decided = NeverAt /\ recorded = NeverAt
  /\ entered = <<>> /\ held = NoPosition /\ halt = FALSE

HealthNext == StartRun \/ StopRun \/ LoopDies \/ BarOfLoop \/ Exits \/ BarAlone \/ HaltTurns

HealthSpec == HealthInit /\ [][HealthNext]_healthVars

HealthTypeOK ==
  /\ clock \in 0..MaxClock /\ diedAt \in 0..clock
  /\ {decided, recorded} \subseteq NeverAt..clock
  /\ \A k \in DOMAIN entered : entered[k].at \in 0..clock /\ entered[k].parts \in 0..10
  /\ held.entry \in 0..Len(entered) /\ held.left \in {0, 3, 10}

-----------------------------------------------------------------------------
(* Properties. *)

\* The symbol is out of trading by a position of the open run that was closed in part,
\* and the rows tell it: the entry filled at once and its partial was written.
StandsWithdrawn ==
  /\ held.entry \in OfRun /\ held.left < 10 /\ ~halt
  /\ ~entered[held.entry].late /\ entered[held.entry].parts > 0

\* The monitors tell the truth about a loop that is broken and about none other: a loop
\* that died in an open run is not healthy once it is silent for ShadowStale bars; a
\* position closed in part that blocks its symbol for more than the floor is reported
\* withdrawn; and a withdrawn symbol has been blocked that long by the position.
HealthTellsTruth ==
  /\ ~alive /\ ~RunOver /\ clock - diedAt > ShadowStale => Problems # {}
  /\ StandsWithdrawn /\ clock - entered[held.entry].at > BlockedFloor => OrderPathStatus = "withdrawn"
  /\ OrderPathStatus = "withdrawn" => held.entry # 0 /\ clock - entered[held.entry].at > BlockedFloor
=============================================================================
