------------------------------ MODULE BarScan ------------------------------
(***************************************************************************)
(* What the live loop does with each closed bar of a pair, and the record  *)
(* of it: the bar is marked, shown to the shadow evaluation, counted in    *)
(* the census of its session day, gated, and decided                       *)
(* (services/live/crypto_loop.py _tick_symbol, services/live/shadow.py,    *)
(* services/telemetry/census.py).  A step ends where the code awaits; the  *)
(* feed, the database and the venue may fail at each.                      *)
(* The loop asks for sixty bars and the shadow for ten, so the shadow's    *)
(* own refusal of a short history, a POLICY omission, is never reached.    *)
(***************************************************************************)
EXTENDS Integers, FiniteSets, FiniteSetsExt

CONSTANTS
  LastBar,   \* bound on the clock
  DayBars,   \* bars of a session day
  Unserved   \* sets of bars that the feed may lack

ASSUME ScanAssumption == LastBar \in Nat /\ DayBars \in Nat \ {0}

VARIABLES
  lastClosed,  \* the newest closed bar of the market; bar b closes at time b
  lacking,     \* the bars that the feed does not serve
  stage,       \* where the pass of the loop is
  scanned,     \* the bar it is about
  lastEval,    \* _last_eval
  censusDate,  \* _census_date
  omissions,   \* _omissions: the bars whose evaluation failed
  evaluated,   \* bars with a stored setup_evaluation
  ordersOf,        \* orders of this run: bar -> how many
  censuses     \* stored scan_census records

scanVars == <<lastClosed, lacking, stage, scanned, lastEval, censusDate, omissions, evaluated, ordersOf, censuses>>

Unscanned == -1
\* session_date_of a close: a bar that closes at midnight is of the day that begins.
DateOf(b) == b \div DayBars
FeedBars == (0..lastClosed) \ lacking
BarsOfDay(date) == {b \in FeedBars : DateOf(b) = date}

-----------------------------------------------------------------------------
(* The census. *)

\* Mutant: a bar that nobody can account for is taken for one the policy excludes.
AssumedPolicy(date) == BarsOfDay(date) \ (evaluated \union omissions)

\* Missing bars that the policy excuses: none, see above.
PolicyExcluded(date) == {}

\* emitted_closes: of all runs.
Emitted(date) == {b \in evaluated : DateOf(b) = date}

\* build_scan_census.
Census(date) ==
  LET missing == BarsOfDay(date) \ Emitted(date)
      failed  == missing \intersect omissions
      policy  == PolicyExcluded(date)
  IN  [date |-> date, observed |-> Cardinality(BarsOfDay(date)), emitted |-> Cardinality(Emitted(date)),
       policy |-> Cardinality(policy), failures |-> Cardinality(failed),
       unattributed |-> Cardinality(missing \ (failed \union policy))]

\* reconcile_one.
Reconciles(c) ==
  /\ c.policy + c.failures + c.unattributed = c.observed - c.emitted
  /\ c.failures = 0 /\ c.unattributed = 0

-----------------------------------------------------------------------------
(* A pass of the loop over the pair. *)

Go(next) == stage' = next
EndPass == Go("poll") /\ scanned' = Unscanned

\* Mutant: a bar is marked only when the pass is over.
MarkNothing(b) == lastEval' = lastEval

\* The bar is consumed before anything is done with it.
Mark(b) == lastEval' = b

\* A feed that fails, or serves too few bars, is the end of the pass.
Poll ==
  /\ stage = "poll" /\ FeedBars # {} /\ Max(FeedBars) # lastEval
  /\ scanned' = Max(FeedBars) /\ Mark(scanned')
  /\ Go("gate")
  /\ UNCHANGED <<lastClosed, lacking, censusDate, omissions, evaluated, ordersOf, censuses>>

\* Reading the gate, the bias, the venue may raise: the loop logs it and the bar is spent.
PassRaises ==
  /\ stage \in {"gate", "regate", "decide"} /\ EndPass
  /\ UNCHANGED <<lastClosed, lacking, lastEval, censusDate, omissions, evaluated, ordersOf, censuses>>

ReadGate ==
  /\ stage = "gate" /\ Go("shadow")
  /\ UNCHANGED <<lastClosed, lacking, scanned, lastEval, censusDate, omissions, evaluated, ordersOf, censuses>>

\* store and commit of a record: it may raise, before the row is there or after.
Writes == {w \in [stored : BOOLEAN, raised : BOOLEAN] : w.stored \/ w.raised}

\* A record, or the class of the reason why there is none.
EvaluateDetailed == {"RECORD", "FAILURE"}

NoteOmission(b) == omissions \union {b}

ShadowEvaluate ==
  /\ stage = "shadow" /\ Go("census")
  /\ \E graded \in EvaluateDetailed, w \in Writes :
       LET written == graded = "RECORD" /\ w.stored
           failed  == graded = "RECORD" => w.raised
       IN  /\ evaluated' = IF written THEN evaluated \union {scanned} ELSE evaluated
           /\ omissions' = IF failed THEN NoteOmission(scanned) ELSE omissions
  /\ UNCHANGED <<lastClosed, lacking, scanned, lastEval, censusDate, ordersOf, censuses>>

EmitCensus(date) ==
  \E w \in Writes :
    /\ censuses' = IF w.stored THEN censuses \union {Census(date)} ELSE censuses
    /\ omissions' = IF w.raised THEN omissions ELSE {b \in omissions : DateOf(b) > date}

\* The date moves on first: a census that fails is not tried again.
MaybeEmitCensus ==
  /\ stage = "census" /\ Go("regate")
  /\ censusDate' = DateOf(scanned)
  /\ IF censusDate \in {Unscanned, DateOf(scanned)} THEN UNCHANGED <<censuses, omissions>>
     ELSE EmitCensus(censusDate)
  /\ UNCHANGED <<lastClosed, lacking, scanned, lastEval, evaluated, ordersOf>>

\* The gate is read again: the loop may be in a position or halted by now.
ReadGateAgain ==
  /\ stage = "regate"
  /\ \/ EndPass
     \/ Go("decide") /\ UNCHANGED scanned
  /\ UNCHANGED <<lastClosed, lacking, lastEval, censusDate, omissions, evaluated, ordersOf, censuses>>

\* No signal: an abstention is recorded, or is lost.  A signal is sent, and may
\* raise after that.
DecideOnBar ==
  /\ stage = "decide" /\ EndPass
  /\ ordersOf' \in {ordersOf, [ordersOf EXCEPT ![scanned] = @ + 1]}
  /\ UNCHANGED <<lastClosed, lacking, lastEval, censusDate, omissions, evaluated, censuses>>

-----------------------------------------------------------------------------
(* Around it. *)

\* stop() cancels the pass wherever it is; start() opens a run that knows
\* nothing of the bars of the run before.  So does a restart of the process.
StartRun ==
  /\ lastEval # Unscanned
  /\ EndPass /\ lastEval' = Unscanned /\ censusDate' = Unscanned /\ omissions' = {}
  /\ ordersOf' = [b \in 0..LastBar |-> 0]
  /\ UNCHANGED <<lastClosed, lacking, evaluated, censuses>>

\* Several bars may close during a pass that hangs.
BarPrints ==
  /\ lastClosed < LastBar /\ lastClosed' = lastClosed + 1
  /\ UNCHANGED <<lacking, stage, scanned, lastEval, censusDate, omissions, evaluated, ordersOf, censuses>>

ScanInit ==
  /\ lastClosed = 0 /\ lacking \in Unserved /\ stage = "poll" /\ scanned = Unscanned
  /\ lastEval = Unscanned /\ censusDate = Unscanned /\ omissions = {} /\ evaluated = {}
  /\ ordersOf = [b \in 0..LastBar |-> 0] /\ censuses = {}

ScanNext ==
  \/ Poll \/ PassRaises \/ ReadGate \/ ShadowEvaluate \/ MaybeEmitCensus \/ ReadGateAgain \/ DecideOnBar
  \/ StartRun \/ BarPrints
ScanSpec == ScanInit /\ [][ScanNext]_scanVars

ScanTypeOK ==
  /\ lastClosed \in 0..LastBar /\ scanned \in -1..LastBar /\ lastEval \in -1..LastBar
  /\ evaluated \subseteq 0..LastBar /\ omissions \subseteq 0..LastBar
  /\ stage \in {"poll", "gate", "shadow", "census", "regate", "decide"}

-----------------------------------------------------------------------------
(* Properties. *)

\* A census that reconciles tells the truth: every bar of its day that the feed
\* serves has an evaluation on record, whatever raised, hung or restarted on the
\* way; and one whose evaluation is missing makes it fail.
CensusIsTrue ==
  \A c \in censuses :
    Reconciles(c) <=> {b \in (0..LastBar) \ lacking : DateOf(b) = c.date} \subseteq evaluated

\* A bar leads to one order in a run at most: a pass that raised after the send
\* does not take the bar again at the next poll.
BarSentOnce == \A b \in 0..LastBar : ordersOf[b] <= 1
=============================================================================
