------------------------------ MODULE AiGateway ------------------------------
(***************************************************************************)
(* The AI service of services/ai: every vision analysis passes the budget  *)
(* and a circuit breaker, and the endpoint POST /analysis/run asks the     *)
(* same breaker once more before it enqueues the background task.          *)
(* A screenshot may have lost its file (its DELETE unlinks it first), and  *)
(* an earlier analysis of the same image answers from the database.        *)
(* Costs are whole units; a downgraded model costs CheapCost.              *)
(***************************************************************************)
EXTENDS Naturals, FiniteSets

CONSTANTS
  Analyses,          \* slots for analyses in flight
  FailureThreshold,  \* FAILURE_THRESHOLD
  BudgetUsd,         \* ai_monthly_budget_usd
  DowngradeUsd,      \* 95 % of it
  FullCost, CheapCost,
  MaxUpstreamFailures, \* bound on the failures of the upstream API
  MaxAnalyses          \* bound on the analyses that are paid for

ASSUME AiAssumption ==
  /\ FailureThreshold \in Nat \ {0}
  /\ {BudgetUsd, DowngradeUsd, FullCost, CheapCost} \subseteq Nat
  /\ MaxUpstreamFailures \in Nat /\ MaxAnalyses \in Nat

VARIABLES
  circuit,       \* CircuitBreaker._state
  failureCount,  \* _failure_count
  probeInFlight, \* _probe_in_flight
  cooled,        \* OPEN_DURATION_SECONDS have elapsed since _opened_at
  usedUsd,       \* the committed ai_used_current_month_usd
  chargedUsd,    \* history: what the upstream API has charged
  calls,         \* [Analyses -> step, the spend it read, and what it costs]
  sinceOpening,  \* history: requests allowed since the circuit last opened
  outages, paidCalls

aiVars == <<circuit, failureCount, probeInFlight, cooled, usedUsd, chargedUsd,
            calls, sinceOpening, outages, paidCalls>>

CallSteps == {"none", "enqueued", "settled", "allowed", "calling", "answered"}

AiTypeOK ==
  /\ circuit \in {"CLOSED", "OPEN", "HALF_OPEN"}
  /\ failureCount \in Nat /\ sinceOpening \in Nat
  /\ probeInFlight \in BOOLEAN /\ cooled \in BOOLEAN
  /\ usedUsd \in Nat /\ chargedUsd \in Nat
  /\ calls \in [Analyses -> [step : CallSteps, read : Nat, cost : Nat]]
  /\ outages \in 0..MaxUpstreamFailures /\ paidCalls \in 0..MaxAnalyses

NoCall == [step |-> "none", read |-> 0, cost |-> 0]

AiInit ==
  /\ circuit = "CLOSED" /\ failureCount = 0 /\ probeInFlight = FALSE /\ cooled = FALSE
  /\ usedUsd = 0 /\ chargedUsd = 0
  /\ calls = [a \in Analyses |-> NoCall]
  /\ sinceOpening = 0 /\ outages = 0 /\ paidCalls = 0

(***************************************************************************)
(* The breaker.                                                            *)
(***************************************************************************)
Tier(used) == IF used >= BudgetUsd THEN "block"
              ELSE IF used >= DowngradeUsd THEN "downgrade" ELSE "ok"

\* Mutant: a half-open circuit lets every request through.
AllowedWhileProbing == circuit # "OPEN" \/ cooled

RequestAllowed == \/ circuit = "CLOSED"
                  \/ circuit = "OPEN" /\ cooled
                  \/ circuit = "HALF_OPEN" /\ ~probeInFlight

\* allow_request that answers True.
AllowRequest ==
  /\ RequestAllowed
  /\ circuit' = IF circuit = "CLOSED" THEN "CLOSED" ELSE "HALF_OPEN"
  /\ probeInFlight' = (probeInFlight \/ circuit # "CLOSED")
  /\ sinceOpening' = IF circuit = "CLOSED" THEN 0 ELSE sinceOpening + 1
  /\ UNCHANGED <<failureCount, cooled>>

RecordSuccess ==
  /\ circuit' = "CLOSED" /\ failureCount' = 0 /\ probeInFlight' = FALSE
  /\ cooled' = FALSE /\ sinceOpening' = 0

Opens == \/ circuit = "HALF_OPEN"
         \/ circuit = "CLOSED" /\ failureCount + 1 >= FailureThreshold

RecordFailure ==
  /\ failureCount' = failureCount + 1
  /\ circuit' = IF Opens THEN "OPEN" ELSE circuit
  /\ cooled' = (~Opens /\ cooled)
  /\ sinceOpening' = IF Opens THEN 0 ELSE sinceOpening
  /\ probeInFlight' = (probeInFlight /\ circuit # "HALF_OPEN")

breakerVars == <<circuit, failureCount, probeInFlight, cooled, sinceOpening>>

CoolDown == /\ circuit = "OPEN" /\ ~cooled /\ cooled' = TRUE
            /\ UNCHANGED <<circuit, failureCount, probeInFlight, usedUsd, chargedUsd,
                           calls, sinceOpening, outages, paidCalls>>

(***************************************************************************)
(* The endpoint: is_available, which asks the breaker, then the screenshot *)
(* row, then the background task.                                          *)
(***************************************************************************)
RunAnalysis(a) ==
  /\ calls[a].step = "none" /\ paidCalls < MaxAnalyses
  /\ Tier(usedUsd) # "block"
  /\ AllowRequest
  /\ \E found \in BOOLEAN :
       calls' = IF found THEN [calls EXCEPT ![a].step = "enqueued"] ELSE calls
  /\ UNCHANGED <<usedUsd, chargedUsd, outages, paidCalls>>

(***************************************************************************)
(* The background task: analyze_screenshot.                                *)
(***************************************************************************)
LoadSettings(a) ==
  /\ calls[a].step = "enqueued"
  /\ \E enabled \in BOOLEAN :  \* ai_enabled, the user's to switch
     calls' = [calls EXCEPT ![a] =
       IF ~enabled \/ Tier(usedUsd) = "block" THEN NoCall
       ELSE [step |-> "settled", read |-> usedUsd,
             cost |-> IF Tier(usedUsd) = "downgrade" THEN CheapCost ELSE FullCost]]
  /\ UNCHANGED <<breakerVars, usedUsd, chargedUsd, outages, paidCalls>>

AskBreaker(a) ==
  /\ calls[a].step = "settled"
  /\ \/ AllowRequest /\ calls' = [calls EXCEPT ![a].step = "allowed"]
     \/ ~RequestAllowed /\ calls' = [calls EXCEPT ![a] = NoCall]
        /\ UNCHANGED breakerVars
  /\ UNCHANGED <<usedUsd, chargedUsd, outages, paidCalls>>

\* The file is gone, or an analysis of the same image is on record: the task
\* ends here and tells the breaker nothing.
AnswerWithoutCall(a) ==
  /\ calls[a].step = "allowed"
  /\ calls' = [calls EXCEPT ![a] = NoCall]
  /\ UNCHANGED <<breakerVars, usedUsd, chargedUsd, outages, paidCalls>>

CallClaude(a) ==
  /\ calls[a].step = "allowed" /\ paidCalls < MaxAnalyses
  /\ calls' = [calls EXCEPT ![a].step = "calling"]
  /\ UNCHANGED <<breakerVars, usedUsd, chargedUsd, outages, paidCalls>>

UpstreamFails(a) ==
  /\ calls[a].step = "calling" /\ outages < MaxUpstreamFailures
  /\ outages' = outages + 1
  /\ RecordFailure
  /\ calls' = [calls EXCEPT ![a] = NoCall]
  /\ UNCHANGED <<usedUsd, chargedUsd, paidCalls>>

UpstreamAnswers(a) ==
  /\ calls[a].step = "calling" /\ paidCalls < MaxAnalyses
  /\ RecordSuccess
  /\ chargedUsd' = chargedUsd + calls[a].cost
  /\ paidCalls' = paidCalls + 1
  /\ calls' = [calls EXCEPT ![a].step = "answered"]
  /\ UNCHANGED <<usedUsd, outages>>

\* The row and the spend are one transaction; the spend is the one read at the
\* start plus this call's cost.  An answer the row cannot hold raises instead.
PersistAnalysis(a) ==
  /\ calls[a].step = "answered"
  /\ usedUsd' \in {usedUsd, calls[a].read + calls[a].cost}
  /\ calls' = [calls EXCEPT ![a] = NoCall]
  /\ UNCHANGED <<breakerVars, chargedUsd, outages, paidCalls>>

AiNext ==
  \/ CoolDown
  \/ \E a \in Analyses :
       \/ RunAnalysis(a) \/ LoadSettings(a) \/ AskBreaker(a) \/ AnswerWithoutCall(a)
       \/ CallClaude(a) \/ UpstreamFails(a) \/ UpstreamAnswers(a) \/ PersistAnalysis(a)

AiSpec == AiInit /\ [][AiNext]_aiVars

\* The clock runs, users keep asking and the event loop runs every task; how
\* the upstream answers is its own choice, so it is only bounded.
AiFairSpec ==
  /\ AiSpec
  /\ WF_aiVars(CoolDown)
  /\ \A a \in Analyses :
       /\ WF_aiVars(RunAnalysis(a)) /\ WF_aiVars(LoadSettings(a))
       /\ WF_aiVars(AskBreaker(a)) /\ WF_aiVars(PersistAnalysis(a))
       /\ WF_aiVars(CallClaude(a) \/ AnswerWithoutCall(a))
       /\ WF_aiVars(UpstreamFails(a) \/ UpstreamAnswers(a))

(***************************************************************************)
(* Properties.                                                             *)
(***************************************************************************)
\* From the moment the circuit opens until it closes or opens anew at most one
\* request is let through, whatever calls of before the opening come back with.
OneProbePerOpening == circuit # "CLOSED" => sinceOpening <= 1

\* What the database says was spent is never more than what was charged: a
\* stale total can lose a cost and can never invent one.
SpendNotInvented == usedUsd <= chargedUsd

\* The probe's outcome decides: a circuit that opened closes again once the
\* upstream is well (its failures are bounded, and users keep asking).
BreakerRecovers == []<>(circuit = "CLOSED" \/ paidCalls = MaxAnalyses)
===============================================================================
