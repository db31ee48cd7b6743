----------------------------- MODULE MarketProofs -----------------------------
(***************************************************************************)
(* Theorems about six parts around the market: the circuit breaker of the  *)
(* AI gateway, the alerts, the zones, the monitors of the loop, the candle *)
(* pipeline and the feed of the panels; then of the market itself, whose   *)
(* run is a run of each of these and of the parts TradingProofs is about.  *)
(* They hold for any number of requests, bars and runs, and for any        *)
(* failure the actions allow.                                              *)
(***************************************************************************)
EXTENDS MCMarket, TradingProofs

-----------------------------------------------------------------------------
(* The circuit breaker of the AI gateway. *)

\* The breaker alone: how many requests it let through since it last opened is told by
\* its state.  A half-open breaker has its probe out, and every failure of it reopens.
Counted ==
  /\ circuit \in {"CLOSED", "OPEN", "HALF_OPEN"}
  /\ probeInFlight \in BOOLEAN /\ sinceOpening \in Nat
  /\ circuit = "OPEN" => sinceOpening = 0
  /\ circuit = "HALF_OPEN" => probeInFlight /\ sinceOpening = 1

\* A closed breaker has let nothing through that counts.
LEMMA CountedInit == AiInit => Counted
<1> SUFFICES ASSUME AiInit PROVE Counted
  OBVIOUS
<1>1. circuit = "CLOSED" /\ sinceOpening = 0 /\ probeInFlight = FALSE
  BY Zenon DEF AiInit
<1> QED
  BY <1>1 DEF Counted

\* A request is let through by a closed breaker, or as the probe of an open one.
LEMMA AllowKeepsCounted == Counted /\ AllowRequest => Counted'
<1> SUFFICES ASSUME Counted, AllowRequest PROVE Counted'
  OBVIOUS
<1>1. probeInFlight' \in BOOLEAN
  BY Zenon DEF AllowRequest
<1>2. circuit # "HALF_OPEN"
  BY Zenon DEF Counted, AllowRequest, RequestAllowed
<1>3. CASE circuit = "CLOSED"
  <2>1. circuit' = "CLOSED" /\ sinceOpening' = 0
    BY <1>3 DEF AllowRequest
  <2> QED BY <2>1, <1>1 DEF Counted
<1>4. CASE circuit = "OPEN"
  <2>1. probeInFlight'
    BY <1>4, Zenon DEF AllowRequest
  <2>2. circuit' = "HALF_OPEN" /\ sinceOpening' = 1
    BY <1>4 DEF AllowRequest, Counted
  <2> QED BY <2>1, <2>2, <1>1 DEF Counted
<1> QED BY <1>2, <1>3, <1>4 DEF Counted

\* A success closes.
LEMMA SuccessKeepsCounted == RecordSuccess => Counted'
<1> SUFFICES ASSUME RecordSuccess PROVE Counted'
  OBVIOUS
<1>1. circuit' = "CLOSED" /\ sinceOpening' = 0 /\ probeInFlight' = FALSE
  BY Zenon DEF RecordSuccess
<1> QED
  BY <1>1 DEF Counted

\* A failure reopens a half-open breaker.
LEMMA FailureKeepsCounted == Counted /\ RecordFailure => Counted'
<1> SUFFICES ASSUME Counted, RecordFailure PROVE Counted'
  OBVIOUS
<1>1. probeInFlight' \in BOOLEAN
  BY Zenon DEF RecordFailure
<1>2. CASE Opens
  <2>1. circuit' = "OPEN" /\ sinceOpening' = 0
    BY <1>2 DEF RecordFailure
  <2> QED BY <1>1, <2>1 DEF Counted
<1>3. CASE ~Opens
  <2>1. circuit' = circuit /\ sinceOpening' = sinceOpening /\ circuit # "HALF_OPEN"
    BY <1>3 DEF RecordFailure, Opens
  <2> QED BY <1>1, <2>1 DEF Counted
<1> QED BY <1>2, <1>3

\* Nothing else touches the breaker.
LEMMA CountedNext == Counted /\ [AiNext]_aiVars => Counted'
<1> SUFFICES ASSUME Counted, [AiNext]_aiVars PROVE Counted'
  OBVIOUS
<1>1. CASE CoolDown
  BY <1>1 DEF CoolDown, Counted
<1>2. ASSUME NEW a \in Analyses, RunAnalysis(a) PROVE Counted'
  BY <1>2, AllowKeepsCounted DEF RunAnalysis
<1>3. ASSUME NEW a \in Analyses, LoadSettings(a) PROVE Counted'
  BY <1>3 DEF LoadSettings, breakerVars, Counted
<1>4. ASSUME NEW a \in Analyses, AskBreaker(a) PROVE Counted'
  <2>1. CASE AllowRequest
    BY <2>1, AllowKeepsCounted
  <2>2. CASE UNCHANGED breakerVars
    BY <2>2 DEF breakerVars, Counted
  <2> QED BY <1>4, <2>1, <2>2 DEF AskBreaker
<1>5. ASSUME NEW a \in Analyses, AnswerWithoutCall(a) PROVE Counted'
  BY <1>5 DEF AnswerWithoutCall, breakerVars, Counted
<1>6. ASSUME NEW a \in Analyses, CallClaude(a) PROVE Counted'
  BY <1>6 DEF CallClaude, breakerVars, Counted
<1>7. ASSUME NEW a \in Analyses, UpstreamFails(a) PROVE Counted'
  BY <1>7, FailureKeepsCounted DEF UpstreamFails
<1>8. ASSUME NEW a \in Analyses, UpstreamAnswers(a) PROVE Counted'
  BY <1>8, SuccessKeepsCounted DEF UpstreamAnswers
<1>9. ASSUME NEW a \in Analyses, PersistAnalysis(a) PROVE Counted'
  BY <1>9 DEF PersistAnalysis, breakerVars, Counted
<1>10. CASE UNCHANGED aiVars
  BY <1>10 DEF aiVars, Counted
<1> QED
  BY <1>1, <1>2, <1>3, <1>4, <1>5, <1>6, <1>7, <1>8, <1>9, <1>10 DEF AiNext

\* OneProbePerOpening: from an opening to the next one, or to the close, one request at most.
THEOREM OneProbe == AiSpec => []OneProbePerOpening
<1>1. Counted => OneProbePerOpening
  BY DEF Counted, OneProbePerOpening
<1> QED
  BY CountedInit, CountedNext, <1>1, PTL DEF AiSpec

-----------------------------------------------------------------------------
(* The types of the AI gateway, and what the database says of the spend. *)

AiCalls == [step : CallSteps, read : Nat, cost : Nat]

\* A call that was paid and not recorded yet was charged with what it cost, on top of what it had read.
SpendCovered ==
  /\ usedUsd <= chargedUsd
  /\ \A a \in Analyses : calls[a].read <= chargedUsd
  /\ \A a \in Analyses : calls[a].step = "answered" => calls[a].read + calls[a].cost <= chargedUsd

AiTypes ==
  /\ failureCount \in Nat /\ cooled \in BOOLEAN
  /\ usedUsd \in Nat /\ chargedUsd \in Nat
  /\ calls \in [Analyses -> AiCalls]
  /\ outages \in 0..MaxUpstreamFailures /\ paidCalls \in 0..MaxAnalyses

AiInv == AiTypes /\ SpendCovered

LEMMA AiStarts == AiInit => AiInv
<1> SUFFICES ASSUME AiInit PROVE AiInv
  OBVIOUS
<1>1. NoCall \in AiCalls /\ NoCall.read = 0 /\ NoCall.step = "none"
  BY DEF NoCall, AiCalls, CallSteps
<1>2. cooled \in BOOLEAN
  BY Zenon DEF AiInit
<1> QED BY <1>1, <1>2, AiAssumption DEF AiInit, AiInv, AiTypes, SpendCovered

\* What the breaker does leaves its own variables typed.
LEMMA BreakerTyped ==
  ASSUME failureCount \in Nat, cooled \in BOOLEAN,
         AllowRequest \/ RecordSuccess \/ RecordFailure \/ UNCHANGED breakerVars
  PROVE  failureCount' \in Nat /\ cooled' \in BOOLEAN
<1>1. CASE AllowRequest
  BY <1>1 DEF AllowRequest
<1>2. CASE RecordSuccess
  <2>1. cooled' \in BOOLEAN
    BY <1>2, Zenon DEF RecordSuccess
  <2> QED BY <1>2, <2>1 DEF RecordSuccess
<1>3. CASE RecordFailure
  <2>1. cooled' \in BOOLEAN
    BY <1>3, Zenon DEF RecordFailure
  <2> QED BY <1>3, <2>1 DEF RecordFailure
<1>4. CASE UNCHANGED breakerVars
  BY <1>4 DEF breakerVars
<1> QED BY <1>1, <1>2, <1>3, <1>4

\* A call that goes on, over a charge that did not fall.
LEMMA CallGoesOn ==
  ASSUME AiInv, NEW a \in Analyses, NEW next \in AiCalls, calls' = [calls EXCEPT ![a] = next],
         chargedUsd' \in Nat, chargedUsd <= chargedUsd',
         next.read <= chargedUsd',
         next.step = "answered" => next.read + next.cost <= chargedUsd'
  PROVE  /\ calls' \in [Analyses -> AiCalls]
         /\ \A b \in Analyses : calls'[b].read <= chargedUsd'
         /\ \A b \in Analyses : calls'[b].step = "answered" => calls'[b].read + calls'[b].cost <= chargedUsd'
<1>1. calls \in [Analyses -> AiCalls] /\ chargedUsd \in Nat
  BY DEF AiInv, AiTypes
<1>2. calls' \in [Analyses -> AiCalls]
  <2> HIDE DEF AiCalls
  <2> QED BY <1>1
<1>3. ASSUME NEW b \in Analyses
      PROVE  /\ calls'[b].read <= chargedUsd'
             /\ calls'[b].step = "answered" => calls'[b].read + calls'[b].cost <= chargedUsd'
  <2>1. calls[b].read \in Nat /\ calls[b].cost \in Nat
    BY <1>1 DEF AiCalls
  <2>2. calls'[b] = IF b = a THEN next ELSE calls[b]
    BY <1>1
  <2>3. calls[b].read <= chargedUsd /\ (calls[b].step = "answered" => calls[b].read + calls[b].cost <= chargedUsd)
    BY DEF AiInv, SpendCovered
  <2> QED BY <1>1, <2>1, <2>2, <2>3
<1> QED BY <1>2, <1>3

\* The step of a call alone.
LEMMA StepOnly ==
  ASSUME AiInv, NEW a \in Analyses, NEW s \in CallSteps
  PROVE  LET next == [calls[a] EXCEPT !.step = s]
         IN  next \in AiCalls /\ next.step = s /\ next.read = calls[a].read /\ next.cost = calls[a].cost
<1>1. calls[a] \in AiCalls
  BY DEF AiInv, AiTypes
<1> QED BY <1>1 DEF AiCalls

LEMMA CallFacts ==
  ASSUME AiInv, NEW a \in Analyses
  PROVE  /\ calls[a] \in AiCalls /\ calls[a].read \in Nat /\ calls[a].cost \in Nat
         /\ calls[a].read <= chargedUsd
         /\ usedUsd \in Nat /\ chargedUsd \in Nat /\ usedUsd <= chargedUsd
         /\ NoCall \in AiCalls /\ NoCall.read = 0 /\ NoCall.step = "none"
<1>1. calls[a] \in AiCalls
  BY DEF AiInv, AiTypes
<1>2. calls[a].read \in Nat /\ calls[a].cost \in Nat
  BY <1>1 DEF AiCalls
<1>3. NoCall \in AiCalls /\ NoCall.read = 0 /\ NoCall.step = "none"
  BY DEF NoCall, AiCalls, CallSteps
<1> QED BY <1>1, <1>2, <1>3 DEF AiInv, AiTypes, SpendCovered

\* Each step of the gateway.
LEMMA AiKept == AiInv /\ [AiNext]_aiVars => AiInv'
<1> SUFFICES ASSUME AiInv, [AiNext]_aiVars PROVE AiInv'
  OBVIOUS
<1>t. /\ failureCount \in Nat /\ cooled \in BOOLEAN /\ usedUsd \in Nat /\ chargedUsd \in Nat
      /\ calls \in [Analyses -> AiCalls] /\ usedUsd <= chargedUsd
      /\ outages \in 0..MaxUpstreamFailures /\ paidCalls \in 0..MaxAnalyses
  BY DEF AiInv, AiTypes, SpendCovered
<1>b. MaxUpstreamFailures \in Nat /\ MaxAnalyses \in Nat /\ CheapCost \in Nat /\ FullCost \in Nat
  BY AiAssumption
\* What a step that touches one call has to show.
<1>s. ASSUME NEW a \in Analyses, NEW next \in AiCalls, calls' = [calls EXCEPT ![a] = next],
             chargedUsd' \in Nat, chargedUsd <= chargedUsd', next.read <= chargedUsd',
             next.step = "answered" => next.read + next.cost <= chargedUsd',
             AllowRequest \/ RecordSuccess \/ RecordFailure \/ UNCHANGED breakerVars,
             usedUsd' \in Nat, usedUsd' <= chargedUsd',
             outages' \in 0..MaxUpstreamFailures, paidCalls' \in 0..MaxAnalyses
      PROVE  AiInv'
  <2>1. failureCount' \in Nat /\ cooled' \in BOOLEAN
    BY <1>t, <1>s, BreakerTyped
  <2>2. /\ calls' \in [Analyses -> AiCalls]
        /\ \A b \in Analyses : calls'[b].read <= chargedUsd'
        /\ \A b \in Analyses : calls'[b].step = "answered" => calls'[b].read + calls'[b].cost <= chargedUsd'
    BY <1>s, CallGoesOn
  <2> HIDE DEF AiCalls
  <2> QED BY <1>s, <2>1, <2>2 DEF AiInv, AiTypes, SpendCovered
\* What a step that touches one call, and no money, has to show.
<1>q. ASSUME NEW a \in Analyses, NEW next \in AiCalls, calls' = [calls EXCEPT ![a] = next],
             next.read <= chargedUsd, next.step # "answered",
             AllowRequest \/ RecordSuccess \/ RecordFailure \/ UNCHANGED breakerVars,
             UNCHANGED <<usedUsd, chargedUsd, paidCalls>>, outages' \in 0..MaxUpstreamFailures
      PROVE  AiInv'
  <2>1. /\ chargedUsd' \in Nat /\ chargedUsd <= chargedUsd' /\ next.read <= chargedUsd'
        /\ usedUsd' \in Nat /\ usedUsd' <= chargedUsd' /\ paidCalls' \in 0..MaxAnalyses
    BY <1>q, <1>t
  <2>2. next.step = "answered" => next.read + next.cost <= chargedUsd'
    BY <1>q
  <2> QED BY <1>q, <1>s, <2>1, <2>2, Zenon
<1>1. CASE CoolDown
  <2>1. cooled' \in BOOLEAN
    BY <1>1, Zenon DEF CoolDown
  <2> QED BY <1>1, <2>1 DEF CoolDown, AiInv, AiTypes, SpendCovered
<1>2. ASSUME NEW a \in Analyses, RunAnalysis(a) PROVE AiInv'
  <2>1. CASE calls' = calls
    <3>1. failureCount' \in Nat /\ cooled' \in BOOLEAN
      BY <1>2, <1>t, BreakerTyped DEF RunAnalysis
    <3> QED BY <1>2, <2>1, <3>1 DEF RunAnalysis, AiInv, AiTypes, SpendCovered
  <2>2. CASE calls' = [calls EXCEPT ![a].step = "enqueued"]
    <3> DEFINE next == [calls[a] EXCEPT !.step = "enqueued"]
    <3>1. "enqueued" \in CallSteps /\ "enqueued" # "answered"
      BY DEF CallSteps
    <3>2. next \in AiCalls /\ next.step = "enqueued" /\ next.read = calls[a].read
      BY <3>1, StepOnly
    <3>3. calls' = [calls EXCEPT ![a] = next]
      BY <2>2
    <3> HIDE DEF next
    <3>4. AllowRequest /\ UNCHANGED <<usedUsd, chargedUsd, paidCalls>> /\ outages' = outages
      BY <1>2 DEF RunAnalysis
    <3>5. next \in AiCalls /\ next.read <= chargedUsd /\ next.step # "answered"
      BY <3>1, <3>2, CallFacts
    <3>6. outages' \in 0..MaxUpstreamFailures
      BY <1>t, <3>4
    <3> QED BY <1>q, <3>3, <3>4, <3>5, <3>6, Zenon
  <2>3. calls' = calls \/ calls' = [calls EXCEPT ![a].step = "enqueued"]
    BY <1>2 DEF RunAnalysis
  <2> QED BY <2>1, <2>2, <2>3
<1>3. ASSUME NEW a \in Analyses, LoadSettings(a) PROVE AiInv'
  <2> DEFINE billed == [step |-> "settled", read |-> usedUsd,
                        cost |-> IF Tier(usedUsd) = "downgrade" THEN CheapCost ELSE FullCost]
  <2>1. billed \in AiCalls /\ billed.read = usedUsd /\ billed.step # "answered"
    BY <1>t, <1>b DEF AiCalls, CallSteps
  <2>2. calls' = [calls EXCEPT ![a] = NoCall] \/ calls' = [calls EXCEPT ![a] = billed]
    BY <1>3 DEF LoadSettings
  <2>3. UNCHANGED breakerVars /\ UNCHANGED <<usedUsd, chargedUsd, paidCalls>> /\ outages' \in 0..MaxUpstreamFailures
    BY <1>3, <1>t DEF LoadSettings
  <2> HIDE DEF billed
  <2>4. PICK next \in {NoCall, billed} : calls' = [calls EXCEPT ![a] = next]
    BY <2>2
  <2>5. next \in AiCalls /\ next.read <= chargedUsd /\ next.step # "answered"
    BY <2>1, <1>t, CallFacts
  <2> QED BY <1>q, <2>3, <2>4, <2>5, Zenon
<1>4. ASSUME NEW a \in Analyses, AskBreaker(a) PROVE AiInv'
  <2> DEFINE allowed == [calls[a] EXCEPT !.step = "allowed"]
  <2>1. "allowed" \in CallSteps /\ "allowed" # "answered"
    BY DEF CallSteps
  <2>2. allowed \in AiCalls /\ allowed.step = "allowed" /\ allowed.read = calls[a].read
    BY <2>1, StepOnly
  <2>3. calls' = [calls EXCEPT ![a] = NoCall] \/ calls' = [calls EXCEPT ![a] = allowed]
    BY <1>4 DEF AskBreaker
  <2>4. /\ UNCHANGED <<usedUsd, chargedUsd, paidCalls>> /\ outages' \in 0..MaxUpstreamFailures
        /\ AllowRequest \/ UNCHANGED breakerVars
    BY <1>4, <1>t DEF AskBreaker
  <2> HIDE DEF allowed
  <2>5. PICK next \in {NoCall, allowed} : calls' = [calls EXCEPT ![a] = next]
    BY <2>3
  <2>6. next \in AiCalls /\ next.read <= chargedUsd /\ next.step # "answered"
    BY <2>1, <2>2, <1>t, CallFacts
  <2> QED BY <1>q, <2>4, <2>5, <2>6, Zenon
<1>5. ASSUME NEW a \in Analyses, AnswerWithoutCall(a) PROVE AiInv'
  <2>1. /\ calls' = [calls EXCEPT ![a] = NoCall] /\ UNCHANGED breakerVars
        /\ UNCHANGED <<usedUsd, chargedUsd, paidCalls>> /\ outages' \in 0..MaxUpstreamFailures
    BY <1>5, <1>t DEF AnswerWithoutCall
  <2>2. NoCall \in AiCalls /\ NoCall.read <= chargedUsd /\ NoCall.step # "answered"
    BY <1>t, CallFacts
  <2> QED BY <1>q, <2>1, <2>2, Zenon
<1>6. ASSUME NEW a \in Analyses, CallClaude(a) PROVE AiInv'
  <2> DEFINE next == [calls[a] EXCEPT !.step = "calling"]
  <2>1. "calling" \in CallSteps /\ "calling" # "answered"
    BY DEF CallSteps
  <2>2. next \in AiCalls /\ next.step = "calling" /\ next.read = calls[a].read
    BY <2>1, StepOnly
  <2>3. /\ calls' = [calls EXCEPT ![a] = next] /\ UNCHANGED breakerVars
        /\ UNCHANGED <<usedUsd, chargedUsd, paidCalls>> /\ outages' \in 0..MaxUpstreamFailures
    BY <1>6, <1>t DEF CallClaude
  <2> HIDE DEF next
  <2>4. next \in AiCalls /\ next.read <= chargedUsd /\ next.step # "answered"
    BY <2>1, <2>2, CallFacts
  <2> QED BY <1>q, <2>3, <2>4, Zenon
<1>7. ASSUME NEW a \in Analyses, UpstreamFails(a) PROVE AiInv'
  <2>1. outages' \in 0..MaxUpstreamFailures
    BY <1>7, <1>t, <1>b DEF UpstreamFails
  <2>2. calls' = [calls EXCEPT ![a] = NoCall] /\ RecordFailure /\ UNCHANGED <<usedUsd, chargedUsd, paidCalls>>
    BY <1>7 DEF UpstreamFails
  <2>3. NoCall \in AiCalls /\ NoCall.read <= chargedUsd /\ NoCall.step # "answered"
    BY <1>t, CallFacts
  <2> QED BY <1>q, <2>1, <2>2, <2>3, Zenon
<1>8. ASSUME NEW a \in Analyses, UpstreamAnswers(a) PROVE AiInv'
  <2> DEFINE next == [calls[a] EXCEPT !.step = "answered"]
  <2>1. "answered" \in CallSteps
    BY DEF CallSteps
  <2>2. next \in AiCalls /\ next.step = "answered" /\ next.read = calls[a].read /\ next.cost = calls[a].cost
    BY <2>1, StepOnly
  <2>3. calls' = [calls EXCEPT ![a] = next] /\ RecordSuccess /\ UNCHANGED <<usedUsd, outages>>
    BY <1>8 DEF UpstreamAnswers
  <2>4. chargedUsd' = chargedUsd + calls[a].cost /\ paidCalls' \in 0..MaxAnalyses
    BY <1>8, <1>t, <1>b DEF UpstreamAnswers
  <2>5. chargedUsd' \in Nat /\ chargedUsd <= chargedUsd' /\ next.read <= chargedUsd' /\ next.read + next.cost <= chargedUsd'
    BY <1>t, <2>2, <2>4, CallFacts
  <2>6. usedUsd' \in Nat /\ usedUsd' <= chargedUsd'
    BY <1>t, <2>3, <2>4, CallFacts
  <2> HIDE DEF next
  <2>7. outages' \in 0..MaxUpstreamFailures
    BY <1>t, <2>3
  <2> QED BY <1>s, <2>2, <2>3, <2>4, <2>5, <2>6, <2>7, Zenon
<1>9. ASSUME NEW a \in Analyses, PersistAnalysis(a) PROVE AiInv'
  <2>1. calls[a].read + calls[a].cost <= chargedUsd
    BY <1>9 DEF PersistAnalysis, AiInv, SpendCovered
  <2>2. usedUsd' \in Nat /\ usedUsd' <= chargedUsd
    BY <1>9, <1>t, <2>1, CallFacts DEF PersistAnalysis
  <2>3. /\ calls' = [calls EXCEPT ![a] = NoCall] /\ UNCHANGED breakerVars /\ chargedUsd' = chargedUsd
        /\ outages' \in 0..MaxUpstreamFailures /\ paidCalls' \in 0..MaxAnalyses
    BY <1>9, <1>t DEF PersistAnalysis
  <2>4. NoCall \in AiCalls /\ NoCall.read <= chargedUsd' /\ NoCall.step # "answered"
    BY <1>t, <2>3, CallFacts
  <2>5. chargedUsd' \in Nat /\ chargedUsd <= chargedUsd' /\ usedUsd' <= chargedUsd'
    BY <1>t, <2>2, <2>3
  <2> QED BY <1>s, <2>2, <2>3, <2>4, <2>5, Zenon
<1>10. CASE UNCHANGED aiVars
  BY <1>10 DEF aiVars, AiInv, AiTypes, SpendCovered
<1> QED BY <1>1, <1>2, <1>3, <1>4, <1>5, <1>6, <1>7, <1>8, <1>9, <1>10 DEF AiNext

\* SpendNotInvented: what the database says was spent is never more than what was charged, although
\* each analysis adds its cost to the total that it read before it called.
THEOREM SpendIsReal == AiSpec => []SpendNotInvented
<1>1. AiInv => SpendNotInvented
  BY DEF AiInv, SpendCovered, SpendNotInvented
<1> QED BY <1>1, AiStarts, AiKept, PTL DEF AiSpec

\* Type correctness of the AI gateway.
THEOREM AiTypeCorrect == AiSpec => []AiTypeOK
<1>1. Counted /\ AiInv => AiTypeOK
  BY DEF Counted, AiInv, AiTypes, AiCalls, AiTypeOK
<1> QED BY <1>1, CountedInit, CountedNext, AiStarts, AiKept, PTL DEF AiSpec

-----------------------------------------------------------------------------
(* The alerts.  What the handler of a pair found before it awaits is still *)
(* all there is when it commits: nothing but the handler of the pair, of   *)
(* which there is one, makes a signal pending.                             *)

Waiting(p, i) == alerts[i].pair = p /\ alerts[i].status = "PENDING"

\* At most one waits, and a handler that has found an old signal found that one.
OneWaits ==
  \A p \in Pairs :
    /\ \A i, j \in AlertIds : Waiting(p, i) /\ Waiting(p, j) => i = j
    /\ handler[p].step = "found" => \A i \in AlertIds : Waiting(p, i) => i = handler[p].old

AlertInv == AlertTypeOK /\ OneWaits

\* No alert waits at first.
LEMMA AlertInvInit == AlertInit => AlertInv
<1> SUFFICES ASSUME AlertInit PROVE AlertInv
  OBVIOUS
<1>1. (CHOOSE p \in Pairs : TRUE) \in Pairs
  BY AlertAssumption
<1>2. AlertTypeOK
  BY <1>1, AlertAssumption DEF AlertInit, AlertTypeOK, AlertStatuses, Decisions, NoAlert
<1>3. OneWaits
  BY DEF AlertInit, OneWaits, Waiting
<1> QED BY <1>2, <1>3 DEF AlertInv

\* What a step does to the rows when no new one is made: a status may leave PENDING.
LEMMA FewerWait ==
  ASSUME AlertInv, AlertTypeOK', 
         \A p \in Pairs, i \in AlertIds : Waiting(p, i)' => Waiting(p, i),
         \A p \in Pairs : handler'[p].step = "found" => handler[p].step = "found" /\ handler'[p].old = handler[p].old
  PROVE  AlertInv'
  BY DEF AlertInv, OneWaits

\* Expiry takes alerts out of the queue.
LEMMA ExpireKeeps == ASSUME AlertInv, NEW p \in Pairs, ExpireAndScore(p) PROVE AlertInv'
<1>1. AlertTypeOK
  BY DEF AlertInv
<1>2. PICK fails \in BOOLEAN :
       alerts' = [i \in AlertIds |->
         IF ~fails /\ alerts[i].status = "PENDING" /\ alerts[i].due
         THEN [alerts[i] EXCEPT !.status = "EXPIRED"] ELSE alerts[i]]
  BY DEF ExpireAndScore
<1>3. /\ handler[p].step = "idle"
      /\ handler' = [handler EXCEPT ![p].step = "scored"] \/ handler' = handler
      /\ review' = review
  BY DEF ExpireAndScore
<1>4. alerts' \in [AlertIds -> [pair : Pairs, status : AlertStatuses, due : BOOLEAN]]
  BY <1>1, <1>2 DEF AlertTypeOK, AlertStatuses
<1>5. AlertTypeOK'
  BY <1>1, <1>3, <1>4 DEF AlertTypeOK
<1>6. \A q \in Pairs, i \in AlertIds : Waiting(q, i)' => Waiting(q, i)
  BY <1>1, <1>2 DEF AlertTypeOK, Waiting
<1>7. \A q \in Pairs : handler'[q].step = "found" => handler[q].step = "found" /\ handler'[q].old = handler[q].old
  BY <1>1, <1>3 DEF AlertTypeOK
<1> QED BY <1>5, <1>6, <1>7, FewerWait

\* The handler remembers the one that waits.
LEMMA FindKeeps == ASSUME AlertInv, NEW p \in Pairs, FindExisting(p) PROVE AlertInv'
<1>1. AlertTypeOK /\ OneWaits
  BY DEF AlertInv
<1>2. PICK old \in PendingOf(p) \union {NoAlert} :
        /\ \A i \in PendingOf(p) : i <= old
        /\ handler' = [handler EXCEPT ![p] = [step |-> "found", old |-> old]]
  BY DEF FindExisting
<1>3. alerts' = alerts /\ review' = review
  BY DEF FindExisting
<1>4. old \in 0..MaxAlerts
  BY AlertAssumption, <1>2 DEF PendingOf, Made, AlertIds, NoAlert
<1>5. AlertTypeOK'
  BY <1>1, <1>2, <1>3, <1>4 DEF AlertTypeOK
<1>6. \A i \in AlertIds : Waiting(p, i) => i \in PendingOf(p)
  BY DEF Waiting, PendingOf, Made
<1>7. \A i \in AlertIds : Waiting(p, i) => i = old
  BY <1>1, <1>2, <1>4, <1>6, AlertAssumption DEF AlertIds, OneWaits, PendingOf, Made, Waiting, NoAlert
<1>8. OneWaits'
  BY <1>1, <1>2, <1>3, <1>7 DEF OneWaits, Waiting, AlertTypeOK
<1> QED BY <1>5, <1>8 DEF AlertInv

\* The new row waits in the place of the one that was found.
LEMMA CommitKeeps == ASSUME AlertInv, NEW p \in Pairs, CommitSignal(p) PROVE AlertInv'
<1>1. AlertTypeOK /\ OneWaits
  BY DEF AlertInv
<1>2. /\ handler[p].step = "found" /\ NextId \in AlertIds
      /\ handler' = [handler EXCEPT ![p] = [step |-> "idle", old |-> NoAlert]]
      /\ review' = review
  BY DEF CommitSignal
<1>3. [step |-> "idle", old |-> NoAlert] \in [step : {"idle", "scored", "found"}, old : 0..MaxAlerts]
  BY AlertAssumption DEF NoAlert
<1>4. handler' \in [Pairs -> [step : {"idle", "scored", "found"}, old : 0..MaxAlerts]]
  BY <1>1, <1>2, <1>3 DEF AlertTypeOK
<1>5. CASE alerts' = alerts
  <2>1. AlertTypeOK'
    BY <1>1, <1>2, <1>4, <1>5 DEF AlertTypeOK
  <2>2. \A q \in Pairs : handler'[q].step = "found" => handler[q].step = "found" /\ handler'[q].old = handler[q].old
    BY <1>1, <1>2 DEF AlertTypeOK
  <2>3. \A q \in Pairs, i \in AlertIds : Waiting(q, i)' => Waiting(q, i)
    BY <1>5 DEF Waiting
  <2> QED BY <2>1, <2>2, <2>3, FewerWait
<1>6. CASE Replace(p, handler[p].old)
  <2> DEFINE new == NextId
  <2>1. new \in AlertIds
    BY <1>2
  <2>2. alerts' = [i \in AlertIds |->
          IF i = new THEN [pair |-> p, status |-> "PENDING", due |-> FALSE]
          ELSE IF i = handler[p].old THEN [alerts[i] EXCEPT !.status = "SUPERSEDED"] ELSE alerts[i]]
    BY <1>6 DEF Replace
  <2> HIDE DEF new
  <2>3. alerts' \in [AlertIds -> [pair : Pairs, status : AlertStatuses, due : BOOLEAN]]
    BY <1>1, <2>2 DEF AlertTypeOK, AlertStatuses
  <2>4. AlertTypeOK'
    BY <1>1, <1>2, <1>4, <2>3 DEF AlertTypeOK
  <2>5. \A i \in AlertIds : Waiting(p, i)' => i = new
    BY <1>1, <1>2, <2>2 DEF AlertTypeOK, OneWaits, Waiting
  <2>6. \A q \in Pairs \ {p}, i \in AlertIds : Waiting(q, i)' => Waiting(q, i)
    BY <1>1, <2>2 DEF AlertTypeOK, Waiting
  <2>7. handler'[p].step = "idle" /\ \A q \in Pairs \ {p} : handler'[q] = handler[q]
    BY <1>1, <1>2 DEF AlertTypeOK
  <2>8. OneWaits'
    <3> SUFFICES ASSUME NEW q \in Pairs
                 PROVE  /\ \A i, j \in AlertIds : Waiting(q, i)' /\ Waiting(q, j)' => i = j
                        /\ handler'[q].step = "found" => \A i \in AlertIds : Waiting(q, i)' => i = handler'[q].old
      BY DEF OneWaits
    <3>1. CASE q = p
      BY <3>1, <2>5, <2>7
    <3>2. CASE q # p
      BY <3>2, <1>1, <2>6, <2>7 DEF OneWaits
    <3> QED BY <3>1, <3>2
  <2> QED BY <2>4, <2>8 DEF AlertInv
<1> QED BY <1>5, <1>6 DEF CommitSignal

\* A decision takes a signal out of the queue, whatever became of the row since it was read.
LEMMA ReviewKeeps == ASSUME AlertInv, NEW r \in Reviews, CommitReview(r) PROVE AlertInv'
<1>1. AlertTypeOK
  BY DEF AlertInv
<1>2. /\ alerts' = [alerts EXCEPT ![review[r].alert].status = review[r].action]
      /\ review' = [review EXCEPT ![r].step = "done"] /\ handler' = handler
  BY DEF CommitReview
<1>3. review[r].action \in Decisions
  BY <1>1 DEF AlertTypeOK
<1>4. alerts' \in [AlertIds -> [pair : Pairs, status : AlertStatuses, due : BOOLEAN]]
  BY ZenonT(30), <1>1, <1>2, <1>3 DEF AlertTypeOK, AlertStatuses
<1>5. AlertTypeOK'
  BY <1>1, <1>2, <1>4 DEF AlertTypeOK
<1>6. \A q \in Pairs, i \in AlertIds : Waiting(q, i)' => Waiting(q, i)
  BY <1>1, <1>2, <1>3 DEF AlertTypeOK, Waiting, Decisions
<1> QED BY <1>2, <1>5, <1>6, FewerWait

\* To load an alert for a review changes no row.
LEMMA LoadKeeps ==
  ASSUME AlertInv, NEW r \in Reviews, NEW i \in AlertIds, NEW action \in Decisions, LoadAlert(r, i, action)
  PROVE  AlertInv'
<1>1. i \in 0..MaxAlerts
  BY AlertAssumption DEF AlertIds
<1>2. AlertTypeOK'
  BY <1>1 DEF LoadAlert, AlertInv, AlertTypeOK
<1>3. OneWaits'
  BY DEF LoadAlert, AlertInv, OneWaits, Waiting
<1> QED BY <1>2, <1>3 DEF AlertInv

\* That an alert comes due changes no status.
LEMMA TimeKeeps == ASSUME AlertInv, NEW i \in AlertIds, TimePasses(i) PROVE AlertInv'
<1>1. AlertTypeOK
  BY DEF AlertInv
<1>2. alerts' = [alerts EXCEPT ![i].due = TRUE] /\ handler' = handler /\ review' = review
  BY DEF TimePasses
<1>3. AlertTypeOK'
  BY <1>1, <1>2 DEF AlertTypeOK
<1>4. \A q \in Pairs, j \in AlertIds : Waiting(q, j)' => Waiting(q, j)
  BY <1>1, <1>2 DEF AlertTypeOK, Waiting
<1> QED BY <1>2, <1>3, <1>4, FewerWait

\* Every step of a handler, a review and the clock.
LEMMA AlertInvNext == AlertInv /\ [AlertNext]_alertVars => AlertInv'
<1> SUFFICES ASSUME AlertInv, [AlertNext]_alertVars PROVE AlertInv'
  OBVIOUS
<1>1. CASE UNCHANGED alertVars
  BY <1>1 DEF alertVars, AlertInv, AlertTypeOK, OneWaits, Waiting
<1> QED
  BY <1>1, ExpireKeeps, FindKeeps, CommitKeeps, ReviewKeeps, LoadKeeps, TimeKeeps DEF AlertNext

\* OnePendingSignal, whatever requests and expiries fall between search and commit.
THEOREM OneSignal == AlertSpec => []OnePendingSignal
<1>1. AlertInv => OnePendingSignal
  <2> SUFFICES ASSUME AlertInv, NEW p \in Pairs PROVE Cardinality(PendingOf(p)) <= 1
    BY DEF OnePendingSignal
  <2>1. \A i, j \in PendingOf(p) : i = j
    BY DEF PendingOf, Made, AlertInv, OneWaits, Waiting
  <2>2. CASE PendingOf(p) = {}
    BY <2>2, FS_EmptySet
  <2>3. CASE PendingOf(p) # {}
    <3>1. PICK i \in PendingOf(p) : TRUE
      BY <2>3
    <3>2. PendingOf(p) = {i}
      BY <2>1, <3>1
    <3> QED BY <3>2, FS_Singleton
  <2> QED BY <2>2, <2>3
<1> QED
  BY AlertInvInit, AlertInvNext, <1>1, PTL DEF AlertSpec

\* Type correctness.
THEOREM AlertTypeCorrect == AlertSpec => []AlertTypeOK
<1>1. AlertInv => AlertTypeOK
  BY DEF AlertInv
<1> QED
  BY AlertInvInit, AlertInvNext, <1>1, PTL DEF AlertSpec

-----------------------------------------------------------------------------
(* The zones. *)

ActiveOnce(rows) == \A y, z \in rows : y.status = "ACTIVE" /\ z.status = "ACTIVE" /\ y.bar = z.bar => y = z

ZoneRows == [bar : 1..MaxBars, index : 0..(Window - 1), made : 1..MaxBars, status : IctStatuses]

ZoneInv == IctTypeOK /\ patterns \subseteq 1..bars /\ OneActiveRow

\* To mark rows as something else than ACTIVE keeps them rows, and makes no row ACTIVE.
LEMMA MarkedRows ==
  ASSUME NEW rows \in SUBSET ZoneRows, NEW hit \in SUBSET rows, NEW status \in {"MITIGATED", "EXPIRED"}, ActiveOnce(rows)
  PROVE  Marked(rows, hit, status) \in SUBSET ZoneRows /\ ActiveOnce(Marked(rows, hit, status))
<1>1. \A z \in hit : [z EXCEPT !.status = status] \in ZoneRows /\ [z EXCEPT !.status = status].status = status
  BY DEF ZoneRows, IctStatuses
<1>2. \A y \in Marked(rows, hit, status) : y.status = "ACTIVE" => y \in rows
  BY <1>1 DEF Marked
<1> QED BY <1>1, <1>2 DEF Marked, ActiveOnce

\* What is inserted beside the rows: one row for a bar, and none for a bar that has an ACTIVE row.
LEMMA DetectedRows ==
  ASSUME NEW rows \in SUBSET ZoneRows, ActiveOnce(rows), NEW last \in 1..MaxBars, NEW formed \in SUBSET (1..last),
         NEW persisted \in SUBSET Detect(rows, formed, last)
  PROVE  rows \union persisted \in SUBSET ZoneRows /\ ActiveOnce(rows \union persisted)
<1>1. ASSUME NEW b \in formed, b >= FirstInWindow(last) PROVE CandleIndex(b, last) \in 0..(Window - 1)
  BY <1>1, IctAssumption DEF CandleIndex, FirstInWindow
<1>2. persisted \in SUBSET ZoneRows
  BY <1>1, IctAssumption DEF Detect, ZoneRows, IctStatuses
<1>3. \A z \in persisted : /\ z = [bar |-> z.bar, index |-> CandleIndex(z.bar, last), made |-> last, status |-> "ACTIVE"]
                           /\ \A y \in rows : ~(y.bar = z.bar /\ y.status = "ACTIVE")
  BY DEF Detect, IsDuplicate
<1> QED BY <1>2, <1>3 DEF ActiveOnce

\* Every close of a bar.
LEMMA ZonesKept == ZoneInv /\ [IctNext]_ictVars => ZoneInv'
<1> SUFFICES ASSUME ZoneInv, [IctNext]_ictVars PROVE ZoneInv'
  OBVIOUS
<1>0. bars \in Nat /\ MaxBars \in Nat /\ bars <= MaxBars
  BY IctAssumption DEF ZoneInv, IctTypeOK
<1>1. CASE CloseOfBar
  <2>1. bars' = bars + 1 /\ bars' \in 1..MaxBars
    BY <1>0, <1>1 DEF CloseOfBar
  <2>2. PICK formed \in {patterns, patterns \union {bars'}}, touched \in SUBSET patterns :
          /\ patterns' = formed
          /\ \/ bars' < MinCandles /\ UNCHANGED zones
             \/ bars' >= MinCandles
                /\ LET left == ExpireOld(Mitigate(zones, touched), bars')
                   IN  \E persisted \in SUBSET Detect(left, formed, bars') : zones' = left \union persisted
    BY <1>1 DEF CloseOfBar
  <2>3. formed \in SUBSET (1..bars')
    BY <1>0, <2>1 DEF ZoneInv
  <2> DEFINE marked == Mitigate(zones, touched)
             left   == ExpireOld(marked, bars')
  <2>4. zones \in SUBSET ZoneRows /\ ActiveOnce(zones)
    BY DEF ZoneInv, IctTypeOK, ZoneRows, OneActiveRow, ActiveOnce
  <2>5. marked \in SUBSET ZoneRows /\ ActiveOnce(marked)
    BY <2>4, MarkedRows DEF Mitigate
  <2> HIDE DEF marked
  <2>6. left \in SUBSET ZoneRows /\ ActiveOnce(left)
    BY <2>5, MarkedRows DEF ExpireOld
  <2> HIDE DEF left
  <2>7. zones' \in SUBSET ZoneRows /\ ActiveOnce(zones')
    <3>1. CASE zones' = zones
      BY <3>1, <2>4
    <3>2. CASE \E persisted \in SUBSET Detect(left, formed, bars') : zones' = left \union persisted
      BY <3>2, <2>1, <2>3, <2>6, DetectedRows
    <3> QED BY <2>2, <3>1, <3>2 DEF left, marked
  <2>8. patterns' \subseteq 1..bars' /\ patterns' \subseteq 1..MaxBars /\ bars' \in 0..MaxBars
    BY <1>0, <2>1, <2>2, <2>3
  <2> QED BY <2>7, <2>8 DEF ZoneInv, IctTypeOK, ZoneRows, OneActiveRow, ActiveOnce
<1>2. CASE UNCHANGED ictVars
  BY <1>2 DEF ictVars, ZoneInv, IctTypeOK, OneActiveRow
<1> QED BY <1>1, <1>2 DEF IctNext

\* OneActiveRow, for any window and any bars: the duplicate check before an insert suffices,
\* since the rows it looks through are all there are (detect_and_persist).
THEOREM ZonesOnce == IctSpec => []OneActiveRow
<1>1. IctInit => ZoneInv
  BY IctAssumption DEF IctInit, ZoneInv, IctTypeOK, OneActiveRow
<1>2. ZoneInv => OneActiveRow
  BY DEF ZoneInv
<1> QED BY <1>1, <1>2, ZonesKept, PTL DEF IctSpec

\* The rows of the zones: each of a bar that closed, at its place in the window of the bar that made it.
THEOREM ZoneTypeCorrect == IctSpec => []IctTypeOK
<1>1. IctInit => ZoneInv
  BY IctAssumption DEF IctInit, ZoneInv, IctTypeOK, OneActiveRow
<1>2. ZoneInv => IctTypeOK
  BY DEF ZoneInv
<1> QED BY <1>1, <1>2, ZonesKept, PTL DEF IctSpec

-----------------------------------------------------------------------------
(* The monitors of the loop. *)

\* The rows of the runs and of the entries.
RunRows   == [started : Nat, ended : BOOLEAN]
EntryRows == [run : Nat, at : Nat, late : BOOLEAN, parts : Nat]

HealthTypes ==
  /\ clock \in Nat /\ diedAt \in Nat /\ diedAt <= clock
  /\ decided \in Int /\ decided <= clock /\ recorded \in Int /\ recorded <= clock
  /\ alive \in BOOLEAN /\ halt \in BOOLEAN
  /\ runs \in Seq(RunRows) /\ entered \in Seq(EntryRows)
  /\ held \in [entry : Nat, left : Nat]

\* The runs began in the past; a loop that died in an open run recorded nothing since.
DeadIsSilent ==
  /\ \A r \in 1..Len(runs) : runs[r].started <= clock
  /\ ~alive /\ ~RunOver => recorded <= diedAt /\ Since <= diedAt

\* The entry of the position that is held was the last decision, of a run that had begun,
\* and its rows have no more parts than were closed.
HeldIsLast ==
  held.entry # 0 =>
    /\ held.entry \in 1..Len(entered) /\ held.left > 0
    /\ entered[held.entry].at = decided
    /\ entered[held.entry].parts + held.left <= 10
    /\ entered[held.entry].run = ThisRun => Since <= entered[held.entry].at

RunsNumbered == (alive => ThisRun # 0) /\ \A k \in 1..Len(entered) : entered[k].run \in 1..ThisRun

HealthInv == HealthTypes /\ DeadIsSilent /\ HeldIsLast /\ RunsNumbered

\* The members of the rows.
LEMMA RowFacts ==
  ASSUME HealthTypes
  PROVE  /\ ThisRun \in Nat
         /\ \A r \in 1..ThisRun : runs[r] \in RunRows /\ runs[r].started \in Nat
         /\ ThisRun # 0 => Since \in Nat
         /\ Len(entered) \in Nat /\ DOMAIN entered = 1..Len(entered)
         /\ \A k \in 1..Len(entered) : /\ entered[k] \in EntryRows
                                       /\ entered[k].run \in Nat /\ entered[k].at \in Nat /\ entered[k].parts \in Nat
         /\ held.entry \in Nat /\ held.left \in Nat
<1>1. \A r \in 1..Len(runs) : runs[r] \in RunRows
  <2> HIDE DEF RunRows
  <2> QED BY DEF HealthTypes
<1>2. \A r \in 1..Len(entered) : entered[r] \in EntryRows
  <2> HIDE DEF EntryRows
  <2> QED BY DEF HealthTypes
<1>3. \A x \in RunRows : x.started \in Nat
  BY DEF RunRows
<1>4. \A x \in EntryRows : x.run \in Nat /\ x.at \in Nat /\ x.parts \in Nat
  BY DEF EntryRows
<1>5. Len(runs) \in Nat /\ Len(entered) \in Nat /\ DOMAIN entered = 1..Len(entered)
  BY DEF HealthTypes
<1>6. held.entry \in Nat /\ held.left \in Nat
  BY DEF HealthTypes
<1> QED BY <1>1, <1>2, <1>3, <1>4, <1>5, <1>6 DEF ThisRun, Since

\* What the invariant says of the rows is enough for what the page is told of them.
LEMMA HealthTells == HealthInv => HealthTellsTruth
<1> SUFFICES ASSUME HealthInv PROVE HealthTellsTruth
  OBVIOUS
<1>0. ShadowStale \in Nat /\ ShadowDown \in Nat /\ ShadowStale <= ShadowDown /\ BlockedFloor \in Nat
  BY HealthAssumption
<1>1. /\ ThisRun \in Nat
      /\ ThisRun # 0 => Since \in Nat
      /\ clock \in Nat /\ decided \in Int /\ recorded \in Int /\ diedAt \in Nat
  BY RowFacts DEF HealthInv, HealthTypes
<1>2. ~alive /\ ~RunOver /\ clock - diedAt > ShadowStale => Problems # {}
  <2> SUFFICES ASSUME ~alive, ~RunOver, clock - diedAt > ShadowStale PROVE Problems # {}
    OBVIOUS
  <2>0. Since \in Nat /\ recorded <= diedAt /\ Since <= diedAt
    BY <1>1 DEF RunOver, HealthInv, DeadIsSilent
  <2>1. ShadowAge > ShadowStale
    BY <1>0, <1>1, <2>0 DEF ShadowAge
  <2>2. ShadowStatus \in {"down", "stale"}
    BY <2>1 DEF ShadowStatus
  <2> QED BY <2>2 DEF Problems, OkStatuses
<1>3. held.entry # 0 =>
        /\ held.entry \in 1..Len(entered) /\ entered[held.entry].at = decided
        /\ entered[held.entry].parts + held.left <= 10 /\ held.left > 0
        /\ entered[held.entry].parts \in Nat /\ held.left \in Nat
        /\ entered[held.entry].run = ThisRun => Since <= entered[held.entry].at
        /\ entered[held.entry].run \in 1..ThisRun
  BY RowFacts DEF HealthInv, HeldIsLast, RunsNumbered
<1>4. OrderPathStatus = "withdrawn" => held.entry # 0 /\ clock - entered[held.entry].at > BlockedFloor
  <2> SUFFICES ASSUME Withdrawn, ThisRun # 0 PROVE held.entry # 0 /\ clock - decided > BlockedFloor
    BY <1>3 DEF OrderPathStatus, Withdrawn, BlockedByPosition
  <2> QED BY <1>0, <1>1 DEF Withdrawn, BlockedByPosition, BarsBlocked
<1>5. StandsWithdrawn /\ clock - entered[held.entry].at > BlockedFloor => OrderPathStatus = "withdrawn"
  <2> SUFFICES ASSUME StandsWithdrawn, clock - entered[held.entry].at > BlockedFloor
               PROVE  OrderPathStatus = "withdrawn"
    OBVIOUS
  <2>1. held.entry \in 1..Len(entered) /\ entered[held.entry].run = ThisRun /\ ~halt
        /\ held.entry \in OfRun
    BY RowFacts DEF StandsWithdrawn, OfRun, HealthInv
  <2>2. held.entry # 0 /\ ThisRun # 0 /\ Since <= decided /\ Since \in Nat
    BY <2>1, <1>1, <1>3
  <2>3. Outstanding(held.entry)
    BY <2>2, <1>3 DEF StandsWithdrawn, Outstanding, Matched
  <2>4. Remainder
    BY <2>1, <2>3 DEF Remainder
  <2>5. BarsBlocked > BlockedFloor
    BY <2>2, <1>0, <1>1, <1>3 DEF BarsBlocked
  <2> QED BY <2>1, <2>2, <2>4, <2>5 DEF OrderPathStatus, Withdrawn, BlockedByPosition
<1> QED BY <1>2, <1>4, <1>5 DEF HealthTellsTruth

\* Nothing ran, and nothing is held, at first.
LEMMA HealthStarts == HealthInit => HealthInv
<1> SUFFICES ASSUME HealthInit PROVE HealthInv
  OBVIOUS
<1>1. runs \in Seq(RunRows) /\ Len(runs) = 0 /\ entered \in Seq(EntryRows) /\ Len(entered) = 0
  BY DEF HealthInit
<1>2. held \in [entry : Nat, left : Nat] /\ held.entry = 0
  BY DEF HealthInit, NoPosition
<1>3. alive \in BOOLEAN /\ halt \in BOOLEAN
  BY DEF HealthInit
<1>4. clock = 0 /\ diedAt = 0 /\ decided = -1 /\ recorded = -1
  BY DEF HealthInit, NeverAt
<1>5. HealthTypes
  BY <1>1, <1>2, <1>3, <1>4 DEF HealthTypes
<1>6. RunsNumbered
  BY <1>1 DEF HealthInit, RunsNumbered
<1> QED BY <1>1, <1>2, <1>5, <1>6 DEF HealthInv, DeadIsSilent, HeldIsLast, RunOver, ThisRun

\* The close of some parts of what is held: its rows take on no more than that.
LEMMA PartCloses ==
  ASSUME HealthInv, held.entry # 0, NEW parts \in 1..held.left, ClosePart(parts)
  PROVE  /\ entered' \in Seq(EntryRows) /\ Len(entered') = Len(entered)
         /\ \A j \in 1..Len(entered) : entered'[j].run = entered[j].run /\ entered'[j].at = entered[j].at
         /\ held' \in [entry : Nat, left : Nat]
         /\ held'.entry # 0 => /\ held'.entry = held.entry /\ held'.left > 0
                               /\ entered'[held.entry].parts + held'.left <= 10
<1> DEFINE k == held.entry
<1>0. /\ entered \in Seq(EntryRows) /\ DOMAIN entered = 1..Len(entered) /\ Len(entered) \in Nat
      /\ \A j \in 1..Len(entered) : entered[j] \in EntryRows /\ entered[j].parts \in Nat
  BY RowFacts DEF HealthInv, HealthTypes
<1>1. k \in 1..Len(entered) /\ held.left \in Nat /\ entered[k].parts \in Nat /\ entered[k].parts + held.left <= 10
      /\ held \in [entry : Nat, left : Nat]
  BY RowFacts DEF HealthInv, HeldIsLast, HealthTypes
<1>2. PICK wrote \in BOOLEAN : entered' = [entered EXCEPT ![k].parts = @ + IF wrote THEN parts ELSE 0]
  BY DEF ClosePart
<1> DEFINE more == IF wrote THEN parts ELSE 0
           row  == [entered[k] EXCEPT !.parts = @ + more]
<1>3. more \in Nat /\ more <= parts /\ parts \in Nat /\ parts <= held.left
  BY <1>1
<1>4. entered' = [entered EXCEPT ![k] = row]
  BY <1>0, <1>1, <1>2
<1> HIDE DEF more
<1>5. row \in EntryRows /\ row.parts = entered[k].parts + more /\ row.run = entered[k].run /\ row.at = entered[k].at
  <2>1. \A e \in EntryRows, m \in Nat :
          /\ [e EXCEPT !.parts = @ + m] \in EntryRows /\ [e EXCEPT !.parts = @ + m].parts = e.parts + m
          /\ [e EXCEPT !.parts = @ + m].run = e.run /\ [e EXCEPT !.parts = @ + m].at = e.at
    BY DEF EntryRows
  <2>2. entered[k] \in EntryRows
    BY <1>0, <1>1
  <2> QED BY <1>3, <2>1, <2>2
<1> HIDE DEF row, k
<1>6. entered' \in Seq(EntryRows) /\ Len(entered') = Len(entered)
      /\ \A j \in 1..Len(entered) : entered'[j] = IF j = k THEN row ELSE entered[j]
  BY <1>0, <1>1, <1>4, <1>5
<1>7. held' = IF held.left = parts THEN NoPosition ELSE [held EXCEPT !.left = @ - parts]
  BY DEF ClosePart
<1>8. held' \in [entry : Nat, left : Nat] /\ (held'.entry # 0 => held'.entry = k /\ held'.left = held.left - parts /\ held.left # parts)
  <2>1. CASE held.left = parts
    BY <1>7, <2>1 DEF NoPosition
  <2>2. CASE held.left # parts
    <3>1. held' = [held EXCEPT !.left = held.left - parts] /\ held.left - parts \in Nat
      BY <1>1, <1>3, <1>7, <2>2
    <3> QED BY <1>1, <2>2, <3>1 DEF k
  <2> QED BY <2>1, <2>2
<1>9. held'.entry # 0 => held'.left > 0 /\ entered'[k].parts + held'.left <= 10
  <2>1. entered'[k].parts = entered[k].parts + more
    BY <1>1, <1>5, <1>6
  <2> QED BY <1>1, <1>3, <1>8, <2>1
<1>10. \A j \in 1..Len(entered) : entered'[j].run = entered[j].run /\ entered'[j].at = entered[j].at
  BY <1>5, <1>6
<1> QED BY <1>6, <1>8, <1>9, <1>10 DEF k

\* What a step keeps when the position and the entries stay and the run is not a new one.
LEMMA RunRowsStay ==
  ASSUME HealthInv, runs' \in Seq(RunRows), Len(runs') = Len(runs),
         \A r \in 1..Len(runs) : runs'[r].started = runs[r].started
  PROVE  ThisRun' = ThisRun /\ (ThisRun # 0 => Since' = Since)
BY RowFacts DEF HealthInv, ThisRun, Since

\* A new run begins now: nothing recorded or entered is of it.
LEMMA StartKeeps == ASSUME HealthInv, StartRun PROVE HealthInv'
<1> DEFINE ended == [r \in DOMAIN runs |-> [runs[r] EXCEPT !.ended = TRUE]]
           first == [started |-> clock, ended |-> FALSE]
<1>0. /\ ThisRun \in Nat /\ clock \in Nat /\ runs \in Seq(RunRows) /\ DOMAIN runs = 1..ThisRun
      /\ \A r \in 1..ThisRun : runs[r] \in RunRows
  BY RowFacts DEF HealthInv, HealthTypes, ThisRun
<1>1. \A x \in RunRows : [x EXCEPT !.ended = TRUE] \in RunRows /\ [x EXCEPT !.ended = TRUE].started = x.started
  BY DEF RunRows
<1>2. ended \in Seq(RunRows) /\ Len(ended) = ThisRun
      /\ \A r \in 1..ThisRun : ended[r].started = runs[r].started
  <2>1. \A r \in 1..ThisRun : ended[r] \in RunRows /\ ended[r].started = runs[r].started
    BY <1>0, <1>1
  <2>2. DOMAIN ended = 1..ThisRun /\ ended = [r \in 1..ThisRun |-> ended[r]]
    BY <1>0
  <2> HIDE DEF ended
  <2> QED BY SMTT(30), <1>0, <2>1, <2>2
<1> HIDE DEF ended
<1>3. first \in RunRows /\ first.started = clock /\ first.ended = FALSE
  BY <1>0 DEF RunRows
<1> HIDE DEF first
<1>4. /\ runs' = Append(ended, first) /\ alive' = TRUE /\ diedAt' = 0
      /\ UNCHANGED <<clock, decided, recorded, entered, held, halt>>
  BY DEF StartRun, ended, first
<1>5. /\ runs' \in Seq(RunRows) /\ Len(runs') = ThisRun + 1
      /\ \A r \in 1..ThisRun : runs'[r].started = runs[r].started
      /\ runs'[ThisRun + 1] = first
  BY <1>0, <1>2, <1>3, <1>4
<1>6. HealthTypes'
  BY <1>4, <1>5 DEF HealthInv, HealthTypes
<1>7. ThisRun' = ThisRun + 1 /\ Since' = clock
  BY <1>3, <1>5 DEF ThisRun, Since
<1>8. DeadIsSilent'
  BY <1>0, <1>3, <1>4, <1>5 DEF DeadIsSilent, HealthInv, ThisRun
<1>9. HeldIsLast' /\ RunsNumbered'
  BY <1>0, <1>4, <1>7, RowFacts DEF HeldIsLast, RunsNumbered, HealthInv
<1> QED BY <1>6, <1>8, <1>9 DEF HealthInv

\* A stop ends the last run, and may close the rest of what is held.
LEMMA StopKeeps == ASSUME HealthInv, StopRun PROVE HealthInv'
<1>0. /\ ThisRun \in Nat /\ clock \in Nat /\ runs \in Seq(RunRows) /\ DOMAIN runs = 1..ThisRun
      /\ \A r \in 1..ThisRun : runs[r] \in RunRows
      /\ held.left \in Nat /\ Len(entered) \in Nat
  BY RowFacts DEF HealthInv, HealthTypes, ThisRun
<1>1. /\ runs' = [runs EXCEPT ![ThisRun].ended = TRUE]
      /\ alive' = FALSE /\ UNCHANGED <<clock, decided, recorded, halt, diedAt>>
      /\ (held.entry # 0 /\ ClosePart(held.left)) \/ UNCHANGED <<entered, held>>
  BY DEF StopRun
<1>2. \A x \in RunRows : /\ [x EXCEPT !.ended = TRUE] \in RunRows
                         /\ [x EXCEPT !.ended = TRUE].started = x.started /\ [x EXCEPT !.ended = TRUE].ended = TRUE
  BY DEF RunRows
<1>3. /\ runs' \in Seq(RunRows) /\ Len(runs') = Len(runs)
      /\ \A r \in 1..Len(runs) : runs'[r].started = runs[r].started
      /\ ThisRun # 0 => runs'[ThisRun].ended = TRUE
  <2>1. CASE ThisRun = 0
    <3>1. runs' = runs
      BY <1>0, <1>1, <2>1
    <3> QED BY <3>1, <1>0, <2>1 DEF ThisRun
  <2>2. CASE ThisRun # 0
    <3> DEFINE row == [runs[ThisRun] EXCEPT !.ended = TRUE]
    <3>1. row \in RunRows /\ row.started = runs[ThisRun].started /\ row.ended = TRUE
      BY <1>0, <1>2, <2>2
    <3>2. runs' = [runs EXCEPT ![ThisRun] = row]
      BY <1>1
    <3> HIDE DEF row
    <3>3. runs' \in Seq(RunRows) /\ Len(runs') = Len(runs)
          /\ \A r \in 1..Len(runs) : runs'[r] = IF r = ThisRun THEN row ELSE runs[r]
      BY <1>0, <2>2, <3>1, <3>2 DEF ThisRun
    <3>4. \A r \in 1..Len(runs) : runs'[r].started = runs[r].started
      BY <3>1, <3>3
    <3>5. runs'[ThisRun].ended = TRUE
      <4>1. ThisRun \in 1..Len(runs)
        BY <1>0, <2>2 DEF ThisRun
      <4>2. runs'[ThisRun] = row
        BY <3>3, <4>1
      <4> QED BY <3>1, <4>2
    <3> QED BY <3>3, <3>4, <3>5
  <2> QED BY <2>1, <2>2
<1>4. ThisRun' = ThisRun /\ (ThisRun # 0 => Since' = Since) /\ RunOver'
  BY <1>3, RunRowsStay DEF RunOver, ThisRun
<1>5. DeadIsSilent'
  BY <1>1, <1>3, <1>4 DEF DeadIsSilent, HealthInv
<1>6. alive' \in BOOLEAN /\ alive' = FALSE
  BY <1>1
<1>7. HealthTypes' /\ HeldIsLast' /\ RunsNumbered'
  <2>1. CASE UNCHANGED <<entered, held>>
    <3>1. HealthTypes'
      BY <1>1, <1>3, <1>6, <2>1 DEF HealthInv, HealthTypes
    <3>2. HeldIsLast' /\ RunsNumbered'
      BY <1>1, <1>4, <1>6, <2>1, RowFacts DEF HealthInv, HeldIsLast, RunsNumbered
    <3> QED BY <3>1, <3>2
  <2>2. CASE held.entry # 0 /\ ClosePart(held.left)
    <3>1. held.left \in 1..held.left
      BY <1>0, <2>2 DEF HealthInv, HeldIsLast
    <3>2. /\ entered' \in Seq(EntryRows) /\ Len(entered') = Len(entered)
          /\ \A j \in 1..Len(entered) : entered'[j].run = entered[j].run /\ entered'[j].at = entered[j].at
          /\ held' \in [entry : Nat, left : Nat]
          /\ held'.entry # 0 => /\ held'.entry = held.entry /\ held'.left > 0
                                /\ entered'[held.entry].parts + held'.left <= 10
      BY <2>2, <3>1, PartCloses
    <3>3. HealthTypes'
      BY <1>1, <1>3, <1>6, <3>2 DEF HealthInv, HealthTypes
    <3>4. HeldIsLast'
      <4>1. held.entry \in 1..Len(entered)
        BY <2>2 DEF HealthInv, HeldIsLast
      <4>2. entered'[held.entry].run = entered[held.entry].run /\ entered'[held.entry].at = entered[held.entry].at
        BY <3>2, <4>1
      <4>3. ThisRun # 0 /\ decided' = decided
        BY <1>1, <4>1, RowFacts DEF HealthInv, RunsNumbered
      <4> QED BY <1>4, <2>2, <3>2, <4>1, <4>2, <4>3 DEF HealthInv, HeldIsLast
    <3>5. RunsNumbered'
      BY <1>4, <1>6, <3>2 DEF HealthInv, RunsNumbered
    <3> QED BY <3>3, <3>4, <3>5
  <2> QED BY <1>1, <2>1, <2>2
<1> QED BY <1>5, <1>7 DEF HealthInv

\* Exits close parts of what is held: its entry stays the last decision.
LEMMA ExitsKeep == ASSUME HealthInv, Exits PROVE HealthInv'
<1>1. PICK parts \in 1..held.left : ClosePart(parts)
  BY RowFacts DEF Exits, HealthInv, HeldIsLast
<1>2. /\ held.entry # 0
      /\ UNCHANGED <<clock, runs, alive, diedAt, decided, recorded, halt>>
  BY DEF Exits
<1>3. /\ entered' \in Seq(EntryRows) /\ Len(entered') = Len(entered)
      /\ \A j \in 1..Len(entered) : entered'[j].run = entered[j].run /\ entered'[j].at = entered[j].at
      /\ held' \in [entry : Nat, left : Nat]
      /\ held'.entry # 0 => /\ held'.entry = held.entry /\ held'.left > 0
                            /\ entered'[held.entry].parts + held'.left <= 10
  BY <1>1, <1>2, PartCloses
<1>4. ThisRun' = ThisRun /\ Since' = Since /\ RunOver' = RunOver
  BY <1>2 DEF ThisRun, Since, RunOver
<1>5. DeadIsSilent'
  BY <1>2, <1>4 DEF DeadIsSilent, HealthInv
<1>6. HealthTypes' /\ HeldIsLast' /\ RunsNumbered'
  BY <1>2, <1>3, <1>4, RowFacts DEF HealthInv, HealthTypes, HeldIsLast, RunsNumbered
<1> QED BY <1>5, <1>6 DEF HealthInv

\* A bar of a live loop: what it enters is the last decision, and of the last run.
LEMMA BarKeeps == ASSUME HealthInv, BarOfLoop PROVE HealthInv'
<1>0. /\ ThisRun \in Nat /\ clock \in Nat /\ runs \in Seq(RunRows) /\ ThisRun = Len(runs)
      /\ decided \in Int /\ decided <= clock /\ recorded \in Int /\ recorded <= clock /\ diedAt <= clock /\ diedAt \in Nat
      /\ ThisRun # 0 => Since \in Nat /\ Since <= clock
      /\ \A r \in 1..ThisRun : runs[r].started \in Nat /\ runs[r].started <= clock
      /\ entered \in Seq(EntryRows)
  BY RowFacts DEF HealthInv, HealthTypes, ThisRun, Since, DeadIsSilent
<1>1. /\ alive /\ clock' = clock + 1 /\ UNCHANGED <<runs, alive, diedAt, halt>>
      /\ recorded' \in {recorded, clock'}
  BY DEF BarOfLoop
<1>2. ThisRun' = ThisRun /\ Since' = Since /\ RunOver' = RunOver
  BY <1>1 DEF ThisRun, Since, RunOver
<1>3. DeadIsSilent'
  BY <1>0, <1>1 DEF DeadIsSilent, ThisRun
<1>4. CASE UNCHANGED <<decided, entered, held>> \/ (held.entry = 0 /\ decided' = clock' /\ UNCHANGED <<entered, held>>)
  <2>1. HealthTypes'
    BY <1>0, <1>1, <1>4 DEF HealthInv, HealthTypes
  <2>2. HeldIsLast'
    BY <1>2, <1>4 DEF HealthInv, HeldIsLast
  <2>3. entered' = entered /\ alive' = alive
    BY <1>1, <1>4
  <2>4. RunsNumbered'
    BY <1>2, <2>3 DEF HealthInv, RunsNumbered
  <2> QED BY <1>3, <2>1, <2>2, <2>4 DEF HealthInv
<1>5. CASE /\ held.entry = 0 /\ decided' = clock'
           /\ \E late \in BOOLEAN :
                entered' = Append(entered, [run |-> ThisRun, at |-> clock', late |-> late, parts |-> 0])
           /\ held' = [entry |-> Len(entered'), left |-> 10]
           /\ ThisRun # 0
  <2>1. PICK late \in BOOLEAN :
          entered' = Append(entered, [run |-> ThisRun, at |-> clock', late |-> late, parts |-> 0])
    BY <1>5
  <2> DEFINE row == [run |-> ThisRun, at |-> clock', late |-> late, parts |-> 0]
             n == Len(entered) + 1
  <2>2. row \in EntryRows /\ row.run = ThisRun /\ row.at = clock' /\ row.parts = 0
    BY <1>0, <1>1 DEF EntryRows
  <2>3. entered' = Append(entered, row)
    BY <2>1
  <2> HIDE DEF row
  <2>4. /\ entered' \in Seq(EntryRows) /\ Len(entered') = n /\ n \in Nat
        /\ \A j \in 1..Len(entered) : entered'[j] = entered[j]
        /\ entered'[n] = row
    BY <1>0, <2>2, <2>3
  <2>5. held'.entry = n /\ held'.left = 10 /\ held' \in [entry : Nat, left : Nat]
    BY <1>5, <2>4
  <2>6. HealthTypes'
    BY <1>0, <1>1, <1>5, <2>4, <2>5 DEF HealthInv, HealthTypes
  <2>7. HeldIsLast'
    BY <1>0, <1>1, <1>2, <1>5, <2>2, <2>4, <2>5 DEF HeldIsLast
  <2>8. RunsNumbered'
    BY <1>0, <1>2, <1>5, <2>2, <2>4 DEF HealthInv, RunsNumbered
  <2> QED BY <1>3, <2>6, <2>7, <2>8 DEF HealthInv
<1>6. ThisRun # 0
  BY <1>1 DEF HealthInv, RunsNumbered
<1> QED
  BY <1>1, <1>4, <1>5, <1>6 DEF BarOfLoop

\* Every step of the loop, of the venue and of the clock.
LEMMA HealthKept == HealthInv /\ [HealthNext]_healthVars => HealthInv'
<1> SUFFICES ASSUME HealthInv, [HealthNext]_healthVars PROVE HealthInv'
  OBVIOUS
<1>1. CASE LoopDies
  <2>1. /\ alive' = FALSE /\ diedAt' = clock /\ UNCHANGED <<clock, runs, decided, recorded, entered, held, halt>>
    BY <1>1 DEF LoopDies
  <2>2. ThisRun' = ThisRun /\ Since' = Since /\ RunOver' = RunOver
    BY <2>1 DEF ThisRun, Since, RunOver
  <2>3. alive' \in BOOLEAN
    BY <2>1
  <2>4. HealthTypes'
    BY <2>1, <2>3 DEF HealthInv, HealthTypes
  <2>5. ~RunOver => Since <= clock
    BY RowFacts DEF HealthInv, DeadIsSilent, RunOver, ThisRun, Since
  <2>6. DeadIsSilent' /\ HeldIsLast' /\ RunsNumbered'
    BY <2>1, <2>2, <2>5 DEF HealthInv, HealthTypes, DeadIsSilent, HeldIsLast, RunsNumbered
  <2> QED BY <2>4, <2>6 DEF HealthInv
<1>2. CASE BarAlone
  <2>1. /\ clock' = clock + 1 /\ UNCHANGED <<runs, alive, diedAt, decided, recorded, entered, held, halt>>
    BY <1>2 DEF BarAlone
  <2>2. ThisRun' = ThisRun /\ Since' = Since /\ RunOver' = RunOver
    BY <2>1 DEF ThisRun, Since, RunOver
  <2>3. HealthTypes'
    BY <2>1 DEF HealthInv, HealthTypes
  <2>4. DeadIsSilent'
    BY <2>1, <2>2, RowFacts DEF HealthInv, HealthTypes, DeadIsSilent, ThisRun
  <2>5. HeldIsLast' /\ RunsNumbered'
    BY <2>1, <2>2 DEF HealthInv, HeldIsLast, RunsNumbered
  <2> QED BY <2>3, <2>4, <2>5 DEF HealthInv
<1>3. CASE HaltTurns
  <2>1. /\ halt' = ~halt /\ UNCHANGED <<clock, runs, alive, diedAt, decided, recorded, entered, held>>
    BY <1>3 DEF HaltTurns
  <2>2. ThisRun' = ThisRun /\ Since' = Since /\ RunOver' = RunOver /\ halt' \in BOOLEAN
    BY <2>1 DEF ThisRun, Since, RunOver
  <2> QED BY <2>1, <2>2 DEF HealthInv, HealthTypes, DeadIsSilent, HeldIsLast, RunsNumbered
<1>4. CASE UNCHANGED healthVars
  BY <1>4 DEF healthVars, HealthInv, HealthTypes, DeadIsSilent, HeldIsLast, RunsNumbered, ThisRun, Since, RunOver
<1> QED BY <1>1, <1>2, <1>3, <1>4, StartKeeps, StopKeeps, ExitsKeep, BarKeeps DEF HealthNext

\* The monitors tell the truth of a loop that is broken and of none other, for any thresholds
\* and any number of runs and entries.
THEOREM HealthIsTold == HealthSpec => []HealthTellsTruth
BY HealthStarts, HealthKept, HealthTells, PTL DEF HealthSpec

-----------------------------------------------------------------------------
(* The candle pipeline. *)

CandleBars == [start : Nat, late : BOOLEAN]

\* The minutes of some bars go up, each by one at least.
Climbing(hist) == \A i, j \in 1..Len(hist) : i <= j => hist[j].start - hist[i].start >= j - i

\* The bars are those of some closed minutes, and what is missing came before a full history.
Covers(hist, closed) ==
  /\ \A i \in 1..Len(hist) : hist[i].start \in closed
  /\ \A m \in closed : \/ \E i \in 1..Len(hist) : hist[i].start = m
                       \/ Len(hist) = HistoryCap /\ m < hist[1].start

\* The history holds the closed minutes, up to its cap, all before the open one.
CandleInv ==
  /\ history \in Seq(CandleBars) /\ Len(history) <= HistoryCap
  /\ \/ current \in CandleBars /\ current.start <= MaxMinute
     \/ current = NoBar /\ closedBars = {} /\ history = <<>>
  /\ closedBars \subseteq Nat /\ \A m \in closedBars : m < current.start
  /\ Climbing(history) /\ Covers(history, closedBars)
  /\ \A r \in stored : r.period \in Periods => r.start \in Int /\ r.start + r.period - 1 \in closedBars
  /\ HigherBarsWhole

\* The history is the end of the bars.
LEMMA KeptBars ==
  ASSUME NEW hist \in Seq(CandleBars), Len(hist) > 0
  PROVE  LET n == Len(hist) - Len(Kept(hist))
         IN  /\ Kept(hist) \in Seq(CandleBars) /\ Len(Kept(hist)) \in 1..Len(hist) /\ Len(Kept(hist)) <= HistoryCap
             /\ n \in Nat /\ (n > 0 => Len(Kept(hist)) = HistoryCap)
             /\ \A i \in 1..Len(Kept(hist)) : Kept(hist)[i] = hist[i + n]
<1>0. HistoryCap \in Nat \ {0} /\ Len(hist) \in Nat
  BY CandleAssumption
<1>1. CASE Len(hist) > HistoryCap
  <2> DEFINE a == Len(hist) - (HistoryCap - 1)
             k == SubSeq(hist, a, Len(hist))
  <2>1. Kept(hist) = k
    BY <1>1 DEF Kept, LastBars
  <2>2. a \in 1..Len(hist) /\ \A i \in a..Len(hist) : hist[i] \in CandleBars
    <3>1. a \in 1..Len(hist)
      BY <1>0, <1>1
    <3>2. \A i \in 1..Len(hist) : hist[i] \in CandleBars
      <4> HIDE DEF CandleBars
      <4> QED OBVIOUS
    <3> QED BY <1>0, <3>1, <3>2
  <2>3. k = [i \in 1..(Len(hist) - a + 1) |-> hist[i + a - 1]]
    BY <1>0, <2>2
  <2>4. Len(hist) - a + 1 = HistoryCap
    BY <1>0
  <2> HIDE DEF a
  <2>5. \A i \in 1..HistoryCap : i + a - 1 \in a..Len(hist)
    BY <1>0, <2>2, <2>4
  <2>6. k = [i \in 1..HistoryCap |-> hist[i + a - 1]]
    BY <2>3, <2>4
  <2>7. k \in Seq(CandleBars) /\ Len(k) = HistoryCap
    <3> HIDE DEF k, CandleBars
    <3> QED BY <1>0, <2>2, <2>5, <2>6
  <2>8. Len(hist) - HistoryCap = a - 1 /\ a - 1 \in Nat /\ HistoryCap \in 1..Len(hist)
    BY <1>0, <1>1, <2>2, <2>4 DEF a
  <2>9. \A i \in 1..HistoryCap : k[i] = hist[i + (a - 1)]
    BY <1>0, <2>2, <2>6
  <2> HIDE DEF k
  <2> QED BY <2>1, <2>7, <2>8, <2>9
<1>2. CASE ~(Len(hist) > HistoryCap)
  BY <1>0, <1>2 DEF Kept
<1> QED BY <1>1, <1>2

\* A bar that closes joins the history: it still climbs and covers what closed.
LEMMA HistoryGrows ==
  ASSUME CandleInv, current \in CandleBars
  PROVE  LET hist == Kept(Append(history, current))
         IN  /\ hist \in Seq(CandleBars) /\ Len(hist) \in Nat \ {0} /\ Len(hist) <= HistoryCap
             /\ Climbing(hist) /\ Covers(hist, closedBars \union {current.start})
             /\ Last(hist) = current
<1> DEFINE all == Append(history, current)
           n == Len(all) - Len(Kept(all))
<1>0. /\ history \in Seq(CandleBars) /\ Len(history) \in Nat /\ current.start \in Nat /\ HistoryCap \in Nat \ {0}
      /\ \A i \in 1..Len(history) : history[i] \in CandleBars /\ history[i].start \in Nat
  <2>1. \A i \in 1..Len(history) : history[i] \in CandleBars
    <3> HIDE DEF CandleBars
    <3> QED BY DEF CandleInv
  <2>2. \A b \in CandleBars : b.start \in Nat
    BY DEF CandleBars
  <2> QED BY <2>1, <2>2, CandleAssumption DEF CandleInv
<1>1. /\ all \in Seq(CandleBars) /\ Len(all) = Len(history) + 1
      /\ \A i \in 1..Len(history) : all[i] = history[i]
      /\ all[Len(all)] = current
  <2> HIDE DEF CandleBars
  <2> QED BY <1>0
<1> HIDE DEF all
<1>2. \A i \in 1..Len(all) : all[i].start \in Nat
  BY <1>0, <1>1
<1>3. Climbing(all)
  <2>1. \A i \in 1..Len(history) : current.start - history[i].start >= Len(history) + 1 - i
    <3> SUFFICES ASSUME NEW i \in 1..Len(history) PROVE current.start - history[i].start >= Len(history) + 1 - i
      OBVIOUS
    <3> DEFINE l == Len(history)
    <3>1. l \in 1..Len(history) /\ i <= l
      BY <1>0
    <3>2. history[l].start - history[i].start >= l - i
      BY <3>1 DEF CandleInv, Climbing
    <3>3. history[l].start < current.start
      BY <3>1 DEF CandleInv, Covers
    <3>4. history[l].start \in Nat /\ history[i].start \in Nat
      BY <3>1, <1>0
    <3> QED BY SMTT(30), <1>0, <3>1, <3>2, <3>3, <3>4
  <2> SUFFICES ASSUME NEW i \in 1..Len(all), NEW j \in 1..Len(all), i <= j
               PROVE  all[j].start - all[i].start >= j - i
    BY DEF Climbing
  <2>2. CASE j \in 1..Len(history)
    <3>1. i \in 1..Len(history)
      BY <1>0, <2>2
    <3> QED BY <3>1, <2>2, <1>1 DEF CandleInv, Climbing
  <2>3. CASE j = Len(all) /\ i \in 1..Len(history)
    BY <1>1, <2>1, <2>3
  <2>4. CASE j = Len(all) /\ i = j
    BY <1>2, <2>4
  <2> QED BY <1>0, <1>1, <2>2, <2>3, <2>4
<1>4. /\ Kept(all) \in Seq(CandleBars) /\ Len(Kept(all)) \in 1..Len(all) /\ Len(Kept(all)) <= HistoryCap
      /\ n \in Nat /\ (n > 0 => Len(Kept(all)) = HistoryCap)
      /\ \A i \in 1..Len(Kept(all)) : Kept(all)[i] = all[i + n]
  <2>1. all \in Seq(CandleBars) /\ Len(all) > 0
    BY <1>0, <1>1
  <2> QED BY <2>1, KeptBars, Zenon
<1> DEFINE hist == Kept(all)
<1>6. Len(hist) \in Nat \ {0} /\ Len(hist) + n = Len(all) /\ n \in Nat /\ Len(all) \in Nat
  BY <1>0, <1>1, <1>4
<1>12. \A i \in 1..Len(hist) : hist[i] = all[i + n]
  BY <1>4
<1> HIDE DEF hist, n
<1>5. ASSUME NEW i \in 1..Len(hist)
      PROVE  i + n \in 1..Len(all) /\ hist[i] = all[i + n] /\ hist[i].start \in Nat
  <2>1. i + n \in 1..Len(all)
    BY <1>6
  <2>2. all[i + n].start \in Nat
    BY <1>0, <1>1, <1>2, <2>1
  <2> QED BY <1>12, <2>1, <2>2
<1>7. Climbing(hist)
  <2> SUFFICES ASSUME NEW i \in 1..Len(hist), NEW j \in 1..Len(hist), i <= j
               PROVE  hist[j].start - hist[i].start >= j - i
    BY DEF Climbing
  <2>1. all[j + n].start - all[i + n].start >= (j + n) - (i + n)
    BY <1>3, <1>5, <1>6 DEF Climbing
  <2> QED BY <1>5, <1>6, <2>1
<1>8. hist[Len(hist)] = current
  BY <1>1, <1>5, <1>6
<1>9. Last(hist) = current
  BY <1>8 DEF Last
<1>10. ASSUME NEW i \in 1..Len(hist) PROVE hist[i].start \in closedBars \union {current.start}
  <2>1. i + n \in 1..Len(all) /\ hist[i] = all[i + n]
    BY <1>5
  <2>2. CASE i + n \in 1..Len(history)
    <3>1. history[i + n].start \in closedBars
      BY <2>2 DEF CandleInv, Covers
    <3> QED BY <1>1, <2>1, <2>2, <3>1
  <2>3. CASE i + n = Len(all)
    BY <1>1, <2>1, <2>3
  <2> QED BY <1>0, <1>1, <2>1, <2>2, <2>3
<1>11. ASSUME NEW m \in closedBars \union {current.start}
       PROVE  \/ \E i \in 1..Len(hist) : hist[i].start = m
              \/ Len(hist) = HistoryCap /\ m < hist[1].start
  <2>1. CASE m = current.start
    BY <1>6, <1>8, <2>1
  <2>2. CASE m \in closedBars /\ \E k \in 1..Len(history) : history[k].start = m
    <3>1. PICK k \in 1..Len(history) : history[k].start = m
      BY <2>2
    <3>2. k \in 1..Len(all) /\ all[k].start = m /\ k \in Nat
      BY <1>0, <1>1, <3>1
    <3>3. CASE k > n
      <4>1. k - n \in 1..Len(hist) /\ (k - n) + n = k
        BY <1>6, <3>2, <3>3
      <4>2. hist[k - n].start = m
        BY <1>5, <3>2, <4>1
      <4> QED BY <4>1, <4>2
    <3>4. CASE k <= n
      <4>1. 1 \in 1..Len(hist) /\ 1 + n \in 1..Len(all) /\ k <= 1 + n
        BY <1>5, <1>6, <3>2, <3>4
      <4>2. all[1 + n].start - all[k].start >= (1 + n) - k
        BY <1>3, <3>2, <4>1 DEF Climbing
      <4>3. hist[1].start = all[1 + n].start /\ all[1 + n].start \in Nat /\ all[k].start \in Nat
        BY <1>2, <1>5, <3>2, <4>1
      <4>4. m < hist[1].start
        BY <1>6, <3>2, <3>4, <4>2, <4>3
      <4>5. n > 0
        BY <1>6, <3>2, <3>4
      <4> QED BY <1>4, <4>4, <4>5 DEF hist, n
    <3> QED BY <1>6, <3>2, <3>3, <3>4
  <2>3. CASE m \in closedBars /\ Len(history) = HistoryCap /\ m < history[1].start
    <3>1. Len(all) = HistoryCap + 1 /\ n > 0 /\ Len(hist) = HistoryCap
      BY <1>0, <1>1, <1>4, <1>6, <2>3 DEF n, hist
    <3>2. 1 \in 1..Len(all) /\ 1 \in 1..Len(hist) /\ 1 + n \in 1..Len(all) /\ 1 <= 1 + n /\ all[1] = history[1]
      BY <1>0, <1>1, <1>5, <1>6, <2>3
    <3>3. all[1 + n].start - all[1].start >= (1 + n) - 1
      BY <1>3, <3>2 DEF Climbing
    <3>4. hist[1].start = all[1 + n].start /\ all[1 + n].start \in Nat /\ all[1].start \in Nat /\ m \in Nat
      BY <1>2, <1>5, <2>3, <3>2 DEF CandleInv
    <3>5. m < hist[1].start
      BY SMTT(30), <1>6, <2>3, <3>2, <3>3, <3>4
    <3> QED BY <3>1, <3>5
  <2> QED BY <2>1, <2>2, <2>3 DEF CandleInv, Covers
<1> QED BY <1>4, <1>6, <1>7, <1>9, <1>10, <1>11 DEF Covers, hist, all

\* The row of a timeframe that ends: made of every bar that closed in its period.
LEMMA AggregateIsWhole ==
  ASSUME NEW p \in Periods, NEW hist \in Seq(CandleBars), Len(hist) \in Nat \ {0}, Climbing(hist),
         NEW closed \in SUBSET Nat, Covers(hist, closed), \A m \in closed : m <= Last(hist).start,
         ShouldClose(p, Last(hist).start)
  PROVE  LET row == Aggregate(p, hist)
         IN  /\ row.period = p /\ row.start \in Int /\ row.start + p - 1 = Last(hist).start
             /\ p <= HistoryCap => row.of = {m \in closed : row.start <= m /\ m <= row.start + p - 1}
<1> DEFINE m == Last(hist).start
           start == m - (m % p)
           l == Len(hist)
<1>0. p \in Nat \ {0, 1} /\ HistoryCap \in Nat \ {0} /\ l \in Nat \ {0}
  BY CandleAssumption
<1>1. \A i \in 1..l : hist[i].start \in Nat
  <2>1. \A i \in 1..l : hist[i] \in CandleBars
    <3> HIDE DEF CandleBars
    <3> QED OBVIOUS
  <2> QED BY <2>1 DEF CandleBars
<1>2. m = hist[l].start /\ m \in Nat /\ l \in 1..l
  BY <1>0, <1>1 DEF Last
<1>3. m % p = p - 1
  BY DEF ShouldClose
<1>4. start = m - (p - 1) /\ start \in Int /\ start + p - 1 = m
  BY <1>0, <1>2, <1>3
<1> HIDE DEF start, m
<1>5. Aggregate(p, hist) = [period |-> p, start |-> start, of |-> {hist[i].start : i \in {j \in DOMAIN hist : hist[j].start >= start}}]
  BY DEF Aggregate, start, m
<1> DEFINE of == {hist[i].start : i \in {j \in DOMAIN hist : hist[j].start >= start}}
<1>6. DOMAIN hist = 1..l
  OBVIOUS
<1>7. ASSUME p <= HistoryCap PROVE of = {k \in closed : start <= k /\ k <= start + p - 1}
  <2>1. ASSUME NEW k \in of PROVE k \in closed /\ start <= k /\ k <= start + p - 1
    <3>1. PICK i \in 1..l : k = hist[i].start /\ hist[i].start >= start
      BY <1>6
    <3>2. k \in closed
      BY <3>1 DEF Covers
    <3> QED BY <1>4, <3>1, <3>2 DEF m
  <2>2. ASSUME NEW k \in closed, start <= k, k <= start + p - 1 PROVE k \in of
    <3>1. CASE \E i \in 1..l : hist[i].start = k
      BY <1>6, <2>2, <3>1
    <3>2. CASE l = HistoryCap /\ k < hist[1].start
      <4>1. 1 \in 1..l /\ 1 <= l
        BY <1>0
      <4>2. hist[l].start - hist[1].start >= l - 1
        BY <4>1, <1>2 DEF Climbing
      <4> QED BY <1>0, <1>1, <1>2, <1>4, <1>7, <2>2, <3>2, <4>1, <4>2
    <3> QED BY <3>1, <3>2 DEF Covers
  <2> QED BY <2>1, <2>2
<1> HIDE DEF of
<1> QED BY <1>4, <1>5, <1>7 DEF of, m

\* A tick after the bar: what it stores is whole, and what was stored stays so.
LEMMA AfterBarKeeps == ASSUME CandleInv, NEW m \in Minutes, TickAfterBar(m) PROVE CandleInv'
<1> DEFINE hist == Kept(Append(history, current))
           closed == closedBars \union {current.start}
           minute == [period |-> 1, start |-> current.start, of |-> {current.start}]
           higher == {Aggregate(p, hist) : p \in {q \in Periods : ShouldClose(q, current.start)}}
<1>1. /\ history' = hist /\ closedBars' = closed /\ current' = Bar(m)
      /\ stored' \in {Upsert(stored, higher \union {minute}), stored}
      /\ current \in CandleBars /\ m > current.start /\ m \in Nat /\ m <= MaxMinute
  BY CandleAssumption DEF TickAfterBar, CloseBar, CandleInv, Minutes
<1>2. current.start \in Nat
  BY <1>1 DEF CandleBars
<1>3. /\ hist \in Seq(CandleBars) /\ Len(hist) \in Nat \ {0} /\ Len(hist) <= HistoryCap
      /\ Climbing(hist) /\ Covers(hist, closed) /\ Last(hist) = current
  BY <1>1, HistoryGrows
<1> HIDE DEF hist
<1>4. closed \in SUBSET Nat /\ (\A k \in closed : k <= current.start) /\ \A k \in closed : k < m
  <2>1. closedBars \subseteq Nat /\ \A k \in closedBars : k < current.start
    BY DEF CandleInv
  <2>2. \A k \in closed : k \in Nat /\ k <= current.start
    BY <1>2, <2>1
  <2> QED BY <1>1, <1>2, <2>2
<1>5. current' \in CandleBars /\ current'.start = m
  BY <1>1 DEF Bar, CandleBars
<1> DEFINE Whole(r) == /\ r.start \in Int /\ r.start + r.period - 1 \in closed
                       /\ r.period <= HistoryCap =>
                            r.of = {k \in closed : r.start <= k /\ k <= r.start + r.period - 1}
<1>6. ASSUME NEW r \in stored, r.period \in Periods PROVE Whole(r)
  <2>1. r.start \in Int /\ r.start + r.period - 1 \in closedBars
    BY <1>6 DEF CandleInv
  <2>2. r.period <= HistoryCap => r.of = {k \in closedBars : r.start <= k /\ k <= r.start + r.period - 1}
    BY <1>6 DEF CandleInv, HigherBarsWhole, BarsBetween
  <2>3. r.start + r.period - 1 < current.start /\ r.start + r.period - 1 \in Nat
    BY <2>1 DEF CandleInv
  <2> QED BY <1>2, <2>1, <2>2, <2>3
<1>7. ASSUME NEW r \in higher PROVE Whole(r)
  <2>1. PICK p \in Periods : r = Aggregate(p, hist) /\ ShouldClose(p, current.start)
    OBVIOUS
  <2>2. /\ r.period = p /\ r.start \in Int /\ r.start + p - 1 = Last(hist).start
        /\ p <= HistoryCap => r.of = {k \in closed : r.start <= k /\ k <= r.start + p - 1}
    BY <1>3, <1>4, <2>1, AggregateIsWhole
  <2>3. Last(hist).start \in closed
    BY <1>3
  <2> QED BY <2>2, <2>3
<1>8. \A r \in stored' : r.period \in Periods => Whole(r)
  <2>1. minute.period = 1 /\ 1 \notin Periods
    BY CandleAssumption
  <2> HIDE DEF Whole, higher, minute
  <2>2. \A r \in stored' : r \in stored \/ r \in higher \/ r = minute
    BY <1>1 DEF Upsert
  <2> QED BY <2>1, <2>2, <1>6, <1>7
<1>9. HigherBarsWhole' /\ \A r \in stored' : r.period \in Periods => r.start \in Int /\ r.start + r.period - 1 \in closedBars'
  BY <1>1, <1>8 DEF HigherBarsWhole, BarsBetween
<1>10. closedBars' \subseteq Nat /\ \A k \in closedBars' : k < current'.start
  BY <1>1, <1>4, <1>5
<1>11. history' \in Seq(CandleBars) /\ Len(history') <= HistoryCap /\ Climbing(history') /\ Covers(history', closedBars')
  BY <1>1, <1>3
<1>12. current'.start <= MaxMinute
  BY <1>1, <1>5
<1> HIDE DEF closed, higher, minute, Whole
<1> QED BY <1>5, <1>9, <1>10, <1>11, <1>12 DEF CandleInv, Climbing, Covers

\* The ticks that close no bar leave what is stored alone.
LEMMA CandleKept == CandleInv /\ [CandleNext]_candleVars => CandleInv'
<1> SUFFICES ASSUME CandleInv, [CandleNext]_candleVars PROVE CandleInv'
  OBVIOUS
<1>1. ASSUME NEW m \in Minutes, FirstTick(m) PROVE CandleInv'
  <2>1. /\ current = NoBar /\ current' = Bar(m) /\ UNCHANGED <<history, stored, closedBars>>
        /\ m \in Nat /\ m <= MaxMinute
    BY <1>1, CandleAssumption DEF FirstTick, Minutes
  <2>2. current' \in CandleBars /\ current'.start = m
    BY <2>1 DEF Bar, CandleBars
  <2>3. current.start = MaxMinute + 1 /\ MaxMinute \in Nat
    BY <2>1, CandleAssumption DEF NoBar
  <2>4. closedBars = {}
    BY <2>1, <2>3 DEF CandleInv
  <2> QED BY <2>1, <2>2, <2>4 DEF CandleInv, Climbing, Covers, HigherBarsWhole, BarsBetween
<1>2. ASSUME NEW m \in Minutes, TickInBar(m) PROVE CandleInv'
  <2>1. /\ current \in CandleBars /\ current' = [current EXCEPT !.late = @ \/ m < current.start]
        /\ UNCHANGED <<history, stored, closedBars>>
    BY <1>2 DEF TickInBar, CandleInv
  <2>2. current' \in CandleBars /\ current'.start = current.start
    <3>1. (current.late \/ m < current.start) \in BOOLEAN
      BY <2>1 DEF CandleBars
    <3> QED BY <2>1, <3>1 DEF CandleBars
  <2>3. HigherBarsWhole' /\ Climbing(history)' /\ Covers(history, closedBars)'
    BY <2>1 DEF CandleInv, Climbing, Covers, HigherBarsWhole, BarsBetween
  <2>4. current.start <= MaxMinute \/ current = NoBar
    BY DEF CandleInv
  <2>5. current.start <= MaxMinute
    BY <1>2, <2>4 DEF TickInBar
  <2> HIDE DEF CandleBars
  <2> QED BY <2>1, <2>2, <2>3, <2>5 DEF CandleInv
<1>3. ASSUME NEW m \in Minutes, TickAfterBar(m) PROVE CandleInv'
  BY <1>3, AfterBarKeeps
<1>4. CASE UNCHANGED candleVars
  BY <1>4 DEF candleVars, CandleInv, Climbing, Covers, HigherBarsWhole, BarsBetween
<1> QED BY <1>1, <1>2, <1>3, <1>4 DEF CandleNext

\* No bar has closed at first.
LEMMA CandleStarts == CandleInit => CandleInv
<1> SUFFICES ASSUME CandleInit PROVE CandleInv
  OBVIOUS
<1>1. history \in Seq(CandleBars) /\ Len(history) = 0 /\ closedBars = {} /\ stored = {} /\ current = NoBar
  BY DEF CandleInit
<1>2. HigherBarsWhole
  BY <1>1 DEF HigherBarsWhole
<1>3. Climbing(history) /\ Covers(history, closedBars)
  BY <1>1 DEF Climbing, Covers
<1>4. NoBar.start \in Nat /\ HistoryCap \in Nat \ {0}
  BY CandleAssumption DEF NoBar
<1> QED BY <1>1, <1>2, <1>3, <1>4 DEF CandleInv

\* A higher bar within the reach of the history is made of every one-minute bar that closed
\* in its period, for any timeframes and any length of the history.
THEOREM HigherBarsAreWhole == CandleSpec => []HigherBarsWhole
<1>1. CandleInv => HigherBarsWhole
  BY DEF CandleInv
<1> QED BY <1>1, CandleStarts, CandleKept, PTL DEF CandleSpec


\* The rows are of the timeframes, and of minutes that the clock can reach.
RowsTyped == \A r \in stored : r.period \in Periods \union {1} /\ r.of \subseteq Minutes

\* What is aggregated is of closed minutes.
LEMMA AggregateTyped ==
  ASSUME NEW p \in Periods, NEW hist, NEW closed, Covers(hist, closed), DOMAIN hist = 1..Len(hist)
  PROVE  Aggregate(p, hist).period = p /\ Aggregate(p, hist).of \subseteq closed
<1> DEFINE start == Last(hist).start - (Last(hist).start % p)
           of == {hist[i].start : i \in {j \in DOMAIN hist : hist[j].start >= start}}
<1>1. Aggregate(p, hist) = [period |-> p, start |-> start, of |-> of]
  BY DEF Aggregate
<1>2. of \subseteq closed
  BY DEF Covers
<1> HIDE DEF start, of
<1> QED BY <1>1, <1>2

LEMMA RowsKept == CandleInv /\ RowsTyped /\ [CandleNext]_candleVars => RowsTyped'
<1> SUFFICES ASSUME CandleInv, RowsTyped, [CandleNext]_candleVars PROVE RowsTyped'
  OBVIOUS
<1>1. CASE UNCHANGED stored
  BY <1>1 DEF RowsTyped
<1>2. ASSUME NEW m \in Minutes, TickAfterBar(m) PROVE RowsTyped'
  <2> DEFINE hist == Kept(Append(history, current))
             closed == closedBars \union {current.start}
             minute == [period |-> 1, start |-> current.start, of |-> {current.start}]
             higher == {Aggregate(p, hist) : p \in {q \in Periods : ShouldClose(q, current.start)}}
  <2>1. /\ stored' \in {Upsert(stored, higher \union {minute}), stored}
        /\ current \in CandleBars /\ current.start <= MaxMinute
    BY <1>2 DEF TickAfterBar, CloseBar, CandleInv
  <2>2. closed \subseteq Minutes
    <3>1. current.start \in Nat /\ MaxMinute \in Nat
      BY <2>1, CandleAssumption DEF CandleBars
    <3>2. \A k \in closedBars : k \in Nat /\ k < current.start
      BY DEF CandleInv
    <3> QED BY <2>1, <3>1, <3>2 DEF Minutes
  <2>3. hist \in Seq(CandleBars) /\ Covers(hist, closed)
    BY <2>1, HistoryGrows
  <2>4. DOMAIN hist = 1..Len(hist)
    BY <2>3
  <2> HIDE DEF hist
  <2>5. ASSUME NEW r \in higher PROVE r.period \in Periods /\ r.of \subseteq Minutes
    <3>1. PICK p \in Periods : r = Aggregate(p, hist)
      OBVIOUS
    <3> QED BY <2>2, <2>3, <2>4, <3>1, AggregateTyped
  <2>6. minute.period = 1 /\ minute.of \subseteq Minutes
    BY <2>2
  <2> HIDE DEF higher, minute
  <2>7. \A r \in stored' : r \in stored \/ r \in higher \/ r = minute
    BY <2>1 DEF Upsert
  <2> QED BY <2>5, <2>6, <2>7 DEF RowsTyped
<1>3. UNCHANGED stored \/ \E m \in Minutes : TickAfterBar(m)
  BY DEF CandleNext, candleVars, FirstTick, TickInBar
<1> QED BY <1>1, <1>2, <1>3

\* Type correctness of the candle pipeline: a bar of the clock, a bounded history, rows of its timeframes.
THEOREM CandleTypeCorrect == CandleSpec => []CandleTypeOK
<1>1. CandleInit => RowsTyped
  BY DEF CandleInit, RowsTyped
<1>2. CandleInv /\ RowsTyped => CandleTypeOK
  BY CandleAssumption DEF CandleInv, RowsTyped, CandleTypeOK, CandleBars, Minutes
<1>3. CandleInit => CandleInv
  BY CandleStarts
<1> QED BY <1>1, <1>2, <1>3, CandleKept, RowsKept, PTL DEF CandleSpec

-----------------------------------------------------------------------------
(* Numbers that are bounded. *)

\* A set of numbers with a bound has a greatest.
LEMMA Greatest ==
  ASSUME NEW T, T \subseteq Int, T # {}, NEW b \in Int, \A y \in T : y <= b
  PROVE  Max(T) \in T /\ \A y \in T : Max(T) >= y
<1> DEFINE D == {b - y : y \in T}
<1>1. D \subseteq Nat /\ D # {}
  <2>1. \A y \in T : b - y \in Nat
    OBVIOUS
  <2>2. \E y \in T : b - y \in D
    OBVIOUS
  <2> QED BY <2>1, <2>2
<1>2. PICK d \in D : \A e \in D : d <= e
  BY <1>1, Least
<1>3. PICK x \in T : d = b - x
  BY <1>2
<1>4. \A y \in T : x >= y
  <2> TAKE y \in T
  <2>1. b - y \in D
    OBVIOUS
  <2> HIDE DEF D
  <2> QED BY <1>2, <1>3, <2>1
<1> QED BY <1>3, <1>4 DEF Max

LEMMA Smallest ==
  ASSUME NEW T, T \subseteq Int, T # {}, NEW b \in Int, \A y \in T : y >= b
  PROVE  Min(T) \in T /\ \A y \in T : Min(T) <= y
<1> DEFINE D == {y - b : y \in T}
<1>1. D \subseteq Nat /\ D # {}
  <2>1. \A y \in T : y - b \in Nat
    OBVIOUS
  <2>2. \E y \in T : y - b \in D
    OBVIOUS
  <2> QED BY <2>1, <2>2
<1>2. PICK d \in D : \A e \in D : d <= e
  BY <1>1, Least
<1>3. PICK x \in T : d = x - b
  BY <1>2
<1>4. \A y \in T : x <= y
  <2> TAKE y \in T
  <2>1. y - b \in D
    OBVIOUS
  <2> HIDE DEF D
  <2> QED BY <1>2, <1>3, <2>1
<1> QED BY <1>3, <1>4 DEF Min

\* A poll lies in its period, and the periods follow one another.
LEMMA PeriodFacts ==
  /\ BarPolls \in Nat \ {0}
  /\ \A t \in Int : /\ Period(t) \in Int
                    /\ Opening(Period(t)) <= t /\ t < Closing(Period(t))
  /\ \A p \in Int : /\ Opening(p) \in Int /\ Closing(p) \in Int
                    /\ Closing(p) = Opening(p) + BarPolls
                    /\ Closing(p) = Opening(p + 1)
  /\ \A p, q \in Int : p < q => Closing(p) <= Opening(q)
<1>1. PICK n \in Nat \ {0} : n = BarPolls
  BY FeedAssumption
<1>2. ASSUME NEW t \in Int
      PROVE  t \div n \in Int /\ (t \div n) * n <= t /\ t < ((t \div n) + 1) * n
  <2>1. t \div n \in Int
    BY Z3
  <2>2. PICK q \in Int : q = t \div n
    BY <2>1
  <2>3. q * n <= t /\ t < (q + 1) * n
    BY <2>2, Z3
  <2> QED BY <2>1, <2>2, <2>3
<1>3. ASSUME NEW p \in Int
      PROVE  p * n \in Int /\ (p + 1) * n \in Int /\ (p + 1) * n = p * n + n
  BY Z3
<1>4. ASSUME NEW p \in Int, NEW q \in Int, p < q
      PROVE  (p + 1) * n <= q * n
  BY <1>4, Z3
<1> QED BY <1>1, <1>2, <1>3, <1>4 DEF Period, Opening, Closing

-----------------------------------------------------------------------------
(* The feed. *)

FeedInv ==
  /\ polls \in Nat /\ polls <= MaxPolls /\ samples \subseteq 0..polls
  /\ supply \in [coins : {"none", "empty", "some"}, age : 0..SupplyMaxAge]
  /\ answered \in [Perpetual -> Nat]

LEMMA OlderTyped ==
  ASSUME NEW s \in [coins : {"none", "empty", "some"}, age : 0..SupplyMaxAge]
  PROVE  Older(s) \in [coins : {"none", "empty", "some"}, age : 0..SupplyMaxAge]
<1>1. SupplyMaxAge \in Nat
  BY FeedAssumption
<1>2. PICK c \in {"none", "empty", "some"}, a \in 0..SupplyMaxAge : s = [coins |-> c, age |-> a]
  OBVIOUS
<1>3. Older(s) = [coins |-> c, age |-> IF a < SupplyMaxAge THEN a + 1 ELSE a]
  BY <1>2 DEF Older
<1> QED BY <1>1, <1>3

LEMMA FeedInvStep == FeedInv /\ [FeedNext]_feedVars => FeedInv'
<1> SUFFICES ASSUME FeedInv, [FeedNext]_feedVars PROVE FeedInv'
  OBVIOUS
<1>0. MaxPolls \in Nat /\ SupplyMaxAge \in Nat /\ PageAnswers \subseteq [Perpetual -> Nat]
  BY FeedAssumption
<1>1. CASE FeedNext
  <2>1. polls' \in Nat /\ polls' <= MaxPolls /\ polls' = polls + 1
    BY <1>0, <1>1 DEF FeedNext, FeedInv
  <2>2. answered' \in [Perpetual -> Nat]
    BY <1>0, <1>1 DEF FeedNext
  <2>3. samples' \subseteq samples \union {polls'}
    BY <1>1 DEF FeedNext, Collect, Pass, Samples
  <2>4. samples' \subseteq 0..polls'
    BY <2>1, <2>3 DEF FeedInv
  <2>5. Older(supply) \in [coins : {"none", "empty", "some"}, age : 0..SupplyMaxAge]
    BY OlderTyped DEF FeedInv
  <2>6. supply' \in [coins : {"none", "empty", "some"}, age : 0..SupplyMaxAge]
    <3>1. CASE Pass
      BY <2>5, <3>1 DEF Pass
    <3>2. CASE Collect
      <4>1. PICK gecko \in {"down", "empty", "some"}, binance \in BOOLEAN :
              supply' = Supplies(Older(supply), gecko, binance)
        BY <3>2 DEF Collect
      <4>2. \/ supply' = Older(supply)
            \/ gecko # "down" /\ supply' = [coins |-> gecko, age |-> 0]
        BY <4>1 DEF Supplies
      <4> QED BY <1>0, <2>5, <4>2
    <3> QED BY <1>1, <3>1, <3>2 DEF FeedNext
  <2> QED BY <2>1, <2>2, <2>4, <2>6 DEF FeedInv
<1>2. CASE UNCHANGED feedVars
  BY <1>2 DEF feedVars, FeedInv
<1> QED BY <1>1, <1>2

LEMMA FeedInvHolds == FeedSpec => []FeedInv
<1>1. FeedInit => FeedInv
  <2>1. MaxPolls \in Nat /\ SupplyMaxAge \in Nat /\ PageAnswers \subseteq [Perpetual -> Nat]
    BY FeedAssumption
  <2> QED BY <2>1 DEF FeedInit, FeedInv
<1> QED BY <1>1, FeedInvStep, PTL DEF FeedSpec

\* Type correctness of the collector's files and the venue's pages.
THEOREM FeedTypeCorrect == FeedSpec => []FeedTypeOK
<1>1. FeedInv => FeedTypeOK
  <2>1. MaxPolls \in Nat
    BY FeedAssumption
  <2> QED BY <2>1 DEF FeedInv, FeedTypeOK
<1> QED BY <1>1, FeedInvHolds, PTL

\* The bars that the samples make are those up to now, and each has its samples.
LEMMA BarsFacts ==
  ASSUME FeedInv
  PROVE  /\ Bars \subseteq Int /\ \A p \in Bars : p <= Period(polls)
         /\ Bars # {} => Max(Bars) \in Bars /\ \A p \in Bars : Max(Bars) >= p
         /\ samples \subseteq Int /\ (samples # {} => Max(samples) \in samples /\ \A t \in samples : Max(samples) >= t)
<1>1. polls \in Int /\ samples \subseteq Int /\ \A t \in samples : t <= polls
  BY DEF FeedInv
<1>2. \A t \in samples : Period(t) \in Int /\ Period(t) <= Period(polls)
  <2> TAKE t \in samples
  <2>1. Period(t) \in Int /\ Period(polls) \in Int /\ t \in Int /\ t <= polls
    BY <1>1, PeriodFacts
  <2> PICK p \in Int, q \in Int : p = Period(t) /\ q = Period(polls)
    BY <2>1
  <2>2. Opening(p) <= t /\ polls < Closing(q)
    BY <1>1, <2>1, PeriodFacts
  <2>3. CASE q < p
    <3>1. Closing(q) <= Opening(p)
      BY <2>3, PeriodFacts
    <3>2. Closing(q) \in Int /\ Opening(p) \in Int
      BY PeriodFacts
    <3> QED BY <1>1, <2>1, <2>2, <3>1, <3>2
  <2> QED BY <2>1, <2>3
<1>3. Bars \subseteq Int /\ \A p \in Bars : p <= Period(polls)
  BY <1>2 DEF Bars
<1>4. Period(polls) \in Int
  BY <1>1, PeriodFacts
<1>5. Bars # {} => Max(Bars) \in Bars /\ \A p \in Bars : Max(Bars) >= p
  BY <1>3, <1>4, Greatest
<1>6. samples # {} => Max(samples) \in samples /\ \A t \in samples : Max(samples) >= t
  BY <1>1, Greatest
<1> QED BY <1>1, <1>3, <1>5, <1>6

\* What is served is what a later bar follows, within the horizon.
LEMMA ServedFacts ==
  ASSUME FeedInv
  PROVE  \A p : p \in Served <=> p \in Bars /\ InHorizon(p) /\ \E q \in Bars : q > p
<1>1. CASE Bars = {}
  BY <1>1 DEF Served
<1>2. CASE Bars # {}
  <2> PICK m : m = Max(Bars)
    OBVIOUS
  <2>1. Bars \subseteq Int /\ m \in Bars /\ m \in Int /\ \A p \in Bars : m >= p
    BY <1>2, BarsFacts
  <2>2. samples # {} /\ samples \subseteq Int
    BY <1>2, BarsFacts DEF Bars
  <2> PICK s : s = Max(samples)
    OBVIOUS
  <2>3. s \in samples /\ s \in Int
    BY <2>2, BarsFacts
  <2>4. s < Closing(m)
    <3> PICK p \in Int : p = Period(s)
      BY <2>3, PeriodFacts
    <3>1. p \in Bars
      BY <2>3 DEF Bars
    <3>2. p <= m
      BY <2>1, <3>1
    <3>3. s < Closing(p) /\ Closing(p) \in Int /\ Closing(m) \in Int
      BY <2>1, <2>3, PeriodFacts
    <3>4. Closing(p) <= Closing(m)
      <4>1. CASE p = m
        BY <4>1, <3>3
      <4>2. CASE p < m
        <5>1. Closing(p) <= Opening(m) /\ Closing(m) = Opening(m) + BarPolls /\ Opening(m) \in Int /\ BarPolls \in Nat
          BY <2>1, <4>2, PeriodFacts
        <5> QED BY <5>1, <3>3
      <4> QED BY <2>1, <3>2, <4>1, <4>2
    <3> QED BY <2>3, <3>3, <3>4
  <2>5. DropPartial(Bars) = Bars \ {m}
    BY <2>4 DEF DropPartial
  <2>6. \A p \in Bars : p # m <=> \E q \in Bars : q > p
    BY <2>1
  <2> QED BY <1>2, <2>5, <2>6 DEF Served
<1> QED BY <1>1, <1>2
\* So it stays while the horizon reaches it.
ServedWhen == \A r : r \in Served <=> r \in Bars /\ InHorizon(r) /\ \E q \in Bars : q > r

\* A synthetic bar is final when it is served, for any bar length and horizon, whatever the
\* hosts answer and however long the collector is out (market_data/sources/dominance.py,
\* _bars_with_samples).
THEOREM ServedIsFinal == FeedSpec => BarsFinal
<1>1. FeedInv /\ ServedWhen /\ ServedWhen' /\ [FeedNext]_feedVars =>
        [\A p \in Served : (p \in Served' /\ Content(p)' = Content(p)) \/ ~InHorizon(p)']_feedVars
  <2> SUFFICES ASSUME FeedInv, ServedWhen, ServedWhen', FeedNext, NEW p \in Served, InHorizon(p)'
               PROVE  p \in Served' /\ Content(p)' = Content(p)
    OBVIOUS
  <2>1. (\A r : r \in Served <=> r \in Bars /\ InHorizon(r) /\ \E q \in Bars : q > r)'
    BY DEF ServedWhen
  <2>2. samples \subseteq samples' /\ samples' \subseteq samples \union {polls + 1}
    BY DEF FeedNext, Collect, Pass, Samples
  <2>3. Bars \subseteq Bars'
    BY <2>2 DEF Bars, Period
  <2>4. p \in Bars /\ InHorizon(p) /\ \E q \in Bars : q > p
    BY DEF ServedWhen
  <2>5. p \in Served'
    BY <2>1, <2>3, <2>4
  <2>6. Period(polls + 1) # p
    <3>1. PICK q \in Bars : q > p
      BY <2>4
    <3>2. PICK t \in samples : q = Period(t)
      BY <3>1 DEF Bars
    <3>3. t \in Int /\ polls \in Int /\ t <= polls
      BY DEF FeedInv
    <3>4. p \in Int /\ q \in Int
      BY <2>4, BarsFacts
    <3>5. Closing(p) <= Opening(q) /\ Opening(q) <= t
      BY <3>1, <3>2, <3>3, <3>4, PeriodFacts
    <3>6. Period(polls + 1) = p => polls + 1 < Closing(p)
      BY <3>3, PeriodFacts
    <3>7. Closing(p) \in Int /\ Opening(q) \in Int
      BY <3>4, PeriodFacts
    <3> QED BY <3>3, <3>5, <3>6, <3>7
  <2>7. Content(p)' = Content(p)
    <3>1. \A t : Period(t)' = Period(t)
      BY DEF Period
    <3> QED BY <2>2, <2>6, <3>1 DEF Content
  <2> QED BY <2>5, <2>7
<1>2. FeedInv => ServedWhen
  BY ServedFacts DEF ServedWhen
<1> QED BY <1>1, <1>2, FeedInvHolds, PTL DEF FeedSpec, BarsFinal

-----------------------------------------------------------------------------
(* The monitors. *)

\* A panel whose newest bar closed within a bar of now is neither down nor stale.
LEMMA FreshPanel ==
  ASSUME NEW a, NEW n \in Int, FeedInv, n \in Frame(a), \A p \in Frame(a) : p \in Int /\ p <= n,
         polls - Closing(n) < BarPolls
  PROVE  Max(Frame(a)) = n /\ ~Down(a) /\ ~Stale(a)
<1>1. Max(Frame(a)) = n
  <2>1. Max(Frame(a)) \in Frame(a) /\ \A p \in Frame(a) : Max(Frame(a)) >= p
    <3> PICK T : T = Frame(a)
      OBVIOUS
    <3>1. T \subseteq Int /\ T # {} /\ \A y \in T : y <= n
      OBVIOUS
    <3>2. Max(T) \in T /\ \A y \in T : Max(T) >= y
      BY <3>1, Greatest
    <3> QED BY <3>2
  <2>2. Max(Frame(a)) \in Int /\ Max(Frame(a)) <= n /\ Max(Frame(a)) >= n
    BY <2>1
  <2> QED BY <2>2
<1>2. \A k \in Nat \ {0} : BarPolls <= k * BarPolls
  <2> PICK w \in Nat \ {0} : w = BarPolls
    BY PeriodFacts
  <2>1. \A k \in Nat \ {0} : w <= k * w
    BY Z3
  <2> QED BY <2>1
<1>3. PanelStale \in Nat \ {0} /\ PanelDown \in Nat \ {0}
  BY FeedAssumption
<1>4. BarPolls <= PanelStale * BarPolls /\ BarPolls <= PanelDown * BarPolls
  BY <1>2, <1>3
<1>5. PanelStale * BarPolls \in Int /\ PanelDown * BarPolls \in Int /\ Age(a) \in Int /\ BarPolls \in Int
  BY <1>1, <1>3, PeriodFacts DEF Age, FeedInv
<1>6. Age(a) < BarPolls
  BY <1>1 DEF Age
<1> QED BY <1>1, <1>4, <1>5, <1>6 DEF Down, Stale
\* Healthy panels have been sampled lately.
LEMMA HealthyIsFed ==
  ASSUME FeedInv, PanelStatus = "healthy"
  PROVE  /\ LayoutReadable /\ CollectorStatus # "down"
         /\ \E t \in samples : polls - t < PanelStale * BarPolls
<1>1. DownOrAbsent = {} /\ \A a \in Present : ~Stale(a) /\ ~Thin(a)
  BY DEF PanelStatus
<1>2. Missing = {} /\ \A a \in Present : ~Down(a)
  BY <1>1 DEF DownOrAbsent
<1>3. LayoutReadable
  BY <1>1, <1>2 DEF LayoutReadable
<1>4. "TOTAL" \in Present /\ Frame("TOTAL") # {} /\ Frame("TOTAL") = Served
  BY <1>2 DEF Missing, Present, Roster, Synthetic, Frame
<1> PICK m : m = Max(Served)
  OBVIOUS
<1>5. Served \subseteq Int /\ \A p \in Served : p <= Period(polls)
  BY ServedFacts, BarsFacts
<1>6. polls \in Int /\ Period(polls) \in Int
  BY PeriodFacts DEF FeedInv
<1>7. m \in Served /\ m \in Int
  BY <1>4, <1>5, <1>6, Greatest
<1>8. ~(polls - Closing(m) >= PanelStale * BarPolls)
  BY <1>1, <1>2, <1>4 DEF Stale, Age
<1>9. PICK q \in Bars : q > m
  BY <1>7, ServedFacts
<1>10. PICK t \in samples : q = Period(t)
  BY <1>9 DEF Bars
<1>11. t \in Int /\ q \in Int
  BY <1>9, BarsFacts
<1>12. t >= Closing(m)
  <2>1. Closing(m) <= Opening(q) /\ Opening(q) <= t
    BY <1>7, <1>9, <1>10, <1>11, PeriodFacts
  <2>2. Closing(m) \in Int /\ Opening(q) \in Int
    BY <1>7, <1>11, PeriodFacts
  <2> QED BY <1>11, <2>1, <2>2
<1>13. PanelStale * BarPolls \in Int /\ PanelStale * BarPolls <= CollectorDown /\ CollectorDown \in Nat
  <2>1. PICK k \in Nat \ {0}, w \in Nat \ {0} : k = PanelStale /\ w = BarPolls
    BY FeedAssumption
  <2>2. k * w \in Int
    BY <2>1
  <2> QED BY <2>1, <2>2, FeedAssumption
<1>14. polls - t < PanelStale * BarPolls
  <2>1. Closing(m) \in Int
    BY <1>7, PeriodFacts
  <2> HIDE DEF Closing
  <2> QED BY <2>1, <1>6, <1>8, <1>11, <1>12, <1>13
<1>15. CollectorStatus # "down"
  <2>1. samples # {} /\ Max(samples) \in Int /\ Max(samples) >= t
    BY BarsFacts
  <2>2. ~(polls - Max(samples) > CollectorDown)
    BY <2>1, <1>6, <1>11, <1>13, <1>14
  <2> QED BY <2>1, <2>2 DEF CollectorStatus
<1> QED BY <1>3, <1>14, <1>15

\* The last bar that closed is served whole when no poll of two bars was missed.
LEMMA FedIsHealthy ==
  ASSUME FeedInv, polls >= 2 * BarPolls, ((polls - 2 * BarPolls + 1)..polls) \subseteq samples,
         \A a \in Perpetual : answered[a] * PageBars >= HorizonBars
  PROVE  PanelStatus = "healthy"
<1> PICK w \in Nat \ {0} : w = BarPolls
  BY PeriodFacts
<1>1. polls \in Int /\ samples \subseteq Int /\ \A t \in samples : t <= polls
  BY DEF FeedInv
<1> PICK n \in Int : n = Period(polls)
  BY <1>1, PeriodFacts
<1> PICK o \in Int, c \in Int : o = Opening(n) /\ c = Closing(n)
  BY PeriodFacts
<1>2. o <= polls /\ polls < c /\ c = o + w
  BY <1>1, PeriodFacts
<1>3. Closing(n - 1) = o /\ Opening(n - 1) = o - w
  <2>1. n - 1 \in Int /\ n - 1 + 1 = n
    OBVIOUS
  <2>2. Closing(n - 1) = Opening(n)
    BY <2>1, PeriodFacts
  <2>3. Closing(n - 1) = Opening(n - 1) + w /\ Opening(n - 1) \in Int
    BY <2>1, PeriodFacts
  <2> QED BY <2>2, <2>3
<1>4. Content(n - 1) = (o - w)..(o - 1)
  <2>1. ASSUME NEW t \in Content(n - 1) PROVE t \in (o - w)..(o - 1)
    <3>1. t \in Int /\ Period(t) = n - 1
      BY <2>1, <1>1 DEF Content
    <3>2. Opening(n - 1) <= t /\ t < Closing(n - 1)
      BY <3>1, PeriodFacts
    <3> QED BY <3>1, <3>2, <1>3
  <2>2. ASSUME NEW t \in (o - w)..(o - 1) PROVE t \in Content(n - 1)
    <3>1. t \in (polls - 2 * BarPolls + 1)..polls
      BY <1>1, <1>2
    <3>2. t \in samples
      BY <3>1
    <3> PICK p \in Int : p = Period(t)
      BY PeriodFacts
    <3>3. Opening(p) <= t /\ t < Closing(p) /\ Opening(p) \in Int /\ Closing(p) \in Int
      BY PeriodFacts
    <3>4. ~(p < n - 1)
      <4>1. p < n - 1 => Closing(p) <= Opening(n - 1)
        BY PeriodFacts
      <4> QED BY <4>1, <3>3, <1>3
    <3>5. ~(n - 1 < p)
      <4>1. n - 1 < p => Closing(n - 1) <= Opening(p)
        BY PeriodFacts
      <4> QED BY <4>1, <3>3, <1>3
    <3> QED BY <3>2, <3>4, <3>5 DEF Content
  <2> QED BY <2>1, <2>2
<1>5. polls \in samples /\ (o - w) \in Content(n - 1)
  <2>1. polls \in (polls - 2 * BarPolls + 1)..polls
    BY <1>1
  <2> QED BY <2>1, <1>4
<1>6. n \in Bars /\ n - 1 \in Bars
  BY <1>5 DEF Bars, Content
<1>7. \A k \in Nat \ {0, 1} : 2 * w <= k * w
  BY Z3
<1>8. HorizonBars \in Nat \ {0, 1} /\ MinSamples \in 0..w
  BY FeedAssumption
<1>9. InHorizon(n - 1) /\ HorizonBars * w \in Int
  <2> PICK h \in Nat \ {0, 1} : h = HorizonBars
    BY <1>8
  <2>1. 2 * w <= h * w /\ h * w \in Int
    BY <1>7
  <2>2. o - w >= polls - h * w
    BY <2>1, <1>1, <1>2
  <2> QED BY <2>1, <2>2, <1>3 DEF InHorizon
<1>10. n - 1 \in Served /\ \A p \in Served : p \in Int /\ p <= n - 1
  <2>1. \A p \in Bars : p \in Int /\ p <= n
    BY BarsFacts
  <2>2. n - 1 \in Bars /\ InHorizon(n - 1) /\ \E q \in Bars : q > n - 1
    BY <1>6, <1>9
  <2>3. n - 1 \in Served
    BY <2>2, ServedFacts
  <2>4. ASSUME NEW p \in Served PROVE p \in Int /\ p <= n - 1
    <3>1. p \in Bars /\ \E q \in Bars : q > p
      BY <2>4, ServedFacts
    <3> QED BY <3>1, <2>1
  <2> QED BY <2>3, <2>4
<1>11. ASSUME NEW a \in Perpetual
       PROVE  n - 1 \in Frame(a) /\ \A p \in Frame(a) : p \in Int /\ p <= n - 1
  <2> PICK h \in Nat \ {0, 1} : h = HorizonBars
    BY <1>8
  <2> PICK g \in Nat, z \in Nat \ {0} : g = answered[a] /\ z = PageBars
    BY FeedAssumption DEF FeedInv
  <2>1. g * z >= h /\ g * z \in Int
    <3>1. g * z \in Int
      OBVIOUS
    <3> QED BY <3>1
  <2> DEFINE reach == {p \in (-h)..n : InHorizon(p)}
  <2> PICK first : first = Min(reach)
    OBVIOUS
  <2>2. Frame(a) = {p \in first..(first + g * z - 1) : Closing(p) <= polls}
    BY DEF Frame, PerpetualBars, Synthetic, Perpetual
  <2>3. n >= 1
    <3>1. n < 1 => Closing(n) <= Opening(1)
      BY PeriodFacts
    <3>2. Opening(1) = w
      BY DEF Opening
    <3> QED BY <3>1, <3>2, <1>1, <1>2
  <2>4. n - 1 \in reach
    BY <2>3, <1>9
  <2>5. first \in reach /\ first <= n - 1
    <3>1. reach \subseteq Int /\ \A y \in reach : y >= -h
      OBVIOUS
    <3> PICK T : T = reach
      OBVIOUS
    <3> PICK low \in Int : low = -h
      OBVIOUS
    <3> HIDE DEF reach
    <3>2. T \subseteq Int /\ T # {} /\ \A y \in T : y >= low
      BY <3>1, <2>4
    <3>3. Min(T) \in T /\ \A y \in T : Min(T) <= y
      BY <3>2, Smallest
    <3> QED BY <3>3, <2>4
  <2>6. first >= n - h
    <3>1. first \in Int /\ Opening(first) >= polls - h * w
      BY <2>5 DEF InHorizon
    <3>2. Opening(n - h) = o - h * w
      <4>1. (n - h) * w = n * w - h * w
        BY Z3
      <4> QED BY <4>1 DEF Opening
    <3>3. Opening(first) >= Opening(n - h)
      <4>1. h * w \in Int /\ Opening(first) \in Int
        BY <3>1, PeriodFacts
      <4> QED BY <4>1, <3>1, <3>2, <1>1, <1>2
    <3>4. first < n - h => Closing(first) <= Opening(n - h)
      BY <3>1, PeriodFacts
    <3>5. Closing(first) = Opening(first) + w /\ Opening(first) \in Int /\ Opening(n - h) \in Int
      BY <3>1, PeriodFacts
    <3> QED BY <3>1, <3>3, <3>4, <3>5
  <2>7. first \in Int
    BY <2>5
  <2>8. n - 1 \in Frame(a)
    <3>1. n - 1 \in first..(first + g * z - 1)
      BY <2>1, <2>5, <2>6, <2>7
    <3> QED BY <3>1, <2>2, <1>2, <1>3
  <2>9. ASSUME NEW p \in Frame(a) PROVE p \in Int /\ p <= n - 1
    <3>1. p \in Int /\ Closing(p) <= polls
      BY <2>1, <2>2, <2>7
    <3>2. n < p => Closing(n) <= Opening(p)
      BY <3>1, PeriodFacts
    <3>3. Closing(p) = Opening(p) + w /\ Opening(p) \in Int
      BY <3>1, PeriodFacts
    <3>4. p # n
      <4>1. p = n => c <= polls
        BY <3>1
      <4> QED BY <4>1, <1>1, <1>2
    <3> QED BY <3>1, <3>2, <3>3, <3>4, <1>1, <1>2
  <2> QED BY <2>8, <2>9
<1>12. \A a \in Roster : n - 1 \in Frame(a) /\ \A p \in Frame(a) : p \in Int /\ p <= n - 1
  <2>1. \A a \in Synthetic : Frame(a) = Served
    BY DEF Frame
  <2> QED BY <2>1, <1>10, <1>11 DEF Roster
<1>13. \A a \in Roster : Max(Frame(a)) = n - 1 /\ ~Down(a) /\ ~Stale(a)
  <2> TAKE a \in Roster
  <2>1. n - 1 \in Int /\ polls - Closing(n - 1) < BarPolls
    BY <1>1, <1>2, <1>3
  <2> QED BY <2>1, <1>12, FreshPanel
<1>14. \A a \in Roster : ~Thin(a)
  <2>1. Cardinality(Content(n - 1)) = w
    <3>1. o - w \in Int /\ o - 1 \in Int /\ o - w <= o - 1
      OBVIOUS
    <3>2. Cardinality((o - w)..(o - 1)) = (o - 1) - (o - w) + 1
      BY <3>1, FS_Interval
    <3> QED BY <3>2, <1>4
  <2> QED BY <2>1, <1>8, <1>13 DEF Thin
<1>15. Missing = {} /\ Present = Roster
  BY <1>12 DEF Missing, Present
<1>16. DownOrAbsent = {}
  BY <1>13, <1>15 DEF DownOrAbsent
<1> QED BY <1>13, <1>14, <1>15, <1>16 DEF PanelStatus

\* The layout is never called healthy while it cannot be read, and a collector that missed no
\* poll of two bars makes it healthy when the perpetual's venue answers, for any thresholds
\* (monitoring/data_health.py, panel_health and dominance_health).
THEOREM HealthTellsOfTheFeed == FeedSpec => []HealthFollowsFeed
<1>1. FeedInv => HealthFollowsFeed
  BY HealthyIsFed, FedIsHealthy DEF HealthFollowsFeed
<1> QED BY <1>1, FeedInvHolds, PTL

-----------------------------------------------------------------------------
(* The types of the loop's rows. *)

\* Nothing is of the future, no entry has more than ten parts, and what is left of a position is
\* all of it, what the partial leaves, or nothing.
HealthBounds ==
  /\ clock <= MaxClock /\ decided >= NeverAt /\ recorded >= NeverAt
  /\ \A k \in 1..Len(entered) : entered[k].at <= clock /\ entered[k].parts <= 10
  /\ held.left \in {0, 3, 10}

\* The close of all that is left, or of seven parts of ten.
LEMMA PartsBounded ==
  ASSUME HealthInv, HealthBounds, held.entry # 0, NEW parts \in 1..held.left, ClosePart(parts),
         parts = held.left \/ (held.left = 10 /\ parts = 7)
  PROVE  /\ Len(entered') = Len(entered) /\ held'.left \in {0, 3, 10}
         /\ \A j \in 1..Len(entered) : entered'[j].at = entered[j].at /\ entered'[j].parts <= 10
<1> DEFINE k == held.entry
<1>0. /\ entered \in Seq(EntryRows) /\ DOMAIN entered = 1..Len(entered) /\ Len(entered) \in Nat
      /\ \A j \in 1..Len(entered) : entered[j] \in EntryRows /\ entered[j].parts \in Nat /\ entered[j].parts <= 10
  BY RowFacts DEF HealthInv, HealthTypes, HealthBounds
<1>1. k \in 1..Len(entered) /\ held.left \in Nat /\ entered[k].parts \in Nat /\ entered[k].parts + held.left <= 10
      /\ held \in [entry : Nat, left : Nat]
  BY RowFacts DEF HealthInv, HeldIsLast, HealthTypes
<1>2. PICK wrote \in BOOLEAN : entered' = [entered EXCEPT ![k].parts = @ + IF wrote THEN parts ELSE 0]
  BY DEF ClosePart
<1> DEFINE more == IF wrote THEN parts ELSE 0
           row  == [entered[k] EXCEPT !.parts = @ + more]
<1>3. more \in Nat /\ more <= held.left
  BY <1>1
<1>4. entered' = [entered EXCEPT ![k] = row]
  BY <1>0, <1>1, <1>2
<1> HIDE DEF more
<1>5. row.parts = entered[k].parts + more
  <2>1. \A e \in EntryRows, m \in Nat : [e EXCEPT !.parts = @ + m].parts = e.parts + m
    BY DEF EntryRows
  <2>2. entered[k] \in EntryRows
    BY <1>0, <1>1
  <2> QED BY <1>3, <2>1, <2>2
<1> HIDE DEF row, k
<1>6. \A j \in 1..Len(entered) : entered'[j] = IF j = k THEN row ELSE entered[j]
  BY <1>0, <1>1, <1>4
<1>7. \A j \in 1..Len(entered) : entered'[j].parts <= 10
  BY <1>0, <1>1, <1>3, <1>5, <1>6
<1>8. held'.left \in {0, 3, 10}
  <2>1. held' = IF held.left = parts THEN NoPosition ELSE [held EXCEPT !.left = held.left - parts]
    BY DEF ClosePart
  <2>2. CASE held.left = parts
    BY <2>1, <2>2 DEF NoPosition
  <2>3. CASE held.left = 10 /\ parts = 7
    <3>1. held' = [held EXCEPT !.left = 3]
      BY <2>1, <2>3
    <3> QED BY <1>1, <3>1
  <2> QED BY <2>2, <2>3
<1> QED BY <1>7, <1>8, PartCloses

LEMMA BoundsKept == HealthInv /\ HealthBounds /\ [HealthNext]_healthVars => HealthBounds'
<1> SUFFICES ASSUME HealthInv, HealthBounds, [HealthNext]_healthVars PROVE HealthBounds'
  OBVIOUS
<1>0. /\ clock \in Nat /\ decided \in Int /\ recorded \in Int /\ MaxClock \in Nat /\ Len(entered) \in Nat
      /\ \A j \in 1..Len(entered) : entered[j].at \in Nat
      /\ entered \in Seq(EntryRows)
  BY RowFacts, HealthAssumption DEF HealthInv, HealthTypes
<1>1. CASE /\ clock' = clock \/ (clock' = clock + 1 /\ clock < MaxClock)
           /\ decided' \in {decided, clock'} /\ recorded' \in {recorded, clock'}
           /\ UNCHANGED <<entered, held>>
  BY <1>0, <1>1 DEF HealthBounds, NeverAt
<1>2. ASSUME NEW parts \in 1..held.left, ClosePart(parts), held.entry # 0,
             parts = held.left \/ (held.left = 10 /\ parts = 7),
             UNCHANGED <<clock, decided, recorded>>
      PROVE  HealthBounds'
  BY <1>0, <1>2, PartsBounded DEF HealthBounds
<1>3. CASE StopRun /\ ~UNCHANGED <<entered, held>>
  <2>1. held.entry # 0 /\ ClosePart(held.left) /\ UNCHANGED <<clock, decided, recorded>>
    BY <1>3 DEF StopRun
  <2>2. held.left \in 1..held.left
    BY <2>1, RowFacts DEF HealthInv, HeldIsLast
  <2> QED BY <1>2, <2>1, <2>2
<1>4. CASE Exits
  <2>1. held.entry # 0 /\ UNCHANGED <<clock, decided, recorded>>
    BY <1>4 DEF Exits
  <2>2. CASE held.left = 10 /\ ClosePart(7)
    <3>1. 7 \in 1..held.left
      BY <2>2
    <3> QED BY <1>2, <2>1, <2>2, <3>1
  <2>3. CASE ClosePart(held.left)
    <3>1. held.left \in 1..held.left
      BY <2>1, RowFacts DEF HealthInv, HeldIsLast
    <3> QED BY <1>2, <2>1, <2>3, <3>1
  <2> QED BY <1>4, <2>2, <2>3 DEF Exits
<1>5. CASE BarOfLoop /\ ~UNCHANGED <<entered, held>>
  <2>1. /\ clock' = clock + 1 /\ clock < MaxClock /\ recorded' \in {recorded, clock'} /\ decided' = clock'
        /\ held' = [entry |-> Len(entered'), left |-> 10]
        /\ \E late \in BOOLEAN :
             entered' = Append(entered, [run |-> ThisRun, at |-> clock', late |-> late, parts |-> 0])
    BY <1>5 DEF BarOfLoop
  <2>2. PICK late \in BOOLEAN :
          entered' = Append(entered, [run |-> ThisRun, at |-> clock', late |-> late, parts |-> 0])
    BY <2>1
  <2> DEFINE row == [run |-> ThisRun, at |-> clock', late |-> late, parts |-> 0]
  <2>3. row.at = clock' /\ row.parts = 0 /\ entered' = Append(entered, row)
    BY <2>2
  <2> HIDE DEF row
  <2>4. /\ Len(entered') = Len(entered) + 1 /\ entered'[Len(entered) + 1] = row
        /\ \A j \in 1..Len(entered) : entered'[j] = entered[j]
    BY <1>0, <2>3
  <2>5. ASSUME NEW j \in 1..Len(entered') PROVE entered'[j].at <= clock' /\ entered'[j].parts <= 10
    <3>1. j = Len(entered) + 1 \/ j \in 1..Len(entered)
      BY <1>0, <2>4
    <3> QED BY <1>0, <2>1, <2>3, <2>4, <3>1 DEF HealthBounds
  <2>6. held'.left = 10
    BY <2>1
  <2>7. clock' <= MaxClock /\ decided' >= NeverAt /\ recorded' >= NeverAt
    BY <1>0, <2>1 DEF HealthBounds, NeverAt
  <2> QED BY <2>5, <2>6, <2>7 DEF HealthBounds
<1>6. CASE UNCHANGED <<entered, held>>
  <2>1. /\ clock' = clock \/ (clock' = clock + 1 /\ clock < MaxClock)
        /\ decided' \in {decided, clock'} /\ recorded' \in {recorded, clock'}
    BY DEF HealthNext, StartRun, StopRun, LoopDies, BarOfLoop, Exits, BarAlone, HaltTurns, healthVars
  <2> QED BY <1>1, <1>6, <2>1
<1>7. StopRun \/ Exits \/ BarOfLoop \/ UNCHANGED <<entered, held>>
  BY DEF HealthNext, StartRun, LoopDies, BarAlone, HaltTurns, healthVars
<1> QED BY <1>3, <1>4, <1>5, <1>6, <1>7

\* Type correctness of the loop's rows and of the position the venue holds.
THEOREM HealthTypeCorrect == HealthSpec => []HealthTypeOK
<1>1. HealthInit => HealthBounds
  BY HealthAssumption DEF HealthInit, HealthBounds, NoPosition, NeverAt
<1>2. HealthInv /\ HealthBounds => HealthTypeOK
  <2> SUFFICES ASSUME HealthInv, HealthBounds PROVE HealthTypeOK
    OBVIOUS
  <2>0. MaxClock \in Nat
    BY HealthAssumption
  <2>1. clock \in 0..MaxClock /\ diedAt \in 0..clock /\ {decided, recorded} \subseteq NeverAt..clock
    BY <2>0 DEF HealthInv, HealthTypes, HealthBounds, NeverAt
  <2>2. \A k \in DOMAIN entered : entered[k].at \in 0..clock /\ entered[k].parts \in 0..10
    <3>1. HealthTypes /\ clock \in Nat /\ clock <= MaxClock
      BY DEF HealthInv, HealthTypes, HealthBounds
    <3>2. \A k \in DOMAIN entered : /\ entered[k].at \in Nat /\ entered[k].at <= clock
                                   /\ entered[k].parts \in Nat /\ entered[k].parts <= 10
      BY <3>1, RowFacts DEF HealthBounds
    <3> QED BY <3>1, <3>2
  <2>3. held.entry \in 0..Len(entered)
    BY RowFacts DEF HealthInv, HeldIsLast
  <2> QED BY <2>1, <2>2, <2>3 DEF HealthTypeOK, HealthBounds
<1> QED BY <1>1, <1>2, BoundsKept, HealthStarts, HealthKept, PTL DEF HealthSpec

-----------------------------------------------------------------------------
(* The machines of the market: a step is a step of one of them, and the others rest. *)

LEMMA MarketStarts ==
  MarketInit => /\ SimInit /\ CandleInit /\ IctInit /\ AlertInit /\ AiInit /\ StructureInit /\ LayoutInit
                /\ ExitInit /\ EntryInit /\ FeedInit /\ HealthInit
  BY DEF MarketInit

\* Whoever's step it is, each machine makes a step of its own or none.
LEMMA MarketSteps ==
  [MarketNext]_marketVars =>
    /\ [SimNext]_simVars /\ [CandleNext]_candleVars /\ [IctNext]_ictVars /\ [AlertNext]_alertVars
    /\ [AiNext]_aiVars /\ [BarCloses]_structureVars /\ [PanelMoves]_panels /\ [PriceComes]_exitVars
    /\ [EntryBarCloses]_entryVars /\ [FeedNext]_feedVars /\ [HealthNext]_healthVars
  BY DEF MarketNext, marketVars

\* A run of the market is a run of each machine, so what is proved of a machine holds of the market.
THEOREM MarketRunsEach ==
  MarketSpec => /\ SimSpec /\ CandleSpec /\ IctSpec /\ AlertSpec /\ AiSpec /\ StructureSpec /\ LayoutSpec
                /\ ExitSpec /\ EntrySpec /\ FeedSpec /\ HealthSpec
  BY MarketStarts, MarketSteps, PTL
     DEF MarketSpec, SimSpec, CandleSpec, IctSpec, AlertSpec, AiSpec, StructureSpec, LayoutSpec, ExitSpec, EntrySpec,
         FeedSpec, HealthSpec

\* Type correctness of the market: the types of all eleven machines, for any of their constants.
THEOREM MarketTypeCorrect == MarketSpec => []MarketTypeOK
<1>1. /\ SimTypeOK /\ CandleTypeOK /\ IctTypeOK /\ AlertTypeOK /\ AiTypeOK /\ StructureTypeOK /\ LayoutTypeOK
      /\ ExitTypeOK /\ EntryTypeOK /\ FeedTypeOK /\ HealthTypeOK
      => MarketTypeOK
  BY DEF MarketTypeOK
<1> QED
  BY <1>1, MarketRunsEach, SimTypeCorrect, CandleTypeCorrect, ZoneTypeCorrect, AlertTypeCorrect, AiTypeCorrect,
     StructureTyped, PanelsTyped, ExitTypeCorrect, EntryTypeCorrect, FeedTypeCorrect, HealthTypeCorrect, PTL
=============================================================================
