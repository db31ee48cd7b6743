-------------------------------- MODULE Alerts --------------------------------
(***************************************************************************)
(* Entry-signal alerts: services/decision creates them at a candle close,  *)
(* supersedes the pair's older one and expires the overdue, while traders  *)
(* approve, reject or edit them through services/governance/queue.py.      *)
(* The candle handlers of one pair are serialised by the pipeline's lock,  *)
(* those of different pairs and the requests are not.  A request loads the *)
(* row in its session, checks it there and later writes the status by id;  *)
(* the UPDATE that supersedes names the id alone as well.  The candles of  *)
(* the pipeline carry prices only, so no other kind of alert is made.      *)
(***************************************************************************)
EXTENDS Naturals, FiniteSets

CONSTANTS Pairs, Reviews,  \* requests PATCH /alerts/{id}
          MaxAlerts        \* bound on the alerts ever created

ASSUME AlertAssumption == Pairs # {} /\ MaxAlerts \in Nat

VARIABLES
  alerts,      \* rows by id: [pair, status, due], due once expires_at has passed
  handler,     \* per pair: the step of on_candle_close and the row it found
  review       \* per request: the step, the alert it loaded and the action

alertVars == <<alerts, handler, review>>

AlertIds == 1..MaxAlerts
Decisions == {"APPROVED", "REJECTED", "EDITED"}
AlertStatuses == Decisions \union {"none", "PENDING", "SUPERSEDED", "EXPIRED"}
NoAlert == 0

AlertTypeOK ==
  /\ alerts \in [AlertIds -> [pair : Pairs, status : AlertStatuses, due : BOOLEAN]]
  /\ handler \in [Pairs -> [step : {"idle", "scored", "found"}, old : 0..MaxAlerts]]
  /\ review \in [Reviews -> [step : {"new", "loaded", "done"}, alert : 0..MaxAlerts,
                             action : Decisions]]

AlertInit ==
  /\ alerts = [i \in AlertIds |-> [pair |-> CHOOSE p \in Pairs : TRUE, status |-> "none",
                                  due |-> FALSE]]
  /\ handler = [p \in Pairs |-> [step |-> "idle", old |-> NoAlert]]
  /\ review = [r \in Reviews |-> [step |-> "new", alert |-> NoAlert, action |-> "EDITED"]]

Made == {i \in AlertIds : alerts[i].status # "none"}
NextId == Cardinality(Made) + 1

(***************************************************************************)
(* The candle handler of pair p.                                           *)
(***************************************************************************)
\* on_candle_close begins: the overdue are expired in one UPDATE (a failure is
\* logged), and the score reaches the profile's threshold.
ExpireAndScore(p) ==
  /\ handler[p].step = "idle" /\ NextId \in AlertIds
  /\ \E fails \in BOOLEAN :
       alerts' = [i \in AlertIds |->
         IF ~fails /\ alerts[i].status = "PENDING" /\ alerts[i].due
         THEN [alerts[i] EXCEPT !.status = "EXPIRED"] ELSE alerts[i]]
  /\ \E enough \in BOOLEAN :
       handler' = IF enough THEN [handler EXCEPT ![p].step = "scored"] ELSE handler
  /\ UNCHANGED review

PendingOf(p) == {i \in Made : alerts[i].pair = p /\ alerts[i].status = "PENDING"}

\* The newest PENDING signal of the pair, if there is one.
FindExisting(p) ==
  /\ handler[p].step = "scored"
  /\ \E old \in PendingOf(p) \union {NoAlert} :
       /\ \A i \in PendingOf(p) : i <= old
       /\ handler' = [handler EXCEPT ![p] = [step |-> "found", old |-> old]]
  /\ UNCHANGED <<alerts, review>>

\* Mutant: the old alert is left for the expiry.
LeaveOld(p, old) ==
  alerts' = [alerts EXCEPT ![NextId] = [pair |-> p, status |-> "PENDING", due |-> FALSE]]

\* The new row and the superseding of the old one, by its id, commit together.
Replace(p, old) ==
  alerts' = [i \in AlertIds |->
    IF i = NextId THEN [pair |-> p, status |-> "PENDING", due |-> FALSE]
    ELSE IF i = old THEN [alerts[i] EXCEPT !.status = "SUPERSEDED"] ELSE alerts[i]]

CommitSignal(p) ==
  /\ handler[p].step = "found" /\ NextId \in AlertIds
  /\ \/ Replace(p, handler[p].old)
     \/ UNCHANGED alerts              \* the transaction failed: caught and logged
  /\ handler' = [handler EXCEPT ![p] = [step |-> "idle", old |-> NoAlert]]
  /\ UNCHANGED review

(***************************************************************************)
(* A trader's request.                                                     *)
(***************************************************************************)
\* compliance_state of the alert's context: no alert is ever created with one.
ContextSaysHalted(i) == FALSE

LoadAlert(r, i, action) ==
  /\ review[r].step = "new" /\ i \in Made
  /\ alerts[i].status = "PENDING"
  /\ action = "APPROVED" => ~ContextSaysHalted(i)
  /\ review' = [review EXCEPT ![r] = [step |-> "loaded", alert |-> i, action |-> action]]
  /\ UNCHANGED <<alerts, handler>>

\* _approve, _reject, _edit: the status (with the edit diffs) is written by id.
CommitReview(r) ==
  /\ review[r].step = "loaded"
  /\ alerts' = [alerts EXCEPT ![review[r].alert].status = review[r].action]
  /\ review' = [review EXCEPT ![r].step = "done"]
  /\ UNCHANGED handler

TimePasses(i) ==
  /\ i \in Made /\ ~alerts[i].due
  /\ alerts' = [alerts EXCEPT ![i].due = TRUE]
  /\ UNCHANGED <<handler, review>>

AlertNext ==
  \/ \E p \in Pairs : ExpireAndScore(p) \/ FindExisting(p) \/ CommitSignal(p)
  \/ \E r \in Reviews :
       \/ CommitReview(r)
       \/ \E i \in AlertIds, action \in Decisions : LoadAlert(r, i, action)
  \/ \E i \in AlertIds : TimePasses(i)

AlertSpec == AlertInit /\ [][AlertNext]_alertVars

(***************************************************************************)
(* Properties.                                                             *)
(***************************************************************************)
\* A pair never has two signals waiting for the trader, whatever requests and
\* expiries fall between the search for the old one and the commit.
OnePendingSignal == \A p \in Pairs : Cardinality(PendingOf(p)) <= 1

\* A superseded signal has a successor for the same pair: none is withdrawn for
\* an alert that was never stored.
SupersededHasSuccessor ==
  \A i \in Made : alerts[i].status = "SUPERSEDED" =>
    \E j \in Made : j > i /\ alerts[j].pair = alerts[i].pair

===============================================================================
