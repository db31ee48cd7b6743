----------------------------- MODULE BrokerMonitor -----------------------------
(***************************************************************************)
(* Watching the accounts of third-party brokers: every two minutes         *)
(* observe_sync writes a compliance snapshot of each account, and on       *)
(* request reconciliation.py compares a broker with the platform's records *)
(* and with the last snapshot.  No code writes an OPEN trade or a trade of *)
(* such a broker, so the records it is compared with are empty.            *)
(***************************************************************************)
EXTENDS Integers, Sequences, FiniteSetsExt

CONSTANTS
  Accounts,        \* the monitored accounts, in the order of the registry: 1..n
  Balances,        \* what a venue may report
  InitialBalance, DailyDdPct, MaxDdPct,   \* rules_json of the profiles
  MaxPasses        \* bound on the passes of the job

ASSUME MonitorAssumption ==
  /\ Accounts \in Nat \ {0} /\ MaxPasses \in Nat
  /\ Balances \subseteq Int /\ InitialBalance \in Balances
  /\ {InitialBalance, DailyDdPct, MaxDdPct} \subseteq Nat \ {0}

VARIABLES
  venue,      \* per account, what the broker would answer: [balance, floating, open]
  snapshots,  \* rows of prop_firm_snapshots, the latest of each account
  newest,     \* the account whose row has the latest timestamp, 0 before any
  passes,     \* passes of the job so far
  unreached,  \* history: accounts the last pass that ended could not reach
  report      \* the last reconciliation: NoReport, or [account, reachable, raised, kinds, ran]

monitorVars == <<venue, snapshots, newest, passes, unreached, report>>

Ids == 1..Accounts
NoRow == [state |-> "none", balance |-> 0]
Unavailable == [state |-> "UNAVAILABLE", balance |-> 0]   \* every figure of the row is NULL
HasFigures(row) == row.state \notin {"none", "UNAVAILABLE"}
NoReport == [account |-> 0, reachable |-> FALSE, raised |-> FALSE, kinds |-> {}, ran |-> {}]

ComplianceStates == {"ACTIVE", "AT_RISK", "CRITICAL", "HALTED"}

MonitorTypeOK ==
  /\ venue \in [Ids -> [balance : Balances, floating : -1..0, open : BOOLEAN]]
  /\ snapshots \in [Ids -> [state : ComplianceStates \union {"none", "UNAVAILABLE"},
                            balance : Balances \union {0}]]
  /\ newest \in 0..Accounts /\ passes \in 0..MaxPasses /\ unreached \subseteq Ids
  /\ report.kinds \subseteq {"untracked_position", "unexplained_balance_change"}
  /\ report.ran \subseteq {"positions", "balance_drift"}

MonitorInit ==
  /\ venue \in [Ids -> {[balance |-> InitialBalance, floating |-> 0, open |-> FALSE]}]
  /\ snapshots = [i \in Ids |-> NoRow] /\ newest = 0
  /\ passes = 0 /\ unreached = {} /\ report = NoReport

Loss(amount) == IF amount > 0 THEN amount ELSE 0

\* compute_compliance_state.
ComputeComplianceState(dayLoss, totalLoss) ==
  LET atLeast(share) == dayLoss * 100 * 100 >= share * InitialBalance * DailyDdPct
  IN  IF totalLoss * 100 >= InitialBalance * MaxDdPct \/ atLeast(100) THEN "HALTED"
      ELSE IF atLeast(95) THEN "CRITICAL"
      ELSE IF atLeast(80) THEN "AT_RISK" ELSE "ACTIVE"

\* sync_account_compliance: the day's loss is the floating one.
SnapshotOf(i) ==
  [state |-> ComputeComplianceState(Loss(-venue[i].floating),
                 Loss(InitialBalance - (venue[i].balance + venue[i].floating))),
   balance |-> venue[i].balance]

\* Somebody trades in the broker's own terminal.
VenueMoves ==
  /\ \E i \in Ids, b \in Balances, f \in -1..0, o \in BOOLEAN :
       /\ venue[i] # [balance |-> b, floating |-> f, open |-> o]
       /\ venue' = [venue EXCEPT ![i] = [balance |-> b, floating |-> f, open |-> o]]
  /\ UNCHANGED <<snapshots, newest, passes, unreached, report>>

\* Mutant: the rows of a pass in which no account was reached are not committed.
CommitsIfSynced(failed) == failed # Ids

\* The pass commits when it wrote anything at all.
Commits(failed) == TRUE

\* sync_all_observe_only.  An account that cannot be read gets a row without
\* figures, stamped by the database with the start of the transaction: the rows
\* of the accounts that were read are newer.
SyncAll ==
  /\ passes < MaxPasses /\ passes' = passes + 1
  /\ \E failed \in SUBSET Ids :
       /\ IF Commits(failed)
          THEN /\ snapshots' = [i \in Ids |-> IF i \in failed THEN Unavailable ELSE SnapshotOf(i)]
               /\ newest' = Max(IF failed = Ids THEN Ids ELSE Ids \ failed)
          ELSE UNCHANGED <<snapshots, newest>>
       /\ unreached' = failed
  /\ UNCHANGED <<venue, report>>

\* The registry changes while an account is awaited: the iteration raises and
\* the whole pass is rolled back.
SyncRaises ==
  /\ passes < MaxPasses /\ passes' = passes + 1
  /\ UNCHANGED <<venue, snapshots, newest, unreached, report>>

\* _check_balance_drift: against the newest row of any account.  Nothing of
\* ours was closed at that broker, so nothing explains a change.
Drifts(i) == newest # 0 /\ venue[i].balance # snapshots[newest].balance

\* reconcile_broker and the entry reconcile_all makes of it.
Reconcile(i) ==
  /\ \E asked \in BOOLEAN :
       LET raises == asked /\ newest # 0 /\ ~HasFigures(snapshots[newest])
       IN  report' =
             [account |-> i, reachable |-> asked /\ ~raises, raised |-> raises,
              kinds |-> IF ~asked \/ raises THEN {}
                        ELSE (IF venue[i].open THEN {"untracked_position"} ELSE {}) \union
                             (IF Drifts(i) THEN {"unexplained_balance_change"} ELSE {}),
              ran |-> IF ~asked \/ raises THEN {}
                      ELSE {"positions"} \union (IF newest = 0 THEN {} ELSE {"balance_drift"})]
  /\ UNCHANGED <<venue, snapshots, newest, passes, unreached>>

MonitorNext == VenueMoves \/ SyncAll \/ SyncRaises \/ \E i \in Ids : Reconcile(i)
MonitorSpec == MonitorInit /\ [][MonitorNext]_monitorVars

(***************************************************************************)
(* Properties.                                                             *)
(***************************************************************************)
\* The history the dashboard reads says of every account what the last pass
\* that ended found: figures, or that it could not be evaluated.
MonitorTellsLastPass ==
  \A i \in Ids : snapshots[i].state # "none" =>
    (i \in unreached <=> snapshots[i].state = "UNAVAILABLE")

\* A reconciliation reports an unexplained change exactly when the account's
\* own balance has changed since its last snapshot.
DriftToldAsIs ==
  [][\A i \in Ids :
       (Reconcile(i) /\ "balance_drift" \in report'.ran) =>
         ("unexplained_balance_change" \in report'.kinds
            <=> venue[i].balance # snapshots[i].balance)]_monitorVars

===============================================================================
