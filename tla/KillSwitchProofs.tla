-------------------------- MODULE KillSwitchProofs --------------------------
(***************************************************************************)
(* Theorems about KillSwitch, for every set of triggers and accounts and   *)
(* any number of changes of the registry.                                  *)
(***************************************************************************)
EXTENDS KillSwitch, FiniteSetTheorems, TLAPS

\* A running sweep is alone, over an armed and marked switch, and its caller waits for it.
Guarded ==
    \A t \in Triggers : Sweeping(t) =>
        /\ armed /\ marked /\ caller[t] = "waiting"
        /\ \A u \in Triggers : Sweeping(u) => u = t

\* While a sweep is closing it awaits an adapter.
Awaiting == \A t \in Triggers : sweep[t] = "closing" => current \in Adapters

\* Where the audit rows are: the caller's session commits only for a caller that was
\* answered, the fresh record belongs to a caller that recorded or is done recording.
Audited ==
    \A t \in Triggers :
        /\ session[t] = "committed" => caller[t] = "answered"
        /\ record[t] # "none" => caller[t] \in {"recording", "cancelled"}
        /\ caller[t] = "recording" => record[t] # "none"
        /\ caller[t] = "cancelled" /\ sweep[t] \in {"done", "raised"} => record[t] # "none"

IInv == TypeOK /\ Guarded /\ Awaiting /\ CancellationHonoured /\ Audited

-----------------------------------------------------------------------------
\* The size of the registry is a number, because the registry is finite.
LEMMA RegistrySize ==
    ASSUME NEW S \in SUBSET Adapters
    PROVE  Cardinality(S) \in Nat
  <1>1. IsFiniteSet(S)
    BY AdaptersAssumption, FS_Subset
  <1> QED
    BY <1>1, FS_CardinalityType

\* One step of the sweep's iteration: the types of what it assigns, and where the sweep
\* may go.
LEMMA NextAdapterType ==
    ASSUME TypeOK, NEW t \in Triggers,
           NEW done \in SUBSET Adapters, NEW n \in Nat, NEW seen \in SUBSET Adapters,
           NextAdapter(t, done, n, seen)
    PROVE  /\ sweep' \in [Triggers -> SweepStates]
           /\ session' \in [Triggers -> SessionStates]
           /\ rows' \in [Triggers -> SUBSET Adapters]
           /\ size' \in Nat
           /\ visited' \subseteq Adapters
           /\ current' \in Adapters \cup {NoAdapter}
           /\ results' \subseteq Adapters
           /\ sweep'[t] \in {"closing", "counting"}
           /\ sweep'[t] = "closing" => current' \in Adapters
           /\ session'[t] \in {"none", "flushed", session[t]}
           /\ \A u \in Triggers \ {t} : sweep'[u] = sweep[u] /\ session'[u] = session[u]
  <1>1. CASE \E accounts \in SUBSET Adapters : CountAndFlush(t, accounts) /\ visited' = seen
    BY <1>1 DEF TypeOK, NextAdapter, CountAndFlush, SweepStates, SessionStates
  <1>2. CASE /\ \E a \in registry \ seen : current' = a /\ visited' = seen \cup {a}
             /\ sweep' = [sweep EXCEPT ![t] = "closing"]
             /\ UNCHANGED <<rows, session>>
    BY <1>2 DEF TypeOK, NextAdapter, SweepStates, SessionStates
  <1> QED
    BY <1>1, <1>2 DEF NextAdapter

\* A step of the sweep that goes on (StartSweep, AdapterAnswers) keeps the invariant.
LEMMA SweepGoesOn ==
    ASSUME IInv, NEW t \in Triggers, StartSweep(t) \/ AdapterAnswers(t)
    PROVE  IInv'
  <1>1. Sweeping(t) /\ caller[t] = "waiting" /\ armed /\ marked
    BY DEF IInv, Guarded, Sweeping, StartSweep, AdapterAnswers
  <1>2. PICK done \in SUBSET Adapters, n \in Nat, seen \in SUBSET Adapters :
            NextAdapter(t, done, n, seen)
    <2>1. CASE StartSweep(t)
      <3>1. Cardinality(registry) \in Nat
        BY RegistrySize DEF IInv, TypeOK
      <3> QED
        BY <2>1, <3>1 DEF StartSweep
    <2>2. CASE AdapterAnswers(t)
      <3>1. results \cup {current} \in SUBSET Adapters
        BY <2>2 DEF AdapterAnswers, IInv, TypeOK, Awaiting
      <3> QED
        BY <2>2, <3>1 DEF AdapterAnswers, IInv, TypeOK
    <2> QED
      BY <2>1, <2>2
  <1>3. UNCHANGED <<armed, marked, down, caller, noted, record, registry, resizes, steady>>
    BY DEF StartSweep, AdapterAnswers, callerVars, registryVars
  <1>4. /\ sweep' \in [Triggers -> SweepStates]
        /\ session' \in [Triggers -> SessionStates]
        /\ rows' \in [Triggers -> SUBSET Adapters]
        /\ size' \in Nat
        /\ visited' \subseteq Adapters
        /\ current' \in Adapters \cup {NoAdapter}
        /\ results' \subseteq Adapters
        /\ sweep'[t] \in {"closing", "counting"}
        /\ sweep'[t] = "closing" => current' \in Adapters
        /\ session'[t] \in {"none", "flushed", session[t]}
        /\ \A u \in Triggers \ {t} : sweep'[u] = sweep[u] /\ session'[u] = session[u]
    BY <1>2, NextAdapterType DEF IInv
  <1>5. TypeOK'
    BY <1>3, <1>4 DEF IInv, TypeOK
  <1>6. Guarded'
    BY <1>1, <1>3, <1>4 DEF IInv, Guarded, Sweeping
  <1>7. Awaiting'
    <2>1. \A u \in Triggers \ {t} : sweep'[u] # "closing"
      BY <1>1, <1>4 DEF IInv, Guarded, Sweeping
    <2> QED
      BY <1>4, <2>1 DEF Awaiting
  <1>8. CancellationHonoured'
    BY <1>3 DEF IInv, CancellationHonoured
  <1>9. Audited'
    BY <1>1, <1>3, <1>4 DEF IInv, Audited
  <1> QED
    BY <1>5, <1>6, <1>7, <1>8, <1>9 DEF IInv

\* Rolling back touches one session, and never commits it.
LEMMA RollBackEffect ==
    ASSUME TypeOK, NEW t \in Triggers, RollBack(t)
    PROVE  /\ session' \in [Triggers -> SessionStates]
           /\ \A u \in Triggers : session'[u] = "committed" => session[u] = "committed" /\ session'[u] = session[u]
  BY DEF TypeOK, RollBack, SessionStates

\* The types of every step but the sweep's own iteration.
LEMMA TypeStep ==
    ASSUME TypeOK, [Next]_vars,
           \A t \in Triggers : ~StartSweep(t) /\ ~AdapterAnswers(t)
    PROVE  TypeOK'
  <1> USE DEF callerVars, sweepVars, registryVars, loopVars,
              CallerStates, SweepStates, SessionStates, RecordStates
  <1>1. CASE Arm \/ Disarm
    BY <1>1 DEF Arm, Disarm, TypeOK
  <1>2. CASE Shutdown
    BY <1>2 DEF Shutdown, TypeOK
  <1>3. ASSUME NEW t \in Triggers, BeginTrigger(t) \/ AnswerInProgress(t) \/ CancelCaller(t)
        PROVE  TypeOK'
    BY <1>3 DEF BeginTrigger, AnswerInProgress, CancelCaller, TypeOK
  <1>4. ASSUME NEW t \in Triggers, SweepReturns(t) \/ SweepRaises(t)
        PROVE  TypeOK'
    BY <1>4 DEF SweepReturns, SweepRaises, ClearMark, TypeOK
  <1>5. ASSUME NEW t \in Triggers, ReturnReport(t)
        PROVE  TypeOK'
    BY <1>5 DEF ReturnReport, TypeOK
  <1>6. ASSUME NEW t \in Triggers, Propagate(t) \/ SweepWasCancelled(t) \/ LeaveCancelled(t)
        PROVE  TypeOK'
    <2>1. session' \in [Triggers -> SessionStates]
      BY <1>6, RollBackEffect DEF Propagate, SweepWasCancelled, LeaveCancelled
    <2>2. UNCHANGED <<armed, marked, down, noted, record, sweep, rows, registry, resizes,
                      size, visited, current, results, steady>>
      BY <1>6 DEF Propagate, SweepWasCancelled, LeaveCancelled
    <2>3. caller' \in {[caller EXCEPT ![t] = "raised"], [caller EXCEPT ![t] = "cancelled"]}
      BY <1>6 DEF Propagate, SweepWasCancelled, LeaveCancelled
    <2>4. caller' \in [Triggers -> CallerStates]
      BY <2>3 DEF TypeOK
    <2> QED
      BY <2>1, <2>2, <2>4 DEF TypeOK
  <1>7. ASSUME NEW t \in Triggers, BeginRecord(t)
        PROVE  TypeOK'
    BY <1>7 DEF BeginRecord, TypeOK
  <1>8. ASSUME NEW t \in Triggers, WriteEnds(t) \/ EndRequest(t)
        PROVE  TypeOK'
    <2>1. UNCHANGED <<armed, marked, down, caller, noted, sweep, rows, registry, resizes,
                      size, visited, current, results, steady>>
      BY <1>8 DEF WriteEnds, EndRequest
    <2>2. record' \in [Triggers -> RecordStates]
      <3>1. CASE WriteEnds(t)
        BY <3>1 DEF WriteEnds, TypeOK
      <3>2. CASE EndRequest(t)
        BY <3>2 DEF EndRequest, TypeOK
      <3> QED
        BY <1>8, <3>1, <3>2
    <2>3. session' \in [Triggers -> SessionStates]
      <3>1. CASE WriteEnds(t)
        BY <3>1 DEF WriteEnds, TypeOK
      <3>2. CASE EndRequest(t)
        BY <3>2 DEF EndRequest, TypeOK
      <3> QED
        BY <1>8, <3>1, <3>2
    <2> QED
      BY <2>1, <2>2, <2>3 DEF TypeOK
  <1>9. ASSUME NEW a \in Adapters, DropAdapter(a) \/ AddAdapter(a)
        PROVE  TypeOK'
    <2>1. resizes < MaxResizes /\ resizes' = resizes + 1
      BY <1>9 DEF DropAdapter, AddAdapter
    <2>2. resizes \in 0..MaxResizes
      BY DEF TypeOK
    <2>3. resizes' \in 0..MaxResizes
      BY <2>1, <2>2, ResizesAssumption
    <2>4. steady \in [Triggers -> SUBSET Adapters]
      BY DEF TypeOK
    <2>5. steady' \in [Triggers -> SUBSET Adapters]
      BY <1>9, <2>4 DEF DropAdapter, AddAdapter
    <2> QED
      BY <1>9, <2>3, <2>5 DEF DropAdapter, AddAdapter, TypeOK
  <1>10. CASE UNCHANGED vars
    BY <1>10 DEF vars, TypeOK
  <1> QED
    BY <1>1, <1>2, <1>3, <1>4, <1>5, <1>6, <1>7, <1>8, <1>9, <1>10
    DEF Next, SweepStep, CallerStep

\* IInv is inductive.
LEMMA InvStep == IInv /\ [Next]_vars => IInv'
  <1> SUFFICES ASSUME IInv, [Next]_vars,
                      \A t \in Triggers : ~StartSweep(t) /\ ~AdapterAnswers(t)
               PROVE  IInv'
    BY SweepGoesOn
  <1>0. TypeOK'
    BY TypeStep DEF IInv
  <1> USE DEF IInv, Guarded, Awaiting, CancellationHonoured, Audited, TypeOK, Sweeping
  <1> USE DEF callerVars, sweepVars, registryVars, loopVars
  <1>1. CASE Arm \/ Disarm
    BY <1>0, <1>1 DEF Arm, Disarm
  <1>2. CASE Shutdown
    BY <1>0, <1>2 DEF Shutdown
  <1>3. ASSUME NEW t \in Triggers, BeginTrigger(t)
        PROVE  IInv'
    BY <1>0, <1>3 DEF BeginTrigger
  <1>4. ASSUME NEW t \in Triggers, AnswerInProgress(t)
        PROVE  IInv'
    BY <1>0, <1>4 DEF AnswerInProgress
  <1>5. ASSUME NEW t \in Triggers, CancelCaller(t)
        PROVE  IInv'
    BY <1>0, <1>5 DEF CancelCaller
  <1>6. ASSUME NEW t \in Triggers, SweepReturns(t) \/ SweepRaises(t)
        PROVE  IInv'
    BY <1>0, <1>6 DEF SweepReturns, SweepRaises, ClearMark
  <1>7. ASSUME NEW t \in Triggers, ReturnReport(t)
        PROVE  IInv'
    BY <1>0, <1>7 DEF ReturnReport
  <1>8. ASSUME NEW t \in Triggers, Propagate(t) \/ SweepWasCancelled(t) \/ LeaveCancelled(t)
        PROVE  IInv'
    <2>1. \A u \in Triggers : session'[u] = "committed" => session[u] = "committed"
      BY <1>8, RollBackEffect DEF Propagate, SweepWasCancelled, LeaveCancelled
    <2> QED
      BY <1>0, <1>8, <2>1 DEF Propagate, SweepWasCancelled, LeaveCancelled
  <1>9. ASSUME NEW t \in Triggers, BeginRecord(t)
        PROVE  IInv'
    BY <1>0, <1>9 DEF BeginRecord
  <1>10. ASSUME NEW t \in Triggers, WriteEnds(t)
         PROVE  IInv'
    BY <1>0, <1>10 DEF WriteEnds
  <1>11. ASSUME NEW t \in Triggers, EndRequest(t)
         PROVE  IInv'
    BY <1>0, <1>11 DEF EndRequest
  <1>12. ASSUME NEW a \in Adapters, DropAdapter(a) \/ AddAdapter(a)
         PROVE  IInv'
    BY <1>0, <1>12 DEF DropAdapter, AddAdapter
  <1>13. CASE UNCHANGED vars
    BY <1>0, <1>13 DEF vars
  <1> QED
    BY <1>1, <1>2, <1>3, <1>4, <1>5, <1>6, <1>7, <1>8, <1>9, <1>10, <1>11, <1>12, <1>13
    DEF Next, SweepStep, CallerStep

\* The initial states satisfy IInv.
LEMMA InvInit == Init => IInv
  <1> SUFFICES ASSUME Init PROVE IInv
    OBVIOUS
  <1>1. resizes \in 0..MaxResizes /\ size \in Nat
    BY ResizesAssumption DEF Init
  <1>2. TypeOK
    BY <1>1 DEF Init, TypeOK, CallerStates, SweepStates, SessionStates, RecordStates
  <1>3. Guarded /\ Awaiting /\ CancellationHonoured /\ Audited
    BY DEF Init, Guarded, Awaiting, CancellationHonoured, Audited, Sweeping
  <1> QED
    BY <1>2, <1>3 DEF IInv

\* IInv holds in every reachable state.
THEOREM Invariance == Spec => []IInv
  BY InvInit, InvStep, PTL DEF Spec

-----------------------------------------------------------------------------
\* Every variable keeps its type.
THEOREM TypeCorrect == Spec => []TypeOK
  BY Invariance, PTL DEF IInv

\* However many triggers there are, no two sweeps ever run together.
THEOREM SweepsAlone == Spec => []OneSweep
  <1>1. IInv => OneSweep
    BY DEF IInv, Guarded, OneSweep
  <1> QED
    BY <1>1, Invariance, PTL

\* A sweep runs only over an armed switch.
THEOREM SweepsOnlyArmed == Spec => []SweepsArmed
  <1>1. IInv => SweepsArmed
    BY DEF IInv, Guarded, SweepsArmed
  <1> QED
    BY <1>1, Invariance, PTL

\* A caller, cancelled or not, never leaves a running sweep behind.
THEOREM CallerStays == Spec => []CallerOutlivesSweep
  <1>1. IInv => CallerOutlivesSweep
    BY DEF IInv, Guarded, CallerOutlivesSweep
  <1> QED
    BY <1>1, Invariance, PTL

\* A cancelled trigger never returns normally.
THEOREM CancellationIsTold == Spec => []CancellationHonoured
  BY Invariance, PTL DEF IInv

\* A pull of the switch is audited at most once, and a cancelled one is recorded.
THEOREM OneAudit == Spec => []AuditedOnce
  <1>1. IInv => AuditedOnce
    BY DEF IInv, Audited, AuditedOnce
  <1> QED
    BY <1>1, Invariance, PTL
-----------------------------------------------------------------------------
(* What the report holds while the registry keeps still, and who is marked. *)

\* A marked switch of a running process has a running sweep.
Marked == marked /\ ~down => \E t \in Triggers : Sweeping(t)

\* With no change of the registry, the iterator passes all of it and nothing else, and the
\* rows a sweep ends with cover what was registered when it was pulled.
Reported ==
    resizes = 0 => \A t \in Triggers :
        /\ sweep[t] \in {"scheduled", "closing"} => steady[t] = registry
        /\ sweep[t] = "closing" => size = Cardinality(registry) /\ visited = results \cup {current}
        /\ sweep[t] \in {"counting", "done"} => steady[t] \subseteq rows[t]
        /\ caller[t] = "answered" => sweep[t] = "done"

\* Every step keeps the mark with a running sweep.
LEMMA MarkedStep == IInv /\ Marked /\ [Next]_vars => Marked'
  <1> SUFFICES ASSUME IInv, Marked, [Next]_vars PROVE Marked'
    OBVIOUS
  <1> USE DEF IInv, TypeOK, Guarded, Marked, Sweeping, callerVars, sweepVars, registryVars, loopVars
  <1>1. ASSUME NEW t \in Triggers, StartSweep(t) \/ AdapterAnswers(t)
        PROVE  Marked'
    <2>1. PICK done, n, seen : NextAdapter(t, done, n, seen)
      BY <1>1 DEF StartSweep, AdapterAnswers
    <2>2. sweep'[t] \in {"closing", "counting"}
      BY <2>1 DEF NextAdapter, CountAndFlush
    <2> QED
      BY <2>2
  <1>2. ASSUME NEW t \in Triggers, SweepReturns(t) \/ SweepRaises(t)
        PROVE  Marked'
    BY <1>2 DEF SweepReturns, SweepRaises, ClearMark
  <1>3. ASSUME NEW t \in Triggers, BeginTrigger(t)
        PROVE  Marked'
    BY <1>3 DEF BeginTrigger
  <1>4. ASSUME NEW t \in Triggers, AnswerInProgress(t) \/ CancelCaller(t) \/ CallerStep(t)
                                   \/ WriteEnds(t) \/ EndRequest(t)
        PROVE  Marked'
    BY <1>4 DEF AnswerInProgress, CancelCaller, CallerStep, ReturnReport, Propagate,
       SweepWasCancelled, BeginRecord, LeaveCancelled, WriteEnds, EndRequest
  <1>5. CASE Arm \/ Disarm \/ Shutdown \/ UNCHANGED vars
    BY <1>5 DEF Arm, Disarm, Shutdown, vars
  <1>6. ASSUME NEW a \in Adapters, DropAdapter(a) \/ AddAdapter(a)
        PROVE  Marked'
    BY <1>6 DEF DropAdapter, AddAdapter
  <1> QED
    BY <1>1, <1>2, <1>3, <1>4, <1>5, <1>6 DEF Next, SweepStep

\* A step of the iteration over a registry that keeps still.
LEMMA ReportGrows ==
    ASSUME IInv, Reported, NEW t \in Triggers, StartSweep(t) \/ AdapterAnswers(t)
    PROVE  Reported'
  <1> SUFFICES ASSUME resizes = 0 PROVE Reported'
    BY DEF StartSweep, AdapterAnswers, registryVars, Reported
  <1>1. Sweeping(t) /\ steady[t] = registry /\ registry \subseteq Adapters
    BY DEF IInv, TypeOK, Guarded, Sweeping, StartSweep, AdapterAnswers, Reported
  <1>2. PICK done \in SUBSET Adapters, seen \in SUBSET Adapters :
            NextAdapter(t, done, Cardinality(registry), seen) /\ seen = done
    <2>1. CASE StartSweep(t)
      BY <2>1 DEF StartSweep
    <2>2. CASE AdapterAnswers(t)
      <3>1. results \cup {current} \in SUBSET Adapters
        BY <2>2 DEF AdapterAnswers, IInv, TypeOK, Awaiting
      <3>2. size = Cardinality(registry) /\ visited = results \cup {current}
        BY <2>2 DEF AdapterAnswers, Reported
      <3> QED
        BY <2>2, <3>1, <3>2 DEF AdapterAnswers
    <2> QED
      BY <2>1, <2>2
  <1>3. UNCHANGED <<caller, registry, resizes, steady>>
    BY DEF StartSweep, AdapterAnswers, callerVars, registryVars
  <1>4. /\ sweep'[t] \in {"closing", "counting"}
        /\ sweep'[t] = "closing" => size' = Cardinality(registry) /\ visited' = results' \cup {current'}
        /\ sweep'[t] = "counting" => registry \subseteq rows'[t]
        /\ \A u \in Triggers \ {t} : sweep'[u] = sweep[u] /\ rows'[u] = rows[u]
    BY <1>2 DEF NextAdapter, CountAndFlush, IInv, TypeOK
  <1>5. \A u \in Triggers \ {t} : sweep[u] \notin {"scheduled", "closing"}
    BY <1>1 DEF IInv, Guarded, Sweeping
  <1>6. caller[t] = "waiting"
    BY <1>1 DEF IInv, Guarded
  <1> QED
    BY <1>1, <1>3, <1>4, <1>5, <1>6 DEF Reported

\* Every step keeps the report whole.
LEMMA ReportedStep == IInv /\ Reported /\ [Next]_vars => Reported'
  <1> SUFFICES ASSUME IInv, Reported, [Next]_vars,
                      \A t \in Triggers : ~StartSweep(t) /\ ~AdapterAnswers(t)
               PROVE  Reported'
    BY ReportGrows
  <1> USE DEF IInv, TypeOK, Guarded, Reported, Sweeping, callerVars, sweepVars, registryVars, loopVars
  <1>1. ASSUME NEW t \in Triggers, SweepReturns(t) \/ SweepRaises(t)
        PROVE  Reported'
    BY <1>1 DEF SweepReturns, SweepRaises
  <1>2. ASSUME NEW t \in Triggers, BeginTrigger(t)
        PROVE  Reported'
    BY <1>2 DEF BeginTrigger
  <1>3. ASSUME NEW t \in Triggers, AnswerInProgress(t) \/ CancelCaller(t) \/ CallerStep(t)
                                   \/ WriteEnds(t) \/ EndRequest(t)
        PROVE  Reported'
    BY <1>3 DEF AnswerInProgress, CancelCaller, CallerStep, ReturnReport, Propagate,
       SweepWasCancelled, BeginRecord, LeaveCancelled, WriteEnds, EndRequest
  <1>4. CASE Arm \/ Disarm \/ Shutdown \/ UNCHANGED vars
    BY <1>4 DEF Arm, Disarm, Shutdown, vars
  <1>5. ASSUME NEW a \in Adapters, DropAdapter(a) \/ AddAdapter(a)
        PROVE  Reported'
    BY <1>5 DEF DropAdapter, AddAdapter
  <1> QED
    BY <1>1, <1>2, <1>3, <1>4, <1>5 DEF Next, SweepStep

\* While no connection is made or dropped, the report names every account.
THEOREM StillReportWhole == Spec => []StillAccountsReported
  <1>1. Init => Reported
    BY DEF Init, Reported
  <1>2. Reported => StillAccountsReported
    BY DEF Reported, StillAccountsReported, AccountsReported
  <1> QED
    BY <1>1, <1>2, ReportedStep, Invariance, PTL DEF Spec

-----------------------------------------------------------------------------
(* The refinement. *)

\* Each step of the protocol is a step of the promise, or changes nothing it speaks of.
LEMMA StepRefines == IInv /\ Marked /\ [Next]_vars => [Promise!Next]_(Promise!vars)
  <1> SUFFICES ASSUME IInv, Marked, [Next]_vars PROVE [Promise!Next]_(Promise!vars)
    OBVIOUS
  <1> USE DEF IInv, TypeOK, Guarded, Sweeping, Told, callerVars, sweepVars, registryVars, loopVars,
              CallerStates
  <1>1. ASSUME NEW t \in Triggers, StartSweep(t) \/ AdapterAnswers(t)
        PROVE  UNCHANGED Promise!vars
    <2>1. PICK done, n, seen : NextAdapter(t, done, n, seen)
      BY <1>1 DEF StartSweep, AdapterAnswers
    <2>2. /\ sweep[t] \in {"scheduled", "closing"} /\ sweep'[t] \in {"closing", "counting"}
          /\ \A u \in Triggers \ {t} : sweep'[u] = sweep[u]
      BY <1>1, <2>1 DEF StartSweep, AdapterAnswers, NextAdapter, CountAndFlush
    <2>3. UNCHANGED <<armed, caller, noted>>
      BY <1>1 DEF StartSweep, AdapterAnswers
    <2> QED
      BY <2>2, <2>3 DEF Promise!vars
  <1>2. ASSUME NEW t \in Triggers, SweepReturns(t) \/ SweepRaises(t)
        PROVE  Promise!End
    <2>1. sweep[t] = "counting" /\ UNCHANGED <<armed, caller, noted>>
      BY <1>2 DEF SweepReturns, SweepRaises
    <2>2. sweep'[t] \in {"done", "raised"} /\ \A u \in Triggers \ {t} : sweep'[u] = sweep[u]
      BY <1>2 DEF SweepReturns, SweepRaises
    <2>3. Sweeping(t) /\ ~Sweeping(t)'
      BY <2>1, <2>2 DEF Sweeping
    <2>4. \A u \in Triggers : Sweeping(u) => u = t
      BY <2>3 DEF Guarded
    <2>5. \A u \in Triggers : ~Sweeping(u)'
      BY <2>2, <2>3, <2>4 DEF Sweeping
    <2>6. {u \in Triggers : Sweeping(u)} # {} /\ {u \in Triggers : Sweeping(u)'} = {}
      BY <2>3, <2>5, Zenon
    <2>7. \A u \in Triggers : Told(u)' = Told(u) /\ noted'[u] = noted[u]
      BY <2>1 DEF Told
    <2> QED
      BY <2>1, <2>6, <2>7 DEF Promise!End
  <1>3. ASSUME NEW t \in Triggers, BeginTrigger(t)
        PROVE  Promise!Begin(t)
    BY <1>3 DEF BeginTrigger, Promise!Begin
  <1>4. ASSUME NEW t \in Triggers, AnswerInProgress(t)
        PROVE  Promise!Decline(t)
    BY <1>4 DEF AnswerInProgress, Promise!Decline, Marked
  <1>5. ASSUME NEW t \in Triggers, CancelCaller(t)
        PROVE  Promise!Interrupt(t)
    BY <1>5 DEF CancelCaller, Promise!Interrupt
  <1>6. ASSUME NEW t \in Triggers, ReturnReport(t)
        PROVE  Promise!Tell(t, "report")
    BY <1>6 DEF ReturnReport, Promise!Tell
  <1>7. ASSUME NEW t \in Triggers, Propagate(t)
        PROVE  Promise!Tell(t, "failure")
    BY <1>7 DEF Propagate, Promise!Tell
  <1>8. ASSUME NEW t \in Triggers, SweepWasCancelled(t) \/ LeaveCancelled(t)
        PROVE  Promise!Tell(t, "cancelled")
    BY <1>8 DEF SweepWasCancelled, LeaveCancelled, Promise!Tell
  <1>9. ASSUME NEW t \in Triggers, BeginRecord(t) \/ WriteEnds(t) \/ EndRequest(t)
        PROVE  UNCHANGED Promise!vars
    BY <1>9 DEF BeginRecord, WriteEnds, EndRequest, Promise!vars
  <1>10. ASSUME Arm PROVE Promise!Arm
    BY <1>10 DEF Arm, Promise!Arm
  <1>11. ASSUME Disarm PROVE Promise!Disarm
    BY <1>11 DEF Disarm, Promise!Disarm
  <1>12. ASSUME Shutdown PROVE Promise!Halt
    <2> DEFINE waiting == {t \in Triggers : caller[t] \in {"waiting", "recording"}}
    <2>1. waiting \in SUBSET {t \in Triggers : [u \in Triggers |-> Told(u)][t] = "nothing"}
      OBVIOUS
    <2>2. {t \in Triggers : noted'[t]} = {t \in Triggers : noted[t]} \cup waiting
      BY <1>12 DEF Shutdown
    <2>3. {t \in Triggers : Sweeping(t)'} = {}
      BY <1>12 DEF Shutdown
    <2>4. UNCHANGED <<armed, caller>>
      BY <1>12 DEF Shutdown
    <2> QED
      BY <2>1, <2>2, <2>3, <2>4 DEF Promise!Halt
  <1>13. CASE UNCHANGED vars \/ \E a \in Adapters : DropAdapter(a) \/ AddAdapter(a)
    BY <1>13 DEF vars, DropAdapter, AddAdapter, Promise!vars
  <1> QED
    BY <1>1, <1>2, <1>3, <1>4, <1>5, <1>6, <1>7, <1>8, <1>9, <1>10, <1>11, <1>12, <1>13
    DEF Next, SweepStep, CallerStep, Promise!Next

\* The protocol of trigger(), disarm() and the sweep implements the promise of PanicStop.
THEOREM Implements == Spec => ImplementsPanicStop
  <1>1. Init => Promise!Init
    BY DEF Init, Promise!Init, Sweeping, Told
  <1>2. Init => Marked
    BY DEF Init, Marked
  <1> QED
    BY <1>1, <1>2, MarkedStep, StepRefines, Invariance, PTL DEF Spec, ImplementsPanicStop, Promise!Spec
=============================================================================
