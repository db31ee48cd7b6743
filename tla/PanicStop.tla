----------------------------- MODULE PanicStop -----------------------------
(***************************************************************************)
(* What the kill switch promises to those who pull it, with no task, lock  *)
(* or session: at most one sweep at a time, never over an unarmed switch;  *)
(* nobody is told an outcome while its own sweep is running; and a caller  *)
(* that was interrupted is told of the interruption, not of a report.      *)
(***************************************************************************)
CONSTANT Triggers

VARIABLES
    armed,        \* the switch refuses entries
    active,       \* the triggers whose sweep is running
    interrupted,  \* the triggers whose caller was cancelled
    told          \* what each caller was told

vars == <<armed, active, interrupted, told>>

Outcomes == {"in progress", "report", "failure", "cancelled"}

TypeOK ==
    /\ armed \in BOOLEAN
    /\ active \subseteq Triggers
    /\ interrupted \subseteq Triggers
    /\ told \in [Triggers -> Outcomes \cup {"nothing"}]

Init ==
    /\ armed = FALSE
    /\ active = {} /\ interrupted = {}
    /\ told = [t \in Triggers |-> "nothing"]

Arm == armed' = TRUE /\ UNCHANGED <<active, interrupted, told>>

Disarm ==
    /\ active = {}
    /\ armed' = FALSE
    /\ UNCHANGED <<active, interrupted, told>>

Begin(t) ==
    /\ active = {} /\ told[t] = "nothing"
    /\ active' = {t}
    /\ armed' = TRUE
    /\ UNCHANGED <<interrupted, told>>

Decline(t) ==
    /\ active # {} /\ t \notin active /\ told[t] = "nothing"
    /\ told' = [told EXCEPT ![t] = "in progress"]
    /\ UNCHANGED <<armed, active, interrupted>>

End ==
    /\ active # {}
    /\ active' = {}
    /\ UNCHANGED <<armed, interrupted, told>>

Interrupt(t) ==
    /\ told[t] = "nothing"
    /\ interrupted' = interrupted \cup {t}
    /\ UNCHANGED <<armed, active, told>>

\* The shutdown ends the sweep and interrupts whoever waits for it.
Halt ==
    /\ active' = {}
    /\ \E waiting \in SUBSET {t \in Triggers : told[t] = "nothing"} :
          interrupted' = interrupted \cup waiting
    /\ UNCHANGED <<armed, told>>

Tell(t, outcome) ==
    /\ t \notin active /\ told[t] = "nothing"
    /\ t \in interrupted => outcome = "cancelled"
    /\ told' = [told EXCEPT ![t] = outcome]
    /\ UNCHANGED <<armed, active, interrupted>>

Next ==
    \/ Arm \/ Disarm \/ End \/ Halt
    \/ \E t \in Triggers :
          \/ Begin(t) \/ Decline(t) \/ Interrupt(t)
          \/ \E outcome \in {"report", "failure", "cancelled"} : Tell(t, outcome)

Spec == Init /\ [][Next]_vars
=============================================================================
