----------------------------- MODULE UnitLedger -----------------------------
(***************************************************************************)
(* What the book of one position promises, with no passes, orders, answers *)
(* or retries: one sale at a time is out, for no more than what is left;   *)
(* each sale is entered once, for exactly what it sold; what the account   *)
(* no longer holds is written off once, against what others are known to   *)
(* have sold; and the position is closed by the row that completes it.     *)
(***************************************************************************)
EXTENDS Integers

CONSTANTS
    Bought,    \* units of the position
    Least,     \* what is less cannot be sold
    Sales,     \* the sales that may be made
    WrittenOff \* the entry of what is written off

VARIABLES
    sold,      \* by each sale
    gone,      \* sold by others, of the same account
    left,      \* units of the position
    entered,   \* units each entry took off the position
    recorded,  \* the entries whose row is stored
    closed     \* the position left the book

vars == <<sold, gone, left, entered, recorded, closed>>

Init ==
    /\ sold = [s \in Sales |-> 0] /\ gone = 0
    /\ left = Bought
    /\ entered = [e \in Sales \cup {WrittenOff} |-> 0]
    /\ recorded = {}
    /\ closed = FALSE

EnteredBut(s) == \A t \in Sales \ {s} : entered[t] = sold[t]

Sell(s, n) ==
    /\ n > 0 /\ sold[s] + n <= left
    /\ entered[s] = 0 /\ EnteredBut(s)
    /\ sold' = [sold EXCEPT ![s] = @ + n]
    /\ UNCHANGED <<gone, left, entered, recorded, closed>>

SellElsewhere ==
    /\ gone' > gone
    /\ UNCHANGED <<sold, left, entered, recorded, closed>>

Enter(s) ==
    /\ sold[s] > 0 /\ entered[s] = 0 /\ EnteredBut(s)
    /\ left' = left - sold[s]
    /\ entered' = [entered EXCEPT ![s] = sold[s]]
    /\ UNCHANGED <<sold, gone, recorded, closed>>

\* A rest that cannot be sold is forgiven.
WriteOff(n) ==
    /\ \A s \in Sales : entered[s] = sold[s]
    /\ left > 0 /\ entered[WrittenOff] = 0
    /\ n <= gone /\ left - n < Least
    /\ left' = 0
    /\ entered' = [entered EXCEPT ![WrittenOff] = n]
    /\ UNCHANGED <<sold, gone, recorded, closed>>

Complete == left = 0 /\ \A e \in Sales \cup {WrittenOff} : entered[e] > 0 => e \in recorded

Record(e) ==
    /\ entered[e] > 0 /\ e \notin recorded
    /\ recorded' = recorded \cup {e}
    /\ closed' = (closed \/ Complete')
    /\ UNCHANGED <<sold, gone, left, entered>>

Next ==
    \/ \E s \in Sales : Enter(s) \/ \E n \in 1..Bought : Sell(s, n)
    \/ SellElsewhere
    \/ \E n \in 0..left : WriteOff(n)
    \/ \E e \in Sales \cup {WrittenOff} : Record(e)

Spec == Init /\ [][Next]_vars
=============================================================================
