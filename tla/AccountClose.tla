---------------------------- MODULE AccountClose ----------------------------
(***************************************************************************)
(* What the kill switch takes the close of one account for, with no lock,  *)
(* sweeps, orders or answers: from the pull on no new entry is sent, and   *)
(* the close ends once.  When it ends in a report, the report covers what  *)
(* is open at that moment and whatever comes to be open after it, and what *)
(* it calls closed is sold for good.                                       *)
(***************************************************************************)
CONSTANTS
    Entries,   \* each opens a lot of its symbol
    Symbols,
    SymbolOf   \* the symbol of each entry

VARIABLES
    close,     \* idle, running, reported, raised or cancelled
    held,      \* the lots of the account: one held before per symbol, and one per entry
    sent,      \* the entries that the venue may have an order for
    excused,   \* the entries whose own task said that they may be open
    told,      \* the symbols that the report calls open
    sold       \* the lots that it calls closed

vars == <<close, held, sent, excused, told, sold>>

Init ==
    /\ close = "idle"
    /\ held \in SUBSET Symbols
    /\ sent = {} /\ excused = {} /\ told = {} /\ sold = {}

SymbolAt(l) == IF l \in Symbols THEN l ELSE SymbolOf[l]

\* Once it is written the report answers for every symbol that is open.
Accounted ==
    close = "reported" =>
        \A l \in held :
            \/ SymbolAt(l) \in told
            \/ \E e \in excused \cap held : SymbolAt(e) = SymbolAt(l)

Enter(e) ==
    /\ close = "idle"
    /\ sent' = sent \cup {e}
    /\ UNCHANGED <<close, held, excused, told, sold>>

\* The venue made no order.
Bounce(e) ==
    /\ e \in sent \ held
    /\ sent' = sent \ {e}
    /\ UNCHANGED <<close, held, excused, told, sold>>

Excuse(e) ==
    /\ excused' = excused \cup {e}
    /\ UNCHANGED <<close, held, sent, told, sold>>

Open(e) ==
    /\ e \in sent \ sold
    /\ held' = held \cup {e}
    /\ Accounted'
    /\ UNCHANGED <<close, sent, excused, told, sold>>

Sell(lots) ==
    /\ held' = held \ lots
    /\ Accounted'
    /\ UNCHANGED <<close, sent, excused, told, sold>>

Pull ==
    /\ close = "idle" /\ close' = "running"
    /\ UNCHANGED <<held, sent, excused, told, sold>>

Report ==
    /\ close = "running" /\ close' = "reported"
    /\ told' \subseteq Symbols /\ sold' \cap held = {}
    /\ UNCHANGED <<held, sent, excused>>
    /\ Accounted'

\* It raises, or its caller is cancelled: nothing is reported.
Fail ==
    /\ close = "running" /\ close' \in {"raised", "cancelled"}
    /\ UNCHANGED <<held, sent, excused, told, sold>>

Next ==
    \/ Pull \/ Report \/ Fail
    \/ \E e \in Entries : Enter(e) \/ Bounce(e) \/ Excuse(e) \/ Open(e)
    \/ \E lots \in SUBSET held : Sell(lots)

Spec == Init /\ [][Next]_vars
=============================================================================
