\* An entry and an engine close on one symbol, foreign lots on another, when the switch is pulled. The system stops when all is done.
SPECIFICATION FairSpec
CONSTANTS
    e1 = e1
    c1 = c1
    s1 = s1
    s2 = s2
    Entries = {e1}
    Closes = {c1}
    Symbols = {s1, s2}
    SymbolOf <- EntryAndClose
    SweepB = SweepB
    NoOne = NoOne
INVARIANTS
    NoSecondSell
PROPERTIES
    ClosesAsOne
    SweepReports
    LockReleased
CHECK_DEADLOCK FALSE
