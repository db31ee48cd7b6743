\* Three units and a foreign one, two attempts a leg. The system stops when all is sold and written.
SPECIFICATION FairSpec
CONSTANTS
    Opened = 3
    Foreign = 1
    MinOrder = 1
    PartialPercent = 70
    MaxAttempts = 2
    LateOrders = FALSE
    NoClose = NoClose
INVARIANTS
    NoForeignSold
PROPERTIES
    ImplementsLedger
    ClosedGetsResolved
CHECK_DEADLOCK FALSE
