\* A close that ends part-filled leaves a rest below the minimum. The system stops when all is sold and written.
SPECIFICATION Spec
CONSTANTS
    Opened = 3
    Foreign = 0
    MinOrder = 2
    PartialPercent = 0
    MaxAttempts = 2
    LateOrders = FALSE
    NoClose = NoClose
INVARIANT ClosedIsResolved
CHECK_DEADLOCK FALSE
