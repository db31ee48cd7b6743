\* Two entries on two pairs, two starts, one death of the process. It may end stopped.
SPECIFICATION FairSpec
CONSTANTS
    BTC = BTC
    ETH = ETH
    NoPair = NoPair
    Pairs = {BTC, ETH}
    MaxDecisions = 2
    MaxConcurrent = 2
    MaxStarts = 2
    MaxCrashes = 1
INVARIANTS
    OnePositionPerPair
PROPERTIES
    ManagedNeverAbandoned
    PendingClears
CHECK_DEADLOCK FALSE
