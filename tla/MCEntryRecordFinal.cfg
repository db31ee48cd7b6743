\* No crash: a stop and a start around the task that writes a result.
SPECIFICATION Spec
CONSTANTS
    BTC = BTC
    ETH = ETH
    NoPair = NoPair
    Pairs = {BTC, ETH}
    MaxDecisions = 2
    MaxConcurrent = 2
    MaxStarts = 2
    MaxCrashes = 0
PROPERTIES
    OutcomeFinal
CHECK_DEADLOCK FALSE
