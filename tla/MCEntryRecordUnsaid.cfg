\* No crash: a stop that cuts a record's move short.
SPECIFICATION Spec
CONSTANTS
    BTC = BTC
    ETH = ETH
    NoPair = NoPair
    Pairs = {BTC, ETH}
    MaxDecisions = 2
    MaxConcurrent = 2
    MaxStarts = 2
    MaxCrashes = 0
PROPERTIES
    RefusedUntilOpen
CHECK_DEADLOCK FALSE
