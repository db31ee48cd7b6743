\* Two pulls, two accounts and a registry that changes once, fair; no symmetry, since liveness is checked.
SPECIFICATION FairSpec
CONSTANTS
    Triggers = {t1, t2}
    Adapters = {a1, a2}
    NoAdapter = NoAdapter
    MaxResizes = 1
INVARIANTS
    CancellationHonoured
PROPERTIES
    ImplementsPanicStop
    PullsEnd
