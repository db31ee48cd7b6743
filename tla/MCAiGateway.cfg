\* One analysis at a time, an upstream that fails once. Nothing more happens once the probe is lost.
SPECIFICATION AiFairSpec
CONSTANTS
    Analyses = {a1}
    FailureThreshold = 1
    BudgetUsd = 4
    DowngradeUsd = 2
    FullCost = 2
    CheapCost = 1
    MaxUpstreamFailures = 1
    MaxAnalyses = 3
PROPERTY BreakerRecovers
CHECK_DEADLOCK FALSE
