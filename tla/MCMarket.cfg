\* One of eleven machines. They stop at the bounds of their clocks and counters.
SPECIFICATION MarketSpec
CONSTANTS
    Prices = {1, 2, 3}
    SimOrders <- MCOrders
    MaxFills = 2
    MaxDays = 1
    StartingBalance = 10
    DailyLossAmount = 3
    DrawdownPct = 40
    TargetPct = 20
    Periods = {3, 4}
    HistoryCap = 3
    MaxMinute = 6
    Window = 3
    MinCandles = 2
    ExpiryBars = 1
    MaxBars = 5
    Pairs = {p1, p2}
    Reviews = {r1, r2}
    MaxAlerts = 3
    Analyses = {a1, a2}
    FailureThreshold = 1
    BudgetUsd = 4
    DowngradeUsd = 2
    FullCost = 2
    CheapCost = 1
    MaxUpstreamFailures = 4
    MaxAnalyses = 3
    Shapes <- MCShapes
    Wing = 2
    EqualsPerMille = 500
    PeriodBars = 2
    SuperOverlap = 3
    SuperLookback = 60
    WalkBack = 50
    Histories <- MCHistories
    Panels <- MCPanels
    PanelHistories <- MCPanelHistories
    HeavyMin = 2
    Trades <- MCTrades
    ExitPrices = {1, 2, 3, 4, 5, 6}
    MaxTicks = 4
    CloseHour = 3
    DayHours = 4
    FirstHours = {0, 2, 3}
    Gaps = {1, 3}
    Placements = {"MID", "FAR_EDGE", "NEAR_EDGE"}
    Starts <- MCStarts
    EntryBars <- MCEntryBars
    MaxEntryBars = 7
    EntryDay = 5
    MinDays = 1
    Required = 4
    FvgLookback = 4
    GapsPerAtr = 4
    BuffersPerAtr = 1
    MaxHold = 2
    RunnerHold = 3
    BarPolls = 2
    MaxPolls = 10
    MinSamples = 2
    SupplyMaxAge = 3
    CollectorStale = 2
    CollectorDown = 4
    PanelStale = 1
    PanelDown = 2
    HorizonBars = 3
    PageBars = 2
    PageAnswers <- MCPageAnswers
    ShadowStale = 1
    ShadowDown = 2
    BlockedFloor = 1
    MaxClock = 4
    MaxRuns = 2
    MaxEntries = 2
INVARIANTS
    MarketTypeOK
    PaperSettlesOnce
    
    
    OnePendingSignal
    OneProbePerOpening
    
    StopAnswersTarget
    ExitsAgree
    LiveFollowsBacktest
    BankedNeverLoses
    HealthFollowsFeed
    HealthTellsTruth
PROPERTIES
    NoFillPastDailyLoss
    
    BarsFinal
CHECK_DEADLOCK FALSE
