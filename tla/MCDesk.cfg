\* One of nine machines. They stop at the bounds of their counters.
SPECIFICATION DeskSpec
CONSTANTS
    Connections = {a1}
    Requests = {r1, r2}
    NoRequest = NoRequest
    MaxRequests = 2
    MaxBoots = 1
    MaxBackoff = 2
    Presses = {p1, p2, p3, p4}
    MaxStarts = 3
    MaxDeaths = 1
    OneAtATime = TRUE
    Accounts = 1
    Balances = {9, 10, 11}
    InitialBalance = 10
    DailyDdPct = 10
    MaxDdPct = 10
    MaxPasses = 3
    Callers = {c1, c2}
    MaxBridgeCalls = 2
    MaxExpiries = 1
    Sockets = {1, 2}
    MaxQueue = 2
    MaxMoves = 2
    MaxDrops = 1
    MaxMounts = 1
    MaxEvents = 1
    Calendars <- MCCalendars
    DayLength = 8
    MaxNow = 15
    NyLag = 2
    CacheTtl = 4
    PreEvent = 2
    PostEvent = 3
    M15Grid = 2
    LastBar = 4
    DayBars = 2
    Unserved <- MCUnserved
    Kind <- MCKind
    Home <- MCHome
    Orders <- MCOrders
    Nameless = {2}
    Sideless = {1}
    Behind <- MCBehind
    Late = {3}
    MaxPulls = 1
    MaxAsks = 1
    MaxFalls = 1
    Venues = {"alpaca", "simulator"}
    Signals <- MCSignals
    MarkReads <- MCMarkReads
    QuoteReads <- MCQuoteReads
    Budgets = {3, 32}
    MarkMaxAge = 1
    QuoteMaxAge = 2
    DriftsPerR = 4
    MinNotional = 50
    Increment = 4
    MinSize = 4
    FeePart = 4
    UnitsWindow = 1
    OtherTrades <- MCOtherTrades
    MaxOthers = 1
    MaxSignals = 2
INVARIANTS
    DeskTypeOK
    
    
    MonitorTellsLastPass
    QuietOnlyWhenQuiet
    CensusIsTrue
    AccountsTellTheTruth
    EntryTellsTruth
PROPERTIES
    RegistryFollowsWishes
    
    
CHECK_DEADLOCK FALSE
