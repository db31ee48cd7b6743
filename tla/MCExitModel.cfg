\* The paper venue settles a partial at a mark of the pass before.
SPECIFICATION ExitSpec
CONSTANTS
    Trades <- MCTrades
    ExitPrices = {1, 2, 3, 4, 5, 6}
    MaxTicks = 4
    CloseHour = 3
    DayHours = 4
    FirstHours = {0, 2, 3}
    Gaps = {1, 3}
INVARIANTS
    PartialBanksItsLevel
CHECK_DEADLOCK FALSE
