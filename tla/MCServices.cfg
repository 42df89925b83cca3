SPECIFICATION ServicesSpec
CONSTANTS
    Exchanges = {"a"}
    MaxNonce = 1
    Faults = {"universe", "empty", "load"}
    First = "a"
    Second = "b"
    MaxPrice = 4
    Tickers <- MCTickers
    Lookbacks = {1, 2}
    Thresholds = {1, 3}
    MaxTime = 3
    Venues = {"a", "b"}
    Bare = {"b"}
    Unstamped = {"b"}
    Untimed = {"a"}
    QuoteAge = 1
    BookAge = 0
    Desync = 0
    QuoteFaults = {"rest"}
    Lot = 4
    SpotSizes = {2, 6}
    SpotPercents = {50, 100}
    Rollback = TRUE
    DryRuns = {TRUE, FALSE}
    MaxSpotCalls = 3
    SpotFaults = {"reject", "lost", "part_open", "part_close", "blind", "part_spot"}
    BookPrices = {1, 3}
    OpenAt = 1
    CloseAt = 0
    MaxPairs = 1
    Cooldown = 1
    WindowFaults = {"stream", "malformed"}
    Accounts <- MCAccounts
    ReadOnce = {"b"}
    MaxLegs = 3
    BoardFaults = {"fetch", "stream"}
INVARIANTS GatewaysReleased OpportunitiesHappened LegsInOneRow OpensOnFreshPrices SpotHedgeHolds
PROPERTIES StoppedWorkersDie AutoTradesAsTold ClosedWindowsEnd
CHECK_DEADLOCK FALSE
