SPECIFICATION MCSpec
CONSTANTS
    MaxPairs = 2
    Markets <- AllMarkets
    WindowMarket <- AtoB
    MaxPos = 1
    MaxCharges = 2
    MaxBusy = 2
    Faults = {"write_fails", "unreadable", "crash"}
INVARIANTS TypeOK TraderWithinLimits
PROPERTIES ForgottenMeansClosed ReentryOnlyReplaces LedgerKept ClosedIsFinal BrokenPairsSettle
CHECK_DEADLOCK FALSE
