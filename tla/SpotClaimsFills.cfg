SPECIFICATION SpotSpec
CONSTANTS
    Lot = 1
    SpotSizes = {2}
    SpotPercents = {100}
    Rollback = TRUE
    DryRuns = {FALSE}
    SpotFaults = {"part_spot"}
    MaxSpotCalls = 1
PROPERTY SpotFillsAreActual
CHECK_DEADLOCK FALSE
