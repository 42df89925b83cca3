SPECIFICATION SpotSpec
CONSTANTS
    Lot = 1
    SpotSizes = {2}
    SpotPercents = {100}
    Rollback = TRUE
    DryRuns = {TRUE, FALSE}
    SpotFaults = {}
    MaxSpotCalls = 2
PROPERTY SimulationPlacesNoSpotOrder
CHECK_DEADLOCK FALSE
