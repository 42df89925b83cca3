SPECIFICATION Spec
CONSTANTS
  Callers = {auto}
  Exchanges <- ClaimExchanges
  LotStep <- ClaimLotStep
  Sizes <- ClaimSizes
  Percents <- ClaimPercents
  TolPct = 1
  RollbackEnabled = TRUE
  Cached = {auto}
  DryRun = {}
  Faults = {"blind"}
  MaxCalls = 2
PROPERTIES ClosedMeansFlat
