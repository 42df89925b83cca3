SPECIFICATION Spec
CONSTANTS
  Callers = {auto}
  Exchanges <- ClaimExchanges
  LotStep <- ClaimLotStep
  Sizes <- ClaimSizes
  Percents <- ClaimPercents
  TolPct = 1
  RollbackEnabled = TRUE
  Cached = {auto}
  DryRun = {}
  Faults = {"reject"}
  MaxCalls = 2
PROPERTIES RolledBackMeansHedged
