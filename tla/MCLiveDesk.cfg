SPECIFICATION MCSpec
CONSTANTS
  Traders = {auto}
  Guards = {guard}
  Protectors = {protect}
  Monitors = {monitor}
  Callers = {auto, guard, protect}
  Exchanges <- MCExchanges
  Wired <- MCWired
  LotStep <- MCLotStep
  Sizes <- MCSizes
  Percents <- MCPercents
  TolPct = 1
  RollbackEnabled = TRUE
  Cached = {auto, guard, protect}
  DryRun = {}
  Faults = {"reject", "blind"}
  MaxCalls = 1
  MaxAwake = 2
INVARIANTS DeskTypeOK QuietDeskIsHedged
PROPERTIES
  GuardsOnlyReduce
  AlarmsAreTrue
  CloseAllFlattens
  OrphansAreReported
  EndangeredAreFlattened
