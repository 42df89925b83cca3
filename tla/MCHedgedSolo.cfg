SPECIFICATION ContractSpec
CONSTANTS
  Callers = {auto, sim}
  Exchanges <- MCExchanges
  LotStep <- MCLotStep
  Sizes <- MCSizes
  Percents <- MCPercents
  TolPct = 1
  RollbackEnabled = TRUE
  Cached = {auto}
  DryRun = {sim}
  Faults = {"reject", "lost", "part_open", "part_close", "blind", "abort"}
  MaxCalls = 2
  MaxSize = 2
INVARIANTS TypeOK HonestCallsKnowTheirLegs
PROPERTIES
  FillsAreActual
  NoSilentExposure
  ExitSuccessIsBalanced
  ContractKept
  SimulationPlacesNoOrder
