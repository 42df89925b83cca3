SPECIFICATION MCSpec
CONSTANTS
  Symbols = {x, y}
  Lone = x
  Exchanges = {a, b}
  MaxPos = 1
  MaxLayers = 1
  Cooldown = 1
  MaxUnits = 5
  Faults = {"reject", "abort", "crash", "blind"}
INVARIANTS TypeOK Bookkeeping PassesAgree OnePairPerSymbol BookMatchesExchanges LayersBoundExposure
PROPERTIES OpensWithinLimits ConvergedPairsClose
