SPECIFICATION ClaimSpec
CONSTANTS
  Symbols = {x}
  Exchanges = {a, b}
  MaxPos = 1
  MaxLayers = 0
  Cooldown = 0
  MaxUnits = 1
  Faults = {}
PROPERTY ClosesAreConsecutive
CHECK_DEADLOCK FALSE
