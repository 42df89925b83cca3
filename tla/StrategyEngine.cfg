SPECIFICATION EngineSpec
CONSTANTS
 Prices = {1, 2}
 SpotPrices = {1}
 MaxRate = 1
 Times = {1, 2, 3}
INVARIANTS DeductsWhatAccrues
CHECK_DEADLOCK FALSE
