SPECIFICATION Spec
CONSTANTS
  Leverage = 10
  Default = 10
  Warning = 80
  Step = 10
  Farthest = 200
INVARIANT ClosedByTheWarning
CHECK_DEADLOCK FALSE
