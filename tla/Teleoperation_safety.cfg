SPECIFICATION Spec
CONSTANTS
  Pos = {0}
  Tolerance = 0
  Timeout = 1
  Scale <- MirrorScale
  Offset = 0
  MaxTime = 2
  MaxFlight = 2
  MaxCrashes = 1
  None = None
PROPERTIES
  DeadManSwitch
  RegressionIsBounded
