SPECIFICATION PromptSpec
CONSTANTS
  Pos = {0, 1}
  Tolerance = 0
  Timeout = 2
  Scale <- MirrorScale
  Offset = 1
  MaxTime = 3
  MaxFlight = 1
  MaxCrashes = 0
  None = None
INVARIANT
  NearIsMutual
PROPERTY
  LostOnlyToOvertaking
