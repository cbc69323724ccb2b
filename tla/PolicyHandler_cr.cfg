SPECIFICATION Spec
CONSTANTS
  Type = "cr"
  Horizon <- FourWaypoints
  Samples <- OneSample
  DefaultPause = 3
  LongPause = 4
  MaxChunks = 1
  MaxTime = 7
  None = None
CHECK_DEADLOCK FALSE
INVARIANTS
  NothingOldAfterPause
  CancelIsHonoured
PROPERTIES
  LostOnlyAtStart
  PromiseNeedsChunk
