SPECIFICATION Spec
CONSTANTS
  Horizon = 4
  Samples = 2
  Skips = {0, 3}
  MaxChunks = 3
  None = None
INVARIANTS
  SegmentHasItsMasks
  PlayedInOrder
  PauseSilences
PROPERTY
  OnlyClearSilences
