SPECIFICATION FairSpec
CONSTANTS
  Fields = 2
  MaxFrame = 3
  PeerFrames = {1, 2}
  InboxCap = 1
  None = None
CHECK_DEADLOCK FALSE
INVARIANTS
  SentWhole
  SentInOrder
  LatestIsWhole
PROPERTIES
  FreshestIsSent
  StopCompletesUnlessFallingAsleep
