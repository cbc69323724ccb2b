SPECIFICATION FairSpec
CONSTANTS
  Role = "leader"
  Pos <- TwoPos
  SyncPos = 0
  Tolerance = 0
  Timeout = 1
  Scale <- MirrorScale
  Offset <- MirrorOffset
  MaxTime = 2
  None = None
INVARIANTS
  HoldOnLoss
  LinkNeedsContact
PROPERTIES
  Watchdog
  SilentPeerUnlinks
  CommandReturns
