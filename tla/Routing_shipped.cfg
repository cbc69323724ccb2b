SPECIFICATION Spec
CONSTANTS
  LeaderRouting <- Shipped
  FollowerRouting <- Shipped
  Timeout = 1
  MaxTime = 3
  MaxFlight = 2
INVARIANTS
  ComparesThePeer
  SnapshotIsWhole
  NoJunk
CHECK_DEADLOCK FALSE
