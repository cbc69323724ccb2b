SPECIFICATION FairSpec
CONSTANTS
  PolicyNodes = {"leader", "follower"}
  PolicyGrips = {2}
  Residue = 1
  WireCap = 2
  None = None
INVARIANTS
  OperatorKeepsPriority
PROPERTIES
  CancelStopsGripper
  OperatorGripArrives
  CancelArrives
  CancelEnds
