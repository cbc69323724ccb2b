SPECIFICATION FairSpec
CONSTANT Configs <- SomeConfigs
CHECK_DEADLOCK FALSE
INVARIANTS
  NothingUsesTheGone
  GripperLeftStill
  CrashNeedsUnlikeArms
PROPERTIES
  ExitCompletes
  ExitKeyWorksUntilMistyped
