SPECIFICATION Spec
CONSTANTS
  Configs <- SomeConfigs
  Full = 3
  Period = 2
INVARIANTS
  SilentPolicyIsForgotten
  LostPeerIsForgotten
  NoStrayGravity
PROPERTY ScaleIsRateLimited
