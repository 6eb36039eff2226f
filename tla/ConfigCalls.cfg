CONSTANTS
  IntHalf = 2
  LongHalf = 8
  RuntimeDocs <- FewRuntimes
  PolicyDocs <- FewPolicies
  Options <- SomeOptions
  MaxCalls = 3
SPECIFICATION Spec
INVARIANTS ConfigIsOneLoad OverridesReach
PROPERTY AllOrNothing
CHECK_DEADLOCK FALSE
