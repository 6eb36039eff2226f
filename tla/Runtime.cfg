CONSTANTS
  Configs <- MCConfigs
  MaxCalls = 3
  MaxInits = 3
SPECIFICATION Spec
INVARIANTS TypeOK NothingDangles LeakNeedsReinit FaultNeedsFailedReinit
  InitializesWhatWasConfigured NoSurplusSinks
CHECK_DEADLOCK FALSE
