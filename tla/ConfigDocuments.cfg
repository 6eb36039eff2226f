CONSTANTS
  IntHalf = 2
  LongHalf = 8
  RuntimeDocs <- WideRuntimes
  PolicyDocs <- WidePolicies
  Options <- OneOption
  MaxCalls = 1
SPECIFICATION Spec
INVARIANTS TypeOK NumbersFaithful
CHECK_DEADLOCK FALSE
