CONSTANTS
  Topics = {"A", "B"}
  MaxSinks = 2
  MaxHandlers = 1
  MaxFindings = 1
SPECIFICATION Spec
INVARIANT RoutesToConfiguredSinks
CHECK_DEADLOCK FALSE
