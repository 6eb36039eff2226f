CONSTANTS
  Topics = {"A", "B"}
  MaxSinks = 3
  MaxHandlers = 1
  MaxFindings = 2
SPECIFICATION Spec
INVARIANTS TypeOK RoutesWhenDisabledLast FanOut FailureIsReported
CHECK_DEADLOCK FALSE
