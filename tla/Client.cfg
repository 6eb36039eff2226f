CONSTANT N = 2
SPECIFICATION Spec
INVARIANTS TypeOK SuccessMeansStopped FaultNeedsFinalize NothingLeft
PROPERTY StopEndsRun
CHECK_DEADLOCK FALSE
