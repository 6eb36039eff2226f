CONSTANTS
  MaxFindings = 2
  MaxPublishes = 2
SPECIFICATION Spec
INVARIANTS TypeOK FaultNeedsFinalize NoOrphan TrueMeansWritten NoBlindWrite
PROPERTY PublishReturns
CHECK_DEADLOCK FALSE
