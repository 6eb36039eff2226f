CONSTANTS
  MaxFindings = 1
  MaxPublishes = 2
SPECIFICATION WaitSpec
PROPERTY StopCutsWait
CHECK_DEADLOCK FALSE
