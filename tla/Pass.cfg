CONSTANTS
  N = 3
  TopicOf <- Shared
  MaxSamples = 2
SPECIFICATION Spec
INVARIANTS TypeOK SampleFate StoreMatchesBatch
PROPERTY StoreRelay
CHECK_DEADLOCK FALSE
