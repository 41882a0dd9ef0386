SPECIFICATION Spec
CONSTANTS
  K = 3
  Parallelism = 2
  MaxRetries = 1
  CompleteRetries = 1
  PollMax = 2
  Cooperative = TRUE
  TaskCancels = TRUE
  MaxCalls = 2
  MaxFaults = 2
INVARIANTS IInv NothingForgotten DoneMeansStored CancelReclaims
CHECK_DEADLOCK FALSE
