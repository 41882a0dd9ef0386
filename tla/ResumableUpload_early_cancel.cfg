SPECIFICATION Spec
CONSTANTS
  K = 2
  Parallelism = 2
  MaxRetries = 1
  CompleteRetries = 2
  PollMax = 2
  Cooperative = FALSE
  TaskCancels = TRUE
  MaxCalls = 2
  MaxFaults = 1
PROPERTY CancelAbandons
CHECK_DEADLOCK FALSE
