SPECIFICATION FairSpec
CONSTANTS
  K = 3
  Parallelism = 2
  MaxRetries = 1
  CompleteRetries = 2
  PollMax = 2
  Cooperative = TRUE
  TaskCancels = FALSE
  MaxCalls = 1
  MaxFaults = 3
PROPERTIES CallReturns OrphansRest
CHECK_DEADLOCK FALSE
