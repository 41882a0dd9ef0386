SPECIFICATION Spec
CONSTANTS
  Targets = {"confirmed"}
  Lifecycle <- Changes
  Ladder = 5
  HasDeadline = TRUE
  Cancellable = FALSE
  MaxFaults = 1
INVARIANT TimeoutMeansUndecided
CHECK_DEADLOCK FALSE
