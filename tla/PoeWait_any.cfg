SPECIFICATION FairSpec
CONSTANTS
  Targets = {"submitted", "confirmed"}
  Lifecycle <- Changes
  Ladder = 5
  HasDeadline = TRUE
  Cancellable = TRUE
  MaxFaults = 6
INVARIANTS WaitInv OutcomeIsTrue
PROPERTY EventuallyEnds
CHECK_DEADLOCK FALSE
