SPECIFICATION FairSpec
CONSTANTS
  N = 2
  ItemId <- DistinctIds
  Prices = {1}
  Cap = 1
  NoCap = NoCap
  Legible = {TRUE, FALSE}
  TTL = 2
  Skew = 1
  Signed = FALSE
  Cancellable = FALSE
  MaxTime = 3
  MaxCalls = 4
  MaxFaults = 2

PROPERTY EventuallyDone
CHECK_DEADLOCK FALSE
