SPECIFICATION Spec
CONSTANTS
  N = 2
  ItemId <- DistinctIds
  Prices = {1, 2}
  Cap = 1
  NoCap = NoCap
  Legible = {TRUE, FALSE}
  TTL = 2
  Skew = 1
  Signed = TRUE
  Cancellable = TRUE
  MaxTime = 3
  MaxCalls = 3
  MaxFaults = 2
CHECK_DEADLOCK FALSE
PROPERTIES PublishesAgainstLiveQuote
