SPECIFICATION Spec
CONSTANTS
  N = 2
  ItemId <- DistinctIds
  Prices = {1, 2}
  Cap = 1
  NoCap = NoCap
  Legible = {TRUE, FALSE}
  TTL = 2
  Skew = 1
  Signed = TRUE
  Cancellable = TRUE
  MaxTime = 3
  MaxCalls = 4
  MaxFaults = 3
INVARIANTS IInv ChargedOnce CapRespected RecordNamesItsItems StoredOnce
PROPERTIES ReceiptsKept ErrorCarriesReceipts ImplementsAnchorOnce
CHECK_DEADLOCK FALSE
