SPECIFICATION SourceSpec
CONSTANTS
  K = 2
  Width = 2
  Lanes = {l1, l2}
  MaxSources = 2
  Orphans = TRUE
INVARIANTS SliceReadsItsRange
CHECK_DEADLOCK FALSE
