\* Two flushes that may overlap, two that fail; the buffer holds three of six lines.
SPECIFICATION FairSpec
CONSTANTS
  f1 = f1
  f2 = f2
  None = None
  Flush <- TwoFlushes
  Capacity = 3
  BatchSize = 2
  MaxSeq = 6
  MaxFailures = 2
INVARIANT TypeOK
INVARIANT LogIsAccounted
PROPERTY LinesArrive
CHECK_DEADLOCK FALSE
