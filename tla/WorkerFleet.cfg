\* One coding run; three orders of the administrator, one stop or lost registration.
SPECIFICATION FairSpec
CONSTANTS
  r1 = r1
  NoRun = NoRun
  Run <- OneRun
  Coding <- OneRun
  Attests <- AllAttestations
  MaxOrders = 3
  MaxStops = 1
INVARIANT TypeOK
 
PROPERTY RowComesTrue
CHECK_DEADLOCK FALSE
