\* Work that is started and an operator who refreshes, over a sound commit and one that is not.
SPECIFICATION FairSpec
CONSTANTS
  k1 = k1
  k2 = k2
  Caller = {k1, k2}
  Operator = {k2}
  Commits = 2
  Sound = {1}
CHECK_DEADLOCK FALSE
INVARIANT TypeOK
INVARIANT WorkIsGrounded
PROPERTY NewPolicyArrives
