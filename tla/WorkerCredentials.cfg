\* Two rotations, two attempts each, two lost calls, and a restart or a failed write.
SPECIFICATION FairSpec
CONSTANTS
  t1 = t1
  t2 = t2
  t3 = t3
  t4 = t4
  NoToken = NoToken
  FirstToken = t1
  Token <- ThreeTokens
  Overlaps <- Either
  Attempts = 2
  MaxLost = 2
  MaxCrashes = 1
INVARIANT TypeOK
INVARIANT CredentialsSurvive
PROPERTY RotationCompletes
CHECK_DEADLOCK FALSE
