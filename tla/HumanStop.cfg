SPECIFICATION FairSpec
CONSTANTS
  AssertFrames = 1
  Release = 3
  MaxMiss = 1
  MaxLoss = 1
  RecoveryBlock = 2
  Retries = 3
  MaxRestarts = 1
INVARIANTS
  TypeOK
  HaltedForPerson
PROPERTIES
  EveryLegEnds
