SPECIFICATION FairSpec
CONSTANTS
  NumVoices = 4
  BatchSize = 3
  Concurrency = 2
  RetryMax = 2
  CallLimit = 5
INVARIANTS
  TypeOK
  HardLimit
  AccountedOnce
PROPERTIES
  KeepsContract
  Settles
