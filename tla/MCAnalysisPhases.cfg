SPECIFICATION FairSpec
CONSTANTS
  r1 = r1
  r2 = r2
  e1 = e1
  e2 = e2
  ann = ann
  bob = bob
  NoOne = NoOne
  AUTOMATED_PHASES <- TwoGates
  Runs = {r1}
  Executions = {e1, e2}
  RunOf <- OneRun
  Right = {e2}
  Reviewers = {ann}
  Inputs <- AnyInput
  MaxAttempts = 2
  MaxVersions <- TwoVersions
  MaxLate = 1
INVARIANTS
  TypeOK
  LedgerInOrder
  OnePublication
  SuccessIsWhole
PROPERTIES
  ExecutionCloses
