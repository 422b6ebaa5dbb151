SPECIFICATION Spec
CONSTANTS
  r1 = r1
  r2 = r2
  e1 = e1
  e2 = e2
  ann = ann
  bob = bob
  NoOne = NoOne
  AUTOMATED_PHASES <- OneGate
  Runs = {r1, r2}
  Executions = {e1, e2}
  RunOf <- TwoRuns
  Right = {e1, e2}
  Reviewers = {ann, bob}
  Inputs <- MostlyGood
  MaxAttempts = 2
  MaxVersions <- OneRevision
  MaxLate = 2
INVARIANTS
  PublicationIsEarned
  CompletedIsPublished
PROPERTIES
  ScopeKeepsRelease
SYMMETRY Interchangeable
