SPECIFICATION Spec
CONSTANTS
  NumUploads = 1
  NumVoices = 1
  BatchSize = 1
  RetryMax = 2
  CallLimit = 2
  MaxAttempts = 3
  MaxMarkAttempts = 3
  MaxExecutions = 1
  MaxOverlaps <- NoOverlap
  None = None
INVARIANT RetriesWithinReservation
