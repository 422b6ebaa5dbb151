SPECIFICATION Spec
CONSTANTS
  NumUploads = 2
  NumVoices = 1
  BatchSize = 1
  RetryMax = 2
  CallLimit = 2
  MaxAttempts = 3
  MaxMarkAttempts = 3
  MaxExecutions = 2
  MaxOverlaps <- NoOverlap
  None = None
INVARIANT OneBillableExecution
