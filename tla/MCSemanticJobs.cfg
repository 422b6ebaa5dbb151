SPECIFICATION FairSpec
CONSTANTS
  NumUploads = 2
  NumVoices = 2
  BatchSize = 1
  RetryMax = 1
  CallLimit = 1
  MaxAttempts = 2
  MaxMarkAttempts = 1
  MaxExecutions = 2
  MaxOverlaps <- LateOverlap
  None = None
INVARIANTS
  TypeOK
  PublishedOnce
  SucceededIsPublished
  NoPartialPublication
PROPERTIES
  ResumeOnlyMissing
  OutcomeSticks
  ExecutionCloses
