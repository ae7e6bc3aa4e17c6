\* One process, no stop, no operator: a retryable failure.
CONSTANTS
  w1 = w1
  w2 = w2
  j1 = j1
  j2 = j2
  NoOwner = NoOwner
  NoJob = NoJob
  Workers <- OneWorker
  Jobs <- OneJob
  CliJobs <- NoJobs
  ErrorClasses <- PermanentOnly
  MaxAttempts = 3
  LeaseDuration = 2
  RetryBackoff = 2
  MaxStops = 0
SPECIFICATION Spec
PROPERTY RetryIsKept
