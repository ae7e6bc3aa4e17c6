\* One process, two jobs, fair scheduling.
CONSTANTS
  w1 = w1
  w2 = w2
  j1 = j1
  j2 = j2
  NoOwner = NoOwner
  NoJob = NoJob
  Workers <- OneWorker
  Jobs <- TwoJobs
  CliJobs <- OneJob
  ErrorClasses <- AnyClass
  MaxAttempts = 2
  LeaseDuration = 2
  RetryBackoff = 2
  MaxStops = 2
SPECIFICATION FairSpec
PROPERTY EveryJobSettles
