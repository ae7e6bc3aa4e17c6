\* Two processes (a rolling restart), one job, the operator at work.
CONSTANTS
  w1 = w1
  w2 = w2
  j1 = j1
  j2 = j2
  NoOwner = NoOwner
  NoJob = NoJob
  Workers <- TwoWorkers
  Jobs <- OneJob
  CliJobs <- OneJob
  ErrorClasses <- AnyClass
  MaxAttempts = 3
  LeaseDuration = 2
  RetryBackoff = 2
  MaxStops = 2
SPECIFICATION Spec
SYMMETRY WorkerSymmetry
INVARIANTS
  TypeOK
  RowShape
  LeaseHonoured
  ExclusiveExecution
PROPERTIES
  
  ImplementsJobQueue
