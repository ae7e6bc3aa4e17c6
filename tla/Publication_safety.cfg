\* Runs, crashes at every step, renewals and one gc run.
SPECIFICATION Spec
CONSTANTS
    MaxGenerations = 2
    KeepRecent = 1
    Protected <- NoneProtected
    MaxGcs = 1
    MaxCrashes = 2
    Faults = TRUE
    MaxRows = 3
INVARIANTS TypeOK OneCurrentRow OnlyNewestPublishing SucceededHasCertificate CurrentIsRecorded
PROPERTY SettledRowsAreKept
