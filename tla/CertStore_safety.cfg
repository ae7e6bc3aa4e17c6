\* Publications, crashes and overlapping gc runs that keep the newest release.
SPECIFICATION CsSpec
CONSTANTS
    MaxGenerations = 4
    KeepRecent = 1
    Protected <- NoneProtected
    MaxGcs = 2
    MaxCrashes = 2
INVARIANTS CsTypeOK CurrentIsWhole SuccessIsPublished RevisionsDiffer
PROPERTY CurrentAdvances
