\* Two clients at a time, kills, I/O errors, three generations.
SPECIFICATION DpSpec
CONSTANTS
    c1 = c1
    c2 = c2
    NoClient = NoClient
    Clients <- TwoClients
    MaxGenerations = 3
    MaxFaults = 2
INVARIANTS DpTypeOK SectionIsIsolated CurrentWasVerified ReportIsTrue
PROPERTY LockIsReleased
