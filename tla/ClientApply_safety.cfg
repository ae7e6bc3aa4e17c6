\* Two runs at a time, kills, I/O errors, lost reports.
SPECIFICATION CaSpec
CONSTANTS
    c1 = c1
    c2 = c2
    NoClient = NoClient
    Clients <- TwoClients
    MaxKeys = 3
    MaxGenerations = 1
    MaxFaults = 1
SYMMETRY ClientSymmetry
INVARIANTS CaTypeOK KeysAreReused
PROPERTY ImplementsDeployment
