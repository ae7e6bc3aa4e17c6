\* One client, no faults: an apply when renewal is due.
SPECIFICATION CaSpec
CONSTANTS
    c1 = c1
    c2 = c2
    NoClient = NoClient
    Clients <- OneClient
    MaxKeys = 1
    MaxGenerations = 1
    MaxFaults = 0
PROPERTY RenewalIsQueued
