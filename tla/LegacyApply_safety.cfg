\* bounds: certificates, killed processes, runs of the client, calls of the service
CONSTANTS
    Locked <- MCLocked
    Free <- MCFree
    Process <- MCProcess
    Nobody = "nobody"
    Server = "server"
    Worker = "worker"
    Admin = "admin"
    MaxIssued = 2
    MaxKills = 1
    MaxRuns = 2
    MaxCalls = 3
SPECIFICATION LaSpec
INVARIANTS
    LaTypeOK
    LivePairMatches
    
    
CHECK_DEADLOCK FALSE
