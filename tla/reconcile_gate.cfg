SPECIFICATION FairGate
CONSTANTS
    Uris = {u1}
    Workflows = {w1}
    NoOne = NoOne
    InitRev = 1
    MaxRev = 2
    LiveBatch = 3
    Requested = {FALSE}
    Faulty = {"indexer"}
    MaxFaults = 0
    RootMatchAttempts = 1
    MaxRuns = 1
    Races = TRUE
INVARIANTS
    TypeOK
    GateStillHolds
PROPERTIES
    FencedIsStill
    RecoveryAcknowledged
CHECK_DEADLOCK FALSE
