SPECIFICATION SpecWhole
CONSTANTS
    Uris = {u1}
    Workflows = {w1, w2}
    NoOne = NoOne
    InitRev = 1
    MaxRev = 2
    LiveBatch = 1
    Requested = {FALSE}
    Faulty = {"indexer", "workflow"}
    MaxFaults = 1
    RootMatchAttempts = 1
    MaxRuns = 2
    Races = FALSE
SYMMETRY Symmetry
INVARIANTS
    PartialIsFenced
    Converged
CHECK_DEADLOCK FALSE
