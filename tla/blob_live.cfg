SPECIFICATION Spec
CONSTANTS
    MaxUploads = 2
    MaxGen = 2
    MaxAttempts = 3
    MaxWork = 3
    MaxCrashes = 1
    Deferred = 2
    Worker = TRUE
    ByHand = FALSE
INVARIANT TypeOK
INVARIANT OneKeyInUse
CHECK_DEADLOCK FALSE
