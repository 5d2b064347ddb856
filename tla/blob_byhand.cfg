SPECIFICATION Spec
CONSTANTS
    MaxUploads = 4
    MaxGen = 2
    MaxAttempts = 6
    MaxWork = 2
    MaxCrashes = 0
    Deferred = 2
    Worker = FALSE
    ByHand = TRUE
INVARIANT OldDeleteNamesNoNewObject
 
INVARIANT AmbiguousIsRetired
INVARIANT UnconfirmedIsJournaled
PROPERTY DoneIsGone
CHECK_DEADLOCK FALSE
