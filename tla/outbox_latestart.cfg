CONSTANTS
    s1 = s1
    Subscribers <- One
    MaxSeq = 2
    MaxRestarts = 0
    PollLimit = 2
    PageSize = 1
    Capacity = 1
    LateStart = TRUE
SPECIFICATION Spec
INVARIANT NoGap
CHECK_DEADLOCK FALSE
