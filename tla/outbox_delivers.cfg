CONSTANTS
    s1 = s1
    Subscribers <- One
    MaxSeq = 3
    MaxRestarts = 1
    PollLimit = 2
    PageSize = 1
    Capacity = 1
    LateStart = FALSE
SPECIFICATION FairSpec
PROPERTY Delivered
CHECK_DEADLOCK FALSE
INVARIANTS TypeOK NoGap InOrderOnce
