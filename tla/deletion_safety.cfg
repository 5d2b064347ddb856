SPECIFICATION Spec
CONSTANTS
    Requests = {q1, q2}
    Boot = boot
    NoOne = noOne
    Coexistence = TRUE
    MaxStore = 1
    MaxRev = 3
    MaxLog = 5
    CreateJobs = {"create", "migrate"}
    Operator = TRUE
SYMMETRY RequestSymmetry
INVARIANT TypeOK
INVARIANT PrunedIsRecorded
INVARIANT AnnouncementSurvives
 
 
 
