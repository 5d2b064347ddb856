SPECIFICATION FairSpec
CONSTANTS
    Requests = {q1}
    Boot = boot
    NoOne = noOne
    Coexistence = FALSE
    MaxStore = 1
    MaxRev = 2
    MaxLog = 4
    CreateJobs = {"create"}
    Operator = FALSE
PROPERTY ResumeCompletes
