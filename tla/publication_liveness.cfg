SPECIFICATION FairSpec
CONSTANTS
    h1 = h1
    h2 = h2
    d1 = d1
    Handlers = {h1}
    PutHandlers = {h1}
    Drains = {}
    Startup = Startup
    Worker = Worker
    NoOne = NoOne
    MaxRev = 2
    MaxOther = 1
    Imports = FALSE
PROPERTIES
    RestartDelivers
    RestartServes
