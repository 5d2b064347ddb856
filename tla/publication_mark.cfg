SPECIFICATION Spec
CONSTANTS
    h1 = h1
    h2 = h2
    d1 = d1
    Handlers = {h1, h2}
    PutHandlers = {h1}
    Drains = {}
    Startup = Startup
    Worker = Worker
    NoOne = NoOne
    MaxRev = 2
    MaxOther = 0
    Imports = FALSE
INVARIANT OwedWorkIsMarked
