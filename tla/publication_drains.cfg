SPECIFICATION Spec
CONSTANTS
    h1 = h1
    h2 = h2
    d1 = d1
    Handlers = {h1}
    PutHandlers = {h1}
    Drains = {d1}
    Startup = Startup
    Worker = Worker
    NoOne = NoOne
    MaxRev = 1
    MaxOther = 0
    Imports = FALSE
INVARIANTS
    AcknowledgedIsDurable
    FloorBelowRow
