\* Requests one at a time, one end of the process, one failing file operation.
SPECIFICATION Spec
CONSTANTS
    Handlers = {h1, h2}
    Entries = {e1, e2}
    Fields = {f1, f2}
    Values = {v}
    Nil = Nil
    Twice = Twice
    Torn = Torn
    MaxBusy = 1
    MaxRequests = 3
    MaxRestarts = 1
    MaxFaults = 1
INVARIANT TypeOK
SYMMETRY Symmetry
PROPERTY ImplementsStore
\* The server rests when no client sends a request any more.
CHECK_DEADLOCK FALSE
