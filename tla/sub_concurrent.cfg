\* Two goroutines, both at work at once or one beside an open stream.
SPECIFICATION Spec
CONSTANTS
    Handlers = {h1, h2}
    Types = {node}
    Width = 3
    MaxBusy = 2
    MaxEstablish = 2
    MaxRestarts = 0
    MaxFaults = 0
    Nil = Nil
    Torn = Torn
SYMMETRY HandlerSymmetry
INVARIANTS HeldIsKept DeletedStaysDeleted
PROPERTIES FreshId OnlyRequestedTypes
