\* Requests one at a time, streams open beside them, one restart, one failed save.
SPECIFICATION Spec
CONSTANTS
    Handlers = {h1, h2, h3}
    Types = {node, link}
    Width = 4
    MaxBusy = 1
    MaxEstablish = 2
    MaxRestarts = 1
    MaxFaults = 1
    Nil = Nil
    Torn = Torn
SYMMETRY Symmetry
INVARIANTS TypeOK FileIsMemory HeldIsKept DeletedStaysDeleted StreamsTracked
PROPERTIES FreshId AudienceServed
