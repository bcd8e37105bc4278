\* Two streams of one subscription connect at the same time.
SPECIFICATION Spec
CONSTANTS
    Handlers = {h1, h2, h3}
    Types = {node}
    Width = 2
    MaxBusy = 2
    MaxEstablish = 1
    MaxRestarts = 0
    MaxFaults = 0
    Nil = Nil
    Torn = Torn
SYMMETRY HandlerSymmetry
INVARIANT EveryStreamRegistered
