\* A PUT under the fairness of the Go scheduler.
SPECIFICATION FairSpec
CONSTANTS
    Handlers = {h1, h2}
    Entries = {e1}
    Fields = {f1}
    Values = {v}
    Nil = Nil
    Twice = Twice
    Torn = Torn
    MaxBusy = 2
    MaxRequests = 2
    MaxRestarts = 0
    MaxFaults = 0
PROPERTY EveryRequestAnswered
\* The server rests when no client sends a request any more.
CHECK_DEADLOCK FALSE
