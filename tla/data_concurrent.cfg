\* Two requests at work at once, of three, under the fairness of the Go
\* scheduler, with one failing file operation.
SPECIFICATION FairSpec
CONSTANTS
    Handlers = {h1, h2}
    Entries = {e1}
    Fields = {f1}
    Values = {v}
    Nil = Nil
    Twice = Twice
    Torn = Torn
    MaxBusy = 2
    MaxRequests = 3
    MaxRestarts = 0
    MaxFaults = 1
INVARIANTS TagIdentifiesContent
PROPERTIES LostInRacesOnly RequestsEnd
\* The server rests when no client sends a request any more.
CHECK_DEADLOCK FALSE
