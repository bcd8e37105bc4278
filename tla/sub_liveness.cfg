\* Two requests at work at once beside open streams, under the fairness of the
\* Go scheduler. A notification that hangs in conn.Send is one of the two.
SPECIFICATION FairSpec
CONSTANTS
    Handlers = {h1, h2, h3}
    Types = {node}
    Width = 2
    MaxBusy = 2
    MaxEstablish = 1
    MaxRestarts = 0
    MaxFaults = 0
    Nil = Nil
    Torn = Torn
PROPERTIES RequestsAdvance RequestsEnd NotificationsEnd DeletedStreamsEnd
