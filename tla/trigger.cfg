\* Two changes of a network with an element of every kind, announced by
\* triggers that repeat, overlap and may read their two files on both sides
\* of a change.
SPECIFICATION Spec
CONSTANTS
    Handlers = {h1, h2}
    w = w
    u = u
    l = l
    p = p
    q = q
    v1 = v1
    v2 = v2
    Networks = {w}
    Nodes = {u}
    Links = {l}
    Tps = {p}
    Ttps = {q}
    Values = {v1, v2}
    Wanted = {"NODE", "TP", "TTP", "LINK"}
    Topologies <- MCTopologies
    MaxBusy = 2
    MaxWrites = 2
    Nil = Nil
SYMMETRY Symmetry
INVARIANTS TypeOK CopyFollows
