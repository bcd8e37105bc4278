-------------------------- MODULE TopologyTrigger ---------------------------
(***************************************************************************)
(* GET /internal/trigger of ResponseGeneratorHandler.go, lines 69-330: the *)
(* handler reads two snapshots of the network topology that a controller   *)
(* leaves in .temp/, walks through both and sends a notification for every *)
(* node, termination point (TP), tunnel termination point (TTP) and link   *)
(* that was created, updated or deleted.                                   *)
(*                                                                         *)
(* A subscriber applies the notifications to its copy of the topology:     *)
(* the question is whether that copy follows the network.  A step is the   *)
(* reading of a file or one round of a loop.  The arrays of a snapshot are *)
(* sets here, and a loop takes their elements in any order; their ids are  *)
(* the YANG list keys, so no two elements share one.                       *)
(***************************************************************************)
EXTENDS Integers, FiniteSets

CONSTANTS
    Handlers,                            \* the goroutines that serve triggers
    Networks, Nodes, Links, Tps, Ttps,   \* the ids of the topology
    Values,                              \* what an element says of itself
    Wanted,                              \* the object types the subscriber asked for
    Topologies,                          \* the topologies the network goes through
    MaxBusy,                             \* bound: triggers at work at once
    MaxWrites,                           \* bound: changes the controller makes
    Nil                                  \* no such element, no such file

Kinds == {"NODE", "TP", "TTP", "LINK"}

ASSUME TriggerAssumption ==
    /\ Wanted \subseteq Kinds
    /\ {MaxBusy, MaxWrites} \subseteq Nat
    /\ IsFiniteSet(Handlers)

\* A list of a topology, by key.
List(ids) == [ids -> Values \cup {Nil}]

\* A node has lists of its own; its TP and TTP are indexed by object type.
Node == [own : Values, TP : List(Tps), TTP : List(Ttps)]

Network == [nodes : [Nodes -> Node \cup {Nil}], LINK : List(Links)]

Topology == [Networks -> Network \cup {Nil}]

ASSUME TopologiesAssumption == Topologies \subseteq Topology

ASSUME NilAssumption ==
    /\ Nil \notin Networks \cup Nodes \cup Values
    /\ Nil \notin Node
    /\ Nil \notin Network
    /\ Nil \notin Topology

VARIABLES
    world,               \* the topology the controller announced last
    previous, after,     \* .temp/database_previous.json and database_after.json
    pending,             \* the controller: writing, written, or read by a trigger
    writes,              \* counter of the bound
    pc,                  \* where each handler is
    old, new,            \* the snapshots it read
    nets, net,           \* the loop over networks
    nodes, node,         \* the loop over the nodes of a network
    todo,                \* the innermost loop
    copy,                \* the subscriber's copy of the topology
    known                \* the networks there since the subscriber's copy was made

files      == <<previous, after>>
controller == <<world, pending, writes>>
snapshots  == <<old, new>>
loops      == <<nets, net, nodes, node, todo>>
vars       == <<controller, files, pc, snapshots, loops, copy, known>>

Labels ==
    {"idle", "readAfter", "nets", "nodes", "NODE", "newNODE",
     "TP", "newTP", "TTP", "newTTP", "LINK", "newLINK"}

Busy  == {h \in Handlers : pc[h] # "idle"}
Quiet == Busy = {}

Goto(h, label) == pc' = [pc EXCEPT ![h] = label]

Present(list) == {i \in DOMAIN list : list[i] # Nil}

-----------------------------------------------------------------------------
(* The controller, outside this repository: it saves the topology before    *)
(* and after a change and calls the trigger.  It may repeat a call, and make *)
(* its next change when one has begun to read; but the first call for a      *)
(* change waits for the answers to the calls for the one before.             *)

WritePrevious ==
    /\ pending = "read"
    /\ writes < MaxWrites
    /\ writes' = writes + 1
    /\ previous' = world
    /\ pending' = "writing"
    /\ UNCHANGED <<world, after, pc, snapshots, loops, copy, known>>

WriteAfter ==
    /\ pending = "writing"
    /\ \E t \in Topologies :
         /\ world' = t
         /\ after' = t
         /\ known' = {n \in known : t[n] # Nil}
    /\ pending' = "written"
    /\ UNCHANGED <<previous, writes, pc, snapshots, loops, copy>>

-----------------------------------------------------------------------------
(* Notifications, lines 139-173 of SubscriptionCenter.go: SendAll with the *)
(* object type, the operation, the target and the value.                   *)

\* A node that is created, with all it has, or deleted.
ApplyNode(n, m, value) ==
    IF "NODE" \notin Wanted \/ copy[n] = Nil THEN copy
    ELSE [copy EXCEPT ![n].nodes[m] = value]

MutantApplyUpdate(n, m, own) ==
    IF "NODE" \notin Wanted \/ copy[n] = Nil THEN copy
    ELSE [copy EXCEPT ![n].nodes[m] = [own |-> own]]

Bare(own) == [own |-> own, TP |-> [i \in Tps |-> Nil], TTP |-> [i \in Ttps |-> Nil]]

\* The value of an updated node comes without its TPs and TTPs, which the
\* comparison removed from it: the subscriber keeps its own, if it has any.
ApplyUpdate(n, m, own) ==
    IF "NODE" \notin Wanted \/ copy[n] = Nil THEN copy
    ELSE [copy EXCEPT ![n].nodes[m] = IF @ = Nil THEN Bare(own) ELSE [@ EXCEPT !.own = own]]

ApplyLink(n, i, value) ==
    IF "LINK" \notin Wanted \/ copy[n] = Nil THEN copy
    ELSE [copy EXCEPT ![n].LINK[i] = value]

ApplyPoint(k, n, m, i, value) ==
    IF k \notin Wanted \/ copy[n] = Nil \/ copy[n].nodes[m] = Nil THEN copy
    ELSE [copy EXCEPT ![n].nodes[m][k][i] = value]

\* The event for one element of a list: deleted, or created or updated.
Apply(h, k, i, value) ==
    copy' = IF k = "LINK" THEN ApplyLink(net[h], i, value)
            ELSE ApplyPoint(k, net[h], node[h], i, value)

-----------------------------------------------------------------------------
(* The handler *)

Return(h) ==
    /\ Goto(h, "idle")
    /\ old' = [old EXCEPT ![h] = Nil]
    /\ new' = [new EXCEPT ![h] = Nil]
    /\ nets' = [nets EXCEPT ![h] = {}]
    /\ net' = [net EXCEPT ![h] = Nil]
    /\ UNCHANGED <<nodes, node, todo>>

\* Without a previous snapshot the trigger answers 404 and nothing changes.
ReadPrevious(h) ==
    /\ pc[h] = "idle"
    /\ Cardinality(Busy) < MaxBusy
    /\ pending = "written" => Quiet
    /\ previous # Nil
    /\ old' = [old EXCEPT ![h] = previous]
    /\ pending' = IF pending = "written" THEN "read" ELSE pending
    /\ Goto(h, "readAfter")
    /\ UNCHANGED <<world, writes, files, new, loops, copy, known>>

\* No snapshot after the change is a 404, an unchanged topology a 204.
ReadAfter(h) ==
    /\ pc[h] = "readAfter"
    /\ IF after \in {Nil, old[h]}
       THEN Return(h)
       ELSE /\ new' = [new EXCEPT ![h] = after]
            /\ nets' = [nets EXCEPT ![h] = Present(old[h])]
            /\ Goto(h, "nets")
            /\ UNCHANGED <<old, net, nodes, node, todo>>
    /\ UNCHANGED <<controller, files, copy, known>>

\* Networks that are in both snapshots are compared; one that appeared or
\* disappeared is not announced.
NextNetwork(h) ==
    /\ pc[h] = "nets"
    /\ \E n \in nets[h] :
         /\ nets' = [nets EXCEPT ![h] = @ \ {n}]
         /\ IF new[h][n] = Nil
            THEN UNCHANGED <<pc, net, nodes>>
            ELSE /\ net' = [net EXCEPT ![h] = n]
                 /\ nodes' = [nodes EXCEPT ![h] = Present(old[h][n].nodes)]
                 /\ Goto(h, "nodes")
    /\ UNCHANGED <<controller, files, snapshots, node, todo, copy, known>>

Answer(h) ==
    /\ pc[h] = "nets"
    /\ nets[h] = {}
    /\ Return(h)
    /\ UNCHANGED <<controller, files, copy, known>>

\* The lists the innermost loops compare, in the snapshots of the handler.
ListIn(snapshot, h, k) ==
    IF k = "LINK" THEN snapshot[h][net[h]].LINK ELSE snapshot[h][net[h]].nodes[node[h]][k]

MutantNextNode(h) ==
    /\ pc[h] = "nodes"
    /\ \E m \in nodes[h] :
         /\ nodes' = [nodes EXCEPT ![h] = @ \ {m}]
         /\ IF new[h][net[h]].nodes[m] = Nil
            THEN UNCHANGED <<pc, node, todo>>
            ELSE /\ node' = [node EXCEPT ![h] = m]
                 /\ todo' = [todo EXCEPT ![h] = Present(old[h][net[h]].nodes[m].TP)]
                 /\ Goto(h, "TP")
    /\ UNCHANGED <<controller, files, snapshots, nets, net, copy, known>>

\* The loop over the previous nodes: a node that is gone is deleted with all
\* it had, one that stayed has its TPs compared first.
NextNode(h) ==
    /\ pc[h] = "nodes"
    /\ \E m \in nodes[h] :
         /\ nodes' = [nodes EXCEPT ![h] = @ \ {m}]
         /\ IF new[h][net[h]].nodes[m] = Nil
            THEN copy' = ApplyNode(net[h], m, Nil) /\ UNCHANGED <<pc, node, todo>>
            ELSE /\ node' = [node EXCEPT ![h] = m]
                 /\ todo' = [todo EXCEPT ![h] = Present(old[h][net[h]].nodes[m].TP)]
                 /\ Goto(h, "TP")
                 /\ UNCHANGED copy
    /\ UNCHANGED <<controller, files, snapshots, nets, net, known>>

\* The loop over a previous list: an element is deleted, updated or the same.
Compare(h, k) ==
    /\ pc[h] = k
    /\ \E i \in todo[h] :
         /\ todo' = [todo EXCEPT ![h] = @ \ {i}]
         /\ IF ListIn(new, h, k)[i] # ListIn(old, h, k)[i]
            THEN Apply(h, k, i, ListIn(new, h, k)[i])
            ELSE UNCHANGED copy
    /\ UNCHANGED <<controller, files, pc, snapshots, nets, net, nodes, node, known>>

MutantAdded(h, k) == Present(ListIn(old, h, k)) \ Present(ListIn(new, h, k))

\* The loop over the new list, which passes over the ids that were there.
Added(h, k) == Present(ListIn(new, h, k)) \ Present(ListIn(old, h, k))

CompareDone(h, k) ==
    /\ pc[h] = k
    /\ todo[h] = {}
    /\ todo' = [todo EXCEPT ![h] = Added(h, k)]
    /\ Goto(h, CASE k = "TP" -> "newTP" [] k = "TTP" -> "newTTP" [] k = "LINK" -> "newLINK")
    /\ UNCHANGED <<controller, files, snapshots, nets, net, nodes, node, copy, known>>

Create(h, k, label) ==
    /\ pc[h] = label
    /\ \E i \in todo[h] :
         /\ todo' = [todo EXCEPT ![h] = @ \ {i}]
         /\ Apply(h, k, i, ListIn(new, h, k)[i])
    /\ UNCHANGED <<controller, files, pc, snapshots, nets, net, nodes, node, known>>

CreateDone(h, k, label, next) ==
    /\ pc[h] = label
    /\ todo[h] = {}
    /\ todo' = [todo EXCEPT ![h] = IF k = "TP" THEN Present(ListIn(old, h, "TTP")) ELSE {}]
    /\ Goto(h, next)
    /\ UNCHANGED <<controller, files, snapshots, nets, net, nodes, node, copy, known>>

\* The node itself, compared when its lists have been taken out of it.
UpdateNode(h) ==
    /\ pc[h] = "NODE"
    /\ LET before == old[h][net[h]].nodes[node[h]]
           now    == new[h][net[h]].nodes[node[h]]
       IN  copy' = IF before.own # now.own THEN ApplyUpdate(net[h], node[h], now.own) ELSE copy
    /\ node' = [node EXCEPT ![h] = Nil]
    /\ Goto(h, "nodes")
    /\ UNCHANGED <<controller, files, snapshots, nets, net, nodes, todo, known>>

NodesDone(h) ==
    /\ pc[h] = "nodes"
    /\ nodes[h] = {}
    /\ nodes' = [nodes EXCEPT ![h] =
                   Present(new[h][net[h]].nodes) \ Present(old[h][net[h]].nodes)]
    /\ Goto(h, "newNODE")
    /\ UNCHANGED <<controller, files, snapshots, nets, net, node, todo, copy, known>>

CreateNode(h) ==
    /\ pc[h] = "newNODE"
    /\ \E m \in nodes[h] :
         /\ nodes' = [nodes EXCEPT ![h] = @ \ {m}]
         /\ copy' = ApplyNode(net[h], m, new[h][net[h]].nodes[m])
    /\ UNCHANGED <<controller, files, pc, snapshots, nets, net, node, todo, known>>

CreateNodesDone(h) ==
    /\ pc[h] = "newNODE"
    /\ nodes[h] = {}
    /\ todo' = [todo EXCEPT ![h] = Present(old[h][net[h]].LINK)]
    /\ Goto(h, "LINK")
    /\ UNCHANGED <<controller, files, snapshots, nets, net, nodes, node, copy, known>>

-----------------------------------------------------------------------------
Init ==
    /\ world \in Topologies
    /\ copy = world
    /\ known = Present(world)
    /\ previous = Nil
    /\ after = Nil
    /\ pending = "read"
    /\ writes = 0
    /\ pc = [h \in Handlers |-> "idle"]
    /\ old = [h \in Handlers |-> Nil]
    /\ new = [h \in Handlers |-> Nil]
    /\ nets = [h \in Handlers |-> {}]
    /\ net = [h \in Handlers |-> Nil]
    /\ nodes = [h \in Handlers |-> {}]
    /\ node = [h \in Handlers |-> Nil]
    /\ todo = [h \in Handlers |-> {}]

ComparePoints(h) ==
    \/ Compare(h, "TP") \/ CompareDone(h, "TP")
    \/ Create(h, "TP", "newTP") \/ CreateDone(h, "TP", "newTP", "TTP")
    \/ Compare(h, "TTP") \/ CompareDone(h, "TTP")
    \/ Create(h, "TTP", "newTTP") \/ CreateDone(h, "TTP", "newTTP", "NODE")

CompareNodes(h) ==
    NextNode(h) \/ UpdateNode(h) \/ NodesDone(h) \/ CreateNode(h) \/ CreateNodesDone(h)

CompareLinks(h) ==
    \/ Compare(h, "LINK") \/ CompareDone(h, "LINK")
    \/ Create(h, "LINK", "newLINK") \/ CreateDone(h, "LINK", "newLINK", "nets")

Trigger(h) ==
    \/ ReadPrevious(h) \/ ReadAfter(h) \/ NextNetwork(h) \/ Answer(h)
    \/ CompareNodes(h) \/ ComparePoints(h) \/ CompareLinks(h)

Next == WritePrevious \/ WriteAfter \/ \E h \in Handlers : Trigger(h)

Spec == Init /\ [][Next]_vars

-----------------------------------------------------------------------------
(* Properties *)

\* Every variable has the values the code can give it.
TypeOK ==
    /\ world \in Topology
    /\ previous \in Topology \cup {Nil}
    /\ after \in Topology \cup {Nil}
    /\ pending \in {"writing", "written", "read"}
    /\ writes \in Nat
    /\ pc \in [Handlers -> Labels]
    /\ old \in [Handlers -> Topology \cup {Nil}]
    /\ new \in [Handlers -> Topology \cup {Nil}]
    /\ nets \in [Handlers -> SUBSET Networks]
    /\ net \in [Handlers -> Networks \cup {Nil}]
    /\ nodes \in [Handlers -> SUBSET Nodes]
    /\ node \in [Handlers -> Nodes \cup {Nil}]
    /\ todo \in [Handlers -> SUBSET (Links \cup Tps \cup Ttps)]
    /\ copy \in Topology
    /\ known \in SUBSET Networks

NodesFollow(n) ==
    \A m \in Nodes :
        /\ copy[n].nodes[m] = Nil <=> world[n].nodes[m] = Nil
        /\ copy[n].nodes[m] # Nil => copy[n].nodes[m].own = world[n].nodes[m].own

PointsFollow(n, k) ==
    \A m \in Nodes : copy[n].nodes[m] # Nil => copy[n].nodes[m][k] = world[n].nodes[m][k]

\* When every trigger is answered and the last change was announced, the
\* subscriber's copy of a network that was there all the time is the network:
\* whatever changes fell between the two reads of a trigger, and however
\* often a trigger was repeated, beside another one or after it.
CopyFollows ==
    Quiet /\ pending = "read" => \A n \in known :
        /\ "LINK" \in Wanted => copy[n].LINK = world[n].LINK
        /\ "NODE" \in Wanted => NodesFollow(n)
        /\ \A k \in Wanted \cap {"TP", "TTP"} : "NODE" \in Wanted => PointsFollow(n, k)
=============================================================================
