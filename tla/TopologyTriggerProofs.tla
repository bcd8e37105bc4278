------------------------ MODULE TopologyTriggerProofs ------------------------
(***************************************************************************)
(* Type correctness of TopologyTrigger for any topologies and any number   *)
(* of triggers at once: a trigger finds in both of its snapshots whatever  *)
(* its loops take it to, and what it announces leaves the copy of the      *)
(* subscriber a topology.                                                  *)
(* And its copy is right in the end: when every trigger was answered and   *)
(* the last change was announced, it is what the controller has.           *)
(***************************************************************************)
EXTENDS TopologyTrigger, TLAPS

\* Inside the loop over the networks, and inside that over the nodes.
InNetwork == Labels \ {"idle", "readAfter", "nets"}
AtNode    == {"NODE", "TP", "newTP", "TTP", "newTTP"}

\* The elements the loops of h are at are in both snapshots.
Located(h) ==
    /\ pc[h] # "idle" => old[h] \in Topology
    /\ pc[h] \notin {"idle", "readAfter"} => new[h] \in Topology /\ nets[h] \subseteq Present(old[h])
    /\ pc[h] \in InNetwork =>
         net[h] \in Networks /\ old[h][net[h]] # Nil /\ new[h][net[h]] # Nil
    /\ pc[h] \in AtNode =>
         node[h] \in Nodes /\ old[h][net[h]].nodes[node[h]] # Nil
           /\ new[h][net[h]].nodes[node[h]] # Nil
    /\ pc[h] \in AtNode \cup {"nodes"} => nodes[h] \subseteq Present(old[h][net[h]].nodes)
    /\ pc[h] = "newNODE" => nodes[h] \subseteq Present(new[h][net[h]].nodes)
    /\ pc[h] \in {"TP", "newTP"} => todo[h] \subseteq Tps
    /\ pc[h] \in {"TTP", "newTTP"} => todo[h] \subseteq Ttps
    /\ pc[h] \in {"LINK", "newLINK"} => todo[h] \subseteq Links

IInv == TypeOK /\ \A h \in Handlers : Located(h)

-----------------------------------------------------------------------------
(* Elements of topologies *)

\* A network of a topology, when it is there, is one.
LEMMA NetworkOf ==
    ASSUME NEW t \in Topology, NEW n \in Networks, t[n] # Nil
    PROVE  /\ t[n] \in Network
           /\ t[n].LINK \in List(Links)
           /\ DOMAIN t[n].nodes = Nodes
           /\ \A m \in Nodes : t[n].nodes[m] \in Node \cup {Nil}
<1>1. t[n] \in Network
  BY DEF Topology
<1> QED
  BY <1>1 DEF Network

\* A node, when it is there, is one, and has its two lists.
LEMMA NodeOf ==
    ASSUME NEW t \in Topology, NEW n \in Networks, t[n] # Nil,
           NEW m \in Nodes, t[n].nodes[m] # Nil
    PROVE  /\ t[n].nodes[m] \in Node
           /\ t[n].nodes[m].own \in Values
           /\ t[n].nodes[m].TP \in List(Tps)
           /\ t[n].nodes[m].TTP \in List(Ttps)
<1>1. t[n].nodes[m] \in Node
  BY NetworkOf
<1> QED
  BY <1>1 DEF Node

\* What is there of a list is some of its ids.
LEMMA PresentIds ==
    ASSUME NEW ids, NEW S, NEW list \in [ids -> S]
    PROVE  Present(list) \subseteq ids
  BY DEF Present

-----------------------------------------------------------------------------
(* Notifications leave a topology *)

\* The networks of t are in u.
Keeps(t, u) == \A n \in Networks : t[n] # Nil => u[n] # Nil

LEMMA NetworkReplaced ==
    ASSUME NEW t \in Topology, NEW n \in Networks, NEW w \in Network
    PROVE  [t EXCEPT ![n] = w] \in Topology /\ Keeps(t, [t EXCEPT ![n] = w])
<1>1. w # Nil
  BY NilAssumption
<1> QED
  BY <1>1 DEF Topology, Keeps

\* The topology t with x for a node of it.
WithNode(t, n, m, x) == [t EXCEPT ![n].nodes[m] = x]

LEMMA NodeReplaced ==
    ASSUME NEW t \in Topology, NEW n \in Networks, t[n] # Nil,
           NEW m \in Nodes, NEW x \in Node \cup {Nil}
    PROVE  WithNode(t, n, m, x) \in Topology /\ Keeps(t, WithNode(t, n, m, x))
<1> DEFINE w == [t[n] EXCEPT !.nodes[m] = x]
<1>1. t[n] \in Network
  BY NetworkOf
<1>2. w \in Network
  BY <1>1 DEF Network
<1>3. WithNode(t, n, m, x) = [t EXCEPT ![n] = w]
  BY DEF WithNode
<1> HIDE DEF w
<1>4. [t EXCEPT ![n] = w] \in Topology /\ Keeps(t, [t EXCEPT ![n] = w])
  BY <1>2, NetworkReplaced, Zenon
<1> QED
  BY <1>3, <1>4, Zenon

LEMMA NodeApplied ==
    ASSUME copy \in Topology, NEW n \in Networks, NEW m \in Nodes, NEW value \in Node \cup {Nil}
    PROVE  ApplyNode(n, m, value) \in Topology /\ Keeps(copy, ApplyNode(n, m, value))
<1>1. CASE "NODE" \notin Wanted \/ copy[n] = Nil
  BY <1>1 DEF ApplyNode, Keeps
<1>2. CASE ~("NODE" \notin Wanted \/ copy[n] = Nil)
  BY <1>2, NodeReplaced DEF ApplyNode, WithNode
<1> QED
  BY <1>1, <1>2

\* What the subscriber makes of a node whose data is updated.
Updated(x, own) == IF x = Nil THEN Bare(own) ELSE [x EXCEPT !.own = own]

LEMMA UpdatedNode ==
    ASSUME NEW x \in Node \cup {Nil}, NEW own \in Values
    PROVE  Updated(x, own) \in Node
<1>1. Bare(own) \in Node
  BY DEF Bare, Node, List
<1>2. CASE x # Nil
  BY <1>2 DEF Updated, Node
<1> QED
  BY <1>1, <1>2 DEF Updated

LEMMA UpdateApplied ==
    ASSUME copy \in Topology, NEW n \in Networks, NEW m \in Nodes, NEW own \in Values
    PROVE  ApplyUpdate(n, m, own) \in Topology /\ Keeps(copy, ApplyUpdate(n, m, own))
<1>1. CASE "NODE" \notin Wanted \/ copy[n] = Nil
  BY <1>1 DEF ApplyUpdate, Keeps
<1>2. CASE ~("NODE" \notin Wanted \/ copy[n] = Nil)
  <2> DEFINE now == Updated(copy[n].nodes[m], own)
  <2>1. ApplyUpdate(n, m, own) = WithNode(copy, n, m, now)
    BY <1>2 DEF ApplyUpdate, WithNode, Updated
  <2>2. now \in Node
    BY <1>2, NetworkOf, UpdatedNode
  <2> HIDE DEF now
  <2> QED
    BY <1>2, <2>1, <2>2, NodeReplaced
<1> QED
  BY <1>1, <1>2

LEMMA LinkApplied ==
    ASSUME copy \in Topology, NEW n \in Networks, NEW i \in Links, NEW value \in Values \cup {Nil}
    PROVE  ApplyLink(n, i, value) \in Topology /\ Keeps(copy, ApplyLink(n, i, value))
<1>1. CASE "LINK" \notin Wanted \/ copy[n] = Nil
  BY <1>1 DEF ApplyLink, Keeps
<1>2. CASE ~("LINK" \notin Wanted \/ copy[n] = Nil)
  <2> DEFINE w == [copy[n] EXCEPT !.LINK[i] = value]
  <2>1. ApplyLink(n, i, value) = [copy EXCEPT ![n] = w]
    BY <1>2 DEF ApplyLink
  <2>2. copy[n] \in Network
    BY <1>2, NetworkOf
  <2>3. w \in Network
    BY <2>2 DEF Network, List
  <2> HIDE DEF w
  <2>4. [copy EXCEPT ![n] = w] \in Topology /\ Keeps(copy, [copy EXCEPT ![n] = w])
    BY <2>3, NetworkReplaced
  <2> QED
    BY <2>1, <2>4
<1> QED
  BY <1>1, <1>2

LEMMA PointApplied ==
    ASSUME copy \in Topology, NEW n \in Networks, NEW m \in Nodes,
           NEW k \in {"TP", "TTP"}, NEW i, NEW value \in Values \cup {Nil},
           k = "TP" => i \in Tps, k = "TTP" => i \in Ttps
    PROVE  ApplyPoint(k, n, m, i, value) \in Topology /\ Keeps(copy, ApplyPoint(k, n, m, i, value))
<1>1. CASE k \notin Wanted \/ copy[n] = Nil \/ copy[n].nodes[m] = Nil
  BY <1>1 DEF ApplyPoint, Keeps
<1>2. CASE ~(k \notin Wanted \/ copy[n] = Nil \/ copy[n].nodes[m] = Nil)
  <2> DEFINE x == [copy[n].nodes[m] EXCEPT ![k][i] = value]
  <2>1. ApplyPoint(k, n, m, i, value) = WithNode(copy, n, m, x)
    BY <1>2 DEF ApplyPoint, WithNode
  <2>2. copy[n].nodes[m] \in Node
    BY <1>2, NodeOf
  <2>3. x \in Node
    <3>1. CASE k = "TP"
      BY <2>2, <3>1 DEF Node, List
    <3>2. CASE k = "TTP"
      BY <2>2, <3>2 DEF Node, List
    <3> QED
      BY <3>1, <3>2
  <2> HIDE DEF x
  <2> QED
    BY <1>2, <2>1, <2>3, NodeReplaced
<1> QED
  BY <1>1, <1>2

-----------------------------------------------------------------------------
(* Where the loops of a handler are *)

\* The ids of the lists that the loops for k compare, and the label of the
\* second of the two loops.
Ids(k)      == IF k = "LINK" THEN Links ELSE IF k = "TP" THEN Tps ELSE Ttps
NewLabel(k) == IF k = "LINK" THEN "newLINK" ELSE IF k = "TP" THEN "newTP" ELSE "newTTP"
ListKinds   == {"TP", "TTP", "LINK"}

LEMMA ListsFound ==
    ASSUME IInv, NEW h \in Handlers, NEW k \in ListKinds, pc[h] \in {k, NewLabel(k)}
    PROVE  /\ ListIn(old, h, k) \in List(Ids(k))
           /\ ListIn(new, h, k) \in List(Ids(k))
           /\ todo[h] \subseteq Ids(k)
           /\ net[h] \in Networks
           /\ k # "LINK" => node[h] \in Nodes
<1>1. /\ old[h] \in Topology /\ new[h] \in Topology /\ net[h] \in Networks
      /\ old[h][net[h]] # Nil /\ new[h][net[h]] # Nil
  BY DEF IInv, Located, InNetwork, Labels, ListKinds, NewLabel
<1>2. CASE k = "LINK"
  <2>1. old[h][net[h]].LINK \in List(Links) /\ new[h][net[h]].LINK \in List(Links)
    BY <1>1, NetworkOf
  <2>2. todo[h] \subseteq Links
    BY <1>2 DEF IInv, Located, NewLabel
  <2> QED
    BY <1>1, <1>2, <2>1, <2>2 DEF ListIn, Ids
<1>3. CASE k # "LINK"
  <2>1. pc[h] \in AtNode
    BY <1>3 DEF AtNode, ListKinds, NewLabel
  <2>2. /\ node[h] \in Nodes
        /\ old[h][net[h]].nodes[node[h]] # Nil /\ new[h][net[h]].nodes[node[h]] # Nil
    BY <2>1 DEF IInv, Located
  <2>3. /\ old[h][net[h]].nodes[node[h]].TP \in List(Tps)
        /\ old[h][net[h]].nodes[node[h]].TTP \in List(Ttps)
    BY <1>1, <2>2, NodeOf
  <2>4. /\ new[h][net[h]].nodes[node[h]].TP \in List(Tps)
        /\ new[h][net[h]].nodes[node[h]].TTP \in List(Ttps)
    BY <1>1, <2>2, NodeOf
  <2>5. todo[h] \subseteq Ids(k)
    BY <1>3 DEF IInv, Located, NewLabel, Ids, ListKinds
  <2>6. CASE k = "TP"
    BY <1>1, <2>2, <2>3, <2>4, <2>5, <2>6 DEF ListIn, Ids
  <2>7. CASE k = "TTP"
    BY <1>1, <2>2, <2>3, <2>4, <2>5, <2>7 DEF ListIn, Ids
  <2> QED
    BY <1>3, <2>6, <2>7 DEF ListKinds
<1> QED
  BY <1>2, <1>3

LEMMA Applied ==
    ASSUME IInv, NEW h \in Handlers, NEW k \in ListKinds, pc[h] \in {k, NewLabel(k)},
           NEW i \in Ids(k), NEW value \in Values \cup {Nil}, Apply(h, k, i, value)
    PROVE  copy' \in Topology /\ Keeps(copy, copy')
<1>1. copy \in Topology
  BY DEF IInv, TypeOK
<1>2. net[h] \in Networks /\ (k # "LINK" => node[h] \in Nodes)
  BY ListsFound
<1>3. CASE k = "LINK"
  BY <1>1, <1>2, <1>3, LinkApplied DEF Apply, Ids
<1>4. CASE k # "LINK"
  <2>1. k \in {"TP", "TTP"} /\ (k = "TP" => i \in Tps) /\ (k = "TTP" => i \in Ttps)
    BY <1>4 DEF ListKinds, Ids
  <2>2. copy' = ApplyPoint(k, net[h], node[h], i, value)
    BY <1>4 DEF Apply
  <2> QED
    BY <1>1, <1>2, <1>4, <2>1, <2>2, PointApplied
<1> QED
  BY <1>3, <1>4

\* What is at a handler that a step does not move stays where it was.
LEMMA Elsewhere ==
    ASSUME IInv, NEW g \in Handlers,
           pc'[g] = pc[g], old'[g] = old[g], new'[g] = new[g], nets'[g] = nets[g],
           net'[g] = net[g], nodes'[g] = nodes[g], node'[g] = node[g], todo'[g] = todo[g]
    PROVE  Located(g)'
<1>1. Located(g)
  BY DEF IInv
<1> QED
  BY <1>1 DEF Located

\* A step of the handler h keeps the invariant, if it keeps the types and
\* leaves h located and the other handlers where they were.
LEMMA StepOf ==
    ASSUME IInv, TypeOK', NEW h \in Handlers, Located(h)',
           \A g \in Handlers \ {h} :
              /\ pc'[g] = pc[g] /\ old'[g] = old[g] /\ new'[g] = new[g] /\ nets'[g] = nets[g]
              /\ net'[g] = net[g] /\ nodes'[g] = nodes[g] /\ node'[g] = node[g]
              /\ todo'[g] = todo[g]
    PROVE  IInv'
<1>1. ASSUME NEW g \in Handlers PROVE Located(g)'
  <2>1. CASE g = h
    BY <2>1
  <2>2. CASE g # h
    BY <1>1, <2>2, Elsewhere
  <2> QED
    BY <2>1, <2>2
<1> QED
  BY <1>1 DEF IInv

-----------------------------------------------------------------------------
(* The loops over the lists *)

LEMMA CompareStep ==
    ASSUME IInv, NEW h \in Handlers, NEW k \in ListKinds, Compare(h, k)
    PROVE  IInv'
<1> USE DEF Compare, controller, files, snapshots
<1>1. pc[h] = k
  OBVIOUS
<1>2. PICK i \in todo[h] :
        /\ todo' = [todo EXCEPT ![h] = @ \ {i}]
        /\ IF ListIn(new, h, k)[i] # ListIn(old, h, k)[i]
           THEN Apply(h, k, i, ListIn(new, h, k)[i])
           ELSE UNCHANGED copy
  OBVIOUS
<1>3. /\ ListIn(new, h, k) \in List(Ids(k))
      /\ todo[h] \subseteq Ids(k)
  BY <1>1, ListsFound
<1>4. ListIn(new, h, k)[i] \in Values \cup {Nil}
  BY <1>3 DEF List
<1>5. copy' \in Topology
  <2>1. CASE UNCHANGED copy
    BY <2>1 DEF IInv, TypeOK
  <2>2. CASE Apply(h, k, i, ListIn(new, h, k)[i])
    BY <1>1, <1>2, <1>3, <1>4, <2>2, Applied
  <2> QED
    BY <1>2, <2>1, <2>2
<1>6. TypeOK'
  BY <1>2, <1>5 DEF IInv, TypeOK
<1>7. Located(h)'
  BY <1>2 DEF IInv, TypeOK, Located
<1> QED
  BY <1>2, <1>6, <1>7, StepOf DEF IInv, TypeOK

LEMMA CreateStep ==
    ASSUME IInv, NEW h \in Handlers, NEW k \in ListKinds, Create(h, k, NewLabel(k))
    PROVE  IInv'
<1> USE DEF Create, controller, files, snapshots
<1>1. pc[h] = NewLabel(k)
  OBVIOUS
<1>2. PICK i \in todo[h] :
        /\ todo' = [todo EXCEPT ![h] = @ \ {i}]
        /\ Apply(h, k, i, ListIn(new, h, k)[i])
  OBVIOUS
<1>3. /\ ListIn(new, h, k) \in List(Ids(k))
      /\ todo[h] \subseteq Ids(k)
  BY <1>1, ListsFound
<1>4. ListIn(new, h, k)[i] \in Values \cup {Nil}
  BY <1>3 DEF List
<1>5. copy' \in Topology
  BY <1>1, <1>2, <1>3, <1>4, Applied
<1>6. TypeOK'
  BY <1>2, <1>5 DEF IInv, TypeOK
<1>7. Located(h)'
  BY <1>2 DEF IInv, TypeOK, Located
<1> QED
  BY <1>2, <1>6, <1>7, StepOf DEF IInv, TypeOK

LEMMA CompareDoneStep ==
    ASSUME IInv, NEW h \in Handlers, NEW k \in ListKinds, CompareDone(h, k)
    PROVE  IInv'
<1> USE DEF CompareDone, controller, files, snapshots
<1>1. pc[h] = k
  OBVIOUS
<1>2. Added(h, k) \subseteq Ids(k)
  BY <1>1, ListsFound, PresentIds DEF Added, List
<1>3. pc' = [pc EXCEPT ![h] = NewLabel(k)]
  BY DEF Goto, NewLabel, ListKinds
<1>4. todo' = [todo EXCEPT ![h] = Added(h, k)]
  OBVIOUS
<1>5. Ids(k) \subseteq Links \cup Tps \cup Ttps
  BY DEF Ids
<1>6. TypeOK'
  BY <1>2, <1>3, <1>4, <1>5 DEF IInv, TypeOK, Labels, NewLabel
<1>7. Located(h)'
  <2>1. pc'[h] = NewLabel(k) /\ todo'[h] = Added(h, k)
    BY <1>3, <1>4 DEF IInv, TypeOK
  <2>2. Located(h)
    BY DEF IInv
  <2> QED
    BY <1>1, <1>2, <2>1, <2>2 DEF Located, NewLabel, Ids, ListKinds, InNetwork, AtNode, Labels
<1> QED
  BY <1>3, <1>4, <1>6, <1>7, StepOf DEF IInv, TypeOK

LEMMA CreateDoneStep ==
    ASSUME IInv, NEW h \in Handlers, NEW k \in ListKinds, NEW next,
           CreateDone(h, k, NewLabel(k), next),
           next = (CASE k = "TP" -> "TTP" [] k = "TTP" -> "NODE" [] k = "LINK" -> "nets")
    PROVE  IInv'
<1> USE DEF CreateDone, controller, files, snapshots
<1>1. pc[h] = NewLabel(k)
  OBVIOUS
<1> DEFINE rest == IF k = "TP" THEN Present(ListIn(old, h, "TTP")) ELSE {}
<1>2. rest \subseteq Ttps
  <2>1. CASE k = "TP"
    <3>1. pc[h] = "newTP"
      BY <1>1, <2>1 DEF NewLabel
    <3>2. /\ old[h] \in Topology /\ net[h] \in Networks /\ old[h][net[h]] # Nil
          /\ node[h] \in Nodes /\ old[h][net[h]].nodes[node[h]] # Nil
      BY <3>1 DEF IInv, Located, InNetwork, Labels, AtNode
    <3>3. ListIn(old, h, "TTP") \in List(Ttps)
      BY <3>2, NodeOf DEF ListIn
    <3> QED
      BY <2>1, <3>3, PresentIds DEF List
  <2>2. CASE k # "TP"
    BY <2>2
  <2> QED
    BY <2>1, <2>2
<1>3. todo' = [todo EXCEPT ![h] = rest] /\ pc' = [pc EXCEPT ![h] = next]
  BY DEF Goto
<1> HIDE DEF rest
<1>4. next \in Labels
  BY DEF ListKinds, Labels
<1>5. TypeOK'
  BY <1>2, <1>3, <1>4 DEF IInv, TypeOK
<1>6. Located(h)'
  <2>1. pc'[h] = next /\ todo'[h] = rest
    BY <1>3 DEF IInv, TypeOK
  <2>2. Located(h)
    BY DEF IInv
  <2> QED
    BY <1>1, <1>2, <2>1, <2>2 DEF Located, NewLabel, ListKinds, InNetwork, AtNode, Labels
<1> QED
  BY <1>3, <1>5, <1>6, StepOf DEF IInv, TypeOK

-----------------------------------------------------------------------------
(* The loops over the nodes *)

\* The networks of a handler that is inside the loop over networks.
LEMMA NetworksFound ==
    ASSUME IInv, NEW h \in Handlers, pc[h] \in InNetwork
    PROVE  /\ old[h] \in Topology /\ new[h] \in Topology /\ net[h] \in Networks
           /\ DOMAIN old[h][net[h]].nodes = Nodes /\ DOMAIN new[h][net[h]].nodes = Nodes
           /\ \A m \in Nodes : /\ old[h][net[h]].nodes[m] \in Node \cup {Nil}
                               /\ new[h][net[h]].nodes[m] \in Node \cup {Nil}
           /\ old[h][net[h]].LINK \in List(Links)
<1>1. /\ old[h] \in Topology /\ new[h] \in Topology /\ net[h] \in Networks
      /\ old[h][net[h]] # Nil /\ new[h][net[h]] # Nil
  BY DEF IInv, Located, InNetwork, Labels
<1> QED
  BY <1>1, NetworkOf

LEMMA NextNodeStep ==
    ASSUME IInv, NEW h \in Handlers, NextNode(h)
    PROVE  IInv'
<1> USE DEF NextNode, controller, files, snapshots
<1>1. pc[h] = "nodes" /\ pc[h] \in InNetwork
  BY DEF InNetwork, Labels
<1>2. PICK m \in nodes[h] :
        /\ nodes' = [nodes EXCEPT ![h] = @ \ {m}]
        /\ IF new[h][net[h]].nodes[m] = Nil
           THEN copy' = ApplyNode(net[h], m, Nil) /\ UNCHANGED <<pc, node, todo>>
           ELSE /\ node' = [node EXCEPT ![h] = m]
                /\ todo' = [todo EXCEPT ![h] = Present(old[h][net[h]].nodes[m].TP)]
                /\ Goto(h, "TP")
                /\ UNCHANGED copy
  OBVIOUS
<1>3. /\ old[h] \in Topology /\ net[h] \in Networks /\ old[h][net[h]] # Nil
      /\ m \in Nodes /\ old[h][net[h]].nodes[m] # Nil
  BY <1>1 DEF IInv, TypeOK, Located, Present, InNetwork
<1>4. CASE new[h][net[h]].nodes[m] = Nil
  <2>1. copy' \in Topology
    BY <1>2, <1>3, <1>4, NodeApplied DEF IInv, TypeOK
  <2>2. TypeOK'
    BY <1>2, <1>4, <2>1 DEF IInv, TypeOK
  <2>3. Located(h)'
    BY <1>1, <1>2, <1>4 DEF IInv, TypeOK, Located
  <2> QED
    BY <1>2, <1>4, <2>2, <2>3, StepOf DEF IInv, TypeOK
<1>5. CASE new[h][net[h]].nodes[m] # Nil
  <2> DEFINE points == Present(old[h][net[h]].nodes[m].TP)
  <2>1. points \subseteq Tps
    BY <1>3, NodeOf, PresentIds DEF List
  <2>2. /\ node' = [node EXCEPT ![h] = m] /\ todo' = [todo EXCEPT ![h] = points]
        /\ pc' = [pc EXCEPT ![h] = "TP"] /\ copy' = copy
    BY <1>2, <1>5 DEF Goto
  <2> HIDE DEF points
  <2>3. TypeOK'
    BY <1>2, <1>3, <2>1, <2>2 DEF IInv, TypeOK, Labels
  <2>4. Located(h)'
    <3>1. /\ pc'[h] = "TP" /\ node'[h] = m /\ todo'[h] = points
          /\ nodes'[h] = nodes[h] \ {m}
      BY <1>2, <2>2 DEF IInv, TypeOK
    <3>2. Located(h)
      BY DEF IInv
    <3> QED
      BY <1>1, <1>3, <1>5, <2>1, <3>1, <3>2 DEF Located, InNetwork, AtNode, Labels
  <2> QED
    BY <1>2, <2>2, <2>3, <2>4, StepOf DEF IInv, TypeOK
<1> QED
  BY <1>4, <1>5

LEMMA UpdateNodeStep ==
    ASSUME IInv, NEW h \in Handlers, UpdateNode(h)
    PROVE  IInv'
<1> USE DEF UpdateNode, controller, files, snapshots
<1>1. pc[h] = "NODE" /\ pc[h] \in InNetwork /\ pc[h] \in AtNode
  BY DEF InNetwork, AtNode, Labels
<1>2. /\ new[h] \in Topology /\ net[h] \in Networks /\ new[h][net[h]] # Nil
      /\ node[h] \in Nodes /\ new[h][net[h]].nodes[node[h]] # Nil
  BY <1>1 DEF IInv, Located
<1>3. copy' \in Topology
  <2>1. new[h][net[h]].nodes[node[h]].own \in Values
    BY <1>2, NodeOf
  <2> QED
    BY <1>2, <2>1, UpdateApplied DEF IInv, TypeOK
<1>4. node' = [node EXCEPT ![h] = Nil] /\ pc' = [pc EXCEPT ![h] = "nodes"]
  BY DEF Goto
<1>5. TypeOK'
  BY <1>3, <1>4 DEF IInv, TypeOK, Labels
<1>6. Located(h)'
  <2>1. pc'[h] = "nodes"
    BY <1>4 DEF IInv, TypeOK
  <2>2. Located(h)
    BY DEF IInv
  <2> QED
    BY <1>1, <2>1, <2>2 DEF Located, InNetwork, AtNode, Labels
<1> QED
  BY <1>4, <1>5, <1>6, StepOf DEF IInv, TypeOK

LEMMA NodesDoneStep ==
    ASSUME IInv, NEW h \in Handlers, NodesDone(h)
    PROVE  IInv'
<1> USE DEF NodesDone, controller, files, snapshots
<1>1. pc[h] = "nodes" /\ pc[h] \in InNetwork
  BY DEF InNetwork, Labels
<1> DEFINE added == Present(new[h][net[h]].nodes) \ Present(old[h][net[h]].nodes)
<1>2. added \subseteq Nodes /\ added \subseteq Present(new[h][net[h]].nodes)
  BY <1>1, NetworksFound DEF Present
<1>3. nodes' = [nodes EXCEPT ![h] = added] /\ pc' = [pc EXCEPT ![h] = "newNODE"]
  BY DEF Goto
<1> HIDE DEF added
<1>4. TypeOK'
  BY <1>2, <1>3 DEF IInv, TypeOK, Labels
<1>5. Located(h)'
  <2>1. pc'[h] = "newNODE" /\ nodes'[h] = added
    BY <1>3 DEF IInv, TypeOK
  <2>2. Located(h)
    BY DEF IInv
  <2> QED
    BY <1>1, <1>2, <2>1, <2>2 DEF Located, InNetwork, AtNode, Labels
<1> QED
  BY <1>3, <1>4, <1>5, StepOf DEF IInv, TypeOK

LEMMA CreateNodeStep ==
    ASSUME IInv, NEW h \in Handlers, CreateNode(h)
    PROVE  IInv'
<1> USE DEF CreateNode, controller, files, snapshots
<1>1. pc[h] = "newNODE" /\ pc[h] \in InNetwork
  BY DEF InNetwork, Labels
<1>2. PICK m \in nodes[h] :
        /\ nodes' = [nodes EXCEPT ![h] = @ \ {m}]
        /\ copy' = ApplyNode(net[h], m, new[h][net[h]].nodes[m])
  OBVIOUS
<1>3. m \in Nodes /\ net[h] \in Networks /\ new[h][net[h]].nodes[m] \in Node \cup {Nil}
  BY <1>1, NetworksFound DEF IInv, TypeOK
<1>4. copy' \in Topology
  BY <1>2, <1>3, NodeApplied DEF IInv, TypeOK
<1>5. TypeOK'
  BY <1>2, <1>4 DEF IInv, TypeOK
<1>6. Located(h)'
  BY <1>1, <1>2 DEF IInv, TypeOK, Located
<1> QED
  BY <1>2, <1>5, <1>6, StepOf DEF IInv, TypeOK

LEMMA CreateNodesDoneStep ==
    ASSUME IInv, NEW h \in Handlers, CreateNodesDone(h)
    PROVE  IInv'
<1> USE DEF CreateNodesDone, controller, files, snapshots
<1>1. pc[h] = "newNODE" /\ pc[h] \in InNetwork
  BY DEF InNetwork, Labels
<1> DEFINE links == Present(old[h][net[h]].LINK)
<1>2. links \subseteq Links
  BY <1>1, NetworksFound, PresentIds DEF List
<1>3. todo' = [todo EXCEPT ![h] = links] /\ pc' = [pc EXCEPT ![h] = "LINK"]
  BY DEF Goto
<1> HIDE DEF links
<1>4. TypeOK'
  BY <1>2, <1>3 DEF IInv, TypeOK, Labels
<1>5. Located(h)'
  <2>1. pc'[h] = "LINK" /\ todo'[h] = links
    BY <1>3 DEF IInv, TypeOK
  <2>2. Located(h)
    BY DEF IInv
  <2> QED
    BY <1>1, <1>2, <2>1, <2>2 DEF Located, InNetwork, AtNode, Labels
<1> QED
  BY <1>3, <1>4, <1>5, StepOf DEF IInv, TypeOK

-----------------------------------------------------------------------------
(* The files and the loop over the networks *)

LEMMA WriteStep ==
    ASSUME IInv, WritePrevious \/ WriteAfter
    PROVE  IInv'
<1>1. CASE WritePrevious
  <2>1. TypeOK'
    BY <1>1 DEF WritePrevious, IInv, TypeOK, snapshots, loops
  <2>2. \A h \in Handlers : Located(h)'
    BY <1>1, Elsewhere DEF WritePrevious, snapshots, loops
  <2> QED
    BY <2>1, <2>2 DEF IInv
<1>2. CASE WriteAfter
  <2>1. TypeOK'
    BY <1>2, TopologiesAssumption DEF WriteAfter, IInv, TypeOK, snapshots, loops
  <2>2. \A h \in Handlers : Located(h)'
    BY <1>2, Elsewhere DEF WriteAfter, snapshots, loops
  <2> QED
    BY <2>1, <2>2 DEF IInv
<1> QED
  BY <1>1, <1>2

LEMMA ReadPreviousStep ==
    ASSUME IInv, NEW h \in Handlers, ReadPrevious(h)
    PROVE  IInv'
<1> USE DEF ReadPrevious, files, loops, Goto
<1>1. previous \in Topology
  BY DEF IInv, TypeOK
<1>2. TypeOK'
  BY <1>1 DEF IInv, TypeOK, Labels
<1>3. Located(h)'
  <2>1. pc'[h] = "readAfter" /\ old'[h] = previous
    BY DEF IInv, TypeOK
  <2> QED
    BY <1>1, <2>1 DEF Located, InNetwork, AtNode
<1> QED
  BY <1>2, <1>3, StepOf DEF IInv, TypeOK

\* An answered trigger is at rest.
LEMMA ReturnStep ==
    ASSUME IInv, NEW h \in Handlers, Return(h), UNCHANGED <<controller, files, copy, known>>
    PROVE  IInv'
<1> USE DEF Return, Goto, controller, files
<1>1. TypeOK'
  BY DEF IInv, TypeOK, Labels
<1>2. Located(h)'
  <2>1. pc'[h] = "idle"
    BY DEF IInv, TypeOK
  <2> QED
    BY <2>1 DEF Located, InNetwork, AtNode
<1> QED
  BY <1>1, <1>2, StepOf DEF IInv, TypeOK

LEMMA ReadAfterStep ==
    ASSUME IInv, NEW h \in Handlers, ReadAfter(h)
    PROVE  IInv'
<1>1. pc[h] = "readAfter"
  BY DEF ReadAfter
<1>2. CASE after \in {Nil, old[h]}
  BY <1>2, ReturnStep DEF ReadAfter
<1>3. CASE after \notin {Nil, old[h]}
  <2> DEFINE there == Present(old[h])
  <2>1. /\ new' = [new EXCEPT ![h] = after] /\ nets' = [nets EXCEPT ![h] = there]
        /\ pc' = [pc EXCEPT ![h] = "nets"]
        /\ UNCHANGED <<controller, files, copy, known, old, net, nodes, node, todo>>
    BY <1>3 DEF ReadAfter, Goto
  <2>2. after \in Topology /\ old[h] \in Topology
    BY <1>1, <1>3 DEF IInv, TypeOK, Located
  <2>3. there \subseteq Networks
    BY <2>2, PresentIds DEF Topology
  <2>4. there = Present(old[h])
    OBVIOUS
  <2> HIDE DEF there
  <2>5. TypeOK'
    BY <2>1, <2>2, <2>3 DEF IInv, TypeOK, Labels, controller, files
  <2>6. Located(h)'
    <3>1. pc'[h] = "nets" /\ new'[h] = after /\ nets'[h] = there /\ old'[h] = old[h]
      BY <2>1 DEF IInv, TypeOK
    <3> QED
      BY <2>2, <2>4, <3>1 DEF Located, InNetwork, AtNode
  <2> QED
    BY <2>1, <2>5, <2>6, StepOf DEF IInv, TypeOK
<1> QED
  BY <1>2, <1>3

LEMMA NextNetworkStep ==
    ASSUME IInv, NEW h \in Handlers, NextNetwork(h)
    PROVE  IInv'
<1> USE DEF NextNetwork, controller, files, snapshots
<1>1. pc[h] = "nets"
  OBVIOUS
<1>2. PICK n \in nets[h] :
        /\ nets' = [nets EXCEPT ![h] = @ \ {n}]
        /\ IF new[h][n] = Nil
           THEN UNCHANGED <<pc, net, nodes>>
           ELSE /\ net' = [net EXCEPT ![h] = n]
                /\ nodes' = [nodes EXCEPT ![h] = Present(old[h][n].nodes)]
                /\ Goto(h, "nodes")
  OBVIOUS
<1>3. n \in Networks /\ old[h] \in Topology /\ new[h] \in Topology /\ old[h][n] # Nil
  BY <1>1 DEF IInv, TypeOK, Located, Present
<1>4. CASE new[h][n] = Nil
  <2>1. TypeOK'
    BY <1>2, <1>4 DEF IInv, TypeOK
  <2>2. Located(h)'
    BY <1>1, <1>2, <1>4 DEF IInv, TypeOK, Located
  <2> QED
    BY <1>2, <1>4, <2>1, <2>2, StepOf DEF IInv, TypeOK
<1>5. CASE new[h][n] # Nil
  <2> DEFINE there == Present(old[h][n].nodes)
  <2>1. there \subseteq Nodes /\ there = Present(old[h][n].nodes)
    BY <1>3, NetworkOf DEF Present
  <2>2. /\ net' = [net EXCEPT ![h] = n] /\ nodes' = [nodes EXCEPT ![h] = there]
        /\ pc' = [pc EXCEPT ![h] = "nodes"]
    BY <1>2, <1>5 DEF Goto
  <2> HIDE DEF there
  <2>3. TypeOK'
    BY <1>2, <1>3, <2>1, <2>2 DEF IInv, TypeOK, Labels
  <2>4. Located(h)'
    <3>1. /\ pc'[h] = "nodes" /\ net'[h] = n /\ nodes'[h] = there
          /\ nets'[h] = nets[h] \ {n}
      BY <1>2, <2>2 DEF IInv, TypeOK
    <3>2. Located(h)
      BY DEF IInv
    <3> QED
      BY <1>1, <1>3, <1>5, <2>1, <3>1, <3>2 DEF Located, InNetwork, AtNode, Labels
  <2> QED
    BY <1>2, <2>2, <2>3, <2>4, StepOf DEF IInv, TypeOK
<1> QED
  BY <1>4, <1>5

-----------------------------------------------------------------------------
(* The theorem *)

LEMMA InitInv == Init => IInv
<1>1. SUFFICES ASSUME Init PROVE IInv
  OBVIOUS
<1>2. world \in Topology
  BY <1>1, TopologiesAssumption DEF Init
<1>3. Present(world) \subseteq Networks
  BY <1>2, PresentIds DEF Topology
<1>4. TypeOK
  BY <1>1, <1>2, <1>3 DEF Init, TypeOK, Labels
<1>5. \A h \in Handlers : Located(h)
  BY <1>1 DEF Init, Located, InNetwork, AtNode
<1> QED
  BY <1>4, <1>5 DEF IInv

LEMMA TriggerStep ==
    ASSUME IInv, NEW h \in Handlers, Trigger(h)
    PROVE  IInv'
<1>1. CASE ReadPrevious(h)
  BY <1>1, ReadPreviousStep
<1>2. CASE ReadAfter(h)
  BY <1>2, ReadAfterStep
<1>3. CASE NextNetwork(h)
  BY <1>3, NextNetworkStep
<1>4. CASE Answer(h)
  BY <1>4, ReturnStep DEF Answer
<1>5. CASE CompareNodes(h)
  BY <1>5, NextNodeStep, UpdateNodeStep, NodesDoneStep, CreateNodeStep, CreateNodesDoneStep
     DEF CompareNodes
<1>6. CASE ComparePoints(h)
  <2>1. CASE Compare(h, "TP") \/ Compare(h, "TTP")
    BY <2>1, CompareStep DEF ListKinds
  <2>2. CASE CompareDone(h, "TP") \/ CompareDone(h, "TTP")
    BY <2>2, CompareDoneStep DEF ListKinds
  <2>3. CASE Create(h, "TP", "newTP") \/ Create(h, "TTP", "newTTP")
    BY <2>3, CreateStep DEF ListKinds, NewLabel
  <2>4. CASE CreateDone(h, "TP", "newTP", "TTP") \/ CreateDone(h, "TTP", "newTTP", "NODE")
    BY <2>4, CreateDoneStep DEF ListKinds, NewLabel
  <2> QED
    BY <1>6, <2>1, <2>2, <2>3, <2>4 DEF ComparePoints
<1>7. CASE CompareLinks(h)
  <2>1. CASE Compare(h, "LINK")
    BY <2>1, CompareStep DEF ListKinds
  <2>2. CASE CompareDone(h, "LINK")
    BY <2>2, CompareDoneStep DEF ListKinds
  <2>3. CASE Create(h, "LINK", "newLINK")
    BY <2>3, CreateStep DEF ListKinds, NewLabel
  <2>4. CASE CreateDone(h, "LINK", "newLINK", "nets")
    BY <2>4, CreateDoneStep DEF ListKinds, NewLabel
  <2> QED
    BY <1>7, <2>1, <2>2, <2>3, <2>4 DEF CompareLinks
<1> QED
  BY <1>1, <1>2, <1>3, <1>4, <1>5, <1>6, <1>7 DEF Trigger

LEMMA NextInv == IInv /\ [Next]_vars => IInv'
<1>1. SUFFICES ASSUME IInv, [Next]_vars PROVE IInv'
  OBVIOUS
<1>2. CASE WritePrevious \/ WriteAfter
  BY <1>1, <1>2, WriteStep
<1>3. CASE \E h \in Handlers : Trigger(h)
  BY <1>1, <1>3, TriggerStep
<1>4. CASE UNCHANGED vars
  BY <1>1, <1>4 DEF IInv, TypeOK, Located, vars, controller, files, snapshots, loops
<1> QED
  BY <1>1, <1>2, <1>3, <1>4 DEF Next

\* The handler of triggers, lines 69-330 of ResponseGeneratorHandler.go, never
\* indexes a snapshot with an element it does not have, and whatever it
\* announces, however many triggers overlap with each other and with the
\* controller's writes, leaves the subscriber with a topology.
THEOREM TypeCorrect == Spec => []TypeOK
<1>1. IInv => TypeOK
  BY DEF IInv
<1> QED
  BY <1>1, InitInv, NextInv, PTL DEF Spec

-----------------------------------------------------------------------------
(* What follows                                                             *)
(* The copy is compared with the network one element at a time.             *)

\* The elements a subscriber can follow: links, nodes, and the points of
\* nodes, when it is told of the nodes.
Watched ==
    {e \in [kind : Wanted, network : known, node : Nodes \cup {Nil},
            id : Links \cup Tps \cup Ttps \cup {Nil}] :
        /\ e.kind # "LINK" => e.node \in Nodes
        /\ e.kind # "NODE" => e.id \in Ids(e.kind)
        /\ e.kind \in {"TP", "TTP"} => "NODE" \in Wanted}

\* What a node says of an element of it.
InNode(x, e) == IF x = Nil THEN Nil ELSE IF e.kind = "NODE" THEN x.own ELSE x[e.kind][e.id]

\* What a topology says of an element.
At(t, e) ==
    IF e.kind = "LINK" THEN t[e.network].LINK[e.id]
    ELSE InNode(t[e.network].nodes[e.node], e)

\* What a subscriber may have while no trigger owes it anything: between a
\* change and its first trigger, that of before or after the change.
Right(e) == IF pending = "written" THEN {At(previous, e), At(world, e)} ELSE {At(world, e)}

Current(e) == At(copy, e) \in Right(e)

\* What the loops of h are still to come to: a node and all it has, ...
NodeAhead(h, m) ==
    \/ pc[h] \in AtNode \cup {"nodes", "newNODE"} /\ m \in nodes[h]
    \/ pc[h] \in AtNode \cup {"nodes"} /\ old[h][net[h]].nodes[m] = Nil

\* ... an element of the lists that are compared, ...
ListAhead(h, e) ==
    \/ pc[h] = e.kind /\ (e.id \in todo[h] \/ ListIn(old, h, e.kind)[e.id] = Nil)
    \/ pc[h] = NewLabel(e.kind) /\ e.id \in todo[h]

\* ... what is left of the node that is compared, ...
HereAhead(h, e) ==
    /\ pc[h] \in AtNode
    /\ node[h] = e.node
    /\ \/ e.kind = "NODE"
       \/ e.kind = "TTP" /\ pc[h] \in {"TP", "newTP"}
       \/ ListAhead(h, e)

\* ... and of the network.
InNetworkAhead(h, e) ==
    IF e.kind = "LINK" THEN pc[h] \notin {"LINK", "newLINK"} \/ ListAhead(h, e)
    ELSE NodeAhead(h, e.node) \/ HereAhead(h, e)

ToVisit(h, e) ==
    \/ e.network \in nets[h]
    \/ pc[h] \in InNetwork /\ e.network = net[h] /\ InNetworkAhead(h, e)

Walking(h) == pc[h] \notin {"idle", "readAfter"}

\* The subscriber has of e what h read first, and h will come to e with
\* something else.
Owes(h, e) ==
    /\ pc[h] # "idle"
    /\ At(copy, e) = At(old[h], e)
    /\ Walking(h) => At(new[h], e) # At(old[h], e) /\ ToVisit(h, e)

\* A network that was there all the time is in all that was made of it.
Remains(n) ==
    /\ n \in Networks
    /\ world[n] # Nil
    /\ copy[n] # Nil
    /\ previous # Nil => previous[n] # Nil
    /\ \A h \in Handlers : pc[h] # "idle" => old[h][n] # Nil
    /\ \A h \in Handlers : Walking(h) => new[h][n] # Nil

\* The files at each point of a change.
Written ==
    /\ pending = "writing" => previous = world
    /\ pending = "written" => previous # Nil
    /\ after # Nil => after = world
    /\ after = Nil => /\ pending # "written"
                      /\ \A h \in Handlers : pc[h] # "idle" => old[h] = world
                      /\ previous \in {Nil, world}

\* A trigger announces the last change or, once there is a new one that no
\* trigger has read, the one before it.
Announced ==
    \A h \in Handlers : Walking(h) => \/ new[h] = world
                                      \/ pending = "written" /\ new[h] = previous

Followed == \A e \in Watched : Current(e) \/ \E h \in Handlers : Owes(h, e)

FollowInv ==
    /\ IInv
    /\ \A n \in known : Remains(n)
    /\ Written
    /\ Announced
    /\ Followed

-----------------------------------------------------------------------------
(* Elements and notifications *)

LEMMA WatchedElement ==
    ASSUME IInv, NEW e \in Watched
    PROVE  /\ e.kind \in Wanted /\ e.kind \in Kinds
           /\ e.network \in known /\ e.network \in Networks
           /\ e.kind # "LINK" => e.node \in Nodes
           /\ e.kind # "NODE" => e.id \in Ids(e.kind)
           /\ e.kind \in {"TP", "TTP"} => "NODE" \in Wanted
  BY TriggerAssumption DEF Watched, IInv, TypeOK

\* The node that a point belongs to is watched, too.
LEMMA NodeOfPoint ==
    ASSUME IInv, NEW e \in Watched, e.kind \in {"TP", "TTP"}
    PROVE  \E d \in Watched : d.kind = "NODE" /\ d.network = e.network /\ d.node = e.node
<1> DEFINE d == [kind |-> "NODE", network |-> e.network, node |-> e.node, id |-> e.id]
<1>1. d \in Watched
  BY DEF Watched
<1> QED
  BY <1>1

\* A node that is replaced in a topology, and nothing else, says something new.
LEMMA NodeShown ==
    ASSUME NEW t \in Topology, NEW n \in Networks, t[n] # Nil, NEW m \in Nodes, NEW x,
           NEW e, e.kind # "LINK" => e.node \in Nodes
    PROVE  At(WithNode(t, n, m, x), e) =
             IF e.kind # "LINK" /\ e.network = n /\ e.node = m THEN InNode(x, e) ELSE At(t, e)
<1> DEFINE w == [t[n] EXCEPT !.nodes[m] = x]
           u == WithNode(t, n, m, x)
<1>1. t[n] \in Network /\ t[n].nodes \in [Nodes -> Node \cup {Nil}]
  BY NetworkOf DEF Network
<1>2. u = [t EXCEPT ![n] = w]
  BY DEF WithNode
<1>3. DOMAIN t = Networks
  BY DEF Topology
<1>4. w.LINK = t[n].LINK /\ w.nodes = [t[n].nodes EXCEPT ![m] = x]
  BY <1>1 DEF Network
<1> HIDE DEF w
<1>5. u[n] = w /\ \A o : o # n => u[o] = t[o]
  BY <1>2, <1>3
<1> HIDE DEF u
<1>6. At(u, e) = IF e.kind # "LINK" /\ e.network = n /\ e.node = m THEN InNode(x, e) ELSE At(t, e)
  <2>1. CASE e.network # n
    BY <1>5, <2>1 DEF At
  <2>2. CASE e.network = n /\ e.kind = "LINK"
    BY <1>4, <1>5, <2>2 DEF At
  <2>3. CASE e.network = n /\ e.kind # "LINK"
    <3>1. w.nodes[e.node] = IF e.node = m THEN x ELSE t[n].nodes[e.node]
      BY <1>1, <1>4, <2>3
    <3> QED
      BY <1>5, <2>3, <3>1 DEF At
  <2> QED
    BY <2>1, <2>2, <2>3
<1> QED
  BY <1>6 DEF u

\* The effect of each notification on an element: that of a created or deleted
\* node, ...
LEMMA NodeNoted ==
    ASSUME FollowInv, NEW e \in Watched, NEW n \in Networks, NEW m \in Nodes, NEW x,
           copy' = ApplyNode(n, m, x)
    PROVE  At(copy', e) =
             IF e.kind # "LINK" /\ e.network = n /\ e.node = m THEN InNode(x, e) ELSE At(copy, e)
<1> USE DEF FollowInv
<1>1. e.kind # "LINK" => "NODE" \in Wanted
  BY WatchedElement DEF Kinds
<1>2. copy[e.network] # Nil
  BY WatchedElement DEF Remains
<1>3. CASE "NODE" \notin Wanted \/ copy[n] = Nil
  <2>1. copy' = copy
    BY <1>3 DEF ApplyNode
  <2>2. ~(e.kind # "LINK" /\ e.network = n)
    BY <1>1, <1>2, <1>3
  <2> QED
    BY <2>1, <2>2
<1>4. CASE ~("NODE" \notin Wanted \/ copy[n] = Nil)
  <2>1. copy' = WithNode(copy, n, m, x)
    BY <1>4 DEF ApplyNode, WithNode
  <2> QED
    BY <1>4, <2>1, NodeShown, WatchedElement DEF IInv, TypeOK
<1> QED
  BY <1>3, <1>4

\* ... of an updated one, which leaves its points alone, ...
LEMMA UpdateNoted ==
    ASSUME FollowInv, NEW e \in Watched, NEW n \in Networks, NEW m \in Nodes, NEW own \in Values,
           copy' = ApplyUpdate(n, m, own)
    PROVE  At(copy', e) =
             IF e.kind = "NODE" /\ e.network = n /\ e.node = m THEN own ELSE At(copy, e)
<1> USE DEF FollowInv
<1>1. /\ e.kind # "LINK" => "NODE" \in Wanted
      /\ e.kind \in Kinds
      /\ e.kind # "NODE" => e.id \in Ids(e.kind)
  BY WatchedElement DEF Kinds
<1>2. copy[e.network] # Nil
  BY WatchedElement DEF Remains
<1>3. CASE "NODE" \notin Wanted \/ copy[n] = Nil
  <2>1. copy' = copy
    BY <1>3 DEF ApplyUpdate
  <2>2. ~(e.kind # "LINK" /\ e.network = n)
    BY <1>1, <1>2, <1>3
  <2> QED
    BY <2>1, <2>2
<1>4. CASE ~("NODE" \notin Wanted \/ copy[n] = Nil)
  <2> DEFINE x == copy[n].nodes[m]
             now == Updated(x, own)
  <2>1. copy' = WithNode(copy, n, m, now)
    BY <1>4 DEF ApplyUpdate, WithNode, Updated
  <2>2. x \in Node \cup {Nil} /\ copy \in Topology
    BY <1>4, NetworkOf DEF IInv, TypeOK
  <2>3. now \in Node
    BY <2>2, UpdatedNode
  <2>4. now # Nil
    BY <2>3, NilAssumption
  <2>5. now.own = own
    BY <2>2 DEF Updated, Bare, Node
  <2>6. ASSUME e.kind \in {"TP", "TTP"} PROVE now[e.kind][e.id] = InNode(x, e)
    <3>1. CASE x = Nil
      BY <1>1, <2>6, <3>1 DEF Updated, Bare, InNode, Ids
    <3>2. CASE x # Nil
      BY <2>2, <2>6, <3>2 DEF Updated, InNode, Node
    <3> QED
      BY <3>1, <3>2
  <2>7. At(copy', e) =
          IF e.kind # "LINK" /\ e.network = n /\ e.node = m THEN InNode(now, e) ELSE At(copy, e)
    BY <1>4, <2>1, <2>2, NodeShown, WatchedElement
  <2> HIDE DEF now
  <2>8. CASE e.kind \in {"TP", "TTP"} /\ e.network = n /\ e.node = m
    BY <2>4, <2>6, <2>7, <2>8 DEF At, InNode
  <2>9. CASE ~(e.kind \in {"TP", "TTP"} /\ e.network = n /\ e.node = m)
    BY <1>1, <2>4, <2>5, <2>7, <2>9 DEF InNode, Kinds
  <2> QED
    BY <2>8, <2>9
<1> QED
  BY <1>3, <1>4

\* ... of a link ...
LEMMA LinkNoted ==
    ASSUME FollowInv, NEW e \in Watched, NEW n \in Networks, NEW i \in Links, NEW value,
           copy' = ApplyLink(n, i, value)
    PROVE  At(copy', e) =
             IF e.kind = "LINK" /\ e.network = n /\ e.id = i THEN value ELSE At(copy, e)
<1> USE DEF FollowInv
<1>1. copy[e.network] # Nil /\ e.kind \in Wanted
  BY WatchedElement DEF Remains
<1>2. CASE "LINK" \notin Wanted \/ copy[n] = Nil
  <2>1. copy' = copy
    BY <1>2 DEF ApplyLink
  <2> QED
    BY <1>1, <1>2, <2>1
<1>3. CASE ~("LINK" \notin Wanted \/ copy[n] = Nil)
  <2> DEFINE w == [copy[n] EXCEPT !.LINK[i] = value]
  <2>1. copy' = [copy EXCEPT ![n] = w]
    BY <1>3 DEF ApplyLink
  <2>2. copy \in Topology /\ copy[n] \in Network /\ copy[n].LINK \in List(Links)
    BY <1>3, NetworkOf DEF IInv, TypeOK
  <2>3. w.LINK = [copy[n].LINK EXCEPT ![i] = value] /\ w.nodes = copy[n].nodes
    BY <2>2 DEF Network
  <2> HIDE DEF w
  <2>4. copy'[n] = w /\ \A o : o # n => copy'[o] = copy[o]
    BY <2>1, <2>2 DEF Topology
  <2>5. CASE e.network # n
    BY <2>4, <2>5 DEF At
  <2>6. CASE e.network = n
    <3>1. CASE e.kind = "LINK"
      <4>1. w.LINK[e.id] = IF e.id = i THEN value ELSE copy[n].LINK[e.id]
        BY <2>2, <2>3 DEF List
      <4> QED
        BY <2>4, <2>6, <3>1, <4>1 DEF At
    <3>2. CASE e.kind # "LINK"
      BY <2>3, <2>4, <2>6, <3>2 DEF At
    <3> QED
      BY <3>1, <3>2
  <2> QED
    BY <2>5, <2>6
<1> QED
  BY <1>2, <1>3

\* ... and of a point, if the subscriber has its node.
LEMMA PointNoted ==
    ASSUME FollowInv, NEW e \in Watched, NEW n \in Networks, NEW m \in Nodes,
           NEW k \in {"TP", "TTP"}, NEW i \in Ids(k), NEW value \in Values \cup {Nil},
           copy' = ApplyPoint(k, n, m, i, value)
    PROVE  At(copy', e) =
             IF e.kind = k /\ e.network = n /\ e.node = m /\ e.id = i /\ copy[n].nodes[m] # Nil
             THEN value ELSE At(copy, e)
<1> USE DEF FollowInv
<1>1. copy[e.network] # Nil /\ e.kind \in Wanted /\ e.kind \in Kinds
  BY WatchedElement DEF Remains
<1>2. e.kind # "NODE" => e.id \in Ids(e.kind)
  BY WatchedElement
<1>3. CASE k \notin Wanted \/ copy[n] = Nil \/ copy[n].nodes[m] = Nil
  <2>1. copy' = copy
    BY <1>3 DEF ApplyPoint
  <2> QED
    BY <1>1, <1>3, <2>1
<1>4. CASE ~(k \notin Wanted \/ copy[n] = Nil \/ copy[n].nodes[m] = Nil)
  <2> DEFINE x == copy[n].nodes[m]
             now == [x EXCEPT ![k][i] = value]
  <2>1. copy' = WithNode(copy, n, m, now)
    BY <1>4 DEF ApplyPoint, WithNode
  <2>2. x \in Node /\ copy \in Topology /\ x # Nil
    BY <1>4, NodeOf DEF IInv, TypeOK
  <2>3. x[k] \in List(Ids(k))
    BY <2>2 DEF Node, Ids
  <2>4. now.own = x.own /\ now[k] = [x[k] EXCEPT ![i] = value]
        /\ \A j \in {"TP", "TTP"} : j # k => now[j] = x[j]
    BY <2>2 DEF Node
  <2>5. At(copy', e) =
          IF e.kind # "LINK" /\ e.network = n /\ e.node = m THEN InNode(now, e) ELSE At(copy, e)
    BY <1>4, <2>1, <2>2, NodeShown, WatchedElement
  <2>6. now # Nil
    <3>1. now \in Node
      BY <2>2, <2>3 DEF Node, List, Ids
    <3> QED
      BY <3>1, NilAssumption
  <2> HIDE DEF now
  <2>7. CASE ~(e.kind # "LINK" /\ e.network = n /\ e.node = m)
    BY <2>5, <2>7
  <2>8. CASE e.kind = "NODE" /\ e.network = n /\ e.node = m
    BY <2>2, <2>4, <2>5, <2>6, <2>8 DEF At, InNode
  <2>9. CASE e.kind \in {"TP", "TTP"} /\ e.network = n /\ e.node = m
    <3>1. now[e.kind][e.id] = IF e.kind = k /\ e.id = i THEN value ELSE x[e.kind][e.id]
      BY <1>2, <2>3, <2>4, <2>9 DEF List
    <3> QED
      BY <1>4, <2>2, <2>5, <2>6, <2>9, <3>1 DEF At, InNode
  <2> QED
    BY <1>1, <2>7, <2>8, <2>9 DEF Kinds
<1> QED
  BY <1>3, <1>4

-----------------------------------------------------------------------------
(* Steps that keep the copy following *)

\* The lists of the elements in the snapshots of a handler.
LEMMA Listed ==
    ASSUME IInv, NEW h \in Handlers, NEW e \in Watched, e.kind \in ListKinds,
           pc[h] \in InNetwork, e.network = net[h],
           e.kind # "LINK" => pc[h] \in AtNode /\ node[h] = e.node
    PROVE  /\ At(old[h], e) = ListIn(old, h, e.kind)[e.id]
           /\ At(new[h], e) = ListIn(new, h, e.kind)[e.id]
<1>1. e.kind # "LINK" => /\ old[h][net[h]].nodes[node[h]] # Nil
                         /\ new[h][net[h]].nodes[node[h]] # Nil
  BY DEF IInv, Located
<1> QED
  BY <1>1 DEF At, InNode, ListIn, ListKinds

\* The subscriber does not have the node of a point that h compares.
HiddenFrom(h, e) ==
    /\ e.kind \in {"TP", "TTP"}
    /\ copy[e.network].nodes[e.node] = Nil
    /\ old[h][e.network].nodes[e.node] # Nil

\* A node that says nothing of itself is not there.
LEMMA NoNode ==
    ASSUME NEW t \in Topology, NEW e, e.network \in Networks, t[e.network] # Nil,
           e.node \in Nodes, e.kind = "NODE", At(t, e) = Nil
    PROVE  t[e.network].nodes[e.node] = Nil
<1>1. SUFFICES ASSUME t[e.network].nodes[e.node] # Nil PROVE FALSE
  OBVIOUS
<1>2. t[e.network].nodes[e.node].own \in Values
  BY <1>1, NodeOf
<1> QED
  BY <1>1, <1>2, NilAssumption DEF At, InNode

\* A point of a node that the subscriber does not have is right, or is owed by
\* another handler, which will create the node.
LEMMA HiddenOwed ==
    ASSUME FollowInv, NEW h \in Handlers, NEW e \in Watched, HiddenFrom(h, e), pc[h] # "idle"
    PROVE  Current(e) \/ \E g \in Handlers \ {h} : Owes(g, e)
<1> USE DEF FollowInv
<1>1. PICK d \in Watched : d.kind = "NODE" /\ d.network = e.network /\ d.node = e.node
  BY NodeOfPoint DEF HiddenFrom
<1>2. /\ d.network \in Networks /\ d.node \in Nodes
      /\ d.network \in known
  BY <1>1, WatchedElement
<1>3. Remains(d.network)
  BY <1>2
<1>4. At(copy, d) = Nil /\ At(copy, e) = Nil
  BY <1>1 DEF At, InNode, HiddenFrom
<1>5. ASSUME NEW t \in Topology, t[d.network] # Nil, At(t, d) = Nil
      PROVE  t[e.network].nodes[e.node] = Nil /\ At(t, e) = Nil
  <2>1. t[e.network].nodes[e.node] = Nil
    BY <1>1, <1>2, <1>5, NoNode
  <2> QED
    BY <2>1 DEF At, InNode, HiddenFrom
<1>6. CASE Current(d)
  <2>1. CASE At(world, d) = Nil
    <3>1. At(world, e) = Nil
      BY <1>3, <1>5, <2>1 DEF Remains, IInv, TypeOK
    <3> QED
      BY <1>4, <3>1 DEF Current, Right
  <2>2. CASE pending = "written" /\ At(previous, d) = Nil
    <3>1. previous \in Topology /\ previous[d.network] # Nil
      BY <1>3, <2>2 DEF Remains, Written, IInv, TypeOK
    <3>2. At(previous, e) = Nil
      BY <1>5, <2>2, <3>1
    <3> QED
      BY <1>4, <2>2, <3>2 DEF Current, Right
  <2> QED
    BY <1>4, <1>6, <2>1, <2>2 DEF Current, Right
<1>7. ASSUME NEW g \in Handlers, Owes(g, d) PROVE Current(e) \/ \E f \in Handlers \ {h} : Owes(f, e)
  <2>1. pc[g] # "idle" /\ At(old[g], d) = Nil /\ old[g] \in Topology /\ old[g][d.network] # Nil
    BY <1>3, <1>4, <1>7 DEF Owes, Remains, IInv, Located
  <2>2. old[g][e.network].nodes[e.node] = Nil /\ At(old[g], e) = Nil
    BY <1>5, <2>1
  <2>3. g # h
    BY <2>2 DEF HiddenFrom
  <2>4. CASE ~Walking(g)
    BY <1>4, <2>1, <2>2, <2>3, <2>4 DEF Owes
  <2>5. CASE Walking(g)
    <3>1. CASE At(new[g], e) = Nil
      BY <1>4, <2>5, <3>1 DEF Announced, Current, Right
    <3>2. CASE At(new[g], e) # Nil
      <4>1. ToVisit(g, d)
        BY <1>7, <2>5 DEF Owes
      <4>2. pc[g] \in AtNode => old[g][net[g]].nodes[node[g]] # Nil
        BY DEF IInv, Located
      <4>3. ToVisit(g, e)
        BY <1>1, <2>2, <4>1, <4>2 DEF ToVisit, InNetworkAhead, HereAhead, NodeAhead, HiddenFrom
      <4> QED
        BY <1>4, <2>1, <2>2, <2>3, <3>2, <4>3 DEF Owes
    <3> QED
      BY <3>1, <3>2
  <2> QED
    BY <2>4, <2>5
<1> QED
  BY <1>6, <1>7 DEF Followed

\* What a step of h does for an element: it brings what h read last, or leaves
\* the copy alone and goes on towards the element, if h owes it.
Served(h, e) ==
    \/ At(copy', e) = At(new[h], e)
    \/ /\ At(copy', e) = At(copy, e)
       /\ Owes(h, e) => ToVisit(h, e)' \/ HiddenFrom(h, e)

\* The loops of the other handlers.
OthersStay(h) ==
    \A g \in Handlers \ {h} :
        /\ pc'[g] = pc[g] /\ old'[g] = old[g] /\ new'[g] = new[g] /\ nets'[g] = nets[g]
        /\ net'[g] = net[g] /\ nodes'[g] = nodes[g] /\ node'[g] = node[g] /\ todo'[g] = todo[g]

LEMMA OwedStays ==
    ASSUME NEW g, NEW e, Owes(g, e), At(copy', e) = At(copy, e),
           pc'[g] = pc[g], old'[g] = old[g], new'[g] = new[g], nets'[g] = nets[g],
           net'[g] = net[g], nodes'[g] = nodes[g], node'[g] = node[g], todo'[g] = todo[g]
    PROVE  Owes(g, e)'
<1>1. ToVisit(g, e) => ToVisit(g, e)'
  BY DEF ToVisit, InNetworkAhead, NodeAhead, HereAhead, ListAhead, ListIn
<1> QED
  BY <1>1 DEF Owes, Walking

\* A round of a loop.
LEMMA WalkStep ==
    ASSUME FollowInv, IInv', NEW h \in Handlers, Walking(h), Walking(h)',
           UNCHANGED <<controller, files, snapshots, known>>, OthersStay(h),
           \A n \in known : copy[n] # Nil => copy'[n] # Nil,
           \A e \in Watched : Served(h, e)
    PROVE  FollowInv'
<1> USE DEF FollowInv, controller, files, snapshots
<1>1. \A n \in known : Remains(n)'
  BY DEF Remains, OthersStay, Walking
<1>2. Written'
  <2>1. \A g \in Handlers : pc'[g] # "idle" => pc[g] # "idle"
    BY DEF OthersStay, Walking
  <2> QED
    BY <2>1 DEF Written
<1>3. Announced'
  BY DEF Announced, OthersStay, Walking
<1>4. \A e : Right(e)' = Right(e)
  BY DEF Right
<1>5. Watched' = Watched
  BY DEF Watched
<1>6. ASSUME NEW e \in Watched PROVE Current(e)' \/ \E g \in Handlers : Owes(g, e)'
  <2>1. CASE At(copy', e) = At(new[h], e)
    <3>1. At(new[h], e) \in Right(e)
      BY DEF Announced, Right
    <3> QED
      BY <1>4, <2>1, <3>1 DEF Current
  <2>2. CASE At(copy', e) # At(new[h], e)
    <3>1. /\ At(copy', e) = At(copy, e)
          /\ Owes(h, e) => ToVisit(h, e)' \/ HiddenFrom(h, e)
      BY <2>2 DEF Served
    <3>2. CASE Current(e)
      BY <1>4, <3>1, <3>2 DEF Current
    <3>3. ASSUME NEW g \in Handlers \ {h}, Owes(g, e) PROVE Owes(g, e)'
      BY <3>1, <3>3, OwedStays DEF OthersStay
    <3>4. CASE Owes(h, e) /\ ToVisit(h, e)'
      BY <3>1, <3>4 DEF Owes, Walking
    <3>5. CASE HiddenFrom(h, e)
      BY <3>2, <3>3, <3>5, HiddenOwed DEF Walking
    <3> QED
      BY <3>1, <3>2, <3>3, <3>4, <3>5 DEF Followed
  <2> QED
    BY <2>1, <2>2
<1> QED
  BY <1>1, <1>2, <1>3, <1>5, <1>6 DEF Followed


\* The same, for a step that has kept the types and moved nothing but h.
LEMMA WalkOn ==
    ASSUME FollowInv, IInv', NEW h \in Handlers, Walking(h), Walking(h)',
           UNCHANGED <<controller, files, snapshots, known>>, OthersStay(h),
           Keeps(copy, copy'), \A e \in Watched : Served(h, e)
    PROVE  FollowInv'
<1>1. \A n \in known : copy[n] # Nil => copy'[n] # Nil
  BY DEF Keeps, FollowInv, IInv, TypeOK
<1> QED
  BY <1>1, WalkStep

\* The element with the id i of the list of kind k that h compares.
IsHere(h, k, i, e) ==
    e.kind = k /\ e.id = i /\ e.network = net[h] /\ (k # "LINK" => e.node = node[h])

\* An element of a list that is announced is served; the others stay as they were.
LEMMA ElementNoted ==
    ASSUME FollowInv, NEW h \in Handlers, NEW k \in ListKinds, pc[h] \in {k, NewLabel(k)},
           NEW i \in Ids(k), Apply(h, k, i, ListIn(new, h, k)[i]), NEW e \in Watched
    PROVE  IF IsHere(h, k, i, e)
           THEN At(copy', e) = At(new[h], e) \/ (At(copy', e) = At(copy, e) /\ HiddenFrom(h, e))
           ELSE At(copy', e) = At(copy, e)
<1> USE DEF FollowInv
<1>1. /\ ListIn(new, h, k) \in List(Ids(k)) /\ net[h] \in Networks
      /\ k # "LINK" => node[h] \in Nodes
  BY ListsFound
<1> DEFINE value == ListIn(new, h, k)[i]
<1>2. value \in Values \cup {Nil}
  BY <1>1 DEF List
<1>3. IsHere(h, k, i, e) => At(new[h], e) = value
  BY Listed DEF IsHere, ListKinds, NewLabel, InNetwork, AtNode, Labels
<1>4. CASE k = "LINK"
  <2>1. copy' = ApplyLink(net[h], i, value)
    BY <1>4 DEF Apply
  <2>2. i \in Links
    BY <1>4 DEF Ids
  <2> HIDE DEF value
  <2> QED
    BY <1>1, <1>2, <1>3, <1>4, <2>1, <2>2, LinkNoted DEF IsHere
<1>5. CASE k # "LINK"
  <2>1. copy' = ApplyPoint(k, net[h], node[h], i, value) /\ k \in {"TP", "TTP"}
    BY <1>5 DEF Apply, ListKinds
  <2>2. old[h][net[h]].nodes[node[h]] # Nil
    BY <1>5 DEF IInv, Located, AtNode, ListKinds, NewLabel
  <2> HIDE DEF value
  <2> QED
    BY <1>1, <1>2, <1>3, <1>5, <2>1, <2>2, PointNoted DEF IsHere, HiddenFrom
<1> QED
  BY <1>4, <1>5

\* A round of a loop over a list leaves h on its way to all but one element.
LEMMA RoundAhead ==
    ASSUME NEW h \in Handlers, NEW k \in ListKinds, pc[h] \in {k, NewLabel(k)},
           todo \in [Handlers -> SUBSET (Links \cup Tps \cup Ttps)],
           NEW i, todo' = [todo EXCEPT ![h] = @ \ {i}],
           UNCHANGED <<pc, snapshots, nets, net, nodes, node>>,
           NEW e, e.kind \in Kinds, ToVisit(h, e), ~IsHere(h, k, i, e)
    PROVE  ToVisit(h, e)'
<1> USE DEF snapshots
<1>1. todo'[h] = todo[h] \ {i}
  OBVIOUS
<1>2. CASE e.network \in nets[h]
  BY <1>2 DEF ToVisit
<1>3. CASE pc[h] \in InNetwork /\ e.network = net[h] /\ InNetworkAhead(h, e)
  <2>1. ListAhead(h, e) /\ e.id # i => ListAhead(h, e)'
    BY <1>1 DEF ListAhead, ListIn
  <2>2. NodeAhead(h, e.node) => NodeAhead(h, e.node)'
    BY DEF NodeAhead
  <2>3. ListAhead(h, e) /\ e.kind # "NODE" => e.kind = k
    BY DEF ListAhead, NewLabel, ListKinds, Kinds
  <2> QED
    BY <1>3, <2>1, <2>2, <2>3 DEF ToVisit, InNetworkAhead, HereAhead, IsHere
<1> QED
  BY <1>2, <1>3 DEF ToVisit

LEMMA CompareFollows ==
    ASSUME FollowInv, IInv', NEW h \in Handlers, NEW k \in ListKinds, Compare(h, k)
    PROVE  FollowInv'
<1> USE DEF FollowInv, Compare
<1>1. pc[h] = k /\ Walking(h) /\ Walking(h)'
  BY DEF Walking, ListKinds
<1>2. PICK i \in todo[h] :
        /\ todo' = [todo EXCEPT ![h] = @ \ {i}]
        /\ IF ListIn(new, h, k)[i] # ListIn(old, h, k)[i]
           THEN Apply(h, k, i, ListIn(new, h, k)[i])
           ELSE UNCHANGED copy
  OBVIOUS
<1>3. i \in Ids(k) /\ ListIn(new, h, k)[i] \in Values \cup {Nil}
  BY <1>1, ListsFound DEF List
<1>4. Keeps(copy, copy')
  BY <1>1, <1>2, <1>3, Applied DEF Keeps
<1>5. OthersStay(h)
  BY <1>2 DEF OthersStay, IInv, TypeOK, snapshots
<1>6. ASSUME NEW e \in Watched PROVE Served(h, e)
  <2>1. CASE UNCHANGED copy /\ ListIn(new, h, k)[i] = ListIn(old, h, k)[i]
    <3>1. CASE IsHere(h, k, i, e)
      <4>1. At(new[h], e) = At(old[h], e)
        BY <1>1, <2>1, <3>1, Listed DEF IsHere, ListKinds, InNetwork, AtNode, Labels
      <4> QED
        BY <1>1, <2>1, <4>1 DEF Served, Owes
    <3>2. CASE ~IsHere(h, k, i, e)
      <4>1. ToVisit(h, e) => ToVisit(h, e)'
        BY <1>1, <1>2, <3>2, RoundAhead, WatchedElement DEF IInv, TypeOK
      <4> QED
        BY <1>1, <2>1, <4>1 DEF Served, Owes
    <3> QED
      BY <3>1, <3>2
  <2>2. CASE Apply(h, k, i, ListIn(new, h, k)[i])
    <3>1. CASE IsHere(h, k, i, e)
      BY <1>1, <1>3, <2>2, <3>1, ElementNoted DEF Served
    <3>2. CASE ~IsHere(h, k, i, e)
      <4>1. ToVisit(h, e) => ToVisit(h, e)'
        BY <1>1, <1>2, <3>2, RoundAhead, WatchedElement DEF IInv, TypeOK
      <4>2. At(copy', e) = At(copy, e)
        BY <1>1, <1>3, <2>2, <3>2, ElementNoted
      <4> QED
        BY <1>1, <4>1, <4>2 DEF Served, Owes
    <3> QED
      BY <3>1, <3>2
  <2> QED
    BY <1>2, <2>1, <2>2
<1> QED
  BY <1>1, <1>4, <1>5, <1>6, WalkOn

LEMMA CreateFollows ==
    ASSUME FollowInv, IInv', NEW h \in Handlers, NEW k \in ListKinds, Create(h, k, NewLabel(k))
    PROVE  FollowInv'
<1> USE DEF FollowInv, Create
<1>1. pc[h] = NewLabel(k) /\ Walking(h) /\ Walking(h)'
  BY DEF Walking, ListKinds, NewLabel
<1>2. PICK i \in todo[h] :
        /\ todo' = [todo EXCEPT ![h] = @ \ {i}]
        /\ Apply(h, k, i, ListIn(new, h, k)[i])
  OBVIOUS
<1>3. i \in Ids(k) /\ ListIn(new, h, k)[i] \in Values \cup {Nil}
  BY <1>1, ListsFound DEF List
<1>4. Keeps(copy, copy')
  BY <1>1, <1>2, <1>3, Applied
<1>5. OthersStay(h)
  BY <1>2 DEF OthersStay, IInv, TypeOK, snapshots
<1>6. ASSUME NEW e \in Watched PROVE Served(h, e)
  <2>1. CASE IsHere(h, k, i, e)
    BY <1>1, <1>2, <1>3, <2>1, ElementNoted DEF Served
  <2>2. CASE ~IsHere(h, k, i, e)
    <3>1. ToVisit(h, e) => ToVisit(h, e)'
      BY <1>1, <1>2, <2>2, RoundAhead, WatchedElement DEF IInv, TypeOK
    <3>2. At(copy', e) = At(copy, e)
      BY <1>1, <1>2, <1>3, <2>2, ElementNoted
    <3> QED
      BY <1>1, <3>1, <3>2 DEF Served, Owes
  <2> QED
    BY <2>1, <2>2
<1> QED
  BY <1>1, <1>4, <1>5, <1>6, WalkOn

\* Steps that announce nothing and go on to the next loop.
LEMMA TurnStep ==
    ASSUME FollowInv, IInv', NEW h \in Handlers, Walking(h), Walking(h)', copy' = copy,
           UNCHANGED <<controller, files, snapshots, known>>, OthersStay(h),
           \A e \in Watched : ToVisit(h, e) /\ At(new[h], e) # At(old[h], e) => ToVisit(h, e)'
    PROVE  FollowInv'
<1>1. Keeps(copy, copy')
  BY DEF Keeps
<1>2. \A e \in Watched : Served(h, e)
  BY DEF Served, Owes
<1> QED
  BY <1>1, <1>2, WalkOn

-----------------------------------------------------------------------------
(* The rest of the comparison *)

LEMMA CompareDoneFollows ==
    ASSUME FollowInv, IInv', NEW h \in Handlers, NEW k \in ListKinds, CompareDone(h, k)
    PROVE  FollowInv'
<1> USE DEF FollowInv, CompareDone
<1>1. /\ pc[h] = k /\ pc'[h] = NewLabel(k) /\ todo[h] = {} /\ todo'[h] = Added(h, k)
      /\ UNCHANGED <<controller, files, snapshots, nets, net, nodes, node, copy, known>>
  BY DEF Goto, NewLabel, ListKinds, IInv, TypeOK
<1>2. Walking(h) /\ Walking(h)'
  BY <1>1 DEF Walking, NewLabel, ListKinds
<1>3. OthersStay(h)
  BY DEF OthersStay, IInv, TypeOK, snapshots, Goto
<1>4. ASSUME NEW e \in Watched, ToVisit(h, e), At(new[h], e) # At(old[h], e)
      PROVE  ToVisit(h, e)'
  <2>1. CASE e.network \in nets[h]
    BY <1>1, <2>1 DEF ToVisit
  <2>2. CASE pc[h] \in InNetwork /\ e.network = net[h] /\ InNetworkAhead(h, e)
    <3>1. e.kind \in Kinds /\ (e.kind # "NODE" => e.id \in Ids(e.kind))
      BY WatchedElement
    <3>2. CASE ListAhead(h, e) /\ e.kind # "NODE" /\ (e.kind = "LINK" \/ HereAhead(h, e))
      <4>1. e.kind = k /\ ListIn(old, h, k)[e.id] = Nil
        BY <1>1, <3>1, <3>2 DEF ListAhead, Kinds, ListKinds, NewLabel
      <4>2. ListIn(new, h, k)[e.id] # Nil
        BY <1>4, <2>2, <3>2, <4>1, Listed DEF HereAhead
      <4>3. ListIn(new, h, k) \in List(Ids(k)) /\ ListIn(old, h, k) \in List(Ids(k))
        BY <1>1, ListsFound
      <4>4. e.id \in Added(h, k)
        BY <3>1, <3>2, <4>1, <4>2, <4>3 DEF Added, Present, List
      <4> QED
        BY <1>1, <2>2, <3>2, <4>1, <4>4
        DEF ToVisit, InNetworkAhead, HereAhead, ListAhead, InNetwork, AtNode, Labels, NewLabel, ListKinds
    <3>3. CASE ~(ListAhead(h, e) /\ e.kind # "NODE" /\ (e.kind = "LINK" \/ HereAhead(h, e)))
      BY <1>1, <2>2, <3>1, <3>3
      DEF ToVisit, InNetworkAhead, HereAhead, NodeAhead, InNetwork, AtNode, Labels, NewLabel, ListKinds,
          Kinds, snapshots
    <3> QED
      BY <3>2, <3>3
  <2> QED
    BY <1>4, <2>1, <2>2 DEF ToVisit
<1> QED
  BY <1>1, <1>2, <1>3, <1>4, TurnStep

LEMMA CreateDoneFollows ==
    ASSUME FollowInv, IInv', NEW h \in Handlers, NEW k \in ListKinds, NEW next,
           CreateDone(h, k, NewLabel(k), next),
           next = (CASE k = "TP" -> "TTP" [] k = "TTP" -> "NODE" [] k = "LINK" -> "nets")
    PROVE  FollowInv'
<1> USE DEF FollowInv, CreateDone
<1>1. /\ k = "TP" => next = "TTP"
      /\ k = "TTP" => next = "NODE"
      /\ k = "LINK" => next = "nets"
  OBVIOUS
<1>2. /\ pc[h] = NewLabel(k) /\ pc'[h] = next /\ todo[h] = {}
      /\ k = "TP" => todo'[h] = Present(ListIn(old, h, "TTP"))
      /\ UNCHANGED <<controller, files, snapshots, nets, net, nodes, node, copy, known>>
  BY DEF Goto, IInv, TypeOK
<1>3. Walking(h) /\ Walking(h)'
  BY <1>1, <1>2 DEF Walking, NewLabel, ListKinds
<1>4. OthersStay(h)
  BY DEF OthersStay, IInv, TypeOK, snapshots, Goto
<1>5. ASSUME NEW e \in Watched, ToVisit(h, e)
      PROVE  ToVisit(h, e)'
  <2>1. CASE e.network \in nets[h]
    BY <1>2, <2>1 DEF ToVisit
  <2>2. CASE pc[h] \in InNetwork /\ e.network = net[h] /\ InNetworkAhead(h, e)
    <3>1. e.kind \in Kinds /\ (e.kind # "NODE" => e.id \in Ids(e.kind))
      BY WatchedElement
    <3>2. ~ListAhead(h, e) \/ e.kind = "NODE"
      BY <1>2, <3>1 DEF ListAhead, Kinds, ListKinds, NewLabel
    <3>3. k # "LINK"
      BY <1>2, <2>2, <3>1, <3>2 DEF InNetworkAhead, NodeAhead, HereAhead, AtNode, NewLabel, Kinds
    <3>4. CASE e.kind = "TTP" /\ node[h] = e.node /\ k = "TP"
      <4>1. ListIn(old, h, "TTP") \in List(Ttps)
        <5>1. pc[h] \in AtNode
          BY <1>2, <3>4 DEF NewLabel, AtNode
        <5>2. /\ old[h] \in Topology /\ net[h] \in Networks /\ old[h][net[h]] # Nil
              /\ node[h] \in Nodes /\ old[h][net[h]].nodes[node[h]] # Nil
          BY <2>2, <5>1 DEF IInv, Located, InNetwork
        <5> QED
          BY <5>2, NodeOf DEF ListIn
      <4>2. e.id \in todo'[h] \/ ListIn(old, h, "TTP")[e.id] = Nil
        BY <1>2, <3>1, <3>4, <4>1 DEF Present, List, Ids
      <4>3. ListIn(old, h, "TTP")' = ListIn(old, h, "TTP")
        BY <1>2 DEF ListIn, snapshots
      <4> QED
        BY <1>1, <1>2, <2>2, <3>4, <4>2, <4>3
        DEF ToVisit, InNetworkAhead, HereAhead, ListAhead, InNetwork, AtNode, Labels
    <3>5. CASE ~(e.kind = "TTP" /\ node[h] = e.node /\ k = "TP")
      BY <1>1, <1>2, <2>2, <3>1, <3>2, <3>3, <3>5
      DEF ToVisit, InNetworkAhead, HereAhead, NodeAhead, InNetwork, AtNode, Labels, NewLabel, ListKinds,
          Kinds, snapshots
    <3> QED
      BY <3>4, <3>5
  <2> QED
    BY <1>5, <2>1, <2>2 DEF ToVisit
<1> QED
  BY <1>2, <1>3, <1>4, <1>5, TurnStep

LEMMA NodesDoneFollows ==
    ASSUME FollowInv, IInv', NEW h \in Handlers, NodesDone(h)
    PROVE  FollowInv'
<1> USE DEF FollowInv, NodesDone
<1>1. /\ pc[h] = "nodes" /\ pc'[h] = "newNODE" /\ nodes[h] = {}
      /\ nodes'[h] = Present(new[h][net[h]].nodes) \ Present(old[h][net[h]].nodes)
      /\ UNCHANGED <<controller, files, snapshots, nets, net, node, todo, copy, known>>
  BY DEF Goto, IInv, TypeOK
<1>2. Walking(h) /\ Walking(h)'
  BY <1>1 DEF Walking
<1>3. OthersStay(h)
  BY DEF OthersStay, IInv, TypeOK, snapshots, Goto
<1>4. ASSUME NEW e \in Watched, ToVisit(h, e), At(new[h], e) # At(old[h], e)
      PROVE  ToVisit(h, e)'
  <2>1. CASE e.network \in nets[h]
    BY <1>1, <2>1 DEF ToVisit
  <2>2. CASE pc[h] \in InNetwork /\ e.network = net[h] /\ InNetworkAhead(h, e)
    <3>1. CASE e.kind = "LINK"
      BY <1>1, <2>2, <3>1 DEF ToVisit, InNetworkAhead, InNetwork, Labels
    <3>2. CASE e.kind # "LINK"
      <4>1. e.node \in Nodes /\ old[h][net[h]].nodes[e.node] = Nil
        BY <1>1, <2>2, <3>2, WatchedElement DEF InNetworkAhead, NodeAhead, HereAhead, AtNode
      <4>2. new[h][net[h]].nodes[e.node] # Nil
        BY <1>4, <2>2, <3>2, <4>1 DEF At, InNode
      <4>3. e.node \in nodes'[h]
        BY <1>1, <2>2, <4>1, <4>2, NetworksFound DEF Present
      <4> QED
        BY <1>1, <2>2, <3>2, <4>3 DEF ToVisit, InNetworkAhead, NodeAhead, InNetwork, Labels
    <3> QED
      BY <3>1, <3>2
  <2> QED
    BY <1>4, <2>1, <2>2 DEF ToVisit
<1> QED
  BY <1>1, <1>2, <1>3, <1>4, TurnStep

LEMMA CreateNodesDoneFollows ==
    ASSUME FollowInv, IInv', NEW h \in Handlers, CreateNodesDone(h)
    PROVE  FollowInv'
<1> USE DEF FollowInv, CreateNodesDone
<1>1. /\ pc[h] = "newNODE" /\ pc'[h] = "LINK" /\ nodes[h] = {}
      /\ todo'[h] = Present(old[h][net[h]].LINK)
      /\ UNCHANGED <<controller, files, snapshots, nets, net, nodes, node, copy, known>>
  BY DEF Goto, IInv, TypeOK
<1>2. Walking(h) /\ Walking(h)'
  BY <1>1 DEF Walking
<1>3. OthersStay(h)
  BY DEF OthersStay, IInv, TypeOK, snapshots, Goto
<1>4. ASSUME NEW e \in Watched, ToVisit(h, e)
      PROVE  ToVisit(h, e)'
  <2>1. CASE e.network \in nets[h]
    BY <1>1, <2>1 DEF ToVisit
  <2>2. CASE pc[h] \in InNetwork /\ e.network = net[h] /\ InNetworkAhead(h, e)
    <3>1. e.kind = "LINK"
      BY <1>1, <2>2 DEF InNetworkAhead, NodeAhead, HereAhead, AtNode
    <3>2. e.id \in Links
      BY <3>1, WatchedElement DEF Ids
    <3>3. e.id \in todo'[h] \/ ListIn(old, h, "LINK")[e.id] = Nil
      BY <1>1, <2>2, <3>2, NetworksFound DEF Present, List, ListIn
    <3>4. ListIn(old, h, "LINK")' = ListIn(old, h, "LINK")
      BY <1>1 DEF ListIn, snapshots
    <3> QED
      BY <1>1, <2>2, <3>1, <3>3, <3>4 DEF ToVisit, InNetworkAhead, ListAhead, InNetwork, Labels
  <2> QED
    BY <1>4, <2>1, <2>2 DEF ToVisit
<1> QED
  BY <1>1, <1>2, <1>3, <1>4, TurnStep

LEMMA UpdateNodeFollows ==
    ASSUME FollowInv, IInv', NEW h \in Handlers, UpdateNode(h)
    PROVE  FollowInv'
<1> USE DEF FollowInv, UpdateNode
<1>1. /\ pc[h] = "NODE" /\ pc'[h] = "nodes"
      /\ UNCHANGED <<controller, files, snapshots, nets, net, nodes, todo, known>>
  BY DEF Goto, IInv, TypeOK
<1>2. Walking(h) /\ Walking(h)'
  BY <1>1 DEF Walking
<1>3. OthersStay(h)
  BY DEF OthersStay, IInv, TypeOK, snapshots, Goto
<1> DEFINE before == old[h][net[h]].nodes[node[h]]
           now    == new[h][net[h]].nodes[node[h]]
<1>4. /\ new[h] \in Topology /\ net[h] \in Networks /\ new[h][net[h]] # Nil
      /\ node[h] \in Nodes /\ before # Nil /\ now # Nil
  BY <1>1 DEF IInv, Located, InNetwork, AtNode, Labels
<1>5. now.own \in Values
  BY <1>4, NodeOf
<1>6. IF before.own # now.own THEN copy' = ApplyUpdate(net[h], node[h], now.own) ELSE copy' = copy
  OBVIOUS
<1>7. Keeps(copy, copy')
  <2>1. copy \in Topology
    BY DEF IInv, TypeOK
  <2>2. Keeps(copy, ApplyUpdate(net[h], node[h], now.own))
    BY <1>4, <1>5, <2>1, UpdateApplied, Zenon
  <2>3. Keeps(copy, copy)
    BY DEF Keeps
  <2> QED
    BY <1>6, <2>2, <2>3, Zenon
<1>8. ASSUME NEW e \in Watched PROVE Served(h, e)
  <2> DEFINE here == e.kind = "NODE" /\ e.network = net[h] /\ e.node = node[h]
  <2>1. here => At(new[h], e) = now.own /\ At(old[h], e) = before.own
    BY <1>4 DEF At, InNode
  <2>2. IF before.own # now.own
        THEN At(copy', e) = IF here THEN now.own ELSE At(copy, e)
        ELSE At(copy', e) = At(copy, e)
    <3> HIDE DEF now, before
    <3> QED
      BY <1>4, <1>5, <1>6, UpdateNoted
  <2>3. ~here /\ ToVisit(h, e) => ToVisit(h, e)'
    <3>1. ASSUME ~here, ToVisit(h, e) PROVE ToVisit(h, e)'
      <4>1. CASE e.network \in nets[h]
        BY <1>1, <4>1 DEF ToVisit
      <4>2. CASE pc[h] \in InNetwork /\ e.network = net[h] /\ InNetworkAhead(h, e)
        <5>1. e.kind \in Kinds
          BY WatchedElement
        <5>2. ~HereAhead(h, e)
          BY <1>1, <3>1, <4>2, <5>1 DEF HereAhead, ListAhead, NewLabel, Kinds
        <5> QED
          BY <1>1, <4>2, <5>2
          DEF ToVisit, InNetworkAhead, NodeAhead, InNetwork, AtNode, Labels, snapshots
      <4> QED
        BY <3>1, <4>1, <4>2 DEF ToVisit
    <3> QED
      BY <3>1
  <2> HIDE DEF here, now, before
  <2>4. CASE here
    BY <1>2, <2>1, <2>2, <2>4 DEF Served, Owes
  <2>5. CASE ~here
    BY <1>2, <2>2, <2>3, <2>5 DEF Served, Owes
  <2> QED
    BY <2>4, <2>5
<1> QED
  BY <1>1, <1>2, <1>3, <1>7, <1>8, WalkOn

\* The node m of the network is replaced by x, which is what h read last.
LEMMA ReplacedServed ==
    ASSUME FollowInv, NEW h \in Handlers, pc[h] \in {"nodes", "newNODE"}, Walking(h),
           UNCHANGED <<pc, snapshots, nets, net, node, todo>>, net[h] \in Networks,
           NEW m \in Nodes, copy' = ApplyNode(net[h], m, new[h][net[h]].nodes[m]),
           nodes'[h] = nodes[h] \ {m}, NEW e \in Watched
    PROVE  Served(h, e)
<1> USE DEF FollowInv
<1> DEFINE x == new[h][net[h]].nodes[m]
           here == e.kind # "LINK" /\ e.network = net[h] /\ e.node = m
<1>1. At(copy', e) = IF here THEN InNode(x, e) ELSE At(copy, e)
  BY NodeNoted
<1>2. CASE here
  <2>1. At(new[h], e) = InNode(x, e)
    BY <1>2 DEF At
  <2> QED
    BY <1>1, <1>2, <2>1 DEF Served
<1>3. CASE ~here
  <2>1. ASSUME ToVisit(h, e) PROVE ToVisit(h, e)'
    <3>1. e.kind \in Kinds
      BY WatchedElement
    <3>2. NodeAhead(h, e.node) /\ e.node # m => NodeAhead(h, e.node)'
      BY DEF NodeAhead, snapshots
    <3>3. ~HereAhead(h, e)
      BY DEF HereAhead, AtNode
    <3> QED
      BY <1>3, <2>1, <3>1, <3>2, <3>3
      DEF ToVisit, InNetworkAhead, ListAhead, NewLabel, snapshots
  <2> QED
    BY <1>1, <1>3, <2>1 DEF Served, Owes
<1> QED
  BY <1>2, <1>3

LEMMA CreateNodeFollows ==
    ASSUME FollowInv, IInv', NEW h \in Handlers, CreateNode(h)
    PROVE  FollowInv'
<1> USE DEF FollowInv, CreateNode
<1>1. PICK m \in nodes[h] :
        /\ nodes' = [nodes EXCEPT ![h] = @ \ {m}]
        /\ copy' = ApplyNode(net[h], m, new[h][net[h]].nodes[m])
  OBVIOUS
<1>2. pc[h] = "newNODE" /\ pc[h] \in InNetwork /\ Walking(h) /\ Walking(h)'
  BY DEF InNetwork, Labels, Walking
<1>3. OthersStay(h) /\ nodes'[h] = nodes[h] \ {m}
  BY <1>1 DEF OthersStay, IInv, TypeOK, snapshots
<1>4. m \in Nodes /\ net[h] \in Networks /\ new[h][net[h]].nodes[m] \in Node \cup {Nil}
  BY <1>2, NetworksFound DEF IInv, TypeOK
<1>5. Keeps(copy, copy')
  BY <1>1, <1>4, NodeApplied DEF IInv, TypeOK
<1>6. \A e \in Watched : Served(h, e)
  BY <1>1, <1>2, <1>3, <1>4, ReplacedServed
<1> QED
  BY <1>2, <1>3, <1>5, <1>6, WalkOn

LEMMA NextNodeFollows ==
    ASSUME FollowInv, IInv', NEW h \in Handlers, NextNode(h)
    PROVE  FollowInv'
<1> USE DEF FollowInv, NextNode
<1>1. PICK m \in nodes[h] :
        /\ nodes' = [nodes EXCEPT ![h] = @ \ {m}]
        /\ IF new[h][net[h]].nodes[m] = Nil
           THEN copy' = ApplyNode(net[h], m, Nil) /\ UNCHANGED <<pc, node, todo>>
           ELSE /\ node' = [node EXCEPT ![h] = m]
                /\ todo' = [todo EXCEPT ![h] = Present(old[h][net[h]].nodes[m].TP)]
                /\ Goto(h, "TP")
                /\ UNCHANGED copy
  OBVIOUS
<1>2. pc[h] = "nodes" /\ pc[h] \in InNetwork /\ Walking(h)
  BY DEF InNetwork, Labels, Walking
<1>3. OthersStay(h) /\ nodes'[h] = nodes[h] \ {m}
  BY <1>1 DEF OthersStay, IInv, TypeOK, snapshots, Goto
<1>4. /\ m \in Nodes /\ net[h] \in Networks /\ old[h] \in Topology
      /\ old[h][net[h]] # Nil /\ old[h][net[h]].nodes[m] # Nil
  BY <1>2 DEF IInv, TypeOK, Located, Present
<1>5. CASE new[h][net[h]].nodes[m] = Nil
  <2>1. copy' = ApplyNode(net[h], m, new[h][net[h]].nodes[m]) /\ UNCHANGED <<pc, node, todo>>
    BY <1>1, <1>5
  <2>2. Keeps(copy, copy')
    BY <1>4, <1>5, <2>1, NodeApplied DEF IInv, TypeOK
  <2>3. \A e \in Watched : Served(h, e)
    BY <1>2, <1>3, <1>4, <2>1, ReplacedServed
  <2>4. Walking(h)'
    BY <1>2, <2>1 DEF Walking
  <2> QED
    BY <1>2, <1>3, <2>2, <2>3, <2>4, WalkOn
<1>6. CASE new[h][net[h]].nodes[m] # Nil
  <2>1. /\ node'[h] = m /\ pc'[h] = "TP" /\ copy' = copy
        /\ todo'[h] = Present(old[h][net[h]].nodes[m].TP)
        /\ UNCHANGED <<controller, files, snapshots, nets, net, known>>
    BY <1>1, <1>6 DEF Goto, IInv, TypeOK
  <2>2. Walking(h)'
    BY <2>1 DEF Walking
  <2>3. ASSUME NEW e \in Watched, ToVisit(h, e) PROVE ToVisit(h, e)'
    <3>1. CASE e.network \in nets[h]
      BY <2>1, <3>1 DEF ToVisit
    <3>2. CASE pc[h] \in InNetwork /\ e.network = net[h] /\ InNetworkAhead(h, e)
      <4>1. e.kind \in Kinds /\ (e.kind # "NODE" => e.id \in Ids(e.kind))
        BY WatchedElement
      <4>2. pc'[h] \in InNetwork /\ pc'[h] \in AtNode
        BY <2>1 DEF InNetwork, AtNode, Labels
      <4>3. CASE e.kind = "LINK"
        BY <2>1, <3>2, <4>2, <4>3 DEF ToVisit, InNetworkAhead
      <4>4. CASE e.kind # "LINK" /\ e.node # m
        <5>1. NodeAhead(h, e.node)
          BY <1>2, <3>2, <4>4 DEF InNetworkAhead, HereAhead, AtNode
        <5>2. NodeAhead(h, e.node)'
          BY <1>2, <1>3, <2>1, <4>2, <4>4, <5>1 DEF NodeAhead, snapshots
        <5> QED
          BY <2>1, <3>2, <4>2, <4>4, <5>2 DEF ToVisit, InNetworkAhead
      <4>5. CASE e.kind \in {"NODE", "TTP"} /\ e.node = m
        BY <2>1, <3>2, <4>2, <4>5 DEF ToVisit, InNetworkAhead, HereAhead
      <4>6. CASE e.kind = "TP" /\ e.node = m
        <5>1. old[h][net[h]].nodes[m].TP \in List(Tps)
          BY <1>4, NodeOf
        <5>2. e.id \in todo'[h] \/ old[h][net[h]].nodes[m].TP[e.id] = Nil
          BY <2>1, <4>1, <4>6, <5>1 DEF Present, List, Ids
        <5>3. ListIn(old, h, "TP")' = old[h][net[h]].nodes[m].TP
          BY <2>1 DEF ListIn, snapshots
        <5> QED
          BY <2>1, <3>2, <4>2, <4>6, <5>2, <5>3 DEF ToVisit, InNetworkAhead, HereAhead, ListAhead
      <4> QED
        BY <4>1, <4>3, <4>4, <4>5, <4>6 DEF Kinds
    <3> QED
      BY <2>3, <3>1, <3>2 DEF ToVisit
  <2> QED
    BY <1>2, <1>3, <2>1, <2>2, <2>3, TurnStep
<1> QED
  BY <1>5, <1>6

LEMMA NextNetworkFollows ==
    ASSUME FollowInv, IInv', NEW h \in Handlers, NextNetwork(h)
    PROVE  FollowInv'
<1> USE DEF FollowInv, NextNetwork
<1>1. PICK n \in nets[h] :
        /\ nets' = [nets EXCEPT ![h] = @ \ {n}]
        /\ IF new[h][n] = Nil
           THEN UNCHANGED <<pc, net, nodes>>
           ELSE /\ net' = [net EXCEPT ![h] = n]
                /\ nodes' = [nodes EXCEPT ![h] = Present(old[h][n].nodes)]
                /\ Goto(h, "nodes")
  OBVIOUS
<1>2. pc[h] = "nets" /\ pc[h] \notin InNetwork /\ Walking(h) /\ Walking(h)'
  BY <1>1 DEF InNetwork, Walking, Goto, IInv, TypeOK
<1>3. OthersStay(h) /\ nets'[h] = nets[h] \ {n}
  BY <1>1 DEF OthersStay, IInv, TypeOK, snapshots, Goto
<1>4. n \in Networks /\ old[h] \in Topology /\ old[h][n] # Nil
  BY <1>2 DEF IInv, TypeOK, Located, Present
<1>5. ASSUME NEW e \in Watched, ToVisit(h, e) PROVE ToVisit(h, e)'
  <2>1. e.network \in nets[h]
    BY <1>2, <1>5 DEF ToVisit
  <2>2. CASE e.network # n
    BY <1>3, <2>1, <2>2 DEF ToVisit
  <2>3. CASE e.network = n
    <3>1. new[h][n] # Nil /\ (e.kind # "LINK" => e.node \in Nodes)
      BY <1>2, <2>3, WatchedElement DEF Remains
    <3>2. /\ pc'[h] = "nodes" /\ net'[h] = n /\ nodes'[h] = Present(old[h][n].nodes)
          /\ old' = old
      BY <1>1, <3>1 DEF Goto, IInv, TypeOK, snapshots
    <3>3. e.kind # "LINK" => e.node \in nodes'[h] \/ old[h][n].nodes[e.node] = Nil
      BY <1>4, <3>1, <3>2, NetworkOf DEF Present
    <3> QED
      BY <2>3, <3>2, <3>3 DEF ToVisit, InNetworkAhead, NodeAhead, InNetwork, Labels
  <2> QED
    BY <2>2, <2>3
<1> QED
  BY <1>2, <1>3, <1>5, TurnStep

-----------------------------------------------------------------------------
(* The files, and the beginning and the end of a trigger *)

\* A change makes the network the subscriber has one that was before the change.
LEMMA WriteFollows ==
    ASSUME FollowInv, IInv', WritePrevious \/ WriteAfter
    PROVE  FollowInv'
<1> USE DEF FollowInv, snapshots, loops
<1>1. CASE WritePrevious
  <2> USE DEF WritePrevious
  <2>1. \A n \in known : Remains(n)'
    BY <1>1 DEF Remains, Walking
  <2>2. Written'
    BY <1>1, NilAssumption DEF Written, IInv, TypeOK
  <2>3. Announced'
    BY <1>1 DEF Announced, Walking
  <2>4. Watched' = Watched
    BY <1>1 DEF Watched
  <2>5. ASSUME NEW e \in Watched PROVE Current(e)' \/ \E g \in Handlers : Owes(g, e)'
    <3>1. Current(e) => Current(e)'
      BY <1>1 DEF Current, Right
    <3>2. \A g \in Handlers : Owes(g, e) => Owes(g, e)'
      BY <1>1, OwedStays
    <3> QED
      BY <3>1, <3>2 DEF Followed
  <2> QED
    BY <1>1, <2>1, <2>2, <2>3, <2>4, <2>5 DEF Followed
<1>2. CASE WriteAfter
  <2> USE DEF WriteAfter
  <2>1. PICK t \in Topologies :
          world' = t /\ after' = t /\ known' = {n \in known : t[n] # Nil}
    BY <1>2
  <2>2. t \in Topology /\ previous = world /\ previous \in Topology
    BY <1>2, TopologiesAssumption DEF Written, IInv, TypeOK
  <2>3. known' \subseteq known
    BY <2>1
  <2>4. \A n \in known' : Remains(n)'
    BY <1>2, <2>1, <2>3 DEF Remains, Walking
  <2>5. Written'
    BY <1>2, <2>1, <2>2, NilAssumption DEF Written
  <2>6. Announced'
    BY <1>2, <2>2 DEF Announced, Walking
  <2>7. Watched' \subseteq Watched
    BY <2>3 DEF Watched
  <2>8. ASSUME NEW e \in Watched PROVE Current(e)' \/ \E g \in Handlers : Owes(g, e)'
    <3>1. Current(e) => Current(e)'
      BY <1>2, <2>2 DEF Current, Right
    <3>2. \A g \in Handlers : Owes(g, e) => Owes(g, e)'
      BY <1>2, OwedStays
    <3> QED
      BY <3>1, <3>2 DEF Followed
  <2> QED
    BY <2>4, <2>5, <2>6, <2>7, <2>8 DEF Followed
<1> QED
  BY <1>1, <1>2

\* The first trigger for a change owes whatever is of before it.
LEMMA ReadPreviousFollows ==
    ASSUME FollowInv, IInv', NEW h \in Handlers, ReadPrevious(h)
    PROVE  FollowInv'
<1> USE DEF FollowInv, ReadPrevious, files, loops
<1>1. pc[h] = "idle" /\ pc'[h] = "readAfter" /\ old'[h] = previous
  BY DEF Goto, IInv, TypeOK
<1>2. OthersStay(h)
  BY DEF OthersStay, IInv, TypeOK, Goto
<1>3. /\ \A g \in Handlers : pc'[g] # "idle" => g = h \/ pc[g] # "idle"
      /\ \A g \in Handlers : Walking(g)' => Walking(g) /\ g # h
  BY <1>1, <1>2 DEF OthersStay, Walking
<1>4. \A n \in known : Remains(n)'
  BY <1>1, <1>2, <1>3 DEF Remains, OthersStay
<1>5. Written'
  BY <1>1, <1>2, <1>3 DEF Written, OthersStay
<1>6. pending = "written" => \A g \in Handlers : pc[g] = "idle"
  BY DEF Quiet, Busy
<1>7. pending' # "written"
  OBVIOUS
<1>8. Announced'
  BY <1>2, <1>3, <1>6 DEF Announced, OthersStay, Walking
<1>9. Watched' = Watched
  BY DEF Watched
<1>10. ASSUME NEW e \in Watched PROVE Current(e)' \/ \E g \in Handlers : Owes(g, e)'
  <2>1. CASE pending = "written"
    <3>1. Current(e)
      BY <1>6, <2>1 DEF Followed, Owes
    <3>2. CASE At(copy, e) = At(world, e)
      BY <1>7, <3>2 DEF Current, Right
    <3>3. CASE At(copy, e) = At(previous, e)
      BY <1>1, <3>3 DEF Owes, Walking
    <3> QED
      BY <2>1, <3>1, <3>2, <3>3 DEF Current, Right
  <2>2. CASE pending # "written"
    <3>1. Current(e) => Current(e)'
      BY <2>2 DEF Current, Right
    <3>2. \A g \in Handlers : Owes(g, e) => g # h
      BY <1>1 DEF Owes
    <3>3. \A g \in Handlers : Owes(g, e) => Owes(g, e)'
      BY <1>2, <3>2, OwedStays DEF OthersStay
    <3> QED
      BY <3>1, <3>3 DEF Followed
  <2> QED
    BY <2>1, <2>2
<1> QED
  BY <1>4, <1>5, <1>8, <1>9, <1>10 DEF Followed

\* A trigger that is answered owes nothing any more.
LEMMA ReturnFollows ==
    ASSUME FollowInv, IInv', NEW h \in Handlers, Return(h),
           UNCHANGED <<controller, files, copy, known>>,
           \A e \in Watched : Owes(h, e) => Current(e)
    PROVE  FollowInv'
<1> USE DEF FollowInv, Return, controller, files
<1>1. pc'[h] = "idle"
  BY DEF Goto, IInv, TypeOK
<1>2. OthersStay(h)
  BY DEF OthersStay, IInv, TypeOK, Goto
<1>3. \A g \in Handlers : pc'[g] # "idle" => g # h /\ pc[g] # "idle"
  BY <1>1, <1>2 DEF OthersStay
<1>4. \A n \in known : Remains(n)'
  BY <1>2, <1>3 DEF Remains, OthersStay, Walking
<1>5. Written'
  BY <1>2, <1>3 DEF Written, OthersStay
<1>6. Announced'
  BY <1>2, <1>3 DEF Announced, OthersStay, Walking
<1>7. Watched' = Watched
  BY DEF Watched
<1>8. ASSUME NEW e \in Watched PROVE Current(e)' \/ \E g \in Handlers : Owes(g, e)'
  <2>1. Current(e) => Current(e)'
    BY DEF Current, Right
  <2>2. \A g \in Handlers \ {h} : Owes(g, e) => Owes(g, e)'
    BY <1>2, OwedStays DEF OthersStay
  <2> QED
    BY <2>1, <2>2 DEF Followed
<1> QED
  BY <1>4, <1>5, <1>6, <1>7, <1>8 DEF Followed

LEMMA AnswerFollows ==
    ASSUME FollowInv, IInv', NEW h \in Handlers, Answer(h)
    PROVE  FollowInv'
<1>1. pc[h] = "nets" /\ nets[h] = {}
  BY DEF Answer
<1>2. \A e \in Watched : ~Owes(h, e)
  BY <1>1 DEF Owes, Walking, ToVisit, InNetwork
<1> QED
  BY <1>2, ReturnFollows DEF Answer

LEMMA ReadAfterFollows ==
    ASSUME FollowInv, IInv', NEW h \in Handlers, ReadAfter(h)
    PROVE  FollowInv'
<1> USE DEF FollowInv
<1>1. pc[h] = "readAfter"
  BY DEF ReadAfter
<1>2. CASE after \in {Nil, old[h]}
  <2>1. old[h] = world
    BY <1>1, <1>2, NilAssumption DEF Written, IInv, Located
  <2>2. \A e \in Watched : Owes(h, e) => Current(e)
    BY <2>1 DEF Owes, Current, Right
  <2> QED
    BY <1>2, <2>2, ReturnFollows DEF ReadAfter
<1>3. CASE after \notin {Nil, old[h]}
  <2> USE DEF ReadAfter, controller, files
  <2>1. /\ new'[h] = world /\ nets'[h] = Present(old[h]) /\ pc'[h] = "nets" /\ old' = old
        /\ UNCHANGED <<controller, files, copy, known, old, net, nodes, node, todo>>
    BY <1>3 DEF Goto, IInv, TypeOK, Written
  <2>2. OthersStay(h)
    BY <1>3 DEF OthersStay, IInv, TypeOK, Goto
  <2>3. /\ \A g \in Handlers : pc'[g] # "idle" => pc[g] # "idle"
        /\ \A g \in Handlers : Walking(g)' => Walking(g) \/ g = h
    BY <1>1, <2>1, <2>2 DEF OthersStay, Walking
  <2>4. \A n \in known : Remains(n)'
    BY <2>1, <2>2, <2>3 DEF Remains, OthersStay
  <2>5. Written'
    BY <2>1, <2>3 DEF Written
  <2>6. Announced'
    BY <2>1, <2>2, <2>3 DEF Announced, OthersStay
  <2>7. Watched' = Watched
    BY <2>1 DEF Watched
  <2>8. ASSUME NEW e \in Watched PROVE Current(e)' \/ \E g \in Handlers : Owes(g, e)'
    <3>1. Current(e) => Current(e)'
      BY <2>1 DEF Current, Right
    <3>2. \A g \in Handlers \ {h} : Owes(g, e) => Owes(g, e)'
      BY <2>1, <2>2, OwedStays DEF OthersStay
    <3>3. ASSUME Owes(h, e), At(world, e) # At(old[h], e) PROVE Owes(h, e)'
      <4>1. e.network \in nets'[h]
        <5>1. e.network \in Networks /\ old[h][e.network] # Nil /\ old[h] \in Topology
          BY <1>1, WatchedElement DEF Remains, IInv, Located
        <5> QED
          BY <2>1, <5>1 DEF Present, Topology
      <4>2. ToVisit(h, e)'
        BY <4>1 DEF ToVisit
      <4> QED
        BY <2>1, <3>3, <4>2 DEF Owes
    <3>4. ASSUME Owes(h, e), At(world, e) = At(old[h], e) PROVE Current(e)
      BY <3>4 DEF Owes, Current, Right
    <3> QED
      BY <3>1, <3>2, <3>3, <3>4 DEF Followed
  <2> QED
    BY <2>1, <2>4, <2>5, <2>6, <2>7, <2>8 DEF Followed
<1> QED
  BY <1>2, <1>3

-----------------------------------------------------------------------------
(* The theorem *)

LEMMA InitFollows == Init => FollowInv
<1>1. SUFFICES ASSUME Init PROVE FollowInv
  OBVIOUS
<1>2. IInv
  BY <1>1, InitInv
<1>3. \A n \in known : Remains(n)
  BY <1>1, <1>2 DEF Init, Remains, Present, Walking, IInv, TypeOK
<1>4. Written /\ Announced
  BY <1>1 DEF Init, Written, Announced, Walking
<1>5. Followed
  BY <1>1 DEF Init, Followed, Current, Right
<1> QED
  BY <1>2, <1>3, <1>4, <1>5 DEF FollowInv

LEMMA TriggerFollows ==
    ASSUME FollowInv, IInv', NEW h \in Handlers, Trigger(h)
    PROVE  FollowInv'
<1>1. CASE ReadPrevious(h) \/ ReadAfter(h) \/ NextNetwork(h) \/ Answer(h)
  BY <1>1, ReadPreviousFollows, ReadAfterFollows, NextNetworkFollows, AnswerFollows
<1>2. CASE CompareNodes(h)
  BY <1>2, NextNodeFollows, UpdateNodeFollows, NodesDoneFollows, CreateNodeFollows,
     CreateNodesDoneFollows DEF CompareNodes
<1>3. CASE ComparePoints(h)
  <2>1. CASE Compare(h, "TP") \/ Compare(h, "TTP")
    BY <2>1, CompareFollows DEF ListKinds
  <2>2. CASE CompareDone(h, "TP") \/ CompareDone(h, "TTP")
    BY <2>2, CompareDoneFollows DEF ListKinds
  <2>3. CASE Create(h, "TP", "newTP") \/ Create(h, "TTP", "newTTP")
    BY <2>3, CreateFollows DEF ListKinds, NewLabel
  <2>4. CASE CreateDone(h, "TP", "newTP", "TTP") \/ CreateDone(h, "TTP", "newTTP", "NODE")
    BY <2>4, CreateDoneFollows DEF ListKinds, NewLabel
  <2> QED
    BY <1>3, <2>1, <2>2, <2>3, <2>4 DEF ComparePoints
<1>4. CASE CompareLinks(h)
  <2>1. CASE Compare(h, "LINK") \/ Create(h, "LINK", "newLINK")
    BY <2>1, CompareFollows, CreateFollows DEF ListKinds, NewLabel
  <2>2. CASE CompareDone(h, "LINK")
    BY <2>2, CompareDoneFollows DEF ListKinds
  <2>3. CASE CreateDone(h, "LINK", "newLINK", "nets")
    BY <2>3, CreateDoneFollows DEF ListKinds, NewLabel
  <2> QED
    BY <1>4, <2>1, <2>2, <2>3 DEF CompareLinks
<1> QED
  BY <1>1, <1>2, <1>3, <1>4 DEF Trigger

LEMMA NextFollows == FollowInv /\ [Next]_vars => FollowInv'
<1>1. SUFFICES ASSUME FollowInv, [Next]_vars PROVE FollowInv'
  OBVIOUS
<1>2. IInv'
  BY <1>1, NextInv DEF FollowInv
<1>3. CASE WritePrevious \/ WriteAfter
  BY <1>1, <1>2, <1>3, WriteFollows
<1>4. CASE \E h \in Handlers : Trigger(h)
  BY <1>1, <1>2, <1>4, TriggerFollows
<1>5. CASE UNCHANGED vars
  <2> USE DEF vars, controller, files, snapshots, loops
  <2>1. (\A n \in known : Remains(n)') /\ Written' /\ Announced' /\ Watched' = Watched
    BY <1>1, <1>5 DEF FollowInv, Remains, Written, Announced, Walking, Watched
  <2>2. \A e \in Watched : Current(e) => Current(e)'
    BY <1>5 DEF Current, Right
  <2>3. \A e \in Watched, g \in Handlers : Owes(g, e) => Owes(g, e)'
    BY <1>5, OwedStays
  <2> QED
    BY <1>1, <1>2, <1>5, <2>1, <2>2, <2>3 DEF FollowInv, Followed
<1> QED
  BY <1>1, <1>3, <1>4, <1>5 DEF Next

\* A copy whose elements are those of the network is the network.
LEMMA FollowedCopy == FollowInv => CopyFollows
<1>1. SUFFICES ASSUME FollowInv, Quiet, pending = "read", NEW n \in known
               PROVE  /\ "LINK" \in Wanted => copy[n].LINK = world[n].LINK
                      /\ "NODE" \in Wanted => NodesFollow(n)
                      /\ \A k \in Wanted \cap {"TP", "TTP"} : "NODE" \in Wanted => PointsFollow(n, k)
  BY DEF CopyFollows
<1> USE DEF FollowInv
<1>2. \A e \in Watched : At(copy, e) = At(world, e)
  BY <1>1 DEF Followed, Owes, Quiet, Busy, Current, Right
<1>3. /\ copy \in Topology /\ world \in Topology /\ n \in Networks
      /\ copy[n] # Nil /\ world[n] # Nil
  <2>1. copy \in Topology /\ world \in Topology
    BY <1>1 DEF IInv, TypeOK
  <2>2. Remains(n)
    BY <1>1
  <2> QED
    BY <2>1, <2>2 DEF Remains
<1>4. ASSUME NEW k \in Wanted, NEW m \in Nodes \cup {Nil},
             NEW i \in Links \cup Tps \cup Ttps \cup {Nil},
             k # "LINK" => m \in Nodes, k # "NODE" => i \in Ids(k),
             k \in {"TP", "TTP"} => "NODE" \in Wanted
      PROVE  At(copy, [kind |-> k, network |-> n, node |-> m, id |-> i])
             = At(world, [kind |-> k, network |-> n, node |-> m, id |-> i])
  <2>1. [kind |-> k, network |-> n, node |-> m, id |-> i] \in Watched
    BY <1>4 DEF Watched
  <2> QED
    BY <1>2, <2>1
<1>5. ASSUME "LINK" \in Wanted PROVE copy[n].LINK = world[n].LINK
  <2>1. \A i \in Links : copy[n].LINK[i] = world[n].LINK[i]
    <3>1. ASSUME NEW i \in Links PROVE copy[n].LINK[i] = world[n].LINK[i]
      <4>1. At(copy, [kind |-> "LINK", network |-> n, node |-> Nil, id |-> i])
            = At(world, [kind |-> "LINK", network |-> n, node |-> Nil, id |-> i])
        BY <1>4, <1>5 DEF Ids
      <4> QED
        BY <4>1 DEF At
    <3> QED
      BY <3>1
  <2>2. copy[n].LINK \in List(Links) /\ world[n].LINK \in List(Links)
    BY <1>3, NetworkOf
  <2> QED
    BY <2>1, <2>2 DEF List
<1>6. ASSUME "NODE" \in Wanted, NEW m \in Nodes
      PROVE  /\ copy[n].nodes[m] = Nil <=> world[n].nodes[m] = Nil
             /\ copy[n].nodes[m] # Nil => copy[n].nodes[m].own = world[n].nodes[m].own
  <2> DEFINE e == [kind |-> "NODE", network |-> n, node |-> m, id |-> Nil]
  <2>1. At(copy, e) = At(world, e)
    BY <1>4, <1>6
  <2>2. e.kind = "NODE" /\ e.network = n /\ e.node = m
    OBVIOUS
  <2> HIDE DEF e
  <2>3. \A t \in {copy, world} : t[n].nodes[m] # Nil => t[n].nodes[m].own # Nil
    BY <1>3, NodeOf, NilAssumption
  <2> QED
    BY <2>1, <2>2, <2>3 DEF At, InNode
<1>7. ASSUME "NODE" \in Wanted, NEW k \in Wanted \cap {"TP", "TTP"}, NEW m \in Nodes,
             copy[n].nodes[m] # Nil
      PROVE  copy[n].nodes[m][k] = world[n].nodes[m][k]
  <2>1. world[n].nodes[m] # Nil
    BY <1>6, <1>7
  <2>2. ASSUME NEW i \in Ids(k) PROVE copy[n].nodes[m][k][i] = world[n].nodes[m][k][i]
    <3> DEFINE e == [kind |-> k, network |-> n, node |-> m, id |-> i]
    <3>1. At(copy, e) = At(world, e)
      BY <1>4, <1>7, <2>2 DEF Ids
    <3>2. e.kind = k /\ e.network = n /\ e.node = m /\ e.id = i
      OBVIOUS
    <3> HIDE DEF e
    <3> QED
      BY <1>7, <2>1, <3>1, <3>2 DEF At, InNode
  <2>3. copy[n].nodes[m] \in Node /\ world[n].nodes[m] \in Node
    BY <1>3, <1>7, <2>1, NodeOf
  <2>4. copy[n].nodes[m][k] \in List(Ids(k)) /\ world[n].nodes[m][k] \in List(Ids(k))
    BY <2>3 DEF Node, Ids
  <2> QED
    BY <2>2, <2>4 DEF List
<1> QED
  BY <1>5, <1>6, <1>7 DEF NodesFollow, PointsFollow

\* However many triggers overlap, repeat and read their snapshots on both sides
\* of a change, when all are answered and the last change was announced, the
\* copy that a subscriber made from the notifications (lines 104-314 of
\* ResponseGeneratorHandler.go) is the network.
THEOREM FollowsNetwork == Spec => []CopyFollows
<1>1. Spec => []FollowInv
  BY InitFollows, NextFollows, PTL DEF Spec
<1> QED
  BY <1>1, FollowedCopy, PTL
==============================================================================
