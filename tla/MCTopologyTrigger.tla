-------------------------- MODULE MCTopologyTrigger --------------------------
(* Topologies for TLC: of one network that may be absent, with one node, TP, *)
(* TTP and link at most, those that differ by a creation, an update and a    *)
(* deletion at every level.                                                  *)
EXTENDS TopologyTrigger, TLC

CONSTANTS w, u, l, p, q, v1, v2

With(element, link) == [i \in {w} |-> [nodes |-> [m \in {u} |-> element], LINK |-> [j \in {l} |-> link]]]

Of(own, tp, ttp) == [own |-> own, TP |-> [j \in {p} |-> tp], TTP |-> [j \in {q} |-> ttp]]

MCTopologies ==
    {[i \in {w} |-> Nil],
     With(Nil, Nil),
     With(Nil, v1),
     With(Of(v1, Nil, v1), v2),
     With(Of(v2, v1, Nil), Nil),
     With(Of(v1, v2, v1), v1),
     With(Of(v2, v1, v2), v1),
     With(Of(v1, v1, v1), v1)}

Symmetry == Permutations(Handlers)
=============================================================================
