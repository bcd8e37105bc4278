----------------------------- MODULE MCDatastore -----------------------------
(* Datastore for TLC: handlers, resources and values are model values.      *)
EXTENDS Datastore, TLC

HandlerSymmetry == Permutations(Handlers)
Symmetry ==
    Permutations(Handlers) \cup Permutations(Entries)
      \cup Permutations(Fields) \cup Permutations(Values)
=============================================================================
