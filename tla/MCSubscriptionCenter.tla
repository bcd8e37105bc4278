------------------------ MODULE MCSubscriptionCenter ------------------------
(* SubscriptionCenter for TLC: handlers and object types are model values.  *)
EXTENDS CenterDescent, TLC

HandlerSymmetry == Permutations(Handlers)
Symmetry == Permutations(Handlers) \cup Permutations(Types)
=============================================================================
