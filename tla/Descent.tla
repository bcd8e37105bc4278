------------------------------ MODULE Descent ------------------------------
(***************************************************************************)
(* The order in which the work that is left gets less.  Work is a          *)
(* sequence of counts, the most significant first: one may grow when one   *)
(* before it gets smaller, as the items of an inner list do when the outer *)
(* list goes on.  What has not begun, and may take any time, is Unknown,   *)
(* which is more than any number.                                          *)
(***************************************************************************)
EXTENDS Integers

Unknown == -1

Fewer(m, n) == m # Unknown /\ (n = Unknown \/ m < n)

\* `work` is nearer to its end than `before`.
Nearer(work, before) ==
    \E k \in DOMAIN work :
        Fewer(work[k], before[k]) /\ \A i \in 1 .. k - 1 : work[i] = before[i]
=============================================================================
