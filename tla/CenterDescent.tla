--------------------------- MODULE CenterDescent ---------------------------
(***************************************************************************)
(* What is left to do for a request of SubscriptionCenter, as a sequence   *)
(* of counts that gets smaller with every step of its own, and larger with *)
(* the steps of others only when a notification has one more to visit.     *)
(***************************************************************************)
EXTENDS SubscriptionCenter, Descent

\* The places of each operation, none of which goes back; SendAll goes around in
\* its loops.
Place ==
    [make |-> 8, fill |-> 7, readCounter |-> 6, marshal |-> 5, truncate |-> 4, write |-> 3,
     broker |-> 2, reply |-> 1,
     drop |-> 11, dropConns |-> 10, findBroker |-> 9, close |-> 8, dropBroker |-> 7,
     findOwn |-> 7, newBroker |-> 6, attach |-> 5, findMap |-> 4, newMap |-> 3, register |-> 2,
     wait |-> 1, range |-> 1, open |-> 1, send |-> 1, idle |-> 0]

\* A round of the outer loop of SendAll.
Round == [open |-> 2, send |-> 1]

RoundLeft(h) == IF pc[h] \in {"open", "send"} THEN Round[pc[h]] ELSE 0

\* The elements of a slice to store, none if the slice was deleted; the streams to
\* send to.
LoopLeft(h) ==
    CASE pc[h] = "fill" /\ subs[id[h]] # Nil -> Cardinality(want[h] \ subs[id[h]])
      [] pc[h] = "send" -> Cardinality(targets[h])
      [] OTHER -> 0

\* The place of a request, the subscriptions and the streams to visit.
Work(h) == <<Place[pc[h]], Cardinality(must[h]), RoundLeft(h), LoopLeft(h)>>

\* The steps of a request that was accepted and of a stream that has ended.
Own(h) == Proceed(h) \/ Send(h)

\* A notification gets one more subscription or stream to visit, because another
\* request adds it to the map that the loop goes around in.
Joined(h) ==
    /\ op[h] = "sendAll" /\ UNCHANGED <<pc[h], id[h]>>
    /\ \E g \in Handlers \ {h} :
         \/ /\ Make(g) /\ subs[id[g]] = Nil
            /\ must'[h] = must[h] \cup {id[g]} /\ targets'[h] = targets[h]
         \/ /\ Register(g) /\ id[g] = id[h] /\ h \in ranging
            /\ targets'[h] = targets[h] \cup {g} /\ must'[h] = must[h]

\* Every step of its own brings a request nearer to its end, and no step of another
\* takes it further away, however they change the maps that it goes around in,
\* except by adding one entry to the loop of a notification: a slice is not filled
\* anew, and a loop over a map that was dropped or replaced gets nothing more.
RequestsAdvance ==
    [][\A h \in Handlers : pc[h] # "idle" /\ restarts' = restarts =>
           \/ Nearer(Work(h)', Work(h))
           \/ ~Own(h) /\ (Work(h)' = Work(h) \/ Joined(h))]_vars
=============================================================================
