-------------------------------- MODULE Store --------------------------------
(***************************************************************************)
(* What a client may expect of the RESTCONF datastore: a map from entries  *)
(* to objects that reads, patches and deletions act on one at a time.  The *)
(* only ways to lose data are the faults that are counted.                 *)
(***************************************************************************)
EXTENDS Naturals

CONSTANTS Entries, Fields, Values, Nil, Twice

VARIABLES
    content,  \* entry -> Nil, Twice (a list item that is there twice) or an object
    tagged,   \* the datastore has an entity tag
    last,     \* the last request that was completed, and its answer
    faults    \* failures of the machine so far

vars == <<content, tagged, last, faults>>

Object == [Fields -> Values \cup {Nil}]

Nothing == [e \in Entries |-> Nil]

Init ==
    /\ content \in [Entries -> {Nil, Twice} \cup Object]
    /\ tagged \in BOOLEAN
    /\ last = [method |-> "NONE", status |-> "none", body |-> Nil]
    /\ faults = 0

Answer(method, status, body) ==
    last' = [method |-> method, status |-> status, body |-> body]

(* Each operation acts on the contents c, those of the store or, once a     *)
(* fault made them unreadable, none.                                        *)

Read(c, t, e) ==
    /\ \/ c[e] = Nil /\ Answer("GET", "not found", Nil)
       \/ c[e] # Nil /\ t /\ Answer("GET", "ok", c[e])
       \/ c[e] # Nil /\ ~t /\ Answer("GET", "error", Nil)
    /\ content' = c
    /\ tagged' = t

Patch(c, t, e, p) ==
    \/ /\ c[e] \in Object
       /\ \E o \in Object :
            /\ \A f \in Fields : o[f] = IF p[f] = Nil THEN c[e][f] ELSE p[f]
            /\ content' = [c EXCEPT ![e] = o]
       /\ tagged' = TRUE
       /\ Answer("PATCH", "ok", Nil)
    \/ /\ c[e] \notin Object
       /\ Answer("PATCH", IF c[e] = Nil THEN "not found" ELSE "bad request", Nil)
       /\ content' = c
       /\ tagged' = t

Remove(c, t, e) ==
    \/ /\ c[e] \in Object
       /\ content' = [c EXCEPT ![e] = Nil]
       /\ tagged' = TRUE
       /\ Answer("DELETE", "ok", Nil)
    \/ /\ c[e] \notin Object
       /\ Answer("DELETE", IF c[e] = Nil THEN "not found" ELSE "bad request", Nil)
       /\ content' = c
       /\ tagged' = t

Other(c, t) ==
    /\ Answer("NONE", "none", Nil)
    /\ content' = c
    /\ tagged' = t

Operate(c, t) ==
    \/ \E e \in Entries :
         \/ Read(c, t, e)
         \/ \E p \in Object : Patch(c, t, e, p)
         \/ Remove(c, t, e)
    \/ Other(c, t)

Perform == Operate(content, tagged) /\ UNCHANGED faults

\* The data could not be read before the operation.
Blind == faults > 0 /\ Operate(Nothing, TRUE) /\ UNCHANGED faults

\* The process ends, or a file operation fails. All is lost or nothing is,
\* and an operation may be answered without its effect.
Fault ==
    /\ faults' = faults + 1
    /\ \/ UNCHANGED <<content, tagged>>
       \/ content' = Nothing /\ tagged' = TRUE
    /\ \/ UNCHANGED last
       \/ last' \in [method : {"NONE", "GET", "PATCH", "DELETE"},
                     status : {"none", "ok", "not found", "bad request", "error"},
                     body : {Nil, Twice} \cup Object]

Next == Perform \/ Blind \/ Fault

Spec == Init /\ [][Next]_vars
=============================================================================
