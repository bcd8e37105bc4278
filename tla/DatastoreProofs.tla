--------------------------- MODULE DatastoreProofs ---------------------------
(***************************************************************************)
(* Theorems about Datastore for any number of goroutines, resources, keys, *)
(* values, requests, failing file operations and ends of the process.      *)
(***************************************************************************)
EXTENDS Datastore, FiniteSetTheorems, TLAPS

\* The resources are well typed where nothing is stored, and after a change.
LEMMA Typed ==
    /\ Nothing \in Content /\ NoPatch \in Object
    /\ NoRequest \in Requests /\ NoAnswer \in Answers /\ NoDatabase \in Database
    /\ \A o, p \in Object : Merge(o, p) \in Object
<1>1. Nothing \in Content /\ NoPatch \in Object /\ NoDatabase \in Database
  BY DEF Nothing, Content, NoPatch, Object, NoDatabase, Database
<1>2. NoRequest \in Requests
  BY DEF NoRequest, Requests
<1>3. NoAnswer \in Answers
  BY DEF NoAnswer, Answers, Statuses, Bodies
<1>4. \A o, p \in Object : Merge(o, p) \in Object
  BY DEF Merge, Object
<1> QED
  BY <1>1, <1>2, <1>3, <1>4

LEMMA TypeInit == Init => TypeOK
<1> SUFFICES ASSUME Init PROVE TypeOK
  OBVIOUS
<1>1. file \in {Nil, Torn} \cup Database /\ versions \in Seq(Content)
  <2>1. CASE file = Nil /\ versions = << >>
    BY <2>1
  <2>2. ASSUME NEW data \in Content,
               \/ file = [tag |-> 0, data |-> data] /\ versions = << >>
               \/ file = [tag |-> 1, data |-> data] /\ versions = <<data>>
        PROVE  file \in Database /\ versions \in Seq(Content)
    <3>1. CASE file = [tag |-> 0, data |-> data] /\ versions = << >>
      BY <3>1 DEF Database
    <3>2. CASE file = [tag |-> 1, data |-> data] /\ versions = <<data>>
      BY <3>2 DEF Database
    <3> QED
      BY <2>2, <3>1, <3>2
  <2> QED
    BY <2>1, <2>2 DEF Init
<1>2. last \in Completions
  BY DEF Init, Completions, Methods, Statuses, Bodies
<1> QED
  BY <1>1, <1>2, Typed DEF Init, TypeOK, Labels

\* What Load gives a request, action by action: the Database it works on is
\* the file, or a new one.
LEMMA LoadFacts ==
  ASSUME TypeOK, NEW h \in Handlers, Load(h)
  PROVE  /\ pc[h] = "idle" /\ pc' = [pc EXCEPT ![h] = "operate"]
         /\ \E q \in Requests : request' = [request EXCEPT ![h] = q]
         /\ raced' = [raced EXCEPT ![h] = Saves # {}]
         /\ UNCHANGED <<file, answer, last, restarts>>
         /\ \/ /\ Readable /\ db' = [db EXCEPT ![h] = file]
               /\ UNCHANGED <<versions, faults>>
            \/ /\ ~Readable \/ faults' = faults + 1
               /\ Readable \/ faults' = faults
               /\ db' = [db EXCEPT ![h] = [tag |-> Len(versions) + 1, data |-> Nothing]]
               /\ versions' = Append(versions, Nothing)
         /\ requests' = requests + 1 /\ faults' \in Nat
<1>1. /\ pc[h] = "idle" /\ pc' = [pc EXCEPT ![h] = "operate"]
      /\ \E q \in Requests : request' = [request EXCEPT ![h] = q]
      /\ raced' = [raced EXCEPT ![h] = Saves # {}]
      /\ UNCHANGED <<file, answer, last, restarts>>
      /\ requests' = requests + 1
  BY DEF Load, Goto
<1>2. \/ Readable /\ db' = [db EXCEPT ![h] = file] /\ UNCHANGED <<versions, faults>>
      \/ /\ ~Readable /\ db' = [db EXCEPT ![h] = NewDatabase] /\ versions' = Append(versions, Nothing)
         /\ UNCHANGED faults
      \/ /\ Readable /\ faults' = faults + 1 /\ db' = [db EXCEPT ![h] = NewDatabase]
         /\ versions' = Append(versions, Nothing)
  BY DEF Load
<1>3. faults' \in Nat
  BY <1>2 DEF TypeOK
<1> QED
  BY <1>1, <1>2, <1>3 DEF NewDatabase, NewTag

\* Operate leaves the Database as it is, or changes the resources under a new
\* tag; then it answers, unless the request hangs in the mutex.
LEMMA OperateFacts ==
  ASSUME TypeOK, NEW h \in Handlers, Operate(h)
  PROVE  /\ pc[h] = "operate"
         /\ UNCHANGED <<file, request, raced, last, bounds>>
         /\ \/ UNCHANGED <<db, versions>>
            \/ \E data \in Content :
                 /\ db' = [db EXCEPT ![h] = [tag |-> Len(versions) + 1, data |-> data]]
                 /\ versions' = Append(versions, data)
         /\ \/ pc' = [pc EXCEPT ![h] = "stuck"] /\ UNCHANGED <<answer, db, versions>>
            \/ /\ pc' = [pc EXCEPT ![h] = "truncate"]
               /\ \E a \in Answers : answer' = [answer EXCEPT ![h] = a]
<1>1. /\ pc[h] = "operate"
      /\ UNCHANGED <<file, request, raced, last, bounds>>
  BY DEF Operate
<1>a. \A s \in Statuses, t \in Nat, b \in Bodies :
        Respond(h, s, t, b) =>
          /\ pc' = [pc EXCEPT ![h] = "truncate"]
          /\ \E a \in Answers : answer' = [answer EXCEPT ![h] = a]
  BY DEF Respond, Goto, Answers
<1>d. db[h].tag \in Nat /\ db[h].data \in Content /\ NewTag \in Nat
  BY DEF TypeOK, Database, NewTag
<1>q. /\ request[h].method \in {"GET", "PATCH", "DELETE"} => request[h].entry \in Entries
      /\ request[h].patch \in Object
  BY Typed DEF TypeOK, Requests
<1>e. ASSUME request[h].method \in {"GET", "PATCH", "DELETE"} PROVE Resource(h) \in Bodies
  BY <1>d, <1>q, <1>e DEF Resource, Content, Bodies
<1>s. {"none", "ok", "not found", "bad request", "error"} \subseteq Statuses /\ Nil \in Bodies
  BY DEF Statuses, Bodies
<1>2. CASE request[h].method = "GET" /\ Get(h)
  BY <1>1, <1>2, <1>a, <1>d, <1>e, <1>s DEF Get
<1>r. ASSUME NEW s \in Statuses, Refuse(h, s)
      PROVE  /\ UNCHANGED <<db, versions>>
             /\ pc' = [pc EXCEPT ![h] = "truncate"]
             /\ \E a \in Answers : answer' = [answer EXCEPT ![h] = a]
  BY <1>r, <1>a, <1>s DEF Refuse
<1>3. CASE request[h].method = "PATCH" /\ Patch(h)
  <2>1. CASE Refuse(h, "not found") \/ Refuse(h, "bad request")
    BY <1>1, <1>r, <1>s, <2>1
  <2>2. CASE /\ Resource(h) \notin {Nil, Twice}
             /\ Change(h, [db[h].data EXCEPT ![request[h].entry] = Merge(@, request[h].patch)])
             /\ Respond(h, "ok", NewTag, Nil)
    <3> DEFINE data == [db[h].data EXCEPT ![request[h].entry] = Merge(@, request[h].patch)]
    <3>1. data \in Content
      <4>1. Merge(Resource(h), request[h].patch) \in Object
        BY <1>3, <1>q, <1>e, <2>2, Typed DEF Bodies
      <4> QED
        BY <4>1, <1>3, <1>d, <1>q DEF Content, Resource
    <3>2. db' = [db EXCEPT ![h] = [tag |-> Len(versions) + 1, data |-> data]] /\ versions' = Append(versions, data)
      BY <2>2 DEF Change, Modified, NewTag
    <3> HIDE DEF data
    <3> QED
      BY <1>1, <1>a, <1>d, <1>s, <2>2, <3>1, <3>2
  <2> QED
    BY <1>3, <2>1, <2>2 DEF Patch
<1>4. CASE request[h].method = "DELETE" /\ Delete(h)
  <2>1. CASE Refuse(h, "not found") \/ Refuse(h, "bad request")
    BY <1>1, <1>r, <1>s, <2>1
  <2>2. CASE /\ Resource(h) \notin {Nil, Twice}
             /\ Change(h, [db[h].data EXCEPT ![request[h].entry] = Nil])
             /\ Respond(h, "ok", 0, Nil)
    <3> DEFINE data == [db[h].data EXCEPT ![request[h].entry] = Nil]
    <3>1. data \in Content
      BY <1>4, <1>d, <1>q DEF Content
    <3>2. db' = [db EXCEPT ![h] = [tag |-> Len(versions) + 1, data |-> data]] /\ versions' = Append(versions, data)
      BY <2>2 DEF Change, Modified, NewTag
    <3> HIDE DEF data
    <3> QED
      BY <1>1, <1>a, <1>d, <1>s, <2>2, <3>1, <3>2
  <2> QED
    BY <1>4, <2>1, <2>2 DEF Delete
<1>5. CASE request[h].method = "PUT" /\ Put(h)
  BY <1>1, <1>5 DEF Put, Goto
<1>6. CASE request[h].method = "NONE" /\ Refuse(h, "none")
  BY <1>1, <1>6, <1>r, <1>s
<1> QED
  BY <1>2, <1>3, <1>4, <1>5, <1>6 DEF Operate

\* Every step keeps the types.
LEMMA TypeStep == TypeOK /\ [Next]_vars => TypeOK'
<1> SUFFICES ASSUME TypeOK, [Next]_vars PROVE TypeOK'
  OBVIOUS
<1>1. ASSUME NEW h \in Handlers, Load(h) PROVE TypeOK'
  <2>1. db' \in [Handlers -> Database]
    <3>1. CASE Readable /\ db' = [db EXCEPT ![h] = file]
      BY <3>1 DEF TypeOK, Readable
    <3>2. CASE db' = [db EXCEPT ![h] = [tag |-> Len(versions) + 1, data |-> Nothing]]
      BY <3>2, Typed DEF TypeOK, Database
    <3> QED
      BY <1>1, <3>1, <3>2, LoadFacts
  <2>2. versions' \in Seq(Content)
    <3>1. CASE versions' = Append(versions, Nothing)
      BY <3>1, Typed DEF TypeOK
    <3> QED
      BY <1>1, <3>1, LoadFacts DEF TypeOK
  <2>3. raced' \in [Handlers -> BOOLEAN]
    BY <1>1, LoadFacts, Zenon DEF TypeOK
  <2>4. pc' \in [Handlers -> Labels] /\ request' \in [Handlers -> Requests]
    BY <1>1, LoadFacts DEF TypeOK, Labels
  <2> QED
    BY <1>1, <2>1, <2>2, <2>3, <2>4, LoadFacts DEF TypeOK
<1>2. ASSUME NEW h \in Handlers, Operate(h) PROVE TypeOK'
  <2>0. ASSUME UNCHANGED <<db, versions>> PROVE db' \in [Handlers -> Database] /\ versions' \in Seq(Content)
    BY <2>0 DEF TypeOK
  <2>c. ASSUME NEW data \in Content,
               db' = [db EXCEPT ![h] = [tag |-> Len(versions) + 1, data |-> data]],
               versions' = Append(versions, data)
        PROVE  db' \in [Handlers -> Database] /\ versions' \in Seq(Content)
    BY <2>c DEF TypeOK, Database
  <2>1. db' \in [Handlers -> Database] /\ versions' \in Seq(Content)
    BY <1>2, <2>0, <2>c, OperateFacts DEF TypeOK
  <2>2. pc' \in [Handlers -> Labels] /\ answer' \in [Handlers -> Answers]
    BY <1>2, OperateFacts DEF TypeOK, Labels
  <2> QED
    BY <1>2, <2>1, <2>2, OperateFacts DEF TypeOK, bounds
<1>c. ASSUME NEW h \in Handlers, Completed(h)
      PROVE  last' \in Completions
  BY <1>c DEF Completed, TypeOK, Requests, Methods, Answers, Completions
<1>3. ASSUME NEW h \in Handlers, Truncate(h) PROVE TypeOK'
  BY <1>3, <1>c DEF Truncate, Race, Goto, TypeOK, Labels, locals, bounds
<1>4. ASSUME NEW h \in Handlers, WriteFile(h) PROVE TypeOK'
  BY <1>4 DEF WriteFile, Race, Goto, TypeOK, Labels, locals, bounds
<1>5. ASSUME NEW h \in Handlers, SaveFails(h) PROVE TypeOK'
  BY <1>5, <1>c DEF SaveFails, Goto, TypeOK, Labels, locals
<1>6. ASSUME NEW h \in Handlers, Reply(h) PROVE TypeOK'
  BY <1>6, Typed DEF Reply, Goto, TypeOK, Labels, bounds
<1>7. CASE Restart
  BY <1>7, Typed DEF Restart, TypeOK, Labels
<1>8. CASE UNCHANGED vars
  BY <1>8 DEF vars, locals, bounds, TypeOK
<1> QED
  BY <1>1, <1>2, <1>3, <1>4, <1>5, <1>6, <1>7, <1>8 DEF Next, Proceed

\* Every variable has the values the code can give it.
THEOREM TypeCorrect == Spec => []TypeOK
BY TypeInit, TypeStep, PTL DEF Spec

-----------------------------------------------------------------------------
(* Entity tags *)

\* The resources of d are those that its tag was made for, in the history vs.
Names(vs, d) == d.tag # 0 => d.tag <= Len(vs) /\ vs[d.tag] = d.data

\* A tag keeps its meaning when a new one is made, and the new one is free.
LEMMA NewTags ==
  ASSUME NEW vs \in Seq(Content), NEW x \in Content
  PROVE  /\ \A d \in Database : Names(vs, d) => Names(Append(vs, x), d)
         /\ Names(Append(vs, x), [tag |-> Len(vs) + 1, data |-> x])
         /\ \A t \in 1 .. Len(vs) : Append(vs, x)[t] = vs[t]
         /\ Len(Append(vs, x)) = Len(vs) + 1
<1>1. \A t \in 1 .. Len(vs) : Append(vs, x)[t] = vs[t]
  OBVIOUS
<1>2. Len(Append(vs, x)) = Len(vs) + 1 /\ Append(vs, x)[Len(vs) + 1] = x
  OBVIOUS
<1>3. ASSUME NEW d \in Database, Names(vs, d) PROVE Names(Append(vs, x), d)
  BY <1>1, <1>2, <1>3 DEF Names, Database
<1>4. Names(Append(vs, x), [tag |-> Len(vs) + 1, data |-> x])
  BY <1>2 DEF Names
<1> QED
  BY <1>1, <1>2, <1>3, <1>4

\* Where no answer has been given yet there is none.
Unanswered ==
    \A h \in Handlers : pc[h] \in {"idle", "operate", "stuck"} => answer[h] = NoAnswer

\* The answer of a GET: its tag was made for resources that hold its body.
Answered(h) ==
    answer[h].status = "ok" /\ request[h].method = "GET" =>
      /\ answer[h].tag \in 1 .. Len(versions)
      /\ versions[answer[h].tag][request[h].entry] = answer[h].body

TagInv ==
    /\ TypeOK
    /\ Readable => Names(versions, file)
    /\ \A h \in Handlers : Names(versions, db[h]) /\ Answered(h)
    /\ Unanswered

\* A successful GET answers with the tag and the resource of its Database.
LEMMA GetFacts ==
  ASSUME TypeOK, NEW h \in Handlers, Operate(h), request[h].method = "GET",
         answer'[h].status = "ok"
  PROVE  /\ answer'[h].tag = db[h].tag /\ db[h].tag # 0
         /\ answer'[h].body = db[h].data[request[h].entry]
         /\ UNCHANGED versions
<1>1. Get(h)
  BY DEF Operate
<1>2. ASSUME NEW s, NEW t, NEW b, Respond(h, s, t, b)
      PROVE  answer'[h].status = s /\ answer'[h].tag = t /\ answer'[h].body = b
  BY <1>2 DEF Respond, TypeOK
<1>3. ~Respond(h, "not found", 0, Nil) /\ ~Respond(h, "error", 0, Nil)
  BY <1>2
<1>4. Resource(h) # Nil /\ db[h].tag # 0 /\ Respond(h, "ok", db[h].tag, Resource(h)) /\ UNCHANGED versions
  BY <1>1, <1>3 DEF Get
<1>5. answer'[h].tag = db[h].tag /\ answer'[h].body = Resource(h)
  BY <1>2, <1>4
<1> QED
  BY <1>4, <1>5 DEF Resource

LEMMA TagInit == Init => TagInv
<1> SUFFICES ASSUME Init PROVE TagInv
  OBVIOUS
<1>1. Readable => Names(versions, file)
  <2>1. CASE file = Nil
    BY <2>1 DEF Readable
  <2>2. ASSUME NEW data \in Content,
               \/ file = [tag |-> 0, data |-> data] /\ versions = << >>
               \/ file = [tag |-> 1, data |-> data] /\ versions = <<data>>
        PROVE  Names(versions, file)
    BY <2>2 DEF Names
  <2> QED
    BY <2>1, <2>2 DEF Init
<1>2. \A h \in Handlers : Names(versions, db[h]) /\ Answered(h)
  BY DEF Init, Names, NoDatabase, Answered, NoAnswer
<1> QED
  BY <1>1, <1>2, TypeInit DEF Init, TagInv, Unanswered

LEMMA TagStep == TagInv /\ [Next]_vars => TagInv'
<1> SUFFICES ASSUME TagInv, [Next]_vars PROVE TagInv'
  OBVIOUS
<1>t. TypeOK /\ TypeOK'
  BY TypeStep DEF TagInv
<1>1. ASSUME NEW h \in Handlers, Load(h) PROVE TagInv'
  <2>1. CASE Readable /\ db' = [db EXCEPT ![h] = file] /\ UNCHANGED versions
    <3>1. \A k \in Handlers : Names(versions, db[k])'
      BY <1>t, <2>1 DEF TagInv, TypeOK
    <3>2. Unanswered' /\ (Readable => Names(versions, file))'
      <4>1. pc[h] = "idle" /\ pc' = [pc EXCEPT ![h] = "operate"] /\ UNCHANGED <<file, answer>>
        BY <1>1, <1>t, LoadFacts
      <4>2. Unanswered'
        BY <1>t, <4>1 DEF TagInv, Unanswered, TypeOK
      <4> QED
        BY <2>1, <4>1, <4>2 DEF TagInv, Readable
    <3>3. answer[h] = NoAnswer /\ answer' = answer /\ \A k \in Handlers \ {h} : request'[k] = request[k]
      BY <1>1, <1>t, LoadFacts DEF TagInv, Unanswered, TypeOK
    <3>4. \A k \in Handlers : Answered(k)'
      BY <2>1, <3>3 DEF TagInv, Answered, NoAnswer
    <3> QED
      BY <1>t, <3>1, <3>2, <3>4 DEF TagInv
  <2>2. CASE /\ db' = [db EXCEPT ![h] = [tag |-> Len(versions) + 1, data |-> Nothing]]
             /\ versions' = Append(versions, Nothing)
    <3>1. \A d \in Database : Names(versions, d) => Names(versions', d)
      BY <1>t, <2>2, NewTags, Typed DEF TypeOK
    <3>2. Names(versions', [tag |-> Len(versions) + 1, data |-> Nothing])
      BY <1>t, <2>2, NewTags, Typed DEF TypeOK
    <3>3. \A k \in Handlers : Names(versions, db[k])' 
      BY <1>t, <2>2, <3>1, <3>2 DEF TagInv, TypeOK
    <3>4. (Readable => Names(versions, file))'
      BY <1>1, <1>t, <3>1, LoadFacts DEF TagInv, Readable, TypeOK
    <3>5. Unanswered'
      BY <1>1, <1>t, LoadFacts DEF TagInv, Unanswered, TypeOK
    <3>6. \A k \in Handlers : Answered(k)'
      <4>1. answer[h] = NoAnswer /\ answer' = answer /\ \A k \in Handlers \ {h} : request'[k] = request[k]
        BY <1>1, <1>t, LoadFacts DEF TagInv, Unanswered, TypeOK
      <4>2. \A t \in 1 .. Len(versions) : versions'[t] = versions[t]
        BY <1>t, <2>2, NewTags, Typed DEF TypeOK
      <4>3. Len(versions') = Len(versions) + 1 /\ Len(versions) \in Nat
        BY <1>t, <2>2, NewTags, Typed DEF TypeOK
      <4> QED
        BY <4>1, <4>2, <4>3 DEF TagInv, Answered, NoAnswer
    <3> QED
      BY <1>t, <3>3, <3>4, <3>5, <3>6 DEF TagInv
  <2> QED
    BY <1>1, <1>t, <2>1, <2>2, LoadFacts
<1>2. ASSUME NEW h \in Handlers, Operate(h) PROVE TagInv'
  <2>0. Unanswered'
    BY <1>2, <1>t, OperateFacts DEF TagInv, Unanswered, TypeOK
  <2>1. CASE UNCHANGED <<db, versions>>
    <3>1. \A k \in Handlers : Answered(k)'
      <4>1. \A k \in Handlers \ {h} : answer'[k] = answer[k]
        BY <1>2, <1>t, OperateFacts DEF TypeOK
      <4>2. request' = request
        BY <1>2, <1>t, OperateFacts
      <4>3. Answered(h)'
        <5> SUFFICES ASSUME answer'[h].status = "ok", request[h].method = "GET"
                     PROVE  /\ answer'[h].tag \in 1 .. Len(versions)
                            /\ versions[answer'[h].tag][request[h].entry] = answer'[h].body
          BY <4>2, <2>1 DEF Answered
        <5>1. /\ answer'[h].tag = db[h].tag /\ db[h].tag # 0
              /\ answer'[h].body = db[h].data[request[h].entry]
          BY <1>2, <1>t, GetFacts
        <5> QED
          BY <5>1, <1>t DEF TagInv, Names, TypeOK, Database
      <4> QED
        BY <2>1, <4>1, <4>2, <4>3 DEF TagInv, Answered
    <3>2. file' = file
      BY <1>2, <1>t, OperateFacts
    <3> QED
      BY <1>t, <2>0, <2>1, <3>1, <3>2 DEF TagInv, Readable
  <2>2. ASSUME NEW data \in Content,
               db' = [db EXCEPT ![h] = [tag |-> Len(versions) + 1, data |-> data]],
               versions' = Append(versions, data), ~UNCHANGED versions
        PROVE  TagInv'
    <3>1. \A d \in Database : Names(versions, d) => Names(versions', d)
      BY <1>t, <2>2, NewTags DEF TypeOK
    <3>2. Names(versions', [tag |-> Len(versions) + 1, data |-> data])
      BY <1>t, <2>2, NewTags DEF TypeOK
    <3>3. \A k \in Handlers : Names(versions, db[k])'
      BY <1>t, <2>2, <3>1, <3>2 DEF TagInv, TypeOK
    <3>4. (Readable => Names(versions, file))'
      BY <1>2, <1>t, <3>1, OperateFacts DEF TagInv, Readable, TypeOK
    <3>5. \A k \in Handlers : Answered(k)'
      <4>1. request' = request /\ \A k \in Handlers \ {h} : answer'[k] = answer[k]
        BY <1>2, <1>t, OperateFacts DEF TypeOK
      <4>2. ~(answer'[h].status = "ok" /\ request[h].method = "GET")
        BY <1>2, <1>t, <2>2, GetFacts
      <4>3. \A t \in 1 .. Len(versions) : versions'[t] = versions[t]
        BY <1>t, <2>2, NewTags DEF TypeOK
      <4>4. Len(versions') = Len(versions) + 1 /\ Len(versions) \in Nat
        BY <1>t, <2>2, NewTags DEF TypeOK
      <4> QED
        BY <4>1, <4>2, <4>3, <4>4 DEF TagInv, Answered
    <3> QED
      BY <1>t, <2>0, <3>3, <3>4, <3>5 DEF TagInv
  <2>3. ASSUME UNCHANGED versions, ~UNCHANGED db PROVE FALSE
    <3>1. PICK data \in Content : versions' = Append(versions, data)
      BY <1>2, <1>t, <2>3, OperateFacts
    <3> QED
      BY <1>t, <2>3, <3>1, NewTags DEF TypeOK
  <2> QED
    BY <1>2, <1>t, <2>1, <2>2, <2>3, OperateFacts
<1>3. ASSUME NEW h \in Handlers, Truncate(h) PROVE TagInv'
  BY <1>3, <1>t DEF Truncate, Goto, locals, bounds, TagInv, TypeOK, Readable, Answered, Unanswered
<1>4. ASSUME NEW h \in Handlers, WriteFile(h) PROVE TagInv'
  BY <1>4, <1>t DEF WriteFile, Goto, locals, bounds, TagInv, TypeOK, Readable, Answered, Unanswered
<1>5. ASSUME NEW h \in Handlers, SaveFails(h) PROVE TagInv'
  BY <1>5, <1>t DEF SaveFails, Goto, locals, TagInv, TypeOK, Readable, Answered, Unanswered
<1>6. ASSUME NEW h \in Handlers, Reply(h) PROVE TagInv'
  BY <1>6, <1>t DEF Reply, Goto, TagInv, TypeOK, Readable, Answered, Unanswered, NoAnswer, NoDatabase, Names
<1>7. CASE Restart
  BY <1>7, <1>t DEF Restart, TagInv, Readable, Answered, Unanswered, NoAnswer, NoDatabase, Names
<1>8. CASE UNCHANGED vars
  BY <1>8, <1>t DEF vars, locals, bounds, TagInv, Readable, Answered, Unanswered
<1> QED
  BY <1>1, <1>2, <1>3, <1>4, <1>5, <1>6, <1>7, <1>8 DEF Next, Proceed

\* An entity tag names one content of the datastore, with any number of
\* overlapping requests, failing file operations and ends of the process.
THEOREM TagsIdentify == Spec => []TagIdentifiesContent
<1>1. TagInv => TagIdentifiesContent
  BY DEF TagInv, TagIdentifiesContent, Tagged, Names, Answered
<1> QED
  BY <1>1, TagInit, TagStep, PTL DEF Spec

-----------------------------------------------------------------------------
(* Updates are lost in overlaps only *)

StoredTagged == Readable => file.tag # 0

\* The Database of h is the content c, tagged or not.
Kept(h, c, t) == db[h].data = c /\ (db[h].tag # 0 <=> t)

Told(h, status, body) == answer[h].status = status /\ answer[h].body = body

\* The request of h was served from the content c.
ServedGet(h, c, t) ==
    /\ request[h].method = "GET"
    /\ request[h].entry \in Entries
    /\ Kept(h, c, t)
    /\ \/ c[request[h].entry] = Nil /\ Told(h, "not found", Nil)
       \/ c[request[h].entry] # Nil /\ t /\ Told(h, "ok", c[request[h].entry])
       \/ c[request[h].entry] # Nil /\ ~t /\ Told(h, "error", Nil)

\* A change is refused for what is no object, and otherwise made and tagged.
ServedChange(h, c, t, object) ==
    /\ request[h].entry \in Entries
    /\ \/ c[request[h].entry] = Nil /\ Kept(h, c, t) /\ Told(h, "not found", Nil)
       \/ c[request[h].entry] = Twice /\ Kept(h, c, t) /\ Told(h, "bad request", Nil)
       \/ /\ c[request[h].entry] \in Object
          /\ Kept(h, [c EXCEPT ![request[h].entry] = object], TRUE)
          /\ Told(h, "ok", Nil)

Served(h, c, t) ==
    \/ ServedGet(h, c, t)
    \/ /\ request[h].method = "PATCH"
       /\ request[h].patch \in Object
       /\ ServedChange(h, c, t, Merge(c[request[h].entry], request[h].patch))
    \/ /\ request[h].method = "DELETE"
       /\ ServedChange(h, c, t, Nil)
    \/ request[h].method = "NONE" /\ Kept(h, c, t) /\ Told(h, "none", Nil)

\* Operate serves a request from its own Database.
LEMMA OperateServes ==
  ASSUME TypeOK, NEW h \in Handlers, Operate(h), pc'[h] # "stuck",
         NEW c, NEW t \in BOOLEAN, Kept(h, c, t)
  PROVE  Served(h, c, t)'
<1>t. /\ c \in Content /\ c = db[h].data /\ Resource(h) = c[request[h].entry]
      /\ request[h] \in Requests /\ request' = request /\ pc[h] = "operate"
  BY OperateFacts DEF Kept, TypeOK, Database, Resource
<1>a. ASSUME NEW s, NEW g, NEW b, Respond(h, s, g, b) PROVE Told(h, s, b)'
  BY <1>a DEF Respond, TypeOK, Told
<1>r. ASSUME NEW s, Refuse(h, s) PROVE Told(h, s, Nil)' /\ Kept(h, c, t)'
  BY <1>r, <1>a DEF Refuse, Kept
<1>c. ASSUME NEW data, Change(h, data) PROVE Kept(h, data, TRUE)'
  BY <1>c DEF Change, Modified, NewTag, Kept, TypeOK
<1>o. ASSUME request[h].method \in {"GET", "PATCH", "DELETE"}
      PROVE  /\ request[h].entry \in Entries /\ request[h].patch \in Object
             /\ Resource(h) \notin {Nil, Twice} => Resource(h) \in Object
  BY <1>t, <1>o, Typed DEF Requests, Content
<1>1. CASE request[h].method = "GET" /\ Get(h)
  <2>1. Kept(h, c, t)'
    BY <1>1 DEF Get, Kept
  <2> QED
    BY <1>1, <1>t, <1>a, <1>o, <2>1 DEF Get, Served, ServedGet, Kept
<1>2. CASE request[h].method = "PATCH" /\ Patch(h)
  <2>1. CASE \/ Resource(h) = Nil /\ Refuse(h, "not found")
             \/ Resource(h) = Twice /\ Refuse(h, "bad request")
    BY <1>2, <2>1, <1>t, <1>r, <1>o DEF Served, ServedChange
  <2>2. CASE /\ Resource(h) \notin {Nil, Twice}
             /\ Change(h, [db[h].data EXCEPT ![request[h].entry] = Merge(@, request[h].patch)])
             /\ Respond(h, "ok", NewTag, Nil)
    <3>1. Kept(h, [c EXCEPT ![request[h].entry] = Merge(c[request[h].entry], request[h].patch)], TRUE)'
      BY <2>2, <1>t, <1>c
    <3>2. Told(h, "ok", Nil)'
      BY <2>2, <1>a
    <3> QED
      BY <1>2, <2>2, <1>t, <1>o, <3>1, <3>2 DEF Served, ServedChange
  <2> QED
    BY <1>2, <2>1, <2>2 DEF Patch
<1>3. CASE request[h].method = "DELETE" /\ Delete(h)
  <2>1. CASE \/ Resource(h) = Nil /\ Refuse(h, "not found")
             \/ Resource(h) = Twice /\ Refuse(h, "bad request")
    BY <1>3, <2>1, <1>t, <1>r, <1>o DEF Served, ServedChange
  <2>2. CASE /\ Resource(h) \notin {Nil, Twice}
             /\ Change(h, [db[h].data EXCEPT ![request[h].entry] = Nil])
             /\ Respond(h, "ok", 0, Nil)
    <3>1. Kept(h, [c EXCEPT ![request[h].entry] = Nil], TRUE)'
      BY <2>2, <1>t, <1>c
    <3>2. Told(h, "ok", Nil)'
      BY <2>2, <1>a
    <3> QED
      BY <1>3, <2>2, <1>t, <1>o, <3>1, <3>2 DEF Served, ServedChange
  <2> QED
    BY <1>3, <2>1, <2>2 DEF Delete
<1>4. CASE request[h].method = "PUT" /\ Put(h)
  BY <1>4 DEF Put, Goto, TypeOK
<1>5. CASE request[h].method = "NONE" /\ Refuse(h, "none")
  BY <1>5, <1>t, <1>r DEF Served
<1> QED
  BY <1>1, <1>2, <1>3, <1>4, <1>5 DEF Operate

\* What was served from c is the effect of the request on c.
LEMMA ServedEffect ==
  ASSUME TypeOK, NEW h \in Handlers, NEW c \in Content, NEW t \in BOOLEAN, Served(h, c, t)
  PROVE  db[h].data = Effect(c, request[h])
<1>0. Nil \notin Object /\ Twice \notin Object
  BY DatastoreAssumption
<1>1. CASE ServedGet(h, c, t) \/ (request[h].method = "NONE" /\ Kept(h, c, t))
  BY <1>1 DEF ServedGet, Kept, Effect
<1>2. CASE request[h].method = "PATCH" /\ ServedChange(h, c, t, Merge(c[request[h].entry], request[h].patch))
  <2>1. Merge(c[request[h].entry], request[h].patch)
          = [f \in Fields |-> IF request[h].patch[f] = Nil THEN c[request[h].entry][f] ELSE request[h].patch[f]]
    BY DEF Merge
  <2> QED
    BY <1>0, <1>2, <2>1 DEF ServedChange, Kept, Effect
<1>3. CASE request[h].method = "DELETE" /\ ServedChange(h, c, t, Nil)
  BY <1>0, <1>3 DEF ServedChange, Kept, Effect
<1> QED
  BY <1>1, <1>2, <1>3 DEF Served

\* What a load of the file gives now: its content, or nothing if it failed.
FileGives(c, t) ==
    \/ c = Stored /\ (t <=> StoredTagged)
    \/ faults > 0 /\ c = Nothing /\ t = TRUE

\* While no other save comes between, a request has what the file gives.
FromFile(h) ==
    /\ pc[h] = "operate" =>
         \E c \in Content, t \in BOOLEAN : FileGives(c, t) /\ Kept(h, c, t)
    /\ pc[h] = "truncate" =>
         \E c \in Content, t \in BOOLEAN : FileGives(c, t) /\ Served(h, c, t)

RaceInv == TypeOK /\ \A h \in Handlers : ~raced[h] => FromFile(h)

LEMMA RaceInit == Init => RaceInv
BY TypeInit DEF Init, RaceInv, FromFile

LEMMA RaceStep == RaceInv /\ [Next]_vars => RaceInv'
<1> SUFFICES ASSUME RaceInv, [Next]_vars PROVE RaceInv'
  OBVIOUS
<1>t. TypeOK /\ TypeOK'
  BY TypeStep DEF RaceInv
<1> SUFFICES ASSUME NEW k \in Handlers, ~raced'[k] PROVE FromFile(k)'
  BY <1>t DEF RaceInv
<1>k. ASSUME ~raced[k], UNCHANGED <<file, pc[k], db[k], request[k], answer[k]>>, faults' >= faults
      PROVE  FromFile(k)'
  <2>1. FromFile(k) /\ faults \in Nat /\ faults' \in Nat
    BY <1>t, <1>k DEF RaceInv, TypeOK
  <2>2. ASSUME NEW c, NEW t, FileGives(c, t) PROVE FileGives(c, t)'
    BY <1>k, <2>1, <2>2 DEF FileGives, Stored, StoredTagged, Readable, Nothing
  <2>3. ASSUME NEW c, NEW t, Kept(k, c, t) PROVE Kept(k, c, t)'
    BY <1>k, <2>3 DEF Kept
  <2>4. ASSUME NEW c, NEW t, Served(k, c, t) PROVE Served(k, c, t)'
    <3>1. request'[k] = request[k]
      BY <1>k
    <3>2. ASSUME NEW object, NEW n PROVE Kept(k, object, n)' <=> Kept(k, object, n)
      BY <1>k DEF Kept
    <3>3. ASSUME NEW status, NEW body PROVE Told(k, status, body)' <=> Told(k, status, body)
      BY <1>k DEF Told
    <3>4. ServedGet(k, c, t)' <=> ServedGet(k, c, t)
      BY <3>1, <3>2, <3>3 DEF ServedGet
    <3>5. ASSUME NEW object PROVE ServedChange(k, c, t, object)' <=> ServedChange(k, c, t, object)
      BY <3>1, <3>2, <3>3 DEF ServedChange
    <3> QED
      BY <2>4, <3>1, <3>2, <3>3, <3>4, <3>5 DEF Served
  <2> QED
    BY <1>k, <2>1, <2>2, <2>3, <2>4 DEF FromFile
<1>1. ASSUME NEW h \in Handlers, Load(h) PROVE FromFile(k)'
  <2>1. CASE k = h
    <3>1. pc'[k] = "operate" /\ file' = file
      BY <1>1, <1>t, <2>1, LoadFacts DEF TypeOK
    <3> SUFFICES \E c \in Content, t \in BOOLEAN : FileGives(c, t)' /\ Kept(k, c, t)'
      BY <3>1 DEF FromFile
    <3>2. CASE Readable /\ db' = [db EXCEPT ![h] = file]
      <4>1. file \in Database /\ db'[k] = file
        BY <1>t, <2>1, <3>2 DEF Readable, TypeOK
      <4>2. PICK c \in Content, t \in BOOLEAN : c = file.data /\ (t <=> file.tag # 0)
        BY <4>1 DEF Database
      <4>3. FileGives(c, t)' /\ Kept(k, c, t)'
        BY <3>1, <3>2, <4>1, <4>2 DEF FileGives, Kept, Stored, StoredTagged, Readable
      <4> QED
        BY <4>3
    <3>3. CASE /\ ~Readable \/ faults' = faults + 1
               /\ db' = [db EXCEPT ![h] = [tag |-> Len(versions) + 1, data |-> Nothing]]
      <4>1. Kept(k, Nothing, TRUE)'
        BY <1>t, <2>1, <3>1, <3>3 DEF Kept, TypeOK, Nothing
      <4>2. ~Readable => Stored' = Nothing /\ StoredTagged'
        BY <3>1 DEF Stored, StoredTagged, Readable, Nothing
      <4>3. Readable => faults' > 0
        BY <1>t, <3>3 DEF TypeOK
      <4>4. FileGives(Nothing, TRUE)'
        BY <4>2, <4>3 DEF FileGives, Nothing
      <4> QED
        BY <4>1, <4>4, Typed
    <3> QED
      BY <1>1, <1>t, <3>2, <3>3, LoadFacts
  <2>2. CASE k # h
    <3>1. faults' >= faults
      BY <1>1, <1>t, LoadFacts DEF TypeOK
    <3>2. ~raced[k] /\ UNCHANGED <<file, pc[k], db[k], request[k], answer[k]>>
      BY <1>1, <1>t, <2>2, LoadFacts DEF TypeOK
    <3> QED
      BY <3>1, <3>2, <1>k
  <2> QED
    BY <2>1, <2>2
<1>2. ASSUME NEW h \in Handlers, Operate(h) PROVE FromFile(k)'
  <2>0. UNCHANGED <<file, raced, faults>> /\ faults \in Nat
    BY <1>2, <1>t, OperateFacts DEF bounds, TypeOK
  <2>1. CASE k = h /\ pc'[h] # "stuck"
    <3>1. pc[k] = "operate" /\ pc'[k] = "truncate"
      BY <1>2, <1>t, <2>1, OperateFacts DEF TypeOK
    <3>2. PICK c \in Content, t \in BOOLEAN : FileGives(c, t) /\ Kept(k, c, t)
      BY <2>0, <3>1 DEF RaceInv, FromFile
    <3>3. Served(k, c, t)'
      BY <1>2, <1>t, <2>1, <3>2, OperateServes
    <3>4. FileGives(c, t)'
      BY <2>0, <3>2 DEF FileGives, StoredTagged, Stored, Readable, Nothing
    <3> QED
      BY <3>1, <3>3, <3>4 DEF FromFile
  <2>2. CASE k = h /\ pc'[h] = "stuck"
    BY <2>2 DEF FromFile
  <2>3. CASE k # h
    <3>1. ~raced[k] /\ UNCHANGED <<file, pc[k], db[k], request[k], answer[k]>>
      BY <1>2, <1>t, <2>0, <2>3, OperateFacts DEF TypeOK
    <3> QED
      BY <2>0, <3>1, <1>k
  <2> QED
    BY <2>1, <2>2, <2>3
<1>3. ASSUME NEW h \in Handlers, Truncate(h) \/ WriteFile(h) PROVE FromFile(k)'
  <2>1. CASE k = h
    BY <1>3, <1>t, <2>1 DEF Truncate, WriteFile, Goto, TypeOK, FromFile
  <2>2. CASE k # h
    <3>1. pc'[k] = pc[k] /\ pc[k] \in {"idle", "stuck"}
      BY <1>3, <1>t, <2>2 DEF Truncate, WriteFile, Goto, Race, TypeOK
    <3> QED
      BY <3>1 DEF FromFile
  <2> QED
    BY <2>1, <2>2
<1>4. ASSUME NEW h \in Handlers, SaveFails(h) PROVE FromFile(k)'
  <2>1. CASE k = h
    BY <1>4, <1>t, <2>1 DEF SaveFails, Goto, TypeOK, FromFile
  <2>2. CASE k # h
    BY <1>4, <1>t, <2>2, <1>k DEF SaveFails, Goto, TypeOK, locals
  <2> QED
    BY <2>1, <2>2
<1>5. ASSUME NEW h \in Handlers, Reply(h) PROVE FromFile(k)'
  <2>1. CASE k = h
    BY <1>5, <1>t, <2>1 DEF Reply, Goto, TypeOK, FromFile
  <2>2. CASE k # h
    BY <1>5, <1>t, <2>2, <1>k DEF Reply, Goto, TypeOK, bounds
  <2> QED
    BY <2>1, <2>2
<1>6. CASE Restart
  BY <1>6 DEF Restart, FromFile
<1>7. CASE UNCHANGED vars
  BY <1>7, <1>t, <1>k DEF vars, locals, bounds, TypeOK
<1> QED
  BY <1>1, <1>2, <1>3, <1>4, <1>5, <1>6, <1>7 DEF Next, Proceed

\* A save that no other save came between replaces the content of the file
\* by the effect of its own request on it: only overlaps lose an update.
THEOREM RacesOnly == Spec => LostInRacesOnly
<1>1. ASSUME RaceInv, [Next]_vars, NEW h \in Handlers,
             pc[h] = "truncate", ~raced[h], faults = 0
      PROVE  db[h].data = Effect(Stored, request[h])
  <2>1. PICK c \in Content, t \in BOOLEAN : FileGives(c, t) /\ Served(h, c, t)
    BY <1>1 DEF RaceInv, FromFile
  <2>2. c = Stored
    BY <1>1, <2>1 DEF FileGives
  <2> QED
    BY <1>1, <2>1, <2>2, ServedEffect DEF RaceInv
<1>2. RaceInv /\ [Next]_vars =>
        \A h \in Handlers : pc[h] = "truncate" /\ pc'[h] = "write" /\ ~raced[h] /\ faults = 0 =>
          db[h].data = Effect(Stored, request[h])
  BY <1>1
<1> QED
  BY <1>2, RaceInit, RaceStep, PTL DEF Spec, LostInRacesOnly

-----------------------------------------------------------------------------
(* Requests that come one after the other implement Store *)

\* One request at work at a time: nobody else changes the file meanwhile.
Alone ==
    /\ \A h, k \in Busy : h = k
    /\ \A h \in Busy : ~raced[h]
    /\ \A h \in Saves : file = Nil

LEMMA AloneInit == Init => Alone
BY DEF Init, Alone, Busy, Saves

\* A step of a handler at work leaves no other one at work.
LEMMA AloneStep ==
  ASSUME MaxBusy = 1
  PROVE  TypeOK /\ Alone /\ [Next]_vars => Alone'
<1> SUFFICES ASSUME TypeOK, Alone, [Next]_vars PROVE Alone'
  OBVIOUS
<1>1. ASSUME NEW h \in Handlers, Load(h) PROVE Alone'
  <2>1. Busy = {}
    <3>1. IsFiniteSet(Busy) /\ Cardinality(Busy) < 1
      BY <1>1, DatastoreAssumption, FS_Subset DEF Load, Busy
    <3>2. Cardinality(Busy) \in Nat
      BY <3>1, FS_CardinalityType
    <3> QED
      BY <3>1, <3>2, FS_EmptySet
  <2>2. Saves = {} /\ ~raced'[h]
    <3>1. Saves = {}
      BY <2>1 DEF Saves, Busy
    <3>2. raced' = [raced EXCEPT ![h] = Saves # {}]
      BY <1>1, LoadFacts
    <3> QED
      BY <3>1, <3>2 DEF TypeOK
  <2> QED
    BY <1>1, <2>1, <2>2, LoadFacts DEF Alone, Busy, Saves, TypeOK
<1>2. ASSUME NEW h \in Handlers, Operate(h) PROVE Alone'
  BY <1>2, OperateFacts DEF Alone, Busy, Saves, TypeOK
<1>3. ASSUME NEW h \in Handlers, Truncate(h) PROVE Alone'
  BY <1>3 DEF Truncate, Race, Goto, Alone, Busy, Saves, TypeOK
<1>4. ASSUME NEW h \in Handlers, WriteFile(h) PROVE Alone'
  BY <1>4 DEF WriteFile, Race, Goto, Alone, Busy, Saves, TypeOK
<1>5. ASSUME NEW h \in Handlers, SaveFails(h) PROVE Alone'
  BY <1>5 DEF SaveFails, Goto, Alone, Busy, Saves, TypeOK
<1>6. ASSUME NEW h \in Handlers, Reply(h) PROVE Alone'
  BY <1>6 DEF Reply, Goto, Alone, Busy, Saves, TypeOK
<1>7. CASE Restart
  BY <1>7 DEF Restart, Alone, Busy, Saves
<1>8. CASE UNCHANGED vars
  BY <1>8 DEF vars, locals, Alone, Busy, Saves
<1> QED
  BY <1>1, <1>2, <1>3, <1>4, <1>5, <1>6, <1>7, <1>8 DEF Next, Proceed

\* What the abstract store holds between saves, and during one.
CurrentIs ==
    /\ Saves = {} => Current.data = Stored /\ (Current.tag # 0 <=> StoredTagged)
    /\ \A h \in Handlers : pc[h] = "write" => Current = db[h]
    /\ Current.data \in Content

LEMMA CurrentFacts == TypeOK /\ Alone => CurrentIs
<1> SUFFICES ASSUME TypeOK, Alone PROVE CurrentIs
  OBVIOUS
<1> USE DEF CurrentIs
<1>1. CASE Saves = {}
  <2>1. CASE Readable
    BY <1>1, <2>1 DEF Current, Stored, StoredTagged, TypeOK, Database, Readable, Saves
  <2>2. CASE ~Readable
    <3>1. Current = [tag |-> NewTag, data |-> Nothing]
      BY <1>1, <2>2 DEF Current
    <3>2. NewTag # 0
      BY DEF NewTag, TypeOK
    <3> QED
      BY <1>1, <2>2, <3>1, <3>2, Typed DEF Stored, StoredTagged, Saves
  <2> QED
    BY <2>1, <2>2
<1>2. CASE Saves # {}
  <2>1. (CHOOSE h \in Saves : TRUE) \in Saves
    BY <1>2
  <2>2. \A h \in Handlers : pc[h] = "write" => h = CHOOSE k \in Saves : TRUE
    BY <2>1 DEF Alone, Saves, Busy
  <2>3. Current = db[CHOOSE h \in Saves : TRUE]
    BY <1>2 DEF Current
  <2> QED
    BY <1>2, <2>1, <2>2, <2>3 DEF TypeOK, Database, Saves
<1> QED
  BY <1>1, <1>2

\* The save of what was served from c is an operation of the store on c.
LEMMA ServedOperates ==
  ASSUME TypeOK, NEW h \in Handlers, NEW c \in Content, NEW t \in BOOLEAN,
         Served(h, c, t), Completed(h),
         Current'.data = db[h].data, Current'.tag = db[h].tag
  PROVE  Abstract!Operate(c, t)
<1> USE DEF Abstract!Answer
<1>0. Object = Abstract!Object /\ Nil \notin Object /\ Twice \notin Object /\ Nil # Twice
  BY DatastoreAssumption DEF Object, Abstract!Object
<1>1. ASSUME NEW d, NEW b \in BOOLEAN, Kept(h, d, b)
      PROVE  Current'.data = d /\ (Current'.tag # 0) = b
  BY <1>1 DEF Kept
<1>2. last' = [method |-> request[h].method, status |-> answer[h].status, body |-> answer[h].body]
  BY DEF Completed
<1>3. CASE ServedGet(h, c, t)
  BY <1>1, <1>2, <1>3 DEF ServedGet, Told, Abstract!Operate, Abstract!Read
<1>4. CASE /\ request[h].method = "PATCH" /\ request[h].patch \in Object
           /\ ServedChange(h, c, t, Merge(c[request[h].entry], request[h].patch))
  <2> PICK e \in Entries, p \in Object : e = request[h].entry /\ p = request[h].patch
    BY <1>4 DEF ServedChange
  <2>1. CASE c[e] \in Object /\ Kept(h, [c EXCEPT ![e] = Merge(c[e], p)], TRUE) /\ Told(h, "ok", Nil)
    <3> PICK o \in Object : o = Merge(c[e], p)
      BY <2>1, Typed
    <3>1. \A f \in Fields : o[f] = IF p[f] = Nil THEN c[e][f] ELSE p[f]
      BY DEF Merge
    <3>2. Current'.data = [c EXCEPT ![e] = o] /\ (Current'.tag # 0) = TRUE
      BY <2>1, <1>1
    <3>3. Abstract!Patch(c, t, e, p)
      BY <1>0, <1>2, <1>4, <2>1, <3>1, <3>2 DEF Told, Abstract!Patch
    <3> QED
      BY <1>0, <3>3 DEF Abstract!Operate
  <2>2. CASE c[e] \in {Nil, Twice} /\ Kept(h, c, t) /\ Told(h, IF c[e] = Nil THEN "not found" ELSE "bad request", Nil)
    <3>1. Abstract!Patch(c, t, e, p)
      BY <1>0, <1>1, <1>2, <1>4, <2>2 DEF Told, Abstract!Patch
    <3> QED
      BY <1>0, <3>1 DEF Abstract!Operate
  <2> QED
    BY <1>0, <1>4, <2>1, <2>2 DEF ServedChange
<1>5. CASE request[h].method = "DELETE" /\ ServedChange(h, c, t, Nil)
  <2> PICK e \in Entries : e = request[h].entry
    BY <1>5 DEF ServedChange
  <2>1. CASE c[e] \in Object /\ Kept(h, [c EXCEPT ![e] = Nil], TRUE) /\ Told(h, "ok", Nil)
    <3>1. Abstract!Remove(c, t, e)
      BY <1>0, <1>1, <1>2, <1>5, <2>1 DEF Told, Abstract!Remove
    <3> QED
      BY <3>1 DEF Abstract!Operate
  <2>2. CASE c[e] \in {Nil, Twice} /\ Kept(h, c, t) /\ Told(h, IF c[e] = Nil THEN "not found" ELSE "bad request", Nil)
    <3>1. Abstract!Remove(c, t, e)
      BY <1>0, <1>1, <1>2, <1>5, <2>2 DEF Told, Abstract!Remove
    <3> QED
      BY <3>1 DEF Abstract!Operate
  <2> QED
    BY <1>0, <1>5, <2>1, <2>2 DEF ServedChange
<1>6. CASE request[h].method = "NONE" /\ Kept(h, c, t) /\ Told(h, "none", Nil)
  BY <1>1, <1>2, <1>6 DEF Told, Abstract!Operate, Abstract!Other
<1> QED
  BY <1>3, <1>4, <1>5, <1>6 DEF Served

\* Two states that agree on the content, the tag, the last answer and the
\* number of faults are one state of the store.
LEMMA Stutters ==
  ASSUME Current'.data = Current.data, Current'.tag # 0 <=> Current.tag # 0,
         last' = last, faults' + restarts' = faults + restarts
  PROVE  UNCHANGED Abstract!vars
<1>1. (Current'.tag # 0) = (Current.tag # 0)
  OBVIOUS
<1> QED
  BY <1>1 DEF Abstract!vars

RefInv == RaceInv /\ Alone

LEMMA InitImplements == Init => Abstract!Init
<1> SUFFICES ASSUME Init PROVE Abstract!Init
  OBVIOUS
<1>1. TypeOK /\ Alone
  BY TypeInit, AloneInit
<1>2. Current.data \in [Entries -> {Nil, Twice} \cup Abstract!Object]
  BY <1>1, CurrentFacts DEF CurrentIs, Content, Object, Abstract!Object
<1> QED
  BY <1>2 DEF Init, Abstract!Init

\* Every step is an operation or a fault of the store, or leaves it alone.
LEMMA StepImplements ==
  ASSUME MaxBusy = 1
  PROVE  RefInv /\ [Next]_vars => [Abstract!Next]_(Abstract!vars)
<1> SUFFICES ASSUME RefInv, [Next]_vars PROVE Abstract!Next \/ UNCHANGED Abstract!vars
  OBVIOUS
<1>t. TypeOK /\ TypeOK' /\ Alone /\ Alone'
  BY TypeStep, AloneStep DEF RefInv, RaceInv
<1>n. faults \in Nat /\ restarts \in Nat
  BY <1>t DEF TypeOK
<1>b. CurrentIs /\ CurrentIs'
  <2>1. CurrentIs
    BY <1>t, CurrentFacts
  <2>2. (TypeOK /\ Alone => CurrentIs)'
    BY CurrentFacts, PTL
  <2> QED
    BY <1>t, <2>1, <2>2
<1>u. ASSUME UNCHANGED <<file, last, faults, restarts>>, Saves = {}, Saves' = {}
      PROVE  UNCHANGED Abstract!vars
  BY <1>b, <1>u, Stutters DEF CurrentIs, Stored, StoredTagged, Readable, Nothing
<1>f. ASSUME faults' + restarts' = faults + restarts + 1,
             \/ Current'.data = Current.data /\ (Current'.tag # 0 <=> Current.tag # 0)
             \/ Current'.data = Nothing /\ Current'.tag # 0,
             \/ UNCHANGED last
             \/ \E h \in Handlers : pc[h] = "truncate" /\ Completed(h)
      PROVE  Abstract!Next
  <2>1. \/ UNCHANGED <<Current.data, Current.tag # 0>>
        \/ Current'.data = Abstract!Nothing /\ (Current'.tag # 0) = TRUE
    BY <1>f DEF Nothing, Abstract!Nothing
  <2>2. ASSUME NEW h \in Handlers, pc[h] = "truncate", Completed(h)
        PROVE  last' \in [method : {"NONE", "GET", "PATCH", "DELETE"},
                          status : {"none", "ok", "not found", "bad request", "error"},
                          body : {Nil, Twice} \cup Abstract!Object]
    <3>1. PICK c \in Content, t \in BOOLEAN : Served(h, c, t)
      BY <2>2 DEF RefInv, RaceInv, FromFile, Alone, Busy
    <3>2. request[h].method \in {"NONE", "GET", "PATCH", "DELETE"}
      BY <3>1 DEF Served, ServedGet
    <3>3. answer[h].status \in Statuses /\ answer[h].body \in Bodies
      BY <1>t DEF TypeOK, Answers
    <3> QED
      BY <2>2, <3>2, <3>3 DEF Completed, Statuses, Bodies, Object, Abstract!Object
  <2> QED
    BY <1>f, <2>1, <2>2 DEF Abstract!Next, Abstract!Fault
<1>1. ASSUME NEW h \in Handlers, Load(h) PROVE Abstract!Next \/ UNCHANGED Abstract!vars
  <2>1. Saves = {} /\ Saves' = {} /\ UNCHANGED <<file, last, restarts>>
    BY <1>1, <1>t, LoadFacts DEF Alone, Saves, Busy, TypeOK
  <2>2. faults' \in {faults, faults + 1}
    BY <1>1, <1>t, LoadFacts
  <2>3. Current'.data = Current.data /\ (Current'.tag # 0 <=> Current.tag # 0)
    BY <1>b, <2>1 DEF CurrentIs, Stored, StoredTagged, Readable, Nothing
  <2> QED
    BY <1>n, <1>u, <1>f, <2>1, <2>2, <2>3
<1>2. ASSUME NEW h \in Handlers, Operate(h) PROVE UNCHANGED Abstract!vars
  <2>1. Saves = {} /\ Saves' = {} /\ UNCHANGED <<file, last, faults, restarts>>
    <3>1. /\ pc[h] = "operate" /\ UNCHANGED <<file, last, faults, restarts>>
          /\ \E label \in {"stuck", "truncate"} : pc' = [pc EXCEPT ![h] = label]
      BY <1>2, <1>t, OperateFacts DEF bounds
    <3>2. ASSUME NEW k \in Saves PROVE FALSE
      <4>1. pc[k] = "write" /\ k \in Busy /\ h \in Busy
        BY <3>1 DEF Saves, Busy
      <4>2. h = k
        BY <1>t, <4>1 DEF Alone
      <4> QED
        BY <3>1, <4>1, <4>2
    <3>3. Saves' = {}
      BY <1>t, <3>1, <3>2 DEF Saves, TypeOK
    <3> QED
      BY <3>1, <3>2, <3>3
  <2> QED
    BY <1>u, <2>1
<1>3. ASSUME NEW h \in Handlers, Truncate(h) PROVE Abstract!Next
  <2>1. pc[h] = "truncate" /\ pc'[h] = "write" /\ db' = db /\ Completed(h) /\ UNCHANGED <<faults, restarts>>
    BY <1>3, <1>t DEF Truncate, Goto, TypeOK, locals, bounds
  <2>2. Saves = {}
    BY <1>t, <2>1 DEF Alone, Saves, Busy
  <2>3. PICK c \in Content, t \in BOOLEAN : FileGives(c, t) /\ Served(h, c, t)
    BY <2>1 DEF RefInv, RaceInv, FromFile, Alone, Busy
  <2>4. Abstract!Operate(c, t)
    BY <1>t, <1>b, <2>1, <2>3, ServedOperates DEF CurrentIs
  <2>5. CASE c = Stored /\ (t <=> StoredTagged)
    <3>1. c = Current.data /\ t = (Current.tag # 0)
      BY <1>b, <2>2, <2>5 DEF CurrentIs
    <3> QED
      BY <2>1, <2>4, <3>1 DEF Abstract!Next, Abstract!Perform
  <2>6. CASE faults > 0 /\ c = Nothing /\ t = TRUE
    <3>1. c = Abstract!Nothing
      BY <2>6 DEF Nothing, Abstract!Nothing
    <3>2. Abstract!Operate(Abstract!Nothing, TRUE)
      BY <2>4, <2>6, <3>1, Zenon
    <3>3. faults + restarts > 0 /\ UNCHANGED (faults + restarts)
      BY <1>n, <2>1, <2>6
    <3> QED
      BY <3>2, <3>3 DEF Abstract!Next, Abstract!Blind
  <2> QED
    BY <2>3, <2>5, <2>6 DEF FileGives
<1>4. ASSUME NEW h \in Handlers, WriteFile(h) PROVE UNCHANGED Abstract!vars
  <2>1. pc[h] = "write" /\ file = Nil /\ pc' = [pc EXCEPT ![h] = "reply"]
    BY <1>4, <1>t DEF WriteFile, Goto, Alone, Saves
  <2>2. file' = db[h] /\ UNCHANGED <<last, faults, restarts>> /\ Saves' = {}
    BY <1>4, <1>t, <2>1 DEF WriteFile, Alone, Saves, Busy, TypeOK, bounds
  <2>3. Current = db[h]
    BY <1>b, <2>1 DEF CurrentIs
  <2>4. Readable'
    BY <1>t, <2>2, DatastoreAssumption DEF Readable, TypeOK
  <2>5. Current'.data = db[h].data /\ (Current'.tag # 0 <=> db[h].tag # 0)
    BY <1>b, <2>2, <2>4 DEF CurrentIs, Stored, StoredTagged
  <2> QED
    BY <2>2, <2>3, <2>5, Stutters
<1>5. ASSUME NEW h \in Handlers, SaveFails(h) PROVE Abstract!Next
  <2>1. /\ UNCHANGED <<file, restarts>> /\ faults' = faults + 1
        /\ pc' = [pc EXCEPT ![h] = "reply"] /\ pc[h] \in {"truncate", "write"}
    BY <1>5 DEF SaveFails, Goto
  <2>2. Saves' = {}
    BY <1>t, <2>1 DEF Alone, Saves, Busy, TypeOK
  <2>3. CASE pc[h] = "truncate" /\ Completed(h)
    <3>1. Saves = {}
      BY <1>t, <2>3 DEF Alone, Saves, Busy
    <3>2. Current'.data = Current.data /\ (Current'.tag # 0 <=> Current.tag # 0)
      BY <1>b, <2>1, <2>2, <3>1 DEF CurrentIs, Stored, StoredTagged, Readable, Nothing
    <3> QED
      BY <1>n, <1>f, <2>1, <2>3, <3>2
  <2>4. CASE pc[h] = "write" /\ UNCHANGED last
    <3>1. file' = Nil
      BY <1>t, <2>1, <2>4 DEF Alone, Saves
    <3>2. Current'.data = Nothing /\ Current'.tag # 0
      BY <1>b, <2>2, <3>1 DEF CurrentIs, Stored, StoredTagged, Readable, Nothing
    <3> QED
      BY <1>n, <1>f, <2>1, <2>4, <3>2
  <2> QED
    BY <1>5, <2>3, <2>4 DEF SaveFails
<1>6. ASSUME NEW h \in Handlers, Reply(h) PROVE UNCHANGED Abstract!vars
  <2>1. Saves = {} /\ Saves' = {} /\ UNCHANGED <<file, last, faults, restarts>>
    BY <1>6, <1>t DEF Reply, Goto, Alone, Saves, Busy, TypeOK, bounds
  <2> QED
    BY <1>u, <2>1
<1>7. ASSUME Restart PROVE Abstract!Next
  <2>1. Saves' = {} /\ UNCHANGED <<file, last, faults>> /\ restarts' = restarts + 1
    BY <1>7 DEF Restart, Saves
  <2>2. CASE Saves = {}
    <3>1. Current'.data = Current.data /\ (Current'.tag # 0 <=> Current.tag # 0)
      BY <1>b, <2>1, <2>2 DEF CurrentIs, Stored, StoredTagged, Readable, Nothing
    <3> QED
      BY <1>n, <1>f, <2>1, <3>1
  <2>3. CASE Saves # {}
    <3>1. file' = Nil
      BY <1>t, <2>1, <2>3 DEF Alone
    <3>2. Current'.data = Nothing /\ Current'.tag # 0
      BY <1>b, <2>1, <3>1 DEF CurrentIs, Stored, StoredTagged, Readable, Nothing
    <3> QED
      BY <1>n, <1>f, <2>1, <3>2
  <2> QED
    BY <2>2, <2>3
<1>8. ASSUME UNCHANGED vars PROVE UNCHANGED Abstract!vars
  <2>1. Current' = Current
    BY <1>8 DEF vars, locals, Current, Saves, Readable, NewTag, Nothing
  <2> QED
    BY <1>8, <2>1, Stutters DEF vars, bounds
<1> QED
  BY <1>1, <1>2, <1>3, <1>4, <1>5, <1>6, <1>7, <1>8 DEF Next, Proceed

\* Requests that come one after the other, with any number of resources and
\* keys, of faults and of ends of the process, implement the abstract Store.
THEOREM SequentialRequestsImplementStore ==
  ASSUME MaxBusy = 1
  PROVE  Spec => ImplementsStore
<1>1. Init => RefInv /\ Abstract!Init
  BY RaceInit, AloneInit, InitImplements DEF RefInv
<1>2. RefInv /\ [Next]_vars => RefInv'
  BY RaceStep, AloneStep DEF RefInv, RaceInv
<1>3. RefInv /\ [Next]_vars => [Abstract!Next]_(Abstract!vars)
  BY StepImplements
<1> QED
  BY <1>1, <1>2, <1>3, PTL DEF Spec, ImplementsStore, Abstract!Spec
=============================================================================
