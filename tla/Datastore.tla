------------------------------ MODULE Datastore ------------------------------
(***************************************************************************)
(* The RESTCONF datastore of the mock server: database/Database.go and the *)
(* data requests of internal/openapi/handler/ResponseGeneratorHandler.go.  *)
(*                                                                         *)
(* The datastore is one JSON file.  Every request, a GET too, loads it     *)
(* into a Database of its own, works on that, and saves it in a deferred   *)
(* call; the mutex is a field of that private Database.  A step is one     *)
(* system call on the file, or the work between two of them.  The answer   *)
(* is buffered by net/http and complete when the handler returns, after    *)
(* the save.                                                               *)
(***************************************************************************)
EXTENDS Integers, Sequences, FiniteSets

CONSTANTS
    Handlers,     \* the goroutines that serve requests
    Entries,      \* the resources that requests address by a key path
    Fields,       \* the keys of a resource
    Values,       \* the values of a key
    Nil,          \* an absent resource or key; a missing or empty file
    Twice,        \* two items of a list with the same key values
    Torn,         \* a file whose text is not JSON
    MaxBusy,      \* bound: requests being processed at once
    MaxRequests,  \* bound: requests
    MaxRestarts,  \* bound: ends of the process, each followed by a start
    MaxFaults     \* bound: file operations that fail

Object  == [Fields -> Values \cup {Nil}]
Content == [Entries -> {Nil, Twice} \cup Object]

\* A Database: its entity tag (0: none) and the resources.
Database == [tag : Nat, data : Content]

ASSUME DatastoreAssumption ==
    /\ {MaxBusy, MaxRequests, MaxRestarts, MaxFaults} \subseteq Nat
    /\ IsFiniteSet(Handlers)
    /\ Nil # Twice /\ Nil # Torn
    /\ Nil \notin Object /\ Twice \notin Object
    /\ Nil \notin Database /\ Torn \notin Database
    /\ Nil \notin Values

VARIABLES
    file,         \* the database file
    db,           \* the Database each request works on
    pc, request, answer,    \* where each request is, what it asks, its answer
    versions,     \* history: the resources each entity tag was made for
    raced,        \* history: the file changed since the request loaded it
    last,         \* history: the last request completed, and its answer
    requests, restarts, faults   \* counters of the bounds

locals == <<db, request, answer>>
bounds == <<requests, restarts, faults>>
vars   == <<file, locals, pc, versions, raced, last, bounds>>

Labels == {"idle", "operate", "truncate", "write", "reply", "stuck"}

\* A request hung in PUT or POST takes part in nothing any more.
Busy  == {h \in Handlers : pc[h] \notin {"idle", "stuck"}}
Saves == {h \in Handlers : pc[h] = "write"}

Methods == {"GET", "PATCH", "DELETE", "PUT", "NONE"}

NoPatch == [f \in Fields |-> Nil]

\* Requests whose validation failed, or without a route, do not get this far.
\* PUT stands for POST too. NONE stands for those that load and save only:
\* the operations RPCs, and a body or key path that is refused.
Requests ==
    [method : {"GET", "DELETE"}, entry : Entries, patch : {NoPatch}]
      \cup [method : {"PATCH"}, entry : Entries, patch : Object]
      \cup [method : {"PUT", "NONE"}, entry : {Nil}, patch : {NoPatch}]

NoRequest == [method |-> "NONE", entry |-> Nil, patch |-> NoPatch]

NoAnswer == [status |-> "none", tag |-> 0, body |-> Nil]

Statuses == {"none", "ok", "not found", "bad request", "error"}
Bodies   == {Nil, Twice} \cup Object

Answers     == [status : Statuses, tag : Nat, body : Bodies]
Completions == [method : Methods, status : Statuses, body : Bodies]

Nothing  == [e \in Entries |-> Nil]
Readable == file \notin {Nil, Torn}
NewTag   == Len(versions) + 1

MutantNewDatabase == [tag |-> NewTag, data |-> Nil]

\* NewDatabase, and Modified after a change: a random uuid, never used before.
NewDatabase == [tag |-> NewTag, data |-> Nothing]

MutantModified(data) == [tag |-> Len(versions), data |-> data]

Modified(data) == [tag |-> NewTag, data |-> data]

Goto(h, label) == pc' = [pc EXCEPT ![h] = label]

-----------------------------------------------------------------------------
\* A request that got past validation loads the file. Any error, in reading
\* or in parsing, gives it an empty Database.
Load(h) ==
    /\ pc[h] = "idle"
    /\ Cardinality(Busy) < MaxBusy
    /\ requests < MaxRequests
    /\ requests' = requests + 1
    /\ \E q \in Requests : request' = [request EXCEPT ![h] = q]
    /\ \/ /\ Readable
          /\ db' = [db EXCEPT ![h] = file]
          /\ UNCHANGED <<versions, faults>>
       \/ /\ ~Readable
          /\ db' = [db EXCEPT ![h] = NewDatabase]
          /\ versions' = Append(versions, Nothing)
          /\ UNCHANGED faults
       \/ /\ Readable
          /\ faults < MaxFaults
          /\ faults' = faults + 1
          /\ db' = [db EXCEPT ![h] = NewDatabase]
          /\ versions' = Append(versions, Nothing)
    /\ raced' = [raced EXCEPT ![h] = Saves # {}]
    /\ Goto(h, "operate")
    /\ UNCHANGED <<file, answer, last, restarts>>

Resource(h) == db[h].data[request[h].entry]

Respond(h, status, tag, body) ==
    /\ answer' = [answer EXCEPT ![h] = [status |-> status, tag |-> tag, body |-> body]]
    /\ Goto(h, "truncate")

\* The handler answers and leaves its Database as it is.
Refuse(h, status) ==
    /\ Respond(h, status, 0, Nil)
    /\ UNCHANGED <<db, versions>>

MutantChange(h, data) ==
    /\ db' = [db EXCEPT ![h].tag = NewTag]
    /\ versions' = Append(versions, db[h].data)

\* The change is made under a new entity tag.
Change(h, data) ==
    /\ db' = [db EXCEPT ![h] = Modified(data)]
    /\ versions' = Append(versions, data)

\* Two items with the same key: the generated response is sent, with the tag
\* of the Database. No tag in the file: the answer is an error.
Get(h) ==
    /\ \/ Resource(h) = Nil /\ Respond(h, "not found", 0, Nil)
       \/ Resource(h) # Nil /\ db[h].tag # 0 /\ Respond(h, "ok", db[h].tag, Resource(h))
       \/ Resource(h) # Nil /\ db[h].tag = 0 /\ Respond(h, "error", 0, Nil)
    /\ UNCHANGED <<db, versions>>

MutantMerge(object, patch) == patch

Merge(object, patch) ==
    [f \in Fields |-> IF patch[f] # Nil THEN patch[f] ELSE object[f]]

Patch(h) ==
    \/ Resource(h) = Nil /\ Refuse(h, "not found")
    \/ Resource(h) = Twice /\ Refuse(h, "bad request")
    \/ /\ Resource(h) \notin {Nil, Twice}
       /\ Change(h, [db[h].data EXCEPT ![request[h].entry] = Merge(@, request[h].patch)])
       /\ Respond(h, "ok", NewTag, Nil)

Delete(h) ==
    \/ Resource(h) = Nil /\ Refuse(h, "not found")
    \/ Resource(h) = Twice /\ Refuse(h, "bad request")
    \/ /\ Resource(h) \notin {Nil, Twice}
       /\ Change(h, [db[h].data EXCEPT ![request[h].entry] = Nil])
       /\ Respond(h, "ok", 0, Nil)

\* Put and Post lock the mutex, and EnsureKeyPath locks it again.
Put(h) ==
    /\ Goto(h, "stuck")
    /\ UNCHANGED <<db, answer, versions>>

\* The mutex as a variable of the package: a hung PUT holds it for good.
MutantOperate(h) ==
    /\ pc[h] = "operate"
    /\ \A k \in Handlers : pc[k] # "stuck"
    /\ \/ request[h].method = "GET" /\ Get(h)
       \/ request[h].method = "PATCH" /\ Patch(h)
       \/ request[h].method = "DELETE" /\ Delete(h)
       \/ request[h].method = "PUT" /\ Put(h)
       \/ request[h].method = "NONE" /\ Refuse(h, "none")
    /\ UNCHANGED <<file, request, raced, last, bounds>>

Operate(h) ==
    /\ pc[h] = "operate"
    /\ \/ request[h].method = "GET" /\ Get(h)
       \/ request[h].method = "PATCH" /\ Patch(h)
       \/ request[h].method = "DELETE" /\ Delete(h)
       \/ request[h].method = "PUT" /\ Put(h)
       \/ request[h].method = "NONE" /\ Refuse(h, "none")
    /\ UNCHANGED <<file, request, raced, last, bounds>>

-----------------------------------------------------------------------------
(* Save, deferred: ioutil.WriteFile truncates the file and writes the text. *)

\* What the client will have been told of the request.
Completed(h) ==
    last' = [method |-> request[h].method, status |-> answer[h].status, body |-> answer[h].body]

\* Every other request that has loaded the file now works on an old one.
Race(h) == raced' = [k \in Handlers |-> raced[k] \/ (k # h /\ pc[k] \notin {"idle", "stuck"})]

Truncate(h) ==
    /\ pc[h] = "truncate"
    /\ file' = Nil
    /\ Race(h)
    /\ Completed(h)
    /\ Goto(h, "write")
    /\ UNCHANGED <<locals, versions, bounds>>

\* Two saves may both have truncated the file: the second text then covers
\* the first, and what is longer of the first stays behind it.
WriteFile(h) ==
    /\ pc[h] = "write"
    /\ \/ file' = db[h]
       \/ file \notin {Nil, db[h]} /\ file' = Torn
    /\ Race(h)
    /\ Goto(h, "reply")
    /\ UNCHANGED <<locals, versions, last, bounds>>

\* The file cannot be opened, or not written once truncated. The error is
\* logged and the answer stays.
SaveFails(h) ==
    /\ \/ pc[h] = "truncate" /\ Completed(h)
       \/ pc[h] = "write" /\ UNCHANGED last
    /\ faults < MaxFaults
    /\ faults' = faults + 1
    /\ Goto(h, "reply")
    /\ UNCHANGED <<file, locals, versions, raced, requests, restarts>>

NoDatabase == [tag |-> 0, data |-> Nothing]

\* The handler returns, and the answer is flushed.
Reply(h) ==
    /\ pc[h] = "reply"
    /\ Goto(h, "idle")
    /\ db' = [db EXCEPT ![h] = NoDatabase]
    /\ request' = [request EXCEPT ![h] = NoRequest]
    /\ answer' = [answer EXCEPT ![h] = NoAnswer]
    /\ raced' = [raced EXCEPT ![h] = FALSE]
    /\ UNCHANGED <<file, versions, last, bounds>>

\* The process ends and is started again: nothing but the file survives.
Restart ==
    /\ restarts < MaxRestarts
    /\ restarts' = restarts + 1
    /\ pc' = [h \in Handlers |-> "idle"]
    /\ db' = [h \in Handlers |-> NoDatabase]
    /\ request' = [h \in Handlers |-> NoRequest]
    /\ answer' = [h \in Handlers |-> NoAnswer]
    /\ raced' = [h \in Handlers |-> FALSE]
    /\ UNCHANGED <<file, versions, last, requests, faults>>

\* The file does not exist, or it was made by the initialize command or by
\* the user, who may have left the entity tag out.
Init ==
    /\ \/ file = Nil /\ versions = << >>
       \/ \E data \in Content :
            \/ file = [tag |-> 0, data |-> data] /\ versions = << >>
            \/ file = [tag |-> 1, data |-> data] /\ versions = <<data>>
    /\ pc = [h \in Handlers |-> "idle"]
    /\ db = [h \in Handlers |-> NoDatabase]
    /\ request = [h \in Handlers |-> NoRequest]
    /\ answer = [h \in Handlers |-> NoAnswer]
    /\ raced = [h \in Handlers |-> FALSE]
    /\ last = [method |-> "NONE", status |-> "none", body |-> Nil]
    /\ requests = 0
    /\ restarts = 0
    /\ faults = 0

Proceed(h) == Operate(h) \/ Truncate(h) \/ WriteFile(h) \/ SaveFails(h) \/ Reply(h)

Next ==
    \/ \E h \in Handlers : Load(h) \/ Proceed(h)
    \/ Restart

Spec == Init /\ [][Next]_vars

\* The Go scheduler runs every runnable goroutine. Clients promise nothing.
FairSpec == Spec /\ \A h \in Handlers : WF_vars(Proceed(h))

-----------------------------------------------------------------------------
(* Properties *)

\* Every variable has the values the code can give it.
TypeOK ==
    /\ file \in {Nil, Torn} \cup Database
    /\ db \in [Handlers -> Database]
    /\ pc \in [Handlers -> Labels]
    /\ request \in [Handlers -> Requests]
    /\ answer \in [Handlers -> Answers]
    /\ versions \in Seq(Content)
    /\ raced \in [Handlers -> BOOLEAN]
    /\ last \in Completions
    /\ requests \in Nat
    /\ restarts \in Nat
    /\ faults \in Nat

\* The resources stored under a tag are those the tag was made for.
Tagged(d) == d.tag # 0 => d.tag <= Len(versions) /\ versions[d.tag] = d.data

\* An entity tag names one content of the datastore, in the file, in every
\* request at work and in what a GET is answered, whatever requests overlap
\* and wherever the process ends: a client may compare tags.
TagIdentifiesContent ==
    /\ Readable => Tagged(file)
    /\ \A h \in Handlers :
         /\ Tagged(db[h])
         /\ answer[h].status = "ok" /\ request[h].method = "GET" =>
              versions[answer[h].tag][request[h].entry] = answer[h].body

\* What a request does to the resources, as its client understands it.
Effect(data, q) ==
    CASE q.method = "PATCH" /\ data[q.entry] \in Object ->
           [data EXCEPT ![q.entry] = [f \in Fields |-> IF q.patch[f] = Nil THEN @[f] ELSE q.patch[f]]]
      [] q.method = "DELETE" /\ data[q.entry] \in Object ->
           [data EXCEPT ![q.entry] = Nil]
      [] OTHER -> data

Stored == IF Readable THEN file.data ELSE Nothing

\* A save replaces what is in the file by the effect of its own request on
\* it, unless another save came between: updates get lost in overlaps only.
LostInRacesOnly ==
    [][\A h \in Handlers : pc[h] = "truncate" /\ pc'[h] = "write" /\ ~raced[h] /\ faults = 0 =>
         db[h].data = Effect(Stored, request[h])]_vars

\* Requests that come one after the other implement the abstract Store. The
\* content changes when the file is truncated: from then on it is what is
\* about to be written, or nothing if the process ends.
Current ==
    IF Saves # {} THEN db[CHOOSE h \in Saves : TRUE]
    ELSE IF Readable THEN file
    ELSE [tag |-> NewTag, data |-> Nothing]

Abstract == INSTANCE Store WITH
    content <- Current.data,
    tagged <- Current.tag # 0,
    last <- last,
    faults <- faults + restarts

ImplementsStore == Abstract!Spec

\* Every request but PUT and POST is answered: one that hangs in its mutex
\* holds up no other.
RequestsEnd == \A h \in Handlers : h \in Busy ~> h \notin Busy

\* Every request is answered (docs/usage_guide.md: a request that takes too
\* long gets a 503).
EveryRequestAnswered == \A h \in Handlers : pc[h] # "idle" ~> pc[h] = "idle"
=============================================================================
