------------------------- MODULE SubscriptionCenter -------------------------
(***************************************************************************)
(* The push subscriptions of the mock server:                              *)
(* internal/openapi/subscriptionCenter/SubscriptionCenter.go, driven by    *)
(* the establish-subscription and delete-subscription operations, the      *)
(* event-stream GET and the trigger of ResponseGeneratorHandler.go.        *)
(*                                                                         *)
(* Every request runs in a goroutine of its own (a Handler) and the maps   *)
(* of the center have no lock, so a step of this model is one access to    *)
(* one of them, or one system call on subscriptions.json.  A goroutine     *)
(* that panics is recovered by net/http: its request ends and nothing      *)
(* else does.  Restart covers every way the process can end, the abort of  *)
(* the Go runtime on unsynchronised map accesses included.                 *)
(*                                                                         *)
(* Go leaves open whether a loop over a map visits an entry that is added  *)
(* while the loop runs: the models of SendAll and Send allow both.  The    *)
(* library of the event streams (go-sse) is not part of the repository:    *)
(* its Broker.Close and Connect are taken to return, conn.Send is not.     *)
(***************************************************************************)
EXTENDS Integers, FiniteSets

CONSTANTS
    Handlers,      \* the goroutines that serve requests
    Types,         \* the object types a subscription can ask for
    Width,         \* ids are unsigned integers modulo Width, 2^32 in the code
    MaxBusy,       \* bound: requests being processed at once
    MaxEstablish,  \* bound: establish-subscription requests
    MaxRestarts,   \* bound: ends of the process, each followed by a start
    MaxFaults,     \* bound: saves that fail
    Nil,           \* Go's nil, an absent map entry; a missing or empty file
    Torn           \* a file whose text is not JSON

ASSUME CenterAssumption ==
    /\ Width \in Nat \ {0}
    /\ {MaxBusy, MaxEstablish, MaxRestarts, MaxFaults} \subseteq Nat
    /\ IsFiniteSet(Handlers)

\* A request asks for the types of a list.
ASSUME TypesAssumption == IsFiniteSet(Types)

ASSUME NilAssumption ==
    /\ \A ts \in SUBSET Types : ts # Nil
    /\ \A hs \in SUBSET Handlers : hs # Nil
    /\ Nil # Torn

Ids == 0 .. Width - 1

SubscriptionMap == [Ids -> {Nil} \cup SUBSET Types]

NoSubscriptions == [i \in Ids |-> Nil]

\* subscriptionCenterDTO, the content of subscriptions.json.
DTO == [counter : Ids, subs : SubscriptionMap]

VARIABLES
    counter,    \* the last id handed out
    subs,       \* subscriptions: id -> object types
    brokers,    \* the ids that have a broker in brokerMap
    conns,      \* connMap: id -> the streams registered under it
    file,       \* subscriptions.json
    pc, op, id, want, snap,       \* where each handler is, and its locals
    open, home,                   \* stream connections; home: on the broker in brokerMap
    must, targets,                \* the two range loops of SendAll: what they may still visit
    ranging,                      \* the loops of Send over a map that is in connMap now
    due, sent,                    \* history of one SendAll: streams owed and served
    life, requested,              \* history of each id, as its client sees it
    stale,                        \* history: the last save failed
    established, restarts, faults \* counters of the bounds

memory  == <<counter, subs, brokers, conns>>
locals  == <<op, id, want, snap>>
streams == <<open, home>>
sending == <<must, targets, ranging, due, sent>>
client  == <<life, requested>>
disk    == <<file, stale>>
bounds  == <<established, restarts, faults>>
vars    == <<memory, file, stale, pc, locals, streams, sending, client, bounds>>

Labels ==
    {"idle",
     "make", "fill", "readCounter", "marshal", "truncate", "write", "broker",
     "drop", "dropConns", "findBroker", "close", "dropBroker", "reply",
     "findOwn", "newBroker", "attach", "findMap", "newMap", "register", "wait",
     "range", "open", "send"}

Resting == {"idle", "wait"}
Busy    == {h \in Handlers : pc[h] \notin Resting}
Quiet   == Busy = {}

\* A request is taken up by a free goroutine, whose name also stands for the
\* connection of its stream: a loop that still holds an ended one keeps the name.
Accept(h) ==
    /\ pc[h] = "idle"
    /\ \A k \in Handlers : h \notin targets[k]
    /\ Cardinality(Busy) < MaxBusy

Blank == [counter |-> 0, subs |-> NoSubscriptions]

Goto(h, label) == pc' = [pc EXCEPT ![h] = label]

Continue(h, label) == Goto(h, label) /\ UNCHANGED locals

\* The goroutine ends, and its locals with it.
Return(h) ==
    /\ Goto(h, "idle")
    /\ op' = [op EXCEPT ![h] = "none"]
    /\ id' = [id EXCEPT ![h] = 0]
    /\ want' = [want EXCEPT ![h] = {}]
    /\ snap' = [snap EXCEPT ![h] = Blank]

-----------------------------------------------------------------------------
(* Subscribe, lines 75-91 *)

MutantAdd(h) ==
    /\ Accept(h)
    /\ established < MaxEstablish
    /\ established' = established + 1
    /\ counter' = (Cardinality({i \in Ids : subs[i] # Nil}) + 1) % Width
    /\ id' = [id EXCEPT ![h] = counter']
    /\ op' = [op EXCEPT ![h] = "establish"]
    /\ \E ts \in SUBSET Types :
         /\ want' = [want EXCEPT ![h] = ts]
         /\ requested' = [requested EXCEPT ![counter'] = ts]
    /\ life' = [life EXCEPT ![counter'] = "asked"]
    /\ Goto(h, "make")
    /\ UNCHANGED <<subs, brokers, conns, disk, snap, streams, sending, restarts, faults>>

\* The handler of establish-subscription decodes the body and calls Subscribe,
\* which draws the id with an atomic add on a 32-bit counter.
Add(h) ==
    /\ Accept(h)
    /\ established < MaxEstablish
    /\ established' = established + 1
    /\ counter' = (counter + 1) % Width
    /\ id' = [id EXCEPT ![h] = counter']
    /\ op' = [op EXCEPT ![h] = "establish"]
    /\ \E ts \in SUBSET Types :
         /\ want' = [want EXCEPT ![h] = ts]
         /\ requested' = [requested EXCEPT ![counter'] = ts]
    /\ life' = [life EXCEPT ![counter'] = "asked"]
    /\ Goto(h, "make")
    /\ UNCHANGED <<subs, brokers, conns, disk, snap, streams, sending, restarts, faults>>

\* The loops of SendAll that have not ended.
Notifying == {k \in Handlers : pc[k] \in {"range", "open", "send"}}

\* The slice is made with blank elements, visible in the map at once. If the
\* entry is new, each loop over the map that is under way may visit it or not.
Make(h) ==
    /\ pc[h] = "make"
    /\ subs' = [subs EXCEPT ![id[h]] = {}]
    /\ IF subs[id[h]] = Nil
       THEN \E K \in SUBSET Notifying :
              must' = [k \in Handlers |-> IF k \in K THEN must[k] \cup {id[h]} ELSE must[k] \ {id[h]}]
       ELSE UNCHANGED must
    /\ Continue(h, "fill")
    /\ UNCHANGED <<counter, brokers, conns, disk, streams, targets, ranging, due, sent, client, bounds>>

MutantFill(h) ==
    /\ pc[h] = "fill"
    /\ subs' = [subs EXCEPT ![id[h]] = want[h]]
    /\ IF subs[id[h]] = Nil /\ want[h] # {}
       THEN Continue(h, "make")
       ELSE Continue(h, "readCounter")
    /\ UNCHANGED <<counter, brokers, conns, disk, streams, sending, client, bounds>>

MutantFillRecreates(h) ==
    /\ pc[h] = "fill"
    /\ subs' = [subs EXCEPT ![id[h]] = want[h]]
    /\ Continue(h, "readCounter")
    /\ UNCHANGED <<counter, brokers, conns, disk, streams, sending, client, bounds>>

\* Each element is stored through the map: once the entry is deleted the
\* index is out of range and the handler panics.
Fill(h) ==
    /\ pc[h] = "fill"
    /\ \/ /\ subs[id[h]] = Nil
          /\ want[h] # {}
          /\ Return(h)
          /\ UNCHANGED subs
       \/ /\ subs[id[h]] # Nil
          /\ \E t \in want[h] \ subs[id[h]] :
               subs' = [subs EXCEPT ![id[h]] = @ \cup {t}]
          /\ UNCHANGED <<pc, locals>>
       \/ /\ want[h] = {} \/ (subs[id[h]] # Nil /\ want[h] \subseteq subs[id[h]])
          /\ Continue(h, "readCounter")
          /\ UNCHANGED subs
    /\ UNCHANGED <<counter, brokers, conns, disk, streams, sending, client, bounds>>

\* After Save. A broker made meanwhile by an early stream is replaced, and
\* the streams on it are no longer on the broker in brokerMap.
StoreBroker(h) ==
    /\ pc[h] = "broker"
    /\ brokers' = brokers \cup {id[h]}
    /\ home' = [s \in Handlers |-> home[s] /\ id[s] # id[h]]
    /\ Continue(h, "reply")
    /\ UNCHANGED <<counter, subs, conns, disk, open, sending, client, bounds>>

-----------------------------------------------------------------------------
(* Save, lines 62-73: the counter is copied first, the map is encoded next, *)
(* then ioutil.WriteFile truncates the file and writes the text.            *)

ReadCounter(h) ==
    /\ pc[h] = "readCounter"
    /\ snap' = [snap EXCEPT ![h].counter = counter]
    /\ Goto(h, "marshal")
    /\ UNCHANGED <<memory, disk, op, id, want, streams, sending, client, bounds>>

MutantMarshal(h) ==
    /\ pc[h] = "marshal"
    /\ snap' = [snap EXCEPT ![h].subs = [subs EXCEPT ![id[h]] = Nil]]
    /\ Goto(h, "truncate")
    /\ UNCHANGED <<memory, disk, op, id, want, streams, sending, client, bounds>>

Marshal(h) ==
    /\ pc[h] = "marshal"
    /\ snap' = [snap EXCEPT ![h].subs = subs]
    /\ Goto(h, "truncate")
    /\ UNCHANGED <<memory, disk, op, id, want, streams, sending, client, bounds>>

Truncate(h) ==
    /\ pc[h] = "truncate"
    /\ file' = Nil
    /\ Continue(h, "write")
    /\ UNCHANGED <<memory, stale, streams, sending, client, bounds>>

\* Subscribe stores the broker next; for Delete the save is the last step.
AfterSave(h) ==
    /\ Goto(h, IF op[h] = "establish" THEN "broker" ELSE "reply")
    /\ snap' = [snap EXCEPT ![h] = Blank]
    /\ UNCHANGED <<op, id, want>>

\* Two saves may both have truncated the file: the second text then covers
\* the first, and what is longer of the first stays behind it.
WriteFile(h) ==
    /\ pc[h] = "write"
    /\ \/ file' = snap[h]
       \/ file \notin {Nil, snap[h]} /\ file' = Torn
    /\ stale' = FALSE
    /\ AfterSave(h)
    /\ UNCHANGED <<memory, streams, sending, client, bounds>>

\* The file cannot be opened, or not written once truncated. Subscribe
\* ignores the error and Delete only prints it.
SaveFails(h) ==
    /\ pc[h] \in {"truncate", "write"}
    /\ faults < MaxFaults
    /\ faults' = faults + 1
    /\ stale' = TRUE
    /\ AfterSave(h)
    /\ UNCHANGED <<memory, file, streams, sending, client, established, restarts>>

\* The RPC is answered: the client holds the id, or knows it deleted.
Reply(h) ==
    /\ pc[h] = "reply"
    /\ life' = [life EXCEPT ![id[h]] =
                  IF op[h] = "delete" THEN "gone"
                  ELSE IF @ = "asked" THEN "held" ELSE @]
    /\ Return(h)
    /\ UNCHANGED <<memory, disk, streams, sending, requested, bounds>>

-----------------------------------------------------------------------------
(* Delete, lines 97-117 *)

\* An id that is not in the map is answered with an error and no change.
CheckDelete(h) ==
    /\ Accept(h)
    /\ \E i \in Ids : subs[i] # Nil /\ id' = [id EXCEPT ![h] = i]
    /\ op' = [op EXCEPT ![h] = "delete"]
    /\ Goto(h, "drop")
    /\ UNCHANGED <<memory, disk, want, snap, streams, sending, client, bounds>>

Drop(h) ==
    /\ pc[h] = "drop"
    /\ subs' = [subs EXCEPT ![id[h]] = Nil]
    /\ life' = [life EXCEPT ![id[h]] = IF @ = "gone" THEN @ ELSE "leaving"]
    /\ Continue(h, "dropConns")
    /\ UNCHANGED <<counter, brokers, conns, disk, streams, sending, requested, bounds>>

\* A loop over the map that leaves connMap goes on with it.
DropConns(h) ==
    /\ pc[h] = "dropConns"
    /\ conns' = [conns EXCEPT ![id[h]] = Nil]
    /\ ranging' = {k \in ranging : id[k] # id[h]}
    /\ Continue(h, "findBroker")
    /\ UNCHANGED <<counter, subs, brokers, disk, streams, must, targets, due, sent, client, bounds>>

MutantFindBroker(h) ==
    /\ pc[h] = "findBroker"
    /\ Continue(h, "dropBroker")
    /\ UNCHANGED <<memory, disk, streams, sending, client, bounds>>

FindBroker(h) ==
    /\ pc[h] = "findBroker"
    /\ Continue(h, IF id[h] \in brokers THEN "close" ELSE "dropBroker")
    /\ UNCHANGED <<memory, disk, streams, sending, client, bounds>>

Sessions(i) == {s \in Handlers : home[s] /\ id[s] = i}

\* Broker.Close ends the sessions of that broker. Called on nil, when another
\* Delete was faster, it panics.
Close(h) ==
    /\ pc[h] = "close"
    /\ \/ /\ id[h] \in brokers
          /\ open' = [s \in Handlers |-> open[s] /\ s \notin Sessions(id[h])]
          /\ home' = [s \in Handlers |-> home[s] /\ s \notin Sessions(id[h])]
          /\ Continue(h, "dropBroker")
       \/ /\ id[h] \notin brokers
          /\ UNCHANGED streams
          /\ Return(h)
    /\ UNCHANGED <<memory, disk, sending, client, bounds>>

MutantDropBroker(h) ==
    /\ pc[h] = "dropBroker"
    /\ brokers' = brokers \ {id[h]}
    /\ home' = [s \in Handlers |-> home[s] /\ id[s] # id[h]]
    /\ Continue(h, "reply")
    /\ UNCHANGED <<counter, subs, conns, disk, open, sending, client, bounds>>

DropBroker(h) ==
    /\ pc[h] = "dropBroker"
    /\ brokers' = brokers \ {id[h]}
    /\ home' = [s \in Handlers |-> home[s] /\ id[s] # id[h]]
    /\ Continue(h, "readCounter")
    /\ UNCHANGED <<counter, subs, conns, disk, open, sending, client, bounds>>

-----------------------------------------------------------------------------
(* The event stream: the handler's Get, then Connect, lines 119-137 *)

\* The subscription is looked up once; an unknown id is answered with 404.
Get(h) ==
    /\ Accept(h)
    /\ \E i \in Ids : subs[i] # Nil /\ id' = [id EXCEPT ![h] = i]
    /\ op' = [op EXCEPT ![h] = "stream"]
    /\ Goto(h, "findOwn")
    /\ UNCHANGED <<memory, disk, want, snap, streams, sending, client, bounds>>

FindOwn(h) ==
    /\ pc[h] = "findOwn"
    /\ Continue(h, IF id[h] \in brokers THEN "attach" ELSE "newBroker")
    /\ UNCHANGED <<memory, disk, streams, sending, client, bounds>>

NewBroker(h) ==
    /\ pc[h] = "newBroker"
    /\ brokers' = brokers \cup {id[h]}
    /\ home' = [s \in Handlers |-> home[s] /\ id[s] # id[h]]
    /\ Continue(h, "attach")
    /\ UNCHANGED <<counter, subs, conns, disk, open, sending, client, bounds>>

\* The connection is opened on whatever broker the map holds now. It may be
\* refused (500), and a nil broker panics.
Attach(h) ==
    /\ pc[h] = "attach"
    /\ \/ /\ id[h] \in brokers
          /\ open' = [open EXCEPT ![h] = TRUE]
          /\ home' = [home EXCEPT ![h] = TRUE]
          /\ Continue(h, "findMap")
       \/ /\ Return(h)
          /\ UNCHANGED streams
    /\ UNCHANGED <<memory, disk, sending, client, bounds>>

MutantFindMap(h) ==
    /\ pc[h] = "findMap"
    /\ Continue(h, "newMap")
    /\ UNCHANGED <<memory, disk, streams, sending, client, bounds>>

FindMap(h) ==
    /\ pc[h] = "findMap"
    /\ Continue(h, IF conns[id[h]] = Nil THEN "newMap" ELSE "register")
    /\ UNCHANGED <<memory, disk, streams, sending, client, bounds>>

NewMap(h) ==
    /\ pc[h] = "newMap"
    /\ conns' = [conns EXCEPT ![id[h]] = {}]
    /\ ranging' = {k \in ranging : id[k] # id[h]}
    /\ Continue(h, "register")
    /\ UNCHANGED <<counter, subs, brokers, disk, streams, must, targets, due, sent, client, bounds>>

MutantRegister(h) ==
    /\ pc[h] = "register"
    /\ conns[id[h]] # Nil
    /\ conns' = [conns EXCEPT ![id[h]] = @ \cup {id[h]}]
    /\ Continue(h, "wait")
    /\ UNCHANGED <<counter, subs, brokers, disk, streams, sending, client, bounds>>

\* The loops of Send over the map of connections of an id.
Over(i) == {k \in ranging : id[k] = i}

\* The loops over the map may visit the new connection or not. Storing into a
\* map that Delete removed meanwhile panics, and the server drops the
\* connection of a handler that panics.
Register(h) ==
    /\ pc[h] = "register"
    /\ \/ /\ conns[id[h]] # Nil
          /\ conns' = [conns EXCEPT ![id[h]] = @ \cup {h}]
          /\ \E K \in SUBSET Over(id[h]) :
               targets' = [k \in Handlers |-> IF k \in K THEN targets[k] \cup {h} ELSE targets[k]]
          /\ Continue(h, "wait")
          /\ UNCHANGED streams
       \/ /\ conns[id[h]] = Nil
          /\ Return(h)
          /\ open' = [open EXCEPT ![h] = FALSE]
          /\ home' = [home EXCEPT ![h] = FALSE]
          /\ UNCHANGED <<conns, targets>>
    /\ UNCHANGED <<counter, subs, brokers, disk, must, ranging, due, sent, client, bounds>>

\* The client goes away.
Disconnect(h) ==
    /\ op[h] = "stream"
    /\ open[h]
    /\ open' = [open EXCEPT ![h] = FALSE]
    /\ home' = [home EXCEPT ![h] = FALSE]
    /\ UNCHANGED <<memory, disk, pc, locals, sending, client, bounds>>

\* conn.Done fires, and the entry is deleted from the map of that id, if any:
\* a loop over it visits the entry no more, one over a map that was dropped or
\* replaced still does.
Leave(h) ==
    /\ pc[h] = "wait"
    /\ ~open[h]
    /\ conns' = [conns EXCEPT ![id[h]] = IF @ = Nil THEN Nil ELSE @ \ {h}]
    /\ targets' = [k \in Handlers |-> IF k \in Over(id[h]) THEN targets[k] \ {h} ELSE targets[k]]
    /\ due' = [k \in Handlers |-> due[k] \ {h}]
    /\ sent' = [k \in Handlers |-> sent[k] \ {h}]
    /\ Return(h)
    /\ UNCHANGED <<counter, subs, brokers, disk, streams, must, ranging, client, bounds>>

-----------------------------------------------------------------------------
(* SendAll and Send, lines 139-181 *)

\* The streams a client of the subscription counts on: connected, on a
\* subscription that asks for the type.
Audience(t) ==
    {s \in Handlers : /\ pc[s] = "wait" /\ open[s]
                      /\ subs[id[s]] # Nil /\ t \in subs[id[s]]}

\* The trigger starts a notification, which visits every entry of the map that
\* is not deleted before, and those added meanwhile that Make chooses.
SendAll(h) ==
    /\ Accept(h)
    /\ op' = [op EXCEPT ![h] = "sendAll"]
    /\ \E t \in Types : want' = [want EXCEPT ![h] = {t}] /\ due' = [due EXCEPT ![h] = Audience(t)]
    /\ must' = [must EXCEPT ![h] = {i \in Ids : subs[i] # Nil}]
    /\ Goto(h, "range")
    /\ UNCHANGED <<memory, disk, id, snap, streams, targets, ranging, sent, client, bounds>>

MutantMatches(h, i) == subs[i] # Nil

Matches(h, i) == subs[i] # Nil /\ want[h] \subseteq subs[i]

\* An entry deleted before the loop reaches it is not visited.
Visit(h) ==
    /\ pc[h] = "range"
    /\ \E i \in must[h] :
         /\ must' = [must EXCEPT ![h] = @ \ {i}]
         /\ IF Matches(h, i)
            THEN id' = [id EXCEPT ![h] = i] /\ Goto(h, "open")
            ELSE UNCHANGED <<id, pc>>
    /\ UNCHANGED <<memory, disk, op, want, snap, streams, targets, ranging, due, sent, client, bounds>>

MutantRangeConns(h) ==
    /\ pc[h] = "open"
    /\ IF conns[id[h]] = Nil
       THEN Continue(h, "range") /\ must' = [must EXCEPT ![h] = @ \cup {id[h]}] /\ UNCHANGED targets
       ELSE Continue(h, "send") /\ targets' = [targets EXCEPT ![h] = conns[id[h]]] /\ UNCHANGED must
    /\ UNCHANGED <<memory, disk, streams, ranging, due, sent, client, bounds>>

\* The map of connections of the id, if there is one, is looked up once.
RangeConns(h) ==
    /\ pc[h] = "open"
    /\ IF conns[id[h]] = Nil
       THEN UNCHANGED <<targets, ranging>>
       ELSE /\ targets' = [targets EXCEPT ![h] = conns[id[h]]]
            /\ ranging' = ranging \cup {h}
    /\ Continue(h, "send")
    /\ UNCHANGED <<memory, disk, streams, must, due, sent, client, bounds>>

\* conn.Send returns. A connection that has ended delivers nothing more.
Send(h) ==
    /\ pc[h] = "send"
    /\ \E s \in targets[h] :
         /\ targets' = [targets EXCEPT ![h] = @ \ {s}]
         /\ sent' = [sent EXCEPT ![h] = IF open[s] THEN @ \cup {s} ELSE @]
    /\ UNCHANGED <<memory, disk, pc, locals, streams, must, ranging, due, client, bounds>>

MutantEndSend(h) ==
    /\ pc[h] = "send"
    /\ targets[h] = {}
    /\ ranging' = ranging \ {h}
    /\ Goto(h, "range")
    /\ id' = [id EXCEPT ![h] = 0]
    /\ must' = [must EXCEPT ![h] = {}]
    /\ UNCHANGED <<op, want, snap, memory, disk, streams, targets, due, sent, client, bounds>>

EndSend(h) ==
    /\ pc[h] = "send"
    /\ targets[h] = {}
    /\ ranging' = ranging \ {h}
    /\ Goto(h, "range")
    /\ id' = [id EXCEPT ![h] = 0]
    /\ UNCHANGED <<op, want, snap, memory, disk, streams, must, targets, due, sent, client, bounds>>

EndSendAll(h) ==
    /\ pc[h] = "range"
    /\ must[h] = {}
    /\ due' = [due EXCEPT ![h] = {}]
    /\ sent' = [sent EXCEPT ![h] = {}]
    /\ Return(h)
    /\ UNCHANGED <<memory, disk, streams, must, targets, ranging, client, bounds>>

-----------------------------------------------------------------------------
(* NewSubscriptionCenter, lines 45-60, run when the package is loaded *)

Readable == file \notin {Nil, Torn}

MutantLoaded ==
    [counter |-> 0, subs |-> IF Readable THEN file.subs ELSE NoSubscriptions]

Loaded == IF Readable THEN file ELSE Blank

\* What the clients may still count on after a restart: everything they were
\* told, unless the file was lost or a failed save was never repeated.
Survives(i) == Readable /\ ~stale /\ life[i] \in {"held", "gone"}

\* The process ends and is started again.
Restart ==
    /\ restarts < MaxRestarts
    /\ restarts' = restarts + 1
    /\ counter' = Loaded.counter
    /\ subs' = Loaded.subs
    /\ brokers' = {}
    /\ conns' = [i \in Ids |-> Nil]
    /\ pc' = [h \in Handlers |-> "idle"]
    /\ op' = [h \in Handlers |-> "none"]
    /\ id' = [h \in Handlers |-> 0]
    /\ want' = [h \in Handlers |-> {}]
    /\ snap' = [h \in Handlers |-> Blank]
    /\ open' = [h \in Handlers |-> FALSE]
    /\ home' = [h \in Handlers |-> FALSE]
    /\ must' = [h \in Handlers |-> {}]
    /\ targets' = [h \in Handlers |-> {}]
    /\ ranging' = {}
    /\ due' = [h \in Handlers |-> {}]
    /\ sent' = [h \in Handlers |-> {}]
    /\ life' = [i \in Ids |-> IF Survives(i) THEN life[i]
                              ELSE IF Loaded.subs[i] # Nil THEN "held" ELSE "free"]
    /\ requested' = [i \in Ids |-> IF Survives(i) THEN requested[i]
                                   ELSE IF Loaded.subs[i] # Nil THEN Loaded.subs[i] ELSE {}]
    /\ stale' = FALSE
    /\ UNCHANGED <<file, established, faults>>

Init ==
    /\ counter = 0
    /\ subs = NoSubscriptions
    /\ brokers = {}
    /\ conns = [i \in Ids |-> Nil]
    /\ file = Nil
    /\ stale = FALSE
    /\ pc = [h \in Handlers |-> "idle"]
    /\ op = [h \in Handlers |-> "none"]
    /\ id = [h \in Handlers |-> 0]
    /\ want = [h \in Handlers |-> {}]
    /\ snap = [h \in Handlers |-> Blank]
    /\ open = [h \in Handlers |-> FALSE]
    /\ home = [h \in Handlers |-> FALSE]
    /\ must = [h \in Handlers |-> {}]
    /\ targets = [h \in Handlers |-> {}]
    /\ ranging = {}
    /\ due = [h \in Handlers |-> {}]
    /\ sent = [h \in Handlers |-> {}]
    /\ life = [i \in Ids |-> "free"]
    /\ requested = [i \in Ids |-> {}]
    /\ established = 0
    /\ restarts = 0
    /\ faults = 0

-----------------------------------------------------------------------------
Subscribe(h) == Add(h) \/ Make(h) \/ Fill(h) \/ StoreBroker(h)

Save(h) == ReadCounter(h) \/ Marshal(h) \/ Truncate(h) \/ WriteFile(h) \/ SaveFails(h)

Delete(h) == CheckDelete(h) \/ Drop(h) \/ DropConns(h) \/ FindBroker(h) \/ Close(h) \/ DropBroker(h)

Connect(h) ==
    \/ Get(h) \/ FindOwn(h) \/ NewBroker(h) \/ Attach(h)
    \/ FindMap(h) \/ NewMap(h) \/ Register(h) \/ Disconnect(h) \/ Leave(h)

Notify(h) ==
    SendAll(h) \/ Visit(h) \/ RangeConns(h) \/ Send(h) \/ EndSend(h) \/ EndSendAll(h)

Next ==
    \/ \E h \in Handlers : Subscribe(h) \/ Save(h) \/ Reply(h) \/ Delete(h) \/ Connect(h) \/ Notify(h)
    \/ Restart

Spec == Init /\ [][Next]_vars

\* The steps a handler takes on its own once its request is accepted: the Go
\* scheduler runs every runnable goroutine. Clients promise nothing, and neither
\* does conn.Send, which may wait for its client for as long as it likes.
Proceed(h) ==
    \/ Make(h) \/ Fill(h) \/ StoreBroker(h) \/ Save(h) \/ Reply(h)
    \/ Drop(h) \/ DropConns(h) \/ FindBroker(h) \/ Close(h) \/ DropBroker(h)
    \/ FindOwn(h) \/ NewBroker(h) \/ Attach(h) \/ FindMap(h) \/ NewMap(h) \/ Register(h) \/ Leave(h)
    \/ Visit(h) \/ RangeConns(h) \/ EndSend(h) \/ EndSendAll(h)

FairSpec == Spec /\ \A h \in Handlers : WF_vars(Proceed(h))

-----------------------------------------------------------------------------
(* Properties *)

\* Every variable has the values the code can give it.
TypeOK ==
    /\ counter \in Ids
    /\ subs \in SubscriptionMap
    /\ brokers \subseteq Ids
    /\ conns \in [Ids -> {Nil} \cup SUBSET Handlers]
    /\ file \in {Nil, Torn} \cup DTO
    /\ stale \in BOOLEAN
    /\ pc \in [Handlers -> Labels]
    /\ op \in [Handlers -> {"none", "establish", "delete", "stream", "sendAll"}]
    /\ id \in [Handlers -> Ids]
    /\ want \in [Handlers -> SUBSET Types]
    /\ snap \in [Handlers -> DTO]
    /\ open \in [Handlers -> BOOLEAN]
    /\ home \in [Handlers -> BOOLEAN]
    /\ must \in [Handlers -> SUBSET Ids]
    /\ targets \in [Handlers -> SUBSET Handlers]
    /\ ranging \subseteq Handlers
    /\ due \in [Handlers -> SUBSET Handlers]
    /\ sent \in [Handlers -> SUBSET Handlers]
    /\ life \in [Ids -> {"free", "asked", "held", "leaving", "gone"}]
    /\ requested \in [Ids -> SUBSET Types]
    /\ established \in Nat
    /\ restarts \in Nat
    /\ faults \in Nat

\* While no request is at work, the file holds exactly what is in memory,
\* unless the last save failed: a restart then changes nothing.
FileIsMemory ==
    Quiet /\ ~stale /\ Readable => file = [counter |-> counter, subs |-> subs]

\* A subscription whose id a client holds is in the map with the types it
\* asked for, whatever other requests are at work, and after a restart too.
HeldIsKept == \A i \in Ids : life[i] = "held" => subs[i] = requested[i]

\* A subscription reported as deleted never comes back, not even by an
\* establish that is still storing it, or from the file after a restart.
DeletedStaysDeleted == \A i \in Ids : life[i] = "gone" => subs[i] = Nil

\* The id an establish draws was not given to anybody before.
FreshId == [][established' # established => life[counter'] = "free"]_vars

\* No stream is sent an event of a type its subscription did not ask for.
OnlyRequestedTypes ==
    [][\A k, s \in Handlers : s \in sent'[k] \ sent[k] => want[k] \subseteq requested[id[s]]]_vars

\* Requests that come one after the other leave every open stream on a live
\* subscription, in connMap and on the broker that its deletion will close.
StreamsTracked ==
    Quiet => \A s \in Handlers : pc[s] = "wait" /\ open[s] =>
        /\ subs[id[s]] # Nil
        /\ conns[id[s]] # Nil
        /\ s \in conns[id[s]]
        /\ id[s] \in brokers
        /\ home[s]

\* connMap leads from a live subscription to each of its connections, however
\* the requests overlapped (the comment on its declaration).
EveryStreamRegistered ==
    Quiet => \A s \in Handlers : pc[s] = "wait" /\ open[s] /\ subs[id[s]] # Nil =>
        conns[id[s]] # Nil /\ s \in conns[id[s]]

\* A notification reaches every stream that was connected when it started,
\* on a subscription for its type, and did not disconnect since.
AudienceServed ==
    [][\A k \in Handlers : restarts' = restarts /\ pc[k] = "range" /\ pc'[k] = "idle" =>
         \A s \in due[k] \ sent[k] : ~open[s]]_vars

\* Every request except an open stream and a notification is answered, also
\* beside notifications that hang for ever in a conn.Send.
RequestsEnd == \A h \in Handlers : h \in Busy /\ op[h] # "sendAll" ~> h \notin Busy

\* A notification ends if its calls of conn.Send return and at some time no more
\* subscriptions and streams are added to the maps that it goes around in,
\* whatever is deleted from them and whichever streams end meanwhile.
NotificationsEnd ==
    \A k \in Handlers :
        /\ WF_vars(Send(k))
        /\ <>[][\A h \in Handlers : ~Make(h) /\ ~Register(h)]_vars
        => (op[k] = "sendAll" ~> op[k] # "sendAll")

\* The requests at work on a subscription.
AtWork(i) == {h \in Busy : op[h] # "sendAll" /\ id[h] = i}

\* Deleting a subscription ends the streams that are open on it, although others
\* connect to it meanwhile. It is a Delete that starts alone: the broker of a
\* stream that connects beside an establish or another Delete may be replaced or
\* dropped without being closed, and a stream that attaches after the broker was
\* closed stays open.
DeletedStreamsEnd ==
    \A s, h \in Handlers :
        /\ pc[h] = "drop" /\ AtWork(id[h]) = {h}
        /\ pc[s] = "wait" /\ id[s] = id[h] /\ home[s]
        ~> pc[s] = "idle"
=============================================================================
