----------------------- MODULE SequentialCenterProofs -----------------------
(***************************************************************************)
(* Theorems about SubscriptionCenter when the center takes one request at  *)
(* a time (MaxBusy = 1), beside any number of open streams and over any    *)
(* number of restarts and failed saves: memory, file and streams agree     *)
(* whenever no request is at work.                                         *)
(***************************************************************************)
EXTENDS SubscriptionCenterProofs

\* One request is at work at most.
Alone == \A g, h \in Busy : g = h

\* Where the memory is ahead of the file.
Ahead ==
    {"make", "fill", "readCounter", "marshal", "truncate", "write",
     "dropConns", "findBroker", "close", "dropBroker"}

Memory == [counter |-> counter, subs |-> subs]

FileCurrent == ~stale /\ Readable => file = Memory

\* The request at work finds what it counts on, since nobody else is at work.
Undisturbed(h) ==
    /\ pc[h] = "fill" => subs[id[h]] # Nil
    /\ pc[h] = "close" => id[h] \in brokers
    /\ pc[h] = "marshal" => snap[h].counter = counter
    /\ pc[h] \in {"truncate", "write"} => snap[h] = Memory

FileInv ==
    /\ TypeOK
    /\ InOperation
    /\ Alone
    /\ \A h \in Handlers : Undisturbed(h)
    /\ (\A h \in Handlers : pc[h] \notin Ahead) => FileCurrent

-----------------------------------------------------------------------------
(* Turns: what a request does while the others are at rest *)

OthersRest(h) == \A g \in Handlers : g # h => pc[g] \in Resting

\* A step of the handler h alone.
Turn(h) == OthersRest(h) /\ Elsewhere(h)

\* A request is taken up only when nobody else is at work.
LEMMA AcceptFacts ==
    ASSUME TypeOK, MaxBusy = 1, NEW h \in Handlers, Accept(h)
    PROVE  OthersRest(h) /\ pc[h] \in Resting
<1>1. Busy = {}
  <2>1. IsFiniteSet(Busy) /\ Cardinality(Busy) < 1
    BY CenterAssumption, FS_Subset DEF Accept, Busy
  <2>2. Cardinality(Busy) \in Nat
    BY <2>1, FS_CardinalityType
  <2> QED
    BY <2>1, <2>2, FS_EmptySet
<1> QED
  BY <1>1 DEF OthersRest, Busy

LEMMA BusyFacts ==
    ASSUME Alone, NEW h \in Handlers, pc[h] \notin Resting
    PROVE  OthersRest(h)
  BY DEF Alone, Busy, OthersRest

\* The steps of streams that are not at work themselves.
AtRest(h) == Disconnect(h) \/ Leave(h)

LEMMA TurnFacts ==
    ASSUME TypeOK, Alone, MaxBusy = 1, NEW h \in Handlers,
           \/ Subscribe(h) \/ Save(h) \/ Reply(h) \/ Delete(h) \/ Notify(h)
           \/ Connect(h) /\ ~AtRest(h)
    PROVE  Turn(h)
<1> USE DEF Resting, Goto, Continue, Return, AfterSave, Elsewhere, TypeOK, locals, bounds
<1>1. CASE Accept(h) /\ Elsewhere(h)
  BY <1>1, AcceptFacts DEF Turn
<1>2. CASE pc[h] \notin Resting /\ Elsewhere(h)
  BY <1>2, BusyFacts DEF Turn
<1>3. CASE Subscribe(h)
  BY <1>1, <1>2, <1>3 DEF Subscribe, Add, Make, Fill, StoreBroker
<1>4. CASE Save(h)
  BY <1>2, <1>4 DEF Save, ReadCounter, Marshal, Truncate, WriteFile, SaveFails
<1>5. CASE Reply(h)
  BY <1>2, <1>5 DEF Reply
<1>6. CASE Delete(h)
  BY <1>1, <1>2, <1>6 DEF Delete, CheckDelete, Drop, DropConns, FindBroker, Close, DropBroker
<1>7. CASE Notify(h)
  BY <1>1, <1>2, <1>7 DEF Notify, SendAll, Visit, RangeConns, Send, EndSend, EndSendAll
<1>8. CASE Connect(h) /\ ~AtRest(h)
  BY <1>1, <1>2, <1>8 DEF Connect, AtRest, Get, FindOwn, NewBroker, Attach, FindMap, NewMap, Register
<1> HIDE DEF Resting, Goto, Continue, Return, AfterSave, Elsewhere, TypeOK, locals, bounds
<1> QED
  BY <1>3, <1>4, <1>5, <1>6, <1>7, <1>8

\* A turn keeps the invariant, if its own handler finds what it counts on and
\* either is ahead of the file or leaves it current.
LEMMA TurnKeeps ==
    ASSUME FileInv, TypeOK', InOperation', NEW h \in Handlers, Turn(h),
           Undisturbed(h)', pc'[h] \notin Ahead => FileCurrent'
    PROVE  FileInv'
<1>1. \A g \in Handlers : g # h => pc'[g] \in Resting
  BY DEF Turn, OthersRest, Elsewhere
<1>2. Alone'
  BY <1>1 DEF Alone, Busy
<1>3. \A g \in Handlers : Undisturbed(g)'
  <2>1. ASSUME NEW g \in Handlers, g # h PROVE Undisturbed(g)'
    BY <1>1, <2>1 DEF Undisturbed, Resting
  <2> QED
    BY <2>1
<1> QED
  BY <1>2, <1>3 DEF FileInv

\* Before a turn the file is current, unless its handler is ahead of it.
LEMMA CurrentBefore ==
    ASSUME FileInv, NEW h \in Handlers, OthersRest(h), pc[h] \notin Ahead
    PROVE  FileCurrent
<1>1. \A g \in Handlers : pc[g] \notin Ahead
  BY DEF OthersRest, Resting, Ahead
<1> QED
  BY <1>1 DEF FileInv

-----------------------------------------------------------------------------
(* The file *)

LEMMA FileInit == Init => FileInv
<1> SUFFICES ASSUME Init PROVE FileInv
  OBVIOUS
<1>1. TypeOK
  BY TypeInit
<1>2. InOperation
  BY DEF Init, InOperation
<1>3. Alone /\ \A h \in Handlers : Undisturbed(h)
  BY DEF Init, Alone, Busy, Resting, Undisturbed
<1>4. FileCurrent
  BY DEF Init, FileCurrent, Readable
<1> QED
  BY <1>1, <1>2, <1>3, <1>4 DEF FileInv

\* Steps that leave memory and file alone, and are not ahead.
LEMMA FileAside ==
    ASSUME FileInv, TypeOK', InOperation', NEW h \in Handlers, Turn(h),
           pc[h] \notin Ahead, pc'[h] \notin Ahead,
           UNCHANGED <<counter, subs, file, stale>>
    PROVE  FileInv'
<1>1. FileCurrent
  BY CurrentBefore DEF Turn
<1>2. FileCurrent'
  BY <1>1 DEF FileCurrent, Readable, Memory
<1>3. Undisturbed(h)'
  BY DEF Undisturbed, Ahead
<1> QED
  BY <1>2, <1>3, TurnKeeps

\* Steps after which the handler is ahead of the file.
LEMMA FileAhead ==
    ASSUME FileInv, TypeOK', InOperation', NEW h \in Handlers, Turn(h),
           pc'[h] \in Ahead, Undisturbed(h)'
    PROVE  FileInv'
  BY TurnKeeps

LEMMA SubscribeFile ==
    ASSUME FileInv, TypeOK', InOperation', NEW h \in Handlers, Turn(h), Subscribe(h)
    PROVE  FileInv'
<1> USE DEF FileInv, TypeOK, Goto, Continue, locals
<1>1. CASE Add(h)
  <2>1. pc'[h] = "make"
    BY <1>1 DEF Add
  <2> QED
    BY <2>1, FileAhead DEF Undisturbed, Ahead
<1>2. CASE Make(h)
  <2>1. pc'[h] = "fill" /\ id' = id /\ subs'[id[h]] = {}
    BY <1>2 DEF Make, SubscriptionMap
  <2> QED
    BY <2>1, NilAssumption, FileAhead DEF Undisturbed, Ahead
<1>3. CASE Fill(h)
  <2>1. pc[h] = "fill" /\ subs[id[h]] # Nil
    BY <1>3 DEF Fill, Undisturbed
  <2>2. CASE Continue(h, "readCounter") /\ UNCHANGED subs
    <3>1. pc'[h] = "readCounter"
      BY <2>2
    <3> QED
      BY <3>1, FileAhead DEF Undisturbed, Ahead
  <2>3. ASSUME NEW t \in want[h] \ subs[id[h]], subs' = [subs EXCEPT ![id[h]] = @ \cup {t}],
               UNCHANGED <<pc, locals>>
        PROVE  FileInv'
    <3>1. subs[id[h]] \in SUBSET Types /\ t \in Types
      BY <2>1, <2>3 DEF SubscriptionMap
    <3>2. subs[id[h]] \cup {t} # Nil
      BY <3>1, NilAssumption
    <3>3. subs'[id[h]] # Nil /\ pc'[h] = "fill" /\ id' = id
      BY <2>1, <2>3, <3>2 DEF SubscriptionMap
    <3> QED
      BY <3>3, FileAhead DEF Undisturbed, Ahead
  <2> QED
    BY <1>3, <2>1, <2>2, <2>3 DEF Fill
<1>4. CASE StoreBroker(h)
  <2>1. pc[h] = "broker" /\ pc'[h] = "reply" /\ UNCHANGED <<counter, subs, file, stale>>
    BY <1>4 DEF StoreBroker, disk
  <2> QED
    BY <2>1, FileAside DEF Ahead
<1> QED
  BY <1>1, <1>2, <1>3, <1>4 DEF Subscribe

\* A save copies the whole memory, and its text becomes the file.
LEMMA SaveFile ==
    ASSUME FileInv, TypeOK', InOperation', NEW h \in Handlers, Turn(h), Save(h)
    PROVE  FileInv'
<1> USE DEF FileInv, TypeOK, Goto, Continue, locals, memory, disk
<1>1. CASE ReadCounter(h)
  <2>1. pc'[h] = "marshal" /\ counter' = counter /\ snap'[h].counter = counter
    BY <1>1 DEF ReadCounter, DTO
  <2> QED
    BY <2>1, FileAhead DEF Undisturbed, Ahead
<1>2. CASE Marshal(h)
  <2>1. snap[h] \in DTO /\ snap[h].counter = counter
    BY <1>2 DEF Marshal, Undisturbed
  <2>2. pc'[h] = "truncate" /\ snap'[h] = [snap[h] EXCEPT !.subs = subs] /\ UNCHANGED <<counter, subs>>
    BY <1>2 DEF Marshal
  <2>3. snap'[h] = Memory'
    BY <2>1, <2>2 DEF DTO, Memory
  <2> QED
    BY <2>2, <2>3, FileAhead DEF Undisturbed, Ahead
<1>3. CASE Truncate(h)
  <2>1. snap[h] = Memory /\ pc'[h] = "write" /\ snap' = snap /\ UNCHANGED <<counter, subs>>
    BY <1>3 DEF Truncate, Undisturbed
  <2>2. snap'[h] = Memory'
    BY <2>1 DEF Memory
  <2> QED
    BY <2>1, <2>2, FileAhead DEF Undisturbed, Ahead
<1>4. CASE WriteFile(h)
  <2>1. snap[h] = Memory /\ pc'[h] \in {"broker", "reply"} /\ Memory' = Memory
    BY <1>4 DEF WriteFile, Undisturbed, AfterSave, Memory
  <2>2. file' = Memory' \/ file' = Torn
    BY <1>4, <2>1 DEF WriteFile
  <2>3. FileCurrent'
    BY <2>2 DEF FileCurrent, Readable
  <2> QED
    BY <2>1, <2>3, TurnKeeps DEF Undisturbed
<1>5. CASE SaveFails(h)
  <2>1. pc'[h] \in {"broker", "reply"} /\ stale' = TRUE
    BY <1>5 DEF SaveFails, AfterSave
  <2> QED
    BY <2>1, TurnKeeps DEF Undisturbed, FileCurrent
<1> QED
  BY <1>1, <1>2, <1>3, <1>4, <1>5 DEF Save

LEMMA DeleteFile ==
    ASSUME FileInv, TypeOK', InOperation', NEW h \in Handlers, Turn(h), Delete(h)
    PROVE  FileInv'
<1> USE DEF FileInv, TypeOK, Goto, Continue, locals, memory, disk
<1>1. CASE CheckDelete(h)
  <2>1. pc[h] = "idle" /\ pc'[h] = "drop" /\ UNCHANGED <<counter, subs, file, stale>>
    BY <1>1 DEF CheckDelete, Accept
  <2> QED
    BY <2>1, FileAside DEF Ahead
<1>2. CASE Drop(h)
  <2>1. pc'[h] = "dropConns"
    BY <1>2 DEF Drop
  <2> QED
    BY <2>1, FileAhead DEF Undisturbed, Ahead
<1>3. CASE DropConns(h)
  <2>1. pc'[h] = "findBroker"
    BY <1>3 DEF DropConns
  <2> QED
    BY <2>1, FileAhead DEF Undisturbed, Ahead
<1>4. CASE FindBroker(h)
  <2>1. /\ pc'[h] = "close" \/ pc'[h] = "dropBroker"
        /\ pc'[h] = "close" => id[h] \in brokers
        /\ UNCHANGED <<id, brokers>>
    BY <1>4 DEF FindBroker
  <2> QED
    BY <2>1, FileAhead DEF Undisturbed, Ahead
<1>5. CASE Close(h)
  <2>1. id[h] \in brokers
    BY <1>5 DEF Close, Undisturbed
  <2>2. pc'[h] = "dropBroker"
    BY <1>5, <2>1 DEF Close
  <2> QED
    BY <2>2, FileAhead DEF Undisturbed, Ahead
<1>6. CASE DropBroker(h)
  <2>1. pc'[h] = "readCounter"
    BY <1>6 DEF DropBroker
  <2> QED
    BY <2>1, FileAhead DEF Undisturbed, Ahead
<1> QED
  BY <1>1, <1>2, <1>3, <1>4, <1>5, <1>6 DEF Delete

LEMMA ConnectFile ==
    ASSUME FileInv, TypeOK', InOperation', NEW h \in Handlers, Turn(h),
           (Connect(h) /\ ~AtRest(h)) \/ Notify(h) \/ Reply(h)
    PROVE  FileInv'
<1>1. UNCHANGED <<counter, subs, file, stale>>
  BY DEF Connect, AtRest, Get, FindOwn, NewBroker, Attach, FindMap, NewMap, Register, Notify,
         SendAll, Visit, RangeConns, Send, EndSend, EndSendAll, Reply, memory, disk
<1>2. pc[h] \notin Ahead /\ pc'[h] \notin Ahead
  BY DEF FileInv, TypeOK, Ahead, Accept, Goto, Continue, Return, locals, Connect, AtRest, Get, FindOwn,
         NewBroker, Attach, FindMap, NewMap, Register, Notify,
         SendAll, Visit, RangeConns, Send, EndSend, EndSendAll, Reply
<1> QED
  BY <1>1, <1>2, FileAside

\* A stream that ends at its client disturbs no request.
LEMMA AtRestFile ==
    ASSUME FileInv, TypeOK', InOperation', NEW h \in Handlers, AtRest(h)
    PROVE  FileInv'
<1>1. /\ UNCHANGED <<counter, subs, brokers, file, stale>>
      /\ \A g \in Handlers : \/ pc'[g] = pc[g] /\ id'[g] = id[g] /\ snap'[g] = snap[g]
                             \/ pc[g] = "wait" /\ pc'[g] = "idle"
  BY DEF AtRest, Disconnect, Leave, memory, locals, disk, Goto, Return, FileInv, TypeOK
<1>2. Alone'
  BY <1>1 DEF FileInv, Alone, Busy, Resting
<1>3. \A g \in Handlers : Undisturbed(g)'
  BY <1>1 DEF FileInv, Undisturbed, Memory
<1>4. (\A g \in Handlers : pc'[g] \notin Ahead) => FileCurrent'
  BY <1>1 DEF FileInv, FileCurrent, Readable, Memory, Ahead
<1> QED
  BY <1>2, <1>3, <1>4 DEF FileInv

\* The center that is started again has what it reads.
LEMMA RestartFile ==
    ASSUME FileInv, TypeOK', InOperation', Restart
    PROVE  FileInv'
<1>1. Alone' /\ \A g \in Handlers : Undisturbed(g)'
  BY DEF Restart, Alone, Busy, Resting, Undisturbed
<1>2. FileCurrent'
  <2>1. SUFFICES ASSUME Readable PROVE file = Memory'
    BY DEF Restart, FileCurrent, Readable
  <2>2. file \in DTO
    BY <2>1 DEF FileInv, TypeOK, Readable
  <2>3. counter' = file.counter /\ subs' = file.subs
    BY <2>1 DEF Restart, Loaded
  <2> QED
    BY <2>2, <2>3 DEF DTO, Memory
<1> QED
  BY <1>1, <1>2 DEF FileInv

LEMMA FileStep ==
    ASSUME MaxBusy = 1, FileInv, [Next]_vars
    PROVE  FileInv'
<1>1. CASE Next
  <2>1. TypeOK' /\ InOperation'
    BY <1>1, TypeStep, InOperationStep DEF FileInv
  <2>2. ASSUME NEW h \in Handlers,
               \/ Subscribe(h) \/ Save(h) \/ Reply(h) \/ Delete(h) \/ Notify(h)
               \/ Connect(h) /\ ~AtRest(h)
        PROVE  FileInv'
    <3>1. Turn(h)
      BY <2>2, TurnFacts DEF FileInv
    <3> QED
      BY <2>1, <2>2, <3>1, SubscribeFile, SaveFile, DeleteFile, ConnectFile
  <2>3. ASSUME NEW h \in Handlers, AtRest(h) PROVE FileInv'
    BY <2>1, <2>3, AtRestFile
  <2>4. CASE Restart
    BY <2>1, <2>4, RestartFile
  <2> QED
    BY <1>1, <2>2, <2>3, <2>4 DEF Next
<1>2. CASE UNCHANGED vars
  BY <1>2 DEF vars, memory, locals, FileInv, TypeOK, InOperation, Alone, Busy, Undisturbed,
      FileCurrent, Readable, Memory, streams, sending, client, bounds
<1> QED
  BY <1>1, <1>2

\* With one request at a time the file is what is in memory whenever no
\* request is at work, unless the last save failed: lines 62-73 of
\* SubscriptionCenter.go save all that was changed before, and lines 45-60
\* read all of it back.
THEOREM FileFollowsMemory ==
    ASSUME MaxBusy = 1
    PROVE  Spec => []FileIsMemory
<1>1. Init => FileInv
  BY FileInit
<1>2. FileInv /\ [Next]_vars => FileInv'
  BY FileStep
<1>3. FileInv => FileIsMemory
  BY DEF FileInv, FileIsMemory, FileCurrent, Memory, Quiet, Busy, Resting, Ahead
<1> QED
  BY <1>1, <1>2, <1>3, PTL DEF Spec

-----------------------------------------------------------------------------
(* The streams *)

\* Where the deletion of a subscription takes its streams away.
Ending == {"dropConns", "findBroker", "close"}

Live(s) == pc[s] = "wait" /\ open[s]

Registered(s) == subs[id[s]] # Nil /\ conns[id[s]] # Nil /\ s \in conns[id[s]]

\* Every open stream is on the broker of its subscription, and in the maps
\* unless its subscription is being deleted.
LiveTracked == \A s \in Handlers : Live(s) =>
    /\ id[s] \in brokers
    /\ home[s]
    /\ Registered(s) \/ \E h \in Handlers : pc[h] \in Ending /\ id[h] = id[s]

\* Ids above the counter are unused, in memory and in the file.
Numbered ==
    /\ counter <= established
    /\ established <= MaxEstablish
    /\ \A i \in Ids : i > counter => subs[i] = Nil
    /\ Readable => /\ file.counter <= established
                   /\ \A i \in Ids : i > file.counter => file.subs[i] = Nil

NoneLive(i) == \A s \in Handlers : Live(s) => id[s] # i

Opening == {"findOwn", "newBroker", "attach", "findMap", "newMap", "register"}

\* What each stage of a request has reached.
Stage(h) ==
    /\ op[h] = "establish" => id[h] = counter /\ NoneLive(id[h])
    /\ op[h] = "delete" /\ pc[h] \notin {"drop"} \cup Ending => NoneLive(id[h])
    /\ pc[h] \in Opening => subs[id[h]] # Nil
    /\ pc[h] = "newBroker" => id[h] \notin brokers
    /\ pc[h] \in {"attach", "findMap", "newMap", "register"} => id[h] \in brokers
    /\ pc[h] \in {"findMap", "newMap", "register"} /\ open[h] => home[h]
    /\ pc[h] = "newMap" => conns[id[h]] = Nil
    /\ pc[h] = "register" => conns[id[h]] # Nil

StreamInv == FileInv /\ Numbered /\ LiveTracked /\ \A h \in Handlers : Stage(h)

\* Only one handler can be deleting or establishing, so a turn keeps the
\* invariant if it keeps what its own handler and the streams count on.
LEMMA TurnKeepsStreams ==
    ASSUME StreamInv, FileInv', NEW h \in Handlers, Turn(h),
           Numbered', LiveTracked', Stage(h)'
    PROVE  StreamInv'
<1>1. ASSUME NEW g \in Handlers, g # h PROVE Stage(g)'
  <2>1. pc'[g] \in Resting
    BY <1>1 DEF Turn, OthersRest, Elsewhere
  <2>2. op'[g] \notin {"establish", "delete"}
    BY <2>1 DEF FileInv, InOperation, Resting, Establishing, Deleting
  <2> QED
    BY <2>1, <2>2 DEF Stage, Resting, Opening
<1> QED
  BY <1>1 DEF StreamInv

LEMMA StreamInit == Init => StreamInv
<1> SUFFICES ASSUME Init PROVE StreamInv
  OBVIOUS
<1>1. FileInv
  BY FileInit
<1>2. Numbered
  BY CenterAssumption DEF Init, Numbered, NoSubscriptions, Readable
<1>3. LiveTracked /\ \A h \in Handlers : Stage(h)
  BY DEF Init, LiveTracked, Live, Stage, NoneLive, Opening
<1> QED
  BY <1>1, <1>2, <1>3 DEF StreamInv

\* Unless a request is deleting its subscription, an open stream is in the maps.
LEMMA LiveFacts ==
    ASSUME StreamInv, NEW s \in Handlers, Live(s),
           NEW h \in Handlers, OthersRest(h), pc[h] \in Ending => id[h] # id[s]
    PROVE  id[s] \in Ids /\ id[s] \in brokers /\ home[s] /\ Registered(s)
<1>1. \A g \in Handlers : pc[g] \in Ending => g = h
  BY DEF OthersRest, Resting, Ending
<1> QED
  BY <1>1 DEF StreamInv, LiveTracked, FileInv, TypeOK

\* No stream is open on an id that is above the counter.
LEMMA NewIdUnused ==
    ASSUME StreamInv, NEW h \in Handlers, OthersRest(h), pc[h] \in Resting,
           NEW i \in Ids, i > counter
    PROVE  NoneLive(i)
<1> SUFFICES ASSUME NEW s \in Handlers, Live(s), id[s] = i PROVE FALSE
  BY DEF NoneLive
<1>1. Registered(s)
  BY LiveFacts DEF Resting, Ending
<1> QED
  BY <1>1 DEF Registered, StreamInv, Numbered

\* What the streams that wait count on stays as it is.
Unmoved(h) == /\ \A s \in Handlers : Live(s)' => Live(s) /\ id'[s] = id[s]
              /\ pc[h] \notin Ending /\ pc'[h] \notin Ending

\* Streams stay tracked through a turn outside of deletions that removes none
\* of their entries.
LEMMA TrackedAside ==
    ASSUME StreamInv, NEW h \in Handlers, Turn(h), Unmoved(h),
           \A s \in Handlers : Live(s)' =>
              /\ id[s] \in brokers => id[s] \in brokers'
              /\ home[s] => home'[s]
              /\ Registered(s) => Registered(s)'
    PROVE  LiveTracked'
<1>1. ASSUME NEW s \in Handlers, Live(s)'
      PROVE  id'[s] \in brokers' /\ home'[s] /\ Registered(s)'
  <2>1. Live(s) /\ id'[s] = id[s]
    BY <1>1 DEF Unmoved
  <2>2. id[s] \in brokers /\ home[s] /\ Registered(s)
    BY <2>1, LiveFacts DEF Turn, Unmoved
  <2> QED
    BY <1>1, <2>1, <2>2
<1> QED
  BY <1>1 DEF LiveTracked

\* A turn that leaves the maps and the streams alone.
LEMMA TurnAside ==
    ASSUME StreamInv, FileInv', NEW h \in Handlers, Turn(h),
           UNCHANGED <<subs, brokers, conns, streams>>, Numbered', Stage(h)',
           pc[h] \notin Ending, pc'[h] \notin Ending, pc'[h] # "wait"
    PROVE  StreamInv'
<1>1. Unmoved(h)
  BY DEF Unmoved, Live, Turn, Elsewhere, streams
<1>2. LiveTracked'
  <2>1. \A s \in Handlers : Live(s)' => id'[s] = id[s]
    BY <1>1 DEF Unmoved
  <2> QED
    BY <1>1, <2>1, TrackedAside DEF Registered, streams
<1> QED
  BY <1>2, TurnKeepsStreams

LEMMA NumberedAside ==
    ASSUME Numbered, UNCHANGED <<counter, subs, file, established>>
    PROVE  Numbered'
  BY DEF Numbered, Readable

\* Nobody comes to an id without streams, except by opening one.
LEMMA NoneLiveKept ==
    ASSUME NEW h \in Handlers, Elsewhere(h), pc'[h] # "wait",
           \A s \in Handlers : open'[s] => open[s] \/ s = h, NEW i, NoneLive(i)
    PROVE  NoneLive(i)'
  BY DEF NoneLive, Live, Elsewhere

\* The counter has not come to its width when an id is drawn.
LEMMA NextIdFits ==
    ASSUME TypeOK, Numbered, NEW h \in Handlers, Add(h), MaxEstablish < Width
    PROVE  counter \in Nat /\ counter + 1 \in Nat /\ counter + 1 < Width
<1>1. counter \in Ids /\ established \in Nat
  BY DEF TypeOK
<1>2. counter <= established /\ established < MaxEstablish
  BY DEF Add, Numbered
<1> QED
  BY <1>1, <1>2, CenterAssumption DEF Ids

LEMMA SubscribeStreams ==
    ASSUME StreamInv, FileInv', MaxEstablish < Width, MaxBusy = 1,
           NEW h \in Handlers, Turn(h), Subscribe(h)
    PROVE  StreamInv'
<1> USE DEF StreamInv, FileInv, TypeOK, Goto, Continue, locals, streams
<1>1. CASE Add(h)
  <2>1. OthersRest(h) /\ pc[h] \in Resting
    BY <1>1, AcceptFacts DEF Add
  <2>2. counter + 1 \in Ids /\ (counter + 1) % Width = counter + 1
    <3>1. counter \in Nat /\ counter + 1 \in Nat /\ counter + 1 < Width
      BY <1>1, NextIdFits
    <3>2. (counter + 1) % Width = counter + 1
      BY <3>1, ModSmall, CenterAssumption
    <3> QED
      BY <3>1, <3>2, CenterAssumption DEF Ids
  <2>3. /\ counter' = counter + 1 /\ established' = established + 1 /\ established < MaxEstablish
        /\ UNCHANGED <<subs, brokers, conns, file, streams>>
        /\ pc'[h] = "make" /\ op'[h] = "establish" /\ id'[h] = counter'
    BY <1>1, <2>2 DEF Add, Accept, disk
  <2>4. counter \in Int /\ established \in Nat /\ counter + 1 > counter /\ MaxEstablish \in Nat
        /\ Ids \subseteq Int
    BY CenterAssumption DEF Ids
  <2>5. Numbered'
    <3>1. counter' <= established' /\ established' <= MaxEstablish
      BY <2>3, <2>4 DEF Numbered
    <3>2. \A i \in Ids : i > counter' => subs'[i] = Nil
      BY <2>3, <2>4 DEF Numbered
    <3>3. Readable => file.counter <= established'
      <4>1. Readable => file.counter \in Int /\ file.counter <= established
        BY <2>4 DEF Numbered, Readable, DTO
      <4> QED
        BY <2>3, <2>4, <4>1
    <3> QED
      BY <2>3, <3>1, <3>2, <3>3 DEF Numbered, Readable
  <2>6. NoneLive(counter + 1)
    BY <2>1, <2>2, <2>4, NewIdUnused
  <2>7. NoneLive(id[h])'
    BY <2>3, <2>6 DEF NoneLive, Live, Turn, Elsewhere
  <2>8. Stage(h)'
    BY <2>3, <2>7 DEF Stage, Opening
  <2> QED
    BY <2>1, <2>3, <2>5, <2>8, TurnAside DEF Ending, Resting
<1>2. CASE Make(h) \/ Fill(h)
  <2>1. pc[h] \in {"make", "fill"} /\ op[h] = "establish" /\ id[h] = counter /\ NoneLive(id[h])
    BY <1>2, Roles DEF Make, Fill, Stage
  <2>2. /\ \A i \in Ids : i # id[h] => subs'[i] = subs[i]
        /\ UNCHANGED <<counter, brokers, conns, file, streams, established>>
    BY <1>2 DEF Make, Fill, SubscriptionMap, disk, bounds
  <2>3. /\ pc'[h] \in {"fill", "readCounter"} /\ op'[h] = "establish" /\ id'[h] = id[h]
    BY <1>2, <2>1 DEF Make, Fill, Undisturbed
  <2>4. NoneLive(id[h])'
    BY <2>1, <2>2, <2>3, NoneLiveKept DEF Turn
  <2>5. Numbered'
    <3>1. \A i \in Ids : i > counter => i # id[h]
      BY <2>1 DEF Ids
    <3> QED
      BY <2>2, <3>1 DEF Numbered, Readable
  <2>6. Unmoved(h)
    BY <2>1, <2>2, <2>3 DEF Unmoved, Live, Turn, Elsewhere, Ending
  <2>7. \A s \in Handlers : Live(s)' => id[s] # id[h] /\ id'[s] = id[s]
    BY <2>1, <2>6 DEF Unmoved, NoneLive
  <2>8. LiveTracked'
    BY <2>2, <2>6, <2>7, TrackedAside DEF Registered
  <2>9. Stage(h)'
    BY <2>1, <2>2, <2>3, <2>4 DEF Stage, Opening
  <2> QED
    BY <2>5, <2>8, <2>9, TurnKeepsStreams
<1>3. CASE StoreBroker(h)
  <2>1. pc[h] = "broker" /\ op[h] = "establish" /\ id[h] = counter /\ NoneLive(id[h])
    BY <1>3, Roles DEF StoreBroker, Stage
  <2>2. /\ UNCHANGED <<counter, subs, conns, file, open, established>>
        /\ brokers' = brokers \cup {id[h]}
        /\ \A s \in Handlers : id[s] # id[h] => home'[s] = home[s]
        /\ pc'[h] = "reply" /\ op'[h] = "establish" /\ id'[h] = id[h]
    BY <1>3, <2>1 DEF StoreBroker, disk, bounds
  <2>3. NoneLive(id[h])'
    BY <2>1, <2>2, NoneLiveKept DEF Turn
  <2>4. Numbered'
    BY <2>2, NumberedAside
  <2>5. Unmoved(h)
    BY <2>1, <2>2 DEF Unmoved, Live, Turn, Elsewhere, Ending
  <2>6. \A s \in Handlers : Live(s)' => id[s] # id[h] /\ id'[s] = id[s]
    BY <2>1, <2>5 DEF Unmoved, NoneLive
  <2>7. LiveTracked'
    BY <2>2, <2>5, <2>6, TrackedAside DEF Registered
  <2>8. Stage(h)'
    BY <2>1, <2>2, <2>3 DEF Stage, Opening
  <2> QED
    BY <2>4, <2>7, <2>8, TurnKeepsStreams
<1> QED
  BY <1>1, <1>2, <1>3 DEF Subscribe

LEMMA SaveStreams ==
    ASSUME StreamInv, FileInv', NEW h \in Handlers, Turn(h), Save(h)
    PROVE  StreamInv'
<1> USE DEF StreamInv, FileInv, TypeOK, Goto, Continue, locals, memory, disk, bounds
<1>1. /\ pc[h] \in {"readCounter", "marshal", "truncate", "write"}
      /\ pc'[h] \in {"marshal", "truncate", "write", "broker", "reply"}
      /\ op' = op /\ id' = id
      /\ UNCHANGED <<counter, subs, brokers, conns, streams, established>>
  BY DEF Save, ReadCounter, Marshal, Truncate, WriteFile, SaveFails, AfterSave
<1>2. \/ file' \in {file, Nil, Torn}
      \/ file' = snap[h] /\ pc[h] = "write"
  BY DEF Save, ReadCounter, Marshal, Truncate, WriteFile, SaveFails
<1>3. Numbered'
  <2>1. CASE file' = snap[h] /\ pc[h] = "write"
    <3>1. file' = [counter |-> counter, subs |-> subs]
      BY <2>1 DEF Undisturbed, Memory
    <3> QED
      BY <1>1, <3>1 DEF Numbered, Readable
  <2>2. CASE file' \in {file, Nil, Torn}
    BY <1>1, <2>2 DEF Numbered, Readable
  <2> QED
    BY <1>2, <2>1, <2>2
<1>4. pc[h] # "drop" /\ pc[h] \notin Ending /\ pc'[h] \notin Ending /\ pc'[h] # "wait"
  BY <1>1 DEF Ending
<1>5. NoneLive(id[h])
  BY <1>1, <1>4, Roles DEF Stage
<1>6. NoneLive(id[h])'
  BY <1>1, <1>4, <1>5, NoneLiveKept DEF Turn, streams
<1>7. Stage(h)'
  BY <1>1, <1>6 DEF Stage, Opening
<1> QED
  BY <1>1, <1>3, <1>4, <1>7, TurnAside

LEMMA NotifyStreams ==
    ASSUME StreamInv, FileInv', NEW h \in Handlers, Turn(h), Notify(h) \/ Reply(h)
    PROVE  StreamInv'
<1> USE DEF StreamInv, FileInv, TypeOK, Goto, Continue, Return, locals, memory, disk, bounds
<1>1. /\ UNCHANGED <<counter, subs, brokers, conns, file, streams, established>>
      /\ pc[h] \in {"idle", "range", "open", "send", "reply"}
      /\ pc'[h] \in {"idle", "range", "open", "send"}
      /\ op'[h] \in {"none", "sendAll"}
  <2>1. CASE Reply(h)
    BY <2>1 DEF Reply
  <2>2. CASE Notify(h)
    <3>1. pc[h] # "idle" => op[h] = "sendAll"
      BY <2>2, Roles DEF Notify, Visit, RangeConns, Send, EndSend, EndSendAll, Sending, SendAll, Accept
    <3> QED
      BY <2>2, <3>1 DEF Notify, SendAll, Accept, Visit, RangeConns, Send, EndSend, EndSendAll
  <2> QED
    BY <2>1, <2>2
<1>2. Numbered'
  BY <1>1, NumberedAside
<1>3. Stage(h)'
  BY <1>1 DEF Stage, Opening
<1> QED
  BY <1>1, <1>2, <1>3, TurnAside DEF Ending

\* A deletion closes the sessions of its broker, which are all its streams.
LEMMA DeleteStreams ==
    ASSUME StreamInv, FileInv', MaxBusy = 1, NEW h \in Handlers, Turn(h), Delete(h)
    PROVE  StreamInv'
<1> USE DEF StreamInv, FileInv, TypeOK, Goto, Continue, locals, memory, disk, bounds
<1>1. UNCHANGED <<counter, file, established>>
  BY DEF Delete, CheckDelete, Drop, DropConns, FindBroker, Close, DropBroker
<1>2. \A s \in Handlers : pc'[h] # "wait" /\ (open'[s] => open[s]) => (Live(s)' => Live(s) /\ id'[s] = id[s])
  BY DEF Live, Turn, Elsewhere
<1>3. CASE CheckDelete(h)
  <2>1. /\ pc[h] = "idle" /\ pc'[h] = "drop" /\ op'[h] = "delete"
        /\ UNCHANGED <<counter, subs, brokers, conns, streams>>
    BY <1>3 DEF CheckDelete, Accept
  <2>2. Numbered'
    BY <1>1, <2>1, NumberedAside
  <2> QED
    BY <2>1, <2>2, TurnAside DEF Stage, Opening, Ending
<1>4. CASE Drop(h)
  <2>1. /\ pc[h] = "drop" /\ pc'[h] = "dropConns" /\ op'[h] = "delete" /\ id' = id
        /\ \A i \in Ids : i # id[h] => subs'[i] = subs[i]
        /\ subs'[id[h]] = Nil
        /\ UNCHANGED <<brokers, conns, open, home>>
    BY <1>4, Roles DEF Drop, SubscriptionMap, streams
  <2>2. Numbered'
    BY <1>1, <2>1 DEF Numbered, Readable
  <2>3. LiveTracked'
    <3>1. SUFFICES ASSUME NEW s \in Handlers, Live(s)'
                   PROVE  /\ id'[s] \in brokers' /\ home'[s]
                          /\ Registered(s)' \/ (pc'[h] \in Ending /\ id'[h] = id'[s])
      BY DEF LiveTracked
    <3>2. id[s] \in Ids /\ id[s] \in brokers /\ home[s] /\ Registered(s)
      BY <1>2, <2>1, <3>1, LiveFacts DEF Turn, Ending
    <3> QED
      BY <2>1, <3>2 DEF Registered, Ending
  <2> QED
    BY <2>1, <2>2, <2>3, TurnKeepsStreams DEF Stage, Opening, Ending
<1>5. CASE DropConns(h)
  <2>1. /\ pc[h] = "dropConns" /\ pc'[h] = "findBroker" /\ op'[h] = "delete" /\ id' = id
        /\ \A i \in Ids : i # id[h] => conns'[i] = conns[i]
        /\ UNCHANGED <<subs, brokers, open, home>>
    BY <1>5, Roles DEF DropConns, streams
  <2>2. Numbered'
    BY <1>1, <2>1, NumberedAside
  <2>3. LiveTracked'
    <3>1. SUFFICES ASSUME NEW s \in Handlers, Live(s)'
                   PROVE  /\ id'[s] \in brokers' /\ home'[s]
                          /\ Registered(s)' \/ (pc'[h] \in Ending /\ id'[h] = id'[s])
      BY DEF LiveTracked
    <3>2. Live(s) /\ id[s] \in brokers /\ home[s] /\ id[s] \in Ids
      BY <1>2, <2>1, <3>1 DEF LiveTracked
    <3>3. id[s] # id[h] => Registered(s)
      BY <3>2, LiveFacts DEF Turn
    <3> QED
      BY <2>1, <3>2, <3>3 DEF Registered, Ending
  <2> QED
    BY <2>1, <2>2, <2>3, TurnKeepsStreams DEF Stage, Opening, Ending
<1>6. CASE FindBroker(h)
  <2>1. /\ pc[h] = "findBroker" /\ op'[h] = "delete" /\ id' = id
        /\ pc'[h] = (IF id[h] \in brokers THEN "close" ELSE "dropBroker")
        /\ UNCHANGED <<counter, subs, brokers, conns, open, home>>
    BY <1>6, Roles DEF FindBroker, streams
  <2>2. Numbered'
    BY <1>1, <2>1, NumberedAside
  <2>3. id[h] \notin brokers => NoneLive(id[h])'
    BY <1>2, <2>1 DEF NoneLive, LiveTracked
  <2>4. LiveTracked'
    <3>1. SUFFICES ASSUME NEW s \in Handlers, Live(s)'
                   PROVE  /\ id'[s] \in brokers' /\ home'[s]
                          /\ Registered(s)' \/ (pc'[h] \in Ending /\ id'[h] = id'[s])
      BY DEF LiveTracked
    <3>2. Live(s) /\ id[s] \in brokers /\ home[s]
      BY <1>2, <2>1, <3>1 DEF LiveTracked
    <3>3. id[s] # id[h] => Registered(s)
      BY <3>2, LiveFacts DEF Turn
    <3> QED
      BY <2>1, <3>2, <3>3 DEF Registered, Ending
  <2> QED
    BY <2>1, <2>2, <2>3, <2>4, TurnKeepsStreams DEF Stage, Opening, Ending
<1>7. CASE Close(h)
  <2>1. id[h] \in brokers
    BY <1>7 DEF Close, Undisturbed
  <2>2. /\ pc[h] = "close" /\ pc'[h] = "dropBroker" /\ op'[h] = "delete" /\ id' = id
        /\ \A s \in Handlers : /\ open'[s] <=> open[s] /\ ~(home[s] /\ id[s] = id[h])
                               /\ home'[s] <=> home[s] /\ ~(home[s] /\ id[s] = id[h])
        /\ UNCHANGED <<counter, subs, brokers, conns>>
    BY <1>7, <2>1, Roles DEF Close, Sessions
  <2>3. Numbered'
    BY <1>1, <2>2, NumberedAside
  <2>4. \A s \in Handlers : Live(s)' => Live(s) /\ home[s] /\ id[s] # id[h]
    <3>1. ASSUME NEW s \in Handlers, Live(s)' PROVE Live(s) /\ home[s] /\ id[s] # id[h]
      <4>1. open'[s] /\ pc'[h] # "wait"
        BY <2>2, <3>1 DEF Live
      <4>2. open[s]
        BY <2>2, <4>1
      <4>3. Live(s)
        BY <3>1, <4>1, <4>2 DEF Live, Turn, Elsewhere
      <4>4. home[s]
        BY <4>3 DEF LiveTracked
      <4> QED
        BY <2>2, <4>1, <4>3, <4>4
    <3> QED
      BY <3>1
  <2>5. LiveTracked'
    <3>1. SUFFICES ASSUME NEW s \in Handlers, Live(s)'
                   PROVE  id'[s] \in brokers' /\ home'[s] /\ Registered(s)'
      BY DEF LiveTracked
    <3>2. Live(s) /\ home[s] /\ id[s] # id[h]
      BY <2>4, <3>1
    <3>3. id[s] \in brokers /\ Registered(s)
      BY <3>2, LiveFacts DEF Turn
    <3>4. home'[s]
      BY <2>2, <3>2
    <3> QED
      BY <2>2, <3>3, <3>4 DEF Registered
  <2>6. NoneLive(id[h])'
    BY <2>2, <2>4 DEF NoneLive
  <2> QED
    BY <2>2, <2>3, <2>5, <2>6, TurnKeepsStreams DEF Stage, Opening, Ending
<1>8. CASE DropBroker(h)
  <2>1. pc[h] = "dropBroker" /\ op[h] = "delete" /\ NoneLive(id[h])
    BY <1>8, Roles DEF DropBroker, Stage, Ending
  <2>2. /\ pc'[h] = "readCounter" /\ op'[h] = "delete" /\ id' = id
        /\ brokers' = brokers \ {id[h]}
        /\ \A s \in Handlers : id[s] # id[h] => home'[s] = home[s]
        /\ UNCHANGED <<subs, conns, open>>
    BY <1>8, <2>1 DEF DropBroker
  <2>3. Numbered'
    BY <1>1, <2>2, NumberedAside
  <2>4. Unmoved(h)
    BY <1>2, <2>1, <2>2 DEF Unmoved, Ending
  <2>5. \A s \in Handlers : Live(s)' => id[s] # id[h] /\ id'[s] = id[s]
    BY <2>1, <2>4 DEF Unmoved, NoneLive
  <2>6. LiveTracked'
    BY <2>2, <2>4, <2>5, TrackedAside DEF Registered
  <2>7. NoneLive(id[h])'
    BY <2>2, <2>5 DEF NoneLive
  <2> QED
    BY <2>2, <2>3, <2>6, <2>7, TurnKeepsStreams DEF Stage, Opening, Ending
<1> QED
  BY <1>3, <1>4, <1>5, <1>6, <1>7, <1>8 DEF Delete

\* A stream that is opened is on the broker and in the maps when it waits.
LEMMA ConnectStreams ==
    ASSUME StreamInv, FileInv', MaxBusy = 1, NEW h \in Handlers, Turn(h),
           Connect(h), ~AtRest(h)
    PROVE  StreamInv'
<1> USE DEF StreamInv, FileInv, TypeOK, Goto, Continue, locals, memory, disk, bounds
<1>1. UNCHANGED <<counter, subs, file, established>>
  BY DEF Connect, AtRest, Get, FindOwn, NewBroker, Attach, FindMap, NewMap, Register
<1>2. Numbered'
  BY <1>1, NumberedAside
<1>3. CASE Get(h)
  <2>1. /\ pc[h] = "idle" /\ pc'[h] = "findOwn" /\ op'[h] = "stream" /\ subs[id'[h]] # Nil
        /\ UNCHANGED <<subs, brokers, conns, streams>>
    BY <1>3 DEF Get, Accept
  <2>2. Stage(h)'
    BY <2>1 DEF Stage, Opening
  <2> QED
    BY <1>2, <2>1, <2>2, TurnAside DEF Ending
<1>4. CASE FindOwn(h)
  <2>1. /\ pc[h] = "findOwn" /\ op'[h] = "stream" /\ id' = id /\ subs[id[h]] # Nil
        /\ pc'[h] = (IF id[h] \in brokers THEN "attach" ELSE "newBroker")
        /\ UNCHANGED <<subs, brokers, conns, streams>>
    BY <1>4, Roles DEF FindOwn, Streaming, Stage, Opening
  <2>2. Stage(h)'
    BY <2>1 DEF Stage, Opening
  <2> QED
    BY <1>2, <2>1, <2>2, TurnAside DEF Ending
<1>5. CASE FindMap(h)
  <2>1. /\ pc[h] = "findMap" /\ op'[h] = "stream" /\ id' = id /\ subs[id[h]] # Nil
        /\ id[h] \in brokers /\ (open[h] => home[h])
        /\ pc'[h] = (IF conns[id[h]] = Nil THEN "newMap" ELSE "register")
        /\ UNCHANGED <<subs, brokers, conns, streams>>
    BY <1>5, Roles DEF FindMap, Streaming, Stage, Opening
  <2>2. Stage(h)'
    BY <2>1 DEF Stage, Opening, streams
  <2> QED
    BY <1>2, <2>1, <2>2, TurnAside DEF Ending
<1>6. CASE NewBroker(h)
  <2>1. /\ pc[h] = "newBroker" /\ pc'[h] = "attach" /\ op'[h] = "stream" /\ id' = id
        /\ id[h] \notin brokers /\ subs[id[h]] # Nil
        /\ brokers' = brokers \cup {id[h]}
        /\ \A s \in Handlers : id[s] # id[h] => home'[s] = home[s]
        /\ UNCHANGED <<subs, conns, open>>
    BY <1>6, Roles DEF NewBroker, Streaming, Stage, Opening
  <2>2. Unmoved(h)
    BY <2>1 DEF Unmoved, Live, Turn, Elsewhere, Ending
  <2>3. \A s \in Handlers : Live(s)' => id[s] # id[h] /\ id'[s] = id[s]
    BY <2>1, <2>2 DEF Unmoved, LiveTracked
  <2>4. LiveTracked'
    BY <2>1, <2>2, <2>3, TrackedAside DEF Registered
  <2>5. Stage(h)'
    BY <2>1 DEF Stage, Opening
  <2> QED
    BY <1>2, <2>4, <2>5, TurnKeepsStreams
<1>7. CASE Attach(h)
  <2>1. pc[h] = "attach" /\ op[h] = "stream" /\ id[h] \in brokers /\ subs[id[h]] # Nil
    BY <1>7, Roles DEF Attach, Streaming, Stage, Opening
  <2>2. UNCHANGED <<subs, brokers, conns>>
    BY <1>7 DEF Attach
  <2>3. \/ /\ pc'[h] = "findMap" /\ op'[h] = "stream" /\ id'[h] = id[h] /\ home'[h]
        \/ pc'[h] = "idle" /\ op'[h] = "none"
    BY <1>7, <2>1 DEF Attach, Return
  <2>4. \A s \in Handlers : s # h => open'[s] = open[s] /\ home'[s] = home[s]
    BY <1>7 DEF Attach, streams
  <2>5. \A s \in Handlers : Live(s)' => s # h
    BY <2>3 DEF Live
  <2>6. Unmoved(h)
    BY <2>1, <2>3, <2>4, <2>5 DEF Unmoved, Live, Turn, Elsewhere, Ending
  <2>7. \A s \in Handlers : Live(s)' => id'[s] = id[s]
    BY <2>6 DEF Unmoved
  <2>8. LiveTracked'
    BY <2>2, <2>4, <2>5, <2>6, <2>7, TrackedAside DEF Registered
  <2>9. Stage(h)'
    BY <2>1, <2>2, <2>3 DEF Stage, Opening
  <2> QED
    BY <1>2, <2>8, <2>9, TurnKeepsStreams
<1>8. CASE NewMap(h)
  <2>1. /\ pc[h] = "newMap" /\ pc'[h] = "register" /\ op'[h] = "stream" /\ id' = id
        /\ id[h] \in Ids /\ id[h] \in brokers /\ subs[id[h]] # Nil /\ (open[h] => home[h])
        /\ conns[id[h]] = Nil /\ conns'[id[h]] = {}
        /\ \A i \in Ids : i # id[h] => conns'[i] = conns[i]
        /\ UNCHANGED <<subs, brokers, open, home>>
    BY <1>8, Roles DEF NewMap, Streaming, Stage, Opening, streams
  <2>2. {} # Nil
    BY NilAssumption
  <2>3. Unmoved(h)
    BY <2>1 DEF Unmoved, Live, Turn, Elsewhere, Ending
  <2>4. \A s \in Handlers : Live(s)' => Registered(s) /\ id'[s] = id[s]
    BY <2>1, <2>3, LiveFacts DEF Unmoved, Turn, Ending
  <2>5. LiveTracked'
    BY <2>1, <2>3, <2>4, TrackedAside DEF Registered
  <2>6. Stage(h)'
    BY <2>1, <2>2 DEF Stage, Opening
  <2> QED
    BY <1>2, <2>5, <2>6, TurnKeepsStreams
<1>9. CASE Register(h)
  <2>1. /\ pc[h] = "register" /\ op[h] = "stream" /\ id[h] \in Ids /\ id[h] \in brokers
        /\ subs[id[h]] # Nil /\ conns[id[h]] # Nil /\ (open[h] => home[h])
    BY <1>9, Roles DEF Register, Streaming, Stage, Opening
  <2>2. /\ pc'[h] = "wait" /\ op'[h] = "stream" /\ id' = id
        /\ conns' = [conns EXCEPT ![id[h]] = conns[id[h]] \cup {h}]
        /\ UNCHANGED <<subs, brokers, open, home>>
    BY <1>9, <2>1 DEF Register, streams
  <2>3. conns[id[h]] \cup {h} # Nil
    <3>1. conns[id[h]] \cup {h} \in SUBSET Handlers
      BY <2>1
    <3> QED
      BY <3>1, NilAssumption
  <2>4. /\ conns'[id[h]] = conns[id[h]] \cup {h}
        /\ \A i \in Ids : i # id[h] => conns'[i] = conns[i]
    BY <2>1, <2>2
  <2>5. LiveTracked'
    <3>1. SUFFICES ASSUME NEW s \in Handlers, Live(s)'
                   PROVE  id'[s] \in brokers' /\ home'[s] /\ Registered(s)'
      BY DEF LiveTracked
    <3>2. CASE s = h
      <4>1. home[h]
        BY <2>1, <2>2, <3>1, <3>2 DEF Live
      <4> QED
        BY <2>1, <2>2, <2>3, <2>4, <3>2, <4>1 DEF Registered
    <3>3. CASE s # h
      <4>1. Live(s)
        BY <2>2, <3>1, <3>3 DEF Live, Turn, Elsewhere
      <4>2. id[s] \in Ids /\ id[s] \in brokers /\ home[s] /\ Registered(s)
        BY <2>1, <4>1, LiveFacts DEF Turn, Ending
      <4> QED
        BY <2>2, <2>3, <2>4, <4>2 DEF Registered
    <3> QED
      BY <3>2, <3>3
  <2>6. Stage(h)'
    BY <2>2 DEF Stage, Opening
  <2> QED
    BY <1>2, <2>5, <2>6, TurnKeepsStreams
<1> QED
  BY <1>3, <1>4, <1>5, <1>6, <1>7, <1>8, <1>9 DEF Connect, AtRest

LEMMA AtRestStreams ==
    ASSUME StreamInv, FileInv', NEW h \in Handlers, AtRest(h)
    PROVE  StreamInv'
<1> USE DEF StreamInv, FileInv, TypeOK, Goto, Return, locals, memory, disk, bounds, streams
<1>1. UNCHANGED <<counter, subs, brokers, file, established>>
  BY DEF AtRest, Disconnect, Leave
<1>2. Numbered'
  BY <1>1, NumberedAside
<1>3. CASE Disconnect(h)
  <2>1. /\ UNCHANGED <<conns, pc, op, id>>
        /\ ~open'[h]
        /\ \A s \in Handlers : s # h => open'[s] = open[s] /\ home'[s] = home[s]
    BY <1>3 DEF Disconnect
  <2>2. \A s \in Handlers : Live(s)' => s # h /\ Live(s)
    BY <2>1 DEF Live
  <2>3. LiveTracked'
    BY <1>1, <2>1, <2>2 DEF LiveTracked, Registered
  <2>4. ASSUME NEW g \in Handlers PROVE Stage(g)'
    <3>1. ASSUME NEW i, NoneLive(i) PROVE \A s \in Handlers : Live(s)' => id'[s] # i
      BY <2>1, <2>2, <3>1 DEF NoneLive
    <3>2. Stage(g)
      OBVIOUS
    <3>3. NoneLive(id[g]) => NoneLive(id[g])'
      BY <2>1, <3>1 DEF NoneLive
    <3> QED
      BY <1>1, <2>1, <3>2, <3>3 DEF Stage
  <2> QED
    BY <1>2, <2>3, <2>4
<1>4. CASE Leave(h)
  <2>1. /\ pc[h] = "wait" /\ pc'[h] = "idle" /\ op'[h] = "none"
        /\ \A s \in Handlers : s # h => pc'[s] = pc[s] /\ op'[s] = op[s] /\ id'[s] = id[s]
        /\ UNCHANGED <<open, home>>
        /\ conns' = [conns EXCEPT ![id[h]] = IF @ = Nil THEN Nil ELSE @ \ {h}]
    BY <1>4 DEF Leave
  <2>2. \A s \in Handlers : Live(s)' => s # h /\ Live(s)
    BY <2>1 DEF Live
  <2>3. \A i \in Ids : /\ conns[i] = Nil <=> conns'[i] = Nil
                       /\ conns[i] # Nil => \A s \in Handlers : s # h /\ s \in conns[i] => s \in conns'[i]
    <3>1. ASSUME NEW i \in Ids, conns[i] # Nil PROVE conns[i] \ {h} # Nil
      BY <3>1, NilAssumption
    <3> QED
      BY <2>1, <3>1
  <2>4. LiveTracked'
    <3>1. ASSUME NEW s \in Handlers, Live(s)'
          PROVE  /\ id'[s] \in brokers' /\ home'[s]
                 /\ Registered(s)' \/ \E g \in Handlers : pc'[g] \in Ending /\ id'[g] = id'[s]
      <4>1. s # h /\ Live(s) /\ id'[s] = id[s] /\ id[s] \in Ids
        BY <2>1, <2>2, <3>1
      <4>2. CASE Registered(s)
        BY <1>1, <2>1, <2>3, <4>1, <4>2 DEF LiveTracked, Registered
      <4>3. CASE \E g \in Handlers : pc[g] \in Ending /\ id[g] = id[s]
        <5>1. PICK g \in Handlers : pc[g] \in Ending /\ id[g] = id[s]
          BY <4>3
        <5>2. g # h
          BY <2>1, <5>1 DEF Ending
        <5>3. pc'[g] \in Ending /\ id'[g] = id'[s]
          BY <2>1, <4>1, <5>1, <5>2
        <5>4. id[s] \in brokers /\ home[s]
          BY <4>1 DEF LiveTracked
        <5> QED
          BY <1>1, <2>1, <4>1, <5>3, <5>4
      <4> QED
        BY <4>1, <4>2, <4>3 DEF LiveTracked
    <3> QED
      BY <3>1 DEF LiveTracked
  <2>5. ASSUME NEW g \in Handlers PROVE Stage(g)'
    <3>1. CASE g = h
      BY <2>1, <3>1 DEF Stage, Opening
    <3>2. CASE g # h
      <4>1. NoneLive(id[g]) => NoneLive(id[g])'
        BY <2>1, <2>2, <3>2 DEF NoneLive
      <4>2. Stage(g)
        OBVIOUS
      <4>3. id[g] \in Ids
        OBVIOUS
      <4> QED
        BY <1>1, <2>1, <2>3, <3>2, <4>1, <4>2, <4>3 DEF Stage
    <3> QED
      BY <3>1, <3>2
  <2> QED
    BY <1>2, <2>4, <2>5
<1> QED
  BY <1>3, <1>4 DEF AtRest

LEMMA RestartStreams ==
    ASSUME StreamInv, FileInv', Restart
    PROVE  StreamInv'
<1>1. LiveTracked' /\ \A h \in Handlers : Stage(h)'
  BY DEF Restart, LiveTracked, Live, Stage, NoneLive, Opening
<1>2. Numbered'
  <2>1. UNCHANGED <<file, established>> /\ counter' = Loaded.counter /\ subs' = Loaded.subs
    BY DEF Restart
  <2>2. established \in Nat /\ established <= MaxEstablish
    BY DEF StreamInv, FileInv, TypeOK, Numbered
  <2>3. CASE Readable
    BY <2>1, <2>2, <2>3 DEF Loaded, StreamInv, Numbered, Readable
  <2>4. CASE ~Readable
    BY <2>1, <2>2, <2>4 DEF Loaded, Blank, NoSubscriptions, Numbered, Readable
  <2> QED
    BY <2>3, <2>4
<1> QED
  BY <1>1, <1>2 DEF StreamInv

LEMMA StreamStep ==
    ASSUME MaxBusy = 1, MaxEstablish < Width, StreamInv, [Next]_vars
    PROVE  StreamInv'
<1>1. FileInv'
  BY FileStep DEF StreamInv
<1>2. CASE Next
  <2>1. ASSUME NEW h \in Handlers,
               \/ Subscribe(h) \/ Save(h) \/ Reply(h) \/ Delete(h) \/ Notify(h)
               \/ Connect(h) /\ ~AtRest(h)
        PROVE  StreamInv'
    <3>1. Turn(h)
      BY <2>1, TurnFacts DEF StreamInv, FileInv
    <3> QED
      BY <1>1, <2>1, <3>1, SubscribeStreams, SaveStreams, DeleteStreams, NotifyStreams, ConnectStreams
  <2>2. ASSUME NEW h \in Handlers, AtRest(h) PROVE StreamInv'
    BY <1>1, <2>2, AtRestStreams
  <2>3. CASE Restart
    BY <1>1, <2>3, RestartStreams
  <2> QED
    BY <1>2, <2>1, <2>2, <2>3 DEF Next
<1>3. CASE UNCHANGED vars
  BY <1>1, <1>3 DEF StreamInv, Numbered, Readable, LiveTracked, Live, Registered, Stage, NoneLive,
      vars, memory, locals, streams, bounds
<1> QED
  BY <1>2, <1>3

\* With one request at a time every open stream is on a live subscription, in
\* connMap and on the broker that its deletion will close, for any number of
\* streams, restarts and failed saves: lines 75-137 of SubscriptionCenter.go.
THEOREM StreamsStayTracked ==
    ASSUME MaxBusy = 1, MaxEstablish < Width
    PROVE  Spec => []StreamsTracked
<1>1. Init => StreamInv
  BY StreamInit
<1>2. StreamInv /\ [Next]_vars => StreamInv'
  BY StreamStep
<1>3. StreamInv => StreamsTracked
  <2>1. Ending \cap Resting = {}
    BY DEF Ending, Resting
  <2> QED
    BY <2>1 DEF StreamInv, StreamsTracked, LiveTracked, Live, Registered, Quiet, Busy
<1> QED
  BY <1>1, <1>2, <1>3, PTL DEF Spec

-----------------------------------------------------------------------------
(* The lives of subscriptions, over restarts *)

\* What the clients know of the ids is what a table of subscriptions has.
Knows(table, last) == \A i \in Ids :
    /\ life[i] = "held" => table[i] = requested[i]
    /\ life[i] = "gone" => table[i] = Nil
    /\ i > last => life[i] \notin {"held", "gone"}

\* The file, unless a save failed, is as good as the memory.
Recoverable == ~stale /\ Readable => Knows(file.subs, file.counter)

\* An id in work is not held, and its entry is what the client will be told.
Working(h) ==
    /\ op[h] = "establish" => life[id[h]] = "asked" /\ want[h] = requested[id[h]]
    /\ op[h] = "establish" /\ pc[h] \notin {"make", "fill"} => subs[id[h]] = requested[id[h]]
    /\ pc[h] = "fill" => subs[id[h]] \subseteq want[h]
    /\ op[h] = "delete" => life[id[h]] # "free"
    /\ op[h] = "delete" /\ pc[h] # "drop" =>
         subs[id[h]] = Nil /\ life[id[h]] \in {"leaving", "gone"}

LifeInv ==
    /\ StreamInv
    /\ Knows(subs, counter)
    /\ \A i \in Ids : i > counter => life[i] = "free"
    /\ \A i \in Ids : subs[i] # Nil => life[i] # "free"
    /\ Recoverable
    /\ \A h \in Handlers : Working(h)

LEMMA TurnKeepsLives ==
    ASSUME LifeInv, StreamInv', NEW h \in Handlers, Turn(h),
           Knows(subs, counter)', \A i \in Ids : i > counter' => life'[i] = "free",
           \A i \in Ids : subs'[i] # Nil => life'[i] # "free",
           Recoverable', Working(h)'
    PROVE  LifeInv'
<1>1. ASSUME NEW g \in Handlers, g # h PROVE Working(g)'
  <2>1. pc'[g] \in Resting
    BY <1>1 DEF Turn, OthersRest, Elsewhere
  <2>2. op'[g] \notin {"establish", "delete"}
    BY <2>1 DEF StreamInv, FileInv, InOperation, Resting, Establishing, Deleting
  <2> QED
    BY <2>1, <2>2 DEF Working, Resting
<1> QED
  BY <1>1 DEF LifeInv

LEMMA LifeInit == Init => LifeInv
<1> SUFFICES ASSUME Init PROVE LifeInv
  OBVIOUS
<1>1. StreamInv
  BY StreamInit
<1>2. \A i \in Ids : life[i] = "free" /\ subs[i] = Nil
  BY DEF Init, NoSubscriptions
<1>3. ~Readable /\ \A h \in Handlers : Working(h)
  BY DEF Init, Readable, Working
<1> QED
  BY <1>1, <1>2, <1>3 DEF LifeInv, Knows, Recoverable

\* A turn that changes neither the memory nor what clients know.
LEMMA LivesAside ==
    ASSUME LifeInv, StreamInv', NEW h \in Handlers, Turn(h),
           UNCHANGED <<counter, subs, life, requested>>, Recoverable', Working(h)'
    PROVE  LifeInv'
<1>1. Knows(subs, counter)'
  BY DEF LifeInv, Knows
<1> QED
  BY <1>1, TurnKeepsLives DEF LifeInv

LEMMA RecoverableAside ==
    ASSUME Recoverable, UNCHANGED <<file, stale, life, requested>>
    PROVE  Recoverable'
  BY DEF Recoverable, Readable, Knows

\* A file that is current is as good as the memory.
LEMMA CurrentRecovers ==
    ASSUME FileCurrent, Knows(subs, counter)
    PROVE  Recoverable
  BY DEF FileCurrent, Memory, Recoverable

LEMMA SubscribeLives ==
    ASSUME LifeInv, StreamInv', MaxEstablish < Width,
           NEW h \in Handlers, Turn(h), Subscribe(h)
    PROVE  LifeInv'
<1> USE DEF LifeInv, StreamInv, FileInv, TypeOK, Goto, Continue, locals, memory, client
<1>1. UNCHANGED <<file, stale>>
  BY DEF Subscribe, Add, Make, Fill, StoreBroker, disk
<1>2. CASE Add(h)
  <2>1. counter + 1 \in Ids /\ (counter + 1) % Width = counter + 1 /\ counter \in Nat
    <3>1. counter \in Nat /\ counter + 1 \in Nat /\ counter + 1 < Width
      <4>1. TypeOK /\ Numbered
        OBVIOUS
      <4> HIDE DEF LifeInv, StreamInv, FileInv, TypeOK
      <4> QED
        BY <1>2, <4>1, NextIdFits
    <3> HIDE DEF LifeInv, StreamInv, FileInv, TypeOK
    <3>2. (counter + 1) % Width = counter + 1
      BY <3>1, ModSmall, CenterAssumption
    <3>3. counter + 1 \in Ids
      BY <3>1, CenterAssumption DEF Ids
    <3> QED
      BY <3>1, <3>2, <3>3
  <2>2. /\ counter' = counter + 1 /\ subs' = subs
        /\ pc'[h] = "make" /\ op'[h] = "establish" /\ id'[h] = counter'
    BY <1>2, <2>1 DEF Add
  <2>3. /\ life'[counter'] = "asked" /\ want'[h] = requested'[counter']
        /\ \A i \in Ids : i # counter' => life'[i] = life[i] /\ requested'[i] = requested[i]
    BY <1>2, <2>1, <2>2 DEF Add
  <2>4. Ids \subseteq Int
    BY DEF Ids
  <2>5. Knows(subs, counter)'
    BY <2>1, <2>2, <2>3, <2>4 DEF Knows
  <2>6. Recoverable'
    BY <1>1, <2>1, <2>2, <2>3 DEF Recoverable, Readable, Knows
  <2>7. Working(h)'
    BY <2>2, <2>3 DEF Working
  <2>8. \A i \in Ids : i > counter' => life'[i] = "free"
    BY <2>1, <2>2, <2>3, <2>4
  <2>9. \A i \in Ids : subs'[i] # Nil => life'[i] # "free"
    BY <2>2, <2>3
  <2> QED
    BY <2>5, <2>6, <2>7, <2>8, <2>9, TurnKeepsLives
<1>3. CASE Make(h) \/ Fill(h)
  <2>1. /\ pc[h] \in {"make", "fill"} /\ op[h] = "establish" /\ id[h] \in Ids
        /\ life[id[h]] = "asked" /\ want[h] = requested[id[h]]
    BY <1>3, Roles DEF Make, Fill, Working
  <2>2. /\ \A i \in Ids : i # id[h] => subs'[i] = subs[i]
        /\ UNCHANGED <<counter, life, requested>>
    BY <1>3 DEF Make, Fill, SubscriptionMap
  <2>3. /\ pc'[h] \in {"fill", "readCounter"} /\ op'[h] = "establish"
        /\ id'[h] = id[h] /\ want'[h] = want[h]
    BY <1>3, <2>1 DEF Make, Fill, Undisturbed
  <2>4. subs'[id[h]] \subseteq want[h] /\ (pc'[h] = "readCounter" => subs'[id[h]] = want[h])
    <3>1. CASE Make(h)
      BY <3>1 DEF Make, SubscriptionMap
    <3>2. CASE Fill(h)
      <4>1. pc[h] = "fill" /\ subs[id[h]] # Nil /\ subs[id[h]] \subseteq want[h]
        BY <3>2 DEF Fill, Undisturbed, Working
      <4>2. CASE Continue(h, "readCounter") /\ UNCHANGED subs
                 /\ (want[h] = {} \/ want[h] \subseteq subs[id[h]])
        BY <4>1, <4>2
      <4>3. ASSUME NEW t \in want[h], subs' = [subs EXCEPT ![id[h]] = @ \cup {t}],
                   UNCHANGED <<pc, locals>>
            PROVE  subs'[id[h]] \subseteq want[h] /\ pc'[h] = "fill"
        BY <2>1, <4>1, <4>3 DEF SubscriptionMap
      <4> QED
        BY <3>2, <4>1, <4>2, <4>3 DEF Fill
    <3> QED
      BY <1>3, <3>1, <3>2
  <2>5. Knows(subs, counter)'
    <3>1. ASSUME NEW i \in Ids, i # id[h]
          PROVE  subs'[i] = subs[i] /\ life'[i] = life[i] /\ requested'[i] = requested[i]
      BY <2>2, <3>1
    <3>2. life'[id[h]] = "asked"
      BY <2>1, <2>2
    <3>3. Knows(subs, counter) /\ UNCHANGED <<counter, life>>
      BY <2>2
    <3> HIDE DEF LifeInv, StreamInv, FileInv, TypeOK
    <3> QED
      BY <3>1, <3>2, <3>3 DEF Knows
  <2>6. Recoverable'
    BY <1>1, <2>2, RecoverableAside
  <2>7. Working(h)'
    BY <2>1, <2>2, <2>3, <2>4 DEF Working
  <2>8. \A i \in Ids : subs'[i] # Nil => life'[i] # "free"
    BY <2>1, <2>2
  <2> QED
    BY <2>2, <2>5, <2>6, <2>7, <2>8, TurnKeepsLives
<1>4. CASE StoreBroker(h)
  <2>1. /\ pc[h] = "broker" /\ pc'[h] = "reply" /\ op[h] = "establish" /\ op' = op /\ id' = id
        /\ want' = want /\ UNCHANGED <<counter, subs, life, requested>>
    BY <1>4, Roles DEF StoreBroker
  <2> QED
    BY <1>1, <2>1, RecoverableAside, LivesAside DEF Working
<1> QED
  BY <1>2, <1>3, <1>4 DEF Subscribe

LEMMA SaveLives ==
    ASSUME LifeInv, StreamInv', NEW h \in Handlers, Turn(h), Save(h)
    PROVE  LifeInv'
<1> USE DEF LifeInv, StreamInv, FileInv, TypeOK, Goto, Continue, locals, memory, client, disk
<1>1. /\ pc[h] \in {"readCounter", "marshal", "truncate", "write"}
      /\ pc'[h] \in {"marshal", "truncate", "write", "broker", "reply"}
      /\ op' = op /\ id' = id /\ want' = want
      /\ UNCHANGED <<counter, subs, life, requested>>
  BY DEF Save, ReadCounter, Marshal, Truncate, WriteFile, SaveFails, AfterSave
<1>2. \/ UNCHANGED <<file, stale>>
      \/ file' \in {Nil, Torn} \/ stale'
      \/ file' = snap[h] /\ pc[h] = "write"
  BY DEF Save, ReadCounter, Marshal, Truncate, WriteFile, SaveFails
<1>3. Recoverable'
  <2>1. CASE file' = snap[h] /\ pc[h] = "write"
    <3>1. file' = [counter |-> counter, subs |-> subs]
      BY <2>1 DEF Undisturbed, Memory
    <3> QED
      BY <1>1, <3>1 DEF Recoverable, Knows
  <2>2. CASE file' \in {Nil, Torn} \/ stale'
    BY <2>2 DEF Recoverable, Readable
  <2>3. CASE UNCHANGED <<file, stale>>
    BY <1>1, <2>3, RecoverableAside
  <2> QED
    BY <1>2, <2>1, <2>2, <2>3
<1>4. Working(h)'
  BY <1>1 DEF Working
<1> QED
  BY <1>1, <1>3, <1>4, LivesAside

\* The client is told what the memory and the file have.
LEMMA ReplyLives ==
    ASSUME LifeInv, StreamInv', NEW h \in Handlers, Turn(h), Reply(h)
    PROVE  LifeInv'
<1> USE DEF LifeInv, StreamInv, FileInv, TypeOK, Goto, Return, locals, memory, client, disk
<1>1. /\ pc[h] = "reply" /\ op[h] \in {"establish", "delete"} /\ id[h] \in Ids
      /\ pc'[h] = "idle" /\ op'[h] = "none"
      /\ UNCHANGED <<counter, subs, file, stale, requested>>
  BY Roles DEF Reply
<1>2. life' = [life EXCEPT ![id[h]] = IF op[h] = "delete" THEN "gone" ELSE "held"]
  <2>1. op[h] = "establish" => life[id[h]] = "asked"
    BY DEF Working
  <2> QED
    BY <1>1, <2>1 DEF Reply
<1>3. /\ op[h] = "establish" => subs[id[h]] = requested[id[h]]
      /\ op[h] = "delete" => subs[id[h]] = Nil
      /\ life[id[h]] # "free"
  BY <1>1 DEF Working
<1>4. /\ life'[id[h]] = (IF op[h] = "delete" THEN "gone" ELSE "held")
      /\ \A i \in Ids : i # id[h] => life'[i] = life[i]
  BY <1>1, <1>2
<1>5. Knows(subs, counter)'
  BY <1>1, <1>3, <1>4 DEF Knows
<1>6. Recoverable'
  <2>1. FileCurrent
    BY <1>1, CurrentBefore DEF Ahead, Turn
  <2>2. FileCurrent'
    BY <1>1, <2>1 DEF FileCurrent, Readable, Memory
  <2> QED
    BY <1>5, <2>2 DEF FileCurrent, Memory, Recoverable, Knows
<1>7. Working(h)'
  BY <1>1 DEF Working
<1>8. \A i \in Ids : i > counter' => life'[i] = "free"
  BY <1>1, <1>3, <1>4
<1>9. \A i \in Ids : subs'[i] # Nil => life'[i] # "free"
  BY <1>1, <1>4
<1> QED
  BY <1>5, <1>6, <1>7, <1>8, <1>9, TurnKeepsLives

LEMMA DeleteLives ==
    ASSUME LifeInv, StreamInv', NEW h \in Handlers, Turn(h), Delete(h)
    PROVE  LifeInv'
<1> USE DEF LifeInv, StreamInv, FileInv, TypeOK, Goto, Continue, locals, memory, client, disk
<1>1. UNCHANGED <<counter, file, stale, requested>>
  BY DEF Delete, CheckDelete, Drop, DropConns, FindBroker, Close, DropBroker
<1>2. CASE Drop(h)
  <2>1. /\ pc[h] = "drop" /\ op[h] = "delete" /\ id[h] \in Ids /\ life[id[h]] # "free"
        /\ pc'[h] = "dropConns" /\ op' = op /\ id' = id
    BY <1>2, Roles DEF Drop, Working
  <2>2. /\ subs'[id[h]] = Nil /\ \A i \in Ids : i # id[h] => subs'[i] = subs[i]
        /\ life'[id[h]] \in {"leaving", "gone"}
        /\ life'[id[h]] = "gone" => life[id[h]] = "gone"
        /\ \A i \in Ids : i # id[h] => life'[i] = life[i]
    BY <1>2, <2>1 DEF Drop, SubscriptionMap
  <2>3. Knows(subs, counter)'
    <3>1. Knows(subs, counter)
      OBVIOUS
    <3> HIDE DEF LifeInv, StreamInv, FileInv, TypeOK
    <3> QED
      BY <1>1, <2>1, <2>2, <3>1 DEF Knows
  <2>4. Recoverable'
    BY <1>1, <2>1, <2>2 DEF Recoverable, Readable, Knows
  <2>5. Working(h)'
    BY <2>1, <2>2 DEF Working
  <2>6. \A i \in Ids : i > counter' => life'[i] = "free"
    BY <1>1, <2>1, <2>2
  <2>7. ASSUME NEW i \in Ids, subs'[i] # Nil PROVE life'[i] # "free"
    <3>1. i # id[h] /\ subs[i] # Nil /\ life'[i] = life[i]
      BY <2>2, <2>7
    <3>2. \A j \in Ids : subs[j] # Nil => life[j] # "free"
      OBVIOUS
    <3> HIDE DEF LifeInv, StreamInv, FileInv, TypeOK
    <3> QED
      BY <3>1, <3>2
  <2> QED
    BY <2>3, <2>4, <2>5, <2>6, <2>7, TurnKeepsLives
<1>3. CASE ~Drop(h)
  <2>1. UNCHANGED <<subs, life>>
    BY <1>3 DEF Delete, CheckDelete, DropConns, FindBroker, Close, DropBroker
  <2>2. Working(h)'
    <3>1. CASE CheckDelete(h)
      <4>1. op'[h] = "delete" /\ pc'[h] = "drop" /\ id'[h] \in Ids /\ subs[id'[h]] # Nil
        BY <3>1 DEF CheckDelete
      <4> QED
        BY <2>1, <4>1 DEF Working
    <3>2. CASE ~CheckDelete(h)
      <4>1. pc[h] \in {"dropConns", "findBroker", "close", "dropBroker"} /\ op[h] = "delete"
        BY <1>3, <3>2, Roles DEF Delete, DropConns, FindBroker, Close, DropBroker
      <4>2. /\ pc'[h] \in {"findBroker", "close", "dropBroker", "readCounter"}
            /\ op' = op /\ id' = id /\ want' = want
        BY <1>3, <3>2 DEF Delete, DropConns, FindBroker, Close, DropBroker, Undisturbed
      <4> QED
        BY <2>1, <4>1, <4>2 DEF Working
    <3> QED
      BY <3>1, <3>2
  <2> QED
    BY <1>1, <2>1, <2>2, RecoverableAside, LivesAside
<1> QED
  BY <1>2, <1>3

LEMMA ConnectLives ==
    ASSUME LifeInv, StreamInv', NEW h \in Handlers, Turn(h),
           (Connect(h) /\ ~AtRest(h)) \/ Notify(h)
    PROVE  LifeInv'
<1>1. UNCHANGED <<counter, subs, file, stale, life, requested>>
  BY DEF Connect, AtRest, Get, FindOwn, NewBroker, Attach, FindMap, NewMap, Register, Notify,
         SendAll, Visit, RangeConns, Send, EndSend, EndSendAll, memory, disk, client
<1>2. op'[h] \notin {"establish", "delete"} /\ pc'[h] # "fill"
  <2>1. pc'[h] \in Streaming \cup Sending \cup {"idle"}
    <3>1. pc \in [Handlers -> Labels]
      BY DEF LifeInv, StreamInv, FileInv, TypeOK
    <3>2. CASE Connect(h) /\ ~AtRest(h)
      BY <3>1, <3>2 DEF Connect, AtRest, Get, FindOwn, NewBroker, Attach, FindMap, NewMap, Register,
             Goto, Continue, Return, Streaming
    <3>3. CASE Notify(h)
      BY <3>1, <3>3 DEF Notify, SendAll, Visit, RangeConns, Send, EndSend, EndSendAll, Goto, Continue,
             Return, Sending
    <3> QED
      BY <3>2, <3>3
  <2> QED
    BY <2>1 DEF StreamInv, FileInv, InOperation, Streaming, Sending, Establishing, Deleting
<1>3. Recoverable'
  BY <1>1, RecoverableAside DEF LifeInv
<1>4. Working(h)'
  BY <1>2 DEF Working
<1> QED
  BY <1>1, <1>3, <1>4, LivesAside

LEMMA AtRestLives ==
    ASSUME LifeInv, StreamInv', NEW h \in Handlers, AtRest(h)
    PROVE  LifeInv'
<1>1. UNCHANGED <<counter, subs, file, stale, life, requested>>
  BY DEF AtRest, Disconnect, Leave, memory, disk, client
<1>2. \A g \in Handlers :
        \/ pc'[g] = pc[g] /\ op'[g] = op[g] /\ id'[g] = id[g] /\ want'[g] = want[g]
        \/ pc'[g] = "idle" /\ op'[g] = "none"
  BY DEF AtRest, Disconnect, Leave, locals, Goto, Return, LifeInv, StreamInv, FileInv, TypeOK
<1>3. \A g \in Handlers : Working(g)'
  BY <1>1, <1>2 DEF LifeInv, Working
<1>4. Recoverable' /\ Knows(subs, counter)'
  BY <1>1, RecoverableAside DEF LifeInv, Knows
<1> QED
  BY <1>1, <1>3, <1>4 DEF LifeInv

LEMMA RestartLives ==
    ASSUME LifeInv, StreamInv', Restart
    PROVE  LifeInv'
<1> USE DEF LifeInv, StreamInv, FileInv, TypeOK
<1>1. \A h \in Handlers : Working(h)'
  BY DEF Restart, Working
<1>2. /\ counter' = Loaded.counter /\ subs' = Loaded.subs /\ file' = file /\ stale' = FALSE
      /\ \A i \in Ids :
           /\ life'[i] = (IF Survives(i) THEN life[i] ELSE IF Loaded.subs[i] # Nil THEN "held" ELSE "free")
           /\ requested'[i] = (IF Survives(i) THEN requested[i]
                               ELSE IF Loaded.subs[i] # Nil THEN Loaded.subs[i] ELSE {})
  BY DEF Restart
<1>3. \A i \in Ids : i > Loaded.counter => Loaded.subs[i] = Nil
  BY DEF Loaded, Numbered, Blank, NoSubscriptions
<1>4. ASSUME NEW i \in Ids
      PROVE  /\ life'[i] = "held" => Loaded.subs[i] = requested'[i]
             /\ life'[i] = "gone" => Loaded.subs[i] = Nil
             /\ i > Loaded.counter => life'[i] = "free"
             /\ Loaded.subs[i] # Nil => life'[i] # "free"
  <2>1. CASE Survives(i)
    <3>1. /\ Loaded = file /\ life'[i] = life[i] /\ requested'[i] = requested[i]
          /\ life[i] \in {"held", "gone"}
      BY <1>2, <2>1 DEF Survives, Loaded
    <3>2. Knows(file.subs, file.counter)
      BY <2>1 DEF Survives, Recoverable
    <3> QED
      BY <3>1, <3>2 DEF Knows
  <2>2. CASE ~Survives(i)
    BY <1>2, <1>3, <2>2
  <2> QED
    BY <2>1, <2>2
<1>5. Knows(subs, counter)'
  BY <1>2, <1>4 DEF Knows
<1>6. Recoverable'
  <2>1. Readable => Loaded = file
    BY DEF Loaded
  <2> QED
    BY <1>2, <1>4, <2>1 DEF Recoverable, Readable, Knows
<1> QED
  BY <1>1, <1>2, <1>4, <1>5, <1>6

LEMMA LifeStep ==
    ASSUME MaxBusy = 1, MaxEstablish < Width, LifeInv, [Next]_vars
    PROVE  LifeInv'
<1>1. StreamInv'
  BY StreamStep DEF LifeInv
<1>2. CASE Next
  <2>1. ASSUME NEW h \in Handlers,
               \/ Subscribe(h) \/ Save(h) \/ Reply(h) \/ Delete(h) \/ Notify(h)
               \/ Connect(h) /\ ~AtRest(h)
        PROVE  LifeInv'
    <3>1. Turn(h)
      BY <2>1, TurnFacts DEF LifeInv, StreamInv, FileInv
    <3>2. CASE Subscribe(h) \/ Save(h) \/ Reply(h) \/ Delete(h)
      BY <1>1, <3>1, <3>2, SubscribeLives, SaveLives, ReplyLives, DeleteLives
    <3>3. CASE Notify(h) \/ (Connect(h) /\ ~AtRest(h))
      BY <1>1, <3>1, <3>3, ConnectLives
    <3> QED
      BY <2>1, <3>2, <3>3
  <2>2. ASSUME NEW h \in Handlers, AtRest(h) PROVE LifeInv'
    BY <1>1, <2>2, AtRestLives
  <2>3. CASE Restart
    BY <1>1, <2>3, RestartLives
  <2> QED
    BY <1>2, <2>1, <2>2, <2>3 DEF Next
<1>3. CASE UNCHANGED vars
  BY <1>1, <1>3 DEF LifeInv, Knows, Recoverable, Readable, Working, vars, memory, locals, client
<1> QED
  BY <1>2, <1>3

\* With one request at a time, a subscription that a client holds is in the map
\* as it was asked for, and one reported as deleted is not, over any number of
\* restarts: what a client is told is in the file before, or its save failed,
\* lines 75-117 of SubscriptionCenter.go.
THEOREM RestartsSafe ==
    ASSUME MaxBusy = 1, MaxEstablish < Width
    PROVE  Spec => [](HeldIsKept /\ DeletedStaysDeleted)
<1>1. Init => LifeInv
  BY LifeInit
<1>2. LifeInv /\ [Next]_vars => LifeInv'
  BY LifeStep
<1>3. LifeInv => HeldIsKept /\ DeletedStaysDeleted
  BY DEF LifeInv, Knows, HeldIsKept, DeletedStaysDeleted
<1> QED
  BY <1>1, <1>2, <1>3, PTL DEF Spec

\* The counter in a file that is whole, and not left behind by a failed save,
\* is not below the id of a subscription that a client holds or has deleted.
IdsRecoverable ==
    Readable /\ ~stale => \A i \in Ids : life[i] \in {"held", "gone"} => i <= file.counter

\* With one request at a time, an id is new when it is drawn: no client was told
\* of it in this life of the process, nor in an earlier one unless the file was
\* torn or stale when the process was started. Such a file does lose the ids:
\* Restart frees them, and nothing is said of their being drawn again. Every
\* other file has a counter that covers all the ids clients know of, at every
\* step of a save at which the process may end: lines 45-82 of
\* SubscriptionCenter.go.
THEOREM IdsFreshOverRestarts ==
    ASSUME MaxBusy = 1, MaxEstablish < Width
    PROVE  Spec => FreshId /\ []IdsRecoverable
<1>1. Init => LifeInv
  BY LifeInit
<1>2. LifeInv /\ [Next]_vars => LifeInv'
  BY LifeStep
<1>3. LifeInv /\ [Next]_vars => (established' # established => life[counter'] = "free")
  <2> SUFFICES ASSUME LifeInv, [Next]_vars, established' # established
               PROVE  life[counter'] = "free"
    OBVIOUS
  <2>1. ASSUME NEW h \in Handlers, ~Add(h)
        PROVE  ~(Subscribe(h) \/ Save(h) \/ Reply(h) \/ Delete(h) \/ Connect(h) \/ Notify(h))
    BY <2>1 DEF Subscribe, Make, Fill, StoreBroker, Save, ReadCounter, Marshal, Truncate, WriteFile,
      SaveFails, Reply, Delete, CheckDelete, Drop, DropConns, FindBroker, Close, DropBroker, Connect,
      Get, FindOwn, NewBroker, Attach, FindMap, NewMap, Register, Disconnect, Leave, Notify, SendAll,
      Visit, RangeConns, Send, EndSend, EndSendAll, bounds
  <2>2. PICK h \in Handlers : Add(h)
    BY <2>1 DEF Next, Restart, vars, bounds
  <2>3. counter \in Nat /\ counter + 1 \in Nat /\ counter + 1 < Width
    <3>1. TypeOK /\ Numbered
      BY DEF LifeInv, StreamInv, FileInv
    <3> QED
      BY <2>2, <3>1, NextIdFits
  <2>4. counter' = counter + 1
    BY <2>2, <2>3, ModSmall, CenterAssumption DEF Add
  <2>5. counter' \in Ids /\ counter' > counter
    BY <2>3, <2>4, CenterAssumption DEF Ids
  <2> QED
    BY <2>5 DEF LifeInv
<1>4. LifeInv => IdsRecoverable
  <2> SUFFICES ASSUME LifeInv, Readable, ~stale, NEW i \in Ids, life[i] \in {"held", "gone"}
               PROVE  i <= file.counter
    BY DEF IdsRecoverable
  <2>1. ~(i > file.counter)
    BY DEF LifeInv, Recoverable, Knows
  <2>2. i \in Nat /\ file.counter \in Nat
    <3>1. TypeOK
      BY DEF LifeInv, StreamInv, FileInv
    <3> QED
      BY <3>1, CenterAssumption DEF TypeOK, Ids, Readable, DTO
  <2> QED
    BY <2>1, <2>2
<1> QED
  BY <1>1, <1>2, <1>3, <1>4, PTL DEF Spec, FreshId

-----------------------------------------------------------------------------
(* The audience of a notification *)

\* A stream that is owed an event still has its subscription before the loops.
Awaits(k, s) ==
    /\ pc[s] = "wait"
    /\ subs[id[s]] # Nil
    /\ want[k] \subseteq subs[id[s]]
    /\ \/ id[s] \in must[k]
       \/ pc[k] = "open" /\ id[k] = id[s]
       \/ pc[k] = "send" /\ s \in targets[k]

Owing(k) == pc[k] \in Sending => \A s \in due[k] \ sent[k] : open[s] => Awaits(k, s)

AudienceInv == StreamInv /\ \A k \in Handlers : Owing(k)

LEMMA NotifyAudience ==
    ASSUME AudienceInv, StreamInv', NEW k \in Handlers, Turn(k), Notify(k)
    PROVE  AudienceInv'
<1> USE DEF AudienceInv, StreamInv, FileInv, TypeOK, Goto, Continue, locals, memory, streams, sending
<1>1. ASSUME NEW g \in Handlers, g # k PROVE Owing(g)'
  BY <1>1 DEF Turn, OthersRest, Elsewhere, Resting, Sending, Owing
<1>2. UNCHANGED <<subs, conns, open>>
  BY DEF Notify, SendAll, Visit, RangeConns, Send, EndSend, EndSendAll
<1>3. \A s \in Handlers : pc[s] = "wait" /\ pc[k] # "wait" => pc'[s] = "wait" /\ id'[s] = id[s]
  BY DEF Turn, Elsewhere
<1>4. CASE SendAll(k)
  <2>1. PICK t \in Types : want' = [want EXCEPT ![k] = {t}] /\ due' = [due EXCEPT ![k] = Audience(t)]
    BY <1>4 DEF SendAll
  <2>2. /\ want'[k] = {t} /\ due'[k] = Audience(t) /\ pc[k] = "idle"
        /\ \A i \in Ids : subs[i] # Nil => i \in must'[k]
    <3> DEFINE there == {i \in Ids : subs[i] # Nil}
    <3>1. must' = [must EXCEPT ![k] = there]
      BY <1>4 DEF SendAll
    <3>2. \A i \in Ids : subs[i] # Nil => i \in there
      OBVIOUS
    <3> HIDE DEF there
    <3>3. must'[k] = there
      BY <3>1
    <3>4. pc[k] = "idle"
      BY <1>4 DEF SendAll, Accept
    <3>5. want'[k] = {t} /\ due'[k] = Audience(t)
      BY <2>1
    <3> QED
      BY <3>2, <3>3, <3>4, <3>5
  <2>3. \A s \in Audience(t) : /\ s \in Handlers /\ pc[s] = "wait" /\ id[s] \in Ids
                               /\ subs[id[s]] # Nil /\ t \in subs[id[s]]
    BY DEF Audience
  <2>4. ASSUME NEW s \in due'[k] PROVE Awaits(k, s)'
    <3>1. /\ pc[s] = "wait" /\ id[s] \in Ids /\ subs[id[s]] # Nil /\ t \in subs[id[s]]
          /\ s \in Handlers
      BY <2>2, <2>3, <2>4
    <3>2. pc'[s] = "wait" /\ id'[s] = id[s] /\ subs' = subs
      BY <1>2, <1>3, <2>2, <3>1
    <3> QED
      BY <2>2, <3>1, <3>2 DEF Awaits
  <2>5. Owing(k)'
    BY <2>4 DEF Owing
  <2> QED
    BY <1>1, <2>5
<1>5. CASE pc[k] \in Sending /\ pc'[k] \in Sending /\ ~SendAll(k)
  <2>1. want' = want /\ due' = due /\ pc[k] # "wait"
    BY <1>5 DEF Notify, Visit, RangeConns, Send, EndSend, EndSendAll, Return, Sending
  <2>2. ASSUME NEW s \in due[k] \ sent'[k], open[s], s \in due[k] \ sent[k],
               \/ id[s] \in must'[k]
               \/ pc'[k] = "open" /\ id'[k] = id[s]
               \/ pc'[k] = "send" /\ s \in targets'[k]
        PROVE  Awaits(k, s)'
    <3>1. Awaits(k, s)
      BY <1>5, <2>2 DEF Owing
    <3> QED
      BY <1>2, <1>3, <2>1, <2>2, <3>1 DEF Awaits
  <2>3. ASSUME NEW s \in due[k] \ sent'[k], open[s]
        PROVE  /\ s \in due[k] \ sent[k]
               /\ \/ id[s] \in must'[k]
                  \/ pc'[k] = "open" /\ id'[k] = id[s]
                  \/ pc'[k] = "send" /\ s \in targets'[k]
    <3>1. ~EndSendAll(k)
      BY <1>5 DEF EndSendAll, Return, Sending
    <3>2. sent[k] \subseteq sent'[k]
      <4>1. CASE sent' = sent
        BY <4>1
      <4>2. CASE Send(k)
        BY <4>2 DEF Send
      <4> QED
        BY <1>5, <3>1, <4>1, <4>2 DEF Notify, Visit, RangeConns, EndSend
    <3>3. s \in due[k] \ sent[k]
      BY <2>3, <3>2
    <3>4. Awaits(k, s)
      BY <1>5, <2>3, <3>3 DEF Owing
    <3>5. CASE Visit(k)
      <4>1. PICK i \in must[k] :
              /\ must' = [must EXCEPT ![k] = @ \ {i}]
              /\ IF Matches(k, i)
                 THEN id' = [id EXCEPT ![k] = i] /\ Goto(k, "open")
                 ELSE UNCHANGED <<id, pc>>
        BY <3>5 DEF Visit
      <4>2. pc[k] = "range" /\ id[s] \in must[k]
        BY <3>4, <3>5 DEF Visit, Awaits
      <4>3. CASE id[s] = i
        <5>1. Matches(k, i)
          BY <3>4, <4>3 DEF Awaits, Matches
        <5> QED
          BY <3>3, <4>1, <4>3, <5>1
      <4> QED
        BY <3>3, <4>1, <4>2, <4>3
    <3>6. CASE RangeConns(k)
      <4>1. pc[k] = "open" /\ pc'[k] = "send" /\ must' = must
        BY <3>6 DEF RangeConns
      <4>2. CASE id[k] = id[s]
        <5>1. Live(s)
          BY <2>3, <3>4 DEF Live, Awaits
        <5>2. Registered(s)
          BY <4>1, <5>1, LiveFacts DEF Turn, Ending
        <5>3. s \in targets'[k]
          BY <3>6, <4>2, <5>2 DEF RangeConns, Registered
        <5> QED
          BY <3>3, <4>1, <5>3
      <4> QED
        BY <3>3, <3>4, <4>1, <4>2 DEF Awaits
    <3>7. CASE Send(k)
      <4>1. PICK r \in targets[k] :
              /\ targets' = [targets EXCEPT ![k] = @ \ {r}]
              /\ sent' = [sent EXCEPT ![k] = IF open[r] THEN @ \cup {r} ELSE @]
        BY <3>7 DEF Send
      <4>2. s # r
        BY <2>3, <4>1
      <4>3. pc[k] = "send" /\ pc' = pc /\ must' = must
        BY <3>7 DEF Send
      <4> QED
        BY <3>3, <3>4, <4>1, <4>2, <4>3 DEF Awaits
    <3>8. CASE EndSend(k)
      BY <3>3, <3>4, <3>8 DEF EndSend, Awaits
    <3> QED
      BY <1>5, <3>5, <3>6, <3>7, <3>8, <3>1 DEF Notify
  <2>4. Owing(k)'
    BY <1>2, <2>1, <2>2, <2>3 DEF Owing
  <2> QED
    BY <1>1, <2>4
<1>6. CASE pc'[k] \notin Sending
  BY <1>1, <1>6 DEF Owing
<1>7. pc[k] \in Sending \/ SendAll(k)
  BY DEF Notify, Visit, RangeConns, Send, EndSend, EndSendAll, Sending
<1> QED
  BY <1>4, <1>5, <1>6, <1>7

\* While nobody sends, nothing is owed.
LEMMA OtherAudience ==
    ASSUME AudienceInv, StreamInv', NEW h \in Handlers, Turn(h),
           Subscribe(h) \/ Save(h) \/ Reply(h) \/ Delete(h) \/ (Connect(h) /\ ~AtRest(h))
    PROVE  AudienceInv'
<1>1. pc'[h] \notin Sending
  <2>1. pc \in [Handlers -> Labels]
    BY DEF AudienceInv, StreamInv, FileInv, TypeOK
  <2> USE <2>1 DEF Goto, Continue, Return, locals, Sending
  <2>2. CASE Subscribe(h)
    BY <2>2 DEF Subscribe, Add, Make, Fill, StoreBroker
  <2>3. CASE Save(h)
    BY <2>3 DEF Save, ReadCounter, Marshal, Truncate, WriteFile, SaveFails, AfterSave
  <2>4. CASE Reply(h)
    BY <2>4 DEF Reply
  <2>5. CASE Delete(h)
    BY <2>5 DEF Delete, CheckDelete, Drop, DropConns, FindBroker, Close, DropBroker
  <2>6. CASE Connect(h) /\ ~AtRest(h)
    BY <2>6 DEF Connect, AtRest, Get, FindOwn, NewBroker, Attach, FindMap, NewMap, Register
  <2> QED
    BY <2>2, <2>3, <2>4, <2>5, <2>6
<1>2. \A k \in Handlers : pc'[k] \notin Sending
  BY <1>1 DEF Turn, OthersRest, Elsewhere, Resting, Sending
<1> QED
  BY <1>2 DEF AudienceInv, Owing

\* A stream that leaves is owed nothing.
LEMMA AtRestAudience ==
    ASSUME AudienceInv, StreamInv', NEW h \in Handlers, AtRest(h)
    PROVE  AudienceInv'
<1> USE DEF AudienceInv, StreamInv, FileInv, TypeOK, locals, memory, sending, Goto, Return
<1>1. subs' = subs /\ must' = must
  BY DEF AtRest, Disconnect, Leave
<1>2. ASSUME NEW k \in Handlers PROVE Owing(k)'
  <2>1. CASE Disconnect(h)
    <3>1. /\ UNCHANGED <<pc, id, want, must, targets, due, sent, subs>>
          /\ \A s \in Handlers : open'[s] => open[s]
      BY <2>1 DEF Disconnect
    <3> QED
      BY <3>1 DEF Owing, Awaits
  <2>2. CASE Leave(h)
    <3>1. /\ pc[h] = "wait" /\ pc'[h] = "idle"
          /\ \A s \in Handlers : s # h => pc'[s] = pc[s] /\ id'[s] = id[s] /\ want'[s] = want[s]
          /\ targets[k] \ {h} \subseteq targets'[k]
          /\ due'[k] = due[k] \ {h} /\ sent'[k] = sent[k] \ {h}
          /\ UNCHANGED <<open, must, subs>>
      BY <2>2 DEF Leave, streams
    <3>2. SUFFICES ASSUME pc'[k] \in Sending, NEW s \in due'[k] \ sent'[k], open[s]
                   PROVE  Awaits(k, s)'
      BY <3>1 DEF Owing
    <3>3. k # h /\ s # h /\ s \in Handlers
      BY <3>1, <3>2 DEF Sending
    <3>4. Awaits(k, s)
      BY <3>1, <3>2, <3>3 DEF Owing
    <3> QED
      BY <3>1, <3>3, <3>4 DEF Awaits
  <2> QED
    BY <2>1, <2>2 DEF AtRest
<1> QED
  BY <1>2

LEMMA AudienceStep ==
    ASSUME MaxBusy = 1, MaxEstablish < Width, AudienceInv, [Next]_vars
    PROVE  AudienceInv'
<1>1. StreamInv'
  BY StreamStep DEF AudienceInv
<1>2. CASE Next
  <2>1. ASSUME NEW h \in Handlers,
               \/ Subscribe(h) \/ Save(h) \/ Reply(h) \/ Delete(h) \/ Notify(h)
               \/ Connect(h) /\ ~AtRest(h)
        PROVE  AudienceInv'
    <3>1. Turn(h)
      BY <2>1, TurnFacts DEF AudienceInv, StreamInv, FileInv
    <3>2. CASE Notify(h)
      BY <1>1, <3>1, <3>2, NotifyAudience
    <3> QED
      BY <1>1, <2>1, <3>1, <3>2, OtherAudience
  <2>2. ASSUME NEW h \in Handlers, AtRest(h) PROVE AudienceInv'
    BY <1>1, <2>2, AtRestAudience
  <2>3. CASE Restart
    BY <1>1, <2>3 DEF Restart, AudienceInv, Owing, Sending
  <2> QED
    BY <1>2, <2>1, <2>2, <2>3 DEF Next
<1>3. CASE UNCHANGED vars
  BY <1>1, <1>3 DEF AudienceInv, Owing, Awaits, vars, memory, locals, streams, sending
<1> QED
  BY <1>2, <1>3

\* With one request at a time a notification reaches every stream that was
\* connected for its type when it started, unless it disconnected since:
\* lines 139-181 of SubscriptionCenter.go.
THEOREM AudienceIsServed ==
    ASSUME MaxBusy = 1, MaxEstablish < Width
    PROVE  Spec => AudienceServed
<1>1. Init => AudienceInv
  BY StreamInit DEF Init, AudienceInv, Owing, Sending
<1>2. AudienceInv /\ [Next]_vars => AudienceInv'
  BY AudienceStep
<1>3. ASSUME AudienceInv, [Next]_vars, NEW k \in Handlers,
             restarts' = restarts, pc[k] = "range", pc'[k] = "idle"
      PROVE  \A s \in due[k] \ sent[k] : ~open[s]
  <2> USE DEF AudienceInv, StreamInv, FileInv
  <2>1. PICK h \in Handlers :
          Subscribe(h) \/ Save(h) \/ Reply(h) \/ Delete(h) \/ Connect(h) \/ Notify(h)
    BY <1>3 DEF Next, Restart, vars, TypeOK
  <2>2. ~AtRest(h)
    BY <1>3 DEF AtRest, Disconnect, Leave, Goto, Return, TypeOK
  <2>3. h = k
    BY <1>3, <2>1, <2>2, TurnFacts DEF Turn, Elsewhere
  <2>4. EndSendAll(k)
    <3>1. ~Subscribe(k) /\ ~Save(k) /\ ~Reply(k) /\ ~Delete(k)
      BY <1>3 DEF Subscribe, Add, Make, Fill, StoreBroker, Save, ReadCounter, Marshal, Truncate,
         WriteFile, SaveFails, Reply, Delete, CheckDelete, Drop, DropConns, FindBroker, Close,
         DropBroker, Accept
    <3>2. ~Connect(k)
      BY <1>3, <2>2, <2>3 DEF Connect, AtRest, Get, FindOwn, NewBroker, Attach, FindMap, NewMap,
         Register, Accept
    <3>3. ~SendAll(k) /\ ~Visit(k) /\ ~RangeConns(k) /\ ~Send(k) /\ ~EndSend(k)
      BY <1>3 DEF SendAll, Visit, RangeConns, Send, EndSend, Accept, Goto, TypeOK
    <3> QED
      BY <2>1, <2>3, <3>1, <3>2, <3>3 DEF Notify
  <2>5. must[k] = {}
    BY <2>4 DEF EndSendAll
  <2> QED
    BY <1>3, <2>5 DEF Owing, Awaits, Sending
<1>4. AudienceInv /\ [Next]_vars =>
        \A k \in Handlers : restarts' = restarts /\ pc[k] = "range" /\ pc'[k] = "idle" =>
          \A s \in due[k] \ sent[k] : ~open[s]
  BY <1>3
<1> QED
  BY <1>1, <1>2, <1>4, PTL DEF Spec, AudienceServed

=============================================================================
