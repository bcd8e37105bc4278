---------------------- MODULE SubscriptionCenterProofs ----------------------
(***************************************************************************)
(* Theorems about SubscriptionCenter, for any number of goroutines, object *)
(* types and ids.  Type correctness holds without any condition.  The      *)
(* safety of overlapping requests is that of one life of the process in    *)
(* which the 32-bit counter does not wrap; IInv is its inductive form.     *)
(***************************************************************************)
EXTENDS CenterDescent, FiniteSetTheorems, TLAPS

\* The empty center is well typed.
LEMMA TypeInit == Init => TypeOK
<1> SUFFICES ASSUME Init PROVE TypeOK
  OBVIOUS
<1>1. 0 \in Ids
  BY CenterAssumption DEF Ids
<1>2. Blank \in DTO
  BY <1>1 DEF Blank, DTO, NoSubscriptions, SubscriptionMap
<1> QED
  BY <1>1, <1>2 DEF Init, TypeOK, NoSubscriptions, SubscriptionMap, Labels

\* The locals of the goroutines are well typed.
LocalsOK ==
    /\ pc \in [Handlers -> Labels]
    /\ op \in [Handlers -> {"none", "establish", "delete", "stream", "sendAll"}]
    /\ id \in [Handlers -> Ids]
    /\ want \in [Handlers -> SUBSET Types]
    /\ snap \in [Handlers -> DTO]

\* Every step keeps the types.
LEMMA TypeStep == TypeOK /\ [Next]_vars => TypeOK'
<1> SUFFICES ASSUME TypeOK, [Next]_vars PROVE TypeOK'
  OBVIOUS
<1> USE DEF TypeOK, memory, disk, locals, streams, sending, client, bounds, Labels, Accept, Goto, Continue, Return
<1>0. 0 \in Ids /\ (counter + 1) % Width \in Ids
  BY CenterAssumption DEF Ids
<1>blank. Blank \in DTO
  BY <1>0 DEF Blank, DTO, NoSubscriptions, SubscriptionMap
<1>continue. ASSUME NEW h \in Handlers, NEW l \in Labels, Continue(h, l) PROVE LocalsOK'
  BY <1>continue DEF LocalsOK
<1>return. ASSUME NEW h \in Handlers, Return(h) PROVE LocalsOK'
  BY <1>return, <1>0, <1>blank DEF LocalsOK
<1>1. ASSUME NEW h \in Handlers, Add(h) PROVE TypeOK'
  BY <1>1, <1>0, <1>blank DEF Add, SubscriptionMap, DTO
<1>2. ASSUME NEW h \in Handlers, Make(h) PROVE TypeOK'
  <2>1. must' \in [Handlers -> SUBSET Ids]
    <3>1. CASE UNCHANGED must
      BY <3>1
    <3>2. ASSUME NEW K \in SUBSET Notifying,
                 must' = [k \in Handlers |-> IF k \in K THEN must[k] \cup {id[h]} ELSE must[k] \ {id[h]}]
          PROVE  must' \in [Handlers -> SUBSET Ids]
      BY <3>2
    <3> QED
      BY <1>2, <3>1, <3>2 DEF Make
  <2>2. subs' \in SubscriptionMap /\ pc' \in [Handlers -> Labels]
    BY <1>2 DEF Make, SubscriptionMap
  <2> QED
    BY <1>2, <2>1, <2>2 DEF Make
<1>3. ASSUME NEW h \in Handlers, Fill(h) PROVE TypeOK'
  <2>1. subs' \in SubscriptionMap
    BY <1>3 DEF Fill, SubscriptionMap
  <2>2. LocalsOK'
    <3>1. CASE UNCHANGED <<pc, locals>>
      BY <3>1 DEF LocalsOK
    <3> HIDE DEF TypeOK, locals, Return, Continue
    <3> QED
      BY <1>3, <3>1, <1>continue, <1>return DEF Fill
  <2> QED
    BY <1>3, <2>1, <2>2 DEF Fill, LocalsOK
<1>4. ASSUME NEW h \in Handlers, StoreBroker(h) PROVE TypeOK'
  BY <1>4, <1>0, <1>blank DEF StoreBroker, SubscriptionMap, DTO
<1>5. ASSUME NEW h \in Handlers, ReadCounter(h) PROVE TypeOK'
  <2>1. pc' \in [Handlers -> Labels]
    BY <1>5 DEF ReadCounter
  <2>2. [snap[h] EXCEPT !.counter = counter] \in DTO
    <3>1. snap[h] \in DTO /\ counter \in Ids
      OBVIOUS
    <3> HIDE DEF TypeOK
    <3> QED
      BY <3>1 DEF DTO
  <2>3. snap' \in [Handlers -> DTO]
    BY <1>5, <2>2 DEF ReadCounter
  <2> QED
    BY <1>5, <2>1, <2>3 DEF ReadCounter
<1>6. ASSUME NEW h \in Handlers, Marshal(h) PROVE TypeOK'
  BY <1>6, <1>0, <1>blank DEF Marshal, SubscriptionMap, DTO
<1>7. ASSUME NEW h \in Handlers, Truncate(h) PROVE TypeOK'
  BY <1>7, <1>0, <1>blank DEF Truncate, SubscriptionMap, DTO
<1>8. ASSUME NEW h \in Handlers, WriteFile(h) PROVE TypeOK'
  <2>1. file' \in {Nil, Torn} \cup DTO
    BY <1>8 DEF WriteFile
  <2>2. /\ pc' \in [Handlers -> Labels] /\ snap' \in [Handlers -> DTO]
    BY <1>8, <1>blank DEF WriteFile, AfterSave
  <2> QED
    BY <1>8, <2>1, <2>2 DEF WriteFile, AfterSave
<1>9. ASSUME NEW h \in Handlers, SaveFails(h) PROVE TypeOK'
  BY <1>9, <1>0, <1>blank DEF SaveFails, AfterSave, SubscriptionMap, DTO
<1>10. ASSUME NEW h \in Handlers, Reply(h) PROVE TypeOK'
  BY <1>10, <1>0, <1>blank DEF Reply, SubscriptionMap, DTO
<1>11. ASSUME NEW h \in Handlers, CheckDelete(h) PROVE TypeOK'
  BY <1>11, <1>0, <1>blank DEF CheckDelete, SubscriptionMap, DTO
<1>12. ASSUME NEW h \in Handlers, Drop(h) PROVE TypeOK'
  BY <1>12, <1>0, <1>blank DEF Drop, SubscriptionMap, DTO
<1>13. ASSUME NEW h \in Handlers, DropConns(h) PROVE TypeOK'
  BY <1>13, <1>0, <1>blank DEF DropConns, SubscriptionMap, DTO
<1>14. ASSUME NEW h \in Handlers, FindBroker(h) PROVE TypeOK'
  BY <1>14, <1>0, <1>blank DEF FindBroker, SubscriptionMap, DTO
<1>15. ASSUME NEW h \in Handlers, Close(h) PROVE TypeOK'
  <2>1. open' \in [Handlers -> BOOLEAN] /\ home' \in [Handlers -> BOOLEAN]
    <3>1. CASE UNCHANGED streams
      BY <3>1
    <3>2. CASE /\ open' = [s \in Handlers |-> open[s] /\ s \notin Sessions(id[h])]
               /\ home' = [s \in Handlers |-> home[s] /\ s \notin Sessions(id[h])]
      <4> HIDE DEF TypeOK
      <4> QED
        BY <3>2
    <3> HIDE DEF TypeOK, streams, Return, Continue
    <3> QED
      BY <1>15, <3>1, <3>2 DEF Close
  <2>2. LocalsOK'
    <3> HIDE DEF TypeOK, Return, Continue
    <3> QED
      BY <1>15, <1>continue, <1>return DEF Close
  <2> QED
    BY <1>15, <2>1, <2>2 DEF Close, LocalsOK
<1>16. ASSUME NEW h \in Handlers, DropBroker(h) PROVE TypeOK'
  BY <1>16, <1>0, <1>blank DEF DropBroker, SubscriptionMap, DTO
<1>17. ASSUME NEW h \in Handlers, Get(h) PROVE TypeOK'
  BY <1>17, <1>0, <1>blank DEF Get, SubscriptionMap, DTO
<1>18. ASSUME NEW h \in Handlers, FindOwn(h) PROVE TypeOK'
  BY <1>18, <1>0, <1>blank DEF FindOwn, SubscriptionMap, DTO
<1>19. ASSUME NEW h \in Handlers, NewBroker(h) PROVE TypeOK'
  BY <1>19, <1>0, <1>blank DEF NewBroker, SubscriptionMap, DTO
<1>20. ASSUME NEW h \in Handlers, Attach(h) PROVE TypeOK'
  <2>1. open' \in [Handlers -> BOOLEAN] /\ home' \in [Handlers -> BOOLEAN]
    <3>1. CASE UNCHANGED streams
      BY <3>1
    <3>2. CASE open' = [open EXCEPT ![h] = TRUE] /\ home' = [home EXCEPT ![h] = TRUE]
      BY <3>2
    <3> HIDE DEF TypeOK, streams, Return, Continue
    <3> QED
      BY <1>20, <3>1, <3>2 DEF Attach
  <2>2. LocalsOK'
    <3> HIDE DEF Return, Continue, Goto
    <3> QED
      BY <1>20, <1>continue, <1>return DEF Attach
  <2> QED
    BY <1>20, <2>1, <2>2 DEF Attach, LocalsOK
<1>21. ASSUME NEW h \in Handlers, FindMap(h) PROVE TypeOK'
  BY <1>21, <1>0, <1>blank DEF FindMap, SubscriptionMap, DTO
<1>22. ASSUME NEW h \in Handlers, NewMap(h) PROVE TypeOK'
  BY <1>22, <1>0, <1>blank DEF NewMap, SubscriptionMap, DTO
<1>23. ASSUME NEW h \in Handlers, Register(h) PROVE TypeOK'
  <2>1. open' \in [Handlers -> BOOLEAN] /\ home' \in [Handlers -> BOOLEAN]
    <3>1. CASE UNCHANGED streams
      BY <3>1
    <3>2. CASE open' = [open EXCEPT ![h] = FALSE] /\ home' = [home EXCEPT ![h] = FALSE]
      BY <3>2
    <3> HIDE DEF TypeOK, streams, Return, Continue
    <3> QED
      BY <1>23, <3>1, <3>2 DEF Register
  <2>2. conns' \in [Ids -> {Nil} \cup SUBSET Handlers]
    <3>1. CASE UNCHANGED conns
      BY <3>1
    <3>2. CASE conns[id[h]] # Nil /\ conns' = [conns EXCEPT ![id[h]] = conns[id[h]] \cup {h}]
      BY <3>2
    <3> QED
      BY <1>23, <3>1, <3>2 DEF Register
  <2>3. LocalsOK'
    <3> HIDE DEF Return, Continue, Goto
    <3> QED
      BY <1>23, <1>continue, <1>return DEF Register
  <2>4. targets' \in [Handlers -> SUBSET Handlers]
    <3>1. CASE UNCHANGED targets
      BY <3>1
    <3>2. ASSUME NEW K \in SUBSET Over(id[h]),
                 targets' = [k \in Handlers |-> IF k \in K THEN targets[k] \cup {h} ELSE targets[k]]
          PROVE  targets' \in [Handlers -> SUBSET Handlers]
      BY <3>2
    <3> QED
      BY <1>23, <3>1, <3>2 DEF Register
  <2> QED
    BY <1>23, <2>1, <2>2, <2>3, <2>4 DEF Register, LocalsOK
<1>24. ASSUME NEW h \in Handlers, Disconnect(h) PROVE TypeOK'
  BY <1>24, <1>0, <1>blank DEF Disconnect, SubscriptionMap, DTO
<1>25. ASSUME NEW h \in Handlers, Leave(h) PROVE TypeOK'
  BY <1>25, <1>0, <1>blank DEF Leave, SubscriptionMap, DTO
<1>26. ASSUME NEW h \in Handlers, SendAll(h) PROVE TypeOK'
  BY <1>26, <1>0, <1>blank DEF SendAll, Audience, SubscriptionMap, DTO
<1>27. ASSUME NEW h \in Handlers, Visit(h) PROVE TypeOK'
  <2>1. PICK i \in must[h] :
          /\ must' = [must EXCEPT ![h] = @ \ {i}]
          /\ \/ id' = [id EXCEPT ![h] = i] /\ Goto(h, "open")
             \/ UNCHANGED <<id, pc>>
    BY <1>27 DEF Visit
  <2>2. must' \in [Handlers -> SUBSET Ids]
    BY <2>1
  <2>3. id' \in [Handlers -> Ids]
    BY <2>1
  <2>4. pc' \in [Handlers -> Labels]
    BY <2>1
  <2> QED
    BY <1>27, <2>2, <2>3, <2>4 DEF Visit
<1>28. ASSUME NEW h \in Handlers, RangeConns(h) PROVE TypeOK'
  <2>1. targets' \in [Handlers -> SUBSET Handlers] /\ ranging' \subseteq Handlers
    <3>1. CASE conns[id[h]] = Nil
      BY <1>28, <3>1 DEF RangeConns
    <3>2. CASE conns[id[h]] # Nil
      BY <1>28, <3>2 DEF RangeConns
    <3> QED
      BY <3>1, <3>2
  <2>2. pc' \in [Handlers -> Labels]
    BY <1>28 DEF RangeConns
  <2> QED
    BY <1>28, <2>1, <2>2 DEF RangeConns
<1>29. ASSUME NEW h \in Handlers, Send(h) PROVE TypeOK'
  BY <1>29, <1>0, <1>blank DEF Send, SubscriptionMap, DTO
<1>30. ASSUME NEW h \in Handlers, EndSend(h) PROVE TypeOK'
  BY <1>30, <1>0, <1>blank DEF EndSend, SubscriptionMap, DTO
<1>31. ASSUME NEW h \in Handlers, EndSendAll(h) PROVE TypeOK'
  BY <1>31, <1>0, <1>blank DEF EndSendAll, SubscriptionMap, DTO
<1>32. CASE Restart
  <2>1. Loaded \in DTO
    BY <1>blank DEF Loaded, Readable
  <2>2. counter' \in Ids /\ subs' \in SubscriptionMap
    BY <1>32, <2>1 DEF Restart, DTO
  <2>3. life' \in [Ids -> {"free", "asked", "held", "leaving", "gone"}]
    BY <1>32 DEF Restart
  <2>4. requested' \in [Ids -> SUBSET Types]
    BY <1>32, <2>1 DEF Restart, DTO, SubscriptionMap
  <2>5. LocalsOK'
    BY <1>32, <1>0, <1>blank DEF Restart, LocalsOK
  <2>6. /\ brokers' \subseteq Ids
        /\ conns' \in [Ids -> {Nil} \cup SUBSET Handlers]
        /\ restarts' \in Nat
    BY <1>32 DEF Restart
  <2>7. /\ open' \in [Handlers -> BOOLEAN] /\ home' \in [Handlers -> BOOLEAN]
        /\ must' \in [Handlers -> SUBSET Ids] /\ targets' \in [Handlers -> SUBSET Handlers]
        /\ ranging' \subseteq Handlers
        /\ due' \in [Handlers -> SUBSET Handlers] /\ sent' \in [Handlers -> SUBSET Handlers]
    BY <1>32 DEF Restart
  <2>8. file' = file /\ established' = established /\ faults' = faults /\ stale' = FALSE
    BY <1>32 DEF Restart
  <2> QED
    BY <2>2, <2>3, <2>4, <2>5, <2>6, <2>7, <2>8 DEF LocalsOK
<1>33. CASE UNCHANGED vars
  BY <1>33 DEF vars
<1> QED
  BY <1>1, <1>2, <1>3, <1>4, <1>5, <1>6, <1>7, <1>8, <1>9, <1>10, <1>11, <1>12, <1>13, <1>14, <1>15,
     <1>16, <1>17, <1>18, <1>19, <1>20, <1>21, <1>22, <1>23, <1>24, <1>25, <1>26, <1>27, <1>28,
     <1>29, <1>30, <1>31, <1>32, <1>33 DEF Next, Subscribe, Save, Delete, Connect, Notify

\* The variables of the center and of its goroutines keep their types, whatever
\* overlaps, fails or restarts.
THEOREM TypeCorrect == Spec => []TypeOK
  BY TypeInit, TypeStep, PTL DEF Spec

-----------------------------------------------------------------------------
(* The safety of overlapping requests, for any number of goroutines, types   *)
(* and ids: within one life of the process and as long as the counter does  *)
(* not wrap around.                                                         *)

Establishing == {"make", "fill", "readCounter", "marshal", "truncate", "write", "broker", "reply"}

Deleting ==
    {"drop", "dropConns", "findBroker", "close", "dropBroker",
     "readCounter", "marshal", "truncate", "write", "reply"}

Streaming == {"findOwn", "newBroker", "attach", "findMap", "newMap", "register", "wait"}

Sending == {"range", "open", "send"}

\* A goroutine is inside the operation it was started for.
InOperation == \A h \in Handlers :
    /\ op[h] = "none" => pc[h] = "idle"
    /\ op[h] = "establish" => pc[h] \in Establishing
    /\ op[h] = "delete" => pc[h] \in Deleting
    /\ op[h] = "stream" => pc[h] \in Streaming
    /\ op[h] = "sendAll" => pc[h] \in Sending

\* The counter is the number of ids drawn, and the ids above it are unused.
Drawn ==
    /\ restarts = 0
    /\ counter = established
    /\ established <= MaxEstablish
    /\ \A i \in Ids : i > counter => life[i] = "free"

\* Nobody shares an id being established. It differs from what is held, and
\* nobody deletes it before its slice is made.
OwnId == \A g, h \in Handlers :
    op[g] = "establish" /\ op[h] = "establish" /\ id[g] = id[h] => g = h

NotDeletedYet == \A g, h \in Handlers :
    pc[h] = "make" /\ op[g] = "delete" => id[g] # id[h]

Asked == \A h \in Handlers : op[h] = "establish" =>
    /\ life[id[h]] \notin {"free", "held"}
    /\ want[h] = requested[id[h]]
    /\ pc[h] = "make" => life[id[h]] = "asked" /\ subs[id[h]] = Nil
    /\ pc[h] # "make" /\ life[id[h]] = "asked" => subs[id[h]] # Nil

Exclusive == OwnId /\ NotDeletedYet /\ Asked

\* An entry is in the map from the making of its slice to its deletion.
InMap == \A i \in Ids : subs[i] # Nil => life[i] \in {"asked", "held"}

HeldInMap == \A i \in Ids : life[i] = "held" => subs[i] # Nil

LeavingOnly == \A h \in Handlers : op[h] = "delete" =>
    /\ life[id[h]] # "free"
    /\ pc[h] # "drop" => life[id[h]] \in {"leaving", "gone"}

Lives == InMap /\ HeldInMap /\ LeavingOnly

\* Only an establish that is filling its slice has less than was asked for.
Filled == \A i \in Ids : subs[i] # Nil =>
    /\ subs[i] \subseteq requested[i]
    /\ \/ subs[i] = requested[i]
       \/ \E h \in Handlers : pc[h] = "fill" /\ op[h] = "establish" /\ id[h] = i

\* The streams in connMap wait under their own id, those in a loop of Send do so
\* too or have ended, and SendAll is at a subscription that asked for the type.
ConnsAddressed == \A i \in Ids : conns[i] # Nil =>
    \A s \in conns[i] : pc[s] = "wait" /\ id[s] = i

TargetsAddressed == \A k, s \in Handlers : s \in targets[k] =>
    /\ pc[k] = "send"
    /\ \/ pc[s] = "wait" /\ id[s] = id[k]
       \/ pc[s] = "idle" /\ ~open[s]

LoopsSend == \A k \in ranging : pc[k] = "send"

TypeAddressed == \A k \in Handlers : pc[k] \in {"open", "send"} =>
    life[id[k]] # "free" /\ want[k] \subseteq requested[id[k]]

Addressed == ConnsAddressed /\ TypeAddressed

Looping == TargetsAddressed /\ LoopsSend

IInv == TypeOK /\ InOperation /\ Drawn /\ Exclusive /\ Lives /\ Filled /\ Addressed /\ Looping

\* What the program counter says of the operation.
LEMMA Roles ==
  ASSUME TypeOK, InOperation, NEW h \in Handlers
  PROVE  /\ pc[h] = "idle" => op[h] = "none"
         /\ pc[h] \in {"make", "fill", "broker"} => op[h] = "establish"
         /\ pc[h] \in {"drop", "dropConns", "findBroker", "close", "dropBroker"} => op[h] = "delete"
         /\ pc[h] \in {"readCounter", "marshal", "truncate", "write", "reply"} =>
              op[h] \in {"establish", "delete"}
         /\ pc[h] \in Streaming => op[h] = "stream"
         /\ pc[h] \in Sending => op[h] = "sendAll"
  BY DEF TypeOK, InOperation, Establishing, Deleting, Streaming, Sending

\* The other goroutines keep their locals when one of them moves.
Elsewhere(h) == \A g \in Handlers : g # h =>
    pc'[g] = pc[g] /\ op'[g] = op[g] /\ id'[g] = id[g] /\ want'[g] = want[g]

\* The counter does not wrap below Width.
LEMMA ModSmall == ASSUME NEW a \in Nat, NEW b \in Nat, a < b PROVE a % b = a
  OBVIOUS

\* An establish draws an id that nobody uses.
LEMMA AddFacts ==
  ASSUME IInv, NEW h \in Handlers, Add(h), MaxRestarts = 0, MaxEstablish < Width
  PROVE  /\ Elsewhere(h)
         /\ counter' = counter + 1 /\ counter' \in Ids
         /\ established' = established + 1 /\ established' <= MaxEstablish
         /\ life[counter'] = "free" /\ subs[counter'] = Nil
         /\ op[h] = "none" /\ op'[h] = "establish" /\ pc'[h] = "make" /\ id'[h] = counter'
         /\ want'[h] = requested'[counter'] /\ life'[counter'] = "asked"
         /\ \A i \in Ids : i # counter' => life'[i] = life[i] /\ requested'[i] = requested[i]
         /\ UNCHANGED <<subs, conns, targets, restarts>>
<1> USE DEF IInv, TypeOK, Add, Accept, Goto
<1>1. counter + 1 < Width /\ counter + 1 \in Nat
  BY CenterAssumption DEF Drawn, Ids
<1>2. (counter + 1) % Width = counter + 1
  BY <1>1, ModSmall, CenterAssumption
<1>3. counter' = counter + 1 /\ counter' \in Ids
  <2>1. counter + 1 \in 0 .. Width - 1
    BY <1>1, CenterAssumption
  <2> QED
    BY <1>2, <2>1 DEF Ids
<1>4. life[counter'] = "free" /\ subs[counter'] = Nil
  <2>1. counter' > counter
    BY <1>1, <1>3 DEF Ids
  <2> QED
    BY <1>3, <2>1 DEF Drawn, Lives, InMap
<1>5. established' = established + 1 /\ established' <= MaxEstablish
  BY CenterAssumption
<1>6. op[h] = "none"
  BY Roles
<1>7. Elsewhere(h)
  BY DEF Elsewhere
<1>8. op'[h] = "establish" /\ pc'[h] = "make" /\ id'[h] = counter'
  BY <1>3
<1>9. want'[h] = requested'[counter'] /\ life'[counter'] = "asked"
  BY <1>3
<1>10. \A i \in Ids : i # counter' => life'[i] = life[i] /\ requested'[i] = requested[i]
  BY <1>3
<1>11. UNCHANGED <<subs, conns, targets, restarts>>
  BY DEF sending, bounds
<1> QED
  BY <1>3, <1>4, <1>5, <1>6, <1>7, <1>8, <1>9, <1>10, <1>11

\* The slice of a drawn id is made where there was nothing.
LEMMA MakeFacts ==
  ASSUME IInv, NEW h \in Handlers, Make(h)
  PROVE  /\ Elsewhere(h)
         /\ pc[h] = "make" /\ pc'[h] = "fill" /\ op[h] = "establish"
         /\ op' = op /\ id' = id /\ want' = want
         /\ life[id[h]] = "asked" /\ id[h] \in Ids
         /\ subs'[id[h]] = {} /\ {} # Nil
         /\ \A i \in Ids : i # id[h] => subs'[i] = subs[i]
         /\ UNCHANGED <<life, requested>>
<1>1. op[h] = "establish" /\ id[h] \in Ids
  BY Roles DEF IInv, TypeOK, Make
<1>2. life[id[h]] = "asked"
  BY <1>1 DEF IInv, Exclusive, Asked, Make
<1>3. subs'[id[h]] = {} /\ \A i \in Ids : i # id[h] => subs'[i] = subs[i]
  BY <1>1 DEF IInv, TypeOK, Make, SubscriptionMap
<1>4. {} # Nil
  BY NilAssumption
<1> QED
  BY <1>1, <1>2, <1>3, <1>4
  DEF IInv, TypeOK, Make, Continue, Goto, locals, client, Elsewhere

\* A slice grows only within what was asked for, and is left when complete.
LEMMA FillFacts ==
  ASSUME IInv, NEW h \in Handlers, Fill(h)
  PROVE  /\ Elsewhere(h)
         /\ pc[h] = "fill" /\ op[h] = "establish" /\ id[h] \in Ids
         /\ want[h] = requested[id[h]]
         /\ \A i \in Ids : subs'[i] = Nil <=> subs[i] = Nil
         /\ \A i \in Ids : i # id[h] => subs'[i] = subs[i]
         /\ subs[id[h]] # Nil => subs'[id[h]] \subseteq requested[id[h]]
         /\ \/ pc' = pc /\ op' = op /\ id' = id /\ want' = want
            \/ /\ pc'[h] = "readCounter" /\ op' = op /\ id' = id /\ want' = want
               /\ subs[id[h]] # Nil => subs'[id[h]] = requested[id[h]]
            \/ pc'[h] = "idle" /\ op'[h] = "none" /\ subs[id[h]] = Nil
         /\ UNCHANGED <<life, requested>>
<1>1. pc[h] = "fill" /\ op[h] = "establish" /\ id[h] \in Ids /\ UNCHANGED <<life, requested>>
  BY Roles DEF IInv, TypeOK, Fill, client
<1>2. want[h] = requested[id[h]]
  BY <1>1 DEF IInv, Exclusive, Asked
<1>3. subs[id[h]] # Nil => subs[id[h]] \subseteq requested[id[h]]
  BY <1>1 DEF IInv, Filled
<1>4. CASE subs[id[h]] = Nil /\ want[h] # {} /\ Return(h) /\ UNCHANGED subs
  BY <1>1, <1>2, <1>3, <1>4 DEF IInv, TypeOK, Return, Goto, Elsewhere
<1>5. CASE /\ subs[id[h]] # Nil
           /\ \E t \in want[h] \ subs[id[h]] :
                subs' = [subs EXCEPT ![id[h]] = subs[id[h]] \cup {t}]
           /\ UNCHANGED <<pc, locals>>
  <2>1. PICK t \in want[h] : subs' = [subs EXCEPT ![id[h]] = subs[id[h]] \cup {t}]
    BY <1>5
  <2>2. subs \in [Ids -> {Nil} \cup SUBSET Types]
    BY DEF IInv, TypeOK, SubscriptionMap
  <2>3. subs'[id[h]] = subs[id[h]] \cup {t} /\ \A i \in Ids : i # id[h] => subs'[i] = subs[i]
    BY <1>1, <2>1, <2>2
  <2>4. subs[id[h]] \cup {t} # Nil
    <3>1. subs[id[h]] \in SUBSET Types /\ t \in Types
      BY <1>1, <1>5, <2>1, <2>2 DEF IInv, TypeOK
    <3> QED
      BY <3>1, NilAssumption
  <2> QED
    BY <1>1, <1>2, <1>3, <1>5, <2>1, <2>3, <2>4 DEF locals, Elsewhere
<1>6. CASE /\ want[h] = {} \/ (subs[id[h]] # Nil /\ want[h] \subseteq subs[id[h]])
           /\ Continue(h, "readCounter")
           /\ UNCHANGED subs
  BY <1>1, <1>2, <1>3, <1>6 DEF IInv, TypeOK, Continue, Goto, locals, Elsewhere
<1> QED
  BY <1>4, <1>5, <1>6 DEF Fill

\* The client learns its id, or that the subscription is deleted.
LEMMA ReplyFacts ==
  ASSUME IInv, NEW h \in Handlers, Reply(h)
  PROVE  /\ Elsewhere(h)
         /\ pc'[h] = "idle" /\ op'[h] = "none" /\ id[h] \in Ids
         /\ pc[h] = "reply" /\ op[h] \in {"establish", "delete"}
         /\ \A i \in Ids : i # id[h] => life'[i] = life[i]
         /\ life'[id[h]] = IF op[h] = "delete" THEN "gone"
                           ELSE IF life[id[h]] = "asked" THEN "held" ELSE life[id[h]]
         /\ UNCHANGED <<subs, requested, conns, targets>>
<1>1. op[h] \in {"establish", "delete"} /\ pc[h] = "reply" /\ id[h] \in Ids
  BY Roles DEF IInv, TypeOK, Reply
<1>2. Elsewhere(h) /\ pc'[h] = "idle" /\ op'[h] = "none"
  BY DEF IInv, TypeOK, Reply, Return, Goto, Elsewhere
<1>3. /\ \A i \in Ids : i # id[h] => life'[i] = life[i]
      /\ life'[id[h]] = IF op[h] = "delete" THEN "gone"
                        ELSE IF life[id[h]] = "asked" THEN "held" ELSE life[id[h]]
  BY <1>1 DEF IInv, TypeOK, Reply
<1> QED
  BY <1>1, <1>2, <1>3 DEF Reply, memory, sending, client

\* Every other step, for what is known of ids and subscriptions: it is taken
\* outside the making, filling and dropping of an entry, and an establish or
\* a delete keeps its locals or ends.
Aside(h) ==
    /\ Elsewhere(h)
    /\ UNCHANGED <<counter, subs, life, requested, established, restarts>>
    /\ pc[h] \notin {"make", "fill", "drop"} /\ pc'[h] \notin {"make", "fill", "drop"}
    /\ \/ op'[h] = op[h] /\ id'[h] = id[h] /\ want'[h] = want[h]
       \/ op'[h] \notin {"establish", "delete"}

\* The actions other than those that draw, make, fill, answer, check or drop.
AsideAction(h) ==
    \/ StoreBroker(h) \/ ReadCounter(h) \/ Marshal(h) \/ Truncate(h)
    \/ WriteFile(h) \/ SaveFails(h) \/ DropConns(h) \/ FindBroker(h)
    \/ Close(h) \/ DropBroker(h) \/ Get(h) \/ FindOwn(h)
    \/ NewBroker(h) \/ Attach(h) \/ FindMap(h) \/ NewMap(h)
    \/ Register(h) \/ Disconnect(h) \/ Leave(h) \/ SendAll(h)
    \/ Visit(h) \/ RangeConns(h) \/ Send(h) \/ EndSend(h)
    \/ EndSendAll(h)

\* All those steps are indeed aside.
LEMMA AsideStep ==
  ASSUME TypeOK, InOperation, NEW h \in Handlers, AsideAction(h)
  PROVE  Aside(h)
<1> USE Roles DEF TypeOK, InOperation, Aside, Elsewhere, memory, disk, locals, streams, sending,
         client, bounds, Accept, Goto, Continue, Return, Streaming, Sending
<1>1. CASE StoreBroker(h)
  BY <1>1 DEF StoreBroker
<1>2. CASE ReadCounter(h)
  BY <1>2 DEF ReadCounter
<1>3. CASE Marshal(h)
  BY <1>3 DEF Marshal
<1>4. CASE Truncate(h)
  BY <1>4 DEF Truncate
<1>5. CASE WriteFile(h)
  BY <1>5 DEF WriteFile, AfterSave
<1>6. CASE SaveFails(h)
  BY <1>6 DEF SaveFails, AfterSave
<1>7. CASE DropConns(h)
  BY <1>7 DEF DropConns
<1>8. CASE FindBroker(h)
  BY <1>8 DEF FindBroker
<1>9. CASE Close(h)
  BY <1>9 DEF Close
<1>10. CASE DropBroker(h)
  BY <1>10 DEF DropBroker
<1>11. CASE Get(h)
  BY <1>11 DEF Get
<1>12. CASE FindOwn(h)
  BY <1>12 DEF FindOwn
<1>13. CASE NewBroker(h)
  BY <1>13 DEF NewBroker
<1>14. CASE Attach(h)
  BY <1>14 DEF Attach
<1>15. CASE FindMap(h)
  BY <1>15 DEF FindMap
<1>16. CASE NewMap(h)
  BY <1>16 DEF NewMap
<1>17. CASE Register(h)
  BY <1>17 DEF Register
<1>18. CASE Disconnect(h)
  BY <1>18 DEF Disconnect
<1>19. CASE Leave(h)
  BY <1>19 DEF Leave
<1>20. CASE SendAll(h)
  BY <1>20 DEF SendAll
<1>21. CASE Visit(h)
  BY <1>21 DEF Visit
<1>22. CASE RangeConns(h)
  BY <1>22 DEF RangeConns
<1>23. CASE Send(h)
  BY <1>23 DEF Send
<1>24. CASE EndSend(h)
  BY <1>24 DEF EndSend
<1>25. CASE EndSendAll(h)
  BY <1>25 DEF EndSendAll
<1> HIDE DEF TypeOK, Aside
<1> QED
  BY <1>1, <1>2, <1>3, <1>4, <1>5, <1>6, <1>7, <1>8, <1>9, <1>10, <1>11, <1>12, <1>13, <1>14, <1>15,
     <1>16, <1>17, <1>18, <1>19, <1>20, <1>21, <1>22, <1>23, <1>24, <1>25 DEF AsideAction

\* The case split of the following lemmas.
LEMMA NextCases ==
  ASSUME Next
  PROVE  \/ \E h \in Handlers : \/ Add(h) \/ Make(h) \/ Fill(h) \/ Reply(h)
                               \/ CheckDelete(h) \/ Drop(h) \/ AsideAction(h)
         \/ Restart
  BY DEF Next, Subscribe, Save, Delete, Connect, Notify, AsideAction

\* The ids above the counter stay unused.
LEMMA DrawnStep ==
  ASSUME IInv, Next, MaxRestarts = 0, MaxEstablish < Width
  PROVE  Drawn'
<1>1. ASSUME NEW h \in Handlers, Add(h) PROVE Drawn'
  <2>1. \A i \in Ids : i > counter' => i # counter' /\ i > counter
    BY <1>1, AddFacts DEF Ids, IInv, TypeOK
  <2> QED
    BY <1>1, <2>1, AddFacts DEF IInv, Drawn
<1>2. ASSUME NEW h \in Handlers, Make(h) \/ Fill(h) PROVE Drawn'
  BY <1>2, MakeFacts, FillFacts DEF IInv, Drawn, Make, Fill, bounds
<1>3. ASSUME NEW h \in Handlers, Reply(h) PROVE Drawn'
  <2>1. life[id[h]] # "free"
    BY <1>3, ReplyFacts DEF IInv, Exclusive, Asked, Lives, LeavingOnly
  <2>2. UNCHANGED <<counter, established, restarts>>
    BY <1>3 DEF Reply, memory, bounds
  <2> QED
    BY <1>3, <2>1, <2>2, ReplyFacts DEF IInv, Drawn
<1>4. ASSUME NEW h \in Handlers, CheckDelete(h) PROVE Drawn'
  BY <1>4 DEF IInv, Drawn, CheckDelete, memory, client, bounds
<1>5. ASSUME NEW h \in Handlers, Drop(h) PROVE Drawn'
  <2>1. op[h] = "delete" /\ id[h] \in Ids
    BY <1>5, Roles DEF IInv, TypeOK, Drop
  <2>2. life[id[h]] # "free"
    BY <2>1 DEF IInv, Lives, LeavingOnly
  <2>3. \A i \in Ids : i # id[h] => life'[i] = life[i]
    BY <1>5 DEF Drop, IInv, TypeOK
  <2>4. UNCHANGED <<counter, established, restarts>>
    BY <1>5 DEF Drop, bounds
  <2> QED
    BY <2>1, <2>2, <2>3, <2>4 DEF IInv, Drawn
<1>6. ASSUME NEW h \in Handlers, AsideAction(h) PROVE Drawn'
  BY <1>6, AsideStep DEF IInv, Drawn, Aside
<1>7. ~Restart
  BY DEF Restart, IInv, Drawn
<1> QED
  BY <1>1, <1>2, <1>3, <1>4, <1>5, <1>6, <1>7, NextCases

\* A deletion starts on an id that is in the map.
LEMMA CheckDeleteFacts ==
  ASSUME IInv, NEW h \in Handlers, CheckDelete(h)
  PROVE  /\ Elsewhere(h)
         /\ op'[h] = "delete" /\ pc'[h] = "drop"
         /\ id'[h] \in Ids /\ subs[id'[h]] # Nil
         /\ UNCHANGED <<subs, life, requested>>
  BY DEF IInv, TypeOK, CheckDelete, Elsewhere, Goto, memory, client

\* The entry leaves the map.
LEMMA DropFacts ==
  ASSUME IInv, NEW h \in Handlers, Drop(h)
  PROVE  /\ Elsewhere(h)
         /\ op[h] = "delete" /\ pc[h] = "drop" /\ pc'[h] = "dropConns"
         /\ op' = op /\ id' = id /\ want' = want /\ id[h] \in Ids
         /\ subs'[id[h]] = Nil /\ life'[id[h]] \in {"leaving", "gone"}
         /\ \A i \in Ids : i # id[h] => subs'[i] = subs[i] /\ life'[i] = life[i]
         /\ UNCHANGED requested
<1>1. op[h] = "delete" /\ id[h] \in Ids
  BY Roles DEF IInv, TypeOK, Drop
<1>2. /\ subs'[id[h]] = Nil /\ life'[id[h]] \in {"leaving", "gone"}
      /\ \A i \in Ids : i # id[h] => subs'[i] = subs[i] /\ life'[i] = life[i]
  BY <1>1 DEF IInv, TypeOK, Drop, SubscriptionMap
<1> QED
  BY <1>1, <1>2 DEF IInv, TypeOK, Drop, Continue, Goto, locals, Elsewhere

\* Nobody comes to share an id that is being established.
LEMMA ExclusiveStep ==
  ASSUME IInv, Next, MaxRestarts = 0, MaxEstablish < Width
  PROVE  Exclusive'
<1> USE DEF IInv, Exclusive, Elsewhere
<1>0. \A g \in Handlers : id[g] \in Ids
  BY DEF TypeOK
<1>1. ASSUME NEW h \in Handlers, Add(h) PROVE Exclusive'
  <2>1. \A g \in Handlers : op[g] \in {"establish", "delete"} => id[g] # counter'
    BY <1>1, AddFacts DEF Asked, Lives, LeavingOnly
  <2>2. OwnId'
    BY <1>1, <2>1, AddFacts DEF OwnId
  <2>3. NotDeletedYet'
    BY <1>1, <2>1, AddFacts, Roles DEF NotDeletedYet
  <2>4. Asked'
    BY <1>0, <1>1, <2>1, AddFacts DEF Asked
  <2> QED
    BY <2>2, <2>3, <2>4
<1>2. ASSUME NEW h \in Handlers, Make(h) PROVE Exclusive'
  <2>1. OwnId' /\ NotDeletedYet'
    BY <1>2, MakeFacts DEF OwnId, NotDeletedYet
  <2>2. Asked'
    BY <1>0, <1>2, MakeFacts DEF Asked, OwnId
  <2> QED
    BY <2>1, <2>2
<1>3. ASSUME NEW h \in Handlers, Fill(h) PROVE Exclusive'
  <2>1. OwnId' /\ NotDeletedYet'
    BY <1>3, FillFacts DEF OwnId, NotDeletedYet
  <2>2. Asked'
    BY <1>0, <1>3, FillFacts DEF Asked
  <2> QED
    BY <2>1, <2>2
<1>4. ASSUME NEW h \in Handlers, Reply(h) PROVE Exclusive'
  <2>1. OwnId' /\ NotDeletedYet'
    BY <1>4, ReplyFacts DEF OwnId, NotDeletedYet
  <2>2. ASSUME NEW g \in Handlers, g # h, op[g] = "establish", id[g] = id[h]
        PROVE  op[h] = "delete" /\ pc[g] # "make" /\ life[id[h]] \in {"leaving", "gone"}
    BY <1>4, <2>2, ReplyFacts DEF OwnId, NotDeletedYet, Lives, LeavingOnly
  <2>3. Asked'
    BY <1>0, <1>4, <2>2, ReplyFacts DEF Asked
  <2> QED
    BY <2>1, <2>3
<1>5. ASSUME NEW h \in Handlers, CheckDelete(h) PROVE Exclusive'
  <2>1. OwnId'
    BY <1>5, CheckDeleteFacts DEF OwnId
  <2>2. NotDeletedYet'
    BY <1>5, CheckDeleteFacts, Roles DEF NotDeletedYet, Asked
  <2>3. Asked'
    BY <1>5, CheckDeleteFacts DEF Asked
  <2> QED
    BY <2>1, <2>2, <2>3
<1>6. ASSUME NEW h \in Handlers, Drop(h) PROVE Exclusive'
  <2>1. OwnId' /\ NotDeletedYet'
    BY <1>6, DropFacts DEF OwnId, NotDeletedYet
  <2>2. \A g \in Handlers : pc[g] = "make" => id[g] # id[h]
    BY <1>6, DropFacts DEF NotDeletedYet
  <2>3. Asked'
    BY <1>0, <1>6, <2>2, DropFacts DEF Asked
  <2> QED
    BY <2>1, <2>3
<1>7. ASSUME NEW h \in Handlers, AsideAction(h) PROVE Exclusive'
  <2>1. Aside(h)
    BY <1>7, AsideStep
  <2>2. OwnId' /\ NotDeletedYet'
    BY <2>1 DEF Aside, OwnId, NotDeletedYet
  <2>3. Asked'
    BY <2>1 DEF Aside, Asked
  <2> QED
    BY <2>2, <2>3
<1>8. ~Restart
  BY DEF Restart, Drawn
<1> QED
  BY <1>1, <1>2, <1>3, <1>4, <1>5, <1>6, <1>7, <1>8, NextCases

\* The entries of the map follow the lives of the ids.
LEMMA LivesStep ==
  ASSUME IInv, Next, MaxRestarts = 0, MaxEstablish < Width
  PROVE  Lives'
<1> USE DEF IInv, Lives, Elsewhere
<1>0. \A g \in Handlers : id[g] \in Ids
  BY DEF TypeOK
<1>1. ASSUME NEW h \in Handlers, Add(h) PROVE Lives'
  <2>1. \A g \in Handlers : op[g] = "delete" => id[g] # counter'
    BY <1>1, AddFacts DEF LeavingOnly
  <2>2. InMap' /\ HeldInMap'
    BY <1>1, AddFacts DEF InMap, HeldInMap
  <2>3. LeavingOnly'
    BY <1>0, <1>1, <2>1, AddFacts DEF LeavingOnly
  <2> QED
    BY <2>2, <2>3
<1>2. ASSUME NEW h \in Handlers, Make(h) PROVE Lives'
  <2>1. InMap' /\ HeldInMap'
    BY <1>2, MakeFacts DEF InMap, HeldInMap
  <2>2. LeavingOnly'
    BY <1>2, MakeFacts DEF LeavingOnly
  <2> QED
    BY <2>1, <2>2
<1>3. ASSUME NEW h \in Handlers, Fill(h) PROVE Lives'
  <2>1. InMap' /\ HeldInMap'
    BY <1>3, FillFacts DEF InMap, HeldInMap
  <2>2. LeavingOnly'
    BY <1>3, FillFacts DEF LeavingOnly
  <2> QED
    BY <2>1, <2>2
<1>4. ASSUME NEW h \in Handlers, Reply(h) PROVE Lives'
  <2>1. InMap'
    BY <1>4, ReplyFacts DEF InMap, LeavingOnly
  <2>2. HeldInMap'
    BY <1>4, ReplyFacts DEF HeldInMap, Exclusive, Asked
  <2>3. ASSUME NEW g \in Handlers, g # h, op[g] = "delete", id[g] = id[h]
        PROVE  /\ life'[id[h]] # "free"
               /\ pc[g] # "drop" => life'[id[h]] \in {"leaving", "gone"}
    BY <1>4, <2>3, ReplyFacts DEF LeavingOnly
  <2>4. LeavingOnly'
    BY <1>0, <1>4, <2>3, ReplyFacts DEF LeavingOnly
  <2> QED
    BY <2>1, <2>2, <2>4
<1>5. ASSUME NEW h \in Handlers, CheckDelete(h) PROVE Lives'
  BY <1>5, CheckDeleteFacts DEF InMap, HeldInMap, LeavingOnly
<1>6. ASSUME NEW h \in Handlers, Drop(h) PROVE Lives'
  <2>1. InMap' /\ HeldInMap'
    BY <1>6, DropFacts DEF InMap, HeldInMap
  <2>2. LeavingOnly'
    BY <1>0, <1>6, DropFacts DEF LeavingOnly
  <2> QED
    BY <2>1, <2>2
<1>7. ASSUME NEW h \in Handlers, AsideAction(h) PROVE Lives'
  <2>1. Aside(h)
    BY <1>7, AsideStep
  <2>2. InMap' /\ HeldInMap'
    BY <2>1 DEF Aside, InMap, HeldInMap
  <2>3. LeavingOnly'
    BY <2>1 DEF Aside, LeavingOnly
  <2> QED
    BY <2>2, <2>3
<1>8. ~Restart
  BY DEF Restart, Drawn
<1> QED
  BY <1>1, <1>2, <1>3, <1>4, <1>5, <1>6, <1>7, <1>8, NextCases

\* A slice has what was asked for, or is still being filled.
LEMMA FilledStep ==
  ASSUME IInv, Next, MaxRestarts = 0, MaxEstablish < Width
  PROVE  Filled'
<1> USE DEF IInv, Filled, Elsewhere
<1>1. ASSUME NEW h \in Handlers, Add(h) PROVE Filled'
  BY <1>1, AddFacts
<1>2. ASSUME NEW h \in Handlers, Make(h) PROVE Filled'
  <2>1. requested[id[h]] \in SUBSET Types
    BY <1>2, MakeFacts DEF TypeOK
  <2> QED
    BY <1>2, <2>1, MakeFacts
<1>3. ASSUME NEW h \in Handlers, Fill(h) PROVE Filled'
  BY <1>3, FillFacts
<1>4. ASSUME NEW h \in Handlers, Reply(h) PROVE Filled'
  BY <1>4, ReplyFacts
<1>5. ASSUME NEW h \in Handlers, CheckDelete(h) PROVE Filled'
  <2>1. pc[h] # "fill"
    BY <1>5 DEF CheckDelete, Accept
  <2> QED
    BY <1>5, <2>1, CheckDeleteFacts
<1>6. ASSUME NEW h \in Handlers, Drop(h) PROVE Filled'
  BY <1>6, DropFacts
<1>7. ASSUME NEW h \in Handlers, AsideAction(h) PROVE Filled'
  <2>1. Aside(h)
    BY <1>7, AsideStep
  <2> QED
    BY <2>1 DEF Aside
<1>8. ~Restart
  BY DEF Restart, Drawn
<1> QED
  BY <1>1, <1>2, <1>3, <1>4, <1>5, <1>6, <1>7, <1>8, NextCases

\* A goroutine goes through the labels of its operation only.
LEMMA InOperationStep ==
  ASSUME TypeOK, InOperation, Next
  PROVE  InOperation'
<1> USE DEF TypeOK, InOperation, Establishing, Deleting, Streaming, Sending, Goto, Continue, Return, locals
<1>1. ASSUME NEW h \in Handlers, Subscribe(h) PROVE InOperation'
  BY <1>1 DEF Subscribe, Add, Make, Fill, StoreBroker
<1>2. ASSUME NEW h \in Handlers, Save(h) PROVE InOperation'
  BY <1>2 DEF Save, ReadCounter, Marshal, Truncate, WriteFile, SaveFails, AfterSave
<1>3. ASSUME NEW h \in Handlers, Reply(h) PROVE InOperation'
  BY <1>3 DEF Reply
<1>4. ASSUME NEW h \in Handlers, Delete(h) PROVE InOperation'
  BY <1>4 DEF Delete, CheckDelete, Drop, DropConns, FindBroker, Close, DropBroker
<1>5. ASSUME NEW h \in Handlers, Connect(h) PROVE InOperation'
  BY <1>5 DEF Connect, Get, FindOwn, NewBroker, Attach, FindMap, NewMap, Register, Disconnect, Leave
<1>6. ASSUME NEW h \in Handlers, Notify(h) PROVE InOperation'
  BY <1>6 DEF Notify, SendAll, Visit, RangeConns, Send, EndSend, EndSendAll
<1>7. CASE Restart
  BY <1>7 DEF Restart
<1> QED
  BY <1>1, <1>2, <1>3, <1>4, <1>5, <1>6, <1>7 DEF Next

\* Streams stay under their own id, and events at their own subscription.
LEMMA AddressedStep ==
  ASSUME IInv, Next, MaxRestarts = 0, MaxEstablish < Width
  PROVE  Addressed'
<1> USE Roles DEF IInv, Addressed, Elsewhere, TypeOK, memory, sending, client, Accept, Goto, Continue, Return, locals
<1>1. ASSUME NEW h \in Handlers, Add(h) PROVE Addressed'
  <2>1. pc[h] = "idle"
    BY <1>1 DEF Add
  <2>2. ConnsAddressed'
    BY <1>1, <2>1, AddFacts DEF ConnsAddressed
  <2>3. TypeAddressed'
    BY <1>1, <2>1, AddFacts DEF TypeAddressed
  <2> QED
    BY <2>2, <2>3
<1>2. ASSUME NEW h \in Handlers, Make(h) \/ Fill(h) \/ StoreBroker(h) \/ Reply(h) PROVE Addressed'
  BY <1>2 DEF Make, Fill, StoreBroker, Reply, ConnsAddressed, TypeAddressed
<1>3. ASSUME NEW h \in Handlers, Save(h) PROVE Addressed'
  BY <1>3 DEF Save, ReadCounter, Marshal, Truncate, WriteFile, SaveFails, AfterSave,
              ConnsAddressed, TypeAddressed
<1>4. ASSUME NEW h \in Handlers, CheckDelete(h) \/ Drop(h) \/ DropConns(h) PROVE Addressed'
  <2>1. CASE CheckDelete(h)
    BY <2>1 DEF CheckDelete, ConnsAddressed, TypeAddressed
  <2>2. CASE Drop(h)
    BY <2>2 DEF Drop, ConnsAddressed, TypeAddressed
  <2>3. CASE DropConns(h)
    BY <2>3 DEF DropConns, ConnsAddressed, TypeAddressed
  <2> QED
    BY <1>4, <2>1, <2>2, <2>3
<1>5. ASSUME NEW h \in Handlers, FindBroker(h) \/ Close(h) \/ DropBroker(h) PROVE Addressed'
  <2>1. CASE Close(h)
    <3>1. ConnsAddressed'
      BY <2>1 DEF Close, ConnsAddressed
    <3>2. TypeAddressed'
      BY <2>1 DEF Close, TypeAddressed
    <3> QED
      BY <3>1, <3>2
  <2> QED
    BY <1>5, <2>1 DEF FindBroker, DropBroker, ConnsAddressed, TypeAddressed
<1>6. ASSUME NEW h \in Handlers, Get(h) \/ FindOwn(h) \/ NewBroker(h) \/ Attach(h) \/ FindMap(h)
      PROVE Addressed'
  <2>1. CASE Attach(h)
    <3>1. ConnsAddressed'
      BY <2>1 DEF Attach, ConnsAddressed
    <3>2. TypeAddressed'
      BY <2>1 DEF Attach, TypeAddressed
    <3> QED
      BY <3>1, <3>2
  <2> QED
    BY <1>6, <2>1 DEF Get, FindOwn, NewBroker, FindMap, ConnsAddressed, TypeAddressed
<1>7. ASSUME NEW h \in Handlers, NewMap(h) \/ Disconnect(h) PROVE Addressed'
  <2>1. CASE NewMap(h)
    <3>1. ConnsAddressed'
      BY <2>1 DEF NewMap, ConnsAddressed
    <3>2. TypeAddressed'
      BY <2>1 DEF NewMap, TypeAddressed
    <3> QED
      BY <3>1, <3>2
  <2>2. CASE Disconnect(h)
    BY <2>2 DEF Disconnect, ConnsAddressed, TypeAddressed
  <2> QED
    BY <1>7, <2>1, <2>2
<1>8. ASSUME NEW h \in Handlers, Register(h) PROVE Addressed'
  <2>1. ConnsAddressed'
    <3>1. CASE conns[id[h]] = Nil
      BY <1>8, <3>1 DEF Register, ConnsAddressed
    <3>2. CASE conns[id[h]] # Nil
      <4>1. /\ \A i \in Ids : i # id[h] => conns'[i] = conns[i]
            /\ conns'[id[h]] = conns[id[h]] \cup {h}
            /\ pc'[h] = "wait" /\ id' = id
            /\ \A g \in Handlers : g # h => pc'[g] = pc[g]
        BY <1>8, <3>2 DEF Register
      <4> QED
        BY <3>2, <4>1 DEF ConnsAddressed
    <3> QED
      BY <3>1, <3>2
  <2>2. TypeAddressed'
    BY <1>8 DEF Register, TypeAddressed
  <2> QED
    BY <2>1, <2>2
<1>9. ASSUME NEW h \in Handlers, Leave(h) PROVE Addressed'
  BY <1>9 DEF Leave, ConnsAddressed, TypeAddressed
<1>10. ASSUME NEW h \in Handlers, SendAll(h) PROVE Addressed'
  BY <1>10 DEF SendAll, ConnsAddressed, TypeAddressed
<1>11. ASSUME NEW h \in Handlers, Visit(h) PROVE Addressed'
  <2>1. ConnsAddressed'
    BY <1>11 DEF Visit, ConnsAddressed
  <2>2. TypeAddressed'
    <3>1. CASE UNCHANGED <<id, pc>>
      BY <1>11, <3>1 DEF Visit, TypeAddressed
    <3>2. ASSUME NEW i \in Ids, Matches(h, i), id' = [id EXCEPT ![h] = i], Goto(h, "open")
          PROVE  TypeAddressed'
      <4>1. life[i] # "free" /\ want[h] \subseteq requested[i]
        BY <3>2 DEF Matches, Lives, InMap, Filled
      <4> QED
        BY <1>11, <3>2, <4>1 DEF Visit, TypeAddressed
    <3> QED
      BY <1>11, <3>1, <3>2 DEF Visit
  <2> QED
    BY <2>1, <2>2
<1>12. ASSUME NEW h \in Handlers, RangeConns(h) PROVE Addressed'
  BY <1>12 DEF RangeConns, ConnsAddressed, TypeAddressed
<1>13. ASSUME NEW h \in Handlers, Send(h) PROVE Addressed'
  BY <1>13 DEF Send, ConnsAddressed, TypeAddressed
<1>14. ASSUME NEW h \in Handlers, EndSend(h) \/ EndSendAll(h) PROVE Addressed'
  <2>1. CASE EndSend(h)
    BY <2>1 DEF EndSend, ConnsAddressed, TypeAddressed
  <2>2. CASE EndSendAll(h)
    BY <2>2 DEF EndSendAll, ConnsAddressed, TypeAddressed
  <2> QED
    BY <1>14, <2>1, <2>2
<1>15. ~Restart
  BY DEF Restart, Drawn
<1> HIDE DEF IInv, Addressed, TypeOK
<1> QED
  BY <1>1, <1>2, <1>3, <1>4, <1>5, <1>6, <1>7, <1>8, <1>9, <1>10, <1>11, <1>12, <1>13, <1>14, <1>15
  DEF Next, Subscribe, Delete, Connect, Notify

\* The loops of Send stay as they are when a goroutine moves that they do not hold.
LEMMA LoopingKept ==
  ASSUME TypeOK, Looping, NEW h \in Handlers, Elsewhere(h), UNCHANGED targets,
         ranging' \subseteq ranging, pc[h] # "send", \A k \in Handlers : h \notin targets[k],
         \A s \in Handlers \ {h} : open'[s] => open[s]
  PROVE  Looping'
<1>1. LoopsSend'
  BY DEF Looping, LoopsSend, Elsewhere, TypeOK
<1>2. TargetsAddressed'
  <2> SUFFICES ASSUME NEW k \in Handlers, NEW s \in Handlers, s \in targets[k]
               PROVE  /\ pc'[k] = "send"
                      /\ \/ pc'[s] = "wait" /\ id'[s] = id'[k]
                         \/ pc'[s] = "idle" /\ ~open'[s]
    BY DEF TargetsAddressed
  <2>1. k # h /\ s # h
    BY DEF Looping, TargetsAddressed
  <2> QED
    BY <2>1 DEF Looping, TargetsAddressed, Elsewhere
<1> QED
  BY <1>1, <1>2 DEF Looping

\* A loop of Send holds streams that wait and connections that ended, of which no
\* goroutine takes the name.
LEMMA Unheld ==
  ASSUME TypeOK, Looping, NEW h \in Handlers, pc[h] \notin Resting \/ Accept(h)
  PROVE  \A k \in Handlers : h \notin targets[k]
BY DEF Looping, TargetsAddressed, Resting, Accept

\* The steps that leave the loops of Send as they are.
LEMMA LoopingAside ==
  ASSUME TypeOK, Looping, NEW h \in Handlers,
         \/ Subscribe(h) \/ Save(h) \/ Reply(h) \/ Delete(h) \/ Get(h) \/ FindOwn(h)
         \/ NewBroker(h) \/ Attach(h) \/ FindMap(h) \/ NewMap(h)
         \/ SendAll(h) \/ Visit(h) \/ EndSendAll(h)
  PROVE  Looping'
<1> USE DEF TypeOK, Elsewhere, memory, locals, streams, sending, Accept, Goto, Continue, Return, Resting
<1>1. CASE Subscribe(h)
  <2>1. /\ Elsewhere(h) /\ UNCHANGED <<targets, ranging, open>>
        /\ pc[h] # "send" /\ (pc[h] \notin Resting \/ Accept(h))
    BY <1>1 DEF Subscribe, Add, Make, Fill, StoreBroker
  <2> HIDE DEF TypeOK, Elsewhere, Accept, Resting
  <2> QED
    BY <2>1, Unheld, LoopingKept
<1>2. CASE Save(h) \/ Reply(h)
  <2>1. /\ Elsewhere(h) /\ UNCHANGED <<targets, ranging, open>>
        /\ pc[h] # "send" /\ pc[h] \notin Resting
    BY <1>2 DEF Save, ReadCounter, Marshal, Truncate, WriteFile, SaveFails, AfterSave, Reply
  <2> HIDE DEF TypeOK, Elsewhere, Accept, Resting
  <2> QED
    BY <2>1, Unheld, LoopingKept
<1>3. CASE Delete(h)
  <2>1. /\ Elsewhere(h) /\ UNCHANGED targets
        /\ pc[h] # "send" /\ (pc[h] \notin Resting \/ Accept(h))
    BY <1>3 DEF Delete, CheckDelete, Drop, DropConns, FindBroker, Close, DropBroker
  <2>2. ranging' \subseteq ranging
    BY <1>3 DEF Delete, CheckDelete, Drop, DropConns, FindBroker, Close, DropBroker
  <2>3. \A s \in Handlers : open'[s] => open[s]
    BY <1>3 DEF Delete, CheckDelete, Drop, DropConns, FindBroker, Close, DropBroker
  <2> HIDE DEF TypeOK, Elsewhere, Accept, Resting
  <2> QED
    BY <2>1, <2>2, <2>3, Unheld, LoopingKept
<1>4. CASE Get(h) \/ FindOwn(h) \/ NewBroker(h) \/ Attach(h) \/ FindMap(h) \/ NewMap(h)
  <2>1. /\ Elsewhere(h) /\ UNCHANGED targets
        /\ pc[h] # "send" /\ (pc[h] \notin Resting \/ Accept(h))
    BY <1>4 DEF Get, FindOwn, NewBroker, Attach, FindMap, NewMap
  <2>2. ranging' \subseteq ranging
    BY <1>4 DEF Get, FindOwn, NewBroker, Attach, FindMap, NewMap
  <2>3. \A s \in Handlers \ {h} : open'[s] => open[s]
    BY <1>4 DEF Get, FindOwn, NewBroker, Attach, FindMap, NewMap
  <2> HIDE DEF TypeOK, Elsewhere, Accept, Resting
  <2> QED
    BY <2>1, <2>2, <2>3, Unheld, LoopingKept
<1>5. CASE SendAll(h) \/ Visit(h) \/ EndSendAll(h)
  <2>1. /\ Elsewhere(h) /\ UNCHANGED <<targets, ranging, open>>
        /\ pc[h] # "send" /\ (pc[h] \notin Resting \/ Accept(h))
    BY <1>5 DEF SendAll, Visit, EndSendAll
  <2> HIDE DEF TypeOK, Elsewhere, Accept, Resting
  <2> QED
    BY <2>1, Unheld, LoopingKept
<1> QED
  BY <1>1, <1>2, <1>3, <1>4, <1>5

\* A stream that registers is added to loops over the map of its own id.
LEMMA RegisterLooping ==
  ASSUME TypeOK, Looping, NEW h \in Handlers, Register(h)
  PROVE  Looping'
<1>1. Elsewhere(h) /\ pc[h] = "register" /\ ranging' = ranging
  BY DEF Register, Continue, Goto, Return, Elsewhere, TypeOK, locals
<1>2. \A k \in Handlers : h \notin targets[k]
  BY <1>1, Unheld DEF Resting
<1>3. CASE UNCHANGED targets
  <2>1. \A s \in Handlers \ {h} : open'[s] => open[s]
    BY DEF Register, streams, TypeOK
  <2> QED
    BY <1>1, <1>2, <1>3, <2>1, LoopingKept
<1>4. ASSUME NEW K \in SUBSET Over(id[h]), Continue(h, "wait"), UNCHANGED streams,
             targets' = [k \in Handlers |-> IF k \in K THEN targets[k] \cup {h} ELSE targets[k]]
      PROVE  Looping'
  <2>1. LoopsSend'
    BY <1>1 DEF Looping, LoopsSend, Elsewhere, TypeOK
  <2>2. ASSUME NEW k \in Handlers, NEW s \in targets[k], s # h
        PROVE  /\ pc'[k] = "send"
               /\ \/ pc'[s] = "wait" /\ id'[s] = id'[k]
                  \/ pc'[s] = "idle" /\ ~open'[s]
    <3>1. s \in Handlers /\ pc[k] = "send" /\ k # h
      BY <1>1 DEF Looping, TargetsAddressed, TypeOK
    <3> QED
      BY <1>1, <1>4, <2>2, <3>1 DEF Looping, TargetsAddressed, Elsewhere, streams
  <2>3. ASSUME NEW k \in Handlers, k \in K
        PROVE  pc'[k] = "send" /\ pc'[h] = "wait" /\ id'[h] = id'[k]
    <3>1. pc[k] = "send" /\ id[k] = id[h] /\ k # h
      BY <1>1, <2>3 DEF Looping, LoopsSend, Over
    <3> QED
      BY <1>1, <1>4, <3>1 DEF Elsewhere, Continue, Goto, locals, TypeOK
  <2>4. TargetsAddressed'
    <3> SUFFICES ASSUME NEW k \in Handlers, NEW s \in Handlers, s \in targets'[k]
                 PROVE  /\ pc'[k] = "send"
                        /\ \/ pc'[s] = "wait" /\ id'[s] = id'[k]
                           \/ pc'[s] = "idle" /\ ~open'[s]
      BY DEF TargetsAddressed
    <3>1. CASE s = h
      <4>1. k \in K
        BY <1>2, <1>4, <3>1
      <4> QED
        BY <2>3, <3>1, <4>1
    <3>2. CASE s # h
      <4>1. s \in targets[k]
        BY <1>4, <3>2
      <4> QED
        BY <2>2, <3>2, <4>1
    <3> QED
      BY <3>1, <3>2
  <2> QED
    BY <2>1, <2>4 DEF Looping
<1> QED
  BY <1>3, <1>4 DEF Register

\* A stream that ends leaves the loops over connMap, and is an ended connection to
\* the others.
LEMMA LeaveLooping ==
  ASSUME TypeOK, Looping, NEW h \in Handlers, Leave(h)
  PROVE  Looping'
<1>1. /\ Elsewhere(h) /\ pc[h] = "wait" /\ pc'[h] = "idle" /\ ~open[h]
      /\ ranging' = ranging /\ UNCHANGED open
  BY DEF Leave, Return, Goto, Elsewhere, TypeOK, streams
<1>2. LoopsSend'
  BY <1>1 DEF Looping, LoopsSend, Elsewhere, TypeOK
<1>3. TargetsAddressed'
  <2> SUFFICES ASSUME NEW k \in Handlers, NEW s \in Handlers, s \in targets'[k]
               PROVE  /\ pc'[k] = "send"
                      /\ \/ pc'[s] = "wait" /\ id'[s] = id'[k]
                         \/ pc'[s] = "idle" /\ ~open'[s]
    BY DEF TargetsAddressed
  <2>1. s \in targets[k]
    BY DEF Leave
  <2>2. pc[k] = "send" /\ k # h
    BY <1>1, <2>1 DEF Looping, TargetsAddressed
  <2>3. pc'[k] = "send" /\ id'[k] = id[k]
    BY <1>1, <2>2 DEF Elsewhere
  <2>4. CASE s = h
    BY <1>1, <2>3, <2>4
  <2>5. CASE s # h
    BY <1>1, <2>1, <2>3, <2>5 DEF Looping, TargetsAddressed, Elsewhere
  <2> QED
    BY <2>4, <2>5
<1> QED
  BY <1>2, <1>3 DEF Looping

\* A loop starts on the map of its id, and loses a connection with each call of
\* conn.Send.
LEMMA SendLooping ==
  ASSUME TypeOK, InOperation, ConnsAddressed, Looping, NEW h \in Handlers,
         RangeConns(h) \/ Send(h) \/ EndSend(h)
  PROVE  Looping'
<1> USE DEF Looping, TargetsAddressed, LoopsSend, TypeOK, Continue, Goto, locals, streams
<1>1. CASE RangeConns(h)
  <2>1. \A k \in Handlers : h \notin targets[k]
    BY <1>1, Unheld DEF Resting, RangeConns
  <2>2. \A s \in Handlers : conns[id[h]] # Nil /\ s \in conns[id[h]] => pc[s] = "wait" /\ id[s] = id[h]
    BY DEF ConnsAddressed
  <2>3. targets[h] = {}
    BY <1>1 DEF RangeConns
  <2> QED
    BY <1>1, <2>1, <2>2, <2>3 DEF RangeConns
<1>2. CASE Send(h)
  BY <1>2 DEF Send
<1>3. CASE EndSend(h)
  <2>1. \A k \in Handlers : h \notin targets[k]
    BY <1>3, Unheld DEF Resting, EndSend
  <2> QED
    BY <1>3, <2>1 DEF EndSend
<1> QED
  BY <1>1, <1>2, <1>3

\* The loops of Send hold no connections but those of their own stream requests.
LEMMA LoopingStep ==
  ASSUME IInv, Next
  PROVE  Looping' \/ Restart
<1> USE DEF IInv, Addressed
<1>1. ASSUME NEW h \in Handlers, Disconnect(h) PROVE Looping'
  BY <1>1 DEF Disconnect, Looping, TargetsAddressed, LoopsSend, TypeOK, locals, sending
<1>2. ASSUME NEW h \in Handlers, Register(h) \/ Leave(h) PROVE Looping'
  BY <1>2, RegisterLooping, LeaveLooping
<1>3. ASSUME NEW h \in Handlers, RangeConns(h) \/ Send(h) \/ EndSend(h) PROVE Looping'
  BY <1>3, SendLooping
<1> QED
  BY <1>1, <1>2, <1>3, LoopingAside DEF Next, Connect, Notify

LEMMA NoRestart == IInv /\ MaxRestarts = 0 => ~Restart
BY DEF Restart, IInv, Drawn

\* The inductive invariant holds of the empty center ...
LEMMA InvariantInit == Init /\ MaxRestarts = 0 => IInv
<1> SUFFICES ASSUME Init, MaxRestarts = 0 PROVE IInv
  OBVIOUS
<1>1. TypeOK
  BY TypeInit
<1>2. \A i \in Ids : subs[i] = Nil /\ life[i] = "free" /\ conns[i] = Nil
  BY DEF Init, NoSubscriptions
<1>3. ranging = {} /\ \A h \in Handlers : pc[h] = "idle" /\ op[h] = "none" /\ targets[h] = {}
  BY DEF Init
<1>4. Drawn
  BY <1>2, CenterAssumption DEF Init, Drawn
<1> QED
  BY <1>1, <1>2, <1>3, <1>4
  DEF IInv, InOperation, Exclusive, OwnId, NotDeletedYet, Asked, Lives, InMap, HeldInMap,
      LeavingOnly, Filled, Addressed, ConnsAddressed, TypeAddressed, Looping, TargetsAddressed, LoopsSend

\* ... and every step preserves it.
LEMMA InvariantStep ==
  ASSUME MaxRestarts = 0, MaxEstablish < Width, IInv, [Next]_vars
  PROVE  IInv'
<1>1. CASE Next
  <2>1. TypeOK' /\ InOperation'
    BY <1>1, TypeStep, InOperationStep DEF IInv
  <2> QED
    BY <1>1, <2>1, DrawnStep, ExclusiveStep, LivesStep, FilledStep, AddressedStep,
       LoopingStep, NoRestart DEF IInv
<1>2. CASE UNCHANGED vars
  BY <1>2 DEF vars, memory, locals, streams, sending, client, bounds, IInv, TypeOK, InOperation,
      Drawn, Exclusive, OwnId, NotDeletedYet, Asked, Lives, InMap, HeldInMap, LeavingOnly,
      Filled, Addressed, ConnsAddressed, TypeAddressed, Looping, TargetsAddressed, LoopsSend
<1> QED
  BY <1>1, <1>2

\* Whatever requests overlap, a subscription that a client holds is in the map
\* as it was asked for, and one that was reported as deleted is not in it.
THEOREM SubscriptionsSafe ==
  ASSUME MaxRestarts = 0, MaxEstablish < Width
  PROVE  Spec => [](HeldIsKept /\ DeletedStaysDeleted)
<1>1. Init => IInv
  BY InvariantInit
<1>2. IInv /\ [Next]_vars => IInv'
  BY InvariantStep
<1>3. IInv => HeldIsKept /\ DeletedStaysDeleted
  <2> SUFFICES ASSUME IInv PROVE HeldIsKept /\ DeletedStaysDeleted
    OBVIOUS
  <2>1. DeletedStaysDeleted
    BY DEF IInv, Lives, InMap, DeletedStaysDeleted
  <2>2. \A h \in Handlers, i \in Ids : life[i] = "held" /\ op[h] = "establish" => id[h] # i
    BY DEF IInv, Exclusive, Asked
  <2>3. HeldIsKept
    BY <2>2 DEF IInv, Lives, HeldInMap, Filled, HeldIsKept
  <2> QED
    BY <2>1, <2>3
<1> QED
  BY <1>1, <1>2, <1>3, PTL DEF Spec

\* An id is never drawn twice, however many establishes run at once.
THEOREM IdsFresh ==
  ASSUME MaxRestarts = 0, MaxEstablish < Width
  PROVE  Spec => FreshId
<1>1. Init => IInv
  BY InvariantInit
<1>2. IInv /\ [Next]_vars => IInv'
  BY InvariantStep
<1>3. IInv /\ [Next]_vars => (established' # established => life[counter'] = "free")
  <2> SUFFICES ASSUME IInv, [Next]_vars, established' # established PROVE life[counter'] = "free"
    OBVIOUS
  <2>1. ASSUME NEW h \in Handlers, ~Add(h)
         PROVE  ~(Subscribe(h) \/ Save(h) \/ Reply(h) \/ Delete(h) \/ Connect(h) \/ Notify(h))
    BY <2>1 DEF Subscribe, Make, Fill, StoreBroker, Save, ReadCounter, Marshal, Truncate, WriteFile,
      SaveFails, Reply, Delete, CheckDelete, Drop, DropConns, FindBroker, Close, DropBroker, Connect,
      Get, FindOwn, NewBroker, Attach, FindMap, NewMap, Register, Disconnect, Leave, Notify, SendAll,
      Visit, RangeConns, Send, EndSend, EndSendAll, bounds
  <2>2. \E h \in Handlers : Add(h)
    BY <2>1 DEF Next, Restart, vars, bounds
  <2> QED
    BY <2>2, AddFacts
<1> QED
  BY <1>1, <1>2, <1>3, PTL DEF Spec, FreshId

\* An event is only sent on streams of subscriptions that asked for its type.
THEOREM TypesRespected ==
  ASSUME MaxRestarts = 0, MaxEstablish < Width
  PROVE  Spec => OnlyRequestedTypes
<1>1. Init => IInv
  BY InvariantInit
<1>2. IInv /\ [Next]_vars => IInv'
  BY InvariantStep
<1>3. ASSUME IInv, [Next]_vars, NEW k \in Handlers, NEW s \in Handlers, s \in sent'[k] \ sent[k]
      PROVE  want[k] \subseteq requested[id[s]]
  <2>1. PICK h \in Handlers : Send(h)
    <3>1. ASSUME NEW h \in Handlers, ~Send(h), Notify(h) PROVE FALSE
      BY <1>3, <3>1 DEF Notify, SendAll, Visit, RangeConns, EndSend, EndSendAll, sending, IInv, TypeOK
    <3>2. ASSUME NEW h \in Handlers, Connect(h) PROVE FALSE
      BY <1>3, <3>2 DEF Connect, Get, FindOwn, NewBroker, Attach, FindMap, NewMap, Register,
           Disconnect, Leave, sending, IInv, TypeOK
    <3>3. ASSUME NEW h \in Handlers, Subscribe(h) \/ Save(h) \/ Reply(h) \/ Delete(h) PROVE FALSE
      BY <1>3, <3>3 DEF Subscribe, Add, Make, Fill, StoreBroker, Save, ReadCounter, Marshal, Truncate,
           WriteFile, SaveFails, Reply, Delete, CheckDelete, Drop, DropConns, FindBroker, Close,
           DropBroker, sending
    <3> QED
      BY <1>3, <3>1, <3>2, <3>3 DEF Next, Restart, vars, sending
  <2>2. h = k /\ s \in targets[k] /\ open[s]
    BY <1>3, <2>1 DEF Send, IInv, TypeOK
  <2> QED
    <3>1. pc[k] = "send" /\ id[s] = id[k]
      BY <1>3, <2>2 DEF IInv, Looping, TargetsAddressed
    <3> QED
      BY <1>3, <3>1 DEF IInv, Addressed, TypeAddressed
<1>4. IInv /\ [Next]_vars =>
        \A k, s \in Handlers : s \in sent'[k] \ sent[k] => want[k] \subseteq requested[id[s]]
  BY <1>3
<1> QED
  BY <1>1, <1>2, <1>4, PTL DEF Spec, OnlyRequestedTypes

-----------------------------------------------------------------------------
(* Every request advances, whatever others do to the maps it goes around in. *)

Counted == \A h \in Handlers : Work(h) \in [1 .. 4 -> Nat]

LEMMA PlacesCounted == \A label \in Labels : Place[label] \in Nat
BY DEF Labels, Place

LEMMA WorkCounted == TypeOK => Counted
<1> SUFFICES ASSUME TypeOK, NEW h \in Handlers PROVE Work(h) \in [1 .. 4 -> Nat]
  BY DEF Counted
<1>1. Place[pc[h]] \in Nat
  BY PlacesCounted DEF TypeOK
<1>2. Cardinality(must[h]) \in Nat
  <2>1. IsFiniteSet(Ids)
    BY FS_Interval, CenterAssumption DEF Ids
  <2>2. must[h] \subseteq Ids
    BY DEF TypeOK
  <2> QED
    BY <2>1, <2>2, FS_Subset, FS_CardinalityType
<1>3. RoundLeft(h) \in Nat
  BY DEF RoundLeft, Round
<1>4. LoopLeft(h) \in Nat
  <2>1. IsFiniteSet(want[h] \ subs[id[h]])
    <3>1. want[h] \ subs[id[h]] \subseteq Types
      BY DEF TypeOK
    <3> QED
      BY <3>1, TypesAssumption, FS_Subset
  <2>2. IsFiniteSet(targets[h])
    <3>1. targets[h] \subseteq Handlers
      BY DEF TypeOK
    <3> QED
      BY <3>1, CenterAssumption, FS_Subset
  <2> QED
    BY <2>1, <2>2, FS_CardinalityType DEF LoopLeft
<1> QED
  BY <1>1, <1>2, <1>3, <1>4 DEF Work

LEMMA WorkCountedNext == TypeOK' => Counted'
BY WorkCounted, PTL

\* The four ways to be nearer, for work that is counted.
LEMMA NearerWays ==
  ASSUME NEW a \in [1 .. 4 -> Nat], NEW b \in [1 .. 4 -> Nat],
         \/ a[1] < b[1]
         \/ a[1] = b[1] /\ a[2] < b[2]
         \/ a[1] = b[1] /\ a[2] = b[2] /\ a[3] < b[3]
         \/ a[1] = b[1] /\ a[2] = b[2] /\ a[3] = b[3] /\ a[4] < b[4]
  PROVE  Nearer(a, b)
<1>1. ASSUME NEW k \in 1 .. 4, a[k] < b[k], \A i \in 1 .. k - 1 : a[i] = b[i] PROVE Nearer(a, b)
  BY <1>1 DEF Nearer, Fewer, Unknown
<1>2. CASE a[1] < b[1]
  BY <1>1, <1>2
<1>3. CASE a[1] = b[1] /\ a[2] < b[2]
  BY <1>1, <1>3
<1>4. CASE a[1] = b[1] /\ a[2] = b[2] /\ a[3] < b[3]
  <2>1. \A i \in 1 .. 3 - 1 : i = 1 \/ i = 2
    OBVIOUS
  <2> QED
    BY <1>1, <1>4, <2>1
<1>5. CASE a[1] = b[1] /\ a[2] = b[2] /\ a[3] = b[3] /\ a[4] < b[4]
  <2>1. \A i \in 1 .. 4 - 1 : i = 1 \/ i = 2 \/ i = 3
    OBVIOUS
  <2> QED
    BY <1>1, <1>5, <2>1
<1> QED
  BY <1>2, <1>3, <1>4, <1>5

LEMMA WorkNearer ==
  ASSUME TypeOK, TypeOK', NEW h \in Handlers,
         \/ Place[pc'[h]] < Place[pc[h]]
         \/ /\ Place[pc'[h]] = Place[pc[h]]
            /\ \/ Cardinality(must'[h]) < Cardinality(must[h])
               \/ /\ Cardinality(must'[h]) = Cardinality(must[h])
                  /\ \/ RoundLeft(h)' < RoundLeft(h)
                     \/ RoundLeft(h)' = RoundLeft(h) /\ LoopLeft(h)' < LoopLeft(h)
  PROVE  Nearer(Work(h)', Work(h))
<1>1. Work(h) \in [1 .. 4 -> Nat] /\ Work(h)' \in [1 .. 4 -> Nat]
  BY WorkCounted, WorkCountedNext DEF Counted
<1>2. /\ Work(h)[1] = Place[pc[h]] /\ Work(h)[2] = Cardinality(must[h])
      /\ Work(h)[3] = RoundLeft(h) /\ Work(h)[4] = LoopLeft(h)
  BY DEF Work
<1>3. /\ Work(h)'[1] = Place[pc'[h]] /\ Work(h)'[2] = Cardinality(must'[h])
      /\ Work(h)'[3] = RoundLeft(h)' /\ Work(h)'[4] = LoopLeft(h)'
  BY DEF Work
<1> QED
  BY <1>1, <1>2, <1>3, NearerWays

\* A finite set that loses an element.
LEMMA Loses ==
  ASSUME NEW S, IsFiniteSet(S), NEW x \in S
  PROVE  Cardinality(S \ {x}) < Cardinality(S)
<1>1. Cardinality(S \ {x}) = Cardinality(S) - 1 /\ Cardinality(S) \in Nat
  BY FS_RemoveElement, FS_CardinalityType
<1> QED
  BY <1>1

LEMMA LosesSome ==
  ASSUME NEW S, IsFiniteSet(S), NEW T \in SUBSET S
  PROVE  T = S \/ Cardinality(T) < Cardinality(S)
BY FS_Subset, FS_CardinalityType

\* A request goes on to a later place in each of its steps, or around in a loop
\* that has less left.
LEMMA OwnStep ==
  ASSUME TypeOK, TypeOK', NEW h \in Handlers, Own(h)
  PROVE  Nearer(Work(h)', Work(h))
<1> USE DEF Goto, Continue
<1>1. IsFiniteSet(must[h]) /\ IsFiniteSet(targets[h]) /\ IsFiniteSet(want[h])
  <2>1. IsFiniteSet(Ids)
    BY FS_Interval, CenterAssumption DEF Ids
  <2>2. must[h] \subseteq Ids /\ targets[h] \subseteq Handlers /\ want[h] \subseteq Types
    BY DEF TypeOK
  <2> QED
    BY <2>1, <2>2, CenterAssumption, TypesAssumption, FS_Subset
<1>2. ASSUME Place[pc'[h]] < Place[pc[h]] PROVE Nearer(Work(h)', Work(h))
  BY <1>2, WorkNearer
<1>3. CASE Make(h) \/ StoreBroker(h) \/ Reply(h)
  <2>1. Place[pc'[h]] < Place[pc[h]]
    BY <1>3 DEF TypeOK, Make, StoreBroker, Reply, Return, Place
  <2> QED
    BY <1>2, <2>1
<1>4. CASE Fill(h)
  <2>1. CASE Return(h)
    <3>1. Place[pc'[h]] < Place[pc[h]]
      BY <1>4, <2>1 DEF TypeOK, Fill, Return, Place
    <3> QED
      BY <1>2, <3>1
  <2>2. CASE pc' = [pc EXCEPT ![h] = "readCounter"]
    <3>1. Place[pc'[h]] < Place[pc[h]]
      BY <1>4, <2>2 DEF TypeOK, Fill, Place
    <3> QED
      BY <1>2, <3>1
  <2>3. ASSUME subs[id[h]] # Nil, NEW t \in want[h] \ subs[id[h]],
               subs' = [subs EXCEPT ![id[h]] = subs[id[h]] \cup {t}], UNCHANGED <<pc, locals>>
        PROVE  Nearer(Work(h)', Work(h))
    <3>1. pc[h] = "fill" /\ pc'[h] = "fill" /\ must' = must
      BY <1>4, <2>3 DEF Fill, sending
    <3>2. id'[h] = id[h] /\ want'[h] = want[h] /\ id[h] \in Ids
      BY <2>3 DEF TypeOK, locals
    <3>3. subs'[id[h]] = subs[id[h]] \cup {t} /\ subs[id[h]] \in SUBSET Types
      BY <2>3, <3>2 DEF TypeOK, SubscriptionMap
    <3>4. subs'[id[h]] # Nil
      <4>1. subs[id[h]] \cup {t} \in SUBSET Types
        BY <2>3, <3>3 DEF TypeOK
      <4> QED
        BY <3>3, <4>1, NilAssumption
    <3>5. LoopLeft(h) = Cardinality(want[h] \ subs[id[h]])
      BY <2>3, <3>1 DEF LoopLeft
    <3>6. LoopLeft(h)' = Cardinality(want[h] \ subs'[id[h]])
      BY <3>1, <3>2, <3>4 DEF LoopLeft
    <3>7. want[h] \ subs'[id[h]] = (want[h] \ subs[id[h]]) \ {t} /\ IsFiniteSet(want[h] \ subs[id[h]])
      BY <1>1, <3>3, FS_Subset
    <3>8. LoopLeft(h)' < LoopLeft(h)
      BY <2>3, <3>5, <3>6, <3>7, Loses
    <3>9. RoundLeft(h)' = RoundLeft(h)
      BY <3>1 DEF RoundLeft
    <3> QED
      BY <3>1, <3>8, <3>9, WorkNearer
  <2> QED
    BY <1>4, <2>1, <2>2, <2>3 DEF Fill
<1>5. CASE Save(h)
  <2>1. Place[pc'[h]] < Place[pc[h]]
    BY <1>5 DEF TypeOK, Save, ReadCounter, Marshal, Truncate, WriteFile, SaveFails, AfterSave, Place
  <2> QED
    BY <1>2, <2>1
<1>6. CASE Drop(h) \/ DropConns(h) \/ FindBroker(h) \/ Close(h) \/ DropBroker(h)
  <2>1. Place[pc'[h]] < Place[pc[h]]
    BY <1>6 DEF TypeOK, Drop, DropConns, FindBroker, Close, DropBroker, Return, Place
  <2> QED
    BY <1>2, <2>1
<1>7. CASE FindOwn(h) \/ NewBroker(h) \/ Attach(h) \/ FindMap(h) \/ NewMap(h) \/ Register(h) \/ Leave(h)
  <2>1. Place[pc'[h]] < Place[pc[h]]
    BY <1>7 DEF TypeOK, FindOwn, NewBroker, Attach, FindMap, NewMap, Register, Leave, Return, Place
  <2> QED
    BY <1>2, <2>1
<1>8. CASE Visit(h)
  <2>1. PICK i \in must[h] : must' = [must EXCEPT ![h] = must[h] \ {i}]
    BY <1>8 DEF Visit
  <2>2. pc[h] = "range" /\ pc'[h] \in {"range", "open"}
    BY <1>8 DEF TypeOK, Visit
  <2>3. Place[pc'[h]] = Place[pc[h]]
    BY <2>2 DEF Place
  <2>4. must'[h] = must[h] \ {i}
    BY <2>1 DEF TypeOK
  <2>5. Cardinality(must'[h]) < Cardinality(must[h])
    BY <1>1, <2>4, Loses
  <2> QED
    BY <2>3, <2>5, WorkNearer
<1>9. CASE RangeConns(h) \/ EndSend(h)
  <2>1. \/ pc[h] = "open" /\ pc'[h] = "send"
        \/ pc[h] = "send" /\ pc'[h] = "range"
    BY <1>9 DEF TypeOK, RangeConns, EndSend
  <2>2. must'[h] = must[h]
    BY <1>9 DEF RangeConns, EndSend, sending
  <2>3. Place[pc'[h]] = Place[pc[h]] /\ RoundLeft(h)' < RoundLeft(h)
    BY <2>1 DEF Place, RoundLeft, Round
  <2> QED
    BY <2>2, <2>3, WorkNearer
<1>10. CASE Send(h)
  <2>1. PICK s \in targets[h] : targets' = [targets EXCEPT ![h] = targets[h] \ {s}]
    BY <1>10 DEF Send
  <2>2. pc[h] = "send" /\ pc'[h] = pc[h] /\ must'[h] = must[h] /\ targets'[h] = targets[h] \ {s}
    BY <1>10, <2>1 DEF TypeOK, Send
  <2>3. RoundLeft(h)' = RoundLeft(h) /\ LoopLeft(h) = Cardinality(targets[h])
        /\ LoopLeft(h)' = Cardinality(targets'[h])
    BY <2>2 DEF RoundLeft, LoopLeft
  <2>4. LoopLeft(h)' < LoopLeft(h)
    BY <1>1, <2>2, <2>3, Loses
  <2> QED
    BY <2>2, <2>3, <2>4, WorkNearer
<1>11. CASE EndSendAll(h)
  <2>1. Place[pc'[h]] < Place[pc[h]]
    BY <1>11 DEF TypeOK, EndSendAll, Return, Place
  <2> QED
    BY <1>2, <2>1
<1> QED
  BY <1>3, <1>4, <1>5, <1>6, <1>7, <1>8, <1>9, <1>10, <1>11 DEF Own, Proceed

\* What the steps of others leave of a request, unless they add to its loops: its
\* locals, its slice as long as that is not deleted, and no more to visit.
LEMMA WorkUntouched ==
  ASSUME TypeOK, TypeOK', NEW h \in Handlers,
         pc'[h] = pc[h], id'[h] = id[h], want'[h] = want[h],
         must'[h] \subseteq must[h], targets'[h] \subseteq targets[h],
         pc[h] = "fill" => subs'[id[h]] \in {subs[id[h]], Nil}
  PROVE  Work(h)' = Work(h) \/ Nearer(Work(h)', Work(h))
<1>1. RoundLeft(h)' = RoundLeft(h)
  BY DEF RoundLeft
<1>2. LoopLeft(h)' = LoopLeft(h) \/ LoopLeft(h)' < LoopLeft(h)
  <2>1. CASE pc[h] = "fill"
    <3>1. CASE subs'[id[h]] = subs[id[h]]
      BY <2>1, <3>1 DEF LoopLeft
    <3>2. CASE subs'[id[h]] = Nil
      <4>1. LoopLeft(h)' = 0
        BY <2>1, <3>2 DEF LoopLeft
      <4>2. LoopLeft(h) \in Nat
        <5>1. Work(h) \in [1 .. 4 -> Nat]
          BY WorkCounted DEF Counted
        <5>2. Work(h)[4] = LoopLeft(h)
          BY DEF Work
        <5> QED
          BY <5>1, <5>2
      <4> QED
        BY <4>1, <4>2
    <3> QED
      BY <2>1, <3>1, <3>2
  <2>2. CASE pc[h] = "send"
    <3>1. IsFiniteSet(targets[h])
      BY CenterAssumption, FS_Subset DEF TypeOK
    <3>2. LoopLeft(h) = Cardinality(targets[h]) /\ LoopLeft(h)' = Cardinality(targets'[h])
      BY <2>2 DEF LoopLeft
    <3> QED
      BY <3>1, <3>2, LosesSome
  <2>3. CASE pc[h] \notin {"fill", "send"}
    BY <2>3 DEF LoopLeft
  <2> QED
    BY <2>1, <2>2, <2>3
<1>3. must'[h] = must[h] \/ Cardinality(must'[h]) < Cardinality(must[h])
  <2>1. IsFiniteSet(Ids)
    BY FS_Interval, CenterAssumption DEF Ids
  <2>2. IsFiniteSet(must[h])
    BY <2>1, FS_Subset DEF TypeOK
  <2> QED
    BY <2>2, LosesSome
<1>4. CASE Cardinality(must'[h]) < Cardinality(must[h])
  BY <1>4, WorkNearer
<1>5. CASE must'[h] = must[h] /\ LoopLeft(h)' = LoopLeft(h)
  BY <1>1, <1>5 DEF Work
<1>6. CASE must'[h] = must[h] /\ LoopLeft(h)' < LoopLeft(h)
  BY <1>1, <1>6, WorkNearer
<1> QED
  BY <1>2, <1>3, <1>4, <1>5, <1>6

\* The loops of this request get nothing more from the step of another, unless it
\* stores a new subscription or registers a new stream.
LEMMA OthersLoops ==
  ASSUME TypeOK, NEW g \in Handlers, NEW h \in Handlers, g # h,
         \/ Add(g) \/ Fill(g) \/ StoreBroker(g) \/ Save(g) \/ Reply(g) \/ Delete(g) \/ Get(g)
         \/ FindOwn(g) \/ NewBroker(g) \/ Attach(g) \/ FindMap(g) \/ NewMap(g) \/ Disconnect(g)
         \/ Leave(g) \/ Notify(g)
  PROVE  must'[h] = must[h] /\ targets'[h] \subseteq targets[h]
<1>1. CASE Add(g) \/ Fill(g) \/ StoreBroker(g) \/ Save(g) \/ Reply(g) \/ Delete(g)
  BY <1>1 DEF Add, Fill, StoreBroker, Save, ReadCounter, Marshal, Truncate, WriteFile,
     SaveFails, Reply, Delete, CheckDelete, Drop, DropConns, FindBroker, Close, DropBroker, sending
<1>2. CASE \/ Get(g) \/ FindOwn(g) \/ NewBroker(g) \/ Attach(g) \/ FindMap(g) \/ NewMap(g)
           \/ Disconnect(g) \/ Leave(g)
  BY <1>2 DEF Get, FindOwn, NewBroker, Attach, FindMap, NewMap, Disconnect, Leave, sending, TypeOK
<1>3. CASE Notify(g)
  BY <1>3 DEF Notify, SendAll, Visit, RangeConns, Send, EndSend, EndSendAll, sending, TypeOK
<1> QED
  BY <1>1, <1>2, <1>3

\* A subscription that is stored joins the loops that will visit it.
LEMMA MakeJoins ==
  ASSUME TypeOK, InOperation, NEW g \in Handlers, NEW h \in Handlers, g # h, Make(g)
  PROVE  targets'[h] = targets[h] /\ (must'[h] \subseteq must[h] \/ Joined(h))
<1>1. targets'[h] = targets[h] /\ pc'[h] = pc[h] /\ id'[h] = id[h]
  BY DEF Make, Continue, Goto, locals, TypeOK
<1>2. CASE UNCHANGED must
  BY <1>1, <1>2
<1>3. ASSUME subs[id[g]] = Nil, NEW K \in SUBSET Notifying,
             must' = [k \in Handlers |-> IF k \in K THEN must[k] \cup {id[g]} ELSE must[k] \ {id[g]}]
      PROVE  must'[h] \subseteq must[h] \/ Joined(h)
  <2>1. CASE h \in K
    <3>1. op[h] = "sendAll"
      BY <2>1, Roles DEF Notifying, Sending
    <3>2. must'[h] = must[h] \cup {id[g]}
      BY <1>3, <2>1
    <3> QED
      BY <1>1, <1>3, <3>1, <3>2 DEF Joined
  <2>2. CASE h \notin K
    BY <1>3, <2>2
  <2> QED
    BY <2>1, <2>2
<1> QED
  BY <1>1, <1>2, <1>3 DEF Make

\* A stream that registers joins the loops over the map of its id.
LEMMA RegisterJoins ==
  ASSUME TypeOK, InOperation, Looping, NEW g \in Handlers, NEW h \in Handlers, g # h, Register(g)
  PROVE  must'[h] = must[h] /\ (targets'[h] = targets[h] \/ Joined(h))
<1>1. must'[h] = must[h] /\ pc'[h] = pc[h] /\ id'[h] = id[h]
  BY DEF Register, Continue, Goto, Return, locals, TypeOK
<1>2. CASE UNCHANGED targets
  BY <1>1, <1>2
<1>3. ASSUME NEW K \in SUBSET Over(id[g]),
             targets' = [k \in Handlers |-> IF k \in K THEN targets[k] \cup {g} ELSE targets[k]]
      PROVE  targets'[h] = targets[h] \/ Joined(h)
  <2>1. CASE h \in K
    <3>1. h \in ranging /\ id[h] = id[g]
      BY <2>1 DEF Over
    <3>2. op[h] = "sendAll"
      BY <3>1, Roles DEF Looping, LoopsSend, Sending
    <3>3. targets'[h] = targets[h] \cup {g}
      BY <1>3, <2>1
    <3> QED
      BY <1>1, <3>1, <3>2, <3>3 DEF Joined
  <2>2. CASE h \notin K
    BY <1>3, <2>2
  <2> QED
    BY <2>1, <2>2
<1> QED
  BY <1>1, <1>2, <1>3 DEF Register

LEMMA OthersStep ==
  ASSUME IInv, TypeOK', NEW g \in Handlers, NEW h \in Handlers, g # h,
         Subscribe(g) \/ Save(g) \/ Reply(g) \/ Delete(g) \/ Connect(g) \/ Notify(g)
  PROVE  Work(h)' = Work(h) \/ Nearer(Work(h)', Work(h)) \/ Joined(h)
<1>1. \/ Add(g) \/ Make(g) \/ Fill(g) \/ Reply(g) \/ CheckDelete(g) \/ Drop(g) \/ AsideAction(g)
  BY DEF Subscribe, Save, Delete, Connect, Notify, AsideAction
<1>2. TypeOK /\ InOperation /\ Looping
  BY DEF IInv
<1>3. pc[h] = "fill" => op[h] = "establish" /\ id[h] \in Ids
  BY <1>2, Roles DEF TypeOK
<1>4. op[g] = "establish" /\ pc[h] = "fill" => id[g] # id[h]
  BY <1>3 DEF IInv, Exclusive, OwnId
<1>5. /\ Elsewhere(g)
      /\ pc[h] = "fill" => subs'[id[h]] \in {subs[id[h]], Nil}
  <2>1. CASE Add(g)
    BY <2>1 DEF Add, Accept, Goto, IInv, TypeOK, Elsewhere
  <2>2. CASE Make(g) \/ Fill(g)
    BY <1>3, <1>4, <2>2, MakeFacts, FillFacts
  <2>3. CASE Reply(g) \/ CheckDelete(g)
    BY <2>3, ReplyFacts, CheckDeleteFacts
  <2>4. CASE Drop(g)
    <3>1. /\ Elsewhere(g) /\ subs'[id[g]] = Nil
          /\ \A i \in Ids : i # id[g] => subs'[i] = subs[i]
      BY <2>4, DropFacts
    <3> QED
      BY <1>3, <3>1
  <2>5. CASE AsideAction(g)
    BY <1>2, <2>5, AsideStep DEF Aside
  <2> QED
    BY <1>1, <2>1, <2>2, <2>3, <2>4, <2>5
<1>6. Joined(h) \/ (must'[h] \subseteq must[h] /\ targets'[h] \subseteq targets[h])
  BY <1>2, OthersLoops, MakeJoins, RegisterJoins DEF Subscribe, Connect
<1> QED
  BY <1>2, <1>5, <1>6, WorkUntouched DEF Elsewhere

\* A client that goes away ends no request by itself.
LEMMA DisconnectStep ==
  ASSUME NEW g \in Handlers, Disconnect(g), NEW h \in Handlers
  PROVE  Work(h)' = Work(h)
BY DEF Disconnect, memory, locals, sending, Work, RoundLeft, LoopLeft

\* The work of a request is a sequence of four numbers at all times: as long as
\* nothing joins its loops, NoEndlessDescent of DescentProofs applies to it.
THEOREM RequestsCounted == Spec => [](\A h \in Handlers : Work(h) \in [1 .. 4 -> Nat])
BY TypeInit, TypeStep, WorkCounted, PTL DEF Spec, Counted

\* Whatever requests overlap, each of its own steps brings a request nearer to its
\* end, and no step of another takes it further away, except that one more entry
\* may join the loop of a notification.
THEOREM EveryRequestAdvances ==
  ASSUME MaxRestarts = 0, MaxEstablish < Width
  PROVE  Spec => RequestsAdvance
<1> DEFINE Advances ==
             \A h \in Handlers : pc[h] # "idle" /\ restarts' = restarts =>
                 \/ Nearer(Work(h)', Work(h))
                 \/ ~Own(h) /\ (Work(h)' = Work(h) \/ Joined(h))
<1>1. Init => IInv
  BY InvariantInit
<1>2. IInv /\ [Next]_vars => IInv'
  BY InvariantStep
<1>3. ASSUME IInv, Next PROVE Advances
  <2>1. TypeOK /\ TypeOK'
    BY <1>3, TypeStep DEF IInv
  <2> SUFFICES ASSUME NEW h \in Handlers, pc[h] # "idle"
               PROVE  \/ Nearer(Work(h)', Work(h))
                      \/ ~Own(h) /\ (Work(h)' = Work(h) \/ Joined(h))
    OBVIOUS
  <2>2. CASE Own(h)
    BY <2>1, <2>2, OwnStep
  <2>3. CASE ~Own(h)
    <3>1. PICK g \in Handlers :
              Subscribe(g) \/ Save(g) \/ Reply(g) \/ Delete(g) \/ Connect(g) \/ Notify(g)
      <4>1. ~Restart
        BY <1>3 DEF Restart, IInv, Drawn
      <4> QED
        BY <1>3, <4>1 DEF Next
    <3>2. CASE g # h
      BY <1>3, <2>1, <2>3, <3>1, <3>2, OthersStep
    <3>3. CASE g = h
      <4>1. Disconnect(h)
        BY <2>3, <3>1, <3>3 DEF Subscribe, Save, Delete, Connect, Notify, Own, Proceed,
           Add, CheckDelete, Get, SendAll, Accept
      <4> QED
        BY <2>3, <4>1, DisconnectStep
    <3> QED
      BY <3>2, <3>3
  <2> QED
    BY <2>2, <2>3
<1> HIDE DEF Advances
<1>4. Spec => [][Advances]_vars
  BY <1>1, <1>2, <1>3, PTL DEF Spec
<1> QED
  BY <1>4 DEF Advances, RequestsAdvance
=============================================================================
