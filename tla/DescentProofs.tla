--------------------------- MODULE DescentProofs ---------------------------
(***************************************************************************)
(* Why work that gets less comes to an end, whatever it is the work of;    *)
(* and that the work of a request of Response gets less with every step,   *)
(* for all schemas and every bound of the generators.                      *)
(***************************************************************************)
EXTENDS ResponseProofs, ResponseDescent, WellFoundedInduction

-----------------------------------------------------------------------------
(* The order *)

Counts == Nat \cup {Unknown}

FewerPairs == OpToRel(Fewer, Counts)

\* A set of counts has a least one: a number if it has any.
LEMMA FewerIsWellFounded == IsWellFoundedOn(FewerPairs, Counts)
<1>1. ASSUME NEW T \in SUBSET Counts, T # {}
      PROVE  \E x \in T : \A y \in T : ~ (<<y, x>> \in FewerPairs)
  <2>1. CASE T \cap Nat = {}
    BY <1>1, <2>1 DEF FewerPairs, OpToRel, Fewer, Counts
  <2>2. CASE T \cap Nat # {}
    <3>1. \E x \in T \cap Nat : \A y \in T \cap Nat : ~ (<<y, x>> \in OpToRel(<, Nat))
      BY <2>2, NatLessThanWellFounded, WFMin
    <3>2. PICK x \in T \cap Nat : \A y \in T \cap Nat : ~ (<<y, x>> \in OpToRel(<, Nat))
      BY <3>1
    <3>3. ASSUME NEW y \in T, <<y, x>> \in FewerPairs PROVE FALSE
      <4>1. Fewer(y, x) /\ y \in Counts
        BY <3>3 DEF FewerPairs, OpToRel
      <4>2. y \in Nat /\ y < x
        BY <4>1, x \in Nat DEF Fewer, Counts, Unknown
      <4> QED
        BY <3>2, <4>2 DEF OpToRel
    <3> QED
      BY <3>2, <3>3
  <2> QED
    BY <2>1, <2>2
<1> QED
  BY <1>1, MinWF

Works(n) == [1 .. n -> Counts]

NearerPairs(n) == LexProductOrdering(FewerPairs, Counts, n)

LEMMA NearerIsWellFounded ==
    ASSUME NEW n \in Nat
    PROVE  /\ IsWellFoundedOn(NearerPairs(n), Works(n))
           /\ \A work, before \in Works(n) :
                  Nearer(work, before) => <<work, before>> \in NearerPairs(n)
<1>1. IsWellFoundedOn(NearerPairs(n), Works(n))
  BY FewerIsWellFounded, WFLexProductOrdering DEF NearerPairs, Works
<1>2. ASSUME NEW work \in Works(n), NEW before \in Works(n), Nearer(work, before)
      PROVE  <<work, before>> \in NearerPairs(n)
  <2>1. PICK k \in 1 .. n : Fewer(work[k], before[k]) /\ \A i \in 1 .. k - 1 : work[i] = before[i]
    BY <1>2 DEF Nearer, Works
  <2>2. <<work[k], before[k]>> \in FewerPairs
    BY <2>1 DEF FewerPairs, OpToRel, Works
  <2> QED
    BY <2>1, <2>2 DEF LexProductOrdering, NearerPairs, Works
<1> QED
  BY <1>1, <1>2

\* Work of any number of counts, each of any size, cannot get less for ever:
\* however much one count grows when one before it gets smaller, there is a step
\* that does not bring it nearer.  With EveryStepIsNearer it follows that a
\* behaviour of Response has only finitely many steps.
THEOREM NoEndlessDescent ==
    ASSUME NEW n \in Nat, NEW works \in [Nat -> [1 .. n -> Counts]]
    PROVE  \E t \in Nat : ~ Nearer(works[t + 1], works[t])
<1>1. works \in [Nat -> Works(n)]
  BY DEF Works
<1>2. PICK t \in Nat : ~ (<<works[t + 1], works[t]>> \in NearerPairs(n))
  BY <1>1, NearerIsWellFounded DEF IsWellFoundedOn
<1>3. works[t + 1] \in Works(n) /\ works[t] \in Works(n)
  BY <1>1
<1> QED
  BY <1>2, <1>3, NearerIsWellFounded

-----------------------------------------------------------------------------
(* The parts a call has left *)

\* What a call has begun it can finish: no list is longer than it has to be, an
\* awaited part is one that is lacking, and the attempts have not run out.
Budget(call, awaited) ==
    /\ call.phase = "enter" => awaited = 0
    /\ call.phase \in {"enter", "item"} => call.tries = 0
    /\ call.phase \in {"item", "unique"} =>
           \/ Len(call.made) < Length(MinItems(call.schema))
           \/ Len(call.made) = Length(MinItems(call.schema)) /\ awaited = 0 /\ call.tries = 0
    /\ call.phase = "unique" => call.tries \in 0 .. MaxAttempts - 1
    /\ call.phase = "property" => IsFiniteSet(call.todo)
    /\ call.phase = "entry" /\ awaited = 1 =>
           /\ call.name \notin DOMAIN call.made
           /\ Cardinality(DOMAIN call.made) < Length(MinProps(call.schema))

BudgetInv == \A level \in 1 .. Len(stack) : Budget(stack[level], Awaited(level))

LEMMA LackingCounts ==
    ASSUME NEW min \in Nat, NEW held \in Nat
    PROVE  /\ Length(min) \in Nat
           /\ Lacking(min, held) \in Nat
           /\ Lacking(min, held) <= Lacking(min, 0)
           /\ held < Length(min) => /\ Lacking(min, held) # 0
                                    /\ Lacking(min, held + 1) = Lacking(min, held) - 1
           /\ held = Length(min) => Lacking(min, held) = 0
BY DEF Lacking, Length

LEMMA PartsByPhase ==
    ASSUME NEW call, NEW awaited
    PROVE  /\ call.phase = "item" =>
                  PartsLeft(call, awaited) = Lacking(MinItems(call.schema), Len(call.made))
           /\ call.phase = "unique" =>
                  PartsLeft(call, awaited) =
                      MaxAttempts * Lacking(MinItems(call.schema), Len(call.made)) - call.tries
           /\ call.phase = "property" =>
                  PartsLeft(call, awaited) = Cardinality(call.todo) + awaited
           /\ call.phase = "required" =>
                  PartsLeft(call, awaited) =
                      Len(call.queue) + awaited + Lacking(MinProps(call.schema), 0) + 1
           /\ call.phase \in {"entry", "free"} =>
                  PartsLeft(call, awaited) =
                      Lacking(MinProps(call.schema), Cardinality(DOMAIN call.made))
           /\ call.phase \notin {"item", "unique", "property", "required", "entry", "free"} =>
                  PartsLeft(call, awaited) = 0
BY DEF PartsLeft

\* The sizes a schema gives.
LEMMA SizesAreCounted ==
    ASSUME NEW s, WellFormed(s)
    PROVE  MinItems(s) \in Nat /\ MinProps(s) \in Nat
BY DEF WellFormed, MinItems, MinProps, Get, Has

LEMMA AttemptsProduct ==
    ASSUME NEW lacking \in Nat \ {0}, NEW tries \in 0 .. MaxAttempts - 1
    PROVE  /\ MaxAttempts * lacking - tries \in Nat \ {0}
           /\ MaxAttempts * (lacking - 1) \in Nat
           /\ MaxAttempts * (lacking - 1) < MaxAttempts * lacking - tries
<1>1. MaxAttempts \in Nat \ {0}
  BY LevelAssumption
<1>2. MaxAttempts * (lacking - 1) = MaxAttempts * lacking - MaxAttempts
  BY <1>1
<1>3. MaxAttempts * (lacking - 1) \in Nat /\ MaxAttempts * lacking \in Nat
  <2>1. lacking - 1 \in Nat
    OBVIOUS
  <2> QED
    BY <1>1, <2>1
<1> QED
  BY <1>1, <1>2, <1>3

LEMMA PartsAreCounted ==
    ASSUME NEW call, IsCall(call), NEW awaited \in {0, 1}, Budget(call, awaited)
    PROVE  PartsLeft(call, awaited) \in Nat
<1> DEFINE items == MinItems(call.schema)
           props == MinProps(call.schema)
<1>1. items \in Nat /\ props \in Nat
  BY SizesAreCounted DEF IsCall
<1>2. CASE call.phase \in {"item", "unique"}
  <2>1. Len(call.made) \in Nat
    BY <1>2 DEF IsCall, IsSequence
  <2>2. Lacking(items, Len(call.made)) \in Nat
    BY <1>1, <2>1, LackingCounts
  <2>3. CASE call.phase = "item"
    BY <2>2, <2>3, PartsByPhase
  <2>4. CASE call.phase = "unique"
    <3>1. PartsLeft(call, awaited) = MaxAttempts * Lacking(items, Len(call.made)) - call.tries
      BY <2>4, PartsByPhase
    <3>2. call.tries \in 0 .. MaxAttempts - 1
      BY <2>4 DEF Budget
    <3>3. CASE Len(call.made) < Length(items)
      <4>1. Lacking(items, Len(call.made)) # 0
        BY <1>1, <2>1, <3>3, LackingCounts
      <4> HIDE DEF items
      <4> QED
        BY <2>2, <3>1, <3>2, <4>1, AttemptsProduct
    <3>4. CASE Len(call.made) = Length(items) /\ call.tries = 0
      <4>1. Lacking(items, Len(call.made)) = 0
        BY <1>1, <2>1, <3>4, LackingCounts
      <4> QED
        BY <3>1, <3>4, <4>1, LevelAssumption
    <3> QED
      BY <2>4, <3>3, <3>4 DEF Budget
  <2> QED
    BY <1>2, <2>3, <2>4
<1>3. CASE call.phase = "property"
  <2>1. Cardinality(call.todo) \in Nat
    BY <1>3, FS_CardinalityType DEF Budget
  <2> QED
    BY <1>3, <2>1, PartsByPhase
<1>4. CASE call.phase = "required"
  <2>1. Len(call.queue) \in Nat
    BY <1>4 DEF IsCall
  <2>2. Lacking(props, 0) \in Nat
    BY <1>1, LackingCounts
  <2> QED
    BY <1>4, <2>1, <2>2, PartsByPhase
<1>5. CASE call.phase \in {"entry", "free"}
  <2>1. Cardinality(DOMAIN call.made) \in Nat
    BY <1>5, FS_CardinalityType DEF IsCall
  <2>2. Lacking(props, Cardinality(DOMAIN call.made)) \in Nat
    BY <1>1, <2>1, LackingCounts
  <2> QED
    BY <1>5, <2>2, PartsByPhase
<1>6. CASE call.phase \notin {"item", "unique", "property", "required", "entry", "free"}
  BY <1>6, PartsByPhase
<1> QED
  BY <1>2, <1>3, <1>4, <1>5, <1>6

-----------------------------------------------------------------------------
(* The levels of the stack *)

LEMMA AppendLevels ==
    ASSUME NEW calls, IsSequence(calls), NEW call
    PROVE  /\ Len(calls) \in Nat
           /\ Len(Append(calls, call)) = Len(calls) + 1
           /\ Append(calls, call)[Len(calls) + 1] = call
           /\ \A level \in 1 .. Len(calls) : Append(calls, call)[level] = calls[level]
<1>1. PICK S : calls \in Seq(S)
  BY DEF IsSequence
<1>2. calls \in Seq(S \cup {call})
  BY <1>1
<1> QED
  BY <1>2, AppendProperties

LEMMA BelowLevels ==
    ASSUME ChainInv, stack # <<>>
    PROVE  /\ Len(stack) \in Nat \ {0}
           /\ IsSequence(Below)
           /\ Len(Below) = Len(stack) - 1
           /\ \A level \in 1 .. Len(stack) - 1 : Below[level] = stack[level]
<1> DEFINE m == Len(stack) - 1
<1>1. PICK S : stack \in Seq(S)
  BY DEF ChainInv, IsSequence
<1>2. Len(stack) \in Nat \ {0} /\ IsSequence(Below) /\ Len(Below) = m
  BY FrontSequence DEF ChainInv, Below
<1>3. m \in Nat /\ \A level \in 1 .. m : stack[level] \in S
  BY <1>1, <1>2, ElementOfSeq
<1>4. Below = SubSeq(stack, 1, m)
  BY DEF Below
<1> HIDE DEF m
<1>5. \A level \in 1 .. m - 1 + 1 : SubSeq(stack, 1, m)[level] = stack[1 + level - 1]
  BY <1>3, SubSeqProperties
<1>6. \A level \in 1 .. m : Below[level] = stack[level]
  BY <1>3, <1>4, <1>5
<1> QED
  BY <1>2, <1>6 DEF m

LEMMA NowLevels ==
    ASSUME ChainInv, stack # <<>>, NEW call
    PROVE  /\ IsSequence(Now(call))
           /\ Len(Now(call)) = Len(stack)
           /\ Now(call)[Len(stack)] = call
           /\ \A level \in 1 .. Len(stack) - 1 : Now(call)[level] = stack[level]
<1>1. /\ IsSequence(Now(call)) /\ Len(Now(call)) = Len(Below) + 1
      /\ Now(call)[Len(Below) + 1] = call
      /\ \A level \in 1 .. Len(Below) : Now(call)[level] = Below[level]
  BY BelowLevels, AppendLevels, AppendSequence DEF Now
<1> QED
  BY <1>1, BelowLevels

\* The calls at all levels are calls, and know what they have left.
LEMMA LevelsAreCalls ==
    ASSUME ChainInv, CallsInv, NEW level \in 1 .. Len(stack)
    PROVE  IsCall(stack[level])
<1>1. stack # <<>>
  BY EmptySequence
<1>2. CASE level = Len(stack)
  BY <1>1, <1>2, TopCall DEF Top
<1>3. CASE level # Len(stack)
  <2>1. level \in 1 .. Len(stack) - 1 /\ level \in 1 .. Len(Below) /\ Below[level] = stack[level]
    BY <1>1, <1>3, BelowLevels
  <2> QED
    BY <1>1, <2>1 DEF CallsInv, AllWait, Waiting
<1> QED
  BY <1>2, <1>3

LEMMA LevelsAreCounted ==
    ASSUME ChainInv, CallsInv, BudgetInv, NEW level \in 1 .. Len(stack)
    PROVE  PartsLeft(stack[level], Awaited(level)) \in Nat
<1>1. IsCall(stack[level]) /\ Budget(stack[level], Awaited(level))
  BY LevelsAreCalls DEF BudgetInv
<1>2. Awaited(level) \in {0, 1}
  BY DEF Awaited
<1> QED
  BY <1>1, <1>2, PartsAreCounted

LEMMA StepsAreCounted ==
    ASSUME ChainInv, CallsInv, BudgetInv, NEW level \in Nat
    PROVE  StepsLeft(level) \in Counts
<1>1. Turn(level) \in 0 .. 3
  BY DEF Turn
<1>2. CASE level \in 1 .. Len(stack) /\ stack[level].phase # "enter"
  <2>1. PartsLeft(stack[level], Awaited(level)) \in Nat
    BY <1>2, LevelsAreCounted
  <2>2. StepsLeft(level) = 4 * PartsLeft(stack[level], Awaited(level)) + Turn(level)
    BY <1>2 DEF StepsLeft
  <2> QED
    BY <1>1, <2>1, <2>2 DEF Counts
<1>3. CASE ~(level \in 1 .. Len(stack) /\ stack[level].phase # "enter")
  <2>1. StepsLeft(level) \in {Turn(0), Unknown}
    BY <1>3 DEF StepsLeft
  <2>2. Turn(0) \in 0 .. 3
    BY DEF Turn
  <2> QED
    BY <2>1, <2>2 DEF Counts
<1> QED
  BY <1>2, <1>3

-----------------------------------------------------------------------------
(* What a step of the chain does to the levels *)

\* The calls below this level have as much to do as before, and it has less.
Descends(level) ==
    /\ Fewer(StepsLeft(level)', StepsLeft(level))
    /\ \A below \in 0 .. level - 1 : StepsLeft(below)' = StepsLeft(below)

\* The top call returns; all calls do.
Leaves == stack' = Below /\ result' # NoResult

Unwound == stack' = <<>> /\ result' # NoResult

\* The top call, now in this state, has less to do; it goes on, or awaits a part.
Proceeds(call) ==
    /\ Continue(call)
    /\ Budget(call, 0)
    /\ call.phase # "enter"
    /\ PartsLeft(call, 0) \in Nat
    /\ Fewer(4 * PartsLeft(call, 0) + 3, StepsLeft(Len(stack)))

Asks(call) == \E calling, s :
    /\ Call(calling, s)
    /\ IsSequence(calling)
    /\ Len(calling) = Len(stack)
    /\ calling[Len(stack)] = call
    /\ \A level \in 1 .. Len(stack) - 1 : calling[level] = stack[level]
    /\ Budget(call, 1)
    /\ call.phase # "enter"
    /\ PartsLeft(call, 1) \in Nat
    /\ Fewer(4 * PartsLeft(call, 1) + 2, StepsLeft(Len(stack)))

Tires == UNCHANGED stack /\ result.status = "ok" /\ result' = AttemptsExceeded

LevelStep ==
    \/ Leaves \/ Unwound \/ Tires
    \/ \E call : Proceeds(call)
    \/ \E call : Asks(call)

LEMMA WaitingSteps ==
    ASSUME ChainInv, BudgetInv, stack # <<>>, NEW level \in 1 .. Len(stack) - 1
    PROVE  stack[level].phase # "enter" /\ StepsLeft(level) = 4 * PartsLeft(stack[level], 1) + 2
<1>1. Len(stack) \in Nat
  BY BelowLevels
<1>2. level \in 1 .. Len(stack) /\ level < Len(stack) /\ level # 0
  BY <1>1
<1>3. Awaited(level) = 1 /\ Turn(level) = 2
  BY <1>2 DEF Awaited, Turn
<1>4. stack[level].phase # "enter"
  BY <1>2, <1>3 DEF BudgetInv, Budget
<1> QED
  BY <1>2, <1>3, <1>4 DEF StepsLeft

\* A call that waits before and after a step has as much to do.
LEMMA LevelRests ==
    ASSUME NEW level \in Nat, Len(stack) \in Nat, Len(stack') \in Nat,
           level < Len(stack), level < Len(stack'), level # 0 => stack'[level] = stack[level]
    PROVE  StepsLeft(level)' = StepsLeft(level)
<1>1. Awaited(level) = 1 /\ Awaited(level)' = 1 /\ Turn(level) = 2 /\ Turn(level)' = 2
  BY DEF Awaited, Turn
<1>2. CASE level = 0
  BY <1>1, <1>2 DEF StepsLeft
<1>3. CASE level # 0
  <2>1. level \in 1 .. Len(stack) /\ level \in 1 .. Len(stack') /\ stack'[level] = stack[level]
    BY <1>3
  <2>2. CASE stack[level].phase = "enter"
    BY <1>3, <2>1, <2>2 DEF StepsLeft
  <2>3. CASE stack[level].phase # "enter"
    <3>1. StepsLeft(level) = 4 * PartsLeft(stack[level], 1) + 2
      BY <1>1, <1>3, <2>1, <2>3 DEF StepsLeft
    <3>2. StepsLeft(level)' = 4 * PartsLeft(stack'[level], 1) + 2
      BY <1>1, <1>3, <2>1, <2>3 DEF StepsLeft
    <3> QED
      BY <2>1, <3>1, <3>2
  <2> QED
    BY <2>2, <2>3
<1> QED
  BY <1>2, <1>3

\* The same for all levels below one.
LEMMA LevelsRest ==
    ASSUME NEW level \in Nat, Len(stack) \in Nat, Len(stack') \in Nat,
           level <= Len(stack), level <= Len(stack'),
           \A below \in 1 .. level - 1 : stack'[below] = stack[below]
    PROVE  \A below \in 0 .. level - 1 : StepsLeft(below)' = StepsLeft(below)
<1> SUFFICES ASSUME NEW below \in 0 .. level - 1
             PROVE  StepsLeft(below)' = StepsLeft(below)
  OBVIOUS
<1>1. below \in Nat /\ below < Len(stack) /\ below < Len(stack')
  OBVIOUS
<1>2. below # 0 => stack'[below] = stack[below]
  OBVIOUS
<1> QED
  BY <1>1, <1>2, LevelRests

LEMMA UnwoundDescends ==
    ASSUME ChainInv, stack # <<>>, Unwound
    PROVE  Descends(0)
<1>1. Len(stack) \in Nat \ {0} /\ Len(stack') = 0
  BY BelowLevels, EmptySequence DEF Unwound
<1>2. StepsLeft(0) = 2
  BY <1>1 DEF StepsLeft, Turn
<1>3. StepsLeft(0)' \in {0, 1}
  BY <1>1 DEF StepsLeft, Turn, Unwound
<1> QED
  BY <1>2, <1>3 DEF Descends, Fewer, Unknown

LEMMA LeavesDescends ==
    ASSUME ChainInv, CallsInv, BudgetInv, stack # <<>>, Leaves,
           NEW n \in Nat, Len(stack) = n + 1
    PROVE  Descends(n)
<1>1. /\ Len(stack') = n
      /\ \A level \in 1 .. n : stack'[level] = stack[level]
  BY BelowLevels DEF Leaves
<1>2. \A below \in 0 .. n - 1 : StepsLeft(below)' = StepsLeft(below)
  BY <1>1, LevelsRest
<1>3. Fewer(StepsLeft(n)', StepsLeft(n))
  <2>1. Turn(n)' \in {0, 1} /\ Awaited(n)' = 1
    BY <1>1 DEF Turn, Awaited, Leaves
  <2>2. CASE n = 0
    <3>1. StepsLeft(n) = 2 /\ StepsLeft(n)' \in {0, 1}
      BY <1>1, <2>1, <2>2 DEF StepsLeft, Turn
    <3> QED
      BY <3>1 DEF Fewer, Unknown
  <2>3. CASE n # 0
    <3>1. n \in 1 .. n /\ n \in 1 .. Len(stack)
      BY <1>1, <2>3
    <3>2. stack[n].phase # "enter" /\ StepsLeft(n) = 4 * PartsLeft(stack[n], 1) + 2
      BY <1>1, <3>1, WaitingSteps
    <3>3. PartsLeft(stack[n], 1) \in Nat
      <4>1. Awaited(n) = 1
        BY <1>1 DEF Awaited
      <4>2. PartsLeft(stack[n], Awaited(n)) \in Nat
        BY <3>1, LevelsAreCounted
      <4> QED
        BY <4>1, <4>2
    <3>4. stack'[n] = stack[n] /\ n \in 1 .. Len(stack')
      BY <1>1, <3>1
    <3>5. StepsLeft(n)' = 4 * PartsLeft(stack'[n], 1) + Turn(n)'
      BY <2>1, <2>3, <3>2, <3>4 DEF StepsLeft
    <3>6. StepsLeft(n)' = 4 * PartsLeft(stack[n], 1) + Turn(n)'
      BY <3>4, <3>5
    <3> QED
      BY <2>1, <3>2, <3>3, <3>6 DEF Fewer, Unknown
  <2> QED
    BY <2>2, <2>3
<1> QED
  BY <1>2, <1>3 DEF Descends

LEMMA ProceedsDescends ==
    ASSUME ChainInv, stack # <<>>, NEW call, Proceeds(call), NEW n \in Nat, n = Len(stack)
    PROVE  Descends(n)
<1>1. stack' = Now(call) /\ result' = NoResult
  BY DEF Proceeds, Continue
<1>2. n # 0 /\ Len(stack') = n /\ stack'[n] = call /\ \A level \in 1 .. n - 1 : stack'[level] = stack[level]
  BY <1>1, NowLevels, BelowLevels
<1>3. \A below \in 0 .. n - 1 : StepsLeft(below)' = StepsLeft(below)
  BY <1>2, LevelsRest
<1>4. StepsLeft(n)' = 4 * PartsLeft(stack'[n], 0) + 3
  <2>0. ~ (n < Len(stack')) /\ n = Len(stack')
    BY <1>2
  <2>1. Awaited(n)' = 0 /\ Turn(n)' = 3
    BY <1>1, <2>0 DEF Awaited, Turn, NoResult
  <2>2. n \in 1 .. Len(stack') /\ stack'[n].phase # "enter"
    BY <1>2 DEF Proceeds
  <2> QED
    BY <1>2, <2>1, <2>2 DEF StepsLeft
<1> QED
  BY <1>2, <1>3, <1>4 DEF Descends, Proceeds

\* With the limit of the breaker the call gets an error at once.
LEMMA AsksDescends ==
    ASSUME ChainInv, CallsInv, BudgetInv, stack # <<>>, NEW call, Asks(call),
           NEW n \in Nat, n = Len(stack)
    PROVE  Descends(n)
<1>1. PICK calling, s :
          /\ Call(calling, s) /\ IsSequence(calling) /\ Len(calling) = n /\ calling[n] = call
          /\ \A level \in 1 .. n - 1 : calling[level] = stack[level]
  BY DEF Asks
<1>2. n # 0 /\ call.phase # "enter" /\ PartsLeft(call, 1) \in Nat
  BY BelowLevels DEF Asks
<1>3. CASE Len(calling) >= MaxLevel
  <2>1. stack' = calling /\ result' = Failed
    BY <1>1, <1>3 DEF Call
  <2>2. \A below \in 0 .. n - 1 : StepsLeft(below)' = StepsLeft(below)
    BY <1>1, <1>2, <2>1, LevelsRest
  <2>3. Awaited(n)' = 1 /\ Turn(n)' = 0
    BY <1>1, <2>1 DEF Awaited, Turn, Failed, NoResult
  <2>4. StepsLeft(n)' = 4 * PartsLeft(stack'[n], 1) + 0
    BY <1>1, <1>2, <2>1, <2>3 DEF StepsLeft
  <2>5. StepsLeft(n)' = 4 * PartsLeft(call, 1)
    BY <1>1, <1>2, <2>1, <2>4
  <2>6. Fewer(4 * PartsLeft(call, 1) + 2, StepsLeft(n))
    BY DEF Asks
  <2>7. Fewer(StepsLeft(n)', StepsLeft(n))
    BY <1>2, <2>5, <2>6, StepsAreCounted DEF Fewer, Unknown, Counts
  <2> QED
    BY <2>2, <2>7 DEF Descends
<1>4. CASE ~(Len(calling) >= MaxLevel)
  <2>1. stack' = Append(calling, Frame(s)) /\ result' = NoResult
    BY <1>1, <1>4 DEF Call
  <2>2. /\ Len(stack') = n + 1 /\ stack'[n] = call
        /\ \A level \in 1 .. n - 1 : stack'[level] = stack[level]
    BY <1>1, <1>2, <2>1, AppendLevels
  <2>3. \A below \in 0 .. n - 1 : StepsLeft(below)' = StepsLeft(below)
    BY <1>2, <2>2, LevelsRest
  <2>4. Awaited(n)' = 1 /\ Turn(n)' = 2
    BY <2>2 DEF Awaited, Turn
  <2>5. StepsLeft(n)' = 4 * PartsLeft(stack'[n], 1) + 2
    BY <1>2, <2>2, <2>4 DEF StepsLeft
  <2> QED
    BY <2>2, <2>3, <2>5 DEF Descends, Asks
<1> QED
  BY <1>3, <1>4

LEMMA TiresDescends ==
    ASSUME ChainInv, CallsInv, BudgetInv, stack # <<>>, Tires, NEW n \in Nat, n = Len(stack)
    PROVE  Descends(n)
<1>1. n # 0 /\ stack' = stack /\ result # NoResult /\ result' # NoResult /\ result'.status # "ok"
  BY BelowLevels DEF Tires, NoResult, AttemptsExceeded
<1>2. \A below \in 0 .. n - 1 : StepsLeft(below)' = StepsLeft(below)
  BY <1>1, LevelsRest
<1>3. Awaited(n) = 1 /\ Turn(n) = 1 /\ Awaited(n)' = 1 /\ Turn(n)' = 0
  BY <1>1 DEF Awaited, Turn, Tires
<1>4. n \in 1 .. Len(stack) /\ stack[n].phase # "enter"
  <2>1. n \in 1 .. Len(stack)
    BY <1>1
  <2> QED
    BY <1>3, <2>1 DEF BudgetInv, Budget
<1>5. PartsLeft(stack[n], 1) \in Nat
  BY <1>3, <1>4, LevelsAreCounted
<1>6. StepsLeft(n) = 4 * PartsLeft(stack[n], 1) + 1
  BY <1>1, <1>3, <1>4 DEF StepsLeft
<1>7. StepsLeft(n)' = 4 * PartsLeft(stack'[n], 1) + 0
  BY <1>1, <1>3, <1>4 DEF StepsLeft
<1>8. StepsLeft(n)' = 4 * PartsLeft(stack[n], 1)
  BY <1>1, <1>5, <1>7
<1> QED
  BY <1>2, <1>5, <1>6, <1>8 DEF Descends, Fewer, Unknown

LEMMA StepsRest ==
    ASSUME Rests, NEW level \in Nat
    PROVE  StepsLeft(level)' = StepsLeft(level)
BY DEF Rests, StepsLeft, Turn, Awaited

\* Every step of the chain that does not leave the stack to the merger descends.
LEMMA LevelStepDescends ==
    ASSUME ChainInv, CallsInv, BudgetInv, stack # <<>>, LevelStep
    PROVE  \E level \in 0 .. MaxLevel : Descends(level)
<1>1. Len(stack) \in Nat \ {0} /\ Len(stack) <= MaxLevel /\ MaxLevel \in Nat
  BY BelowLevels, LevelAssumption DEF ChainInv
<1>2. PICK n \in 1 .. MaxLevel : n = Len(stack)
  BY <1>1
<1>3. n \in Nat /\ n \in 0 .. MaxLevel /\ n - 1 \in Nat /\ n - 1 \in 0 .. MaxLevel
      /\ n - 1 + 1 = n /\ 0 \in 0 .. MaxLevel
  BY <1>1
<1>4. CASE Leaves
  <2>1. Descends(n - 1)
    BY <1>2, <1>3, <1>4, LeavesDescends
  <2> QED
    BY <1>3, <2>1
<1>5. CASE Unwound
  BY <1>3, <1>5, UnwoundDescends
<1>6. CASE Tires
  BY <1>2, <1>3, <1>6, TiresDescends
<1>7. ASSUME NEW call, Proceeds(call) PROVE Descends(n)
  BY <1>2, <1>3, <1>7, ProceedsDescends
<1>8. ASSUME NEW call, Asks(call) PROVE Descends(n)
  BY <1>2, <1>3, <1>8, AsksDescends
<1> QED
  BY <1>3, <1>4, <1>5, <1>6, <1>7, <1>8 DEF LevelStep

\* A call that waits has its budget as one that awaits a part.
LEMMA WaitingBudget ==
    ASSUME ChainInv, BudgetInv, stack # <<>>, NEW level \in 1 .. Len(stack) - 1
    PROVE  Budget(stack[level], 1)
<1>1. Len(stack) \in Nat
  BY BelowLevels
<1>2. level \in 1 .. Len(stack) /\ Awaited(level) = 1
  BY <1>1 DEF Awaited
<1> QED
  BY <1>2 DEF BudgetInv

LEMMA LevelStepKeeps ==
    ASSUME ChainInv, BudgetInv, stack # <<>>, LevelStep \/ Rests
    PROVE  BudgetInv'
<1>1. PICK n \in Nat \ {0} : n = Len(stack)
  BY BelowLevels
<1>2. \A level \in 1 .. n - 1 : Budget(stack[level], 1)
  BY <1>1, WaitingBudget
<1>3. CASE Leaves
  <2>1. Len(stack') = n - 1 /\ \A level \in 1 .. n - 1 : stack'[level] = stack[level]
    BY <1>1, <1>3, BelowLevels DEF Leaves
  <2>2. \A level \in 1 .. Len(stack') : Awaited(level)' = 1
    BY <1>3 DEF Awaited, Leaves
  <2> QED
    BY <1>2, <2>1, <2>2 DEF BudgetInv
<1>4. CASE Unwound
  <2>1. Len(stack') = 0
    BY <1>4, EmptySequence DEF Unwound
  <2> QED
    BY <2>1 DEF BudgetInv
<1>5. CASE Tires
  <2>1. stack' = stack /\ \A level \in 1 .. Len(stack) : Awaited(level)' = Awaited(level)
    BY <1>5 DEF Tires, Awaited, NoResult, AttemptsExceeded
  <2> QED
    BY <2>1 DEF BudgetInv
<1>6. CASE Rests
  BY <1>6 DEF Rests, BudgetInv, Awaited
<1>7. ASSUME NEW call, Proceeds(call) PROVE BudgetInv'
  <2>1. stack' = Now(call) /\ result' = NoResult /\ Budget(call, 0)
    BY <1>7 DEF Proceeds, Continue
  <2>2. /\ Len(stack') = n /\ stack'[n] = call
        /\ \A level \in 1 .. n - 1 : stack'[level] = stack[level]
    BY <1>1, <2>1, NowLevels
  <2>3. ASSUME NEW level \in 1 .. n PROVE Budget(stack'[level], Awaited(level)')
    <3>1. CASE level = n
      <4>1. Awaited(level)' = 0
        BY <2>1, <2>2, <3>1 DEF Awaited
      <4> QED
        BY <2>1, <2>2, <3>1, <4>1
    <3>2. CASE level # n
      <4>1. level \in 1 .. n - 1 /\ level < n
        BY <3>2
      <4>2. Awaited(level)' = 1
        BY <2>2, <4>1 DEF Awaited
      <4> QED
        BY <1>2, <2>2, <4>1, <4>2
    <3> QED
      BY <3>1, <3>2
  <2> QED
    BY <2>2, <2>3 DEF BudgetInv
<1>8. ASSUME NEW call, Asks(call) PROVE BudgetInv'
  <2>1. PICK calling, s :
            /\ Call(calling, s) /\ IsSequence(calling) /\ Len(calling) = n /\ calling[n] = call
            /\ \A level \in 1 .. n - 1 : calling[level] = stack[level]
    BY <1>1, <1>8 DEF Asks
  <2>2. Budget(call, 1)
    BY <1>8 DEF Asks
  <2>3. \A level \in 1 .. n : Budget(calling[level], 1)
    <3>1. ASSUME NEW level \in 1 .. n PROVE Budget(calling[level], 1)
      <4>1. level = n \/ level \in 1 .. n - 1
        OBVIOUS
      <4> QED
        BY <1>2, <2>1, <2>2, <4>1
    <3> QED
      BY <3>1
  <2>4. CASE Len(calling) >= MaxLevel
    <3>1. stack' = calling /\ result' = Failed
      BY <2>1, <2>4 DEF Call
    <3>2. \A level \in 1 .. n : Awaited(level)' = 1
      BY <3>1 DEF Awaited, Failed, NoResult
    <3> QED
      BY <2>1, <2>3, <3>1, <3>2 DEF BudgetInv
  <2>5. CASE ~(Len(calling) >= MaxLevel)
    <3>1. stack' = Append(calling, Frame(s)) /\ result' = NoResult
      BY <2>1, <2>5 DEF Call
    <3>2. /\ Len(stack') = n + 1 /\ stack'[n + 1] = Frame(s)
          /\ \A level \in 1 .. n : stack'[level] = calling[level]
      BY <2>1, <3>1, AppendLevels
    <3>3. ASSUME NEW level \in 1 .. n + 1 PROVE Budget(stack'[level], Awaited(level)')
      <4>1. CASE level = n + 1
        <5>1. Awaited(level)' = 0
          BY <3>1, <3>2, <4>1 DEF Awaited
        <5>2. Budget(Frame(s), 0)
          BY DEF Budget, Frame
        <5> QED
          BY <3>2, <4>1, <5>1, <5>2
      <4>2. CASE level # n + 1
        <5>1. level \in 1 .. n /\ level < n + 1
          BY <4>2
        <5>2. Awaited(level)' = 1
          BY <3>2, <5>1 DEF Awaited
        <5> QED
          BY <2>3, <3>2, <5>1, <5>2
      <4> QED
        BY <4>1, <4>2
    <3> QED
      BY <3>2, <3>3 DEF BudgetInv
  <2> QED
    BY <2>4, <2>5
<1> QED
  BY <1>3, <1>4, <1>5, <1>6, <1>7, <1>8 DEF LevelStep

-----------------------------------------------------------------------------
(* The actions of the chain as such steps *)

LEMMA ReturnLevels ==
    ASSUME NEW r, r.status \in Outcomes, Return(r)
    PROVE  LevelStep
<1>1. CASE r = Panic
  BY <1>1 DEF Return, LevelStep, Unwound, Panic, NoResult
<1>2. CASE r # Panic
  BY <1>2 DEF Return, LevelStep, Leaves, Outcomes, Ok, NoResult
<1> QED
  BY <1>1, <1>2

\* What the top call has left, when it is at work or has a value to take, and
\* what it can have of it.
LEMMA TopLevel ==
    ASSUME ChainInv, CallsInv, BudgetInv, stack # <<>>
    PROVE  /\ IsCall(Top)
           /\ Budget(Top, IF result = NoResult THEN 0 ELSE 1)
           /\ Top.phase = "enter" => StepsLeft(Len(stack)) = Unknown
           /\ result = NoResult /\ Top.phase # "enter" =>
                  /\ PartsLeft(Top, 0) \in Nat
                  /\ StepsLeft(Len(stack)) = 4 * PartsLeft(Top, 0) + 3
           /\ result.status = "ok" =>
                  /\ Top.phase # "enter"
                  /\ PartsLeft(Top, 1) \in Nat
                  /\ StepsLeft(Len(stack)) = 4 * PartsLeft(Top, 1) + 1
<1>1. Len(stack) \in Nat \ {0} /\ Len(stack) \in 1 .. Len(stack) /\ stack[Len(stack)] = Top
  BY BelowLevels DEF Top
<1> DEFINE awaited == IF result = NoResult THEN 0 ELSE 1
<1>2. Awaited(Len(stack)) = awaited
  BY <1>1 DEF Awaited
<1>3. IsCall(Top)
  BY TopCall
<1>4. Budget(Top, awaited)
  BY <1>1, <1>2 DEF BudgetInv
<1>5. PartsLeft(Top, awaited) \in Nat
  BY <1>3, <1>4, PartsAreCounted
<1>6. Top.phase = "enter" => StepsLeft(Len(stack)) = Unknown
  BY <1>1 DEF StepsLeft
<1>7. Top.phase # "enter" =>
          StepsLeft(Len(stack)) = 4 * PartsLeft(Top, awaited) + Turn(Len(stack))
  BY <1>1, <1>2 DEF StepsLeft
<1>8. /\ result = NoResult => awaited = 0 /\ Turn(Len(stack)) = 3
      /\ result.status = "ok" => awaited = 1 /\ Turn(Len(stack)) = 1
  BY <1>1 DEF Turn, NoResult
<1>9. result.status = "ok" => Top.phase # "enter"
  BY <1>4, <1>8 DEF Budget
<1> QED
  BY <1>3, <1>4, <1>5, <1>6, <1>7, <1>8, <1>9

LEMMA AsksNow ==
    ASSUME ChainInv, stack # <<>>, NEW call, NEW s, Call(Now(call), s),
           Budget(call, 1), call.phase # "enter", PartsLeft(call, 1) \in Nat,
           Fewer(4 * PartsLeft(call, 1) + 2, StepsLeft(Len(stack)))
    PROVE  LevelStep
<1>1. /\ IsSequence(Now(call)) /\ Len(Now(call)) = Len(stack) /\ Now(call)[Len(stack)] = call
      /\ \A level \in 1 .. Len(stack) - 1 : Now(call)[level] = stack[level]
  BY NowLevels
<1>2. Asks(call)
  BY <1>1 DEF Asks
<1> QED
  BY <1>2 DEF LevelStep

\* A call that enters and delegates all of its work.
LEMMA PassesLevels ==
    ASSUME ChainInv, CallsInv, BudgetInv, stack # <<>>, Top.phase = "enter",
           NEW s, Call(Now([Top EXCEPT !.phase = "pass"]), s)
    PROVE  LevelStep
<1> DEFINE call == [Top EXCEPT !.phase = "pass"]
<1>1. IsCall(Top) /\ StepsLeft(Len(stack)) = Unknown
  BY TopLevel
<1>2. call.phase = "pass"
  BY <1>1 DEF IsCall, Fields
<1> HIDE DEF call
<1>3. PartsLeft(call, 1) = 0 /\ Budget(call, 1)
  BY <1>2, PartsByPhase DEF Budget
<1>4. Fewer(4 * PartsLeft(call, 1) + 2, StepsLeft(Len(stack)))
  BY <1>1, <1>3 DEF Fewer, Unknown
<1>5. Call(Now(call), s)
  BY DEF call
<1>6. call.phase # "enter" /\ PartsLeft(call, 1) \in Nat
  BY <1>2, <1>3
<1> QED
  BY <1>3, <1>4, <1>5, <1>6, AsksNow, Zenon

LEMMA OneOfLevels ==
    ASSUME ChainInv, CallsInv, BudgetInv, GenerateOneOf
    PROVE  LevelStep
<1> DEFINE members == Top.schema.oneOf
<1>1. stack # <<>> /\ Top.phase = "enter"
  BY DEF GenerateOneOf, Generates, Delegates, Entered
<1>2. CASE members = <<>>
  BY <1>2, ReturnLevels DEF GenerateOneOf, Ok, Outcomes
<1>3. CASE members # <<>>
  BY <1>1, <1>3, PassesLevels DEF GenerateOneOf
<1> QED
  BY <1>2, <1>3

LEMMA GenerateArrayLevels ==
    ASSUME ChainInv, CallsInv, BudgetInv, GenerateArray
    PROVE  LevelStep
<1> DEFINE s == Top.schema
           phase == IF Has(s, "unique") THEN "unique" ELSE "item"
           call == [Top EXCEPT !.phase = phase]
           min == MinItems(s)
<1>1. stack # <<>> /\ result = NoResult /\ Top.phase = "enter"
  BY DEF GenerateArray, Generates, Delegates, Entered
<1>2. IsCall(Top) /\ StepsLeft(Len(stack)) = Unknown /\ Top.tries = 0 /\ Top.made = <<>>
  BY <1>1, TopLevel DEF Budget, IsCall
<1>3. min \in Nat
  BY <1>2, SizesAreCounted DEF IsCall
<1>4. CASE Return(Ok(Array(<<Null>>)))
  BY <1>4, ReturnLevels DEF Ok, Outcomes
<1>5. CASE Continue(call)
  <2>1. /\ call.schema = s /\ call.phase = phase /\ call.made = <<>> /\ call.tries = 0
        /\ phase \in {"item", "unique"}
    BY <1>2 DEF IsCall, Fields
  <2>2. Len(<<>>) = 0 /\ Length(min) \in Nat \ {0} /\ MaxAttempts \in Nat \ {0}
    BY <1>3, LevelAssumption DEF Length
  <2>3. Lacking(min, 0) \in Nat
    BY <1>3, LackingCounts
  <2>4. MaxAttempts * Lacking(min, 0) - 0 \in Nat
    BY <2>2, <2>3
  <2> HIDE DEF call, phase
  <2>5. PartsLeft(call, 0) \in Nat
    BY <2>1, <2>2, <2>3, <2>4, PartsByPhase
  <2>6. Budget(call, 0)
    BY <2>1, <2>2 DEF Budget
  <2>7. Fewer(4 * PartsLeft(call, 0) + 3, StepsLeft(Len(stack)))
    BY <1>2, <2>5 DEF Fewer, Unknown
  <2> QED
    BY <1>5, <2>1, <2>5, <2>6, <2>7 DEF LevelStep, Proceeds
<1> QED
  BY <1>4, <1>5 DEF GenerateArray

\* A list at work, which has so many items and may lack more.
LEMMA TopItems ==
    ASSUME ChainInv, CallsInv, BudgetInv, stack # <<>>, Top.phase \in {"item", "unique"}
    PROVE  /\ MinItems(Top.schema) \in Nat
           /\ Length(MinItems(Top.schema)) \in Nat
           /\ Len(Top.made) \in Nat
           /\ IsSequence(Top.made)
           /\ Lacking(MinItems(Top.schema), Len(Top.made)) \in Nat
           /\ Top.phase = "unique" => Top.tries \in 0 .. MaxAttempts - 1
           /\ result # NoResult \/ Len(Top.made) # Length(MinItems(Top.schema)) =>
                  /\ Len(Top.made) < Length(MinItems(Top.schema))
                  /\ Lacking(MinItems(Top.schema), Len(Top.made)) \in Nat \ {0}
<1>1. IsCall(Top) /\ Budget(Top, IF result = NoResult THEN 0 ELSE 1)
  BY TopLevel
<1>2. MinItems(Top.schema) \in Nat
  BY <1>1, SizesAreCounted DEF IsCall
<1>3. IsSequence(Top.made) /\ Len(Top.made) \in Nat
  BY <1>1 DEF IsCall, IsSequence
<1>4. /\ Length(MinItems(Top.schema)) \in Nat
      /\ Lacking(MinItems(Top.schema), Len(Top.made)) \in Nat
      /\ Len(Top.made) < Length(MinItems(Top.schema)) =>
             Lacking(MinItems(Top.schema), Len(Top.made)) # 0
  BY <1>2, <1>3, LackingCounts
<1>5. result # NoResult \/ Len(Top.made) # Length(MinItems(Top.schema)) =>
          Len(Top.made) < Length(MinItems(Top.schema))
  BY <1>1 DEF Budget
<1>6. Top.phase = "unique" => Top.tries \in 0 .. MaxAttempts - 1
  BY <1>1 DEF Budget
<1> QED
  BY <1>2, <1>3, <1>4, <1>5, <1>6

LEMMA NextItemLevels ==
    ASSUME ChainInv, CallsInv, BudgetInv, NextItem
    PROVE  LevelStep
<1> DEFINE length == Length(MinItems(Top.schema))
<1>1. stack # <<>> /\ result = NoResult /\ Top.phase \in {"item", "unique"}
  BY DEF NextItem, Working
<1>2. CASE Len(Top.made) = length
  <2>1. Return(Ok(Array(Top.made)))
    BY <1>2, Zenon DEF NextItem
  <2> QED
    BY <2>1, ReturnLevels DEF Ok, Outcomes
<1>3. CASE Len(Top.made) # length /\ ~Has(Top.schema, "items")
  <2>1. Return(Panic)
    BY <1>3, Zenon DEF NextItem
  <2> QED
    BY <2>1, ReturnLevels DEF Panic, Outcomes
<1>4. CASE Len(Top.made) # length /\ Has(Top.schema, "items")
  <2>1. Call(stack, Schemas[Top.schema.items])
    BY <1>4, Zenon DEF NextItem
  <2>2. IsSequence(stack) /\ stack[Len(stack)] = Top
    BY DEF ChainInv, Top
  <2>3. Len(Top.made) < length
    BY <1>1, <1>4, TopItems
  <2>4. Budget(Top, 0) /\ PartsLeft(Top, 0) \in Nat /\ StepsLeft(Len(stack)) = 4 * PartsLeft(Top, 0) + 3
    BY <1>1, TopLevel
  <2>5. PartsLeft(Top, 1) = PartsLeft(Top, 0)
    BY <1>1, PartsByPhase
  <2>6. Budget(Top, 1)
    BY <1>1, <2>3, <2>4 DEF Budget
  <2>7. Fewer(4 * PartsLeft(Top, 1) + 2, StepsLeft(Len(stack)))
    BY <2>4, <2>5 DEF Fewer, Unknown
  <2>8. Asks(Top)
    BY <1>1, <2>1, <2>2, <2>4, <2>5, <2>6, <2>7 DEF Asks
  <2> QED
    BY <2>8 DEF LevelStep
<1> QED
  BY <1>2, <1>3, <1>4

LEMMA KeepItemLevels ==
    ASSUME ChainInv, CallsInv, BudgetInv, KeepItem
    PROVE  LevelStep
<1> DEFINE made == Append(Top.made, result.data)
           call == [Top EXCEPT !.made = made]
           min == MinItems(Top.schema)
           held == Len(Top.made)
<1>1. stack # <<>> /\ result.status = "ok" /\ Top.phase = "item" /\ Continue(call)
  BY DEF KeepItem, Returned
<1>2. IsCall(Top) /\ PartsLeft(Top, 1) \in Nat /\ StepsLeft(Len(stack)) = 4 * PartsLeft(Top, 1) + 1
  BY <1>1, TopLevel
<1>3. result # NoResult
  BY <1>1 DEF NoResult
<1>4. min \in Nat /\ held \in Nat /\ held < Length(min) /\ IsSequence(Top.made) /\ Length(min) \in Nat
  BY <1>1, <1>3, TopItems
<1>5. Len(made) = held + 1
  BY <1>4, AppendSequence
<1>6. call.schema = Top.schema /\ call.phase = "item" /\ call.made = made /\ call.tries = Top.tries
  BY <1>1, <1>2 DEF IsCall, Fields
<1> HIDE DEF call, made
<1>7. PartsLeft(Top, 1) = Lacking(min, held) /\ PartsLeft(call, 0) = Lacking(min, held + 1)
  BY <1>1, <1>5, <1>6, PartsByPhase
<1>8. Lacking(min, held + 1) = Lacking(min, held) - 1 /\ Lacking(min, held) # 0
  BY <1>4, LackingCounts
<1>9. PartsLeft(call, 0) \in Nat /\ Fewer(4 * PartsLeft(call, 0) + 3, StepsLeft(Len(stack)))
  BY <1>2, <1>7, <1>8 DEF Fewer, Unknown
<1>10. Budget(call, 0)
  <2>1. Top.tries = 0
    BY <1>1, TopLevel DEF Budget
  <2>2. held + 1 < Length(min) \/ held + 1 = Length(min)
    BY <1>4
  <2> QED
    BY <1>5, <1>6, <2>1, <2>2 DEF Budget
<1>11. Continue(call)
  BY <1>1 DEF call, made
<1> QED
  BY <1>6, <1>9, <1>10, <1>11 DEF LevelStep, Proceeds

LEMMA UniqueLevels ==
    ASSUME ChainInv, CallsInv, BudgetInv, KeepUnique \/ RepeatUnique
    PROVE  LevelStep
<1> DEFINE min == MinItems(Top.schema)
           held == Len(Top.made)
           lacking == Lacking(min, held)
<1>1. stack # <<>> /\ result.status = "ok" /\ Top.phase = "unique"
  BY DEF KeepUnique, RepeatUnique, Returned
<1>2. /\ IsCall(Top) /\ PartsLeft(Top, 1) \in Nat
      /\ StepsLeft(Len(stack)) = 4 * PartsLeft(Top, 1) + 1
  BY <1>1, TopLevel
<1>3. result # NoResult
  BY <1>1 DEF NoResult
<1>4. /\ min \in Nat /\ held \in Nat /\ held < Length(min) /\ Length(min) \in Nat
      /\ IsSequence(Top.made) /\ lacking \in Nat \ {0} /\ Top.tries \in 0 .. MaxAttempts - 1
  BY <1>1, <1>3, TopItems
<1>5. PartsLeft(Top, 1) = MaxAttempts * lacking - Top.tries
  BY <1>1, PartsByPhase
<1>6. CASE KeepUnique
  <2> DEFINE made == Append(Top.made, result.data)
             call == [Top EXCEPT !.made = made, !.tries = 0]
  <2>1. Continue(call)
    BY <1>6 DEF KeepUnique
  <2>2. Len(made) = held + 1
    BY <1>4, AppendSequence
  <2>3. call.schema = Top.schema /\ call.phase = "unique" /\ call.made = made /\ call.tries = 0
    BY <1>1, <1>2 DEF IsCall, Fields
  <2> HIDE DEF call, made
  <2>4. PartsLeft(call, 0) = MaxAttempts * Lacking(min, held + 1) - 0
    BY <2>2, <2>3, PartsByPhase
  <2>5. Lacking(min, held + 1) = lacking - 1
    BY <1>4, LackingCounts
  <2> HIDE DEF lacking
  <2>6. /\ MaxAttempts * (lacking - 1) \in Nat
        /\ MaxAttempts * (lacking - 1) < MaxAttempts * lacking - Top.tries
    BY <1>4, AttemptsProduct
  <2>7. PartsLeft(call, 0) = MaxAttempts * (lacking - 1)
    BY <2>4, <2>5, <2>6
  <2>8. PartsLeft(call, 0) \in Nat /\ PartsLeft(call, 0) < PartsLeft(Top, 1)
    BY <1>5, <2>6, <2>7
  <2>9. Fewer(4 * PartsLeft(call, 0) + 3, StepsLeft(Len(stack)))
    BY <1>2, <2>8 DEF Fewer, Unknown
  <2>10. Budget(call, 0)
    <3>1. held + 1 < Length(min) \/ held + 1 = Length(min)
      BY <1>4
    <3>2. 0 \in 0 .. MaxAttempts - 1
      BY LevelAssumption
    <3> QED
      BY <2>2, <2>3, <3>1, <3>2 DEF Budget
  <2> QED
    BY <2>1, <2>3, <2>8, <2>9, <2>10 DEF LevelStep, Proceeds
<1>7. CASE RepeatUnique /\ Top.tries + 1 < MaxAttempts
  <2> DEFINE call == [Top EXCEPT !.tries = @ + 1]
  <2>1. Continue(call)
    BY <1>7 DEF RepeatUnique
  <2>2. /\ call.schema = Top.schema /\ call.phase = "unique" /\ call.made = Top.made
        /\ call.tries = Top.tries + 1
    BY <1>1, <1>2 DEF IsCall, Fields
  <2> HIDE DEF call
  <2>3. PartsLeft(call, 0) = MaxAttempts * lacking - (Top.tries + 1)
    BY <2>2, PartsByPhase
  <2> HIDE DEF lacking
  <2>4. MaxAttempts * lacking - Top.tries \in Nat \ {0} /\ MaxAttempts * lacking \in Int
    <3>1. MaxAttempts * lacking - Top.tries \in Nat \ {0}
      BY <1>4, AttemptsProduct
    <3>2. MaxAttempts \in Int /\ lacking \in Int
      BY <1>4, LevelAssumption
    <3> QED
      BY <3>1, <3>2
  <2>5. PartsLeft(call, 0) \in Nat /\ PartsLeft(call, 0) = PartsLeft(Top, 1) - 1
    BY <1>4, <1>5, <2>3, <2>4
  <2>6. Fewer(4 * PartsLeft(call, 0) + 3, StepsLeft(Len(stack)))
    BY <1>2, <2>5 DEF Fewer, Unknown
  <2>7. Budget(call, 0)
    <3>1. Top.tries + 1 \in 0 .. MaxAttempts - 1
      BY <1>4, <1>7, LevelAssumption
    <3> QED
      BY <1>4, <2>2, <3>1 DEF Budget
  <2> QED
    BY <2>1, <2>2, <2>5, <2>6, <2>7 DEF LevelStep, Proceeds
<1>8. CASE RepeatUnique /\ ~(Top.tries + 1 < MaxAttempts)
  BY <1>1, <1>8 DEF RepeatUnique, LevelStep, Tires
<1> QED
  BY <1>6, <1>7, <1>8

LEMMA GenerateObjectLevels ==
    ASSUME ChainInv, CallsInv, BudgetInv, GenerateObject
    PROVE  LevelStep
<1> DEFINE s == Top.schema
           phase == IF IsHashMap(s) THEN "required" ELSE IF IsFreeForm(s) THEN "free" ELSE "property"
           todo == IF IsFreeForm(s) THEN {} ELSE Shown(s)
           queue == IF IsHashMap(s) THEN Required(s) ELSE <<>>
           call == [Top EXCEPT !.phase = phase, !.todo = todo, !.queue = queue, !.made = Empty]
           min == MinProps(s)
<1>1. stack # <<>> /\ result = NoResult /\ Top.phase = "enter"
  BY DEF GenerateObject, Generates, Delegates, Entered
<1>2. IsCall(Top) /\ StepsLeft(Len(stack)) = Unknown
  BY <1>1, TopLevel
<1>3. min \in Nat /\ WellFormed(s)
  BY <1>2, SizesAreCounted DEF IsCall
<1>4. Continue(call)
  BY DEF GenerateObject
<1>5. IsFiniteSet(todo)
  <2>1. IsFiniteSet(Properties(s))
    BY <1>3, FS_EmptySet DEF WellFormed, Properties
  <2>2. Shown(s) \subseteq Properties(s)
    BY DEF Shown
  <2> QED
    BY <2>1, <2>2, FS_EmptySet, FS_Subset
<1>6. Len(queue) \in Nat
  <2>1. Required(s) \in Seq(STRING)
    BY <1>1, PartSchema
  <2> QED
    BY <2>1, EmptySequence
<1>7. phase \in {"required", "free", "property"}
  OBVIOUS
<1>8. Cardinality(DOMAIN Empty) = 0
  <2>1. DOMAIN Empty = {}
    BY DEF Empty
  <2> QED
    BY <2>1, FS_EmptySet
<1> HIDE DEF phase, todo, queue
<1>9. /\ call.schema = s /\ call.phase = phase /\ call.todo = todo /\ call.queue = queue
      /\ call.made = Empty
  BY <1>2 DEF IsCall, Fields
<1> HIDE DEF call
<1>10. Lacking(min, 0) \in Nat /\ Cardinality(todo) \in Nat
  BY <1>3, <1>5, LackingCounts, FS_CardinalityType
<1>11. PartsLeft(call, 0) \in Nat
  <2>1. CASE phase = "required"
    BY <1>6, <1>9, <1>10, <2>1, PartsByPhase
  <2>2. CASE phase = "free"
    BY <1>8, <1>9, <1>10, <2>2, PartsByPhase
  <2>3. CASE phase = "property"
    BY <1>9, <1>10, <2>3, PartsByPhase
  <2> QED
    BY <1>7, <2>1, <2>2, <2>3
<1>12. Budget(call, 0)
  BY <1>5, <1>7, <1>9 DEF Budget
<1>13. Fewer(4 * PartsLeft(call, 0) + 3, StepsLeft(Len(stack)))
  BY <1>2, <1>11 DEF Fewer, Unknown
<1>14. call.phase # "enter"
  BY <1>7, <1>9
<1> QED
  BY <1>4, <1>11, <1>12, <1>13, <1>14 DEF LevelStep, Proceeds, call

LEMMA NextPropertyLevels ==
    ASSUME ChainInv, CallsInv, BudgetInv, NextProperty
    PROVE  LevelStep
<1>1. stack # <<>> /\ result = NoResult /\ Top.phase = "property"
  BY DEF NextProperty, Working
<1>2. /\ IsCall(Top) /\ Budget(Top, 0) /\ PartsLeft(Top, 0) \in Nat
      /\ StepsLeft(Len(stack)) = 4 * PartsLeft(Top, 0) + 3
  BY <1>1, TopLevel
<1>3. CASE Top.todo = {}
  BY <1>3, ReturnLevels DEF NextProperty, Ok, Outcomes
<1>4. CASE Top.todo # {}
  <2>1. PICK p \in Top.todo :
            Call(Now([Top EXCEPT !.name = p, !.todo = @ \ {p}]), Schemas[Top.schema.props[p]])
    BY <1>4 DEF NextProperty
  <2> DEFINE call == [Top EXCEPT !.name = p, !.todo = @ \ {p}]
             schema == Schemas[Top.schema.props[p]]
  <2>2. Call(Now(call), schema)
    BY <2>1
  <2>3. call.phase = "property" /\ call.todo = Top.todo \ {p}
    BY <1>1, <1>2 DEF IsCall, Fields
  <2> HIDE DEF call, schema
  <2>4. IsFiniteSet(Top.todo)
    BY <1>1, <1>2 DEF Budget
  <2>5. /\ IsFiniteSet(Top.todo \ {p}) /\ Cardinality(Top.todo \ {p}) = Cardinality(Top.todo) - 1
        /\ Cardinality(Top.todo) \in Nat
    BY <2>1, <2>4, FS_RemoveElement, FS_CardinalityType
  <2>6. /\ PartsLeft(Top, 0) = Cardinality(Top.todo) + 0
        /\ PartsLeft(call, 1) = Cardinality(Top.todo \ {p}) + 1
    <3>1. PartsLeft(Top, 0) = Cardinality(Top.todo) + 0
      BY <1>1, PartsByPhase, Zenon
    <3>2. PartsLeft(call, 1) = Cardinality(call.todo) + 1
      BY <2>3, PartsByPhase, Zenon
    <3> QED
      BY <2>3, <3>1, <3>2, Zenon
  <2>7. PartsLeft(call, 1) = PartsLeft(Top, 0)
    BY <2>5, <2>6
  <2>8. Budget(call, 1)
    BY <2>3, <2>5 DEF Budget
  <2>9. Fewer(4 * PartsLeft(call, 1) + 2, StepsLeft(Len(stack)))
    BY <1>2, <2>7 DEF Fewer, Unknown
  <2>10. PartsLeft(call, 1) \in Nat /\ call.phase # "enter"
    BY <1>2, <2>3, <2>7
  <2> QED
    BY <1>1, <2>2, <2>8, <2>9, <2>10, AsksNow, Zenon
<1> QED
  BY <1>3, <1>4

\* The sizes of an object that is built by keys.
LEMMA TopEntries ==
    ASSUME ChainInv, CallsInv, BudgetInv, stack # <<>>,
           Top.phase \in {"required", "entry", "free", "property"}
    PROVE  /\ MinProps(Top.schema) \in Nat
           /\ Lacking(MinProps(Top.schema), 0) \in Nat
           /\ IsFiniteSet(DOMAIN Top.made)
           /\ Cardinality(DOMAIN Top.made) \in Nat
<1>1. IsCall(Top)
  BY TopLevel
<1>2. MinProps(Top.schema) \in Nat
  BY <1>1, SizesAreCounted DEF IsCall
<1>3. Lacking(MinProps(Top.schema), 0) \in Nat
  BY <1>2, LackingCounts
<1>4. IsFiniteSet(DOMAIN Top.made)
  BY <1>1 DEF IsCall
<1> QED
  BY <1>2, <1>3, <1>4, FS_CardinalityType

LEMMA NextRequiredLevels ==
    ASSUME ChainInv, CallsInv, BudgetInv, NextRequired
    PROVE  LevelStep
<1> DEFINE min == MinProps(Top.schema)
<1>1. stack # <<>> /\ result = NoResult /\ Top.phase = "required"
  BY DEF NextRequired, Working
<1>2. /\ IsCall(Top) /\ PartsLeft(Top, 0) \in Nat
      /\ StepsLeft(Len(stack)) = 4 * PartsLeft(Top, 0) + 3
  BY <1>1, TopLevel
<1>3. min \in Nat /\ Lacking(min, 0) \in Nat /\ Cardinality(DOMAIN Top.made) \in Nat
  BY <1>1, TopEntries
<1>4. Top.queue \in Seq(STRING) /\ Len(Top.queue) \in Nat
  BY <1>1, <1>2 DEF IsCall
<1>5. PartsLeft(Top, 0) = Len(Top.queue) + 0 + Lacking(min, 0) + 1
  BY <1>1, PartsByPhase
<1>6. CASE Top.queue = <<>>
  <2> DEFINE call == [Top EXCEPT !.phase = "entry"]
             left == Lacking(min, Cardinality(DOMAIN Top.made))
  <2>1. Continue(call)
    BY <1>6, Zenon DEF NextRequired
  <2>2. call.schema = Top.schema /\ call.phase = "entry" /\ call.made = Top.made
    BY <1>2 DEF IsCall, Fields
  <2> HIDE DEF call
  <2>3. PartsLeft(call, 0) = left
    BY <2>2, PartsByPhase
  <2>4. left \in Nat /\ left <= Lacking(min, 0)
    BY <1>3, LackingCounts
  <2> HIDE DEF left
  <2>5. PartsLeft(call, 0) \in Nat /\ PartsLeft(call, 0) < PartsLeft(Top, 0)
    BY <1>3, <1>4, <1>5, <2>3, <2>4
  <2>6. Fewer(4 * PartsLeft(call, 0) + 3, StepsLeft(Len(stack)))
    BY <1>2, <2>5 DEF Fewer, Unknown
  <2>7. Budget(call, 0)
    BY <2>2 DEF Budget
  <2> QED
    BY <2>1, <2>2, <2>5, <2>6, <2>7 DEF LevelStep, Proceeds
<1>7. CASE Top.queue # <<>> /\ Head(Top.queue) \notin Properties(Top.schema)
  <2>1. Return(Panic)
    BY <1>7, Zenon DEF NextRequired
  <2> QED
    BY <2>1, ReturnLevels DEF Panic, Outcomes
<1>8. CASE Top.queue # <<>> /\ Head(Top.queue) \in Properties(Top.schema)
  <2> DEFINE call == [Top EXCEPT !.name = Head(Top.queue), !.queue = Tail(@)]
             schema == Schemas[Top.schema.props[Head(Top.queue)]]
  <2>1. Call(Now(call), schema)
    BY <1>8, Zenon DEF NextRequired
  <2>2. call.schema = Top.schema /\ call.phase = "required" /\ call.queue = Tail(Top.queue)
    BY <1>1, <1>2 DEF IsCall, Fields
  <2> HIDE DEF call, schema
  <2>3. Len(Tail(Top.queue)) = Len(Top.queue) - 1 /\ Len(Top.queue) # 0
    <3> DEFINE q == Top.queue
    <3>1. q \in Seq(STRING) /\ q # <<>>
      BY <1>4, <1>8
    <3> HIDE DEF q
    <3>2. Len(Tail(q)) = Len(q) - 1 /\ Len(q) # 0
      BY <3>1, HeadTailProperties
    <3> QED
      BY <3>2 DEF q
  <2>4. PartsLeft(call, 1) = Len(Tail(Top.queue)) + 1 + Lacking(min, 0) + 1
    <3>1. PartsLeft(call, 1) = Len(call.queue) + 1 + Lacking(MinProps(call.schema), 0) + 1
      BY <2>2, PartsByPhase, Zenon
    <3> QED
      BY <2>2, <3>1, Zenon
  <2>5. PartsLeft(call, 1) = PartsLeft(Top, 0)
    BY <1>3, <1>4, <1>5, <2>3, <2>4
  <2>6. Budget(call, 1)
    BY <2>2 DEF Budget
  <2>7. Fewer(4 * PartsLeft(call, 1) + 2, StepsLeft(Len(stack)))
    BY <1>2, <2>5 DEF Fewer, Unknown
  <2>8. PartsLeft(call, 1) \in Nat /\ call.phase # "enter"
    BY <1>2, <2>2, <2>5
  <2> QED
    BY <1>1, <2>1, <2>6, <2>7, <2>8, AsksNow, Zenon
<1> QED
  BY <1>6, <1>7, <1>8

LEMMA NoNewKeyLevels ==
    ASSUME NoNewKey
    PROVE  LevelStep
<1>1. Return(Ok(Object(Top.made))) \/ Return(AttemptsExceeded)
  BY DEF NoNewKey
<1> QED
  BY <1>1, ReturnLevels DEF Ok, AttemptsExceeded, Outcomes

LEMMA NextEntryLevels ==
    ASSUME ChainInv, CallsInv, BudgetInv, NextEntry
    PROVE  LevelStep
<1>1. stack # <<>> /\ result = NoResult /\ Top.phase = "entry"
  BY DEF NextEntry, Working
<1>2. /\ IsCall(Top) /\ PartsLeft(Top, 0) \in Nat
      /\ StepsLeft(Len(stack)) = 4 * PartsLeft(Top, 0) + 3
  BY <1>1, TopLevel
<1>3. ASSUME NEW k \in NewKeys, Call(Now([Top EXCEPT !.name = k]), Schemas[Top.schema.additional])
      PROVE  LevelStep
  <2> DEFINE call == [Top EXCEPT !.name = k]
             schema == Schemas[Top.schema.additional]
  <2>1. Call(Now(call), schema)
    BY <1>3
  <2>2. /\ call.schema = Top.schema /\ call.phase = "entry" /\ call.made = Top.made
        /\ call.name = k
    BY <1>1, <1>2 DEF IsCall, Fields
  <2> HIDE DEF call, schema
  <2>3. k \notin DOMAIN Top.made /\ Cardinality(DOMAIN Top.made) < Length(MinProps(Top.schema))
    BY <1>3 DEF NewKeys, Size
  <2>4. PartsLeft(call, 1) = PartsLeft(Top, 0)
    BY <1>1, <2>2, PartsByPhase
  <2>5. Budget(call, 1)
    BY <2>2, <2>3 DEF Budget
  <2>6. Fewer(4 * PartsLeft(call, 1) + 2, StepsLeft(Len(stack)))
    BY <1>2, <2>4 DEF Fewer, Unknown
  <2>7. PartsLeft(call, 1) \in Nat /\ call.phase # "enter"
    BY <1>2, <2>2, <2>4
  <2> QED
    BY <1>1, <2>1, <2>5, <2>6, <2>7, AsksNow, Zenon
<1> QED
  BY <1>3, NoNewKeyLevels DEF NextEntry

\* A value under a new key makes an object larger by one.
LEMMA WithGrows ==
    ASSUME NEW f, IsFiniteSet(DOMAIN f), NEW p, p \notin DOMAIN f, NEW value
    PROVE  Cardinality(DOMAIN With(f, p, value)) = Cardinality(DOMAIN f) + 1
<1>1. DOMAIN With(f, p, value) = DOMAIN f \cup {p}
  BY DEF With
<1> QED
  BY <1>1, FS_AddElement

LEMMA NextFreeLevels ==
    ASSUME ChainInv, CallsInv, BudgetInv, NextFree
    PROVE  LevelStep
<1> DEFINE min == MinProps(Top.schema)
           size == Cardinality(DOMAIN Top.made)
<1>1. stack # <<>> /\ result = NoResult /\ Top.phase = "free"
  BY DEF NextFree, Working
<1>2. /\ IsCall(Top) /\ PartsLeft(Top, 0) \in Nat
      /\ StepsLeft(Len(stack)) = 4 * PartsLeft(Top, 0) + 3
  BY <1>1, TopLevel
<1>3. min \in Nat /\ size \in Nat /\ IsFiniteSet(DOMAIN Top.made)
  BY <1>1, TopEntries
<1>4. ASSUME NEW k \in NewKeys, Continue([Top EXCEPT !.made = With(@, k, [string |-> "lorem"])])
      PROVE  LevelStep
  <2> DEFINE made == With(Top.made, k, [string |-> "lorem"])
             call == [Top EXCEPT !.made = made]
  <2>1. Continue(call)
    BY <1>4
  <2>2. k \notin DOMAIN Top.made /\ size < Length(min)
    BY <1>4 DEF NewKeys, Size
  <2>3. Cardinality(DOMAIN made) = size + 1
    BY <1>3, <2>2, WithGrows
  <2> HIDE DEF made
  <2>4. call.schema = Top.schema /\ call.phase = "free" /\ call.made = made
    BY <1>1, <1>2 DEF IsCall, Fields
  <2> HIDE DEF call
  <2>5. PartsLeft(call, 0) = Lacking(min, size + 1) /\ PartsLeft(Top, 0) = Lacking(min, size)
    BY <1>1, <2>3, <2>4, PartsByPhase
  <2>6. Lacking(min, size + 1) = Lacking(min, size) - 1 /\ Lacking(min, size) # 0
    BY <1>3, <2>2, LackingCounts
  <2>7. PartsLeft(call, 0) \in Nat /\ PartsLeft(call, 0) < PartsLeft(Top, 0)
    BY <1>2, <2>5, <2>6
  <2>8. Fewer(4 * PartsLeft(call, 0) + 3, StepsLeft(Len(stack)))
    BY <1>2, <2>7 DEF Fewer, Unknown
  <2>9. Budget(call, 0)
    BY <2>4 DEF Budget
  <2> QED
    BY <2>1, <2>4, <2>7, <2>8, <2>9 DEF LevelStep, Proceeds
<1> QED
  BY <1>4, NoNewKeyLevels DEF NextFree

LEMMA KeepFieldLevels ==
    ASSUME ChainInv, CallsInv, BudgetInv, KeepField
    PROVE  LevelStep
<1> DEFINE made == With(Top.made, Top.name, result.data)
           call == [Top EXCEPT !.made = made]
           min == MinProps(Top.schema)
           size == Cardinality(DOMAIN Top.made)
<1>1. /\ stack # <<>> /\ result.status = "ok" /\ Top.phase \in {"property", "required", "entry"}
      /\ Continue(call)
  BY DEF KeepField, Returned
<1>2. /\ IsCall(Top) /\ PartsLeft(Top, 1) \in Nat
      /\ StepsLeft(Len(stack)) = 4 * PartsLeft(Top, 1) + 1
  BY <1>1, TopLevel
<1>3. result # NoResult
  BY <1>1 DEF NoResult
<1>4. Budget(Top, 1)
  BY <1>1, <1>3, TopLevel
<1>5. min \in Nat /\ Lacking(min, 0) \in Nat /\ size \in Nat /\ IsFiniteSet(DOMAIN Top.made)
  BY <1>1, TopEntries
<1>6. /\ call.schema = Top.schema /\ call.phase = Top.phase /\ call.made = made
      /\ call.todo = Top.todo /\ call.queue = Top.queue
  BY <1>2 DEF IsCall, Fields
<1>7. Top.phase = "entry" => Cardinality(DOMAIN made) = size + 1
  BY <1>4, <1>5, WithGrows DEF Budget
<1> HIDE DEF made
<1>8. Continue(call)
  BY <1>1
<1> HIDE DEF call
<1>9. PartsLeft(call, 0) \in Nat /\ PartsLeft(call, 0) < PartsLeft(Top, 1)
  <2>1. CASE Top.phase = "property"
    <3>1. Cardinality(Top.todo) \in Nat
      BY <1>4, <2>1, FS_CardinalityType DEF Budget
    <3>2. PartsLeft(call, 0) = Cardinality(Top.todo) + 0 /\ PartsLeft(Top, 1) = Cardinality(Top.todo) + 1
      BY <1>6, <2>1, PartsByPhase
    <3> QED
      BY <3>1, <3>2
  <2>2. CASE Top.phase = "required"
    <3>1. Len(Top.queue) \in Nat
      BY <1>2, <2>2 DEF IsCall
    <3>2. /\ PartsLeft(call, 0) = Len(Top.queue) + 0 + Lacking(min, 0) + 1
          /\ PartsLeft(Top, 1) = Len(Top.queue) + 1 + Lacking(min, 0) + 1
      BY <1>6, <2>2, PartsByPhase
    <3> QED
      BY <1>5, <3>1, <3>2
  <2>3. CASE Top.phase = "entry"
    <3>1. size < Length(min)
      BY <1>4, <2>3 DEF Budget
    <3>2. PartsLeft(call, 0) = Lacking(min, size + 1) /\ PartsLeft(Top, 1) = Lacking(min, size)
      BY <1>6, <1>7, <2>3, PartsByPhase
    <3>3. Lacking(min, size + 1) = Lacking(min, size) - 1 /\ Lacking(min, size) # 0
      BY <1>5, <3>1, LackingCounts
    <3> QED
      BY <1>2, <3>2, <3>3
  <2> QED
    BY <1>1, <2>1, <2>2, <2>3
<1>10. Fewer(4 * PartsLeft(call, 0) + 3, StepsLeft(Len(stack)))
  BY <1>2, <1>9 DEF Fewer, Unknown
<1>11. Budget(call, 0)
  BY <1>1, <1>4, <1>6 DEF Budget
<1>12. call.phase # "enter"
  BY <1>1, <1>6
<1> QED
  BY <1>8, <1>9, <1>10, <1>11, <1>12 DEF LevelStep, Proceeds

LEMMA PropagateLevels ==
    ASSUME Propagate
    PROVE  LevelStep
<1>1. result.status \in Outcomes /\ Return(result)
  BY DEF Propagate, Returned, IsError, Outcomes
<1> QED
  BY <1>1, ReturnLevels

-----------------------------------------------------------------------------
(* The merger *)

\* The calls of the merger around this one have as many members to do as before,
\* and it has less.
MembersDescend(level) ==
    /\ Fewer(MembersLeft(level)', MembersLeft(level))
    /\ \A around \in 1 .. level - 1 : MembersLeft(around)' = MembersLeft(around)

MergerStep ==
    \/ LevelStep
    \/ Rests /\ \E level \in 1 .. MaxMerging : MembersDescend(level)

LEMMA MembersAreCounted ==
    ASSUME MergerInv, NEW level \in Nat
    PROVE  MembersLeft(level) \in Counts
<1>1. CASE level \in 1 .. Len(merging)
  <2>1. merging[level].todo \in Seq(Names)
    BY <1>1 DEF MergerInv, WellMerging
  <2>2. Len(merging[level].todo) \in Nat
    BY <2>1
  <2> QED
    BY <1>1, <2>2 DEF MembersLeft, Counts
<1>2. CASE level \notin 1 .. Len(merging)
  BY <1>2 DEF MembersLeft, Counts
<1> QED
  BY <1>1, <1>2

LEMMA PanicMerges ==
    ASSUME Return(Panic)
    PROVE  MergerStep
BY ReturnLevels DEF Panic, Outcomes, MergerStep

\* A new call of the merger has members that were not known before.
LEMMA MergeSchemasDescends ==
    ASSUME ChainInv, NEW s, WellFormed(s), Has(s, "allOf") \/ Has(s, "anyOf"),
           MergeSchemas(merging, s)
    PROVE  MergerStep
<1> DEFINE n == Len(merging)
<1>1. IsSequence(merging) /\ n \in Nat /\ MaxMerging \in Nat
  BY LevelAssumption DEF ChainInv, IsSequence
<1>2. CASE n >= MaxMerging
  <2>1. stack' = <<>> /\ result' = Crash
    <3>1. ~ (n < MaxMerging)
      BY <1>1, <1>2
    <3> QED
      BY <1>2, <3>1, Zenon DEF MergeSchemas
  <2> QED
    BY <2>1 DEF MergerStep, LevelStep, Unwound, Crash, NoResult
<1>3. CASE n < MaxMerging /\ ~Has(s, "allOf") /\ ChoicePanics(s.anyOf)
  <2>1. ~ (n >= MaxMerging)
    BY <1>1, <1>3
  <2>2. Return(Panic)
    BY <1>3, <2>1, Zenon DEF MergeSchemas
  <2> QED
    BY <2>2, PanicMerges
<1>4. CASE n < MaxMerging /\ ~(~Has(s, "allOf") /\ ChoicePanics(s.anyOf))
  <2>1. /\ UNCHANGED <<stack, result>>
        /\ \E members \in Members(s) : merging' = Append(merging, [todo |-> members, merged |-> Empty])
    <3>1. ~ (n >= MaxMerging)
      BY <1>1, <1>4
    <3> QED
      BY <1>4, <3>1, Zenon DEF MergeSchemas
  <2>2. PICK members \in Members(s) : merging' = Append(merging, [todo |-> members, merged |-> Empty])
    BY <2>1
  <2>3. Len(members) \in Nat
    <3>1. members \in Seq(Names)
      BY MembersListed
    <3> QED
      BY <3>1
  <2>4. PICK m \in Nat : m = n
    BY <1>1
  <2> DEFINE inner == [todo |-> members, merged |-> Empty]
  <2>5. inner.todo = members
    OBVIOUS
  <2> HIDE DEF inner
  <2>6. /\ Len(merging') = m + 1 /\ merging'[m + 1] = inner
        /\ \A level \in 1 .. m : merging'[level] = merging[level]
    BY <1>1, <2>2, <2>4, AppendLevels DEF inner
  <2>7. m + 1 \in 1 .. MaxMerging
    BY <1>1, <1>4, <2>4
  <2>8. MembersLeft(m + 1)' = Len(members) /\ MembersLeft(m + 1) = Unknown
    BY <1>1, <2>4, <2>5, <2>6 DEF MembersLeft
  <2>9. ASSUME NEW around \in 1 .. m + 1 - 1 PROVE MembersLeft(around)' = MembersLeft(around)
    <3>1. around \in 1 .. m /\ around \in 1 .. m + 1
      BY <2>9
    <3> QED
      BY <2>4, <2>6, <3>1 DEF MembersLeft
  <2>10. MembersDescend(m + 1)
    BY <2>3, <2>8, <2>9 DEF MembersDescend, Fewer, Unknown
  <2> QED
    BY <2>1, <2>7, <2>10 DEF MergerStep, Rests
<1> QED
  BY <1>1, <1>2, <1>3, <1>4

\* The last of `calls`, which are the merger's or those around its last, has one
\* member less.
LEMMA TakeMemberDescends ==
    ASSUME ChainInv, NEW calls, WellMerging(calls), calls # <<>>, Len(calls) <= Len(merging),
           \A level \in 1 .. Len(calls) : calls[level] = merging[level],
           calls[Len(calls)].todo # <<>>, NEW s, TakeMember(calls, s)
    PROVE  MergerStep
<1>1. CASE MergePanics(s)
  BY <1>1, PanicMerges DEF TakeMember
<1>2. CASE ~MergePanics(s)
  <2>1. PICK n \in Nat \ {0} : n = Len(calls)
    BY FrontSequence DEF WellMerging
  <2> DEFINE last == calls[n]
             now == [todo |-> Tail(last.todo), merged |-> Merge(last.merged, s)]
  <2>2. UNCHANGED <<stack, result>> /\ merging' = [calls EXCEPT ![n] = now]
    BY <1>2, <2>1 DEF TakeMember
  <2>3. now.todo = Tail(last.todo)
    OBVIOUS
  <2>4. last.todo \in Seq(Names) /\ last.todo # <<>> /\ last = merging[n] /\ n \in 1 .. n
    BY <2>1 DEF WellMerging
  <2> HIDE DEF now, last
  <2>5. Len(Tail(last.todo)) = Len(last.todo) - 1 /\ Len(last.todo) \in Nat \ {0}
    <3> DEFINE q == last.todo
    <3>1. q \in Seq(Names) /\ q # <<>>
      BY <2>4
    <3> HIDE DEF q
    <3>2. Len(Tail(q)) = Len(q) - 1 /\ Len(q) \in Nat \ {0}
      BY <3>1, HeadTailProperties
    <3> QED
      BY <3>2 DEF q
  <2>6. /\ Len(merging') = n /\ merging'[n] = now
        /\ \A level \in 1 .. n - 1 : merging'[level] = merging[level]
    <3>1. PICK S : calls \in Seq(S)
      BY DEF WellMerging, IsSequence
    <3>2. [calls EXCEPT ![n] = now] \in Seq(S \cup {now}) /\ Len([calls EXCEPT ![n] = now]) = n
      BY <2>1, <3>1
    <3>3. [calls EXCEPT ![n] = now][n] = now
      BY <2>1, <3>1
    <3>4. \A level \in 1 .. n - 1 : [calls EXCEPT ![n] = now][level] = calls[level]
      BY <2>1, <3>1
    <3> QED
      BY <2>1, <2>2, <3>2, <3>3, <3>4
  <2>7. Len(merging) \in Nat /\ n <= Len(merging) /\ Len(merging) <= MaxMerging /\ MaxMerging \in Nat
    BY <2>1, LevelAssumption DEF ChainInv, IsSequence
  <2>8. MembersLeft(n) = Len(last.todo)
    BY <2>4, <2>7 DEF MembersLeft
  <2>9. MembersLeft(n)' = Len(Tail(last.todo))
    BY <2>3, <2>4, <2>6 DEF MembersLeft
  <2>10. ASSUME NEW around \in 1 .. n - 1 PROVE MembersLeft(around)' = MembersLeft(around)
    <3>1. around \in 1 .. n /\ around \in 1 .. Len(merging)
      BY <2>7
    <3> QED
      BY <2>6, <3>1 DEF MembersLeft
  <2>11. MembersDescend(n)
    BY <2>5, <2>8, <2>9, <2>10 DEF MembersDescend, Fewer, Unknown
  <2>12. n \in 1 .. MaxMerging
    BY <2>7
  <2> QED
    BY <2>2, <2>11, <2>12 DEF MergerStep, Rests
<1> QED
  BY <1>1, <1>2

LEMMA MergeMemberDescends ==
    ASSUME ChainInv, MergerInv, MergeMember
    PROVE  MergerStep
<1> DEFINE s == Schemas[Head(Merger.todo)]
<1>1. /\ merging # <<>> /\ WellMerging(merging) /\ Merger.todo # <<>>
      /\ Merger.todo \in Seq(Names) /\ merging[Len(merging)].todo # <<>>
  BY MergerSchema DEF MergeMember, Merging, MergerInv, Merger
<1>2. Len(merging) \in Nat
  BY DEF ChainInv, IsSequence
<1>3. ASSUME NEW member, TakeMember(merging, member) PROVE MergerStep
  BY <1>1, <1>2, <1>3, TakeMemberDescends
<1>4. CASE ~Combining(s)
  <2>1. TakeMember(merging, s)
    BY <1>4, Zenon DEF MergeMember, Combining
  <2> QED
    BY <1>3, <2>1
<1>5. CASE Combining(s) /\ (Has(s, "allOf") \/ Has(s, "anyOf"))
  <2>1. MergeSchemas(merging, s)
    BY <1>5, Zenon DEF MergeMember
  <2>2. WellFormed(s)
    <3> DEFINE q == Merger.todo
    <3>1. q # <<>> /\ q \in Seq(Names)
      BY <1>1
    <3> HIDE DEF q
    <3>2. Head(q) \in Names
      BY <3>1, HeadTailProperties
    <3> QED
      BY <3>2, SchemasAssumption DEF q
  <2> QED
    BY <1>5, <2>1, <2>2, MergeSchemasDescends
<1>6. CASE Combining(s) /\ ~(Has(s, "allOf") \/ Has(s, "anyOf"))
  <2>1. IF s.oneOf = <<>> THEN Return(Panic) /\ merging' = <<>>
        ELSE \E i \in DOMAIN s.oneOf : TakeMember(merging, Schemas[s.oneOf[i]])
    BY <1>6, Zenon DEF MergeMember
  <2> QED
    BY <1>3, <2>1, PanicMerges
<1> QED
  BY <1>4, <1>5, <1>6

LEMMA MergeReturnsDescends ==
    ASSUME ChainInv, CallsInv, BudgetInv, MergerInv, MergeReturns
    PROVE  MergerStep
<1>1. merging # <<>>
  BY DEF MergeReturns, Merging
<1>2. stack # <<>> /\ Top.phase = "enter"
  BY <1>1 DEF ChainInv, MergerInside
<1>3. CASE Outer = <<>>
  <2>1. Call(Now([Top EXCEPT !.phase = "pass"]), Merger.merged)
    BY <1>3 DEF MergeReturns
  <2> QED
    BY <1>2, <2>1, PassesLevels DEF MergerStep
<1>4. CASE Outer # <<>>
  <2>1. WellMerging(Outer) /\ Outer[Len(Outer)].todo # <<>>
    BY <1>1, <1>4, OuterMerges DEF Outer, MergerInv
  <2>2. TakeMember(Outer, Merger.merged)
    BY <1>4 DEF MergeReturns
  <2>3. Len(merging) \in Nat \ {0} /\ Len(Outer) = Len(merging) - 1
    BY <1>1, FrontSequence DEF Outer, ChainInv
  <2>4. \A level \in 1 .. Len(Outer) : Outer[level] = merging[level]
    <3> DEFINE m == Len(merging) - 1
    <3>1. PICK S : merging \in Seq(S)
      BY DEF ChainInv, IsSequence
    <3>2. m \in Nat /\ \A level \in 1 .. m : merging[level] \in S
      BY <2>3, <3>1, ElementOfSeq
    <3>3. Outer = SubSeq(merging, 1, m) /\ Len(Outer) = m
      BY <2>3 DEF Outer
    <3> HIDE DEF m
    <3>4. \A level \in 1 .. m - 1 + 1 : SubSeq(merging, 1, m)[level] = merging[1 + level - 1]
      BY <3>2, SubSeqProperties
    <3> QED
      BY <3>2, <3>3, <3>4
  <2>5. Len(Outer) <= Len(merging)
    BY <2>3
  <2> QED
    BY <1>4, <2>1, <2>2, <2>4, <2>5, TakeMemberDescends
<1> QED
  BY <1>3, <1>4

LEMMA CombinedDescends ==
    ASSUME ChainInv, CallsInv, GenerateCombined
    PROVE  MergerStep
<1>1. stack # <<>> /\ merging = <<>> /\ MergeSchemas(merging, Top.schema)
  BY DEF GenerateCombined, Generates, Delegates, Entered
<1>2. WellFormed(Top.schema)
  BY <1>1, TopCall DEF IsCall
<1>3. Has(Top.schema, "allOf") \/ Has(Top.schema, "anyOf")
  BY <1>1, PartSchema DEF GenerateCombined, Generates, TypeOf, Get
<1> QED
  BY <1>1, <1>2, <1>3, MergeSchemasDescends

-----------------------------------------------------------------------------
(* A step of the generators *)

LEMMA GenerateDescends ==
    ASSUME ChainInv, CallsInv, BudgetInv, MergerInv, Generate
    PROVE  MergerStep
<1>1. CASE GenerateNull \/ TakeExample
  BY <1>1, ReturnLevels DEF GenerateNull, TakeExample, Ok, Outcomes, MergerStep
<1>2. ASSUME NEW type \in ScalarTypes, GenerateScalar(type)
      PROVE  MergerStep
  <2>1. PICK r \in ScalarResults(type, Top.schema) : Return(r)
    BY <1>2 DEF GenerateScalar
  <2>2. r.status \in Outcomes
    BY ScalarStatus DEF Outcomes
  <2> QED
    BY <2>1, <2>2, ReturnLevels DEF MergerStep
<1>3. CASE GenerateUnsupported
  BY <1>3, ReturnLevels DEF GenerateUnsupported, Failed, Outcomes, MergerStep
<1>4. CASE GenerateCombined \/ MergeMember \/ MergeReturns
  BY <1>4, CombinedDescends, MergeMemberDescends, MergeReturnsDescends
<1>5. CASE GenerateOneOf \/ GenerateArray \/ NextItem \/ KeepItem \/ KeepUnique \/ RepeatUnique
  BY <1>5, OneOfLevels, GenerateArrayLevels, NextItemLevels, KeepItemLevels, UniqueLevels DEF MergerStep
<1>6. CASE ShortArray
  BY <1>6, ReturnLevels DEF ShortArray, Ok, Outcomes, MergerStep
<1>7. CASE GenerateObject \/ NextProperty \/ NextRequired \/ NextEntry \/ NextFree \/ KeepField
  BY <1>7, GenerateObjectLevels, NextPropertyLevels, NextRequiredLevels, NextEntryLevels,
     NextFreeLevels, KeepFieldLevels DEF MergerStep
<1>8. CASE Propagate
  BY <1>8, PropagateLevels DEF MergerStep
<1> QED
  BY <1>1, <1>2, <1>3, <1>4, <1>5, <1>6, <1>7, <1>8, Zenon DEF Generate

-----------------------------------------------------------------------------
(* The work of a request *)

Width == MaxLevel + MaxMerging + 4

LEMMA WorkAt ==
    /\ DOMAIN Work = 1 .. Width
    /\ Work[1] = Stages[at] /\ Work[2] = Len(probing) /\ Work[3] = Cardinality(keys)
    /\ \A level \in 0 .. MaxLevel : Work[level + 4] = StepsLeft(level)
    /\ \A level \in 1 .. MaxMerging : Work[level + MaxLevel + 4] = MembersLeft(level)
<1>1. MaxLevel \in Nat /\ MaxMerging \in Nat /\ {1, 2, 3} \subseteq 1 .. Width
  BY LevelAssumption DEF Width
<1>2. ASSUME NEW level \in 0 .. MaxLevel PROVE Work[level + 4] = StepsLeft(level)
  <2>1. /\ level + 4 \in 1 .. Width /\ level + 4 \notin {1, 2, 3}
        /\ level + 4 \in 4 .. MaxLevel + 4 /\ level + 4 - 4 = level
    BY <1>1 DEF Width
  <2> QED
    BY <2>1 DEF Work, Width
<1>3. ASSUME NEW level \in 1 .. MaxMerging PROVE Work[level + MaxLevel + 4] = MembersLeft(level)
  <2> DEFINE k == level + MaxLevel + 4
  <2>1. k \in 1 .. Width /\ k \notin {1, 2, 3} /\ k \notin 4 .. MaxLevel + 4 /\ k - MaxLevel - 4 = level
    BY <1>1 DEF Width
  <2> HIDE DEF k
  <2>2. Work[k] = MembersLeft(k - MaxLevel - 4)
    BY <2>1 DEF Work, Width
  <2> QED
    BY <2>1, <2>2 DEF k
<1>4. Work[1] = Stages[at] /\ Work[2] = Len(probing) /\ Work[3] = Cardinality(keys)
  BY <1>1 DEF Work, Width
<1>5. DOMAIN Work = 1 .. Width
  BY DEF Work, Width
<1> QED
  BY <1>2, <1>3, <1>4, <1>5

LEMMA WorkAtNext ==
    /\ DOMAIN Work' = 1 .. Width
    /\ Work'[1] = Stages[at'] /\ Work'[2] = Len(probing') /\ Work'[3] = Cardinality(keys')
    /\ \A level \in 0 .. MaxLevel : Work'[level + 4] = StepsLeft(level)'
    /\ \A level \in 1 .. MaxMerging : Work'[level + MaxLevel + 4] = MembersLeft(level)'
<1>1. MaxLevel \in Nat /\ MaxMerging \in Nat /\ {1, 2, 3} \subseteq 1 .. Width
  BY LevelAssumption DEF Width
<1>2. ASSUME NEW level \in 0 .. MaxLevel PROVE Work'[level + 4] = StepsLeft(level)'
  <2>1. /\ level + 4 \in 1 .. Width /\ level + 4 \notin {1, 2, 3}
        /\ level + 4 \in 4 .. MaxLevel + 4 /\ level + 4 - 4 = level
    BY <1>1 DEF Width
  <2> QED
    BY <2>1 DEF Work, Width
<1>3. ASSUME NEW level \in 1 .. MaxMerging PROVE Work'[level + MaxLevel + 4] = MembersLeft(level)'
  <2> DEFINE k == level + MaxLevel + 4
  <2>1. k \in 1 .. Width /\ k \notin {1, 2, 3} /\ k \notin 4 .. MaxLevel + 4 /\ k - MaxLevel - 4 = level
    BY <1>1 DEF Width
  <2>2. Work'[k] = MembersLeft(k - MaxLevel - 4)'
    BY <2>1 DEF Work, Width
  <2>3. MembersLeft(k - MaxLevel - 4)' = MembersLeft(level)'
    BY <2>1
  <2> QED
    BY <2>2, <2>3
<1>4. Work'[1] = Stages[at'] /\ Work'[2] = Len(probing') /\ Work'[3] = Cardinality(keys')
  BY <1>1 DEF Work, Width
<1>5. DOMAIN Work' = 1 .. Width
  BY DEF Work, Width
<1> QED
  BY <1>2, <1>3, <1>4, <1>5

LEMMA NextPlace ==
    ASSUME Stages[at'] \in Nat, Stages[at] \in Nat, Stages[at'] < Stages[at]
    PROVE  Nearer(Work', Work)
<1>1. 1 \in DOMAIN Work' /\ Work'[1] = Stages[at'] /\ Work[1] = Stages[at]
  BY WorkAt, WorkAtNext, LevelAssumption DEF Width
<1>2. Fewer(Work'[1], Work[1])
  BY <1>1 DEF Fewer, Unknown
<1>3. \A i \in 1 .. 1 - 1 : Work'[i] = Work[i]
  OBVIOUS
<1> QED
  BY <1>1, <1>2, <1>3 DEF Nearer

LEMMA NextMethod ==
    ASSUME at' = at, Len(probing') \in Nat, Len(probing') < Len(probing)
    PROVE  Nearer(Work', Work)
<1>1. 2 \in DOMAIN Work' /\ Work'[1] = Work[1]
  BY WorkAt, WorkAtNext, LevelAssumption DEF Width
<1>2. Fewer(Work'[2], Work[2])
  BY WorkAt, WorkAtNext DEF Fewer, Unknown
<1>3. \A i \in 1 .. 2 - 1 : Work'[i] = Work[i]
  BY <1>1
<1> QED
  BY <1>1, <1>2, <1>3 DEF Nearer

LEMMA NextKey ==
    ASSUME at' = at, probing' = probing,
           Cardinality(keys') \in Nat, Cardinality(keys') < Cardinality(keys)
    PROVE  Nearer(Work', Work)
<1>1. 3 \in DOMAIN Work' /\ Work'[1] = Work[1] /\ Work'[2] = Work[2]
  BY WorkAt, WorkAtNext, LevelAssumption DEF Width
<1>2. Fewer(Work'[3], Work[3])
  BY WorkAt, WorkAtNext DEF Fewer, Unknown
<1>3. \A i \in 1 .. 3 - 1 : Work'[i] = Work[i]
  <2>1. \A i \in 1 .. 3 - 1 : i = 1 \/ i = 2
    OBVIOUS
  <2> QED
    BY <1>1, <2>1
<1> QED
  BY <1>1, <1>2, <1>3 DEF Nearer

LEMMA GenerateIsNearer ==
    ASSUME UNCHANGED <<at, probing, keys>>, ChainInv, CallsInv, BudgetInv, stack # <<>>, MergerStep
    PROVE  Nearer(Work', Work)
<1>0. MaxLevel \in Nat /\ MaxMerging \in Nat
  BY LevelAssumption
<1>1. Work'[1] = Work[1] /\ Work'[2] = Work[2] /\ Work'[3] = Work[3]
  BY WorkAt, WorkAtNext
<1>2. ASSUME NEW level \in 0 .. MaxLevel, Descends(level) PROVE Nearer(Work', Work)
  <2>1. level + 4 \in DOMAIN Work'
    BY <1>0, WorkAtNext DEF Width
  <2>2. Fewer(Work'[level + 4], Work[level + 4])
    BY <1>2, WorkAt, WorkAtNext DEF Descends
  <2>3. ASSUME NEW i \in 1 .. level + 4 - 1 PROVE Work'[i] = Work[i]
    <3>1. CASE i \in {1, 2, 3}
      BY <1>1, <3>1
    <3>2. CASE i \notin {1, 2, 3}
      <4>1. PICK below \in 0 .. level - 1 : i = below + 4
        <5>1. i - 4 \in 0 .. level - 1 /\ i = i - 4 + 4
          BY <3>2
        <5> QED
          BY <5>1
      <4>2. below \in 0 .. MaxLevel
        BY <1>0
      <4> QED
        BY <1>2, <4>1, <4>2, WorkAt, WorkAtNext DEF Descends
    <3> QED
      BY <3>1, <3>2
  <2> QED
    BY <2>1, <2>2, <2>3 DEF Nearer
<1>3. CASE LevelStep
  BY <1>2, <1>3, LevelStepDescends
<1>4. ASSUME Rests, NEW level \in 1 .. MaxMerging, MembersDescend(level)
      PROVE  Nearer(Work', Work)
  <2> DEFINE k == level + MaxLevel + 4
  <2>1. k \in DOMAIN Work'
    BY <1>0, WorkAtNext DEF Width
  <2>2. Fewer(Work'[k], Work[k])
    BY <1>4, WorkAt, WorkAtNext DEF MembersDescend
  <2>3. ASSUME NEW i \in 1 .. k - 1 PROVE Work'[i] = Work[i]
    <3>1. CASE i \in {1, 2, 3}
      BY <1>1, <3>1
    <3>2. CASE i \in 4 .. MaxLevel + 4
      <4>1. PICK below \in 0 .. MaxLevel : i = below + 4
        <5>1. i - 4 \in 0 .. MaxLevel /\ i = i - 4 + 4
          BY <1>0, <3>2
        <5> QED
          BY <5>1
      <4>2. StepsLeft(below)' = StepsLeft(below)
        BY <1>4, StepsRest
      <4> QED
        BY <4>1, <4>2, WorkAt, WorkAtNext
    <3>3. CASE i \notin {1, 2, 3} \cup 4 .. MaxLevel + 4
      <4>1. PICK around \in 1 .. level - 1 : i = around + MaxLevel + 4
        <5> DEFINE r == i - MaxLevel - 4
        <5>1. r \in 1 .. level - 1 /\ i = r + MaxLevel + 4
          BY <1>0, <3>3
        <5> QED
          BY <5>1
      <4>2. around \in 1 .. MaxMerging
        BY <1>0
      <4> QED
        BY <1>4, <4>1, <4>2, WorkAt, WorkAtNext DEF MembersDescend
    <3> QED
      BY <3>1, <3>2, <3>3
  <2> HIDE DEF k
  <2> QED
    BY <2>1, <2>2, <2>3 DEF Nearer
<1> QED
  BY <1>3, <1>4 DEF MergerStep

-----------------------------------------------------------------------------
(* The work is counted, and every step brings a request nearer              *)

\* The lists of the handlers around the generators are finite.
WorkInv ==
    /\ Inv
    /\ BudgetInv
    /\ IsFiniteSet(keys)
    /\ IsSequence(probing)

LEMMA InitWorkInv == ASSUME Init PROVE WorkInv
<1>1. BudgetInv
  BY EmptySequence DEF Init, BudgetInv
<1>2. IsFiniteSet(keys) /\ IsSequence(probing)
  BY FS_EmptySet, EmptySequence DEF Init
<1> QED
  BY <1>1, <1>2, InitIInv, InitRouteInv, InitCodeInv, InitCallsInv DEF WorkInv, Inv

\* The first generator is called with all its attempts.
LEMMA NegotiatedBudget ==
    ASSUME IInv, RouteInv, CodeInv, Negotiated
    PROVE  BudgetInv'
<1>1. at = "negotiate" /\ keys = {}
  BY DEF Negotiated
<1>2. stack = <<>> /\ result = NoResult
  BY <1>1 DEF IInv, PlaceInv, Before
<1>3. HasRoute(request)
  BY <1>1 DEF RouteInv
<1>4. Key # None => Key \in DOMAIN Responses
  BY <1>1, KeyIsLeast
<1>5. CASE stack' = <<>>
  BY <1>5, EmptySequence DEF BudgetInv
<1>6. ASSUME NEW s, stack' = Append(<<>>, Frame(s)), result' = NoResult
      PROVE  BudgetInv'
  <2>1. Len(stack') = 1 /\ stack'[1] = Frame(s)
    BY <1>6, EmptySequence, AppendLevels
  <2>2. \A level \in 1 .. Len(stack') : level = 1 /\ Awaited(level)' = 0
    BY <1>6, <2>1 DEF Awaited
  <2>3. Budget(Frame(s), 0)
    BY DEF Budget, Frame
  <2> QED
    BY <2>1, <2>2, <2>3 DEF BudgetInv
<1>7. stack' = <<>> \/ (result' = NoResult /\ \E s : stack' = Append(<<>>, Frame(s)))
  BY <1>2, <1>3, <1>4, NegotiatedBegins DEF Begins, generation
<1> QED
  BY <1>5, <1>6, <1>7

LEMMA NextBudgetInv ==
    ASSUME WorkInv, [Next]_vars
    PROVE  BudgetInv'
<1> USE DEF WorkInv, Inv, IInv
<1>1. CASE GenerateStep
  <2>1. Generate
    BY <1>1 DEF GenerateStep
  <2>2. stack # <<>> /\ MergerStep
    BY <2>1, GenerateCalls, GenerateDescends
  <2>3. LevelStep \/ Rests
    BY <2>2 DEF MergerStep
  <2> QED
    BY <2>2, <2>3, LevelStepKeeps
<1>2. CASE Negotiated
  BY <1>2, NegotiatedBudget
<1>3. CASE ~GenerateStep /\ ~Negotiated
  <2>1. UNCHANGED <<stack, result>>
    BY <1>3, HandlerRests DEF generation
  <2> QED
    BY <2>1 DEF BudgetInv, Awaited
<1> QED
  BY <1>1, <1>2, <1>3

\* The keys of the responses to visit are those of an operation with a route.
LEMMA NextKeys ==
    ASSUME WorkInv, [Next]_vars
    PROVE  IsFiniteSet(keys')
<1> USE DEF WorkInv
<1>1. CASE Validate
  <2>1. at = "validate" /\ (keys' = keys \/ keys' = DOMAIN Responses)
    BY <1>1 DEF Validate
  <2>2. <<request.path, request.method>> \in DOMAIN Operations
    BY <2>1 DEF Inv, RouteInv, HasRoute
  <2>3. IsFiniteSet(DOMAIN Responses)
    BY <2>2, ResponsesAssumption DEF Responses
  <2> QED
    BY <2>1, <2>3
<1>2. CASE VisitKey
  BY <1>2, FS_RemoveElement DEF VisitKey
<1>3. CASE ~Validate /\ ~VisitKey
  BY <1>3 DEF Next, Handle, Proceed, Receive, TryMethod, Decide, FindRoute, Negotiated, GenerateStep,
     Generated, Respond, negotiation, vars
<1> QED
  BY <1>1, <1>2, <1>3

LEMMA NextProbing ==
    ASSUME WorkInv, [Next]_vars
    PROVE  IsSequence(probing')
<1> USE DEF WorkInv
<1>1. ASSUME NEW path, NEW method, Receive(path, method) PROVE IsSequence(probing')
  <2>1. Methods \in Seq({"HEAD", "GET", "POST", "PUT", "PATCH", "DELETE"})
    BY DEF Methods
  <2> QED
    BY <1>1, <2>1 DEF Receive, IsSequence
<1>2. CASE TryMethod
  <2>1. PICK S : probing \in Seq(S)
    BY DEF IsSequence
  <2>2. probing # <<>> /\ probing' = Tail(probing)
    BY <1>2 DEF TryMethod
  <2>3. probing' \in Seq(S)
    BY <2>1, <2>2, HeadTailProperties
  <2> QED
    BY <2>3 DEF IsSequence
<1>3. CASE ~TryMethod /\ ~(\E path, method : Receive(path, method))
  <2>1. probing' = probing
    BY <1>3 DEF Next, Handle, Proceed, Decide, FindRoute, Validate, VisitKey, Negotiated, GenerateStep,
       Generated, Respond, routing, vars
  <2> QED
    BY <2>1
<1> QED
  BY <1>1, <1>2, <1>3

LEMMA WorkInvariant == Spec => []WorkInv
<1>1. Init => WorkInv
  BY InitWorkInv
<1>2. ASSUME WorkInv, [Next]_vars PROVE WorkInv'
  <2>1. Inv'
    BY <1>2, NextIInv, NextRouteInv, NextCodeInv, NextCallsInv DEF WorkInv, Inv
  <2> QED
    BY <1>2, <2>1, NextBudgetInv, NextKeys, NextProbing DEF WorkInv
<1> QED
  BY <1>1, <1>2, PTL DEF Spec

LEMMA StageCounts == ASSUME PlaceInv PROVE Stages[at] \in Nat
BY DEF PlaceInv, Before, Stages

\* The work of a request is always a sequence of counts, to which NoEndlessDescent
\* applies: what a generator, the merger and the negotiator have left is known,
\* and is a number as soon as they have begun.
THEOREM WorkIsCounted == Spec => [](Work \in [1 .. Width -> Counts])
<1>1. ASSUME WorkInv PROVE Work \in [1 .. Width -> Counts]
  <2> USE DEF WorkInv, Inv, IInv
  <2>1. MaxLevel \in Nat /\ MaxMerging \in Nat
    BY LevelAssumption
  <2>2. Stages[at] \in Counts /\ Len(probing) \in Counts /\ Cardinality(keys) \in Counts
    BY <1>1, StageCounts, FS_CardinalityType DEF Counts, IsSequence
  <2>3. ASSUME NEW k \in 1 .. Width PROVE Work[k] \in Counts
    <3>1. CASE k \in {1, 2, 3}
      BY <2>2, <3>1, WorkAt
    <3>2. CASE k \in 4 .. MaxLevel + 4
      <4>1. PICK level \in 0 .. MaxLevel : k = level + 4
        <5>1. k - 4 \in 0 .. MaxLevel /\ k = k - 4 + 4
          BY <2>1, <3>2
        <5> QED
          BY <5>1
      <4>2. level \in Nat
        BY <2>1
      <4>3. StepsLeft(level) \in Counts
        BY <1>1, <4>2, StepsAreCounted
      <4> QED
        BY <4>1, <4>3, WorkAt
    <3>3. CASE k \notin {1, 2, 3} \cup 4 .. MaxLevel + 4
      <4>1. PICK level \in 1 .. MaxMerging : k = level + MaxLevel + 4
        <5> DEFINE r == k - MaxLevel - 4
        <5>1. r \in 1 .. MaxMerging /\ k = r + MaxLevel + 4
          BY <2>1, <3>3 DEF Width
        <5> QED
          BY <5>1
      <4>2. MembersLeft(level) \in Counts
        BY <1>1, <2>1, MembersAreCounted
      <4> QED
        BY <4>1, <4>2, WorkAt
    <3> QED
      BY <3>1, <3>2, <3>3
  <2>4. Work = [k \in 1 .. Width |-> Work[k]]
    BY DEF Work, Width
  <2> QED
    BY <2>3, <2>4
<1> QED
  BY <1>1, WorkInvariant, PTL

LEMMA NextIsNearer ==
    ASSUME WorkInv, Next
    PROVE  Nearer(Work', Work)
<1> USE DEF WorkInv, Inv, IInv
<1>1. ASSUME NEW path, NEW method, Receive(path, method) PROVE Nearer(Work', Work)
  <2>1. at = "idle" /\ at' = "options"
    BY <1>1 DEF Receive, Goto
  <2> QED
    BY <2>1, NextPlace DEF Stages
<1>2. CASE TryMethod
  <2>1. PICK S : probing \in Seq(S)
    BY DEF IsSequence
  <2>2. at' = at /\ probing # <<>> /\ probing' = Tail(probing)
    BY <1>2 DEF TryMethod
  <2>3. Len(probing') \in Nat /\ Len(probing') < Len(probing)
    BY <2>1, <2>2, HeadTailProperties, EmptySeq, LenProperties
  <2> QED
    BY <2>2, <2>3, NextMethod
<1>3. CASE Decide
  <2>1. at = "options" /\ at' \in {"done", "route"}
    BY <1>3 DEF Decide, Decided, Goto, Write
  <2> QED
    BY <2>1, NextPlace DEF Stages
<1>4. CASE FindRoute
  <2>1. at = "route" /\ at' \in {"done", "handed", "validate"}
    BY <1>4 DEF FindRoute, Goto, Write
  <2> QED
    BY <2>1, NextPlace DEF Stages
<1>5. CASE Validate
  <2>1. at = "validate" /\ at' \in {"done", "negotiate"}
    BY <1>5 DEF Validate, Goto, Write
  <2> QED
    BY <2>1, NextPlace DEF Stages
<1>6. CASE VisitKey
  <2>1. at = "negotiate" /\ at' = at /\ probing' = probing /\ \E key \in keys : keys' = keys \ {key}
    BY <1>6 DEF VisitKey, routing
  <2>2. Cardinality(keys') \in Nat /\ Cardinality(keys') < Cardinality(keys)
    <3>1. PICK key \in keys : keys' = keys \ {key}
      BY <2>1
    <3>2. Cardinality(keys') = Cardinality(keys) - 1 /\ IsFiniteSet(keys')
      BY <3>1, FS_RemoveElement
    <3> QED
      BY <3>2, FS_CardinalityType
  <2> QED
    BY <2>1, <2>2, NextKey
<1>7. CASE Negotiated
  <2>1. at = "negotiate" /\ at' \in {"done", "generate"}
    BY <1>7 DEF Negotiated, Goto, Write
  <2> QED
    BY <2>1, NextPlace DEF Stages
<1>8. CASE GenerateStep
  <2>1. Generate /\ UNCHANGED <<at, probing, keys>>
    BY <1>8 DEF GenerateStep, routing, negotiation
  <2>2. stack # <<>> /\ MergerStep
    BY <2>1, GenerateCalls, GenerateDescends
  <2> QED
    BY <2>1, <2>2, GenerateIsNearer
<1>9. CASE Generated
  <2>1. at = "generate" /\ at' \in {"done", "crashed", "respond"}
    BY <1>9 DEF Generated, Done, Goto, Write
  <2> QED
    BY <2>1, NextPlace DEF Stages
<1>10. CASE Respond
  <2>1. at = "respond" /\ at' \in {"done", "handed"}
    BY <1>10 DEF Respond, ReadStored, WriteResponse, Goto, Write
  <2> QED
    BY <2>1, NextPlace DEF Stages
<1> QED
  BY <1>1, <1>2, <1>3, <1>4, <1>5, <1>6, <1>7, <1>8, <1>9, <1>10 DEF Next, Handle, Proceed

\* Every step of the handlers, the generators and the merger brings a request
\* nearer to its end: the attempts for unique values run out, the breaker ends
\* schemas that refer to themselves, the merger ends circles of combined ones, and
\* no handler goes back (uniqueArrayGenerator.go:29, recursionBreaker.go,
\* schemaMerger.go:33, StatusCodeNegotiator.go).
THEOREM RequestsDescend == Spec => EveryStepIsNearer
<1>1. ASSUME WorkInv, [Next]_vars PROVE [Nearer(Work', Work)]_vars
  BY <1>1, NextIsNearer
<1>2. Spec => [][Nearer(Work', Work)]_vars
  BY <1>1, WorkInvariant, PTL DEF Spec
<1> QED
  BY <1>2 DEF EveryStepIsNearer
=============================================================================
