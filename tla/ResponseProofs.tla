--------------------------- MODULE ResponseProofs ---------------------------
(* Proofs about Response: type correctness with the depth of the recursion, *)
(* the route and the negotiated code, what the options of the generators     *)
(* promise, the parts of what is generated, and where the merger can end the *)
(* process.                                                                  *)
EXTENDS Response, SequenceTheorems, FiniteSetTheorems, TLAPS

\* What a call returns, and what there is without a return.
Outcomes == {"ok", "failed", "attempts", "panic"}

Statuses == Outcomes \cup {"none", "crash"}

IsSequence(s) == \E S : s \in Seq(S)

\* The merger works for a call that has entered and does not return before it ends.
MergerInside ==
    merging # <<>> => stack # <<>> /\ result = NoResult /\ Top.phase = "enter"

\* The state of the generators by itself.
ChainInv ==
    /\ options \in Options
    /\ IsSequence(stack)
    /\ IsSequence(merging)
    /\ Len(stack) <= MaxLevel
    /\ Len(merging) <= MaxMerging
    /\ result.status \in Statuses
    /\ MergerInside

\* What a step of the chain of generators can be.
Returns == \E r : r.status \in Outcomes /\ Return(r) /\ merging' = <<>>

Calling == \E calling, s :
    /\ IsSequence(calling)
    /\ Len(calling) = Len(stack)
    /\ Call(calling, s)
    /\ merging' = <<>>

Continues == \E frame : Continue(frame) /\ merging' = <<>>

Merges ==
    /\ IsSequence(merging')
    /\ merging' # <<>>
    /\ Len(merging') <= MaxMerging
    /\ result = NoResult
    /\ Top.phase = "enter"
    /\ UNCHANGED <<stack, result>>

Crashes ==
    /\ Len(merging) >= MaxMerging
    /\ merging # <<>> => Merger.todo # <<>>
    /\ stack' = <<>>
    /\ merging' = <<>>
    /\ result' = Crash

Exceeds == result' = AttemptsExceeded /\ stack' = stack /\ merging' = <<>>

ChainStep ==
    /\ stack # <<>>
    /\ options' = options
    /\ Returns \/ Calling \/ Continues \/ Merges \/ Crashes \/ Exceeds

-----------------------------------------------------------------------------
(* Sequences *)

LEMMA AppendSequence ==
    ASSUME NEW s, IsSequence(s), NEW x
    PROVE  IsSequence(Append(s, x)) /\ Len(Append(s, x)) = Len(s) + 1 /\ Append(s, x) # <<>>
<1>1. PICK S : s \in Seq(S)
  BY DEF IsSequence
<1>2. s \in Seq(S \cup {x})
  BY <1>1
<1>3. Append(s, x) \in Seq(S \cup {x}) /\ Len(Append(s, x)) = Len(s) + 1 /\ Append(s, x) # <<>>
  BY <1>2, AppendProperties
<1> QED
  BY <1>3 DEF IsSequence

LEMMA FrontSequence ==
    ASSUME NEW s, IsSequence(s), s # <<>>
    PROVE  /\ IsSequence(SubSeq(s, 1, Len(s) - 1))
           /\ Len(SubSeq(s, 1, Len(s) - 1)) = Len(s) - 1
           /\ Len(s) \in Nat \ {0}
<1>1. PICK S : s \in Seq(S)
  BY DEF IsSequence
<1>2. Len(s) \in Nat \ {0}
  BY <1>1
<1>3. SubSeq(s, 1, Len(s) - 1) \in Seq(S) /\ Len(SubSeq(s, 1, Len(s) - 1)) = Len(s) - 1
  <2>1. \A i \in 1 .. Len(s) - 1 : s[i] \in S
    BY <1>1, <1>2, ElementOfSeq
  <2> DEFINE n == Len(s) - 1
  <2>2. n \in Int /\ 1 \in Int
    BY <1>2
  <2>3. \A i \in 1 .. n : s[i] \in S
    BY <2>1
  <2> HIDE DEF n
  <2>4. SubSeq(s, 1, n) \in Seq(S) /\ Len(SubSeq(s, 1, n)) = IF 1 <= n THEN n - 1 + 1 ELSE 0
    BY <2>2, <2>3, SubSeqProperties
  <2>5. n \in Nat
    BY <1>2 DEF n
  <2>6. Len(SubSeq(s, 1, n)) = n
    BY <2>4, <2>5
  <2> QED
    BY <2>4, <2>6, Zenon DEF n
<1> QED
  BY <1>2, <1>3 DEF IsSequence

LEMMA ReplaceLast ==
    ASSUME NEW s, IsSequence(s), s # <<>>, NEW x
    PROVE  /\ IsSequence([s EXCEPT ![Len(s)] = x])
           /\ Len([s EXCEPT ![Len(s)] = x]) = Len(s)
           /\ [s EXCEPT ![Len(s)] = x] # <<>>
<1> DEFINE t == [s EXCEPT ![Len(s)] = x]
<1>1. PICK S : s \in Seq(S)
  BY DEF IsSequence
<1>2. s \in Seq(S \cup {x}) /\ Len(s) \in Nat \ {0}
  BY <1>1
<1>3. t \in Seq(S \cup {x}) /\ Len(t) = Len(s)
  BY <1>2
<1>4. t # <<>>
  BY <1>2, <1>3
<1> QED
  BY <1>3, <1>4 DEF IsSequence

LEMMA EmptySequence == IsSequence(<<>>) /\ Len(<<>>) = 0
<1>1. <<>> \in Seq({})
  OBVIOUS
<1> QED
  BY <1>1 DEF IsSequence

-----------------------------------------------------------------------------
(* The steps of the chain *)

LEMMA ScalarStatus ==
    ASSUME NEW type \in ScalarTypes, NEW s, NEW r \in ScalarResults(type, s)
    PROVE  r.status \in {"ok", "failed", "panic"}
<1> USE DEF Ok, Failed, Panic
<1>1. ASSUME NEW lengths, NEW q \in TextOf(lengths) PROVE q.status \in {"ok", "failed", "panic"}
  BY <1>1 DEF TextOf
<1>2. ASSUME NEW min, NEW max, NEW q \in Base64Results(min, max)
      PROVE  q.status \in {"ok", "failed", "panic"}
  BY <1>2, <1>1 DEF Base64Results
<1>3. ASSUME NEW q \in TextResults(s) PROVE q.status \in {"ok", "failed", "panic"}
  BY <1>3, <1>1 DEF TextResults
<1>4. ASSUME NEW p, NEW q \in PatternResults(p) PROVE q.status \in {"ok", "failed", "panic"}
  BY <1>4 DEF PatternResults
<1>5. ASSUME NEW q \in StringResults(s) PROVE q.status \in {"ok", "failed", "panic"}
  <2> DEFINE enum == Has(s, "enum")
             pattern == Has(s, "pattern")
             format == Get(s, "format", "")
             range == Has(s, "x-range")
             byte == Base64Results(MinLength(s), Get(s, "maxLength", DefaultMaxLength))
             listed == {Ok([string |-> s.enum[i]]) : i \in DOMAIN s.enum}
             ranged == RangeResults(s["x-range"])
             formatted == {Ok([format |-> format])}
  <2>1. q \in listed \/ q \in ranged \/ q \in PatternResults(s.pattern)
          \/ q \in byte \/ q \in formatted \/ q \in TextResults(s)
    <3> HIDE DEF byte, listed, ranged, formatted
    <3>1. q \in CASE enum -> listed
                 [] ~enum /\ pattern /\ format # "byte" ->
                      IF range THEN ranged ELSE PatternResults(s.pattern)
                 [] ~enum /\ format = "byte" -> byte
                 [] ~enum /\ ~pattern /\ format \in Formats -> formatted
                 [] OTHER -> TextResults(s)
      BY <1>5, Zenon DEF StringResults, byte, listed, ranged, formatted
    <3> HIDE DEF enum, pattern, format, range
    <3> QED
      BY <3>1
  <2>2. CASE q \in listed
    BY <2>2
  <2>3. CASE q \in ranged
    BY <2>3 DEF RangeResults
  <2>4. CASE q \in formatted
    <3> HIDE DEF format
    <3> QED
      BY <2>4
  <2>5. CASE q \in byte
    BY <2>5, <1>2
  <2> HIDE DEF byte, listed, ranged, formatted
  <2> QED
    BY <1>3, <1>4, <2>1, <2>2, <2>3, <2>4, <2>5
<1>6. ASSUME NEW q \in IntegerResults(s) PROVE q.status \in {"ok", "failed", "panic"}
  BY <1>6 DEF IntegerResults
<1>7. ASSUME NEW q \in NumberResults(s) PROVE q.status \in {"ok", "failed", "panic"}
  BY <1>7 DEF NumberResults
<1>8. ASSUME NEW q \in BooleanResults PROVE q.status \in {"ok", "failed", "panic"}
  BY <1>8 DEF BooleanResults
<1> QED
  BY <1>5, <1>6, <1>7, <1>8 DEF ScalarTypes, ScalarResults

LEMMA NowSequence ==
    ASSUME ChainInv, stack # <<>>, NEW frame
    PROVE  IsSequence(Now(frame)) /\ Len(Now(frame)) = Len(stack) /\ Now(frame) # <<>>
<1>1. IsSequence(stack)
  BY DEF ChainInv
<1>2. IsSequence(Below) /\ Len(Below) = Len(stack) - 1 /\ Len(stack) \in Nat \ {0}
  BY <1>1, FrontSequence DEF Below
<1>3. IsSequence(Now(frame)) /\ Len(Now(frame)) = Len(Below) + 1 /\ Now(frame) # <<>>
  BY <1>2, AppendSequence DEF Now
<1> QED
  BY <1>2, <1>3

\* The merger is at rest when a call does something other than enter.
LEMMA MergerRests ==
    ASSUME ChainInv, stack # <<>>, Top.phase # "enter" \/ result # NoResult
    PROVE  merging = <<>>
BY DEF ChainInv, MergerInside

\* A step that leaves the merger alone while it rests.
LEMMA PartStep ==
    ASSUME ChainInv, stack # <<>>, Top.phase # "enter" \/ result # NoResult,
           UNCHANGED <<options, merging>>,
           \/ \E r : r.status \in Outcomes /\ Return(r)
           \/ \E frame : Continue(frame)
           \/ \E frame, s : Call(Now(frame), s)
           \/ \E s : Call(stack, s)
           \/ result' = AttemptsExceeded /\ stack' = stack
    PROVE  ChainStep
<1>1. merging' = <<>>
  BY MergerRests
<1>2. CASE \E r : r.status \in Outcomes /\ Return(r)
  BY <1>1, <1>2 DEF ChainStep, Returns
<1>3. CASE \E frame : Continue(frame)
  BY <1>1, <1>3 DEF ChainStep, Continues
<1>4. CASE \E frame, s : Call(Now(frame), s)
  BY <1>1, <1>4, NowSequence DEF ChainStep, Calling
<1>5. CASE \E s : Call(stack, s)
  BY <1>1, <1>5 DEF ChainStep, Calling, ChainInv
<1>6. CASE result' = AttemptsExceeded /\ stack' = stack
  BY <1>1, <1>6 DEF ChainStep, Exceeds
<1> QED
  BY <1>2, <1>3, <1>4, <1>5, <1>6

\* A call enters while the merger rests, and its answer is one of these.
LEMMA EnteredStep ==
    ASSUME ChainInv, Entered, options' = options, merging' = merging,
           \/ \E r : r.status \in Outcomes /\ Return(r)
           \/ \E frame : Continue(frame)
           \/ \E frame, s : Call(Now(frame), s)
    PROVE  ChainStep
<1>1. stack # <<>> /\ merging' = <<>>
  BY DEF Entered
<1>2. CASE \E r : r.status \in Outcomes /\ Return(r)
  BY <1>1, <1>2 DEF ChainStep, Returns
<1>3. CASE \E frame : Continue(frame)
  BY <1>1, <1>3 DEF ChainStep, Continues
<1>4. CASE \E frame, s : Call(Now(frame), s)
  BY <1>1, <1>4, NowSequence DEF ChainStep, Calling
<1> QED
  BY <1>2, <1>3, <1>4

LEMMA MergeSchemasStep ==
    ASSUME ChainInv, stack # <<>>, result = NoResult, Top.phase = "enter", options' = options,
           NEW calls, IsSequence(calls), Len(calls) <= MaxMerging, Len(calls) \in Nat,
           calls = merging, merging # <<>> => Merger.todo # <<>>,
           NEW s, MergeSchemas(calls, s)
    PROVE  ChainStep
<1>1. CASE Len(calls) >= MaxMerging
  <2>1. ~(Len(calls) < MaxMerging)
    BY <1>1, LevelAssumption
  <2>2. stack' = <<>> /\ merging' = <<>> /\ result' = Crash
    BY <1>1, <2>1 DEF MergeSchemas
  <2> QED
    BY <1>1, <2>2 DEF ChainStep, Crashes
<1>2. CASE Len(calls) < MaxMerging /\ ~Has(s, "allOf") /\ ChoicePanics(s.anyOf)
  <2>1. Return(Panic) /\ merging' = <<>>
    BY <1>2, LevelAssumption DEF MergeSchemas
  <2> QED
    BY <2>1 DEF ChainStep, Returns, Panic, Outcomes
<1>3. CASE Len(calls) < MaxMerging /\ ~(~Has(s, "allOf") /\ ChoicePanics(s.anyOf))
  <2> DEFINE Begun == \E members \in Members(s) :
                          merging' = Append(calls, [todo |-> members, merged |-> Empty])
  <2>0. Begun /\ UNCHANGED <<stack, result>>
    <3>1. ~(Len(calls) >= MaxMerging)
      BY <1>3, LevelAssumption
    <3> QED
      BY <1>3, <3>1, Zenon DEF MergeSchemas
  <2>1. PICK members \in Members(s) : merging' = Append(calls, [todo |-> members, merged |-> Empty])
    BY <2>0
  <2>2. UNCHANGED <<stack, result>>
    BY <2>0
  <2>3. IsSequence(merging') /\ merging' # <<>> /\ Len(merging') = Len(calls) + 1
    BY <2>1, AppendSequence
  <2>4. Len(merging') <= MaxMerging
    BY <1>3, <2>3, LevelAssumption
  <2> QED
    BY <2>2, <2>3, <2>4 DEF ChainStep, Merges
<1> QED
  BY <1>1, <1>2, <1>3, LevelAssumption

LEMMA TakeMemberStep ==
    ASSUME ChainInv, stack # <<>>, result = NoResult, Top.phase = "enter", options' = options,
           NEW calls, IsSequence(calls), calls # <<>>, Len(calls) <= MaxMerging,
           NEW s, TakeMember(calls, s)
    PROVE  ChainStep
<1>1. CASE MergePanics(s)
  BY <1>1 DEF TakeMember, ChainStep, Returns, Panic, Outcomes
<1>2. CASE ~MergePanics(s)
  <2>1. PICK call : merging' = [calls EXCEPT ![Len(calls)] = call]
    BY <1>2 DEF TakeMember
  <2>2. UNCHANGED <<stack, result>>
    BY <1>2 DEF TakeMember
  <2>3. IsSequence(merging') /\ merging' # <<>> /\ Len(merging') = Len(calls)
    BY <2>1, ReplaceLast
  <2> QED
    BY <2>2, <2>3 DEF ChainStep, Merges
<1> QED
  BY <1>1, <1>2

LEMMA MergeMemberStep ==
    ASSUME ChainInv, MergeMember
    PROVE  ChainStep
<1> DEFINE s == Schemas[Head(Merger.todo)]
<1>1. options' = options /\ merging # <<>> /\ IsSequence(merging) /\ Len(merging) <= MaxMerging
  BY DEF MergeMember, Merging, ChainInv
<1>2. stack # <<>> /\ result = NoResult /\ Top.phase = "enter"
  BY <1>1 DEF ChainInv, MergerInside
<1>3. Len(merging) \in Nat
  BY <1>1, FrontSequence
<1>4. \/ \E member : TakeMember(merging, member)
      \/ MergeSchemas(merging, s) /\ Merger.todo # <<>>
      \/ Return(Panic) /\ merging' = <<>>
  <2>1. CASE ~Combining(s)
    BY <2>1, Zenon DEF MergeMember
  <2>2. CASE Combining(s) /\ (Has(s, "allOf") \/ Has(s, "anyOf"))
    BY <2>2, Zenon DEF MergeMember
  <2>3. CASE Combining(s) /\ ~(Has(s, "allOf") \/ Has(s, "anyOf"))
    <3>1. IF s.oneOf = <<>> THEN Return(Panic) /\ merging' = <<>>
          ELSE \E i \in DOMAIN s.oneOf : TakeMember(merging, Schemas[s.oneOf[i]])
      BY <2>3, Zenon DEF MergeMember
    <3> QED
      BY <3>1
  <2> QED
    BY <2>1, <2>2, <2>3
<1>5. CASE Return(Panic) /\ merging' = <<>>
  BY <1>1, <1>2, <1>5 DEF ChainStep, Returns, Panic, Outcomes
<1>6. CASE MergeSchemas(merging, s) /\ Merger.todo # <<>>
  BY <1>1, <1>2, <1>3, <1>6, MergeSchemasStep
<1>7. CASE \E member : TakeMember(merging, member)
  BY <1>1, <1>2, <1>7, TakeMemberStep
<1> QED
  BY <1>4, <1>5, <1>6, <1>7

LEMMA MergeReturnsStep ==
    ASSUME ChainInv, MergeReturns
    PROVE  ChainStep
<1>1. options' = options /\ merging # <<>> /\ IsSequence(merging) /\ Len(merging) <= MaxMerging
  BY DEF MergeReturns, Merging, ChainInv
<1>2. stack # <<>> /\ result = NoResult /\ Top.phase = "enter"
  BY <1>1 DEF ChainInv, MergerInside
<1>3. IsSequence(Outer) /\ Len(Outer) = Len(merging) - 1 /\ Len(merging) \in Nat \ {0}
  BY <1>1, FrontSequence DEF Outer
<1>4. CASE Outer = <<>>
  <2>1. merging' = <<>> /\ Call(Now([Top EXCEPT !.phase = "pass"]), Merger.merged)
    BY <1>4 DEF MergeReturns
  <2> QED
    BY <1>1, <1>2, <2>1, NowSequence DEF ChainStep, Calling
<1>5. CASE Outer # <<>>
  <2>1. TakeMember(Outer, Merger.merged)
    BY <1>5 DEF MergeReturns
  <2>2. Len(Outer) <= MaxMerging
    BY <1>1, <1>3, LevelAssumption
  <2> QED
    BY <1>1, <1>2, <1>3, <1>5, <2>1, <2>2, TakeMemberStep
<1> QED
  BY <1>4, <1>5

LEMMA GenerateIsChainStep ==
    ASSUME ChainInv, Generate
    PROVE  ChainStep
<1> USE DEF Outcomes, Ok, Failed, Panic, AttemptsExceeded
<1>1. CASE GenerateNull
  BY <1>1, EnteredStep DEF GenerateNull
<1>2. CASE TakeExample
  BY <1>2, EnteredStep DEF TakeExample
<1>3. ASSUME NEW type \in ScalarTypes, GenerateScalar(type)
      PROVE  ChainStep
  <2>1. PICK r \in ScalarResults(type, Top.schema) : Return(r)
    BY <1>3 DEF GenerateScalar
  <2>2. r.status \in Outcomes
    BY ScalarStatus
  <2> QED
    BY <1>3, <2>1, <2>2, EnteredStep DEF GenerateScalar, Generates, Delegates
<1>4. CASE GenerateUnsupported
  BY <1>4, EnteredStep DEF GenerateUnsupported, Delegates
<1>5. CASE GenerateOneOf
  BY <1>5, EnteredStep DEF GenerateOneOf, Generates, Delegates
<1>6. CASE GenerateCombined
  <2>1. stack # <<>> /\ result = NoResult /\ Top.phase = "enter" /\ options' = options
    BY <1>6 DEF GenerateCombined, Generates, Delegates, Entered
  <2>2. MergeSchemas(<<>>, Top.schema) /\ merging = <<>>
    BY <1>6 DEF GenerateCombined, Generates, Delegates, Entered
  <2>3. Len(<<>>) <= MaxMerging /\ Len(<<>>) \in Nat
    BY EmptySequence, LevelAssumption
  <2> QED
    BY <2>1, <2>2, <2>3, EmptySequence, MergeSchemasStep
<1>7. CASE MergeMember
  BY <1>7, MergeMemberStep
<1>8. CASE MergeReturns
  BY <1>8, MergeReturnsStep
<1>9. CASE GenerateArray
  BY <1>9, EnteredStep DEF GenerateArray, Generates, Delegates
<1>10. CASE NextItem
  <2>1. stack # <<>> /\ Top.phase # "enter" /\ UNCHANGED <<options, merging>>
    BY <1>10 DEF NextItem, Working
  <2>2. \/ Return(Ok(Array(Top.made)))
        \/ Return(Panic)
        \/ Call(stack, Schemas[Top.schema.items])
    BY <1>10, Zenon DEF NextItem
  <2> QED
    BY <2>1, <2>2, PartStep
<1>11. CASE KeepItem
  BY <1>11, PartStep DEF KeepItem, Returned
<1>12. CASE KeepUnique
  BY <1>12, PartStep DEF KeepUnique, Returned
<1>13. CASE RepeatUnique
  BY <1>13, PartStep DEF RepeatUnique, Returned
<1>14. CASE ShortArray
  BY <1>14, PartStep DEF ShortArray, Enough
<1>15. CASE GenerateObject
  BY <1>15, EnteredStep DEF GenerateObject, Generates, Delegates
<1>16. CASE NextProperty
  <2>1. stack # <<>> /\ Top.phase # "enter" /\ UNCHANGED <<options, merging>>
    BY <1>16 DEF NextProperty, Working
  <2>2. \/ Return(Ok(Object(Top.made)))
        \/ \E frame, s : Call(Now(frame), s)
    BY <1>16, Zenon DEF NextProperty
  <2> QED
    BY <2>1, <2>2, PartStep
<1>17. CASE NextRequired
  <2>1. stack # <<>> /\ Top.phase # "enter" /\ UNCHANGED <<options, merging>>
    BY <1>17 DEF NextRequired, Working
  <2>2. \/ \E frame : Continue(frame)
        \/ Return(Panic)
        \/ \E frame, s : Call(Now(frame), s)
    BY <1>17, Zenon DEF NextRequired
  <2> QED
    BY <2>1, <2>2, PartStep
<1>18. CASE NextEntry
  <2> DEFINE Value(k) == Call(Now([Top EXCEPT !.name = k]), Schemas[Top.schema.additional])
  <2>1. stack # <<>> /\ Top.phase # "enter" /\ UNCHANGED <<options, merging>>
    BY <1>18 DEF NextEntry, Working
  <2>2. \/ Return(Ok(Object(Top.made)))
        \/ \E k \in NewKeys : Value(k)
        \/ Return(IF Size + 1 > MinProps(Top.schema) THEN Ok(Object(Top.made)) ELSE AttemptsExceeded)
    BY <1>18, Zenon DEF NextEntry, NoNewKey
  <2>3. (\E r : r.status \in Outcomes /\ Return(r)) \/ (\E k \in NewKeys : Value(k))
    <3> HIDE DEF Value
    <3> DEFINE r == IF Size + 1 > MinProps(Top.schema) THEN Ok(Object(Top.made)) ELSE AttemptsExceeded
    <3>2. r.status \in Outcomes /\ Ok(Object(Top.made)).status \in Outcomes
      OBVIOUS
    <3> HIDE DEF r
    <3> QED
      BY <2>2, <3>2 DEF r
  <2> QED
    BY <2>1, <2>3, PartStep
<1>19. CASE NextFree
  <2> DEFINE Value(k) == Continue([Top EXCEPT !.made = With(@, k, [string |-> "lorem"])])
  <2>1. stack # <<>> /\ Top.phase # "enter" /\ UNCHANGED <<options, merging>>
    BY <1>19 DEF NextFree, Working
  <2>2. \/ Return(Ok(Object(Top.made)))
        \/ \E k \in NewKeys : Value(k)
        \/ Return(IF Size + 1 > MinProps(Top.schema) THEN Ok(Object(Top.made)) ELSE AttemptsExceeded)
    BY <1>19, Zenon DEF NextFree, NoNewKey
  <2>3. (\E r : r.status \in Outcomes /\ Return(r)) \/ (\E k \in NewKeys : Value(k))
    <3> HIDE DEF Value
    <3> DEFINE r == IF Size + 1 > MinProps(Top.schema) THEN Ok(Object(Top.made)) ELSE AttemptsExceeded
    <3>2. r.status \in Outcomes /\ Ok(Object(Top.made)).status \in Outcomes
      OBVIOUS
    <3> HIDE DEF r
    <3> QED
      BY <2>2, <3>2 DEF r
  <2> QED
    BY <2>1, <2>3, PartStep
<1>20. CASE KeepField
  BY <1>20, PartStep DEF KeepField, Returned
<1>21. CASE Propagate
  <2>1. result # NoResult
    BY <1>21 DEF Propagate, Returned, IsError, NoResult
  <2>2. result.status \in Outcomes
    BY <1>21 DEF Propagate, Returned, IsError
  <2> QED
    BY <1>21, <2>1, <2>2, PartStep DEF Propagate
<1> QED
  BY <1>1, <1>2, <1>3, <1>4, <1>5, <1>6, <1>7, <1>8, <1>9, <1>10, <1>11, <1>12, <1>13, <1>14,
     <1>15, <1>16, <1>17, <1>18, <1>19, <1>20, <1>21, Zenon DEF Generate

LEMMA ChainStepKeeps ==
    ASSUME ChainInv, ChainStep
    PROVE  ChainInv'
<1> USE DEF Statuses, Outcomes
<1>1. IsSequence(stack) /\ stack # <<>> /\ Len(stack) <= MaxLevel /\ options' \in Options
  BY DEF ChainInv, ChainStep
<1>2. IsSequence(Below) /\ Len(Below) = Len(stack) - 1 /\ Len(stack) \in Nat \ {0}
  BY <1>1, FrontSequence DEF Below
<1>3. IsSequence(<<>>) /\ Len(<<>>) = 0 /\ 0 <= MaxLevel /\ 0 <= MaxMerging
  BY EmptySequence, LevelAssumption
<1>4. SUFFICES IsSequence(stack') /\ Len(stack') <= MaxLevel /\ result'.status \in Statuses
               /\ (merging' = <<>> \/ Merges)
  <2>1. CASE merging' = <<>>
    BY <1>1, <1>3, <1>4, <2>1 DEF ChainInv, MergerInside
  <2>2. CASE Merges
    BY <1>1, <1>4, <2>2 DEF ChainInv, MergerInside, Merges, Top
  <2> QED
    BY <1>4, <2>1, <2>2
<1>5. CASE Returns
  <2>1. PICK r : r.status \in Outcomes /\ Return(r) /\ merging' = <<>>
    BY <1>5 DEF Returns
  <2>2. CASE r = Panic
    BY <1>3, <2>1, <2>2 DEF Return, Panic
  <2>3. CASE r # Panic
    <3>1. stack' = Below /\ result'.status \in Statuses
      BY <2>1, <2>3 DEF Return, Ok
    <3>2. Len(Below) <= MaxLevel
      BY <1>1, <1>2, LevelAssumption
    <3> QED
      BY <1>2, <2>1, <3>1, <3>2
  <2> QED
    BY <2>2, <2>3
<1>6. CASE Calling
  <2>1. PICK calling, s : IsSequence(calling) /\ Len(calling) = Len(stack)
                          /\ Call(calling, s) /\ merging' = <<>>
    BY <1>6 DEF Calling
  <2>2. CASE Len(calling) >= MaxLevel
    BY <1>1, <2>1, <2>2 DEF Call, Failed
  <2>3. CASE ~(Len(calling) >= MaxLevel)
    <3>1. stack' = Append(calling, Frame(s)) /\ result' = NoResult
      BY <2>1, <2>3 DEF Call
    <3>2. IsSequence(stack') /\ Len(stack') = Len(calling) + 1
      BY <2>1, <3>1, AppendSequence
    <3>3. Len(stack') <= MaxLevel
      BY <1>2, <2>1, <2>3, <3>2, LevelAssumption
    <3> QED
      BY <2>1, <3>1, <3>2, <3>3 DEF NoResult
  <2> QED
    BY <2>2, <2>3
<1>7. CASE Continues
  <2>1. PICK frame : stack' = Now(frame) /\ result' = NoResult /\ merging' = <<>>
    BY <1>7 DEF Continues, Continue
  <2> QED
    BY <1>1, <2>1, NowSequence DEF NoResult
<1>8. CASE Merges
  BY <1>1, <1>8 DEF Merges, ChainInv
<1>9. CASE Crashes
  BY <1>3, <1>9 DEF Crashes, Crash
<1>10. CASE Exceeds
  BY <1>1, <1>10 DEF Exceeds, AttemptsExceeded
<1> QED
  BY <1>5, <1>6, <1>7, <1>8, <1>9, <1>10 DEF ChainStep

Before == {"idle", "options", "route", "validate", "negotiate"}

-----------------------------------------------------------------------------
(* The route and the negotiation of the code, which need no generator.     *)

Probed(method) ==
    \/ HasRoute([path |-> request.path, method |-> method])
    \/ request.path \in Special /\ method = "GET"

RouteInv ==
    /\ \E path, method : request = [path |-> path, method |-> method]
    /\ at = "options" => \A method \in allowed \ {"OPTIONS"} : Probed(method)
    /\ RouteFoundAgain
    /\ at \in {"validate", "negotiate", "generate", "respond"} => HasRoute(request)

LEMMA InitRouteInv == ASSUME Init PROVE RouteInv
BY DEF Init, RouteInv, RouteFoundAgain

LEMMA NextRouteInv == ASSUME RouteInv, [Next]_vars PROVE RouteInv'
<1> USE DEF RouteInv
<1>1. ASSUME NEW path, NEW method, Receive(path, method) PROVE RouteInv'
  BY <1>1 DEF Receive, Goto, RouteFoundAgain
<1>2. CASE TryMethod
  <2> DEFINE r == [request EXCEPT !.method = Head(probing)]
  <2>1. at = "options" /\ at' = at /\ request' = r
    BY <1>2 DEF TryMethod
  <2>2. r = [path |-> request.path, method |-> Head(probing)]
    OBVIOUS
  <2>3. allowed' \subseteq allowed \cup {r.method}
        /\ (r.method \in allowed' \ allowed => HasRoute(r) \/ (r.path \in Special /\ r.method = "GET"))
    BY <1>2 DEF TryMethod
  <2>4. ASSUME NEW method \in allowed' \ {"OPTIONS"}
        PROVE  HasRoute([path |-> request.path, method |-> method])
               \/ (request.path \in Special /\ method = "GET")
    <3>1. CASE method \in allowed
      BY <2>1, <2>4, <3>1 DEF Probed
    <3>2. CASE method \notin allowed
      BY <2>2, <2>3, <2>4, <3>2
    <3> QED
      BY <3>1, <3>2
  <2> QED
    BY <2>1, <2>2, <2>4 DEF RouteFoundAgain, Probed
<1>3. CASE Decide
  <2>1. at = "options" /\ request' = [path |-> request.path, method |-> asked]
        /\ (at' = "done" \/ (at' = "route" /\ asked \in allowed \ {"OPTIONS"}))
    BY <1>3 DEF Decide, Decided, Goto, Write
  <2> QED
    BY <2>1 DEF RouteFoundAgain, Probed, HasRoute
<1>4. CASE FindRoute
  <2>1. request' = request /\ (at' = "validate" => HasRoute(request)) /\ at' \in {"done", "handed", "validate"}
    BY <1>4 DEF FindRoute, Goto, Write, routing
  <2> QED
    BY <2>1 DEF RouteFoundAgain, HasRoute
<1>5. CASE Validate
  <2>1. at = "validate" /\ request' = request /\ at' \in {"done", "negotiate"}
    BY <1>5 DEF Validate, Goto, Write, routing
  <2> QED
    BY <2>1 DEF RouteFoundAgain, HasRoute
<1>6. CASE VisitKey
  BY <1>6 DEF VisitKey, routing, RouteFoundAgain, HasRoute, Probed
<1>7. CASE Negotiated
  <2>1. at = "negotiate" /\ request' = request /\ at' \in {"done", "generate"}
    BY <1>7 DEF Negotiated, Goto, Write, routing
  <2> QED
    BY <2>1 DEF RouteFoundAgain, HasRoute
<1>8. CASE GenerateStep
  BY <1>8 DEF GenerateStep, routing, RouteFoundAgain, HasRoute, Probed
<1>9. CASE Generated
  <2>1. at = "generate" /\ request' = request /\ at' \in {"done", "crashed", "respond"}
    BY <1>9 DEF Generated, Done, Goto, Write, routing
  <2> QED
    BY <2>1 DEF RouteFoundAgain, HasRoute
<1>10. CASE Respond
  <2>1. request' = request /\ at' \in {"done", "handed"}
    BY <1>10 DEF Respond, ReadStored, WriteResponse, Goto, Write, routing
  <2> QED
    BY <2>1 DEF RouteFoundAgain
<1>11. CASE UNCHANGED vars
  BY <1>11 DEF vars, routing, RouteFoundAgain, HasRoute, Probed
<1> QED
  BY <1>1, <1>2, <1>3, <1>4, <1>5, <1>6, <1>7, <1>8, <1>9, <1>10, <1>11 DEF Next, Handle, Proceed, Proceed

\* The keys of the response that stand for a code, and were visited.
Seen == (DOMAIN Responses \ keys) \cap DOMAIN Code

IsSuccess(key) == CodeOf(key) \in 200 .. 299

\* What the negotiator knows when it has seen a part of the keys.
BestOfSeen ==
    /\ best.success # None =>
           /\ best.success \in Seen
           /\ IsSuccess(best.success)
           /\ \A key \in Seen : IsSuccess(key) => CodeOf(best.success) <= CodeOf(key)
    /\ best.other # None => best.other \in Seen
    /\ best.success = None =>
           \A key \in Seen : /\ ~IsSuccess(key)
                             /\ best.other # None
                             /\ CodeOf(best.other) <= CodeOf(key)

CodeInv ==
    /\ \E success, other : best = [success |-> success, other |-> other]
    /\ at \in Before \ {"negotiate"} => best = [success |-> None, other |-> None]
    /\ at = "negotiate" => keys \subseteq DOMAIN Responses /\ BestOfSeen
    /\ LeastCode

LEMMA CodesAreNumbers == ASSUME NEW key \in DOMAIN Code PROVE CodeOf(key) \in Nat
BY CodeAssumption DEF CodeOf

LEMMA NoneIsNoKey == \A key \in DOMAIN Code : key # None
BY CodeAssumption DEF None

LEMMA VisitKeyKeeps ==
    ASSUME CodeInv, VisitKey
    PROVE  CodeInv'
<1>1. PICK key \in keys :
        /\ keys' = keys \ {key}
        /\ best' = IF key \in DOMAIN Code THEN Better(key) ELSE best
  BY DEF VisitKey
<1>2. at = "negotiate" /\ at' = at /\ request' = request
  BY DEF VisitKey, routing
<1>3. keys \subseteq DOMAIN Responses /\ BestOfSeen /\ Responses' = Responses
  BY <1>2 DEF CodeInv, Responses
<1>4. Seen' = Seen \cup ({key} \cap DOMAIN Code)
  BY <1>1, <1>3 DEF Seen
<1>5. PICK success, other : best = [success |-> success, other |-> other]
  BY DEF CodeInv
<1>6. BestOfSeen' /\ (\E s, o : best' = [success |-> s, other |-> o])
  <2>1. CASE key \notin DOMAIN Code
    <3>1. best' = best /\ Seen' = Seen
      BY <1>1, <1>4, <2>1
    <3>2. BestOfSeen'
      BY <1>3, <3>1 DEF BestOfSeen, IsSuccess, CodeOf
    <3> QED
      BY <1>5, <3>1, <3>2
  <2>2. CASE key \in DOMAIN Code /\ IsSuccess(key) /\ Less(key, best.success)
    <3>1. best' = [success |-> key, other |-> best.other]
      BY <1>1, <1>5, <2>2 DEF Better, IsSuccess
    <3>2. key # None
      BY <2>2, NoneIsNoKey
    <3>3. ASSUME NEW k \in Seen', IsSuccess(k) PROVE CodeOf(key) <= CodeOf(k)
      <4>1. CASE k = key
        BY <2>2, <4>1, CodesAreNumbers
      <4>2. CASE k # key
        <5>1. k \in Seen /\ best.success # None
          BY <1>3, <1>4, <3>3, <4>2 DEF BestOfSeen
        <5>2. CodeOf(best.success) <= CodeOf(k) /\ best.success \in DOMAIN Code /\ k \in DOMAIN Code
          BY <1>3, <3>3, <5>1 DEF BestOfSeen, Seen
        <5>3. CodeOf(key) < CodeOf(best.success)
          BY <2>2, <5>1 DEF Less
        <5> QED
          BY <2>2, <5>2, <5>3, CodesAreNumbers
      <4> QED
        BY <4>1, <4>2
    <3> QED
      BY <1>3, <1>4, <2>2, <3>1, <3>2, <3>3 DEF BestOfSeen, IsSuccess, CodeOf
  <2>3. CASE key \in DOMAIN Code /\ ~(IsSuccess(key) /\ Less(key, best.success))
    <3>1. best' = IF Less(key, best.other) THEN [success |-> best.success, other |-> key] ELSE best
      BY <1>1, <1>5, <2>3 DEF Better, IsSuccess
    <3>2. best'.success = best.success
      BY <3>1
    <3>3. best'.other # None => best'.other \in Seen'
      BY <1>3, <1>4, <2>3, <3>1 DEF BestOfSeen
    <3>4. CASE best.success # None
      <4>1. best.success \in Seen /\ best.success \in DOMAIN Code /\ IsSuccess(best.success)
        BY <1>3, <3>4 DEF BestOfSeen, Seen
      <4>2. IsSuccess(key) => CodeOf(best.success) <= CodeOf(key)
        BY <2>3, <3>4, <4>1, CodesAreNumbers DEF Less
      <4>3. \A k \in Seen' : IsSuccess(k) => CodeOf(best.success) <= CodeOf(k)
        BY <1>3, <1>4, <3>4, <4>2 DEF BestOfSeen
      <4> QED
        BY <1>4, <1>5, <3>1, <3>2, <3>3, <3>4, <4>1, <4>3 DEF BestOfSeen, IsSuccess, CodeOf
    <3>5. CASE best.success = None
      <4>1. ~IsSuccess(key) /\ key # None
        BY <2>3, <3>5, NoneIsNoKey DEF Less
      <4>2. best'.other # None
        BY <3>1, <4>1 DEF Less
      <4>3. ASSUME NEW k \in Seen' PROVE ~IsSuccess(k) /\ CodeOf(best'.other) <= CodeOf(k)
        <5>1. CASE k = key
          <6>1. CASE Less(key, best.other)
            BY <2>3, <3>1, <4>1, <5>1, <6>1, CodesAreNumbers
          <6>2. CASE ~Less(key, best.other)
            <7>1. best.other # None /\ best.other \in DOMAIN Code /\ ~(CodeOf(key) < CodeOf(best.other))
              BY <1>3, <6>2 DEF Less, BestOfSeen, Seen
            <7> QED
              BY <2>3, <3>1, <4>1, <5>1, <6>2, <7>1, CodesAreNumbers
          <6> QED
            BY <6>1, <6>2
        <5>2. CASE k # key
          <6>1. k \in Seen /\ k \in DOMAIN Code
            BY <1>4, <4>3, <5>2 DEF Seen
          <6>2. ~IsSuccess(k) /\ best.other # None /\ CodeOf(best.other) <= CodeOf(k)
                /\ best.other \in DOMAIN Code
            BY <1>3, <3>5, <6>1 DEF BestOfSeen, Seen
          <6>3. CASE Less(key, best.other)
            BY <2>3, <3>1, <6>1, <6>2, <6>3, CodesAreNumbers DEF Less
          <6>4. CASE ~Less(key, best.other)
            BY <3>1, <6>2, <6>4
          <6> QED
            BY <6>3, <6>4
        <5> QED
          BY <5>1, <5>2
      <4> QED
        BY <1>5, <3>1, <3>2, <3>3, <3>5, <4>2, <4>3 DEF BestOfSeen, IsSuccess, CodeOf
    <3> QED
      BY <3>4, <3>5
  <2> QED
    BY <2>1, <2>2, <2>3
<1>7. keys' \subseteq DOMAIN Responses'
  BY <1>1, <1>3
<1> QED
  BY <1>2, <1>6, <1>7 DEF CodeInv, LeastCode

\* What is negotiated when all keys were seen.
LEMMA KeyIsLeast ==
    ASSUME CodeInv, at = "negotiate", keys = {}, Key # None
    PROVE  /\ Key \in DOMAIN Responses
           /\ LET among == IF Successes # {} THEN Successes ELSE Codes
              IN  CodeOf(Key) \in among /\ \A code \in among : CodeOf(Key) <= code
<1>1. BestOfSeen /\ Seen = DOMAIN Responses \cap DOMAIN Code
  BY DEF CodeInv, Seen
<1>2. CASE best.success # None
  <2>1. Key = best.success /\ Key \in Seen /\ IsSuccess(Key)
        /\ \A key \in Seen : IsSuccess(key) => CodeOf(Key) <= CodeOf(key)
    BY <1>1, <1>2 DEF BestOfSeen, Key
  <2>2. CodeOf(Key) \in Successes /\ \A code \in Successes : CodeOf(Key) <= code
    BY <1>1, <2>1 DEF Successes, Codes, IsSuccess
  <2> QED
    BY <1>1, <2>1, <2>2
<1>3. CASE best.success = None
  <2>1. Key = best.other /\ Key \in Seen
        /\ \A key \in Seen : ~IsSuccess(key) /\ CodeOf(Key) <= CodeOf(key)
    BY <1>1, <1>3 DEF BestOfSeen, Key
  <2>2. Successes = {}
    BY <1>1, <2>1 DEF Successes, Codes, IsSuccess
  <2>3. CodeOf(Key) \in Codes /\ \A code \in Codes : CodeOf(Key) <= code
    BY <1>1, <2>1 DEF Codes
  <2> QED
    BY <1>1, <2>1, <2>2, <2>3
<1> QED
  BY <1>2, <1>3

LEMMA InitCodeInv == ASSUME Init PROVE CodeInv
BY DEF Init, CodeInv, LeastCode, Before

\* Steps that neither visit a key nor come to the generation.
LEMMA CodeRests ==
    ASSUME CodeInv, best' = best, at' # "negotiate",
           at' \in Before => at \in Before \ {"negotiate"},
           at' \in {"generate", "respond"} => at \in {"generate", "respond"} /\ request' = request
    PROVE  CodeInv'
<1>1. LeastCode'
  <2>1. CASE at' \in {"generate", "respond"}
    <3>1. Key' = Key
      BY DEF Key
    <3>2. Responses' = Responses
      BY <2>1 DEF Responses
    <3>3. Codes' = Codes
      BY <3>2 DEF Codes, CodeOf
    <3>4. Successes' = Successes
      BY <3>3 DEF Successes
    <3>5. at \in {"generate", "respond"}
      BY <2>1
    <3> QED
      BY <3>1, <3>3, <3>4, <3>5 DEF CodeInv, LeastCode, CodeOf
  <2> QED
    BY <2>1 DEF LeastCode
<1> QED
  BY <1>1 DEF CodeInv

LEMMA NextCodeInv == ASSUME CodeInv, [Next]_vars PROVE CodeInv'
<1> USE DEF Before
<1>1. ASSUME NEW path, NEW method, Receive(path, method) PROVE CodeInv'
  BY <1>1, CodeRests DEF Receive, Goto, negotiation
<1>2. CASE TryMethod
  BY <1>2, CodeRests DEF TryMethod, negotiation
<1>3. CASE Decide
  <2>1. at = "options" /\ best' = best /\ at' \in {"done", "route"}
    BY <1>3 DEF Decide, Decided, Goto, Write, negotiation
  <2> QED
    BY <2>1, CodeRests
<1>4. CASE FindRoute
  <2>1. at = "route" /\ best' = best /\ at' \in {"done", "handed", "validate"}
    BY <1>4 DEF FindRoute, Goto, Write, negotiation
  <2> QED
    BY <2>1, CodeRests
<1>5. CASE Validate
  <2>1. at = "validate" /\ best' = best /\ request' = request
        /\ (at' = "done" \/ (at' = "negotiate" /\ keys' = DOMAIN Responses))
    BY <1>5 DEF Validate, Goto, Write, routing
  <2>2. CASE at' = "done"
    BY <2>1, <2>2, CodeRests
  <2>3. CASE at' = "negotiate" /\ keys' = DOMAIN Responses
    <3>1. best' = [success |-> None, other |-> None] /\ Responses' = Responses
      BY <2>1 DEF CodeInv, Responses
    <3>2. Seen' = {}
      BY <2>3, <3>1 DEF Seen
    <3> QED
      BY <2>3, <3>1, <3>2 DEF CodeInv, BestOfSeen, LeastCode
  <2> QED
    BY <2>1, <2>2, <2>3
<1>6. CASE VisitKey
  BY <1>6, VisitKeyKeeps
<1>7. CASE Negotiated
  <2>1. at = "negotiate" /\ keys = {} /\ best' = best /\ request' = request
        /\ (at' = "done" \/ (at' = "generate" /\ Key # None))
    BY <1>7 DEF Negotiated, Goto, Write, routing
  <2>2. LeastCode'
    <3>1. CASE at' = "done"
      BY <3>1 DEF LeastCode
    <3>2. CASE at' = "generate" /\ Key # None
      <4>1. Key' = Key
        BY <2>1 DEF Key
      <4>2. Responses' = Responses
        BY <2>1 DEF Responses
      <4>3. Codes' = Codes
        BY <4>2 DEF Codes, CodeOf
      <4>4. Successes' = Successes
        BY <4>3 DEF Successes
      <4> QED
        BY <2>1, <3>2, <4>1, <4>3, <4>4, KeyIsLeast DEF LeastCode, CodeOf
    <3> QED
      BY <2>1, <3>1, <3>2
  <2> QED
    BY <2>1, <2>2 DEF CodeInv
<1>8. CASE GenerateStep
  BY <1>8, CodeRests DEF GenerateStep, negotiation, routing
<1>9. CASE Generated
  <2>1. at = "generate" /\ best' = best /\ request' = request /\ at' \in {"done", "crashed", "respond"}
    BY <1>9 DEF Generated, Done, Goto, Write, negotiation, routing
  <2> QED
    BY <2>1, CodeRests
<1>10. CASE Respond
  <2>1. best' = best /\ at' \in {"done", "handed"}
    BY <1>10 DEF Respond, ReadStored, WriteResponse, Goto, Write, negotiation
  <2> QED
    BY <2>1, CodeRests
<1>11. CASE UNCHANGED vars
  <2>1. best' = best /\ keys' = keys /\ request' = request /\ at' = at
    BY <1>11 DEF vars, negotiation, routing
  <2>2. CASE at = "negotiate"
    <3>1. at' = "negotiate" /\ best' = best /\ Seen' = Seen /\ Responses' = Responses
      BY <2>1, <2>2 DEF Seen, Responses
    <3>2. BestOfSeen'
      BY <2>2, <3>1 DEF CodeInv, BestOfSeen, IsSuccess, CodeOf
    <3>3. LeastCode'
      BY <3>1 DEF LeastCode
    <3> QED
      BY <2>1, <2>2, <3>1, <3>2, <3>3 DEF CodeInv
  <2>3. CASE at # "negotiate"
    BY <2>1, <2>3, CodeRests
  <2> QED
    BY <2>2, <2>3
<1> QED
  BY <1>1, <1>2, <1>3, <1>4, <1>5, <1>6, <1>7, <1>8, <1>9, <1>10, <1>11 DEF Next, Handle, Proceed, Proceed

-----------------------------------------------------------------------------
(* The invariant of a request: the generators rest outside of "generate", *)
(* and nothing was generated before the negotiation.                       *)

PlaceInv ==
    /\ at \in Before \cup {"generate", "respond", "handed", "done", "crashed"}
    /\ at # "generate" => stack = <<>> /\ merging = <<>>
    /\ at \in Before => result = NoResult
    /\ at = "respond" => result.status = "ok"

IInv == ChainInv /\ PlaceInv /\ SuppressedNeverFails /\ OnlyExamples

\* What the negotiation can do to the generators, which are at rest.
Begins ==
    \/ stack' = <<>> /\ result'.status = "ok"
    \/ stack' = <<>> /\ result' = Panic
    \/ stack' = <<>> /\ result' = Failed /\ content' = "other"
    \/ /\ options.useExamples # "exclusively"
       /\ result' = NoResult
       /\ \E s : WellFormed(s) /\ stack' = Append(<<>>, Frame(s))

LEMMA GenerateDataBegins ==
    ASSUME stack = <<>>, NEW media, NEW given, GenerateData(media, given),
           \A s \in given : WellFormed(s)
    PROVE  Begins
<1>1. CASE options.useExamples # "no" /\ Has(media, "examples")
  BY <1>1 DEF GenerateData, Begins, Ok
<1>2. CASE ~Has(media, "examples") /\ options.useExamples = "exclusively"
  BY <1>2 DEF GenerateData, Begins, Ok
<1>3. CASE /\ ~(options.useExamples # "no" /\ Has(media, "examples"))
           /\ ~(~Has(media, "examples") /\ options.useExamples = "exclusively")
  <2>1. options.useExamples # "exclusively"
    BY <1>3
  <2>2. IF given = {} THEN result' = Panic /\ UNCHANGED stack ELSE \E s \in given : Call(<<>>, s)
    BY <1>3, Zenon DEF GenerateData
  <2>3. ~(Len(<<>>) >= MaxLevel)
    BY EmptySequence, LevelAssumption
  <2> QED
    BY <2>1, <2>2, <2>3 DEF Begins, Call
<1> QED
  BY <1>1, <1>2, <1>3

\* The schema that a content generator takes for a media type.
LEMMA MediaSchemas ==
    ASSUME NEW media, Has(media, "schema") => media.schema \in Names,
           NEW s \in MediaSchema(media) \cup TextSchema(media) \cup HtmlSchema(media)
    PROVE  WellFormed(s)
<1>1. CASE Has(media, "schema") /\ s = Schemas[media.schema]
  BY <1>1, SchemasAssumption
<1>2. CASE s = [type |-> "string"] \/ s = [type |-> "string", format |-> "html"]
  BY <1>2 DEF WellFormed, Has, Get
<1> QED
  BY <1>1, <1>2 DEF MediaSchema, TextSchema, HtmlSchema

LEMMA NegotiatedBegins ==
    ASSUME stack = <<>>, result = NoResult, Negotiated, HasRoute(request),
           Key # None => Key \in DOMAIN Responses
    PROVE  \/ UNCHANGED <<generation, content>> /\ at' = "done"
           \/ Begins /\ options' = options /\ merging' = merging /\ at' = "generate"
<1>1. options' = options /\ merging' = merging
  BY DEF Negotiated
<1>2. CASE Key = None
  BY <1>1, <1>2 DEF Negotiated, Write, generation
<1>3. CASE Key # None
  <2>1. PICK type \in NegotiateContentType(Responses[Key]) :
               content' = type /\ GenerateContent(Responses[Key], type)
    BY <1>3 DEF Negotiated
  <2>2. at' = "generate"
    BY <1>3 DEF Negotiated, Goto
  <2>3. type \in {"json", "xml", "html", "plain", "other"}
    <3>1. DOMAIN Responses[Key] \subseteq {"json", "xml", "html", "plain", "other"}
      BY <1>3, OperationsAssumption DEF Responses, HasRoute
    <3> QED
      BY <2>1, <3>1 DEF NegotiateContentType
  <2> DEFINE response == Responses[Key]
  <2>9. \A t \in DOMAIN response : Has(response[t], "schema") => response[t].schema \in Names
    BY <1>3, OperationsAssumption DEF Responses, HasRoute
  <2>10. type \in DOMAIN response \/ (type = "json" /\ ~Has(response, "json"))
    BY <2>1 DEF NegotiateContentType, Has
  <2> DEFINE structured == type \in {"json", "xml"}
             has == Has(response, type)
             media == GenerateData(response[type], MediaSchema(response[type]))
             html == GenerateData(response[type], HtmlSchema(response[type]))
             plain == GenerateData(response[type], TextSchema(response[type]))
             text == result' = Ok([string |-> ""]) /\ UNCHANGED stack
             none == result' = Failed /\ UNCHANGED stack
  <2>12. (CASE structured /\ has -> media
            [] structured /\ ~has -> text
            [] type = "html"  -> html
            [] type = "plain" -> plain
            [] OTHER          -> none)
    BY <2>1, Zenon DEF GenerateContent
  <2>4. \/ media /\ has
        \/ html /\ type = "html"
        \/ plain /\ type = "plain"
        \/ text
        \/ type \notin {"json", "xml", "html", "plain"} /\ none
    <3>1. structured <=> type = "json" \/ type = "xml"
      OBVIOUS
    <3> HIDE DEF has, media, html, plain, text, none, structured
    <3> QED
      BY <2>12, <3>1
  <2> HIDE DEF response
  <2>5. ASSUME type \notin {"json", "xml", "html", "plain"}, result' = Failed, UNCHANGED stack
        PROVE  Begins
    <3>1. stack' = <<>> /\ content' = "other"
      BY <2>1, <2>3, <2>5
    <3> QED
      BY <2>5, <3>1, Zenon DEF Begins
  <2>6. ASSUME result' = Ok([string |-> ""]), UNCHANGED stack PROVE Begins
    <3>1. stack' = <<>>
      BY <2>6
    <3>2. result'.status = "ok"
      BY <2>6 DEF Ok
    <3> QED
      BY <3>1, <3>2, Zenon DEF Begins
  <2>7. ASSUME type \in DOMAIN response,
               NEW given \in {MediaSchema(response[type]), HtmlSchema(response[type]), TextSchema(response[type])},
               GenerateData(response[type], given)
        PROVE  Begins
    <3>1. Has(response[type], "schema") => response[type].schema \in Names
      BY <2>7, <2>9
    <3>2. \A s \in given : WellFormed(s)
      BY <2>7, <3>1, MediaSchemas
    <3> QED
      BY <2>7, <3>2, GenerateDataBegins
  <2>11. Has(response, type) \/ type \in {"html", "plain"} => type \in DOMAIN response
    BY <2>10 DEF Has
  <2>8. Begins
    BY <2>4, <2>5, <2>6, <2>7, <2>11
  <2> QED
    BY <1>1, <2>2, <2>8
<1> QED
  BY <1>2, <1>3

LEMMA InitIInv == ASSUME Init PROVE IInv
<1>1. IsSequence(stack) /\ Len(stack) = 0 /\ IsSequence(merging) /\ Len(merging) = 0
  BY EmptySequence DEF Init
<1>2. 0 <= MaxLevel /\ 0 <= MaxMerging
  BY LevelAssumption
<1> QED
  BY <1>1, <1>2 DEF Init, IInv, ChainInv, PlaceInv, Before, SuppressedNeverFails, OnlyExamples, MergerInside,
     NoResult, Statuses, Outcomes, IsError

\* Suppression and exclusive examples, through a step of the chain.
LEMMA ChainPromises ==
    ASSUME ChainInv, ChainStep, content' = content, SuppressedNeverFails, OnlyExamples
    PROVE  SuppressedNeverFails' /\ OnlyExamples'
<1>1. IsSequence(stack) /\ stack # <<>> /\ options' = options
  BY DEF ChainInv, ChainStep
<1>2. OnlyExamples'
  BY <1>1 DEF OnlyExamples
<1>3. SUFFICES ASSUME options.suppress, stack' = <<>> PROVE ~IsError(result')
  BY <1>1, <1>2 DEF SuppressedNeverFails, IsError
<1>4. CASE Returns
  <2>1. PICK r : Return(r)
    BY <1>4 DEF Returns
  <2>2. CASE r = Panic
    BY <2>1, <2>2 DEF Return, Panic, IsError
  <2>3. CASE r # Panic /\ IsError(r)
    BY <1>3, <2>1, <2>3 DEF Return, Ok, IsError
  <2>4. CASE r # Panic /\ ~IsError(r)
    BY <2>1, <2>4 DEF Return
  <2> QED
    BY <2>2, <2>3, <2>4
<1>5. CASE Calling
  <2>1. PICK calling, s : IsSequence(calling) /\ Len(calling) = Len(stack) /\ Call(calling, s)
    BY <1>5 DEF Calling
  <2>2. Len(stack) \in Nat \ {0}
    BY <1>1, FrontSequence
  <2>3. calling # <<>>
    BY <2>1, <2>2, EmptySequence
  <2> QED
    BY <1>3, <2>1, <2>3, AppendSequence DEF Call
<1>6. CASE Continues
  BY <1>1, <1>3, <1>6, NowSequence DEF Continues, Continue
<1>7. CASE Merges
  BY <1>1, <1>3, <1>7 DEF Merges
<1>8. CASE Crashes
  BY <1>8 DEF Crashes, Crash, IsError
<1>9. CASE Exceeds
  BY <1>1, <1>3, <1>9 DEF Exceeds
<1> QED
  BY <1>4, <1>5, <1>6, <1>7, <1>8, <1>9 DEF ChainStep

\* Steps of the handlers that leave the generators alone.
LEMMA HandlerKeeps ==
    ASSUME IInv, UNCHANGED <<generation, content>>, PlaceInv'
    PROVE  IInv'
<1>1. UNCHANGED <<options, stack, merging, result, content>>
  BY DEF generation
<1> QED
  BY <1>1 DEF IInv, ChainInv, MergerInside, Top, SuppressedNeverFails, OnlyExamples, IsError

LEMMA NextIInv == ASSUME IInv, RouteInv, CodeInv, [Next]_vars PROVE IInv'
<1> USE DEF IInv, Before
<1>1. ASSUME NEW path, NEW method, Receive(path, method) PROVE IInv'
  <2>1. UNCHANGED <<generation, content>> /\ PlaceInv'
    BY <1>1 DEF Receive, Goto, PlaceInv, generation, negotiation
  <2> QED
    BY <2>1, HandlerKeeps
<1>2. CASE TryMethod
  <2>1. UNCHANGED <<generation, content>> /\ PlaceInv'
    BY <1>2 DEF TryMethod, PlaceInv, generation, negotiation
  <2> QED
    BY <2>1, HandlerKeeps
<1>3. CASE Decide
  <2>1. UNCHANGED <<generation, content>> /\ at = "options" /\ at' \in {"done", "route"}
    BY <1>3 DEF Decide, Decided, Goto, Write, negotiation
  <2>2. PlaceInv'
    BY <2>1 DEF PlaceInv, generation
  <2> QED
    BY <2>1, <2>2, HandlerKeeps
<1>4. CASE FindRoute
  <2>1. UNCHANGED <<generation, content>> /\ at = "route" /\ at' \in {"done", "handed", "validate"}
    BY <1>4 DEF FindRoute, Goto, Write, negotiation
  <2>2. PlaceInv'
    BY <2>1 DEF PlaceInv, generation
  <2> QED
    BY <2>1, <2>2, HandlerKeeps
<1>5. CASE Validate
  <2>1. UNCHANGED <<generation, content>> /\ at = "validate" /\ at' \in {"done", "negotiate"}
    BY <1>5 DEF Validate, Goto, Write
  <2>2. PlaceInv'
    BY <2>1 DEF PlaceInv, generation
  <2> QED
    BY <2>1, <2>2, HandlerKeeps
<1>6. CASE VisitKey
  <2>1. UNCHANGED <<generation, content>> /\ PlaceInv'
    BY <1>6 DEF VisitKey, PlaceInv, generation
  <2> QED
    BY <2>1, HandlerKeeps
<1>7. CASE Negotiated
  <2>1. at = "negotiate"
    BY <1>7 DEF Negotiated
  <2>2. stack = <<>> /\ merging = <<>> /\ result = NoResult
    BY <2>1 DEF PlaceInv
  <2>3. CASE UNCHANGED <<generation, content>> /\ at' = "done"
    <3>1. PlaceInv'
      BY <2>2, <2>3 DEF PlaceInv, generation
    <3> QED
      BY <2>3, <3>1, HandlerKeeps
  <2>4. CASE Begins /\ options' = options /\ merging' = merging /\ at' = "generate"
    <3>1. PlaceInv'
      BY <2>4 DEF PlaceInv
    <3>2. result'.status \in Statuses /\ merging' = <<>> /\ options' \in Options
      BY <2>2, <2>4 DEF Begins, ChainInv, Statuses, Outcomes, Panic, Failed, NoResult
    <3>3. ASSUME NEW s, stack' = Append(<<>>, Frame(s))
          PROVE  IsSequence(stack') /\ Len(stack') <= MaxLevel /\ stack' # <<>>
      <4>1. IsSequence(stack') /\ Len(stack') = 0 + 1 /\ stack' # <<>>
        BY <3>3, EmptySequence, AppendSequence
      <4>2. 0 + 1 <= MaxLevel
        BY LevelAssumption
      <4> QED
        BY <4>1, <4>2
    <3>4. IsSequence(stack') /\ Len(stack') <= MaxLevel
      BY <2>4, <3>3, EmptySequence, LevelAssumption DEF Begins
    <3>5. ChainInv'
      BY <2>2, <2>4, <3>2, <3>4 DEF ChainInv, MergerInside
    <3>6. SuppressedNeverFails'
      BY <2>4, <3>3 DEF SuppressedNeverFails, Begins, IsError, Panic, NoResult
    <3>7. OnlyExamples'
      BY <2>4 DEF OnlyExamples, Begins
    <3> QED
      BY <3>1, <3>5, <3>6, <3>7
  <2>5. HasRoute(request)
    BY <2>1 DEF RouteInv
  <2>6. Key # None => Key \in DOMAIN Responses
    BY <1>7, <2>1, KeyIsLeast DEF Negotiated
  <2> QED
    BY <1>7, <2>2, <2>3, <2>4, <2>5, <2>6, NegotiatedBegins
<1>8. CASE GenerateStep
  <2>1. at = "generate" /\ at' = at /\ content' = content /\ Generate
    BY <1>8 DEF GenerateStep, negotiation
  <2>2. ChainStep
    BY <2>1, GenerateIsChainStep
  <2>3. ChainInv'
    BY <2>2, ChainStepKeeps
  <2>4. SuppressedNeverFails' /\ OnlyExamples'
    BY <2>1, <2>2, ChainPromises
  <2>5. PlaceInv'
    BY <2>1 DEF PlaceInv
  <2> QED
    BY <2>3, <2>4, <2>5
<1>9. CASE Generated
  <2>1. /\ UNCHANGED <<generation, content>>
        /\ at = "generate" /\ stack = <<>>
        /\ at' \in {"done", "crashed"} \/ (at' = "respond" /\ result.status = "ok")
    BY <1>9 DEF Generated, Done, Goto, Write, negotiation
  <2>2. merging = <<>>
    BY <2>1 DEF ChainInv, MergerInside
  <2>3. PlaceInv'
    BY <2>1, <2>2 DEF PlaceInv, generation
  <2> QED
    BY <2>1, <2>3, HandlerKeeps
<1>10. CASE Respond
  <2>1. UNCHANGED <<generation, content>> /\ at = "respond" /\ at' \in {"done", "handed"}
    BY <1>10 DEF Respond, ReadStored, WriteResponse, Goto, Write, negotiation
  <2>2. PlaceInv'
    BY <2>1 DEF PlaceInv, generation
  <2> QED
    BY <2>1, <2>2, HandlerKeeps
<1>11. CASE UNCHANGED vars
  <2>1. UNCHANGED <<generation, content, at>>
    BY <1>11 DEF vars, negotiation
  <2>2. PlaceInv'
    BY <2>1 DEF PlaceInv, generation
  <2> QED
    BY <2>1, <2>2, HandlerKeeps
<1> QED
  BY <1>1, <1>2, <1>3, <1>4, <1>5, <1>6, <1>7, <1>8, <1>9, <1>10, <1>11 DEF Next, Handle, Proceed, Proceed

-----------------------------------------------------------------------------
(* What the calls of the chain have made and what they still wait for.     *)

Fields == {"schema", "phase", "todo", "queue", "made", "name", "tries"}

\* A call that has made a part of its data in `made`.
IsCall(call) ==
    /\ Fields \subseteq DOMAIN call
    /\ WellFormed(call.schema)
    /\ call.phase = "enter" => call.made = <<>>
    /\ call.phase \in {"item", "unique"} => IsSequence(call.made)
    /\ call.phase = "unique" => \A i, j \in DOMAIN call.made : i # j => call.made[i] # call.made[j]
    /\ call.phase \in {"property", "required", "entry", "free"} => IsFiniteSet(DOMAIN call.made)
    /\ call.phase = "property" => call.todo \subseteq Properties(call.schema)
    /\ call.phase \in {"required", "entry"} => Has(call.schema, "additional")
    /\ call.phase = "entry" => call.queue = <<>>
    /\ call.phase = "required" => call.queue \in Seq(STRING)

\* Every part is made, awaited or still to be done.
Accounts(call, awaited) ==
    /\ call.phase = "property" => Shown(call.schema) = call.todo \cup DOMAIN call.made \cup awaited
    /\ call.phase \in {"required", "entry"} =>
           \A i \in DOMAIN Required(call.schema) :
               \/ Required(call.schema)[i] \in DOMAIN call.made \cup awaited
               \/ \E j \in DOMAIN call.queue : call.queue[j] = Required(call.schema)[i]

AtWork(call) == IsCall(call) /\ Accounts(call, {})

Waiting(call) == IsCall(call) /\ Accounts(call, {call.name})

AllWait(calls) == IsSequence(calls) /\ \A i \in 1 .. Len(calls) : Waiting(calls[i])

\* The calls below the top wait for it, and the top for what was returned.
CallsInv ==
    stack # <<>> =>
        /\ AllWait(Below)
        /\ IF result = NoResult THEN AtWork(Top) ELSE Waiting(Top)

-----------------------------------------------------------------------------
(* What the merger is at.                                                   *)

\* A schema that was merged combines no others.
Assembled(s) == WellFormed(s) /\ {"items", "allOf", "anyOf", "oneOf"} \cap DOMAIN s = {}

\* A call of the merger is for the member that the one around it is at.
Nested(outer, inner) ==
    /\ outer.todo # <<>>
    /\ \A i \in DOMAIN inner.todo : Combines(Head(outer.todo), inner.todo[i])

WellMerging(calls) ==
    /\ IsSequence(calls)
    /\ \A i \in 1 .. Len(calls) : calls[i].todo \in Seq(Names) /\ Assembled(calls[i].merged)
    /\ \A i \in 1 .. Len(calls) - 1 : Nested(calls[i], calls[i + 1])

MergerInv == WellMerging(merging)

-----------------------------------------------------------------------------
(* Calls and frames *)

LEMMA EmptyWaits == AllWait(<<>>)
BY EmptySequence DEF AllWait

LEMMA AppendWaits ==
    ASSUME NEW calls, AllWait(calls), NEW call
    PROVE  /\ Append(calls, call) # <<>>
           /\ IsSequence(Append(calls, call))
           /\ SubSeq(Append(calls, call), 1, Len(Append(calls, call)) - 1) = calls
           /\ Append(calls, call)[Len(Append(calls, call))] = call
           /\ Waiting(call) => AllWait(Append(calls, call))
<1> DEFINE t == Append(calls, call)
           n == Len(calls)
<1>1. PICK S : calls \in Seq(S)
  BY DEF AllWait, IsSequence
<1>2. calls \in Seq(S \cup {call}) /\ n \in Nat
  BY <1>1
<1>3. t \in Seq(S \cup {call}) /\ Len(t) = n + 1 /\ t[n + 1] = call
      /\ \A i \in 1 .. n : t[i] = calls[i]
  BY <1>2, AppendProperties
<1>4. SubSeq(t, 1, n) = calls
  <2>1. \A i \in 1 .. n : t[i] \in S \cup {call}
    BY <1>2, <1>3, ElementOfSeq
  <2> HIDE DEF t, n
  <2>2. /\ SubSeq(t, 1, n) \in Seq(S \cup {call})
        /\ Len(SubSeq(t, 1, n)) = IF 1 <= n THEN n - 1 + 1 ELSE 0
        /\ \A i \in 1 .. n - 1 + 1 : SubSeq(t, 1, n)[i] = t[1 + i - 1]
    BY <1>2, <2>1, SubSeqProperties
  <2>3. Len(SubSeq(t, 1, n)) = n /\ \A i \in 1 .. n : SubSeq(t, 1, n)[i] = calls[i]
    BY <1>2, <1>3, <2>2
  <2>4. Len(calls) = n
    BY DEF n
  <2> QED
    BY <1>2, <2>2, <2>3, <2>4, SeqEqual
<1>5. Len(t) - 1 = n /\ t # <<>> /\ IsSequence(t)
  BY <1>2, <1>3, AppendSequence DEF AllWait
<1>6. ASSUME Waiting(call) PROVE AllWait(t)
  <2>1. ASSUME NEW i \in 1 .. Len(t) PROVE Waiting(t[i])
    <3>1. CASE i \in 1 .. n
      BY <1>3, <3>1 DEF AllWait
    <3>2. CASE i = n + 1
      BY <1>3, <1>6, <3>2
    <3> HIDE DEF t, n
    <3> QED
      BY <1>2, <1>3, <2>1, <3>1, <3>2
  <2> QED
    BY <1>5, <2>1 DEF AllWait
<1> HIDE DEF t, n
<1>7. SubSeq(t, 1, Len(t) - 1) = calls /\ t[Len(t)] = call
  BY <1>3, <1>4, <1>5
<1> QED
  BY <1>5, <1>6, <1>7 DEF t

LEMMA FrontWaits ==
    ASSUME NEW calls, AllWait(calls), calls # <<>>
    PROVE  AllWait(SubSeq(calls, 1, Len(calls) - 1)) /\ Waiting(calls[Len(calls)])
<1> DEFINE t == SubSeq(calls, 1, Len(calls) - 1)
           n == Len(calls)
<1>1. PICK S : calls \in Seq(S)
  BY DEF AllWait, IsSequence
<1>2. n \in Nat \ {0} /\ IsSequence(t) /\ Len(t) = n - 1
  BY FrontSequence DEF AllWait
<1>3. Waiting(calls[n])
  BY <1>2 DEF AllWait
<1>4. \A i \in 1 .. n - 1 : t[i] = calls[i]
  <2>1. \A i \in 1 .. n - 1 : calls[i] \in S
    BY <1>1, <1>2, ElementOfSeq
  <2> DEFINE m == n - 1
  <2>2. m \in Int /\ m \in Nat
    BY <1>2
  <2> HIDE DEF m
  <2>3. \A i \in 1 .. m - 1 + 1 : SubSeq(calls, 1, m)[i] = calls[1 + i - 1]
    BY <2>1, <2>2, SubSeqProperties DEF m
  <2>4. \A i \in 1 .. m : SubSeq(calls, 1, m)[i] = calls[i]
    BY <2>2, <2>3
  <2> QED
    BY <2>4 DEF m
<1>5. \A i \in 1 .. Len(t) : Waiting(t[i])
  <2>1. Len(t) = n - 1 /\ \A i \in 1 .. n : Waiting(calls[i])
    BY <1>2 DEF AllWait
  <2> HIDE DEF t, n
  <2> QED
    BY <1>2, <1>4, <2>1
<1> QED
  BY <1>2, <1>3, <1>5 DEF AllWait

\* A call begins without any part made.
LEMMA FrameWorks == ASSUME NEW s, WellFormed(s) PROVE AtWork(Frame(s))
BY DEF AtWork, IsCall, Accounts, Frame, Fields

LEMMA NowTop ==
    ASSUME stack # <<>>, CallsInv, NEW frame
    PROVE  /\ SubSeq(Now(frame), 1, Len(Now(frame)) - 1) = Below
           /\ Now(frame)[Len(Now(frame))] = frame
           /\ Now(frame) # <<>>
           /\ Waiting(frame) => AllWait(Now(frame))
BY AppendWaits DEF Now, CallsInv

-----------------------------------------------------------------------------
(* What a step of the chain does to the calls.                              *)

Answers == \E r :
    /\ r.status \in Outcomes
    /\ r.status = "ok" => HasItsParts(Top, r.data)
    /\ Return(r)

Enters == \E calling, s : AllWait(calling) /\ calling # <<>> /\ WellFormed(s) /\ Call(calling, s)

WorksOn == \E call : AtWork(call) /\ Continue(call)

GivesUp == stack' = stack /\ result' # NoResult /\ Waiting(Top) /\ ~(result'.status = "ok")

Rests == UNCHANGED <<stack, result>>

Unwinds == stack' = <<>> /\ result'.status # "ok"

CallStep == options' = options /\ (Answers \/ Enters \/ WorksOn \/ GivesUp \/ Rests \/ Unwinds)

LEMMA CallStepKeeps ==
    ASSUME CallsInv, stack # <<>>, CallStep
    PROVE  CallsInv'
<1>1. AllWait(Below) /\ IsSequence(Below)
  BY DEF CallsInv, AllWait
<1>2. ASSUME stack' = Below, result' # NoResult PROVE CallsInv'
  <2>1. CASE Below = <<>>
    BY <1>2, <2>1 DEF CallsInv
  <2>2. CASE Below # <<>>
    <3>1. AllWait(SubSeq(stack', 1, Len(stack') - 1)) /\ Waiting(stack'[Len(stack')])
      BY <1>1, <1>2, <2>2, FrontWaits
    <3>2. AllWait(Below') /\ Waiting(Top')
      BY <3>1 DEF Below, Top
    <3> QED
      BY <1>2, <3>2 DEF CallsInv
  <2> QED
    BY <2>1, <2>2
<1>3. CASE Answers
  <2>1. PICK r : r.status \in Outcomes /\ Return(r)
    BY <1>3 DEF Answers
  <2>2. CASE r = Panic
    BY <2>1, <2>2 DEF Return, CallsInv
  <2>3. CASE r # Panic
    BY <1>2, <2>1, <2>3 DEF Return, Ok, NoResult, Outcomes
  <2> QED
    BY <2>2, <2>3
<1>4. CASE Enters
  <2>1. PICK calling, s : AllWait(calling) /\ calling # <<>> /\ WellFormed(s) /\ Call(calling, s)
    BY <1>4 DEF Enters
  <2>2. CASE Len(calling) >= MaxLevel
    <3>1. stack' = calling /\ result' # NoResult
      BY <2>1, <2>2 DEF Call, Failed, NoResult
    <3>2. AllWait(SubSeq(stack', 1, Len(stack') - 1)) /\ Waiting(stack'[Len(stack')])
      BY <2>1, <3>1, FrontWaits
    <3>3. AllWait(Below') /\ Waiting(Top')
      BY <3>2 DEF Below, Top
    <3> QED
      BY <3>1, <3>3 DEF CallsInv
  <2>3. CASE ~(Len(calling) >= MaxLevel)
    <3>1. stack' = Append(calling, Frame(s)) /\ result' = NoResult
      BY <2>1, <2>3 DEF Call
    <3>2. SubSeq(stack', 1, Len(stack') - 1) = calling /\ stack'[Len(stack')] = Frame(s)
      BY <2>1, <3>1, AppendWaits
    <3>3. Below' = calling /\ Top' = Frame(s)
      BY <3>2 DEF Below, Top
    <3> QED
      BY <2>1, <3>1, <3>3, FrameWorks DEF CallsInv
  <2> QED
    BY <2>2, <2>3
<1>5. CASE WorksOn
  <2>1. PICK call : AtWork(call) /\ stack' = Now(call) /\ result' = NoResult
    BY <1>5 DEF WorksOn, Continue
  <2>2. SubSeq(stack', 1, Len(stack') - 1) = Below /\ stack'[Len(stack')] = call
    BY <2>1, NowTop
  <2>3. Below' = Below /\ Top' = call
    BY <2>2 DEF Below, Top
  <2> QED
    BY <1>1, <2>1, <2>3 DEF CallsInv
<1>6. CASE GivesUp
  BY <1>1, <1>6 DEF GivesUp, CallsInv, Below, Top
<1>7. CASE Rests
  BY <1>7 DEF Rests, CallsInv, Below, Top
<1>8. CASE Unwinds
  BY <1>8 DEF Unwinds, CallsInv
<1> QED
  BY <1>3, <1>4, <1>5, <1>6, <1>7, <1>8 DEF CallStep

\* A call that is left by a step with data has its parts.
LEMMA CallStepFits ==
    ASSUME ChainInv, CallsInv, stack # <<>>, CallStep,
           Len(stack') < Len(stack), result'.status = "ok", ~options.suppress
    PROVE  HasItsParts(Top, result'.data)
<1>1. IsSequence(stack) /\ Len(stack) \in Nat
  BY FrontSequence DEF ChainInv
<1>2. CASE Answers
  <2>1. PICK r : (r.status = "ok" => HasItsParts(Top, r.data)) /\ Return(r)
    BY <1>2 DEF Answers
  <2> QED
    BY <2>1 DEF Return, Panic
<1>3. CASE Enters
  BY <1>3 DEF Enters, Call, Failed, NoResult
<1>4. CASE WorksOn
  BY <1>4 DEF WorksOn, Continue, NoResult
<1>5. CASE GivesUp
  BY <1>5 DEF GivesUp
<1>6. CASE Rests
  BY <1>1, <1>6 DEF Rests
<1>7. CASE Unwinds
  BY <1>7 DEF Unwinds
<1> QED
  BY <1>2, <1>3, <1>4, <1>5, <1>6, <1>7 DEF CallStep

-----------------------------------------------------------------------------
(* The actions of the chain as such steps. *)

LEMMA TopCall ==
    ASSUME CallsInv, stack # <<>>
    PROVE  /\ IsCall(Top)
           /\ result = NoResult => AtWork(Top)
           /\ result # NoResult => Waiting(Top)
BY DEF CallsInv, AtWork, Waiting

\* A call that has not begun, or has delegated all, can return any data.
LEMMA NoParts ==
    ASSUME NEW call, NEW data, call.phase \in {"enter", "pass", "required"}
    PROVE  HasItsParts(call, data)
BY DEF HasItsParts

\* An error needs no parts.
LEMMA ErrorAnswers ==
    ASSUME options' = options, NEW r, r \in {Failed, AttemptsExceeded, Panic}, Return(r)
    PROVE  CallStep
<1>1. r.status \in Outcomes /\ r.status # "ok"
  BY DEF Failed, AttemptsExceeded, Panic, Outcomes
<1> QED
  BY <1>1 DEF CallStep, Answers

LEMMA EnteredAnswers ==
    ASSUME Entered, options' = options, NEW r, r.status \in Outcomes, Return(r)
    PROVE  CallStep
BY NoParts DEF CallStep, Answers, Entered

\* The top call delegates all to a call for another schema.
LEMMA PassesOn ==
    ASSUME CallsInv, stack # <<>>, options' = options,
           NEW s, WellFormed(s), Call(Now([Top EXCEPT !.phase = "pass"]), s)
    PROVE  CallStep
<1> DEFINE call == [Top EXCEPT !.phase = "pass"]
<1>1. IsCall(Top)
  BY TopCall
<1>2. Waiting(call)
  BY <1>1 DEF Waiting, IsCall, Accounts, Fields
<1> HIDE DEF call
<1>3. AllWait(Now(call)) /\ Now(call) # <<>>
  BY <1>2, NowTop
<1> QED
  BY <1>3 DEF CallStep, Enters, call

LEMMA MergeSchemasCalls ==
    ASSUME options' = options, NEW calls, NEW s, MergeSchemas(calls, s)
    PROVE  CallStep
<1>1. \/ stack' = <<>> /\ result' = Crash
      \/ Return(Panic)
      \/ UNCHANGED <<stack, result>>
  BY Zenon DEF MergeSchemas
<1> QED
  BY <1>1, ErrorAnswers DEF CallStep, Unwinds, Crash, Rests

LEMMA TakeMemberCalls ==
    ASSUME options' = options, NEW calls, NEW s, TakeMember(calls, s)
    PROVE  CallStep
BY ErrorAnswers DEF TakeMember, CallStep, Rests

LEMMA MergeMemberCalls ==
    ASSUME MergeMember
    PROVE  CallStep
<1> DEFINE s == Schemas[Head(Merger.todo)]
<1>1. options' = options
  BY DEF MergeMember, Merging
<1>2. \/ \E member : TakeMember(merging, member)
      \/ MergeSchemas(merging, s)
      \/ Return(Panic)
  <2>1. CASE ~Combining(s)
    BY <2>1, Zenon DEF MergeMember
  <2>2. CASE Combining(s) /\ (Has(s, "allOf") \/ Has(s, "anyOf"))
    BY <2>2, Zenon DEF MergeMember
  <2>3. CASE Combining(s) /\ ~(Has(s, "allOf") \/ Has(s, "anyOf"))
    <3>1. IF s.oneOf = <<>> THEN Return(Panic) /\ merging' = <<>>
          ELSE \E i \in DOMAIN s.oneOf : TakeMember(merging, Schemas[s.oneOf[i]])
      BY <2>3, Zenon DEF MergeMember
    <3> QED
      BY <3>1
  <2> QED
    BY <2>1, <2>2, <2>3
<1> QED
  BY <1>1, <1>2, ErrorAnswers, MergeSchemasCalls, TakeMemberCalls

LEMMA MergerSchema ==
    ASSUME ChainInv, MergerInv, merging # <<>>
    PROVE  Merger.todo \in Seq(Names) /\ Assembled(Merger.merged)
<1>1. Len(merging) \in Nat \ {0}
  BY FrontSequence DEF ChainInv
<1> QED
  BY <1>1 DEF MergerInv, WellMerging, Merger

LEMMA MergeReturnsCalls ==
    ASSUME ChainInv, CallsInv, MergerInv, MergeReturns
    PROVE  CallStep
<1>1. options' = options /\ merging # <<>>
  BY DEF MergeReturns, Merging
<1>2. stack # <<>>
  BY <1>1 DEF ChainInv, MergerInside
<1>3. WellFormed(Merger.merged)
  BY <1>1, MergerSchema DEF Assembled
<1>4. CASE Outer = <<>>
  <2>1. Call(Now([Top EXCEPT !.phase = "pass"]), Merger.merged)
    BY <1>4 DEF MergeReturns
  <2> QED
    BY <1>1, <1>2, <1>3, <2>1, PassesOn
<1>5. CASE Outer # <<>>
  BY <1>1, <1>5, TakeMemberCalls DEF MergeReturns
<1> QED
  BY <1>4, <1>5

\* A call below which all wait, and that waits.
LEMMA StackWaits ==
    ASSUME ChainInv, CallsInv, stack # <<>>, Waiting(Top)
    PROVE  AllWait(stack)
<1> DEFINE n == Len(stack)
<1>1. PICK S : stack \in Seq(S)
  BY DEF ChainInv, IsSequence
<1>2. n \in Nat \ {0} /\ Len(Below) = n - 1
  BY FrontSequence DEF ChainInv, Below
<1>3. \A i \in 1 .. n - 1 : Below[i] = stack[i]
  <2> DEFINE m == n - 1
  <2>1. m \in Nat /\ \A i \in 1 .. m : stack[i] \in S
    BY <1>1, <1>2, ElementOfSeq
  <2> HIDE DEF m
  <2>2. \A i \in 1 .. m - 1 + 1 : SubSeq(stack, 1, m)[i] = stack[1 + i - 1]
    BY <2>1, SubSeqProperties
  <2>3. \A i \in 1 .. m : SubSeq(stack, 1, m)[i] = stack[i]
    BY <2>1, <2>2
  <2> QED
    BY <2>3 DEF m, Below
<1>4. \A i \in 1 .. n - 1 : Waiting(Below[i])
  BY <1>2 DEF CallsInv, AllWait
<1>5. Waiting(stack[n])
  BY DEF Top
<1>6. \A i \in 1 .. n : Waiting(stack[i])
  <2> HIDE DEF n
  <2> QED
    BY <1>2, <1>3, <1>4, <1>5
<1> QED
  BY <1>6 DEF AllWait, ChainInv

\* The schema an attribute of the top schema refers to.
LEMMA PartSchema ==
    ASSUME CallsInv, stack # <<>>
    PROVE  /\ \A attribute \in {"items", "additional"} \cap DOMAIN Top.schema :
                  WellFormed(Schemas[Top.schema[attribute]])
           /\ \A p \in Properties(Top.schema) : WellFormed(Schemas[Top.schema.props[p]])
           /\ MinItems(Top.schema) \in Nat /\ MinProps(Top.schema) \in Nat
           /\ Required(Top.schema) \in Seq(STRING)
           /\ Get(Top.schema, "type", "") \notin {"oneOf", "combined"}
<1>1. WellFormed(Top.schema)
  BY TopCall DEF IsCall
<1>2. \A attribute \in {"items", "additional"} \cap DOMAIN Top.schema : Top.schema[attribute] \in Names
  BY <1>1 DEF WellFormed
<1>3. \A p \in Properties(Top.schema) : Top.schema.props[p] \in Names
  BY <1>1 DEF WellFormed, Properties, Has
<1>4. MinItems(Top.schema) \in Nat /\ MinProps(Top.schema) \in Nat
  BY <1>1 DEF WellFormed, MinItems, MinProps, Get, Has
<1>5. Required(Top.schema) \in Seq(STRING)
  <2>1. <<>> \in Seq(STRING)
    OBVIOUS
  <2>2. Has(Top.schema, "required") => Top.schema.required \in Seq(STRING)
    BY <1>1 DEF WellFormed
  <2>3. Required(Top.schema) = IF Has(Top.schema, "required") THEN Top.schema.required ELSE <<>>
    BY DEF Required, Get
  <2> QED
    BY <2>1, <2>2, <2>3
<1>6. Get(Top.schema, "type", "") \notin {"oneOf", "combined"}
  BY <1>1 DEF WellFormed
<1> QED
  BY <1>2, <1>3, <1>4, <1>5, <1>6, SchemasAssumption

LEMMA OneOfCalls ==
    ASSUME CallsInv, GenerateOneOf
    PROVE  CallStep
<1> DEFINE members == Top.schema.oneOf
<1>1. Entered /\ options' = options /\ stack # <<>>
  BY DEF GenerateOneOf, Generates, Delegates, Entered
<1>0. Has(Top.schema, "oneOf")
  BY <1>1, PartSchema DEF GenerateOneOf, Generates, TypeOf, Get
<1>2. CASE members = <<>>
  BY <1>1, <1>2, EnteredAnswers DEF GenerateOneOf, Ok, Outcomes
<1>3. CASE members # <<>>
  <2>1. PICK i \in DOMAIN members : Call(Now([Top EXCEPT !.phase = "pass"]), Schemas[members[i]])
    BY <1>3 DEF GenerateOneOf
  <2>2. members \in Seq(Names)
    BY <1>0, <1>1, TopCall DEF IsCall, WellFormed, Has
  <2>3. WellFormed(Schemas[members[i]])
    BY <2>1, <2>2, SchemasAssumption
  <2> QED
    BY <1>1, <2>1, <2>3, PassesOn
<1> QED
  BY <1>2, <1>3

LEMMA GenerateArrayCalls ==
    ASSUME CallsInv, GenerateArray
    PROVE  CallStep
<1> DEFINE s == Top.schema
           call == [Top EXCEPT !.phase = IF Has(s, "unique") THEN "unique" ELSE "item"]
<1>1. Entered /\ options' = options /\ stack # <<>> /\ Top.phase = "enter"
  BY DEF GenerateArray, Generates, Delegates, Entered
<1>2. CASE ~Has(s, "unique") /\ Has(s, "x-empty")
  BY <1>1, <1>2, EnteredAnswers DEF GenerateArray, Ok, Outcomes
<1>3. CASE ~(~Has(s, "unique") /\ Has(s, "x-empty"))
  <2>1. Continue(call)
    BY <1>3 DEF GenerateArray
  <2>2. IsCall(Top) /\ Top.made = <<>>
    BY <1>1, TopCall DEF IsCall
  <2>3. AtWork(call)
    BY <2>2, EmptySequence DEF AtWork, IsCall, Accounts, Fields
  <2> QED
    BY <1>1, <2>1, <2>3 DEF CallStep, WorksOn
<1> QED
  BY <1>2, <1>3

LEMMA NextItemCalls ==
    ASSUME ChainInv, CallsInv, NextItem
    PROVE  CallStep
<1> DEFINE length == Length(MinItems(Top.schema))
<1>1. /\ options' = options /\ stack # <<>> /\ result = NoResult
      /\ Top.phase \in {"item", "unique"}
  BY DEF NextItem, Working
<1>2. CASE Len(Top.made) = length
  <2>1. Return(Ok(Array(Top.made)))
    BY <1>2, Zenon DEF NextItem
  <2>2. MinItems(Top.schema) \in Nat /\ IsCall(Top)
    BY <1>1, PartSchema, TopCall
  <2>3. length >= MinItems(Top.schema)
    BY <2>2 DEF Length
  <2>4. HasItsParts(Top, Array(Top.made))
    BY <1>1, <1>2, <2>2, <2>3 DEF HasItsParts, Array, IsCall
  <2> QED
    BY <1>1, <2>1, <2>4 DEF CallStep, Answers, Ok, Outcomes
<1>3. CASE Len(Top.made) # length /\ ~Has(Top.schema, "items")
  <2>1. Return(Panic)
    BY <1>3, Zenon DEF NextItem
  <2> QED
    BY <1>1, <2>1, ErrorAnswers
<1>4. CASE Len(Top.made) # length /\ Has(Top.schema, "items")
  <2>1. Call(stack, Schemas[Top.schema.items])
    BY <1>4, Zenon DEF NextItem
  <2>2. WellFormed(Schemas[Top.schema.items])
    BY <1>1, <1>4, PartSchema DEF Has
  <2>3. Waiting(Top)
    BY <1>1, TopCall DEF Waiting, Accounts
  <2>4. AllWait(stack)
    BY <1>1, <2>3, StackWaits
  <2> QED
    BY <1>1, <2>1, <2>2, <2>4 DEF CallStep, Enters
<1> QED
  BY <1>2, <1>3, <1>4

LEMMA KeepItemCalls ==
    ASSUME CallsInv, KeepItem \/ KeepUnique
    PROVE  CallStep
<1> DEFINE call == [Top EXCEPT !.made = Append(@, result.data)]
           fresh == [Top EXCEPT !.made = Append(@, result.data), !.tries = 0]
<1>1. /\ options' = options /\ stack # <<>>
      /\ Top.phase \in {"item", "unique"}
  BY DEF KeepItem, KeepUnique, Returned
<1>2. IsCall(Top) /\ IsSequence(Top.made)
  BY <1>1, TopCall DEF IsCall
<1>3. IsSequence(Append(Top.made, result.data))
  BY <1>2, AppendSequence
<1>4. CASE KeepItem
  <2>1. AtWork(call)
    BY <1>2, <1>3, <1>4 DEF AtWork, IsCall, Accounts, Fields, KeepItem, Returned
  <2> QED
    BY <1>1, <1>4, <2>1 DEF CallStep, WorksOn, KeepItem
<1>5. CASE KeepUnique
  <2> DEFINE made == Append(Top.made, result.data)
  <2>1. Top.phase = "unique" /\ ~Repeated
    BY <1>5 DEF KeepUnique, Returned
  <2>2. ASSUME NEW i \in DOMAIN made, NEW j \in DOMAIN made, i # j PROVE made[i] # made[j]
    <3>1. PICK S : Top.made \in Seq(S)
      BY <1>2 DEF IsSequence
    <3> DEFINE n == Len(Top.made)
    <3>2. n \in Nat /\ DOMAIN Top.made = 1 .. n
      BY <3>1
    <3>3. /\ DOMAIN made = 1 .. n + 1 /\ made[n + 1] = result.data
          /\ \A k \in 1 .. n : made[k] = Top.made[k]
      BY <3>1, <3>2, AppendProperties
    <3>4. \A k \in 1 .. n : Top.made[k] # result.data
      BY <2>1, <3>2 DEF Repeated
    <3>5. \A k, l \in 1 .. n : k # l => Top.made[k] # Top.made[l]
      BY <1>2, <2>1, <3>2 DEF IsCall
    <3> HIDE DEF made, n
    <3> QED
      BY <2>2, <3>2, <3>3, <3>4, <3>5
  <2>3. AtWork(fresh)
    <3> HIDE DEF made
    <3>1. fresh = [Top EXCEPT !.made = made, !.tries = 0]
      BY DEF made
    <3> HIDE DEF fresh
    <3> QED
      BY <1>2, <1>3, <2>1, <2>2, <3>1 DEF AtWork, IsCall, Accounts, Fields, made
  <2> QED
    BY <1>1, <1>5, <2>3 DEF CallStep, WorksOn, KeepUnique
<1> QED
  BY <1>4, <1>5

LEMMA RepeatUniqueCalls ==
    ASSUME CallsInv, RepeatUnique
    PROVE  CallStep
<1> DEFINE call == [Top EXCEPT !.tries = @ + 1]
<1>1. options' = options /\ stack # <<>> /\ Top.phase = "unique" /\ IsCall(Top)
  BY TopCall DEF RepeatUnique, Returned
<1>2. AtWork(call) /\ Waiting(Top)
  BY <1>1 DEF AtWork, Waiting, IsCall, Accounts, Fields
<1> HIDE DEF call
<1>3. Continue(call) \/ (result' = AttemptsExceeded /\ UNCHANGED stack)
  BY DEF RepeatUnique, call
<1> QED
  BY <1>1, <1>2, <1>3 DEF CallStep, WorksOn, GivesUp, AttemptsExceeded, NoResult

LEMMA ShortArrayCalls ==
    ASSUME CallsInv, ShortArray
    PROVE  CallStep
<1>1. /\ options' = options /\ stack # <<>> /\ Top.phase = "unique" /\ IsCall(Top)
      /\ Return(Ok(Array(Top.made))) /\ Len(Top.made) + 1 > MinItems(Top.schema)
  BY TopCall DEF ShortArray, Enough
<1>2. MinItems(Top.schema) \in Nat
  BY <1>1, PartSchema
<1>3. Len(Top.made) \in Nat
  BY <1>1 DEF IsCall, IsSequence
<1>4. Len(Top.made) >= MinItems(Top.schema)
  BY <1>1, <1>2, <1>3
<1>5. HasItsParts(Top, Array(Top.made))
  BY <1>1, <1>4 DEF HasItsParts, Array, IsCall
<1> QED
  BY <1>1, <1>5 DEF CallStep, Answers, Ok, Outcomes

LEMMA GenerateObjectCalls ==
    ASSUME CallsInv, GenerateObject
    PROVE  CallStep
<1> DEFINE s == Top.schema
           phase == IF IsHashMap(s) THEN "required" ELSE IF IsFreeForm(s) THEN "free" ELSE "property"
           todo == IF IsFreeForm(s) THEN {} ELSE Shown(s)
           queue == IF IsHashMap(s) THEN Required(s) ELSE <<>>
           call == [Top EXCEPT !.phase = phase, !.todo = todo, !.queue = queue, !.made = Empty]
<1>1. Entered /\ options' = options /\ stack # <<>> /\ IsCall(Top)
  BY TopCall DEF GenerateObject, Generates, Delegates, Entered
<1>2. Continue(call)
  BY DEF GenerateObject
<1>3. /\ phase \in {"required", "free", "property"}
      /\ phase = "required" => Has(s, "additional") /\ queue = Required(s)
      /\ phase = "property" => todo = Shown(s)
  BY DEF IsHashMap, IsFreeForm
<1>4. todo \subseteq Properties(s) /\ Required(s) \in Seq(STRING)
  BY <1>1, PartSchema DEF Shown
<1>5. DOMAIN Empty = {} /\ IsFiniteSet(DOMAIN Empty)
  BY FS_EmptySet DEF Empty
<1> HIDE DEF phase, todo, queue
<1>6. /\ call.schema = s /\ call.phase = phase /\ call.todo = todo /\ call.queue = queue
      /\ call.made = Empty /\ DOMAIN call = DOMAIN Top
  BY <1>1 DEF IsCall, Fields
<1>7. AtWork(call)
  <2> HIDE DEF call
  <2>1. IsCall(call)
    BY <1>1, <1>3, <1>4, <1>5, <1>6 DEF IsCall
  <2>2. Accounts(call, {})
    BY <1>3, <1>4, <1>5, <1>6 DEF Accounts
  <2> QED
    BY <2>1, <2>2 DEF AtWork
<1> QED
  BY <1>1, <1>2, <1>7 DEF CallStep, WorksOn

LEMMA NextPropertyCalls ==
    ASSUME CallsInv, NextProperty
    PROVE  CallStep
<1>1. options' = options /\ stack # <<>> /\ Top.phase = "property" /\ AtWork(Top) /\ IsCall(Top)
  BY TopCall DEF NextProperty, Working
<1>2. CASE Top.todo = {}
  <2>1. Return(Ok(Object(Top.made)))
    BY <1>2 DEF NextProperty
  <2>2. HasItsParts(Top, Object(Top.made))
    BY <1>1, <1>2 DEF HasItsParts, Object, AtWork, Accounts
  <2> QED
    BY <1>1, <2>1, <2>2 DEF CallStep, Answers, Ok, Outcomes
<1>3. CASE Top.todo # {}
  <2>1. PICK p \in Top.todo :
            Call(Now([Top EXCEPT !.name = p, !.todo = @ \ {p}]), Schemas[Top.schema.props[p]])
    BY <1>3 DEF NextProperty
  <2> DEFINE call == [Top EXCEPT !.name = p, !.todo = @ \ {p}]
  <2>2. WellFormed(Schemas[Top.schema.props[p]])
    BY <1>1, PartSchema DEF IsCall
  <2>3. Waiting(call)
    BY <1>1 DEF Waiting, AtWork, IsCall, Accounts, Fields
  <2> HIDE DEF call
  <2>4. AllWait(Now(call)) /\ Now(call) # <<>>
    BY <1>1, <2>3, NowTop
  <2> QED
    BY <1>1, <2>1, <2>2, <2>4 DEF CallStep, Enters, call
<1> QED
  BY <1>2, <1>3

LEMMA NextRequiredCalls ==
    ASSUME CallsInv, NextRequired
    PROVE  CallStep
<1>1. options' = options /\ stack # <<>> /\ Top.phase = "required" /\ AtWork(Top) /\ IsCall(Top)
  BY TopCall DEF NextRequired, Working
<1>2. CASE Top.queue = <<>>
  <2>1. Continue([Top EXCEPT !.phase = "entry"])
    BY <1>2, Zenon DEF NextRequired
  <2>2. AtWork([Top EXCEPT !.phase = "entry"])
    BY <1>1, <1>2 DEF AtWork, IsCall, Accounts, Fields
  <2> QED
    BY <1>1, <2>1, <2>2 DEF CallStep, WorksOn
<1>3. CASE Top.queue # <<>> /\ Head(Top.queue) \notin Properties(Top.schema)
  <2>1. Return(Panic)
    BY <1>3, Zenon DEF NextRequired
  <2> QED
    BY <1>1, <2>1, ErrorAnswers
<1>4. CASE Top.queue # <<>> /\ Head(Top.queue) \in Properties(Top.schema)
  <2> DEFINE call == [Top EXCEPT !.name = Head(Top.queue), !.queue = Tail(@)]
  <2>1. Call(Now(call), Schemas[Top.schema.props[Head(Top.queue)]])
    BY <1>4, Zenon DEF NextRequired
  <2>2. WellFormed(Schemas[Top.schema.props[Head(Top.queue)]])
    BY <1>1, <1>4, PartSchema
  <2>3. Top.queue \in Seq(STRING)
    BY <1>1 DEF IsCall
  <2>4. /\ Tail(Top.queue) \in Seq(STRING)
        /\ \A j \in DOMAIN Top.queue :
              \/ Top.queue[j] = Head(Top.queue)
              \/ \E k \in DOMAIN Tail(Top.queue) : Tail(Top.queue)[k] = Top.queue[j]
    <3> DEFINE q == Top.queue
    <3>1. /\ Tail(q) \in Seq(STRING) /\ Head(q) = q[1] /\ Len(q) \in Nat \ {0}
          /\ Len(Tail(q)) = Len(q) - 1 /\ \A k \in 1 .. Len(Tail(q)) : Tail(q)[k] = q[k + 1]
      <4>1. q \in Seq(STRING) /\ q # <<>>
        BY <1>4, <2>3
      <4> HIDE DEF q
      <4> QED
        BY <4>1, HeadTailProperties
    <3>2. ASSUME NEW j \in DOMAIN q, j # 1
          PROVE  \E k \in DOMAIN Tail(q) : Tail(q)[k] = q[j]
      <4>1. j \in 1 .. Len(q) /\ DOMAIN Tail(q) = 1 .. Len(Tail(q))
        BY <2>3, <3>1, <3>2
      <4> HIDE DEF q
      <4>2. j - 1 \in 1 .. Len(Tail(q)) /\ j - 1 + 1 = j
        BY <3>1, <3>2, <4>1
      <4>3. Tail(q)[j - 1] = q[j]
        BY <3>1, <4>2
      <4> QED
        BY <4>1, <4>2, <4>3
    <3> QED
      BY <3>1, <3>2
  <2>5. /\ call.schema = Top.schema /\ call.phase = "required" /\ call.todo = Top.todo
        /\ call.queue = Tail(Top.queue) /\ call.made = Top.made /\ call.name = Head(Top.queue)
        /\ DOMAIN call = DOMAIN Top
    BY <1>1 DEF IsCall, Fields
  <2> HIDE DEF call
  <2>6. IsCall(call)
    BY <1>1, <2>4, <2>5 DEF IsCall
  <2>7. Accounts(call, {call.name})
    BY <1>1, <2>4, <2>5 DEF AtWork, Accounts
  <2>8. AllWait(Now(call)) /\ Now(call) # <<>>
    BY <1>1, <2>6, <2>7, NowTop DEF Waiting
  <2> QED
    BY <1>1, <2>1, <2>2, <2>8 DEF CallStep, Enters
<1> QED
  BY <1>2, <1>3, <1>4

\* An object with entries is returned when it has enough of them.
LEMMA NoNewKeyCalls ==
    ASSUME CallsInv, stack # <<>>, options' = options, result = NoResult,
           Top.phase \in {"entry", "free"}, NoNewKey
    PROVE  CallStep
<1>1. AtWork(Top) /\ IsCall(Top)
  BY TopCall
<1>2. MinProps(Top.schema) \in Nat /\ Size \in Nat
  BY <1>1, PartSchema, FS_CardinalityType DEF IsCall, Size
<1>3. ASSUME Size >= MinProps(Top.schema) PROVE HasItsParts(Top, Object(Top.made))
  <2>1. Top.phase = "entry" => Top.queue = <<>>
    BY <1>1 DEF IsCall
  <2>2. ASSUME Top.phase = "entry", NEW i \in DOMAIN Required(Top.schema)
        PROVE  Required(Top.schema)[i] \in DOMAIN Top.made
    BY <1>1, <2>1, <2>2 DEF AtWork, Accounts
  <2>3. Object(Top.made).object = Top.made
    BY DEF Object
  <2> QED
    BY <1>3, <2>2, <2>3 DEF HasItsParts, Size
<1>4. CASE Size >= Length(MinProps(Top.schema)) /\ Return(Ok(Object(Top.made)))
  <2>1. Size >= MinProps(Top.schema)
    BY <1>2, <1>4 DEF Length
  <2> QED
    BY <1>3, <1>4, <2>1 DEF CallStep, Answers, Ok, Outcomes
<1>5. CASE Size + 1 > MinProps(Top.schema) /\ Return(Ok(Object(Top.made)))
  <2>1. Size >= MinProps(Top.schema)
    BY <1>2, <1>5
  <2> QED
    BY <1>3, <1>5, <2>1 DEF CallStep, Answers, Ok, Outcomes
<1>6. CASE Return(AttemptsExceeded)
  BY <1>6, ErrorAnswers
<1> QED
  BY <1>4, <1>5, <1>6 DEF NoNewKey

LEMMA NextEntryCalls ==
    ASSUME CallsInv, NextEntry
    PROVE  CallStep
<1>1. /\ options' = options /\ stack # <<>> /\ Top.phase = "entry" /\ result = NoResult
      /\ AtWork(Top) /\ IsCall(Top)
  BY TopCall DEF NextEntry, Working
<1>2. CASE NoNewKey
  BY <1>1, <1>2, NoNewKeyCalls
<1>3. ASSUME NEW k \in NewKeys, Call(Now([Top EXCEPT !.name = k]), Schemas[Top.schema.additional])
      PROVE  CallStep
  <2> DEFINE call == [Top EXCEPT !.name = k]
  <2>1. WellFormed(Schemas[Top.schema.additional])
    BY <1>1, PartSchema DEF IsCall, Has
  <2>2. /\ call.schema = Top.schema /\ call.phase = "entry" /\ call.todo = Top.todo
        /\ call.queue = Top.queue /\ call.made = Top.made /\ DOMAIN call = DOMAIN Top
    BY <1>1 DEF IsCall, Fields
  <2> HIDE DEF call
  <2>3. IsCall(call)
    BY <1>1, <2>2 DEF IsCall
  <2>4. Accounts(call, {call.name})
    BY <1>1, <2>2 DEF AtWork, Accounts
  <2>5. AllWait(Now(call)) /\ Now(call) # <<>>
    BY <1>1, <2>3, <2>4, NowTop DEF Waiting
  <2> QED
    BY <1>1, <1>3, <2>1, <2>5 DEF CallStep, Enters, call
<1> QED
  BY <1>2, <1>3 DEF NextEntry

LEMMA WithDomain ==
    ASSUME NEW f, NEW p, NEW value
    PROVE  /\ DOMAIN With(f, p, value) = DOMAIN f \cup {p}
           /\ IsFiniteSet(DOMAIN f) => IsFiniteSet(DOMAIN With(f, p, value))
<1>1. DOMAIN With(f, p, value) = DOMAIN f \cup {p}
  BY DEF With
<1>2. ASSUME IsFiniteSet(DOMAIN f) PROVE IsFiniteSet(DOMAIN f \cup {p})
  BY <1>2, FS_AddElement
<1> QED
  BY <1>1, <1>2

LEMMA NextFreeCalls ==
    ASSUME CallsInv, NextFree
    PROVE  CallStep
<1>1. /\ options' = options /\ stack # <<>> /\ Top.phase = "free" /\ result = NoResult
      /\ AtWork(Top) /\ IsCall(Top)
  BY TopCall DEF NextFree, Working
<1>2. CASE NoNewKey
  BY <1>1, <1>2, NoNewKeyCalls
<1>3. ASSUME NEW k \in NewKeys, Continue([Top EXCEPT !.made = With(@, k, [string |-> "lorem"])])
      PROVE  CallStep
  <2> DEFINE made == With(Top.made, k, [string |-> "lorem"])
             call == [Top EXCEPT !.made = made]
  <2>1. IsFiniteSet(DOMAIN made)
    BY <1>1, WithDomain DEF IsCall
  <2> HIDE DEF made
  <2>2. AtWork(call)
    BY <1>1, <2>1 DEF AtWork, IsCall, Accounts, Fields
  <2> QED
    BY <1>1, <1>3, <2>2 DEF CallStep, WorksOn, made
<1> QED
  BY <1>2, <1>3 DEF NextFree

LEMMA KeepFieldCalls ==
    ASSUME CallsInv, KeepField
    PROVE  CallStep
<1> DEFINE made == With(Top.made, Top.name, result.data)
           call == [Top EXCEPT !.made = made]
<1>1. /\ options' = options /\ stack # <<>> /\ result # NoResult
      /\ Top.phase \in {"property", "required", "entry"}
      /\ Continue([Top EXCEPT !.made = With(@, Top.name, result.data)])
  BY DEF KeepField, Returned, NoResult
<1>2. Waiting(Top) /\ IsCall(Top)
  BY <1>1, TopCall
<1>3. DOMAIN made = DOMAIN Top.made \cup {Top.name} /\ IsFiniteSet(DOMAIN made)
  BY <1>1, <1>2, WithDomain DEF IsCall
<1> HIDE DEF made
<1>4. /\ call.schema = Top.schema /\ call.phase = Top.phase /\ call.todo = Top.todo
      /\ call.queue = Top.queue /\ call.made = made /\ DOMAIN call = DOMAIN Top
  BY <1>2 DEF IsCall, Fields
<1> HIDE DEF call
<1>5. IsCall(call)
  BY <1>1, <1>2, <1>3, <1>4 DEF IsCall
<1>6. Accounts(call, {})
  BY <1>1, <1>2, <1>3, <1>4 DEF Waiting, Accounts
<1> QED
  BY <1>1, <1>5, <1>6 DEF CallStep, WorksOn, AtWork, call, made

LEMMA PropagateCalls ==
    ASSUME Propagate
    PROVE  CallStep
<1>1. options' = options /\ stack # <<>> /\ Return(result)
  BY DEF Propagate
<1>2. CASE Returned("pass")
  BY <1>1, <1>2, NoParts DEF Returned, CallStep, Answers, Outcomes
<1>3. CASE IsError(result)
  BY <1>1, <1>3 DEF IsError, CallStep, Answers, Outcomes
<1> QED
  BY <1>2, <1>3 DEF Propagate

LEMMA GenerateCalls ==
    ASSUME ChainInv, CallsInv, MergerInv, Generate
    PROVE  stack # <<>> /\ CallStep
<1>1. SUFFICES CallStep
  BY GenerateIsChainStep DEF ChainStep
<1>2. CASE GenerateNull \/ TakeExample
  BY <1>2, EnteredAnswers DEF GenerateNull, TakeExample, Ok, Outcomes
<1>3. ASSUME NEW type \in ScalarTypes, GenerateScalar(type)
      PROVE  CallStep
  <2>1. PICK r \in ScalarResults(type, Top.schema) : Return(r)
    BY <1>3 DEF GenerateScalar
  <2>2. r.status \in Outcomes
    BY ScalarStatus DEF Outcomes
  <2> QED
    BY <1>3, <2>1, <2>2, EnteredAnswers DEF GenerateScalar, Generates, Delegates
<1>4. CASE GenerateUnsupported
  BY <1>4, ErrorAnswers DEF GenerateUnsupported, Delegates
<1>5. CASE GenerateCombined
  BY <1>5, MergeSchemasCalls DEF GenerateCombined, Generates, Delegates
<1>6. CASE GenerateOneOf \/ MergeMember \/ MergeReturns
  BY <1>6, OneOfCalls, MergeMemberCalls, MergeReturnsCalls
<1>7. CASE GenerateArray \/ NextItem \/ KeepItem \/ KeepUnique \/ RepeatUnique \/ ShortArray
  BY <1>7, GenerateArrayCalls, NextItemCalls, KeepItemCalls, RepeatUniqueCalls, ShortArrayCalls
<1>8. CASE GenerateObject \/ NextProperty \/ NextRequired \/ NextEntry \/ NextFree \/ KeepField
  BY <1>8, GenerateObjectCalls, NextPropertyCalls, NextRequiredCalls, NextEntryCalls,
     NextFreeCalls, KeepFieldCalls
<1>9. CASE Propagate
  BY <1>9, PropagateCalls
<1> QED
  BY <1>2, <1>3, <1>4, <1>5, <1>6, <1>7, <1>8, <1>9, Zenon DEF Generate

-----------------------------------------------------------------------------
(* The steps of the merger. *)

LEMMA EmptyMerges == WellMerging(<<>>)
BY EmptySequence DEF WellMerging

\* The members that are merged are listed by the schema.
LEMMA MembersListed ==
    ASSUME NEW s, WellFormed(s), NEW members \in Members(s), Has(s, "allOf") \/ Has(s, "anyOf")
    PROVE  /\ members \in Seq(Names)
           /\ \A a \in Names : s = Schemas[a] => \A i \in DOMAIN members : Combines(a, members[i])
<1>1. CASE Has(s, "allOf")
  <2>1. members = s.allOf
    BY <1>1 DEF Members
  <2>2. s.allOf \in Seq(Names)
    BY <1>1 DEF WellFormed, Has
  <2>3. ASSUME NEW a \in Names, s = Schemas[a], NEW i \in DOMAIN members
        PROVE  Combines(a, members[i])
    BY <1>1, <2>1, <2>3 DEF Combines, Has
  <2> QED
    BY <2>1, <2>2, <2>3
<1>2. CASE ~Has(s, "allOf")
  <2>1. Has(s, "anyOf") /\ s.anyOf \in Seq(Names)
    BY <1>2 DEF WellFormed, Has
  <2>2. PICK k \in Chosen(s.anyOf) : members = <<s.anyOf[k]>>
    BY <1>2 DEF Members
  <2>3. k \in DOMAIN s.anyOf
    BY <2>1, <2>2 DEF Chosen
  <2>4. s.anyOf[k] \in Names /\ DOMAIN members = {1} /\ members[1] = s.anyOf[k]
    BY <2>1, <2>2, <2>3
  <2>5. members \in Seq(Names)
    BY <2>2, <2>4
  <2>6. ASSUME NEW a \in Names, s = Schemas[a] PROVE Combines(a, s.anyOf[k])
    BY <2>1, <2>3, <2>6 DEF Combines, Has
  <2> QED
    BY <2>4, <2>5, <2>6
<1> QED
  BY <1>1, <1>2

LEMMA EmptyAssembled == Assembled(Empty)
<1>1. DOMAIN Empty = {}
  BY DEF Empty
<1> QED
  BY <1>1 DEF Assembled, WellFormed, Has, Get

\* What is merged combines nothing and refers to schemas, as the members do.
LEMMA MergeAssembled ==
    ASSUME NEW m, Assembled(m), NEW s, WellFormed(s)
    PROVE  Assembled(Merge(m, s))
<1> DEFINE t == Merge(m, s)
<1>1. /\ DOMAIN t = DOMAIN m \cup Kept(s)
      /\ Kept(s) \subseteq DOMAIN s \ {"allOf", "anyOf", "oneOf", "items"}
  BY DEF Merge, Kept
<1>2. {"items", "allOf", "anyOf", "oneOf"} \cap DOMAIN t = {}
  BY <1>1 DEF Assembled
<1>3. ASSUME NEW a \in DOMAIN t, a \notin {"enum", "required", "props"}
      PROVE  \/ a \in DOMAIN m /\ t[a] = m[a]
             \/ a \in DOMAIN s /\ t[a] = s[a]
  BY <1>1, <1>3 DEF Merge
<1>4. WellFormed(m)
  BY DEF Assembled
<1>5. Get(t, "type", "") \notin {"oneOf", "anyOf", "allOf", "combined"}
  BY <1>3, <1>4 DEF Get, Has, WellFormed
<1>6. \A a \in {"items", "additional"} \cap DOMAIN t : t[a] \in Names
  BY <1>3, <1>4 DEF WellFormed
<1>7. \A a \in {"minItems", "minProps"} \cap DOMAIN t : t[a] \in Nat
  BY <1>3, <1>4 DEF WellFormed
<1>8. ASSUME Has(t, "props")
      PROVE  IsFiniteSet(DOMAIN t.props) /\ \A p \in DOMAIN t.props : t.props[p] \in Names
  <2>1. "props" \in DOMAIN m \cup Kept(s)
    BY <1>1, <1>8 DEF Has
  <2>2. CASE "props" \notin Kept(s)
    <3>1. t.props = m.props /\ "props" \in DOMAIN m
      BY <2>1, <2>2 DEF Merge
    <3> QED
      BY <1>4, <1>8, <3>1 DEF WellFormed, Has
  <2>3. CASE "props" \in Kept(s) /\ "props" \notin DOMAIN m
    <3>1. t.props = s.props /\ "props" \in DOMAIN s
      BY <1>1, <2>3 DEF Merge
    <3> QED
      BY <1>8, <3>1 DEF WellFormed, Has
  <2>4. CASE "props" \in Kept(s) /\ "props" \in DOMAIN m
    <3>1. t.props = [q \in DOMAIN m.props \cup DOMAIN s.props |->
                        IF q \in DOMAIN s.props THEN s.props[q] ELSE m.props[q]]
      BY <1>1, <2>4 DEF Merge
    <3>2. "props" \in DOMAIN s
      BY <1>1, <2>4
    <3>3. IsFiniteSet(DOMAIN m.props) /\ IsFiniteSet(DOMAIN s.props)
      BY <1>4, <2>4, <3>2 DEF WellFormed, Has
    <3>4. IsFiniteSet(DOMAIN m.props \cup DOMAIN s.props)
      BY <3>3, FS_Union
    <3>5. \A p \in DOMAIN t.props : t.props[p] \in Names
      BY <1>4, <1>8, <2>4, <3>1, <3>2 DEF WellFormed, Has
    <3> QED
      BY <3>1, <3>4, <3>5
  <2> QED
    BY <2>1, <2>2, <2>3, <2>4
<1>9. ASSUME Has(t, "required") PROVE t.required \in Seq(STRING)
  <2>1. "required" \in DOMAIN m \cup Kept(s)
    BY <1>1, <1>9 DEF Has
  <2>2. CASE "required" \notin Kept(s)
    BY <1>4, <2>1, <2>2 DEF Merge, WellFormed, Has
  <2>3. CASE "required" \in Kept(s) /\ "required" \notin DOMAIN m
    BY <1>1, <2>3 DEF Merge, WellFormed, Has
  <2>4. CASE "required" \in Kept(s) /\ "required" \in DOMAIN m
    <3>1. t.required = m.required \o s.required
      BY <1>1, <2>4 DEF Merge
    <3>2. m.required \in Seq(STRING) /\ s.required \in Seq(STRING)
      BY <1>1, <1>4, <2>4 DEF WellFormed, Has
    <3> QED
      BY <3>1, <3>2
  <2> QED
    BY <2>1, <2>2, <2>3, <2>4
<1> HIDE DEF t
<1>10. WellFormed(t)
  BY <1>2, <1>5, <1>6, <1>7, <1>8, <1>9 DEF WellFormed
<1> QED
  BY <1>2, <1>10 DEF Assembled, t

\* A call of the merger that has taken its next member.
LEMMA TakeMerges ==
    ASSUME NEW calls, WellMerging(calls), calls # <<>>, calls[Len(calls)].todo # <<>>,
           NEW s, WellFormed(s)
    PROVE  WellMerging([calls EXCEPT ![Len(calls)] =
                           [todo |-> Tail(calls[Len(calls)].todo),
                            merged |-> Merge(calls[Len(calls)].merged, s)]])
<1> DEFINE n == Len(calls)
           last == calls[n]
           now == [todo |-> Tail(last.todo), merged |-> Merge(last.merged, s)]
           t == [calls EXCEPT ![n] = now]
<1>1. n \in Nat \ {0} /\ IsSequence(t) /\ Len(t) = n
  BY FrontSequence, ReplaceLast DEF WellMerging
<1>2. last.todo \in Seq(Names) /\ Assembled(last.merged)
  BY <1>1 DEF WellMerging
<1>3. DOMAIN calls = 1 .. n
  BY DEF WellMerging, IsSequence
<1>4. now.todo \in Seq(Names) /\ \A i \in DOMAIN now.todo : \E j \in DOMAIN last.todo : now.todo[i] = last.todo[j]
  <2> DEFINE q == last.todo
  <2>1. q \in Seq(Names) /\ q # <<>>
    BY <1>2
  <2> HIDE DEF q
  <2>2. /\ Tail(q) \in Seq(Names) /\ Len(Tail(q)) = Len(q) - 1
        /\ \A i \in 1 .. Len(Tail(q)) : Tail(q)[i] = q[i + 1]
    BY <2>1, HeadTailProperties
  <2>3. Len(q) \in Nat /\ DOMAIN q = 1 .. Len(q) /\ DOMAIN Tail(q) = 1 .. Len(Tail(q))
    BY <2>1, <2>2
  <2>4. \A i \in DOMAIN Tail(q) : i + 1 \in DOMAIN q /\ Tail(q)[i] = q[i + 1]
    BY <2>2, <2>3
  <2> QED
    BY <2>2, <2>4 DEF q
<1>5. Assembled(now.merged)
  BY <1>2, MergeAssembled
<1> HIDE DEF now
<1>6. t[n] = now /\ \A i \in 1 .. n : i # n => t[i] = calls[i]
  BY <1>1, <1>3
<1>7. \A i \in 1 .. n : t[i].todo \in Seq(Names) /\ Assembled(t[i].merged)
  BY <1>4, <1>5, <1>6 DEF WellMerging
<1>8. ASSUME NEW i \in 1 .. n - 1 PROVE Nested(t[i], t[i + 1])
  <2>0. Nested(calls[i], calls[i + 1])
    BY <1>8 DEF WellMerging
  <2>1. Nested(calls[i], calls[i + 1]) /\ i # n /\ i \in 1 .. n /\ i + 1 \in 1 .. n
    <3> HIDE DEF n
    <3> QED
      BY <1>1, <1>8, <2>0
  <2>2. t[i] = calls[i]
    BY <1>6, <2>1
  <2>3. CASE i + 1 = n
    BY <1>4, <1>6, <2>1, <2>2, <2>3 DEF Nested
  <2>4. CASE i + 1 # n
    BY <1>6, <2>1, <2>2, <2>4
  <2> QED
    BY <2>3, <2>4
<1> HIDE DEF t, n
<1>9. WellMerging(t)
  BY <1>1, <1>7, <1>8 DEF WellMerging
<1> QED
  BY <1>9 DEF t, n, now

\* The calls around the innermost.
LEMMA OuterMerges ==
    ASSUME NEW calls, WellMerging(calls), SubSeq(calls, 1, Len(calls) - 1) # <<>>, calls # <<>>
    PROVE  LET outer == SubSeq(calls, 1, Len(calls) - 1)
           IN  WellMerging(outer) /\ outer[Len(outer)].todo # <<>>
<1> DEFINE m == Len(calls) - 1
           outer == SubSeq(calls, 1, m)
<1>1. IsSequence(outer) /\ Len(outer) = m /\ m \in Nat
  BY FrontSequence DEF WellMerging
<1>2. m # 0
  BY <1>1, EmptySeq DEF IsSequence
<1>3. \A i \in 1 .. m : outer[i] = calls[i]
  <2>1. PICK S : calls \in Seq(S)
    BY DEF WellMerging, IsSequence
  <2>2. m \in Int /\ \A i \in 1 .. m : calls[i] \in S
    BY <1>1, <2>1, ElementOfSeq
  <2> HIDE DEF m
  <2>3. \A i \in 1 .. m - 1 + 1 : SubSeq(calls, 1, m)[i] = calls[1 + i - 1]
    BY <2>2, SubSeqProperties
  <2> QED
    BY <2>2, <2>3
<1>4. Len(calls) = m + 1
  BY FrontSequence DEF WellMerging
<1> HIDE DEF outer, m
<1>5. \A i \in 1 .. m : outer[i].todo \in Seq(Names) /\ Assembled(outer[i].merged)
  BY <1>1, <1>3, <1>4 DEF WellMerging
<1>6. \A i \in 1 .. m : Nested(calls[i], calls[i + 1])
  BY <1>1, <1>4 DEF WellMerging
<1>7. ASSUME NEW i \in 1 .. m - 1 PROVE Nested(outer[i], outer[i + 1])
  <2>1. i \in 1 .. m /\ i + 1 \in 1 .. m
    BY <1>1
  <2>2. outer[i] = calls[i] /\ outer[i + 1] = calls[i + 1]
    BY <1>3, <2>1
  <2>3. Nested(calls[i], calls[i + 1])
    BY <1>6, <2>1
  <2> QED
    BY <2>2, <2>3
<1>8. outer[m].todo # <<>>
  BY <1>1, <1>2, <1>3, <1>6 DEF Nested
<1>9. WellMerging(outer)
  BY <1>1, <1>5, <1>7 DEF WellMerging
<1> QED
  BY <1>1, <1>8, <1>9 DEF outer, m

LEMMA TakeMemberMerges ==
    ASSUME NEW calls, WellMerging(calls), calls # <<>>, calls[Len(calls)].todo # <<>>,
           NEW s, WellFormed(s), TakeMember(calls, s)
    PROVE  MergerInv'
<1>1. CASE MergePanics(s)
  BY <1>1, EmptyMerges DEF TakeMember, MergerInv
<1>2. CASE ~MergePanics(s)
  <2>1. merging' = [calls EXCEPT ![Len(calls)] =
                       [todo |-> Tail(calls[Len(calls)].todo),
                        merged |-> Merge(calls[Len(calls)].merged, s)]]
    BY <1>2 DEF TakeMember
  <2>2. WellMerging(merging')
    BY <2>1, TakeMerges
  <2> QED
    BY <2>2 DEF MergerInv
<1> QED
  BY <1>1, <1>2

LEMMA MergeSchemasMerges ==
    ASSUME MergerInv, NEW s, WellFormed(s), Has(s, "allOf") \/ Has(s, "anyOf"),
           merging # <<>> => /\ Merger.todo # <<>> /\ Head(Merger.todo) \in Names
                             /\ s = Schemas[Head(Merger.todo)],
           MergeSchemas(merging, s)
    PROVE  MergerInv'
<1>1. CASE merging' = <<>>
  BY <1>1, EmptyMerges DEF MergerInv
<1>2. CASE merging' # <<>>
  <2>1. PICK members \in Members(s) : merging' = Append(merging, [todo |-> members, merged |-> Empty])
    <3>1. \/ merging' = <<>>
          \/ \E members \in Members(s) : merging' = Append(merging, [todo |-> members, merged |-> Empty])
      BY Zenon DEF MergeSchemas
    <3> QED
      BY <1>2, <3>1
  <2> DEFINE call == [todo |-> members, merged |-> Empty]
             n == Len(merging)
             t == Append(merging, call)
  <2>2. members \in Seq(Names)
    BY MembersListed
  <2>3. call.todo = members /\ Assembled(call.merged)
    BY EmptyAssembled
  <2>4. IsSequence(merging) /\ n \in Nat
    BY DEF MergerInv, WellMerging, IsSequence
  <2>5. n # 0 => merging # <<>>
    BY EmptySequence
  <2>6. n # 0 => Nested(merging[n], call)
    BY <2>3, <2>5, MembersListed DEF Nested, Merger
  <2> HIDE DEF call
  <2>7. IsSequence(t) /\ Len(t) = n + 1 /\ t[n + 1] = call /\ \A i \in 1 .. n : t[i] = merging[i]
    <3>1. PICK S : merging \in Seq(S)
      BY <2>4 DEF IsSequence
    <3>2. merging \in Seq(S \cup {call})
      BY <3>1
    <3> QED
      BY <2>4, <3>2, AppendProperties DEF IsSequence
  <2>8. \A i \in 1 .. n : merging[i].todo \in Seq(Names) /\ Assembled(merging[i].merged)
    BY DEF MergerInv, WellMerging
  <2>9. \A i \in 1 .. n - 1 : Nested(merging[i], merging[i + 1])
    BY DEF MergerInv, WellMerging
  <2> HIDE DEF t, n
  <2>10. \A i \in 1 .. n + 1 : t[i].todo \in Seq(Names) /\ Assembled(t[i].merged)
    BY <2>2, <2>3, <2>4, <2>7, <2>8
  <2>11. ASSUME NEW i \in 1 .. n PROVE Nested(t[i], t[i + 1])
    <3>1. CASE i = n
      BY <2>4, <2>6, <2>7, <3>1
    <3>2. CASE i # n
      <4>1. i \in 1 .. n - 1 /\ i + 1 \in 1 .. n
        BY <2>4, <3>2
      <4> QED
        BY <2>7, <2>9, <4>1
    <3> QED
      BY <3>1, <3>2
  <2>12. WellMerging(t)
    BY <2>4, <2>7, <2>10, <2>11 DEF WellMerging
  <2> QED
    BY <2>1, <2>12 DEF MergerInv, t, call
<1> QED
  BY <1>1, <1>2

LEMMA MergeMemberMerges ==
    ASSUME ChainInv, MergerInv, MergeMember
    PROVE  MergerInv'
<1> DEFINE a == Head(Merger.todo)
           s == Schemas[a]
<1>1. merging # <<>> /\ Merger.todo # <<>> /\ Merger.todo \in Seq(Names)
  BY MergerSchema DEF MergeMember, Merging
<1>2. a \in Names /\ WellFormed(s)
  <2> DEFINE q == Merger.todo
  <2>1. q # <<>> /\ q \in Seq(Names)
    BY <1>1
  <2> HIDE DEF q
  <2>2. Head(q) \in Names
    BY <2>1, HeadTailProperties
  <2> QED
    BY <2>2, SchemasAssumption DEF q
<1>3. WellMerging(merging) /\ merging[Len(merging)].todo # <<>>
  BY <1>1 DEF MergerInv, Merger
<1>4. CASE ~Combining(s)
  <2>1. TakeMember(merging, s)
    BY <1>4, Zenon DEF MergeMember, Combining
  <2> QED
    BY <1>1, <1>2, <1>3, <2>1, TakeMemberMerges
<1>5. CASE Combining(s) /\ (Has(s, "allOf") \/ Has(s, "anyOf"))
  <2>1. MergeSchemas(merging, s)
    BY <1>5, Zenon DEF MergeMember
  <2> QED
    BY <1>1, <1>2, <1>5, <2>1, MergeSchemasMerges
<1>6. CASE Combining(s) /\ ~(Has(s, "allOf") \/ Has(s, "anyOf"))
  <2>1. IF s.oneOf = <<>> THEN Return(Panic) /\ merging' = <<>>
        ELSE \E i \in DOMAIN s.oneOf : TakeMember(merging, Schemas[s.oneOf[i]])
    BY <1>6, Zenon DEF MergeMember
  <2>2. CASE merging' = <<>>
    BY <2>2, EmptyMerges DEF MergerInv
  <2>3. ASSUME NEW i \in DOMAIN s.oneOf, TakeMember(merging, Schemas[s.oneOf[i]])
        PROVE  MergerInv'
    <3>1. s.oneOf \in Seq(Names)
      BY <1>2, <1>6 DEF WellFormed, Combining, Has
    <3>2. WellFormed(Schemas[s.oneOf[i]])
      <4>1. s.oneOf[i] \in Names
        BY <3>1, <2>3
      <4> QED
        BY <4>1, SchemasAssumption, Zenon
    <3> QED
      BY <1>1, <1>3, <2>3, <3>2, TakeMemberMerges
  <2> QED
    BY <2>1, <2>2, <2>3
<1> QED
  BY <1>4, <1>5, <1>6

LEMMA MergeReturnsMerges ==
    ASSUME ChainInv, MergerInv, MergeReturns
    PROVE  MergerInv'
<1>1. merging # <<>> /\ WellFormed(Merger.merged)
  BY MergerSchema DEF MergeReturns, Merging, Assembled
<1>2. CASE Outer = <<>>
  BY <1>2, EmptyMerges DEF MergeReturns, MergerInv
<1>3. CASE Outer # <<>>
  <2>1. WellMerging(Outer) /\ Outer[Len(Outer)].todo # <<>>
    BY <1>1, <1>3, OuterMerges DEF Outer, MergerInv
  <2>2. TakeMember(Outer, Merger.merged)
    BY <1>3 DEF MergeReturns
  <2> QED
    BY <1>1, <1>3, <2>1, <2>2, TakeMemberMerges
<1> QED
  BY <1>2, <1>3

LEMMA CombinedMerges ==
    ASSUME CallsInv, MergerInv, GenerateCombined
    PROVE  MergerInv'
<1>1. stack # <<>> /\ merging = <<>> /\ MergeSchemas(merging, Top.schema)
  BY DEF GenerateCombined, Generates, Delegates, Entered
<1>2. WellFormed(Top.schema)
  BY <1>1, TopCall DEF IsCall
<1>3. Has(Top.schema, "allOf") \/ Has(Top.schema, "anyOf")
  BY <1>1, PartSchema DEF GenerateCombined, Generates, TypeOf, Get
<1> QED
  BY <1>1, <1>2, <1>3, MergeSchemasMerges

LEMMA GenerateMerges ==
    ASSUME ChainInv, CallsInv, MergerInv, Generate
    PROVE  MergerInv'
<1>1. CASE GenerateCombined \/ MergeMember \/ MergeReturns
  BY <1>1, CombinedMerges, MergeMemberMerges, MergeReturnsMerges
<1>2. CASE merging' = merging
  BY <1>2 DEF MergerInv
<1>3. CASE ~(GenerateCombined \/ MergeMember \/ MergeReturns)
  BY <1>2, <1>3 DEF Generate, GenerateNull, TakeExample, GenerateScalar, GenerateUnsupported,
     GenerateOneOf, GenerateArray, NextItem, KeepItem, KeepUnique, RepeatUnique, ShortArray,
     GenerateObject, NextProperty, NextRequired, NextEntry, NextFree, KeepField, Propagate
<1> QED
  BY <1>1, <1>3

-----------------------------------------------------------------------------
(* The circle of a merger that does not end. *)

\* More nested calls than schemas: one schema is merged for itself.
LEMMA MergerCircles ==
    ASSUME ChainInv, MergerInv, Len(merging) >= MaxMerging, merging # <<>> => Merger.todo # <<>>
    PROVE  \E circle \in SUBSET Merged :
               circle # {} /\ \A a \in circle : \E b \in circle : Combines(a, b)
<1> DEFINE n == Len(merging)
           heads == [i \in 1 .. n |-> Head(merging[i].todo)]
<1>1. n \in Nat /\ IsSequence(merging) /\ DOMAIN merging = 1 .. n
  BY DEF ChainInv, IsSequence
<1>2. Cardinality(Names) \in Nat /\ Cardinality(Names) < n
  BY <1>1, MergingAssumption, LevelAssumption, FS_CardinalityType
<1>3. merging # <<>> /\ n # 0
  BY <1>1, <1>2, EmptySequence
<1>4. \A i \in 1 .. n : merging[i].todo \in Seq(Names)
  BY DEF MergerInv, WellMerging
<1>5. \A i \in 1 .. n - 1 : Nested(merging[i], merging[i + 1])
  BY DEF MergerInv, WellMerging
<1>6. \A i \in 1 .. n : merging[i].todo # <<>>
  <2>1. merging[n].todo # <<>>
    BY <1>3 DEF Merger
  <2> HIDE DEF n
  <2> QED
    BY <1>1, <1>5, <2>1 DEF Nested
<1> HIDE DEF n
<1>7. \A i \in 1 .. n : heads[i] \in Names /\ heads[i] = merging[i].todo[1] /\ 1 \in DOMAIN merging[i].todo
  BY <1>4, <1>6
<1>8. \A i \in 1 .. n - 1 : Combines(heads[i], heads[i + 1])
  <2>1. ASSUME NEW i \in 1 .. n - 1 PROVE Combines(heads[i], heads[i + 1])
    <3>1. i \in 1 .. n /\ i + 1 \in 1 .. n
      BY <1>1
    <3>2. \A j \in DOMAIN merging[i + 1].todo : Combines(Head(merging[i].todo), merging[i + 1].todo[j])
      BY <1>5, <2>1 DEF Nested
    <3>3. heads[i] = Head(merging[i].todo) /\ heads[i + 1] = merging[i + 1].todo[1]
      BY <1>7, <3>1
    <3>4. 1 \in DOMAIN merging[i + 1].todo
      BY <1>7, <3>1
    <3> QED
      BY <3>2, <3>3, <3>4
  <2> QED
    BY <2>1
<1>9. \A i \in 1 .. n : heads[i] \in Merged
  BY <1>1 DEF Merged
<1>10. heads \in [1 .. n -> Names]
  BY <1>7
<1> HIDE DEF heads
<1>11. \E i, j \in 1 .. n : i < j /\ heads[i] = heads[j]
  <2>1. IsFiniteSet(1 .. n) /\ Cardinality(1 .. n) = n
    BY <1>1, FS_Interval
  <2>2. \E i, j \in 1 .. n : i # j /\ heads[i] = heads[j]
    BY <1>2, <1>10, <2>1, MergingAssumption, FS_PigeonHole
  <2> QED
    BY <1>1, <2>2
<1>12. PICK i, j \in 1 .. n : i < j /\ heads[i] = heads[j]
  BY <1>11
<1> DEFINE circle == {heads[k] : k \in i .. j - 1}
<1>13. ASSUME NEW k \in i .. j - 1 PROVE heads[k] \in Merged /\ \E b \in circle : Combines(heads[k], b)
  <2>1. k \in 1 .. n - 1 /\ k \in 1 .. n
    BY <1>1, <1>13
  <2>2. heads[k + 1] \in circle
    <3>1. CASE k + 1 = j
      <4>1. i \in i .. j - 1
        BY <1>12
      <4> QED
        BY <1>12, <3>1, <4>1
    <3>2. CASE k + 1 # j
      <4>1. k + 1 \in i .. j - 1
        BY <1>13, <3>2
      <4> QED
        BY <4>1
    <3> QED
      BY <3>1, <3>2
  <2> QED
    BY <1>8, <1>9, <2>1, <2>2
<1>14. heads[i] \in circle
  <2>1. i \in i .. j - 1
    BY <1>12
  <2> QED
    BY <2>1
<1>15. circle \in SUBSET Merged /\ \A a \in circle : \E b \in circle : Combines(a, b)
  BY <1>13
<1> QED
  BY <1>14, <1>15

-----------------------------------------------------------------------------
(* The calls and the merger through the steps of a request. *)

LEMMA RestingCalls ==
    ASSUME CallsInv, MergerInv, UNCHANGED generation
    PROVE  CallsInv' /\ MergerInv'
<1>1. UNCHANGED <<stack, result, merging>>
  BY DEF generation
<1> QED
  BY <1>1 DEF CallsInv, MergerInv, Below, Top

LEMMA NegotiatedCalls ==
    ASSUME IInv, RouteInv, CodeInv, MergerInv, Negotiated
    PROVE  /\ CallsInv' /\ MergerInv'
           /\ result' # Crash
<1>1. at = "negotiate" /\ keys = {}
  BY DEF Negotiated
<1>2. stack = <<>> /\ merging = <<>> /\ result = NoResult
  BY <1>1 DEF IInv, PlaceInv, Before
<1>3. HasRoute(request)
  BY <1>1 DEF RouteInv
<1>4. Key # None => Key \in DOMAIN Responses
  BY <1>1, KeyIsLeast
<1>5. CASE UNCHANGED <<generation, content>>
  BY <1>2, <1>5 DEF generation, CallsInv, MergerInv, NoResult, Crash
<1>6. CASE Begins /\ merging' = merging
  <2>1. MergerInv'
    BY <1>6 DEF MergerInv
  <2>2. CASE stack' = <<>> /\ result' # Crash
    BY <2>1, <2>2 DEF CallsInv
  <2>3. ASSUME NEW s, WellFormed(s), stack' = Append(<<>>, Frame(s)), result' = NoResult
        PROVE  CallsInv'
    <3>1. SubSeq(stack', 1, Len(stack') - 1) = <<>> /\ stack'[Len(stack')] = Frame(s)
      BY <2>3, EmptyWaits, AppendWaits
    <3>2. Below' = <<>> /\ Top' = Frame(s)
      BY <3>1 DEF Below, Top
    <3> QED
      BY <2>3, <3>2, EmptyWaits, FrameWorks DEF CallsInv
  <2>4. result' # Crash
    BY <1>6 DEF Begins, Panic, Failed, NoResult, Crash
  <2>5. stack' = <<>> \/ (result' = NoResult /\ \E s : WellFormed(s) /\ stack' = Append(<<>>, Frame(s)))
    BY <1>6 DEF Begins
  <2> QED
    BY <2>1, <2>2, <2>3, <2>4, <2>5
<1> QED
  BY <1>2, <1>3, <1>4, <1>5, <1>6, NegotiatedBegins

\* A step of the handlers around the generators.
LEMMA HandlerRests ==
    ASSUME [Next]_vars, ~GenerateStep, ~Negotiated
    PROVE  UNCHANGED generation
BY DEF Next, Handle, Proceed, Receive, TryMethod, Decide, FindRoute, Validate, VisitKey, Generated, Respond, vars

LEMMA NextCallsInv ==
    ASSUME IInv, RouteInv, CodeInv, CallsInv, MergerInv, [Next]_vars
    PROVE  CallsInv' /\ MergerInv'
<1>1. CASE GenerateStep
  BY <1>1, GenerateCalls, CallStepKeeps, GenerateMerges DEF GenerateStep, IInv
<1>2. CASE Negotiated
  BY <1>2, NegotiatedCalls
<1>3. CASE ~GenerateStep /\ ~Negotiated
  BY <1>3, HandlerRests, RestingCalls
<1> QED
  BY <1>1, <1>2, <1>3

LEMMA InitCallsInv == ASSUME Init PROVE CallsInv /\ MergerInv
BY EmptyMerges DEF Init, CallsInv, MergerInv

-----------------------------------------------------------------------------
(* The theorems *)

Inv == IInv /\ RouteInv /\ CodeInv /\ CallsInv /\ MergerInv

LEMMA Invariant == Spec => []Inv
<1>1. Init => Inv
  BY InitIInv, InitRouteInv, InitCodeInv, InitCallsInv DEF Inv
<1>2. Inv /\ [Next]_vars => Inv'
  BY NextIInv, NextRouteInv, NextCodeInv, NextCallsInv DEF Inv
<1> QED
  BY <1>1, <1>2, PTL DEF Spec

\* The recursion of the generators is never deeper than the breaker allows, however
\* schemas refer to one another, and nothing of it is left when a request is
\* answered (recursionBreaker.go, coordinatingSchemaGenerator.go).
THEOREM TypeCorrect == Spec => []TypeOK
<1>1. Inv => TypeOK
  BY DEF Inv, IInv, ChainInv, PlaceInv, Before, Statuses, Outcomes, TypeOK
<1> QED
  BY <1>1, Invariant, PTL

\* The options handler, which tries methods in the request, hands on a request
\* that has its route (optionsHandler.go, ResponseGeneratorHandler.go:351).
THEOREM RouteFound == Spec => []RouteFoundAgain
<1>1. Inv => RouteFoundAgain
  BY DEF Inv, RouteInv
<1> QED
  BY <1>1, Invariant, PTL

\* The least success code, or the least code, is negotiated in whatever order the
\* responses are visited (StatusCodeNegotiator.go).
THEOREM CodeNegotiated == Spec => []LeastCode
<1>1. Inv => LeastCode
  BY DEF Inv, CodeInv
<1> QED
  BY <1>1, Invariant, PTL

\* With suppress_errors no error leaves the generators (errorSuppressor.go).
THEOREM Suppression == Spec => []SuppressedNeverFails
<1>1. Inv => SuppressedNeverFails
  BY DEF Inv, IInv
<1> QED
  BY <1>1, Invariant, PTL

\* With use_examples = exclusively no schema is visited (MediaGenerator.go).
THEOREM ExamplesOnly == Spec => []OnlyExamples
<1>1. Inv => OnlyExamples
  BY DEF Inv, IInv
<1> QED
  BY <1>1, Invariant, PTL

\* A list or an object that the generators of arrays and objects return has all it
\* has to have: enough items, no two alike where they are unique, the properties
\* that are shown and no other, and enough entries (regularArrayGenerator.go,
\* uniqueArrayGenerator.go, objectGenerator.go, hashMapGenerator.go).
THEOREM PartsMade == Spec => PartsAreMade
<1> DEFINE Fits == stack # <<>> /\ Len(stack') < Len(stack) /\ result'.status = "ok" /\ ~options.suppress =>
                       HasItsParts(Top, result'.data)
<1>1. ASSUME Inv, [Next]_vars PROVE [Fits]_result
  <2> USE DEF Inv, IInv
  <2>1. CASE GenerateStep
    BY <1>1, <2>1, GenerateCalls, CallStepFits DEF GenerateStep
  <2>2. CASE Negotiated
    <3>1. stack = <<>>
      BY <1>1, <2>2 DEF Negotiated, PlaceInv, Before
    <3> QED
      BY <3>1
  <2>3. CASE ~GenerateStep /\ ~Negotiated
    BY <1>1, <2>3, HandlerRests DEF generation
  <2> QED
    BY <2>1, <2>2, <2>3
<1> HIDE DEF Fits
<1>2. Spec => [][Fits]_result
  BY <1>1, Invariant, PTL DEF Spec
<1> QED
  BY <1>2, PTL DEF PartsAreMade, Fits

\* The merger exhausts the stack only by going around in a circle of schemas that
\* combine one another, when the stack holds more of its calls than there are
\* schemas (schemaMerger.go:33).
THEOREM OverflowsCircle == Spec => OverflowOnlyOnCycles
<1> DEFINE Circle == \E circle \in SUBSET Merged :
                         circle # {} /\ \A a \in circle : \E b \in circle : Combines(a, b)
           Overflow == result # Crash /\ result' = Crash => Circle
<1>1. ASSUME Inv, [Next]_vars PROVE [Overflow]_result
  <2> USE DEF Inv, IInv
  <2>1. CASE GenerateStep
    <3>1. ChainStep
      BY <1>1, <2>1, GenerateIsChainStep DEF GenerateStep
    <3>2. CASE Crashes
      BY <1>1, <3>2, MergerCircles DEF Crashes
    <3>3. CASE ~Crashes
      BY <3>1, <3>3 DEF ChainStep, Returns, Calling, Continues, Merges, Exceeds, Return, Call, Continue,
         Ok, Panic, Failed, NoResult, AttemptsExceeded, Crash, Outcomes
    <3> QED
      BY <3>2, <3>3
  <2>2. CASE Negotiated
    BY <1>1, <2>2, NegotiatedCalls
  <2>3. CASE ~GenerateStep /\ ~Negotiated
    BY <1>1, <2>3, HandlerRests DEF generation
  <2> QED
    BY <2>1, <2>2, <2>3
<1> HIDE DEF Overflow
<1>2. Spec => [][Overflow]_result
  BY <1>1, Invariant, PTL DEF Spec
<1> QED
  BY <1>2, PTL DEF OverflowOnlyOnCycles, Overflow
=============================================================================
