----------------------------- MODULE Generation -----------------------------
(***************************************************************************)
(* The generation of one value by its schema, in                           *)
(* internal/openapi/generator/data.  A call passes a chain of generators:  *)
(* the recursion breaker, the one for nulls, the one for examples, the     *)
(* suppressor of errors and the one that delegates by the type of the      *)
(* schema; those of arrays, objects and combined schemas call the chain    *)
(* again for their parts.  The stack holds the calls that have not yet     *)
(* returned, and a step is a call, a return, or what is done with one      *)
(* value that was returned.                                                *)
(*                                                                         *)
(* The members of allOf and anyOf are merged before the chain is called    *)
(* for the result; the merger calls itself, with a stack of its own that   *)
(* no breaker watches.                                                     *)
(***************************************************************************)
EXTENDS Scalars, FiniteSets

CONSTANTS
    Keys,          \* the keys a random key generator can make
    MaxLevel,      \* maxRecursionLevel of the breaker, 100 in the code
    MaxAttempts,   \* for a unique value, 1000 in the code
    MaxMerging     \* bound: the calls of the merger that exhaust the memory

ASSUME LevelAssumption ==
    /\ {MaxLevel, MaxAttempts} \subseteq Nat \ {0}
    /\ MaxMerging \in Nat

\* The memory holds more calls of the merger than a specification has schemas.
ASSUME MergingAssumption == IsFiniteSet(Names) /\ Cardinality(Names) < MaxMerging

\* What a schema refers to is there, because the loader resolves every $ref or
\* fails, the sizes it gives are unsigned, and its type is none of the names that
\* detectSchemaType gives to the combined schemas.
WellFormed(s) ==
    /\ Get(s, "type", "") \notin {"oneOf", "anyOf", "allOf", "combined"}
    /\ \A attribute \in {"items", "additional"} \cap DOMAIN s : s[attribute] \in Names
    /\ Has(s, "props") => IsFiniteSet(DOMAIN s.props) /\ \A p \in DOMAIN s.props : s.props[p] \in Names
    /\ \A list \in {"allOf", "anyOf", "oneOf"} \cap DOMAIN s : s[list] \in Seq(Names)
    /\ \A size \in {"minItems", "minProps"} \cap DOMAIN s : s[size] \in Nat
    /\ Has(s, "required") => s.required \in Seq(STRING)

ASSUME SchemasAssumption == \A name \in Names : WellFormed(Schemas[name])

VARIABLES
    options,   \* useExamples, suppress, and whether nulls have a probability
    stack,     \* the calls of the chain, the last one on top
    merging,   \* the calls of the merger for the schema on top
    result     \* what the last call returned, until its caller takes it

generation == <<options, stack, merging, result>>

NoResult == [status |-> "none"]

\* The end of the process by an exhausted stack, which nothing recovers.
Crash == [status |-> "crash"]

Options == [useExamples : {"no", "if_present", "exclusively"},
            suppress : BOOLEAN, nulls : BOOLEAN]

\* A call: its schema, what it does, what is left to do in any order and in that of
\* a list, what it made so far, the name of the part it waits for and the values
\* it drew for that part.
Frame(s) == [schema |-> s, phase |-> "enter", todo |-> {}, queue |-> <<>>,
             made |-> <<>>, name |-> "", tries |-> 0]

Top == stack[Len(stack)]

Below == SubSeq(stack, 1, Len(stack) - 1)

\* The stack, its top replaced.
Now(frame) == Append(Below, frame)

Empty == [p \in {} |-> Null]

With(f, p, value) == [q \in DOMAIN f \cup {p} |-> IF q = p THEN value ELSE f[q]]

-----------------------------------------------------------------------------
(* Calls and returns *)

MutantCall(calling, s) ==
    /\ stack' = Append(calling, Frame(s))
    /\ result' = NoResult

\* The chain is called by the top of `calling`; the level of a call is the
\* number of calls it is nested in (recursionBreaker.go).
Call(calling, s) ==
    IF Len(calling) >= MaxLevel
    THEN stack' = calling /\ result' = Failed
    ELSE stack' = Append(calling, Frame(s)) /\ result' = NoResult

MutantReturn(r) ==
    IF r = Panic
    THEN stack' = <<>> /\ result' = Panic
    ELSE /\ stack' = Below
         /\ result' = IF IsError(r) /\ options.suppress /\ Has(Top.schema, "default")
                      THEN Ok(Default(Top.schema)) ELSE r

\* The top call returns: its suppressor takes an error (errorSuppressor.go).
\* A panic unwinds to the recovery of the HTTP handlers.
Return(r) ==
    IF r = Panic
    THEN stack' = <<>> /\ result' = Panic
    ELSE /\ stack' = Below
         /\ result' = IF IsError(r) /\ options.suppress THEN Ok(Default(Top.schema)) ELSE r

\* The top call goes on, in another state.
Continue(frame) == stack' = Now(frame) /\ result' = NoResult

Entered == stack # <<>> /\ result = NoResult /\ Top.phase = "enter" /\ merging = <<>>

Working(phase) == stack # <<>> /\ result = NoResult /\ Top.phase = phase

Returned(phase) == stack # <<>> /\ result.status = "ok" /\ Top.phase = phase

-----------------------------------------------------------------------------
(* The chain: nulls, examples, delegation *)

GenerateNull ==
    /\ Entered
    /\ options.nulls
    /\ Has(Top.schema, "nullable")
    /\ Return(Ok(Null))
    /\ UNCHANGED <<options, merging>>

UsesExample(s) == options.useExamples # "no" /\ Has(s, "example")

TakeExample ==
    /\ Entered
    /\ UsesExample(Top.schema) \/ options.useExamples = "exclusively"
    /\ Return(Ok(Get(Top.schema, "example", Default(Top.schema))))
    /\ UNCHANGED <<options, merging>>

TypeOf(s) ==
    CASE Has(s, "oneOf") -> "oneOf"
      [] ~Has(s, "oneOf") /\ (Has(s, "anyOf") \/ Has(s, "allOf")) -> "combined"
      [] OTHER -> IF Has(s, "type") THEN s.type
                  ELSE IF Has(s, "props") THEN "object" ELSE ""

\* The chain comes to the generator of the type.
Delegates ==
    /\ Entered
    /\ ~UsesExample(Top.schema)
    /\ options.useExamples # "exclusively"
    /\ UNCHANGED options

Generates(type) == Delegates /\ TypeOf(Top.schema) = type

GenerateScalar(type) ==
    /\ Generates(type)
    /\ \E r \in ScalarResults(type, Top.schema) : Return(r)
    /\ UNCHANGED merging

GenerateUnsupported ==
    /\ Delegates
    /\ TypeOf(Top.schema) \notin ScalarTypes \cup {"array", "object", "oneOf", "combined"}
    /\ Return(Failed)
    /\ UNCHANGED merging

GenerateOneOf ==
    /\ Generates("oneOf")
    /\ LET members == Top.schema.oneOf
       IN  IF members = <<>>
           THEN Return(Ok(Object(Empty)))
           ELSE \E i \in DOMAIN members :
                    Call(Now([Top EXCEPT !.phase = "pass"]), Schemas[members[i]])
    /\ UNCHANGED merging

-----------------------------------------------------------------------------
(* The merger, schemaMerger.go *)

Combining(s) == Has(s, "allOf") \/ Has(s, "anyOf") \/ Has(s, "oneOf")

\* Attributes that are not taken over: the combining lists, the items of an
\* array, and defaults and examples that are a zero value of Go.
Zeros == {[integer |-> 0], [boolean |-> FALSE], [string |-> ""]}

Kept(s) ==
    {a \in DOMAIN s \ {"allOf", "anyOf", "oneOf", "items"} :
        a \in {"default", "example"} => s[a] \notin Zeros}

\* Whether it is one is asked with ==, which panics for maps and slices.
MergePanics(s) ==
    \E a \in DOMAIN s \cap {"default", "example"} : DOMAIN s[a] \cap {"array", "object"} # {}

\* The attributes of s are put into those of merged: later ones replace, lists
\* are joined, properties added.  A flag is given when it is true.
Merge(merged, s) ==
    [a \in DOMAIN merged \cup Kept(s) |->
        IF a \notin Kept(s) THEN merged[a]
        ELSE IF a \notin DOMAIN merged THEN s[a]
        ELSE CASE a \in {"enum", "required"} -> merged[a] \o s[a]
               [] a = "props" -> [p \in DOMAIN merged.props \cup DOMAIN s.props |->
                                     IF p \in DOMAIN s.props THEN s.props[p] ELSE merged.props[p]]
               [] OTHER -> s[a]]

\* What additionalProperties says of the first member decides whether it can be chosen.
ChoicePanics(members) ==
    \/ members = <<>>
    \/ Len(members) > 1 /\ ~Has(Schemas[members[1]], "allowed")

Chosen(members) ==
    IF Len(members) > 1 /\ Schemas[members[1]].allowed THEN 2 .. Len(members) ELSE DOMAIN members

\* The members that are merged: all, or one at random.
Members(s) == IF Has(s, "allOf") THEN {s.allOf} ELSE {<<s.anyOf[i]>> : i \in Chosen(s.anyOf)}

\* MergeSchemas is called for a schema with allOf or anyOf, inside `calls`.
MergeSchemas(calls, s) ==
    CASE Len(calls) >= MaxMerging ->
           stack' = <<>> /\ merging' = <<>> /\ result' = Crash
      [] Len(calls) < MaxMerging /\ ~Has(s, "allOf") /\ ChoicePanics(s.anyOf) ->
           Return(Panic) /\ merging' = <<>>
      [] OTHER ->
           /\ \E members \in Members(s) :
                  merging' = Append(calls, [todo |-> members, merged |-> Empty])
           /\ UNCHANGED <<stack, result>>

GenerateCombined == Generates("combined") /\ MergeSchemas(<<>>, Top.schema)

Merging == merging # <<>> /\ UNCHANGED options

\* The innermost call of the merger, and the others.
Merger == merging[Len(merging)]
Outer  == SubSeq(merging, 1, Len(merging) - 1)

\* The last of `calls` has the schema of its next member: it merges it and has
\* the others to do.
TakeMember(calls, s) ==
    LET call == calls[Len(calls)]
    IN  IF MergePanics(s)
        THEN Return(Panic) /\ merging' = <<>>
        ELSE /\ merging' = [calls EXCEPT ![Len(calls)] =
                              [todo |-> Tail(call.todo), merged |-> Merge(call.merged, s)]]
             /\ UNCHANGED <<stack, result>>

MutantMergeMember ==
    /\ Merging
    /\ Merger.todo # <<>>
    /\ LET s == Schemas[Head(Merger.todo)]
       IN  IF Combining(s) THEN MergeSchemas(merging, Top.schema) ELSE TakeMember(merging, s)

\* One member: a combining one is merged by itself first; of oneOf any member is
\* taken as it is, even when it combines others.
MergeMember ==
    /\ Merging
    /\ Merger.todo # <<>>
    /\ LET s == Schemas[Head(Merger.todo)]
       IN  CASE ~Combining(s) -> TakeMember(merging, s)
             [] Has(s, "allOf") \/ Has(s, "anyOf") -> MergeSchemas(merging, s)
             [] OTHER -> IF s.oneOf = <<>>
                         THEN Return(Panic) /\ merging' = <<>>
                         ELSE \E i \in DOMAIN s.oneOf : TakeMember(merging, Schemas[s.oneOf[i]])

\* A call of the merger returns to the one around it, or to the generator,
\* which calls the chain for the merged schema (combinedSchemaGenerator.go).
MergeReturns ==
    /\ Merging
    /\ Merger.todo = <<>>
    /\ IF Outer = <<>>
       THEN /\ merging' = <<>>
            /\ Call(Now([Top EXCEPT !.phase = "pass"]), Merger.merged)
       ELSE TakeMember(Outer, Merger.merged)

-----------------------------------------------------------------------------
(* Arrays: arrayGenerationDelegator, regularArrayGenerator, uniqueArray- and *)
(* uniqueValueGenerator.go                                                   *)

\* The length does not depend on maxItems or maxProps (arrayLengthGenerator.go).
Length(min) == IF min < 1 THEN 1 ELSE min

MinItems(s) == Get(s, "minItems", 0)

GenerateArray ==
    /\ Generates("array")
    /\ LET s == Top.schema
       IN  IF ~Has(s, "unique") /\ Has(s, "x-empty")
           THEN Return(Ok(Array(<<Null>>)))
           ELSE Continue([Top EXCEPT !.phase = IF Has(s, "unique") THEN "unique" ELSE "item"])
    /\ UNCHANGED merging

NextItem ==
    /\ Working("item") \/ Working("unique")
    /\ CASE Len(Top.made) = Length(MinItems(Top.schema)) -> Return(Ok(Array(Top.made)))
         [] Len(Top.made) # Length(MinItems(Top.schema)) /\ ~Has(Top.schema, "items") -> Return(Panic)
         [] OTHER -> Call(stack, Schemas[Top.schema.items])
    /\ UNCHANGED <<options, merging>>

KeepItem ==
    /\ Returned("item")
    /\ Continue([Top EXCEPT !.made = Append(@, result.data)])
    /\ UNCHANGED <<options, merging>>

Repeated == \E i \in DOMAIN Top.made : Top.made[i] = result.data

MutantKeepUnique ==
    /\ Returned("unique")
    /\ ~Repeated \/ Top.tries + 1 = MaxAttempts
    /\ Continue([Top EXCEPT !.made = Append(@, result.data), !.tries = 0])
    /\ UNCHANGED <<options, merging>>

KeepUnique ==
    /\ Returned("unique")
    /\ ~Repeated
    /\ Continue([Top EXCEPT !.made = Append(@, result.data), !.tries = 0])
    /\ UNCHANGED <<options, merging>>

MutantRepeatUnique ==
    /\ Returned("unique")
    /\ Repeated
    /\ Continue(Top)
    /\ UNCHANGED <<options, merging>>

\* A value that is there already is drawn again, so many times.
RepeatUnique ==
    /\ Returned("unique")
    /\ Repeated
    /\ IF Top.tries + 1 < MaxAttempts
       THEN Continue([Top EXCEPT !.tries = @ + 1])
       ELSE result' = AttemptsExceeded /\ UNCHANGED stack
    /\ UNCHANGED <<options, merging>>

MutantEnough == Top.phase = "unique" /\ result.status = "attempts"

\* errors.Is does not tell the failure of this array from one inside an item.
Enough ==
    /\ Top.phase = "unique"
    /\ result.status = "attempts"
    /\ Len(Top.made) + 1 > MinItems(Top.schema)

ShortArray ==
    /\ stack # <<>>
    /\ Enough
    /\ Return(Ok(Array(Top.made)))
    /\ UNCHANGED <<options, merging>>

-----------------------------------------------------------------------------
(* Objects: objectGenerationDelegator and the three generators it has *)

IsHashMap(s) == Has(s, "additional") /\ Has(Schemas[s.additional], "type")

IsFreeForm(s) == Has(s, "additional") \/ Get(s, "allowed", FALSE)

Required(s) == Get(s, "required", <<>>)

Properties(s) == IF Has(s, "props") THEN DOMAIN s.props ELSE {}

\* Write-only properties are left out.
Shown(s) == {p \in Properties(s) : ~Has(Schemas[s.props[p]], "writeOnly")}

GenerateObject ==
    /\ Generates("object")
    /\ LET s == Top.schema
       IN  Continue([Top EXCEPT
             !.phase = IF IsHashMap(s) THEN "required" ELSE IF IsFreeForm(s) THEN "free" ELSE "property",
             !.todo  = IF IsFreeForm(s) THEN {} ELSE Shown(s),
             !.queue = IF IsHashMap(s) THEN Required(s) ELSE <<>>,
             !.made  = Empty])
    /\ UNCHANGED merging

\* A plain object: its properties in the order of a Go map.
NextProperty ==
    /\ Working("property")
    /\ IF Top.todo = {}
       THEN Return(Ok(Object(Top.made)))
       ELSE \E p \in Top.todo :
                Call(Now([Top EXCEPT !.name = p, !.todo = @ \ {p}]), Schemas[Top.schema.props[p]])
    /\ UNCHANGED <<options, merging>>

\* A hash map: the required properties, write-only or not, in their order; a
\* required name that is no property is a nil pointer.
NextRequired ==
    /\ Working("required")
    /\ CASE Top.queue = <<>> -> Continue([Top EXCEPT !.phase = "entry"])
         [] Top.queue # <<>> /\ Head(Top.queue) \notin Properties(Top.schema) -> Return(Panic)
         [] OTHER -> Call(Now([Top EXCEPT !.name = Head(Top.queue), !.queue = Tail(@)]),
                          Schemas[Top.schema.props[Head(Top.queue)]])
    /\ UNCHANGED <<options, merging>>

Size == Cardinality(DOMAIN Top.made)

MinProps(s) == Get(s, "minProps", 0)

\* The keys a new entry can have.
NewKeys ==
    IF Size < Length(MinProps(Top.schema)) THEN Keys \ DOMAIN Top.made ELSE {}

\* No entry is needed, or a thousand attempts gave only keys that are used.
NoNewKey ==
    \/ /\ Size >= Length(MinProps(Top.schema))
       /\ Return(Ok(Object(Top.made)))
    \/ /\ Size < Length(MinProps(Top.schema))
       /\ Keys \cap DOMAIN Top.made # {}
       /\ Return(IF Size + 1 > MinProps(Top.schema) THEN Ok(Object(Top.made)) ELSE AttemptsExceeded)

\* The rest of a hash map: values under new keys.
NextEntry ==
    /\ Working("entry")
    /\ \/ NoNewKey
       \/ \E k \in NewKeys : Call(Now([Top EXCEPT !.name = k]), Schemas[Top.schema.additional])
    /\ UNCHANGED <<options, merging>>

\* A free-form object: texts under new keys (freeFormGenerator.go).
NextFree ==
    /\ Working("free")
    /\ \/ NoNewKey
       \/ \E k \in NewKeys : Continue([Top EXCEPT !.made = With(@, k, [string |-> "lorem"])])
    /\ UNCHANGED <<options, merging>>

KeepField ==
    /\ Returned("property") \/ Returned("required") \/ Returned("entry")
    /\ Continue([Top EXCEPT !.made = With(@, Top.name, result.data)])
    /\ UNCHANGED <<options, merging>>

-----------------------------------------------------------------------------
(* A result that the top call hands on: the value of the part it delegated *)
(* to, or an error.                                                        *)

Propagate ==
    /\ stack # <<>>
    /\ Returned("pass") \/ (IsError(result) /\ ~Enough)
    /\ Return(result)
    /\ UNCHANGED <<options, merging>>

-----------------------------------------------------------------------------
(* GenerateData for a media type: its own examples first, and nothing else *)
(* if they are to be used exclusively (coordinatingMediaGenerator.go).      *)
(* `given` has the schema, or is empty.                                     *)

MutantGenerateData(media, given) ==
    IF options.useExamples # "no" /\ Has(media, "examples")
    THEN \E e \in media.examples : result' = Ok(e) /\ UNCHANGED stack
    ELSE \E s \in given : Call(<<>>, s)

GenerateData(media, given) ==
    CASE options.useExamples # "no" /\ Has(media, "examples") ->
           \E e \in media.examples : result' = Ok(e) /\ UNCHANGED stack
      [] ~Has(media, "examples") /\ options.useExamples = "exclusively" ->
           result' = Ok(Null) /\ UNCHANGED stack
      [] OTHER ->
           IF given = {} THEN result' = Panic /\ UNCHANGED stack
           ELSE \E s \in given : Call(<<>>, s)

Generate ==
    \/ GenerateNull \/ TakeExample
    \/ \E type \in ScalarTypes : GenerateScalar(type)
    \/ GenerateUnsupported \/ GenerateOneOf
    \/ GenerateCombined \/ MergeMember \/ MergeReturns
    \/ GenerateArray \/ NextItem \/ KeepItem \/ KeepUnique \/ RepeatUnique \/ ShortArray
    \/ GenerateObject \/ NextProperty \/ NextRequired \/ NextEntry \/ NextFree \/ KeepField
    \/ Propagate
=============================================================================
