----------------------------- MODULE Conformance -----------------------------
(***************************************************************************)
(* What OpenAPI says of a value and its schema, stated without regard to   *)
(* how the generators work.  It is what the data of Response is compared   *)
(* with; where the two are known to differ, Misfit names the schema.       *)
(* Members that are combined by allOf are taken not to contradict each     *)
(* other.                                                                  *)
(***************************************************************************)
EXTENDS Response

\* A number keeps its bounds, is a multiple and one of its enum, where these are given.
NumberConforms(v, s) ==
    /\ InBounds(v, s)
    /\ Has(s, "multipleOf") => v % s.multipleOf = 0
    /\ Has(s, "enum") => \E i \in DOMAIN s.enum : v = s.enum[i]

\* The lengths of a text.
HasLength(n, s) == n >= MinLength(s) /\ (Has(s, "maxLength") => n <= s.maxLength)

StringConforms(d, s) ==
    CASE Has(s, "enum") -> \E i \in DOMAIN s.enum : d = [string |-> s.enum[i]]
      [] ~Has(s, "enum") /\ Has(s, "pattern") ->
             d = IF Has(s, "x-range") THEN [string |-> "range"] ELSE [matches |-> s.pattern]
      [] ~Has(s, "enum") /\ ~Has(s, "pattern") /\ Get(s, "format", "byte") # "byte" ->
             d = [format |-> s.format]
      [] OTHER -> DOMAIN d = {"text"} /\ HasLength(d.text[1], s)

\* Inside allOf an object has the properties of the other members as well.
RECURSIVE Conforms(_, _, _)

\* The type empty of YANG, which x-empty stands for, is an array of null.
ArrayConforms(d, s) ==
    IF Has(s, "x-empty") THEN d = Array(<<Null>>) ELSE
    /\ DOMAIN d = {"array"}
    /\ Len(d.array) >= MinItems(s)
    /\ \A i \in DOMAIN d.array : Conforms(d.array[i], Schemas[s.items], FALSE)
    /\ Has(s, "unique") => \A i, j \in DOMAIN d.array : i # j => d.array[i] # d.array[j]

\* Properties that are shown, or some others when they may be.
ObjectConforms(d, s, others) ==
    /\ DOMAIN d = {"object"}
    /\ Cardinality(DOMAIN d.object) >= MinProps(s)
    /\ \A p \in DOMAIN d.object :
           IF p \in Properties(s)
           THEN Conforms(d.object[p], Schemas[s.props[p]], FALSE) /\ ~Has(Schemas[s.props[p]], "writeOnly")
           ELSE /\ others \/ IsFreeForm(s)
                /\ IsHashMap(s) => Conforms(d.object[p], Schemas[s.additional], FALSE)
    /\ ~IsFreeForm(s) =>
           \A p \in Properties(s) : Has(Schemas[s.props[p]], "writeOnly") \/ p \in DOMAIN d.object

TypeConforms(d, s, others) ==
    LET type == IF Has(s, "type") THEN s.type ELSE IF Has(s, "props") THEN "object" ELSE "string"
    IN  CASE type = "integer" -> DOMAIN d = {"integer"} /\ NumberConforms(d.integer, s)
          [] type = "number"  -> DOMAIN d = {"number"} /\ NumberConforms(d.number, s)
          [] type = "boolean" -> d.boolean \in BOOLEAN
          [] type = "array"   -> ArrayConforms(d, s)
          [] type = "object"  -> ObjectConforms(d, s, others)
          [] type = "string"  -> StringConforms(d, s)
          [] OTHER            -> FALSE

Conforms(d, s, others) ==
    \/ d = Null /\ options.nulls /\ Has(s, "nullable")
    \/ options.useExamples # "no" /\ Has(s, "example") /\ d = s.example
    \/ CASE Has(s, "oneOf") ->
                s.oneOf = <<>> \/ \E i \in DOMAIN s.oneOf : Conforms(d, Schemas[s.oneOf[i]], others)
         [] ~Has(s, "oneOf") /\ Has(s, "allOf") ->
                \A i \in DOMAIN s.allOf : Conforms(d, Schemas[s.allOf[i]], TRUE)
         [] ~Has(s, "oneOf") /\ ~Has(s, "allOf") /\ Has(s, "anyOf") ->
                \E i \in DOMAIN s.anyOf : Conforms(d, Schemas[s.anyOf[i]], others)
         [] OTHER -> d # Null /\ TypeConforms(d, s, others)

-----------------------------------------------------------------------------
(* Properties *)

\* The request has data of a media type, and no error was suppressed.
Drawn == Done /\ result.status = "ok" /\ ~options.suppress /\ Has(Responses[Key], content)

\* Data is one of the examples, if these are to be used, or conforms to its schema.
RespectsSchema ==
    IF options.useExamples # "no" /\ Has(Responses[Key][content], "examples")
    THEN result.data \in Responses[Key][content].examples
    ELSE \/ options.useExamples = "exclusively" /\ result.data = Null
         \/ \E s \in Used : Conforms(result.data, s, FALSE)

\* An integer at a bound, or beside it, does not have the width of the machine.
BeyondWidth(s) ==
    \/ Has(s, "min") /\ s.min + 1 > MaxInt
    \/ Has(s, "max") /\ s.max - 1 < MinInt

\* A multiple is rounded after it was drawn, and a range of one value is not rounded.
\* What begins and ends with a multiple is not affected.
Rounded(s) ==
    /\ Has(s, "multipleOf")
    /\ \/ \E bound \in {"min", "max"} : Has(s, bound) /\ s[bound] % s.multipleOf # 0
       \/ \E excluded \in {"exclusiveMin", "exclusiveMax"} : Has(s, excluded)

\* What a schema can ask for and the generators are known not to give: multiples in
\* bounds that are none (integerGenerator.go:26-33, numberGenerator.go:26-34), integers
\* beyond the width (integerGenerator.go:46-61), numbers between excluded bounds
\* (numberGenerator.go:54-68), an enum of anything but strings (stringGenerator.go:40
\* alone reads it), a hash map without its write-only properties (hashMapGenerator.go:26).
Misfit(s) ==
    LET type == Get(s, "type", "string")
    IN  \/ Rounded(s)
        \/ type = "integer" /\ BeyondWidth(s)
        \/ type = "number" /\ (Has(s, "exclusiveMin") \/ Has(s, "exclusiveMax"))
        \/ type # "string" /\ Has(s, "enum")
        \/ IsHashMap(s) /\ \E i \in DOMAIN Required(s) :
               Required(s)[i] \in Properties(s) \ Shown(s)

\* What is generated without suppression of errors conforms to its schema, unless that
\* is one of the known misfits: unique items differ and are enough, scalars keep their
\* bounds, objects show what they have to and hide what is write-only, combined
\* schemas fit their members.
DataConforms ==
    Drawn /\ (\A s \in Used : ~Misfit(s)) => RespectsSchema

\* Data is generated for anyOf ("generation of combined types" is "supported",
\* README.md:26): the operations of the run have nothing else.
AnyOfGenerates == Done => result # Panic
=============================================================================
