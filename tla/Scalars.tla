------------------------------ MODULE Scalars ------------------------------
(***************************************************************************)
(* The generators of values without structure: integers, numbers, strings  *)
(* and booleans (internal/openapi/generator/data).  Each operator gives    *)
(* the set of the results the random choices of the generator can lead to. *)
(*                                                                         *)
(* The integers of Go have a width: MinInt .. MaxInt stands for int64.     *)
(* Numbers are on the grid of the integers.  A text is its length and one  *)
(* of Texts, which tell texts of one length apart.                         *)
(***************************************************************************)
EXTENDS Schemas

CONSTANTS
    MinInt, MaxInt,                     \* math.MinInt64, math.MaxInt64
    MaxInt32,                           \* math.MaxInt32
    DefaultMinInt, DefaultMaxInt,       \* Options of the generators
    DefaultMinFloat, DefaultMaxFloat,
    DefaultMaxLength,                   \* const.go
    Texts

ASSUME WidthAssumption ==
    /\ MaxInt \in Nat \ {0}
    /\ MinInt = -MaxInt - 1
    /\ {MaxInt32, DefaultMinInt, DefaultMaxInt} \subseteq MinInt .. MaxInt
    /\ {DefaultMinFloat, DefaultMaxFloat} \subseteq Int
    /\ DefaultMaxLength \in Nat \ {0}

-----------------------------------------------------------------------------
(* integerGenerator.go *)

\* A sum or difference of two integers, in the width of the machine.
Wrap(x) ==
    IF x > MaxInt THEN x - 2 * (MaxInt + 1)
    ELSE IF x < MinInt THEN x + 2 * (MaxInt + 1)
    ELSE x

\* int64(f): on amd64 a value out of range becomes the least integer.
ToInt(f) == IF f \in MinInt .. MaxInt THEN f ELSE MinInt

Minimum(s) ==
    LET given == IF Has(s, "min") THEN ToInt(s.min) ELSE DefaultMinInt
    IN  IF Has(s, "exclusiveMin") THEN Wrap(given + 1) ELSE given

\* A maximum beyond the width is noticed, a minimum is not.
Maximum(s) ==
    LET given == IF ~Has(s, "max")
                 THEN IF Get(s, "format", "") = "int32" /\ DefaultMaxInt > MaxInt32
                      THEN MaxInt32 ELSE DefaultMaxInt
                 ELSE IF s.max > 0 /\ ToInt(s.max) < 0 THEN MaxInt ELSE ToInt(s.max)
    IN  IF Has(s, "exclusiveMax") THEN Wrap(given - 1) ELSE given

\* The integers at the bounds that are given, or beside them, have the width.
BoundsFit(s) ==
    /\ Has(s, "min") => {s.min, s.min + 1} \subseteq MinInt .. MaxInt
    /\ Has(s, "max") => {s.max, s.max - 1} \subseteq MinInt .. MaxInt

\* The argument of Int63n, which panics when it is not positive.
Spread(minimum, maximum) ==
    LET delta == Wrap(maximum - minimum)
    IN  IF delta < MaxInt THEN delta + 1 ELSE delta

InRange(minimum, maximum) ==
    {Wrap(r + minimum) : r \in 0 .. Spread(minimum, maximum) - 1}

\* The remainder of Go has the sign of the dividend.
Remainder(v, m) == IF v >= 0 THEN v % m ELSE -((-v) % m)

\* multipleOf is 0 for every fraction below 1, and a division by it panics.
Multiple(v, s) == IF Has(s, "multipleOf") THEN v - Remainder(v, s.multipleOf) ELSE v

IntegerResults(s) ==
    LET minimum == Minimum(s)
        maximum == Maximum(s)
    IN  CASE maximum < minimum -> {Failed}
          [] maximum = minimum -> {Ok([integer |-> minimum])}
          [] OTHER ->
               IF Spread(minimum, maximum) <= 0 \/ Get(s, "multipleOf", 1) = 0
               THEN {Panic}
               ELSE {Ok([integer |-> Multiple(v, s)]) : v \in InRange(minimum, maximum)}

-----------------------------------------------------------------------------
(* numberGenerator.go: the product of two fractions, spread over the range. *)
(* Rounding can give either bound, also one that is to be excluded.          *)

NumberResults(s) ==
    LET minimum == Get(s, "min", DefaultMinFloat)
        maximum == Get(s, "max", DefaultMaxFloat)
        Floor(v) == IF Has(s, "multipleOf") THEN (v \div s.multipleOf) * s.multipleOf ELSE v
    IN  CASE maximum < minimum -> {Failed}
          [] maximum = minimum -> {Ok([number |-> minimum])}
          [] OTHER -> {Ok([number |-> Floor(v)]) : v \in minimum .. maximum}

-----------------------------------------------------------------------------
(* textGenerator.go, rangedTextGenerator.go and base64Generator.go *)

TextOf(lengths) == {Ok([text |-> <<n, t>>]) : n \in lengths, t \in Texts}

MinLength(s) == Get(s, "minLength", 0)

\* The greatest length of a text: a default beside the least length, or less
\* if the schema says so.
TextLimit(s) ==
    LET limit == IF MinLength(s) < DefaultMaxLength THEN DefaultMaxLength
                 ELSE MinLength(s) + DefaultMaxLength
    IN  IF Has(s, "maxLength") /\ limit > s.maxLength THEN s.maxLength ELSE limit

TextResults(s) ==
    IF TextLimit(s) < MinLength(s) THEN {Failed}
    ELSE TextOf(MinLength(s) .. TextLimit(s))

\* The length of n bytes in base64.
Encoded(n) == 4 * ((n + 2) \div 3)

\* A limit of raw bytes: three quarters, less one, at least none.
Raw(length) == IF (length * 3) \div 4 = 0 THEN 0 ELSE (length * 3) \div 4 - 1

\* A text of random length in the limits of raw bytes is encoded, and replaced by
\* one of the greatest length when that does not fit.
Base64Lengths(min, max) ==
    {IF Encoded(n) \in min .. max THEN Encoded(n) ELSE max : n \in Raw(min) .. Raw(max)}

\* Intn panics when the limits of the raw bytes are the wrong way round.
Base64Results(min, given) ==
    LET max == IF given = 0 THEN DefaultMaxLength ELSE given
    IN  CASE given = 1 -> TextOf({1})
          [] given # 1 /\ Raw(min) > Raw(max) -> {Panic}
          [] OTHER -> TextOf(Base64Lengths(min, max))

-----------------------------------------------------------------------------
(* stringGenerator.go and formattedStringGenerators.go *)

Formats == {"date", "date-time", "email", "uri", "hostname", "ipv4", "ipv6", "uuid", "html"}

\* A pattern may start with several lookaheads, of which the first is used;
\* with one alone the index of the second is -1, and slicing panics.
PatternResults(pattern) ==
    CASE pattern = "invalid" -> {Failed}
      [] pattern = "lookahead" -> {Panic}
      [] OTHER -> {Ok([matches |-> pattern])}

\* The extensions of a string that stands for a number: what is no JSON is an
\* error, what is missing or of another type ends in a panic.
RangeResults(extensions) ==
    CASE extensions = "valid" -> {Ok([string |-> "range"])}
      [] extensions = "unreadable" -> {Failed}
      [] OTHER -> {Panic}

StringResults(s) ==
    LET format == Get(s, "format", "")
    IN  CASE Has(s, "enum") -> {Ok([string |-> s.enum[i]]) : i \in DOMAIN s.enum}
          [] ~Has(s, "enum") /\ Has(s, "pattern") /\ format # "byte" ->
               IF Has(s, "x-range") THEN RangeResults(s["x-range"]) ELSE PatternResults(s.pattern)
          [] ~Has(s, "enum") /\ format = "byte" ->
               Base64Results(MinLength(s), Get(s, "maxLength", DefaultMaxLength))
          [] ~Has(s, "enum") /\ ~Has(s, "pattern") /\ format \in Formats -> {Ok([format |-> format])}
          [] OTHER -> TextResults(s)

BooleanResults == {Ok([boolean |-> b]) : b \in BOOLEAN}

ScalarTypes == {"string", "boolean", "integer", "number", ""}

\* An empty type is that of anydata, which gives a string.
ScalarResults(type, s) ==
    CASE type \in {"string", ""} -> StringResults(s)
      [] type = "boolean" -> BooleanResults
      [] type = "integer" -> IntegerResults(s)
      [] type = "number"  -> NumberResults(s)
=============================================================================
