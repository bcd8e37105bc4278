----------------------------- MODULE DataProofs -----------------------------
(***************************************************************************)
(* What the generators promise for every width of the integers, every      *)
(* specification and every request: the runs look at a few bits and a few  *)
(* schemas.  First the scalars by themselves, then whole data: a call      *)
(* keeps its parts fit for the schemas they are for, and what it returns   *)
(* fits the schema the call below waits for.                               *)
(***************************************************************************)
EXTENDS ResponseProofs, Fitting

\* The numbers a schema gives, as the library parses them.
IsNumeric(s) ==
    /\ \A a \in {"min", "max"} : Has(s, a) => s[a] \in Int
    /\ Has(s, "multipleOf") => s.multipleOf \in Nat
    /\ \A a \in {"minLength", "maxLength"} : Has(s, a) => s[a] \in Nat

Machine == MinInt .. MaxInt

-----------------------------------------------------------------------------
(* Integers *)

LEMMA WrapInWidth ==
    ASSUME NEW x \in (2 * MinInt) .. (2 * MaxInt + 1)
    PROVE  Wrap(x) \in Machine
BY WidthAssumption DEF Wrap, Machine

LEMMA BoundsInWidth ==
    ASSUME NEW s, IsNumeric(s)
    PROVE  Minimum(s) \in Machine /\ Maximum(s) \in Machine
<1>1. ASSUME NEW f \in Int PROVE ToInt(f) \in Machine
  BY WidthAssumption DEF ToInt, Machine
<1>2. ASSUME NEW v \in Machine PROVE Wrap(v + 1) \in Machine /\ Wrap(v - 1) \in Machine
  BY WidthAssumption, <1>2 DEF Wrap, Machine
<1>3. {DefaultMinInt, DefaultMaxInt, MaxInt32, MaxInt} \subseteq Machine
  BY WidthAssumption DEF Machine
<1>4. Minimum(s) \in Machine
  <2>1. (IF Has(s, "min") THEN ToInt(s.min) ELSE DefaultMinInt) \in Machine
    BY <1>1, <1>3 DEF IsNumeric
  <2> QED
    BY <1>2, <2>1 DEF Minimum
<1>5. Maximum(s) \in Machine
  <2> DEFINE given == IF ~Has(s, "max")
                      THEN IF Get(s, "format", "") = "int32" /\ DefaultMaxInt > MaxInt32
                           THEN MaxInt32 ELSE DefaultMaxInt
                      ELSE IF s.max > 0 /\ ToInt(s.max) < 0 THEN MaxInt ELSE ToInt(s.max)
  <2>1. given \in Machine
    BY <1>1, <1>3 DEF IsNumeric
  <2>2. Maximum(s) = IF Has(s, "exclusiveMax") THEN Wrap(given - 1) ELSE given
    BY DEF Maximum
  <2> HIDE DEF given
  <2> QED
    BY <1>2, <2>1, <2>2
<1> QED
  BY <1>4, <1>5

\* The spread is positive as long as the difference of the bounds has the width.
LEMMA SpreadFits ==
    ASSUME NEW minimum \in Machine, NEW maximum \in Machine, minimum < maximum
    PROVE  /\ maximum - minimum <= MaxInt =>
                  Spread(minimum, maximum) \in 1 .. (maximum - minimum + 1)
           /\ maximum - minimum > MaxInt => Spread(minimum, maximum) <= 0
<1> DEFINE delta == Wrap(maximum - minimum)
<1>1. CASE maximum - minimum <= MaxInt
  <2>1. delta = maximum - minimum
    BY <1>1, WidthAssumption DEF Wrap, Machine
  <2> QED
    BY <1>1, <2>1, WidthAssumption DEF Spread, Machine
<1>2. CASE maximum - minimum > MaxInt
  <2>1. delta = maximum - minimum - 2 * (MaxInt + 1) /\ delta < 0
    BY <1>2, WidthAssumption DEF Wrap, Machine
  <2> QED
    BY <1>2, <2>1, WidthAssumption DEF Spread, Machine
<1> QED
  BY <1>1, <1>2, WidthAssumption DEF Machine

LEMMA DrawnInRange ==
    ASSUME NEW minimum \in Machine, NEW maximum \in Machine, minimum < maximum,
           maximum - minimum <= MaxInt, NEW v \in InRange(minimum, maximum)
    PROVE  v \in minimum .. maximum
<1>1. PICK r \in 0 .. Spread(minimum, maximum) - 1 : v = Wrap(r + minimum)
  BY DEF InRange
<1>2. Spread(minimum, maximum) \in 1 .. (maximum - minimum + 1)
  BY SpreadFits
<1>3. r + minimum \in minimum .. maximum
  BY <1>1, <1>2 DEF Machine
<1> QED
  BY <1>1, <1>3, WidthAssumption DEF Wrap, Machine

\* Bounds that have the width, and their neighbours too, are computed without
\* overflow: the range is that of the schema.
LEMMA BoundsAsGiven ==
    ASSUME NEW s, IsNumeric(s), BoundsFit(s)
    PROVE  /\ Has(s, "min") =>
                  Minimum(s) = IF Has(s, "exclusiveMin") THEN s.min + 1 ELSE s.min
           /\ Has(s, "max") =>
                  Maximum(s) = IF Has(s, "exclusiveMax") THEN s.max - 1 ELSE s.max
<1>1. ASSUME Has(s, "min")
      PROVE  Minimum(s) = IF Has(s, "exclusiveMin") THEN s.min + 1 ELSE s.min
  <2>1. ToInt(s.min) = s.min /\ Wrap(s.min + 1) = s.min + 1
    BY <1>1, WidthAssumption DEF BoundsFit, IsNumeric, ToInt, Wrap
  <2> QED
    BY <1>1, <2>1 DEF Minimum
<1>2. ASSUME Has(s, "max")
      PROVE  Maximum(s) = IF Has(s, "exclusiveMax") THEN s.max - 1 ELSE s.max
  <2>1. s.max \in Int /\ ToInt(s.max) = s.max /\ Wrap(s.max - 1) = s.max - 1
    BY <1>2, WidthAssumption DEF BoundsFit, IsNumeric, ToInt, Wrap
  <2>2. ~(s.max > 0 /\ ToInt(s.max) < 0)
    BY <2>1
  <2> QED
    BY <1>2, <2>1, <2>2 DEF Maximum
<1> QED
  BY <1>1, <1>2

LEMMA RangeIsGiven ==
    ASSUME NEW s, IsNumeric(s), BoundsFit(s)
    PROVE  /\ \A v \in Minimum(s) .. Maximum(s) : InBounds(v, s)
           /\ Has(s, "min") /\ Has(s, "max") =>
                  \A v \in Int : InBounds(v, s) => v \in Minimum(s) .. Maximum(s)
<1>1. Minimum(s) \in Int /\ Maximum(s) \in Int
  BY BoundsInWidth, WidthAssumption DEF Machine
<1>2. (Has(s, "min") => s.min \in Int) /\ (Has(s, "max") => s.max \in Int)
  BY DEF IsNumeric
<1> QED
  BY <1>1, <1>2, BoundsAsGiven DEF InBounds

\* What is drawn is in the range that was computed.
LEMMA DrawnOrRefused ==
    ASSUME NEW s, IsNumeric(s), ~Has(s, "multipleOf"), NEW r \in IntegerResults(s)
    PROVE  \/ r = Failed /\ Maximum(s) < Minimum(s)
           \/ r = Panic /\ Maximum(s) - Minimum(s) > MaxInt
           \/ \E v \in Minimum(s) .. Maximum(s) : r = Ok([integer |-> v])
<1> DEFINE minimum == Minimum(s)
           maximum == Maximum(s)
<1>1. minimum \in Machine /\ maximum \in Machine
  BY BoundsInWidth
<1>2. minimum \in Int /\ maximum \in Int
  BY <1>1, WidthAssumption DEF Machine
<1>3. r \in CASE maximum < minimum -> {Failed}
              [] maximum = minimum -> {Ok([integer |-> minimum])}
              [] OTHER ->
                   IF Spread(minimum, maximum) <= 0 \/ Get(s, "multipleOf", 1) = 0
                   THEN {Panic}
                   ELSE {Ok([integer |-> Multiple(v, s)]) : v \in InRange(minimum, maximum)}
  BY DEF IntegerResults
<1> HIDE DEF minimum, maximum
<1>4. CASE maximum < minimum
  <2>1. r = Failed
    BY <1>2, <1>3, <1>4
  <2> QED
    BY <1>4, <2>1 DEF minimum, maximum
<1>5. CASE maximum = minimum
  <2>1. r = Ok([integer |-> minimum])
    BY <1>2, <1>3, <1>5
  <2> QED
    BY <1>2, <1>5, <2>1 DEF minimum, maximum
<1>6. CASE minimum < maximum
  <2>1. Get(s, "multipleOf", 1) = 1
    BY DEF Get
  <2>2. r \in IF Spread(minimum, maximum) <= 0 THEN {Panic}
              ELSE {Ok([integer |-> Multiple(v, s)]) : v \in InRange(minimum, maximum)}
    BY <1>2, <1>3, <1>6, <2>1
  <2>3. CASE maximum - minimum > MaxInt
    <3>1. r = Panic
      BY <1>1, <1>6, <2>2, <2>3, SpreadFits
    <3> QED
      BY <2>3, <3>1 DEF minimum, maximum
  <2>4. CASE ~(maximum - minimum > MaxInt)
    <3>1. maximum - minimum <= MaxInt
      BY <1>2, <2>4, WidthAssumption
    <3>2. Spread(minimum, maximum) \in 1 .. (maximum - minimum + 1)
      BY <1>1, <1>6, <3>1, SpreadFits
    <3>3. PICK v \in InRange(minimum, maximum) : r = Ok([integer |-> Multiple(v, s)])
      BY <1>2, <2>2, <3>2
    <3>4. v \in minimum .. maximum /\ Multiple(v, s) = v
      BY <1>1, <1>6, <3>1, DrawnInRange DEF Multiple
    <3> QED
      BY <3>3, <3>4 DEF minimum, maximum
  <2> QED
    BY <2>3, <2>4
<1> QED
  BY <1>2, <1>4, <1>5, <1>6

\* An integer that is generated keeps the bounds of its schema, if these have the
\* width; the generator fails only when they, or a bound and the default of the
\* other, leave no integer, and panics only when they are too far apart
\* (integerGenerator.go).  Bounds without the width are computed with an overflow,
\* and nothing is said of them.
THEOREM IntegersInRange ==
    ASSUME NEW s, IsNumeric(s), BoundsFit(s), ~Has(s, "multipleOf"), NEW r \in IntegerResults(s)
    PROVE  \/ /\ r = Failed
              /\ Maximum(s) < Minimum(s)
              /\ Has(s, "min") /\ Has(s, "max") => \A v \in Int : ~InBounds(v, s)
           \/ r = Panic /\ Maximum(s) - Minimum(s) > MaxInt
           \/ \E v \in Machine : r = Ok([integer |-> v]) /\ InBounds(v, s)
<1>1. \/ r = Failed /\ Maximum(s) < Minimum(s)
      \/ r = Panic /\ Maximum(s) - Minimum(s) > MaxInt
      \/ \E v \in Minimum(s) .. Maximum(s) : r = Ok([integer |-> v])
  BY DrawnOrRefused
<1>2. Minimum(s) \in Machine /\ Maximum(s) \in Machine
  BY BoundsInWidth
<1>3. CASE r = Failed /\ Maximum(s) < Minimum(s)
  <2>1. \A v \in Int : v \notin Minimum(s) .. Maximum(s)
    BY <1>2, <1>3, WidthAssumption DEF Machine
  <2> QED
    BY <1>3, <2>1, RangeIsGiven
<1>4. CASE \E v \in Minimum(s) .. Maximum(s) : r = Ok([integer |-> v])
  <2>1. PICK v \in Minimum(s) .. Maximum(s) : r = Ok([integer |-> v])
    BY <1>4
  <2>2. v \in Machine
    BY <1>2, WidthAssumption DEF Machine
  <2> QED
    BY <2>1, <2>2, RangeIsGiven
<1> QED
  BY <1>1, <1>3, <1>4

\* Rounding down to a multiple.
LEMMA MultiplesNearRange ==
    ASSUME NEW s, IsNumeric(s), NEW m \in Nat \ {0}, NEW minimum \in Nat, NEW maximum \in Int,
           NEW v \in minimum .. maximum, Has(s, "multipleOf"), s.multipleOf = m
    PROVE  /\ Multiple(v, s) % m = 0
           /\ Multiple(v, s) \in (minimum - m + 1) .. maximum
           /\ minimum % m = 0 => Multiple(v, s) >= minimum
<1>1. v \in Nat /\ v >= minimum /\ v <= maximum
  OBVIOUS
<1>2. Multiple(v, s) = v - (v % m)
  BY <1>1 DEF Multiple, Remainder
<1>3. v % m \in 0 .. m - 1
  BY <1>1
<1>4. (v - (v % m)) % m = 0
  BY <1>1
<1>5. ASSUME minimum % m = 0 PROVE v - (v % m) >= minimum
  <2> DEFINE p == minimum \div m
             q == v \div m
  <2>1. minimum = p * m /\ p \in Nat
    BY <1>5
  <2>2. v - (v % m) = q * m /\ q \in Nat
    BY <1>1
  <2>3. p <= q
    BY <1>1
  <2> HIDE DEF p, q
  <2> QED
    BY <2>1, <2>2, <2>3
<1> QED
  BY <1>1, <1>2, <1>3, <1>4, <1>5

\* A range of several naturals gives multiples that are not above it, and below it by
\* less than multipleOf: the value is rounded down after it was drawn.
LEMMA MultiplesDrawn ==
    ASSUME NEW s, IsNumeric(s), NEW m \in Nat \ {0}, Has(s, "multipleOf"), s.multipleOf = m,
           0 <= Minimum(s), Minimum(s) < Maximum(s), NEW r \in IntegerResults(s)
    PROVE  \E i \in Int :
             /\ r = Ok([integer |-> i])
             /\ i % m = 0
             /\ i \in (Minimum(s) - m + 1) .. Maximum(s)
             /\ Minimum(s) % m = 0 => i >= Minimum(s)
<1> DEFINE minimum == Minimum(s)
           maximum == Maximum(s)
<1>1. minimum \in Machine /\ maximum \in Machine
  BY BoundsInWidth
<1>2. r \in CASE maximum < minimum -> {Failed}
              [] maximum = minimum -> {Ok([integer |-> minimum])}
              [] OTHER ->
                   IF Spread(minimum, maximum) <= 0 \/ Get(s, "multipleOf", 1) = 0
                   THEN {Panic}
                   ELSE {Ok([integer |-> Multiple(v, s)]) : v \in InRange(minimum, maximum)}
  BY DEF IntegerResults
<1>3. 0 <= minimum /\ minimum < maximum
  OBVIOUS
<1> HIDE DEF minimum, maximum
<1>4. minimum \in Nat /\ maximum \in Int /\ maximum - minimum <= MaxInt
  BY <1>1, <1>3, WidthAssumption DEF Machine
<1>5. Spread(minimum, maximum) \in 1 .. (maximum - minimum + 1)
  BY <1>1, <1>3, <1>4, SpreadFits
<1>6. Get(s, "multipleOf", 1) = m
  BY DEF Get
<1>7. PICK v \in InRange(minimum, maximum) : r = Ok([integer |-> Multiple(v, s)])
  BY <1>2, <1>3, <1>4, <1>5, <1>6
<1>8. v \in minimum .. maximum
  BY <1>1, <1>3, <1>4, DrawnInRange
<1>9. /\ Multiple(v, s) % m = 0
      /\ Multiple(v, s) \in (minimum - m + 1) .. maximum
      /\ minimum % m = 0 => Multiple(v, s) >= minimum
  BY <1>4, <1>8, MultiplesNearRange
<1> QED
  BY <1>7, <1>9 DEF minimum, maximum

\* With multipleOf and a range of naturals the generator does not fail or panic.  A
\* range of several gives multiples, which can miss its least integer by less than
\* multipleOf (integerGenerator.go:33); a range of one gives that one, multiple or not
\* (lines 26-27).  A range that begins with a multiple always gives what the schema
\* asks for.
THEOREM MultiplesGenerated ==
    ASSUME NEW s, IsNumeric(s), NEW m \in Nat \ {0}, Has(s, "multipleOf"), s.multipleOf = m,
           0 <= Minimum(s), Minimum(s) <= Maximum(s), NEW r \in IntegerResults(s)
    PROVE  \E i \in Int :
             /\ r = Ok([integer |-> i])
             /\ i \in (Minimum(s) - m + 1) .. Maximum(s)
             /\ IF Minimum(s) = Maximum(s) THEN i = Minimum(s) ELSE i % m = 0
             /\ BoundsFit(s) /\ Minimum(s) % m = 0 => i % m = 0 /\ InBounds(i, s)
<1>1. Minimum(s) \in Int /\ Maximum(s) \in Int
  BY BoundsInWidth, WidthAssumption DEF Machine
<1>2. CASE Minimum(s) = Maximum(s)
  <2>1. r = Ok([integer |-> Minimum(s)])
    BY <1>1, <1>2 DEF IntegerResults
  <2>2. Minimum(s) \in (Minimum(s) - m + 1) .. Maximum(s)
    BY <1>1, <1>2
  <2>3. BoundsFit(s) => InBounds(Minimum(s), s)
    BY <1>1, <1>2, RangeIsGiven
  <2> QED
    BY <1>1, <1>2, <2>1, <2>2, <2>3
<1>3. CASE Minimum(s) < Maximum(s)
  <2>1. PICK i \in Int : /\ r = Ok([integer |-> i])
                         /\ i % m = 0
                         /\ i \in (Minimum(s) - m + 1) .. Maximum(s)
                         /\ Minimum(s) % m = 0 => i >= Minimum(s)
    BY <1>3, MultiplesDrawn
  <2>2. ASSUME BoundsFit(s), Minimum(s) % m = 0 PROVE InBounds(i, s)
    <3>1. i \in Minimum(s) .. Maximum(s)
      BY <1>1, <2>1, <2>2
    <3> QED
      BY <2>2, <3>1, RangeIsGiven
  <2>3. Minimum(s) # Maximum(s)
    BY <1>1, <1>3
  <2> QED
    BY <2>1, <2>2, <2>3
<1> QED
  BY <1>1, <1>2, <1>3

-----------------------------------------------------------------------------
(* Texts *)

LEMMA OneText ==
    ASSUME NEW lengths, NEW r \in TextOf(lengths)
    PROVE  \E n \in lengths, t \in Texts : r = Ok([text |-> <<n, t>>])
BY DEF TextOf

\* A text has a length the schema allows, or the generator fails because none does
\* (textGenerator.go, rangedTextGenerator.go).
THEOREM TextsFit ==
    ASSUME NEW s, IsNumeric(s), NEW r \in TextResults(s)
    PROVE  \/ r = Failed /\ Has(s, "maxLength") /\ s.maxLength < MinLength(s)
           \/ \E n \in Nat, t \in Texts :
                 /\ r = Ok([text |-> <<n, t>>])
                 /\ MinLength(s) <= n
                 /\ Has(s, "maxLength") => n <= s.maxLength
<1>1. MinLength(s) \in Nat
  BY DEF MinLength, Get, IsNumeric
<1>2. TextLimit(s) \in Nat /\ (Has(s, "maxLength") => TextLimit(s) <= s.maxLength)
  BY <1>1, WidthAssumption DEF TextLimit, IsNumeric
<1>3. CASE TextLimit(s) < MinLength(s)
  <2>1. r = Failed
    BY <1>3 DEF TextResults
  <2>2. Has(s, "maxLength") /\ s.maxLength < MinLength(s)
    BY <1>1, <1>3, WidthAssumption DEF TextLimit, IsNumeric
  <2> QED
    BY <2>1, <2>2
<1>4. CASE ~(TextLimit(s) < MinLength(s))
  <2>1. PICK n \in MinLength(s) .. TextLimit(s), t \in Texts : r = Ok([text |-> <<n, t>>])
    BY <1>4 DEF TextResults, TextOf
  <2>2. n \in Nat /\ MinLength(s) <= n /\ (Has(s, "maxLength") => n <= s.maxLength)
    BY <1>1, <1>2, <2>1 DEF IsNumeric
  <2> QED
    BY <2>1, <2>2
<1> QED
  BY <1>3, <1>4

\* Base64 never panics on limits that are the right way round, and its length is
\* within them (base64Generator.go).
THEOREM EncodedFits ==
    ASSUME NEW min \in Nat, NEW max \in Nat \ {0}, min <= max, NEW r \in Base64Results(min, max)
    PROVE  \E n \in min .. max, t \in Texts : r = Ok([text |-> <<n, t>>])
<1>1. CASE max = 1
  <2>0. PICK n \in {1}, t \in Texts : r = Ok([text |-> <<n, t>>])
    BY <1>1 DEF Base64Results, TextOf
  <2> QED
    BY <1>1, <2>0
<1>2. CASE max # 1
  <2>1. Raw(min) <= Raw(max)
    BY DEF Raw
  <2>2. Raw(min) \in Int /\ Raw(max) \in Int
    BY DEF Raw
  <2>3. r \in TextOf(Base64Lengths(min, max))
    BY <1>2, <2>1, <2>2 DEF Base64Results
  <2>4. PICK n \in Base64Lengths(min, max), t \in Texts : r = Ok([text |-> <<n, t>>])
    BY <2>3, OneText
  <2>5. n \in min .. max
    BY <2>4 DEF Base64Lengths
  <2> QED
    BY <2>4, <2>5
<1> QED
  BY <1>1, <1>2

-----------------------------------------------------------------------------
(* Data whose parts fit, fits. *)

LEMMA FittingGrows ==
    ASSUME NEW o, NEW d, NEW s, NEW pairs, NEW more, pairs \subseteq more, FitsBy(o, d, s, pairs)
    PROVE  FitsBy(o, d, s, more)
<1>1. CASE TypeOf(s) = "array" /\ ArrayFits(d, s, pairs)
  <2>1. ArrayFits(d, s, more)
    BY <1>1 DEF ArrayFits
  <2> QED
    BY <1>1, <2>1 DEF FitsBy
<1>2. CASE TypeOf(s) = "object" /\ ObjectFits(d, s, pairs)
  <2>1. PICK fields : /\ d = Object(fields) /\ ObjectFits(Object(fields), s, pairs)
    BY <1>2 DEF ObjectFits
  <2>2. ObjectFits(d, s, more)
    BY <1>2, Zenon DEF ObjectFits
  <2> QED
    BY <1>2, <2>2 DEF FitsBy
<1>3. CASE \/ TypeOf(s) = "oneOf" /\ \E i \in DOMAIN s.oneOf : <<d, Schemas[s.oneOf[i]]>> \in pairs
           \/ TypeOf(s) = "combined" /\ \E m : Combination(m, s) /\ <<d, m>> \in pairs
  BY <1>3 DEF FitsBy
<1> QED
  BY <1>1, <1>2, <1>3, Zenon DEF FitsBy

LEMMA PartsFit ==
    ASSUME NEW o, NEW d, NEW s, NEW parts, FitsBy(o, d, s, parts),
           \A part \in parts : \E pairs : ClosedFitting(o, pairs) /\ part \in pairs
    PROVE  Fits(o, d, s)
<1> DEFINE sets == {CHOOSE pairs : ClosedFitting(o, pairs) /\ part \in pairs : part \in parts}
           all == (UNION sets) \cup {<<d, s>>}
<1>1. (\A T \in sets : ClosedFitting(o, T)) /\ parts \subseteq UNION sets
  OBVIOUS
<1> HIDE DEF sets
<1>2. ASSUME NEW e, NEW t, <<e, t>> \in all PROVE FitsBy(o, e, t, all)
  <2>1. CASE <<e, t>> = <<d, s>>
    <3>1. e = d /\ t = s /\ parts \subseteq all
      BY <1>1, <2>1
    <3> HIDE DEF all
    <3> QED
      BY <3>1, FittingGrows
  <2>2. ASSUME NEW T \in sets, <<e, t>> \in T PROVE FitsBy(o, e, t, all)
    <3>1. ClosedFitting(o, T) /\ T \subseteq all
      BY <1>1
    <3> HIDE DEF all
    <3>2. FitsBy(o, e, t, T)
      BY <2>2, <3>1 DEF ClosedFitting
    <3> QED
      BY <3>1, <3>2, FittingGrows
  <2>3. <<e, t>> = <<d, s>> \/ \E T \in sets : <<e, t>> \in T
    BY <1>2
  <2> HIDE DEF all
  <2> QED
    BY <2>1, <2>2, <2>3
<1>3. <<d, s>> \in all
  OBVIOUS
<1> HIDE DEF all
<1> QED
  BY <1>2, <1>3 DEF Fits, ClosedFitting

LEMMA CombinationMade ==
    ASSUME NEW m, NEW s, NEW parts, MergedBy(m, s, parts),
           \A part \in parts : \E pairs : ClosedMerging(pairs) /\ part \in pairs
    PROVE  Combination(m, s)
<1> DEFINE sets == {CHOOSE pairs : ClosedMerging(pairs) /\ part \in pairs : part \in parts}
           all == (UNION sets) \cup {<<m, s>>}
<1>0. ASSUME NEW e, NEW t, NEW pairs, NEW more, pairs \subseteq more, MergedBy(e, t, pairs)
      PROVE  MergedBy(e, t, more)
  BY <1>0 DEF MergedBy, PartOf
<1>1. (\A T \in sets : ClosedMerging(T)) /\ parts \subseteq UNION sets
  OBVIOUS
<1> HIDE DEF sets
<1>2. ASSUME NEW e, NEW t, <<e, t>> \in all PROVE MergedBy(e, t, all)
  <2>1. CASE <<e, t>> = <<m, s>>
    <3>1. e = m /\ t = s /\ parts \subseteq all
      BY <1>1, <2>1
    <3> HIDE DEF all
    <3> QED
      BY <3>1, <1>0
  <2>2. ASSUME NEW T \in sets, <<e, t>> \in T PROVE MergedBy(e, t, all)
    <3>1. ClosedMerging(T) /\ T \subseteq all
      BY <1>1
    <3> HIDE DEF all
    <3>2. MergedBy(e, t, T)
      BY <2>2, <3>1 DEF ClosedMerging
    <3> QED
      BY <3>1, <3>2, <1>0
  <2>3. <<e, t>> = <<m, s>> \/ \E T \in sets : <<e, t>> \in T
    BY <1>2
  <2> HIDE DEF all
  <2> QED
    BY <2>1, <2>2, <2>3
<1>3. <<m, s>> \in all
  OBVIOUS
<1> HIDE DEF all
<1> QED
  BY <1>2, <1>3 DEF Combination, ClosedMerging

-----------------------------------------------------------------------------
(* The calls of the chain and what they wait for.                           *)

\* What a call has made fits, each part its schema.
MadeFits(o, call) ==
    /\ call.phase \in {"item", "unique"} =>
           /\ TypeOf(call.schema) = "array"
           /\ Has(call.schema, "unique") => call.phase = "unique"
           /\ \A i \in DOMAIN call.made :
                  Has(call.schema, "items") /\ Fits(o, call.made[i], Schemas[call.schema.items])
    /\ call.phase \in {"property", "required", "entry", "free"} => TypeOf(call.schema) = "object"
    /\ call.phase = "property" =>
           /\ ~IsFreeForm(call.schema)
           /\ \A p \in DOMAIN call.made :
                  p \in Shown(call.schema) /\ Fits(o, call.made[p], Schemas[call.schema.props[p]])
           /\ call.todo \subseteq Shown(call.schema)
    /\ call.phase \in {"required", "entry"} =>
           /\ IsHashMap(call.schema)
           /\ \A p \in DOMAIN call.made :
                  IF IsRequired(call.schema, p)
                  THEN p \in Properties(call.schema) /\ Fits(o, call.made[p], Schemas[call.schema.props[p]])
                  ELSE Fits(o, call.made[p], Schemas[call.schema.additional])
    /\ call.phase = "required" => \A i \in DOMAIN call.queue : IsRequired(call.schema, call.queue[i])
    /\ call.phase = "free" =>
           /\ IsFreeForm(call.schema) /\ ~IsHashMap(call.schema)
           /\ \A p \in DOMAIN call.made : call.made[p] = [string |-> "lorem"]

\* A call waits for data that fits s.
Awaits(call, s) ==
    \/ call.phase \in {"item", "unique"} /\ Has(call.schema, "items") /\ s = Schemas[call.schema.items]
    \/ call.phase = "property" /\ call.name \in Shown(call.schema) /\ s = Schemas[call.schema.props[call.name]]
    \/ /\ call.phase = "required"
       /\ call.name \in Properties(call.schema)
       /\ IsRequired(call.schema, call.name)
       /\ s = Schemas[call.schema.props[call.name]]
    \/ call.phase = "entry" /\ ~IsRequired(call.schema, call.name) /\ s = Schemas[call.schema.additional]
    \/ /\ call.phase = "pass"
       /\ \/ TypeOf(call.schema) = "oneOf" /\ \E i \in DOMAIN call.schema.oneOf : s = Schemas[call.schema.oneOf[i]]
          \/ TypeOf(call.schema) = "combined" /\ Combination(s, call.schema)

\* Each call is for the schema that the one below waits for, the first for one of root.
Linked(o, calls, root) ==
    /\ IsSequence(calls)
    /\ \A i \in 1 .. Len(calls) : MadeFits(o, calls[i])
    /\ \A i \in 1 .. Len(calls) - 1 : Awaits(calls[i], calls[i + 1].schema)
    /\ Len(calls) # 0 => calls[1].schema \in root

FitCalls(root) ==
    /\ Linked(options, stack, root)
    /\ stack # <<>> /\ result.status = "ok" => \E s : Awaits(Top, s) /\ Fits(options, result.data, s)

\* What a step of the chain does to them.
FitStep(root) ==
    /\ options' = options
    /\ \/ \E r : (r.status = "ok" => Fits(options, r.data, Top.schema)) /\ Return(r)
       \/ \E calling, s : /\ Linked(options, calling, root) /\ calling # <<>>
                          /\ Awaits(calling[Len(calling)], s)
                          /\ Call(calling, s)
       \/ \E call : call.schema = Top.schema /\ MadeFits(options, call) /\ Continue(call)
       \/ stack' = stack /\ (result' = result \/ result'.status # "ok")
       \/ stack' = <<>> /\ result'.status # "ok"

LEMMA AppendElements ==
    ASSUME NEW s, IsSequence(s), NEW x
    PROVE  /\ Append(s, x)[Len(s) + 1] = x
           /\ \A i \in 1 .. Len(s) : Append(s, x)[i] = s[i]
<1>1. PICK S : s \in Seq(S)
  BY DEF IsSequence
<1>2. s \in Seq(S \cup {x})
  BY <1>1
<1> QED
  BY <1>2, AppendProperties

LEMMA FrontElements ==
    ASSUME NEW s, IsSequence(s), s # <<>>
    PROVE  \A i \in 1 .. Len(s) - 1 : SubSeq(s, 1, Len(s) - 1)[i] = s[i]
<1> DEFINE n == Len(s) - 1
<1>1. PICK S : s \in Seq(S)
  BY DEF IsSequence
<1>2. n \in Nat
  BY <1>1
<1>3. \A i \in 1 .. n : s[i] \in S
  BY <1>1, <1>2, ElementOfSeq
<1> HIDE DEF n
<1>4. \A i \in 1 .. n - 1 + 1 : SubSeq(s, 1, n)[i] = s[1 + i - 1]
  BY <1>2, <1>3, SubSeqProperties
<1>5. \A i \in 1 .. n : SubSeq(s, 1, n)[i] = s[i]
  BY <1>2, <1>4
<1> QED
  BY <1>5 DEF n

LEMMA LinkedAppend ==
    ASSUME NEW o, NEW root, NEW calls, Linked(o, calls, root), NEW call, MadeFits(o, call),
           IF calls = <<>> THEN call.schema \in root ELSE Awaits(calls[Len(calls)], call.schema)
    PROVE  Linked(o, Append(calls, call), root)
<1> DEFINE t == Append(calls, call)
           n == Len(calls)
<1>0. IsSequence(calls) /\ n \in Nat
  <2>1. PICK S : calls \in Seq(S)
    BY DEF Linked, IsSequence
  <2> QED
    BY <2>1 DEF Linked
<1>1. IsSequence(calls) /\ IsSequence(t) /\ Len(t) = n + 1 /\ n \in Nat
  BY <1>0, AppendSequence
<1>2. t[n + 1] = call /\ \A i \in 1 .. n : t[i] = calls[i]
  BY <1>1, AppendElements
<1>3. n = 0 <=> calls = <<>>
  BY <1>1, EmptySeq DEF IsSequence
<1>4. /\ \A i \in 1 .. n : MadeFits(o, calls[i])
      /\ \A i \in 1 .. n - 1 : Awaits(calls[i], calls[i + 1].schema)
      /\ n # 0 => calls[1].schema \in root /\ Awaits(calls[n], call.schema)
  BY <1>3 DEF Linked
<1>5. n = 0 => call.schema \in root
  BY <1>3
<1> HIDE DEF t, n
<1>6. \A i \in 1 .. n + 1 : MadeFits(o, t[i])
  BY <1>1, <1>2, <1>4
<1>7. ASSUME NEW i \in 1 .. n PROVE Awaits(t[i], t[i + 1].schema)
  <2>1. CASE i = n
    BY <1>1, <1>2, <1>4, <2>1
  <2>2. CASE i # n
    <3>1. i \in 1 .. n - 1 /\ i + 1 \in 1 .. n
      BY <1>1, <2>2
    <3> QED
      BY <1>2, <1>4, <3>1
  <2> QED
    BY <2>1, <2>2
<1>8. t[1].schema \in root
  <2>1. CASE n = 0
    BY <1>2, <1>5, <2>1
  <2>2. CASE n # 0
    BY <1>1, <1>2, <1>4, <2>2
  <2> QED
    BY <2>1, <2>2
<1>9. Linked(o, t, root)
  BY <1>1, <1>6, <1>7, <1>8 DEF Linked
<1> QED
  BY <1>9 DEF t

LEMMA LinkedFront ==
    ASSUME NEW o, NEW root, NEW calls, Linked(o, calls, root), calls # <<>>
    PROVE  LET front == SubSeq(calls, 1, Len(calls) - 1)
               last  == calls[Len(calls)]
           IN  /\ Linked(o, front, root)
               /\ MadeFits(o, last)
               /\ IF front = <<>> THEN last.schema \in root ELSE Awaits(front[Len(front)], last.schema)
<1> DEFINE m == Len(calls) - 1
           front == SubSeq(calls, 1, m)
<1>1. IsSequence(calls) /\ IsSequence(front) /\ Len(front) = m /\ m \in Nat /\ Len(calls) = m + 1
  BY FrontSequence DEF Linked
<1>2. \A i \in 1 .. m : front[i] = calls[i]
  BY <1>1, FrontElements
<1>3. m = 0 <=> front = <<>>
  BY <1>1, EmptySeq DEF IsSequence
<1> HIDE DEF front, m
<1>4. /\ \A i \in 1 .. m + 1 : MadeFits(o, calls[i])
      /\ \A i \in 1 .. m : Awaits(calls[i], calls[i + 1].schema)
      /\ calls[1].schema \in root
  BY <1>1 DEF Linked
<1>5. \A i \in 1 .. m - 1 : i \in 1 .. m /\ i + 1 \in 1 .. m
  BY <1>1
<1>6. Linked(o, front, root)
  BY <1>1, <1>2, <1>4, <1>5 DEF Linked
<1>7. MadeFits(o, calls[m + 1])
  BY <1>1, <1>4
<1>8. IF front = <<>> THEN calls[m + 1].schema \in root ELSE Awaits(front[m], calls[m + 1].schema)
  <2>1. CASE m = 0
    BY <1>3, <1>4, <2>1
  <2>2. CASE m # 0
    BY <1>1, <1>2, <1>3, <1>4, <2>2
  <2> QED
    BY <2>1, <2>2
<1> QED
  BY <1>1, <1>6, <1>7, <1>8 DEF front, m

LEMMA EmptyLinked == ASSUME NEW o, NEW root PROVE Linked(o, <<>>, root)
BY EmptySequence DEF Linked

\* The top call and those below it.
LEMMA TopLinked ==
    ASSUME NEW root, FitCalls(root), stack # <<>>
    PROVE  /\ Linked(options, Below, root)
           /\ MadeFits(options, Top)
           /\ IF Below = <<>> THEN Top.schema \in root ELSE Awaits(Below[Len(Below)], Top.schema)
BY LinkedFront DEF FitCalls, Below, Top

\* The top call in another state.
LEMMA NowLinked ==
    ASSUME NEW root, FitCalls(root), CallsInv, stack # <<>>,
           NEW call, call.schema = Top.schema, MadeFits(options, call)
    PROVE  /\ Linked(options, Now(call), root)
           /\ Now(call) # <<>>
           /\ Now(call)[Len(Now(call))] = call
<1>1. Linked(options, Append(Below, call), root)
  BY TopLinked, LinkedAppend
<1> QED
  BY <1>1, NowTop DEF Now

\* A step of the chain keeps what was made fit, and data that is returned fits.
LEMMA FitStepKeeps ==
    ASSUME NEW root, FitCalls(root), CallsInv, stack # <<>>, FitStep(root)
    PROVE  /\ FitCalls(root)'
           /\ stack' = <<>> /\ result'.status = "ok" =>
                  \E s \in root : Fits(options', result'.data, s)
<1>0. options' = options
  BY DEF FitStep
<1>1. ASSUME NEW r, r.status = "ok" => Fits(options, r.data, Top.schema), Return(r)
      PROVE  /\ FitCalls(root)'
             /\ stack' = <<>> /\ result'.status = "ok" => \E s \in root : Fits(options, result'.data, s)
  <2>1. CASE r = Panic
    <3>1. stack' = <<>> /\ result'.status # "ok"
      BY <1>1, <2>1 DEF Return, Panic
    <3> QED
      BY <1>0, <3>1, EmptyLinked DEF FitCalls
  <2>2. CASE r # Panic
    <3>1. /\ stack' = Below
          /\ result' = IF IsError(r) /\ options.suppress THEN Ok(Default(Top.schema)) ELSE r
      BY <1>1, <2>2 DEF Return
    <3>2. ASSUME options.suppress PROVE Fits(options, Default(Top.schema), Top.schema)
      <4>1. FitsBy(options, Default(Top.schema), Top.schema, {})
        BY <3>2, Zenon DEF FitsBy
      <4> QED
        BY <4>1, PartsFit
    <3>3. result'.status = "ok" => Fits(options, result'.data, Top.schema)
      BY <1>1, <3>1, <3>2 DEF Ok
    <3>4. /\ Linked(options, Below, root)
          /\ IF Below = <<>> THEN Top.schema \in root ELSE Awaits(Below[Len(Below)], Top.schema)
      BY TopLinked
    <3>5. Linked(options', stack', root)
      BY <1>0, <3>1, <3>4
    <3>6. stack' # <<>> => Awaits(Top', Top.schema)
      BY <3>1, <3>4 DEF Top
    <3> QED
      BY <1>0, <3>1, <3>3, <3>4, <3>5, <3>6 DEF FitCalls
  <2> QED
    BY <2>1, <2>2
<1>2. ASSUME NEW calling, NEW s, Linked(options, calling, root), calling # <<>>,
             Awaits(calling[Len(calling)], s), Call(calling, s)
      PROVE  FitCalls(root)' /\ result'.status # "ok"
  <2>1. CASE Len(calling) >= MaxLevel
    <3>1. stack' = calling /\ result'.status # "ok"
      BY <1>2, <2>1 DEF Call, Failed
    <3> QED
      BY <1>0, <1>2, <3>1 DEF FitCalls
  <2>2. CASE ~(Len(calling) >= MaxLevel)
    <3>1. stack' = Append(calling, Frame(s)) /\ result'.status # "ok"
      BY <1>2, <2>2 DEF Call, NoResult
    <3>2. MadeFits(options, Frame(s)) /\ Frame(s).schema = s
      BY DEF MadeFits, Frame
    <3>3. Linked(options, Append(calling, Frame(s)), root)
      BY <1>2, <3>2, LinkedAppend
    <3> QED
      BY <1>0, <3>1, <3>3 DEF FitCalls
  <2> QED
    BY <2>1, <2>2
<1>3. ASSUME NEW call, call.schema = Top.schema, MadeFits(options, call), Continue(call)
      PROVE  FitCalls(root)' /\ result'.status # "ok"
  <2>1. stack' = Now(call) /\ result'.status # "ok"
    BY <1>3 DEF Continue, NoResult
  <2> QED
    BY <1>0, <1>3, <2>1, NowLinked DEF FitCalls
<1>4. ASSUME stack' = stack, result' = result \/ result'.status # "ok"
      PROVE  FitCalls(root)' /\ stack' # <<>>
  BY <1>0, <1>4 DEF FitCalls, Top
<1>5. ASSUME stack' = <<>>, result'.status # "ok"
      PROVE  FitCalls(root)'
  BY <1>0, <1>5, EmptyLinked DEF FitCalls
<1> QED
  BY <1>0, <1>1, <1>2, <1>3, <1>4, <1>5 DEF FitStep

-----------------------------------------------------------------------------
(* The actions of the chain as such steps. *)

LEMMA ErrorFits ==
    ASSUME NEW root, options' = options, NEW r, r.status # "ok", Return(r)
    PROVE  FitStep(root)
BY Zenon DEF FitStep

LEMMA AnswerFits ==
    ASSUME NEW root, options' = options, NEW d, Fits(options, d, Top.schema), Return(Ok(d))
    PROVE  FitStep(root)
<1>1. Ok(d).status = "ok" => Fits(options, Ok(d).data, Top.schema)
  BY DEF Ok
<1> QED
  BY <1>1, Zenon DEF FitStep

LEMMA LeafFits ==
    ASSUME NEW o, NEW d, NEW s, FitsBy(o, d, s, {})
    PROVE  Fits(o, d, s)
BY PartsFit

\* The top call in another state that calls the chain for what it waits for.
LEMMA CallFits ==
    ASSUME NEW root, FitCalls(root), CallsInv, stack # <<>>, options' = options,
           NEW call, call.schema = Top.schema, MadeFits(options, call),
           NEW s, Awaits(call, s), Call(Now(call), s)
    PROVE  FitStep(root)
<1>1. Linked(options, Now(call), root) /\ Now(call) # <<>> /\ Awaits(Now(call)[Len(Now(call))], s)
  BY NowLinked
<1> QED
  BY <1>1, Zenon DEF FitStep

LEMMA NullFits ==
    ASSUME NEW root, GenerateNull
    PROVE  FitStep(root)
<1>1. options' = options /\ Return(Ok(Null)) /\ options.nulls /\ Has(Top.schema, "nullable")
  BY DEF GenerateNull
<1>2. Fits(options, Null, Top.schema)
  BY <1>1, LeafFits DEF FitsBy
<1> QED
  BY <1>1, <1>2, AnswerFits

\* Without exclusive examples, the example that is taken is the schema's.
LEMMA ExampleFits ==
    ASSUME NEW root, OnlyExamples, TakeExample
    PROVE  FitStep(root)
<1>1. options' = options /\ UsesExample(Top.schema) /\ Return(Ok(Get(Top.schema, "example", Default(Top.schema))))
  BY DEF TakeExample, OnlyExamples, Entered
<1>2. Return(Ok(Top.schema.example))
  BY <1>1 DEF UsesExample, Get
<1>3. Fits(options, Top.schema.example, Top.schema)
  BY <1>1, LeafFits DEF FitsBy, UsesExample
<1> QED
  BY <1>1, <1>2, <1>3, AnswerFits

LEMMA ScalarFits ==
    ASSUME NEW root, NEW type \in ScalarTypes, GenerateScalar(type)
    PROVE  FitStep(root)
<1>1. options' = options /\ TypeOf(Top.schema) = type
  BY DEF GenerateScalar, Generates, Delegates
<1>2. PICK r \in ScalarResults(type, Top.schema) : Return(r)
  BY DEF GenerateScalar
<1>3. r.status = "ok" => Fits(options, r.data, Top.schema)
  <2>1. ASSUME r.status = "ok" PROVE FitsBy(options, r.data, Top.schema, {})
    BY <1>1, <2>1, Zenon DEF FitsBy
  <2> QED
    BY <2>1, LeafFits
<1> QED
  BY <1>1, <1>2, <1>3, Zenon DEF FitStep

LEMMA OneOfFits ==
    ASSUME NEW root, FitCalls(root), CallsInv, GenerateOneOf
    PROVE  FitStep(root)
<1> DEFINE members == Top.schema.oneOf
           call == [Top EXCEPT !.phase = "pass"]
<1>1. options' = options /\ stack # <<>> /\ TypeOf(Top.schema) = "oneOf"
  BY DEF GenerateOneOf, Generates, Delegates, Entered
<1>2. CASE members = <<>>
  <2>1. Return(Ok(Object(Empty)))
    BY <1>2 DEF GenerateOneOf
  <2>2. FitsBy(options, Object(Empty), Top.schema, {})
    BY <1>1, <1>2, Zenon DEF FitsBy
  <2> QED
    BY <1>1, <2>1, <2>2, LeafFits, AnswerFits
<1>3. CASE members # <<>>
  <2>1. PICK i \in DOMAIN members : Call(Now(call), Schemas[members[i]])
    BY <1>3 DEF GenerateOneOf
  <2>2. call.schema = Top.schema /\ call.phase = "pass"
    BY <1>1, TopCall DEF IsCall, Fields
  <2> HIDE DEF call
  <2>3. MadeFits(options, call)
    BY <2>2 DEF MadeFits
  <2>4. Awaits(call, Schemas[members[i]])
    BY <1>1, <2>2 DEF Awaits
  <2> QED
    BY <1>1, <2>1, <2>2, <2>3, <2>4, CallFits
<1> QED
  BY <1>2, <1>3

LEMMA GenerateArrayFits ==
    ASSUME NEW root, CallsInv, GenerateArray
    PROVE  FitStep(root)
<1> DEFINE s == Top.schema
           call == [Top EXCEPT !.phase = IF Has(s, "unique") THEN "unique" ELSE "item"]
<1>1. options' = options /\ stack # <<>> /\ Top.phase = "enter" /\ TypeOf(s) = "array"
  BY DEF GenerateArray, Generates, Delegates, Entered
<1>2. CASE ~Has(s, "unique") /\ Has(s, "x-empty")
  <2>1. Return(Ok(Array(<<Null>>)))
    BY <1>2 DEF GenerateArray
  <2>2. FitsBy(options, Array(<<Null>>), s, {})
    BY <1>1, <1>2, Zenon DEF FitsBy, ArrayFits
  <2> QED
    BY <1>1, <2>1, <2>2, LeafFits, AnswerFits
<1>3. CASE ~(~Has(s, "unique") /\ Has(s, "x-empty"))
  <2>1. Continue(call)
    BY <1>3 DEF GenerateArray
  <2>2. IsCall(Top) /\ Top.made = <<>>
    BY <1>1, TopCall DEF IsCall
  <2>3. /\ call.schema = s /\ call.made = <<>> /\ call.phase \in {"item", "unique"}
        /\ Has(s, "unique") => call.phase = "unique"
    BY <2>2 DEF IsCall, Fields
  <2> HIDE DEF call
  <2>4. MadeFits(options, call)
    BY <1>1, <2>3 DEF MadeFits
  <2> QED
    BY <1>1, <2>1, <2>3, <2>4 DEF FitStep
<1> QED
  BY <1>2, <1>3

\* Enough items that fit make an array that fits.
LEMMA ArrayMadeFits ==
    ASSUME NEW root, FitCalls(root), CallsInv, stack # <<>>, Top.phase \in {"item", "unique"},
           Len(Top.made) >= MinItems(Top.schema)
    PROVE  Fits(options, Array(Top.made), Top.schema)
<1> DEFINE s == Top.schema
           made == Top.made
           parts == {<<made[i], Schemas[s.items]>> : i \in DOMAIN made}
<1>1. MadeFits(options, Top) /\ IsCall(Top)
  BY TopLinked, TopCall
<1>2. /\ TypeOf(s) = "array"
      /\ Has(s, "unique") => Top.phase = "unique"
      /\ \A i \in DOMAIN made : Has(s, "items") /\ Fits(options, made[i], Schemas[s.items])
  BY <1>1 DEF MadeFits
<1>3. IsSequence(made) /\ (Has(s, "unique") => \A i, j \in DOMAIN made : i # j => made[i] # made[j])
  BY <1>1, <1>2 DEF IsCall
<1>4. ArrayFits(Array(made), s, parts)
  BY <1>2, <1>3, Zenon DEF ArrayFits, IsSequence
<1>5. FitsBy(options, Array(made), s, parts)
  BY <1>2, <1>4, Zenon DEF FitsBy
<1>6. \A part \in parts : \E pairs : ClosedFitting(options, pairs) /\ part \in pairs
  BY <1>2 DEF Fits
<1> HIDE DEF parts
<1> QED
  BY <1>5, <1>6, PartsFit

LEMMA NextItemFits ==
    ASSUME NEW root, FitCalls(root), CallsInv, NextItem
    PROVE  FitStep(root)
<1> DEFINE length == Length(MinItems(Top.schema))
<1>1. options' = options /\ stack # <<>> /\ Top.phase \in {"item", "unique"}
  BY DEF NextItem, Working
<1>2. CASE Len(Top.made) = length
  <2>1. Return(Ok(Array(Top.made)))
    BY <1>2, Zenon DEF NextItem
  <2>2. MinItems(Top.schema) \in Nat
    BY <1>1, PartSchema
  <2>3. Len(Top.made) >= MinItems(Top.schema)
    BY <1>2, <2>2 DEF Length
  <2> QED
    BY <1>1, <2>1, <2>3, ArrayMadeFits, AnswerFits
<1>3. CASE Len(Top.made) # length /\ ~Has(Top.schema, "items")
  <2>1. Return(Panic)
    BY <1>3, Zenon DEF NextItem
  <2> QED
    BY <1>1, <2>1, ErrorFits DEF Panic
<1>4. CASE Len(Top.made) # length /\ Has(Top.schema, "items")
  <2>1. Call(stack, Schemas[Top.schema.items])
    BY <1>4, Zenon DEF NextItem
  <2>2. Awaits(stack[Len(stack)], Schemas[Top.schema.items])
    BY <1>1, <1>4, Zenon DEF Awaits, Top
  <2> QED
    BY <1>1, <2>1, <2>2, Zenon DEF FitStep, FitCalls
<1> QED
  BY <1>2, <1>3, <1>4

LEMMA KeepItemFits ==
    ASSUME NEW root, FitCalls(root), CallsInv, KeepItem \/ KeepUnique
    PROVE  FitStep(root)
<1> DEFINE s == Top.schema
           made == Append(Top.made, result.data)
           call == [Top EXCEPT !.made = Append(@, result.data)]
           fresh == [Top EXCEPT !.made = Append(@, result.data), !.tries = 0]
<1>1. options' = options /\ stack # <<>> /\ result.status = "ok" /\ Top.phase \in {"item", "unique"}
  BY DEF KeepItem, KeepUnique, Returned
<1>2. MadeFits(options, Top) /\ IsCall(Top) /\ IsSequence(Top.made)
  BY <1>1, TopLinked, TopCall DEF IsCall
<1>3. Has(s, "items") /\ Fits(options, result.data, Schemas[s.items])
  BY <1>1 DEF FitCalls, Awaits
<1>4. /\ TypeOf(s) = "array" /\ (Has(s, "unique") => Top.phase = "unique")
      /\ \A i \in DOMAIN Top.made : Fits(options, Top.made[i], Schemas[s.items])
  BY <1>1, <1>2 DEF MadeFits
<1>5. \A i \in DOMAIN made : Fits(options, made[i], Schemas[s.items])
  <2> DEFINE n == Len(Top.made)
  <2>1. PICK S : Top.made \in Seq(S)
    BY <1>2 DEF IsSequence
  <2>2. n \in Nat /\ DOMAIN Top.made = 1 .. n
    BY <2>1
  <2>3. /\ DOMAIN made = 1 .. n + 1 /\ made[n + 1] = result.data
        /\ \A k \in 1 .. n : made[k] = Top.made[k]
    BY <2>1, <2>2, AppendProperties
  <2> HIDE DEF made, n
  <2>4. ASSUME NEW i \in 1 .. n + 1 PROVE Fits(options, made[i], Schemas[s.items])
    <3>1. CASE i = n + 1
      BY <1>3, <2>3, <3>1
    <3>2. CASE i # n + 1
      <4>1. i \in 1 .. n
        BY <2>2, <3>2
      <4> QED
        BY <1>4, <2>2, <2>3, <4>1
    <3> QED
      BY <3>1, <3>2
  <2> QED
    BY <2>3, <2>4
<1> HIDE DEF made
<1>6. ASSUME NEW frame, frame.schema = s, frame.phase = Top.phase, frame.made = made
      PROVE  MadeFits(options, frame)
  BY <1>1, <1>3, <1>4, <1>5, <1>6 DEF MadeFits
<1>7. PICK frame : Continue(frame) /\ frame.schema = s /\ frame.phase = Top.phase /\ frame.made = made
  <2>1. /\ call.schema = s /\ call.phase = Top.phase /\ call.made = made
        /\ fresh.schema = s /\ fresh.phase = Top.phase /\ fresh.made = made
    BY <1>2 DEF IsCall, Fields, made
  <2> QED
    BY <2>1 DEF KeepItem, KeepUnique
<1> QED
  BY <1>1, <1>6, <1>7 DEF FitStep

LEMMA RepeatUniqueFits ==
    ASSUME NEW root, FitCalls(root), CallsInv, RepeatUnique
    PROVE  FitStep(root)
<1> DEFINE call == [Top EXCEPT !.tries = @ + 1]
<1>1. options' = options /\ stack # <<>> /\ Top.phase = "unique" /\ IsCall(Top) /\ MadeFits(options, Top)
  BY TopCall, TopLinked DEF RepeatUnique, Returned
<1>2. call.schema = Top.schema /\ call.phase = "unique" /\ call.made = Top.made
  BY <1>1 DEF IsCall, Fields
<1>3. Continue(call) \/ (result' = AttemptsExceeded /\ stack' = stack)
  BY DEF RepeatUnique
<1> HIDE DEF call
<1>4. MadeFits(options, call)
  BY <1>1, <1>2 DEF MadeFits
<1> QED
  BY <1>1, <1>2, <1>3, <1>4 DEF FitStep, AttemptsExceeded

LEMMA ShortArrayFits ==
    ASSUME NEW root, FitCalls(root), CallsInv, ShortArray
    PROVE  FitStep(root)
<1>1. /\ options' = options /\ stack # <<>> /\ Top.phase = "unique" /\ IsCall(Top)
      /\ Return(Ok(Array(Top.made))) /\ Len(Top.made) + 1 > MinItems(Top.schema)
  BY TopCall DEF ShortArray, Enough
<1>2. MinItems(Top.schema) \in Nat
  BY <1>1, PartSchema
<1>3. Len(Top.made) \in Nat
  BY <1>1 DEF IsCall, IsSequence
<1>4. Len(Top.made) >= MinItems(Top.schema)
  BY <1>1, <1>2, <1>3
<1> QED
  BY <1>1, <1>4, ArrayMadeFits, AnswerFits

LEMMA GenerateObjectFits ==
    ASSUME NEW root, CallsInv, GenerateObject
    PROVE  FitStep(root)
<1> DEFINE s == Top.schema
           phase == IF IsHashMap(s) THEN "required" ELSE IF IsFreeForm(s) THEN "free" ELSE "property"
           todo == IF IsFreeForm(s) THEN {} ELSE Shown(s)
           queue == IF IsHashMap(s) THEN Required(s) ELSE <<>>
           call == [Top EXCEPT !.phase = phase, !.todo = todo, !.queue = queue, !.made = Empty]
<1>1. options' = options /\ stack # <<>> /\ IsCall(Top) /\ TypeOf(s) = "object" /\ Continue(call)
  BY TopCall DEF GenerateObject, Generates, Delegates, Entered
<1>2. /\ phase \in {"required", "free", "property"}
      /\ phase = "required" => IsHashMap(s) /\ queue = Required(s)
      /\ phase = "free" => IsFreeForm(s) /\ ~IsHashMap(s)
      /\ phase = "property" => ~IsFreeForm(s) /\ todo = Shown(s)
  OBVIOUS
<1>3. DOMAIN Empty = {}
  BY DEF Empty
<1> HIDE DEF phase, todo, queue
<1>4. /\ call.schema = s /\ call.phase = phase /\ call.todo = todo /\ call.queue = queue
      /\ call.made = Empty
  BY <1>1 DEF IsCall, Fields
<1> HIDE DEF call
<1>5. \A i \in DOMAIN Required(s) : IsRequired(s, Required(s)[i])
  BY DEF IsRequired
<1>6. MadeFits(options, call)
  BY <1>1, <1>2, <1>3, <1>4, <1>5 DEF MadeFits
<1> QED
  BY <1>1, <1>4, <1>6, Zenon DEF FitStep

LEMMA NextPropertyFits ==
    ASSUME NEW root, FitCalls(root), CallsInv, NextProperty
    PROVE  FitStep(root)
<1> DEFINE s == Top.schema
           made == Top.made
<1>1. /\ options' = options /\ stack # <<>> /\ Top.phase = "property" /\ IsCall(Top)
      /\ Accounts(Top, {}) /\ MadeFits(options, Top)
  BY TopCall, TopLinked DEF NextProperty, Working, AtWork
<1>2. /\ TypeOf(s) = "object" /\ ~IsFreeForm(s) /\ Top.todo \subseteq Shown(s)
      /\ \A p \in DOMAIN made : p \in Shown(s) /\ Fits(options, made[p], Schemas[s.props[p]])
  BY <1>1 DEF MadeFits
<1>3. CASE Top.todo = {}
  <2> DEFINE parts == {<<made[p], Schemas[s.props[p]]>> : p \in DOMAIN made}
  <2>1. Return(Ok(Object(made)))
    BY <1>3 DEF NextProperty
  <2>2. DOMAIN made = Shown(s) /\ IsFiniteSet(DOMAIN made)
    BY <1>1, <1>3 DEF Accounts, IsCall
  <2>3. ~IsHashMap(s)
    BY <1>2 DEF IsHashMap, IsFreeForm
  <2>4. ObjectFits(Object(made), s, parts)
    BY <1>2, <2>2, <2>3, Zenon DEF ObjectFits
  <2>5. FitsBy(options, Object(made), s, parts)
    BY <1>2, <2>4, Zenon DEF FitsBy
  <2>6. \A part \in parts : \E pairs : ClosedFitting(options, pairs) /\ part \in pairs
    BY <1>2 DEF Fits
  <2> HIDE DEF parts
  <2>7. Fits(options, Object(made), s)
    BY <2>5, <2>6, PartsFit
  <2> QED
    BY <1>1, <2>1, <2>7, AnswerFits
<1>4. CASE Top.todo # {}
  <2>1. PICK p \in Top.todo : Call(Now([Top EXCEPT !.name = p, !.todo = @ \ {p}]), Schemas[s.props[p]])
    BY <1>4 DEF NextProperty
  <2> DEFINE call == [Top EXCEPT !.name = p, !.todo = @ \ {p}]
  <2>2. /\ call.schema = s /\ call.phase = "property" /\ call.made = made /\ call.name = p
        /\ call.todo \subseteq Top.todo
    BY <1>1 DEF IsCall, Fields
  <2>3. Call(Now(call), Schemas[s.props[p]])
    BY <2>1
  <2> HIDE DEF call
  <2>4. MadeFits(options, call)
    BY <1>2, <2>2 DEF MadeFits
  <2>5. Awaits(call, Schemas[s.props[p]])
    BY <1>2, <2>1, <2>2 DEF Awaits
  <2> QED
    BY <1>1, <2>2, <2>3, <2>4, <2>5, CallFits
<1> QED
  BY <1>3, <1>4

LEMMA NextRequiredFits ==
    ASSUME NEW root, FitCalls(root), CallsInv, NextRequired
    PROVE  FitStep(root)
<1> DEFINE s == Top.schema
           made == Top.made
           q == Top.queue
<1>1. /\ options' = options /\ stack # <<>> /\ Top.phase = "required" /\ IsCall(Top)
      /\ MadeFits(options, Top)
  BY TopCall, TopLinked DEF NextRequired, Working
<1>2. /\ TypeOf(s) = "object" /\ IsHashMap(s)
      /\ \A p \in DOMAIN made :
             IF IsRequired(s, p)
             THEN p \in Properties(s) /\ Fits(options, made[p], Schemas[s.props[p]])
             ELSE Fits(options, made[p], Schemas[s.additional])
      /\ \A i \in DOMAIN q : IsRequired(s, q[i])
  BY <1>1 DEF MadeFits
<1>3. CASE q = <<>>
  <2> DEFINE call == [Top EXCEPT !.phase = "entry"]
  <2>1. Continue(call)
    BY <1>3, Zenon DEF NextRequired
  <2>2. call.schema = s /\ call.phase = "entry" /\ call.made = made
    BY <1>1 DEF IsCall, Fields
  <2> HIDE DEF call
  <2>3. MadeFits(options, call)
    BY <1>2, <2>2 DEF MadeFits
  <2> QED
    BY <1>1, <2>1, <2>2, <2>3, Zenon DEF FitStep
<1>4. CASE q # <<>> /\ Head(q) \notin Properties(s)
  <2>1. Return(Panic)
    BY <1>4, Zenon DEF NextRequired
  <2> QED
    BY <1>1, <2>1, ErrorFits DEF Panic
<1>5. CASE q # <<>> /\ Head(q) \in Properties(s)
  <2> DEFINE call == [Top EXCEPT !.name = Head(q), !.queue = Tail(@)]
  <2>1. Call(Now(call), Schemas[s.props[Head(q)]])
    BY <1>5, Zenon DEF NextRequired
  <2>2. /\ call.schema = s /\ call.phase = "required" /\ call.made = made
        /\ call.name = Head(q) /\ call.queue = Tail(q)
    BY <1>1 DEF IsCall, Fields
  <2> HIDE DEF call
  <2>3. q \in Seq(STRING)
    BY <1>1 DEF IsCall
  <2> HIDE DEF q
  <2>4. /\ Head(q) = q[1] /\ 1 \in DOMAIN q
        /\ \A k \in DOMAIN Tail(q) : k + 1 \in DOMAIN q /\ Tail(q)[k] = q[k + 1]
    BY <1>5, <2>3
  <2>5. IsRequired(s, Head(q)) /\ \A k \in DOMAIN Tail(q) : IsRequired(s, Tail(q)[k])
    BY <1>2, <2>4
  <2>6. MadeFits(options, call)
    BY <1>2, <2>2, <2>5 DEF MadeFits
  <2>7. Awaits(call, Schemas[s.props[Head(q)]])
    BY <1>5, <2>2, <2>5 DEF Awaits
  <2> QED
    BY <1>1, <2>1, <2>2, <2>6, <2>7, CallFits
<1> QED
  BY <1>3, <1>4, <1>5

\* Enough entries that fit make an object that fits.
LEMMA EntriesFit ==
    ASSUME NEW root, FitCalls(root), CallsInv, stack # <<>>, result = NoResult,
           Top.phase \in {"entry", "free"}, Size >= MinProps(Top.schema)
    PROVE  Fits(options, Object(Top.made), Top.schema)
<1> DEFINE s == Top.schema
           made == Top.made
<1>1. IsCall(Top) /\ Accounts(Top, {}) /\ MadeFits(options, Top)
  BY TopCall, TopLinked DEF AtWork
<1>2. TypeOf(s) = "object" /\ IsFiniteSet(DOMAIN made) /\ Cardinality(DOMAIN made) >= MinProps(s)
  BY <1>1 DEF MadeFits, IsCall, Size
<1>3. CASE Top.phase = "entry"
  <2> DEFINE schema(p) == IF IsRequired(s, p) THEN Schemas[s.props[p]] ELSE Schemas[s.additional]
             parts == {<<made[p], schema(p)>> : p \in DOMAIN made}
  <2>1. /\ IsHashMap(s) /\ IsFreeForm(s)
        /\ \A p \in DOMAIN made :
               IF IsRequired(s, p)
               THEN p \in Properties(s) /\ Fits(options, made[p], Schemas[s.props[p]])
               ELSE Fits(options, made[p], Schemas[s.additional])
    BY <1>1, <1>3 DEF MadeFits, IsHashMap, IsFreeForm
  <2>2. Top.queue = <<>>
    BY <1>1, <1>3 DEF IsCall
  <2>3. \A p : IsRequired(s, p) => p \in DOMAIN made
    BY <1>1, <1>3, <2>2 DEF Accounts, IsRequired
  <2>4. \A p \in DOMAIN made :
            IF IsRequired(s, p)
            THEN p \in Properties(s) /\ <<made[p], Schemas[s.props[p]]>> \in parts
            ELSE <<made[p], Schemas[s.additional]>> \in parts
    <3>1. ASSUME NEW p \in DOMAIN made PROVE <<made[p], schema(p)>> \in parts
      OBVIOUS
    <3> HIDE DEF parts
    <3> QED
      BY <2>1, <3>1
  <2>5. \A part \in parts : \E pairs : ClosedFitting(options, pairs) /\ part \in pairs
    <3>1. ASSUME NEW p \in DOMAIN made
          PROVE  \E pairs : ClosedFitting(options, pairs) /\ <<made[p], schema(p)>> \in pairs
      BY <2>1 DEF Fits
    <3> HIDE DEF schema
    <3> QED
      BY <3>1
  <2> HIDE DEF parts
  <2>6. ObjectFits(Object(made), s, parts)
    BY <1>2, <2>1, <2>3, <2>4, Zenon DEF ObjectFits
  <2>7. FitsBy(options, Object(made), s, parts)
    BY <1>2, <2>6, Zenon DEF FitsBy
  <2> QED
    BY <2>5, <2>7, PartsFit
<1>4. CASE Top.phase = "free"
  <2>1. /\ IsFreeForm(s) /\ ~IsHashMap(s)
        /\ \A p \in DOMAIN made : made[p] = [string |-> "lorem"]
    BY <1>1, <1>4 DEF MadeFits
  <2>2. ObjectFits(Object(made), s, {})
    BY <1>2, <2>1, Zenon DEF ObjectFits
  <2>3. FitsBy(options, Object(made), s, {})
    BY <1>2, <2>2, Zenon DEF FitsBy
  <2> QED
    BY <2>3, LeafFits
<1> QED
  BY <1>3, <1>4

LEMMA NoNewKeyFits ==
    ASSUME NEW root, FitCalls(root), CallsInv, stack # <<>>, options' = options, result = NoResult,
           Top.phase \in {"entry", "free"}, NoNewKey
    PROVE  FitStep(root)
<1>1. IsCall(Top) /\ MinProps(Top.schema) \in Nat
  BY TopCall, PartSchema
<1>2. Size \in Nat
  BY <1>1, FS_CardinalityType DEF IsCall, Size
<1>3. \/ Size >= Length(MinProps(Top.schema)) /\ Return(Ok(Object(Top.made)))
      \/ Size + 1 > MinProps(Top.schema) /\ Return(Ok(Object(Top.made)))
      \/ Return(AttemptsExceeded)
  BY DEF NoNewKey
<1>4. CASE Return(AttemptsExceeded)
  BY <1>4, ErrorFits DEF AttemptsExceeded
<1>5. CASE ~Return(AttemptsExceeded)
  <2>1. Size >= MinProps(Top.schema) /\ Return(Ok(Object(Top.made)))
    BY <1>1, <1>2, <1>3, <1>5 DEF Length
  <2> QED
    BY <2>1, EntriesFit, AnswerFits
<1> QED
  BY <1>4, <1>5

LEMMA NextEntryFits ==
    ASSUME NEW root, FitCalls(root), CallsInv, NextEntry
    PROVE  FitStep(root)
<1> DEFINE s == Top.schema
<1>1. /\ options' = options /\ stack # <<>> /\ Top.phase = "entry" /\ result = NoResult
      /\ IsCall(Top) /\ Accounts(Top, {}) /\ MadeFits(options, Top)
  BY TopCall, TopLinked DEF NextEntry, Working, AtWork
<1>2. CASE NoNewKey
  BY <1>1, <1>2, NoNewKeyFits
<1>3. ASSUME NEW k \in NewKeys, Call(Now([Top EXCEPT !.name = k]), Schemas[s.additional])
      PROVE  FitStep(root)
  <2> DEFINE call == [Top EXCEPT !.name = k]
  <2>1. /\ call.schema = s /\ call.phase = "entry" /\ call.made = Top.made /\ call.name = k
    BY <1>1 DEF IsCall, Fields
  <2> HIDE DEF call
  <2>2. MadeFits(options, call)
    BY <1>1, <2>1 DEF MadeFits
  <2>3. Top.queue = <<>>
    BY <1>1 DEF IsCall
  <2>4. \A p : IsRequired(s, p) => p \in DOMAIN Top.made
    BY <1>1, <2>3 DEF Accounts, IsRequired
  <2>5. ~IsRequired(s, k)
    BY <1>3, <2>4 DEF NewKeys
  <2>6. Awaits(call, Schemas[s.additional])
    BY <2>1, <2>5 DEF Awaits
  <2>7. Call(Now(call), Schemas[s.additional])
    BY <1>3 DEF call
  <2> QED
    BY <1>1, <2>1, <2>2, <2>6, <2>7, CallFits
<1> QED
  BY <1>2, <1>3 DEF NextEntry

LEMMA NextFreeFits ==
    ASSUME NEW root, FitCalls(root), CallsInv, NextFree
    PROVE  FitStep(root)
<1> DEFINE s == Top.schema
<1>1. /\ options' = options /\ stack # <<>> /\ Top.phase = "free" /\ result = NoResult
      /\ IsCall(Top) /\ MadeFits(options, Top)
  BY TopCall, TopLinked DEF NextFree, Working
<1>2. CASE NoNewKey
  BY <1>1, <1>2, NoNewKeyFits
<1>3. ASSUME NEW k \in NewKeys, Continue([Top EXCEPT !.made = With(@, k, [string |-> "lorem"])])
      PROVE  FitStep(root)
  <2> DEFINE made == With(Top.made, k, [string |-> "lorem"])
             call == [Top EXCEPT !.made = made]
  <2>1. TypeOf(s) = "object" /\ IsFreeForm(s) /\ ~IsHashMap(s)
        /\ \A p \in DOMAIN Top.made : Top.made[p] = [string |-> "lorem"]
    BY <1>1 DEF MadeFits
  <2>2. \A p \in DOMAIN made : made[p] = [string |-> "lorem"]
    BY <2>1 DEF With
  <2> HIDE DEF made
  <2>3. call.schema = s /\ call.phase = "free" /\ call.made = made
    BY <1>1 DEF IsCall, Fields
  <2>4. Continue(call)
    BY <1>3 DEF made
  <2> HIDE DEF call
  <2>5. MadeFits(options, call)
    BY <2>1, <2>2, <2>3 DEF MadeFits
  <2> QED
    BY <1>1, <2>3, <2>4, <2>5, Zenon DEF FitStep
<1> QED
  BY <1>2, <1>3 DEF NextFree

LEMMA KeepFieldFits ==
    ASSUME NEW root, FitCalls(root), CallsInv, KeepField
    PROVE  FitStep(root)
<1> DEFINE s == Top.schema
           made == With(Top.made, Top.name, result.data)
           call == [Top EXCEPT !.made = made]
<1>1. /\ options' = options /\ stack # <<>> /\ result.status = "ok"
      /\ Top.phase \in {"property", "required", "entry"}
      /\ IsCall(Top) /\ MadeFits(options, Top)
      /\ Continue(call)
  <2>1. stack # <<>> /\ result.status = "ok" /\ result # NoResult
    BY DEF KeepField, Returned, NoResult
  <2> QED
    BY <2>1, TopCall, TopLinked DEF KeepField, Returned
<1>2. /\ DOMAIN made = DOMAIN Top.made \cup {Top.name}
      /\ made[Top.name] = result.data
      /\ \A p \in DOMAIN Top.made : p # Top.name => made[p] = Top.made[p]
  BY DEF With
<1> HIDE DEF made
<1>3. /\ call.schema = s /\ call.phase = Top.phase /\ call.todo = Top.todo /\ call.queue = Top.queue
      /\ call.made = made
  BY <1>1 DEF IsCall, Fields
<1> HIDE DEF call
<1>4. PICK awaited : Awaits(Top, awaited) /\ Fits(options, result.data, awaited)
  BY <1>1 DEF FitCalls
<1>5. CASE Top.phase = "property"
  <2>1. Top.name \in Shown(s) /\ Fits(options, result.data, Schemas[s.props[Top.name]])
    BY <1>4, <1>5 DEF Awaits
  <2>2. MadeFits(options, call)
    BY <1>1, <1>2, <1>3, <1>5, <2>1 DEF MadeFits
  <2> QED
    BY <1>1, <1>3, <2>2, Zenon DEF FitStep
<1>6. CASE Top.phase \in {"required", "entry"}
  <2>1. IF IsRequired(s, Top.name)
        THEN Top.name \in Properties(s) /\ Fits(options, result.data, Schemas[s.props[Top.name]])
        ELSE Fits(options, result.data, Schemas[s.additional])
    BY <1>4, <1>6 DEF Awaits
  <2>2. \A p \in DOMAIN made :
            IF IsRequired(s, p)
            THEN p \in Properties(s) /\ Fits(options, made[p], Schemas[s.props[p]])
            ELSE Fits(options, made[p], Schemas[s.additional])
    BY <1>1, <1>2, <1>6, <2>1 DEF MadeFits
  <2>3. MadeFits(options, call)
    BY <1>1, <1>3, <1>6, <2>2 DEF MadeFits
  <2> QED
    BY <1>1, <1>3, <2>3, Zenon DEF FitStep
<1> QED
  BY <1>1, <1>5, <1>6

LEMMA PropagateFits ==
    ASSUME NEW root, FitCalls(root), Propagate
    PROVE  FitStep(root)
<1> DEFINE s == Top.schema
<1>1. options' = options /\ stack # <<>> /\ Return(result)
  BY DEF Propagate
<1>2. CASE IsError(result)
  BY <1>1, <1>2, ErrorFits DEF IsError
<1>3. CASE Returned("pass")
  <2>1. PICK awaited : Awaits(Top, awaited) /\ Fits(options, result.data, awaited)
    BY <1>3 DEF Returned, FitCalls
  <2> DEFINE parts == {<<result.data, awaited>>}
  <2>2. FitsBy(options, result.data, s, parts)
    <3>1. \/ TypeOf(s) = "oneOf" /\ \E i \in DOMAIN s.oneOf : awaited = Schemas[s.oneOf[i]]
          \/ TypeOf(s) = "combined" /\ Combination(awaited, s)
      BY <1>3, <2>1 DEF Returned, Awaits
    <3>2. <<result.data, awaited>> \in parts
      OBVIOUS
    <3> HIDE DEF parts
    <3> QED
      BY <3>1, <3>2, Zenon DEF FitsBy
  <2>3. \A part \in parts : \E pairs : ClosedFitting(options, pairs) /\ part \in pairs
    BY <2>1 DEF Fits
  <2> HIDE DEF parts
  <2>4. Fits(options, result.data, s)
    BY <2>2, <2>3, PartsFit
  <2> QED
    BY <1>1, <2>4, Zenon DEF FitStep
<1> QED
  BY <1>2, <1>3 DEF Propagate

-----------------------------------------------------------------------------
(* The progress of the merger: of a schema that combines others, every member *)
(* is still to do or what stands for it was merged.                           *)

StandsFor(part, s) ==
    IF ~Combining(s) THEN part = s
    ELSE IF Has(s, "allOf") \/ Has(s, "anyOf") THEN Combination(part, s)
    ELSE \E i \in DOMAIN s.oneOf : part = Schemas[s.oneOf[i]]

Progress(call, s) ==
    /\ Has(s, "allOf") \/ Has(s, "anyOf")
    /\ \E members \in Members(s) : \A i \in DOMAIN members :
           \/ \E j \in DOMAIN call.todo : call.todo[j] = members[i]
           \/ \E part : StandsFor(part, Schemas[members[i]]) /\ Contains(call.merged, part)

\* The schema the k-th call of the merger is for: the first has that of the chain.
Source(calls, s, k) == IF k = 1 THEN s ELSE Schemas[Head(calls[k - 1].todo)]

Progresses(calls, s) == \A k \in 1 .. Len(calls) : Progress(calls[k], Source(calls, s, k))

MergeFits == merging # <<>> => TypeOf(Top.schema) = "combined" /\ Progresses(merging, Top.schema)

\* A call that has nothing left to do has made a combination.
LEMMA CombinationReached ==
    ASSUME NEW call, NEW s, Progress(call, s), call.todo = <<>>
    PROVE  Combination(call.merged, s)
<1> DEFINE m == call.merged
<1>1. PICK members \in Members(s) : \A i \in DOMAIN members :
          \E part : StandsFor(part, Schemas[members[i]]) /\ Contains(m, part)
  BY DEF Progress
<1> DEFINE member(i) == Schemas[members[i]]
           for(i) == CHOOSE part : StandsFor(part, member(i)) /\ Contains(m, part)
           nested == {i \in DOMAIN members : Has(member(i), "allOf") \/ Has(member(i), "anyOf")}
           parts == {<<for(i), member(i)>> : i \in nested}
<1>2. \A i \in DOMAIN members : StandsFor(for(i), member(i)) /\ Contains(m, for(i))
  BY <1>1
<1> HIDE DEF for
<1>3. \A i \in nested : <<for(i), member(i)>> \in parts /\ Combination(for(i), member(i))
  BY <1>2 DEF StandsFor, Combining
<1>4. ASSUME NEW i \in DOMAIN members PROVE PartOf(for(i), member(i), parts)
  <2>1. (Has(member(i), "allOf") \/ Has(member(i), "anyOf")) => <<for(i), member(i)>> \in parts
    BY <1>3
  <2> HIDE DEF parts, nested, member
  <2> QED
    BY <1>2, <2>1 DEF PartOf, StandsFor
<1>5. \A part \in parts : \E pairs : ClosedMerging(pairs) /\ part \in pairs
  <2>1. \A i \in nested : \E pairs : ClosedMerging(pairs) /\ <<for(i), member(i)>> \in pairs
    BY <1>3 DEF Combination
  <2> HIDE DEF nested, member
  <2> QED
    BY <2>1
<1>6. MergedBy(m, s, parts)
  <2> HIDE DEF parts
  <2> QED
    BY <1>2, <1>4 DEF MergedBy
<1> HIDE DEF parts
<1> QED
  BY <1>5, <1>6, CombinationMade

\* What is merged has what it had and what the member gives.
LEMMA MergeContains ==
    ASSUME NEW m, Assembled(m), NEW s, WellFormed(s)
    PROVE  /\ Contains(Merge(m, s), s)
           /\ \A part : Contains(m, part) => Contains(Merge(m, s), part)
<1> DEFINE t == Merge(m, s)
<1>1. DOMAIN t = DOMAIN m \cup Kept(s) /\ WellFormed(m)
  BY DEF Merge, Assembled
<1>2. /\ Has(s, "props") => "props" \in Kept(s)
      /\ Has(s, "required") => "required" \in Kept(s)
      /\ \A a \in Kept(s) : a \in DOMAIN s
  BY DEF Kept, Has
<1>3. Properties(s) \subseteq Properties(t) /\ Properties(m) \subseteq Properties(t)
  <2>1. CASE "props" \notin Kept(s)
    BY <1>1, <1>2, <2>1 DEF Merge, Properties, Has
  <2>2. CASE "props" \in Kept(s) /\ "props" \notin DOMAIN m
    <3>1. t.props = s.props
      BY <1>1, <2>2 DEF Merge
    <3> QED
      BY <1>1, <2>2, <3>1 DEF Properties, Has
  <2>3. CASE "props" \in Kept(s) /\ "props" \in DOMAIN m
    <3>1. t.props = [q \in DOMAIN m.props \cup DOMAIN s.props |->
                        IF q \in DOMAIN s.props THEN s.props[q] ELSE m.props[q]]
      BY <1>1, <2>3 DEF Merge
    <3> QED
      BY <1>1, <2>3, <3>1 DEF Properties, Has
  <2> QED
    BY <2>1, <2>2, <2>3
<1>4. \A p : IsRequired(s, p) \/ IsRequired(m, p) => IsRequired(t, p)
  <2>1. CASE "required" \notin Kept(s)
    <3>1. Required(s) = <<>> /\ Required(t) = Required(m)
      BY <1>1, <1>2, <2>1 DEF Merge, Required, Get, Has
    <3> QED
      BY <3>1 DEF IsRequired
  <2>2. CASE "required" \in Kept(s) /\ "required" \notin DOMAIN m
    <3>1. Required(m) = <<>> /\ Required(t) = Required(s)
      BY <1>1, <1>2, <2>2 DEF Merge, Required, Get, Has
    <3> QED
      BY <3>1 DEF IsRequired
  <2>3. CASE "required" \in Kept(s) /\ "required" \in DOMAIN m
    <3>1. t.required = m.required \o s.required
      BY <1>1, <2>3 DEF Merge
    <3>2. Required(m) = m.required /\ Required(s) = s.required /\ Required(t) = t.required
      BY <1>1, <1>2, <2>3 DEF Required, Get, Has
    <3>3. Required(m) \in Seq(STRING) /\ Required(s) \in Seq(STRING)
      BY <1>1, <1>2, <2>3, <3>2 DEF WellFormed, Has
    <3>4. Required(t) = Required(m) \o Required(s)
      BY <3>1, <3>2
    <3> DEFINE l == Len(Required(m))
               k == Len(Required(s))
    <3>5. /\ l \in Nat /\ k \in Nat
          /\ DOMAIN Required(m) = 1 .. l /\ DOMAIN Required(s) = 1 .. k
          /\ DOMAIN Required(t) = 1 .. l + k
          /\ \A i \in 1 .. l : Required(t)[i] = Required(m)[i]
          /\ \A i \in 1 .. k : Required(t)[l + i] = Required(s)[i]
      <4> DEFINE left == Required(m)
                 right == Required(s)
      <4>1. left \in Seq(STRING) /\ right \in Seq(STRING) /\ Required(t) = left \o right
        BY <3>3, <3>4
      <4> HIDE DEF left, right
      <4>2. /\ Len(left) \in Nat /\ Len(right) \in Nat
            /\ DOMAIN left = 1 .. Len(left) /\ DOMAIN right = 1 .. Len(right)
            /\ DOMAIN (left \o right) = 1 .. Len(left) + Len(right)
            /\ \A i \in 1 .. Len(left) : (left \o right)[i] = left[i]
            /\ \A i \in 1 .. Len(right) : (left \o right)[Len(left) + i] = right[i]
        BY <4>1
      <4> QED
        BY <4>1, <4>2 DEF left, right
    <3> HIDE DEF l, k
    <3>6. \A i \in 1 .. l : i \in 1 .. l + k
      BY <3>5
    <3>7. \A i \in 1 .. k : l + i \in 1 .. l + k
      BY <3>5
    <3> QED
      BY <3>5, <3>6, <3>7 DEF IsRequired
  <2> QED
    BY <2>1, <2>2, <2>3
<1> HIDE DEF t
<1>5. Contains(t, s) /\ \A part : Contains(m, part) => Contains(t, part)
  BY <1>1, <1>3, <1>4 DEF Contains
<1> QED
  BY <1>5 DEF t

\* A call that merges what stands for its next member goes on.
LEMMA TakeProgress ==
    ASSUME NEW call, NEW s, Progress(call, s), call.todo \in Seq(Names), call.todo # <<>>,
           Assembled(call.merged),
           NEW part, WellFormed(part), StandsFor(part, Schemas[Head(call.todo)])
    PROVE  Progress([todo |-> Tail(call.todo), merged |-> Merge(call.merged, part)], s)
<1> DEFINE q == call.todo
           m == Merge(call.merged, part)
           now == [todo |-> Tail(q), merged |-> m]
<1>1. PICK members \in Members(s) : \A i \in DOMAIN members :
          \/ \E j \in DOMAIN q : q[j] = members[i]
          \/ \E other : StandsFor(other, Schemas[members[i]]) /\ Contains(call.merged, other)
  BY DEF Progress
<1>2. Contains(m, part) /\ \A other : Contains(call.merged, other) => Contains(m, other)
  BY MergeContains
<1>3. \A j \in DOMAIN q : q[j] = Head(q) \/ \E k \in DOMAIN Tail(q) : Tail(q)[k] = q[j]
  <2>1. q \in Seq(Names) /\ q # <<>>
    OBVIOUS
  <2> HIDE DEF q
  <2>2. /\ Head(q) = q[1] /\ Len(q) \in Nat /\ DOMAIN q = 1 .. Len(q)
        /\ DOMAIN Tail(q) = 1 .. Len(q) - 1
        /\ \A k \in 1 .. Len(q) - 1 : Tail(q)[k] = q[k + 1]
    BY <2>1
  <2>3. ASSUME NEW j \in DOMAIN q, j # 1 PROVE \E k \in DOMAIN Tail(q) : Tail(q)[k] = q[j]
    <3>1. j - 1 \in 1 .. Len(q) - 1 /\ j - 1 + 1 = j
      BY <2>2, <2>3
    <3> QED
      BY <2>2, <3>1
  <2> QED
    BY <2>2, <2>3
<1> HIDE DEF m, q
<1>4. ASSUME NEW i \in DOMAIN members
      PROVE  \/ \E j \in DOMAIN Tail(q) : Tail(q)[j] = members[i]
             \/ \E other : StandsFor(other, Schemas[members[i]]) /\ Contains(m, other)
  <2>1. CASE \E j \in DOMAIN q : q[j] = members[i]
    <3>1. CASE members[i] = Head(q)
      BY <1>2, <3>1 DEF q
    <3>2. CASE members[i] # Head(q)
      BY <1>3, <2>1, <3>2
    <3> QED
      BY <3>1, <3>2
  <2>2. CASE \E other : StandsFor(other, Schemas[members[i]]) /\ Contains(call.merged, other)
    BY <1>2, <2>2
  <2> QED
    BY <1>1, <2>1, <2>2
<1>5. now.todo = Tail(q) /\ now.merged = m
  OBVIOUS
<1>6. Has(s, "allOf") \/ Has(s, "anyOf")
  BY DEF Progress
<1> HIDE DEF now
<1>7. Progress(now, s)
  BY <1>4, <1>5, <1>6 DEF Progress
<1> QED
  BY <1>7 DEF now, m, q

LEMMA TakeProgresses ==
    ASSUME NEW calls, NEW s, WellMerging(calls), calls # <<>>, Progresses(calls, s),
           calls[Len(calls)].todo # <<>>,
           NEW part, WellFormed(part), StandsFor(part, Schemas[Head(calls[Len(calls)].todo)])
    PROVE  Progresses([calls EXCEPT ![Len(calls)] =
                          [todo |-> Tail(calls[Len(calls)].todo),
                           merged |-> Merge(calls[Len(calls)].merged, part)]], s)
<1> DEFINE n == Len(calls)
           last == calls[n]
           now == [todo |-> Tail(last.todo), merged |-> Merge(last.merged, part)]
           t == [calls EXCEPT ![n] = now]
<1>1. n \in Nat \ {0} /\ Len(t) = n
  BY FrontSequence, ReplaceLast DEF WellMerging
<1>2. last.todo \in Seq(Names) /\ Assembled(last.merged) /\ Progress(last, Source(calls, s, n))
  BY <1>1 DEF WellMerging, Progresses
<1>3. DOMAIN calls = 1 .. n
  BY DEF WellMerging, IsSequence
<1>4. Progress(now, Source(calls, s, n))
  BY <1>2, TakeProgress
<1> HIDE DEF now
<1>5. t[n] = now /\ \A i \in 1 .. n : i # n => t[i] = calls[i]
  BY <1>1, <1>3
<1>6. ASSUME NEW k \in 1 .. n PROVE Source(t, s, k) = Source(calls, s, k)
  <2>1. CASE k = 1
    BY <2>1 DEF Source
  <2>2. CASE k # 1
    <3>1. k - 1 \in 1 .. n /\ k - 1 # n
      <4> HIDE DEF n
      <4> QED
        BY <1>1, <1>6, <2>2
    <3>2. t[k - 1] = calls[k - 1]
      BY <1>5, <3>1
    <3> QED
      BY <2>2, <3>2 DEF Source
  <2> QED
    BY <2>1, <2>2
<1>7. \A k \in 1 .. n : Progress(calls[k], Source(calls, s, k))
  BY DEF Progresses
<1> HIDE DEF t, n
<1>8. \A k \in 1 .. n : Progress(t[k], Source(t, s, k))
  BY <1>4, <1>5, <1>6, <1>7
<1>9. Progresses(t, s)
  BY <1>1, <1>8 DEF Progresses
<1> QED
  BY <1>9 DEF t, n, now

\* The calls around the innermost, and what that one is for.
LEMMA OuterProgresses ==
    ASSUME NEW calls, NEW s, WellMerging(calls), calls # <<>>, Progresses(calls, s)
    PROVE  LET outer == SubSeq(calls, 1, Len(calls) - 1)
               last  == calls[Len(calls)]
           IN  IF outer = <<>> THEN Progress(last, s)
               ELSE Progresses(outer, s) /\ Progress(last, Schemas[Head(outer[Len(outer)].todo)])
<1> DEFINE m == Len(calls) - 1
           outer == SubSeq(calls, 1, m)
<1>1. IsSequence(outer) /\ Len(outer) = m /\ m \in Nat /\ Len(calls) = m + 1
  BY FrontSequence DEF WellMerging
<1>2. m = 0 <=> outer = <<>>
  BY <1>1, EmptySeq DEF IsSequence
<1>3. \A i \in 1 .. m : outer[i] = calls[i]
  BY <1>1, FrontElements DEF WellMerging
<1> HIDE DEF outer, m
<1>4. \A k \in 1 .. m + 1 : Progress(calls[k], Source(calls, s, k))
  BY <1>1 DEF Progresses
<1>5. CASE m = 0
  <2>1. Progress(calls[m + 1], s)
    BY <1>4, <1>5 DEF Source
  <2> QED
    BY <1>1, <1>2, <1>5, <2>1 DEF outer, m
<1>6. CASE m # 0
  <2>1. ASSUME NEW k \in 1 .. m PROVE Progress(outer[k], Source(outer, s, k))
    <3>1. k = 1 \/ outer[k - 1] = calls[k - 1]
      <4>1. k = 1 \/ k - 1 \in 1 .. m
        BY <1>1, <2>1
      <4> QED
        BY <1>3, <4>1
    <3>2. Source(outer, s, k) = Source(calls, s, k)
      BY <3>1 DEF Source
    <3>3. k \in 1 .. m + 1
      BY <1>1
    <3> QED
      BY <1>3, <1>4, <3>2, <3>3
  <2>2. Progresses(outer, s)
    BY <1>1, <2>1 DEF Progresses
  <2>3. m + 1 \in 1 .. m + 1 /\ m + 1 # 1 /\ m + 1 - 1 = m /\ m \in 1 .. m
    BY <1>1, <1>6
  <2>4. Progress(calls[m + 1], Schemas[Head(outer[m].todo)])
    BY <1>3, <1>4, <2>3 DEF Source
  <2> QED
    BY <1>1, <1>2, <1>6, <2>2, <2>4 DEF outer, m
<1> QED
  BY <1>5, <1>6

\* A call of the merger begins with all members to do.
LEMMA BeginProgresses ==
    ASSUME NEW calls, NEW s, IsSequence(calls), Progresses(calls, s),
           NEW source, Has(source, "allOf") \/ Has(source, "anyOf"), NEW members \in Members(source),
           source = IF calls = <<>> THEN s ELSE Schemas[Head(calls[Len(calls)].todo)]
    PROVE  Progresses(Append(calls, [todo |-> members, merged |-> Empty]), s)
<1> DEFINE call == [todo |-> members, merged |-> Empty]
           n == Len(calls)
           t == Append(calls, call)
<1>1. Progress(call, source)
  BY DEF Progress
<1>2. n \in Nat /\ Len(t) = n + 1 /\ t[n + 1] = call /\ \A i \in 1 .. n : t[i] = calls[i]
  BY AppendSequence, AppendElements DEF IsSequence
<1>3. n = 0 <=> calls = <<>>
  BY <1>2, EmptySeq DEF IsSequence
<1>4. source = IF n = 0 THEN s ELSE Schemas[Head(calls[n].todo)]
  BY <1>3
<1> HIDE DEF call
<1>5. \A k \in 1 .. n : Progress(calls[k], Source(calls, s, k))
  BY DEF Progresses
<1> HIDE DEF t, n
<1>6. ASSUME NEW k \in 1 .. n + 1 PROVE Progress(t[k], Source(t, s, k))
  <2>1. CASE k = n + 1
    <3>1. Source(t, s, k) = source
      <4>1. CASE n = 0
        BY <1>4, <2>1, <4>1 DEF Source
      <4>2. CASE n # 0
        <5>1. k - 1 = n /\ n \in 1 .. n /\ k # 1
          BY <1>2, <2>1, <4>2
        <5> QED
          BY <1>2, <1>4, <4>2, <5>1 DEF Source
      <4> QED
        BY <4>1, <4>2
    <3> QED
      BY <1>1, <1>2, <2>1, <3>1
  <2>2. CASE k # n + 1
    <3>1. k \in 1 .. n /\ (k = 1 \/ k - 1 \in 1 .. n)
      BY <1>2, <2>2
    <3>2. Source(t, s, k) = Source(calls, s, k)
      BY <1>2, <3>1 DEF Source
    <3> QED
      BY <1>2, <1>5, <3>1, <3>2
  <2> QED
    BY <2>1, <2>2
<1>7. Progresses(t, s)
  BY <1>2, <1>6 DEF Progresses
<1> QED
  BY <1>7 DEF t, call

-----------------------------------------------------------------------------
(* The steps of the merger. *)

LEMMA TakeMemberProgresses ==
    ASSUME NEW calls, NEW s, WellMerging(calls), calls # <<>>, Progresses(calls, s),
           calls[Len(calls)].todo # <<>>,
           NEW part, WellFormed(part), StandsFor(part, Schemas[Head(calls[Len(calls)].todo)]),
           TakeMember(calls, part), merging' # <<>>
    PROVE  Progresses(merging', s)
<1>1. merging' = [calls EXCEPT ![Len(calls)] =
                     [todo |-> Tail(calls[Len(calls)].todo),
                      merged |-> Merge(calls[Len(calls)].merged, part)]]
  BY DEF TakeMember
<1> QED
  BY <1>1, TakeProgresses

LEMMA MergeSchemasProgresses ==
    ASSUME NEW calls, NEW s, IsSequence(calls), Progresses(calls, s),
           NEW source, Has(source, "allOf") \/ Has(source, "anyOf"),
           source = IF calls = <<>> THEN s ELSE Schemas[Head(calls[Len(calls)].todo)],
           MergeSchemas(calls, source), merging' # <<>>, calls = merging
    PROVE  Progresses(merging', s)
<1>1. \/ merging' = <<>>
      \/ \E members \in Members(source) : merging' = Append(calls, [todo |-> members, merged |-> Empty])
  BY Zenon DEF MergeSchemas
<1> QED
  BY <1>1, BeginProgresses

LEMMA MergeMemberProgresses ==
    ASSUME MergerInv, NEW s, Progresses(merging, s), MergeMember, merging' # <<>>
    PROVE  Progresses(merging', s)
<1> DEFINE member == Schemas[Head(Merger.todo)]
<1>1. merging # <<>> /\ Merger.todo # <<>> /\ WellMerging(merging) /\ IsSequence(merging)
  BY DEF MergeMember, Merging, MergerInv, WellMerging
<1>2. WellFormed(member)
  <2> DEFINE q == Merger.todo
  <2>1. Len(merging) \in Nat \ {0}
    BY <1>1, FrontSequence
  <2>2. q \in Seq(Names) /\ q # <<>>
    BY <1>1, <2>1 DEF WellMerging, Merger
  <2> HIDE DEF q
  <2>3. Head(q) \in Names
    BY <2>2
  <2> QED
    BY <2>3, SchemasAssumption DEF q
<1>3. CASE ~Combining(member)
  <2>1. TakeMember(merging, member)
    BY <1>3, Zenon DEF MergeMember, Combining
  <2>2. StandsFor(member, member)
    BY <1>3 DEF StandsFor
  <2> QED
    BY <1>1, <1>2, <2>1, <2>2, TakeMemberProgresses DEF Merger
<1>4. CASE Has(member, "allOf") \/ Has(member, "anyOf")
  <2>1. MergeSchemas(merging, member)
    BY <1>4, Zenon DEF MergeMember, Combining
  <2>2. member = IF merging = <<>> THEN s ELSE Schemas[Head(merging[Len(merging)].todo)]
    BY <1>1 DEF Merger
  <2> HIDE DEF member
  <2> QED
    BY <1>1, <1>4, <2>1, <2>2, MergeSchemasProgresses
<1>5. CASE Combining(member) /\ ~(Has(member, "allOf") \/ Has(member, "anyOf"))
  <2>1. IF member.oneOf = <<>> THEN Return(Panic) /\ merging' = <<>>
        ELSE \E i \in DOMAIN member.oneOf : TakeMember(merging, Schemas[member.oneOf[i]])
    BY <1>5, Zenon DEF MergeMember
  <2>2. PICK i \in DOMAIN member.oneOf : TakeMember(merging, Schemas[member.oneOf[i]])
    BY <2>1
  <2>3. member.oneOf \in Seq(Names)
    BY <1>2, <1>5 DEF WellFormed, Combining, Has
  <2>4. WellFormed(Schemas[member.oneOf[i]])
    <3>1. member.oneOf[i] \in Names
      BY <2>2, <2>3
    <3> QED
      BY <3>1, SchemasAssumption, Zenon
  <2>5. StandsFor(Schemas[member.oneOf[i]], member)
    BY <1>5, <2>2 DEF StandsFor
  <2> QED
    BY <1>1, <2>2, <2>4, <2>5, TakeMemberProgresses DEF Merger
<1> QED
  BY <1>3, <1>4, <1>5

\* A call of the merger that is done stands for what it was for.
LEMMA MergerDone ==
    ASSUME ChainInv, MergerInv, NEW s, Progresses(merging, s), merging # <<>>, Merger.todo = <<>>
    PROVE  /\ WellFormed(Merger.merged)
           /\ IF Outer = <<>> THEN Combination(Merger.merged, s)
              ELSE /\ WellMerging(Outer) /\ Progresses(Outer, s)
                   /\ Outer[Len(Outer)].todo # <<>>
                   /\ StandsFor(Merger.merged, Schemas[Head(Outer[Len(Outer)].todo)])
<1>1. WellFormed(Merger.merged)
  BY MergerSchema DEF Assembled
<1>2. IF Outer = <<>> THEN Progress(Merger, s)
      ELSE Progresses(Outer, s) /\ Progress(Merger, Schemas[Head(Outer[Len(Outer)].todo)])
  BY OuterProgresses DEF MergerInv, Merger, Outer
<1>3. Outer # <<>> => WellMerging(Outer) /\ Outer[Len(Outer)].todo # <<>>
  BY OuterMerges DEF MergerInv, Outer
<1>4. \A source : Progress(Merger, source) =>
          Combination(Merger.merged, source) /\ StandsFor(Merger.merged, source)
  BY CombinationReached DEF StandsFor, Combining, Progress
<1> QED
  BY <1>1, <1>2, <1>3, <1>4

LEMMA MergeReturnsProgresses ==
    ASSUME ChainInv, MergerInv, NEW s, Progresses(merging, s), MergeReturns, merging' # <<>>
    PROVE  Progresses(merging', s)
<1>1. merging # <<>> /\ Merger.todo = <<>> /\ Outer # <<>> /\ TakeMember(Outer, Merger.merged)
  BY DEF MergeReturns, Merging
<1> QED
  BY <1>1, MergerDone, TakeMemberProgresses

LEMMA GenerateMergeFits ==
    ASSUME ChainInv, CallsInv, MergerInv, MergeFits, Generate
    PROVE  MergeFits'
<1>1. SUFFICES ASSUME merging' # <<>>
               PROVE  TypeOf(Top.schema) = "combined" /\ Progresses(merging', Top.schema) /\ stack' = stack
  BY DEF MergeFits, Top
<1>2. stack' = stack
  BY <1>1, GenerateIsChainStep DEF ChainStep, Returns, Calling, Continues, Merges, Crashes, Exceeds
<1>3. CASE GenerateCombined
  <2>1. merging = <<>> /\ stack # <<>> /\ TypeOf(Top.schema) = "combined" /\ MergeSchemas(merging, Top.schema)
    BY <1>3 DEF GenerateCombined, Generates, Delegates, Entered
  <2>2. Has(Top.schema, "allOf") \/ Has(Top.schema, "anyOf")
    BY <2>1, PartSchema DEF TypeOf, Get
  <2>3. IsSequence(merging) /\ Progresses(merging, Top.schema)
    BY <2>1, EmptySequence DEF Progresses
  <2>4. Top.schema = IF merging = <<>> THEN Top.schema ELSE Schemas[Head(merging[Len(merging)].todo)]
    BY <2>1
  <2> QED
    BY <1>1, <1>2, <2>1, <2>2, <2>3, <2>4, MergeSchemasProgresses
<1>4. CASE MergeMember \/ MergeReturns
  <2>1. TypeOf(Top.schema) = "combined" /\ Progresses(merging, Top.schema)
    BY <1>4 DEF MergeMember, MergeReturns, Merging, MergeFits
  <2> QED
    BY <1>1, <1>2, <1>4, <2>1, MergeMemberProgresses, MergeReturnsProgresses
<1>5. CASE merging' = merging
  BY <1>1, <1>2, <1>5 DEF MergeFits
<1>6. CASE ~(GenerateCombined \/ MergeMember \/ MergeReturns)
  BY <1>5, <1>6 DEF Generate, GenerateNull, TakeExample, GenerateScalar, GenerateUnsupported,
     GenerateOneOf, GenerateArray, NextItem, KeepItem, KeepUnique, RepeatUnique, ShortArray,
     GenerateObject, NextProperty, NextRequired, NextEntry, NextFree, KeepField, Propagate
<1> QED
  BY <1>3, <1>4, <1>6

\* The merger leaves the calls of the chain alone, or calls it for a combination.
LEMMA MergingFits ==
    ASSUME NEW root, FitCalls(root), ChainInv, CallsInv, MergerInv, MergeFits,
           GenerateCombined \/ MergeMember \/ MergeReturns
    PROVE  FitStep(root)
<1>1. options' = options
  BY DEF GenerateCombined, Generates, Delegates, MergeMember, MergeReturns, Merging
<1>2. ASSUME NEW calls, NEW s, MergeSchemas(calls, s) PROVE FitStep(root)
  <2>1. \/ stack' = <<>> /\ result' = Crash
        \/ Return(Panic)
        \/ UNCHANGED <<stack, result>>
    BY <1>2, Zenon DEF MergeSchemas
  <2> QED
    BY <1>1, <2>1, ErrorFits DEF FitStep, Crash, Panic
<1>3. ASSUME NEW calls, NEW s, TakeMember(calls, s) PROVE FitStep(root)
  BY <1>1, <1>3, ErrorFits DEF TakeMember, FitStep, Panic
<1>4. CASE GenerateCombined
  BY <1>2, <1>4 DEF GenerateCombined
<1>5. CASE MergeMember
  <2> DEFINE s == Schemas[Head(Merger.todo)]
  <2>1. CASE ~Combining(s)
    <3>1. TakeMember(merging, s)
      BY <1>5, <2>1, Zenon DEF MergeMember, Combining
    <3> QED
      BY <1>3, <3>1
  <2>2. CASE Combining(s) /\ (Has(s, "allOf") \/ Has(s, "anyOf"))
    <3>1. MergeSchemas(merging, s)
      BY <1>5, <2>2, Zenon DEF MergeMember
    <3> QED
      BY <1>2, <3>1
  <2>3. CASE Combining(s) /\ ~(Has(s, "allOf") \/ Has(s, "anyOf"))
    <3>1. IF s.oneOf = <<>> THEN Return(Panic) /\ merging' = <<>>
          ELSE \E i \in DOMAIN s.oneOf : TakeMember(merging, Schemas[s.oneOf[i]])
      BY <1>5, <2>3, Zenon DEF MergeMember
    <3> QED
      BY <1>1, <1>3, <3>1, ErrorFits DEF Panic
  <2> QED
    BY <2>1, <2>2, <2>3
<1>6. CASE MergeReturns
  <2>1. merging # <<>> /\ Merger.todo = <<>>
    BY <1>6 DEF MergeReturns, Merging
  <2>2. TypeOf(Top.schema) = "combined" /\ Progresses(merging, Top.schema) /\ stack # <<>>
    BY <2>1 DEF MergeFits, ChainInv, MergerInside
  <2>3. CASE Outer = <<>>
    <3> DEFINE call == [Top EXCEPT !.phase = "pass"]
    <3>1. Call(Now(call), Merger.merged)
      BY <1>6, <2>3 DEF MergeReturns
    <3>2. Combination(Merger.merged, Top.schema)
      BY <2>1, <2>2, <2>3, MergerDone
    <3>3. call.schema = Top.schema /\ call.phase = "pass"
      BY <2>2, TopCall DEF IsCall, Fields
    <3> HIDE DEF call
    <3>4. MadeFits(options, call) /\ Awaits(call, Merger.merged)
      BY <2>2, <3>2, <3>3 DEF MadeFits, Awaits
    <3> QED
      BY <1>1, <2>2, <3>1, <3>3, <3>4, CallFits
  <2>4. CASE Outer # <<>>
    BY <1>3, <1>6, <2>4 DEF MergeReturns
  <2> QED
    BY <2>3, <2>4
<1> QED
  BY <1>4, <1>5, <1>6

LEMMA GenerateFits ==
    ASSUME NEW root, FitCalls(root), ChainInv, CallsInv, MergerInv, OnlyExamples, MergeFits, Generate
    PROVE  FitStep(root)
<1>1. CASE GenerateNull \/ TakeExample \/ \E type \in ScalarTypes : GenerateScalar(type)
  BY <1>1, NullFits, ExampleFits, ScalarFits
<1>2. CASE GenerateUnsupported
  BY <1>2, ErrorFits DEF GenerateUnsupported, Delegates, Failed
<1>3. CASE GenerateOneOf
  BY <1>3, OneOfFits
<1>4. CASE GenerateCombined \/ MergeMember \/ MergeReturns
  BY <1>4, MergingFits
<1>5. CASE GenerateArray \/ NextItem \/ KeepItem \/ KeepUnique \/ RepeatUnique \/ ShortArray
  BY <1>5, GenerateArrayFits, NextItemFits, KeepItemFits, RepeatUniqueFits, ShortArrayFits
<1>6. CASE GenerateObject \/ NextProperty \/ NextRequired \/ NextEntry \/ NextFree \/ KeepField
  BY <1>6, GenerateObjectFits, NextPropertyFits, NextRequiredFits, NextEntryFits, NextFreeFits, KeepFieldFits
<1>7. CASE Propagate
  BY <1>7, PropagateFits
<1> QED
  BY <1>1, <1>2, <1>3, <1>4, <1>5, <1>6, <1>7, Zenon DEF Generate

-----------------------------------------------------------------------------
(* The data of a request. *)

\* While the generators work, their calls fit the schema that was asked for.
DataInv ==
    /\ stack # <<>> => Visited /\ FitCalls(Used) /\ MergeFits
    /\ DataFits

LEMMA InitDataInv == ASSUME Init PROVE DataInv
BY DEF Init, DataInv, DataFits, NoResult

LEMMA GenerateDataInv ==
    ASSUME IInv, CallsInv, MergerInv, DataInv, GenerateStep
    PROVE  DataInv'
<1>1. stack # <<>> /\ options' = options
  BY GenerateCalls DEF GenerateStep, IInv, CallStep
<1>2. UNCHANGED <<request, keys, best, content, at>> /\ at = "generate"
  BY DEF GenerateStep, routing, negotiation
<1>3. /\ Responses' = Responses /\ Key' = Key /\ Visited' = Visited /\ Used' = Used
  BY <1>1, <1>2 DEF Responses, Key, Visited, Used
<1>4. PICK root : root = Used
  OBVIOUS
<1>5. Visited /\ FitCalls(root) /\ MergeFits /\ options.useExamples # "exclusively"
  BY <1>1, <1>4 DEF DataInv, IInv, OnlyExamples
<1>6. FitStep(root)
  BY <1>5, GenerateFits DEF IInv, GenerateStep
<1>7. /\ FitCalls(root)'
      /\ stack' = <<>> /\ result'.status = "ok" => \E s \in root : Fits(options', result'.data, s)
  BY <1>1, <1>5, <1>6, FitStepKeeps
<1>8. FitCalls(Used)'
  BY <1>3, <1>4, <1>7 DEF FitCalls
<1>9. MergeFits'
  BY <1>5, GenerateMergeFits DEF IInv, GenerateStep
<1>10. DataFits'
  <2>1. SUFFICES ASSUME stack' = <<>>, result'.status = "ok" PROVE FitsRequest(result.data)'
    BY DEF DataFits
  <2>2. \E s \in Used' : Fits(options', result'.data, s)
    BY <1>3, <1>4, <1>7, <2>1
  <2>3. Has(Responses[Key], content)' /\ Visited' /\ options'.useExamples # "exclusively"
    <3>1. Has(Responses[Key], content) /\ Visited
      BY <1>5 DEF Visited
    <3> QED
      BY <1>1, <1>2, <1>3, <1>5, <3>1
  <2> QED
    BY <2>2, <2>3 DEF FitsRequest
<1> QED
  BY <1>3, <1>5, <1>8, <1>9, <1>10 DEF DataInv

\* The steps around the generators keep what was generated.
LEMMA RestingDataInv ==
    ASSUME IInv, IInv', DataInv, [Next]_vars, ~GenerateStep, ~Negotiated
    PROVE  DataInv'
<1>1. UNCHANGED <<options, stack, merging, result>>
  BY HandlerRests DEF generation
<1>2. CASE stack # <<>> \/ at' \in {"generate", "respond"}
  <2>1. stack # <<>> => at = "generate" /\ at' = "generate"
    BY <1>1 DEF IInv, PlaceInv
  <2>2. /\ at \in {"generate", "respond"}
        /\ UNCHANGED <<request, keys, best, content>>
    BY <1>2, <2>1 DEF Next, Handle, Proceed, Receive, TryMethod, Decide, Decided, FindRoute, Validate, VisitKey,
       Generated, Done, Respond, ReadStored, WriteResponse, Write, Goto, vars, routing, negotiation
  <2>3. /\ Responses' = Responses /\ Key' = Key /\ Visited' = Visited /\ Used' = Used /\ Top' = Top
    BY <1>1, <2>2 DEF Responses, Key, Visited, Used, Top
  <2>4. DataFits'
    BY <1>1, <2>2, <2>3 DEF DataInv, DataFits, FitsRequest
  <2>5. stack' # <<>> => FitCalls(Used)' /\ MergeFits'
    BY <1>1, <2>3 DEF DataInv, FitCalls, MergeFits
  <2> QED
    BY <1>1, <2>3, <2>4, <2>5 DEF DataInv
<1>3. CASE stack = <<>> /\ at' \notin {"generate", "respond"}
  BY <1>1, <1>3 DEF DataInv, DataFits
<1> QED
  BY <1>2, <1>3

\* What the call of GenerateData for a media type begins.
LEMMA GenerateDataFits ==
    ASSUME stack = <<>>, options' = options, at' = "generate", MergeFits',
           Has(Responses[Key], content)',
           GenerateData(Responses[Key][content]', Used')
    PROVE  DataInv'
<1> DEFINE media == Responses[Key][content]'
<1>1. CASE options.useExamples # "no" /\ Has(media, "examples")
  <2>1. \E e \in media.examples : result' = Ok(e) /\ stack' = stack
    BY <1>1 DEF GenerateData
  <2>2. ~Visited' /\ result'.data \in media.examples /\ stack' = <<>>
    BY <1>1, <2>1 DEF Visited, Ok
  <2> QED
    BY <2>2 DEF DataInv, DataFits, FitsRequest
<1>2. CASE ~Has(media, "examples") /\ options.useExamples = "exclusively"
  <2>1. result' = Ok(Null) /\ stack' = stack
    BY <1>2, Zenon DEF GenerateData
  <2>2. Visited' /\ result'.data = Null /\ options'.useExamples = "exclusively" /\ stack' = <<>>
    BY <1>2, <2>1 DEF Visited, Ok
  <2> QED
    BY <2>2 DEF DataInv, DataFits, FitsRequest
<1>3. CASE /\ ~(options.useExamples # "no" /\ Has(media, "examples"))
           /\ ~(~Has(media, "examples") /\ options.useExamples = "exclusively")
  <2>1. Visited' /\ options.useExamples # "exclusively"
    BY <1>3 DEF Visited
  <2>2. IF Used' = {} THEN result' = Panic /\ UNCHANGED stack ELSE \E s \in Used' : Call(<<>>, s)
    BY <1>3, Zenon DEF GenerateData
  <2>3. CASE result' = Panic /\ UNCHANGED stack
    BY <2>3 DEF DataInv, DataFits, Panic
  <2>4. ASSUME NEW s \in Used', Call(<<>>, s) PROVE DataInv'
    <3>1. stack' = Append(<<>>, Frame(s)) /\ result' = NoResult
      <4>1. ~(Len(<<>>) >= MaxLevel)
        BY EmptySequence, LevelAssumption
      <4> QED
        BY <2>4, <4>1 DEF Call
    <3>2. MadeFits(options, Frame(s)) /\ Frame(s).schema = s
      BY DEF MadeFits, Frame
    <3> DEFINE root == Used'
    <3>3. Linked(options, Append(<<>>, Frame(s)), root)
      <4>1. Linked(options, <<>>, root) /\ Frame(s).schema \in root
        BY <2>4, <3>2, EmptyLinked
      <4> HIDE DEF root
      <4> QED
        BY <3>2, <4>1, LinkedAppend
    <3>4. FitCalls(Used)' /\ stack' # <<>>
      <4>1. Append(<<>>, Frame(s)) # <<>>
        BY EmptyWaits, AppendWaits
      <4> QED
        BY <3>1, <3>3, <4>1 DEF FitCalls, NoResult
    <3> QED
      BY <2>1, <3>4 DEF DataInv, DataFits
  <2> QED
    BY <2>2, <2>3, <2>4
<1> QED
  BY <1>1, <1>2, <1>3

LEMMA NegotiatedDataInv ==
    ASSUME IInv, RouteInv, CodeInv, DataInv, Negotiated
    PROVE  DataInv'
<1>1. at = "negotiate" /\ keys = {} /\ stack = <<>> /\ merging = <<>> /\ result = NoResult
  BY DEF Negotiated, IInv, PlaceInv, Before
<1>2. /\ UNCHANGED <<options, merging, request, best>>
      /\ Responses' = Responses /\ Key' = Key
  BY DEF Negotiated, routing, Responses, Key
<1>3. MergeFits'
  BY <1>1, <1>2 DEF MergeFits
<1>4. CASE Key = None
  BY <1>1, <1>4 DEF Negotiated, Write, DataInv, DataFits
<1>5. CASE Key # None
  <2> DEFINE response == Responses[Key]
             type == content'
  <2>1. type \in NegotiateContentType(response) /\ GenerateContent(response, type) /\ at' = "generate"
    BY <1>5 DEF Negotiated, Goto
  <2>2. response = Responses[Key]'
    BY <1>2
  <2>3. Has(response, type) \/ type = "json"
    BY <2>1 DEF NegotiateContentType, Has
  <2>4. CASE ~Has(response, type)
    <3>1. type = "json"
      BY <2>3, <2>4
    <3>2. result' = Ok([string |-> ""]) /\ UNCHANGED stack
      BY <2>1, <2>4, <3>1, Zenon DEF GenerateContent
    <3>3. stack' = <<>> /\ result'.data = [string |-> ""]
      BY <1>1, <3>2 DEF Ok
    <3> HIDE DEF response
    <3>4. ~Has(Responses[Key], content)'
      BY <2>2, <2>4
    <3> QED
      BY <3>3, <3>4 DEF DataInv, DataFits, FitsRequest
  <2>5. CASE Has(response, type)
    <3> DEFINE media == response[type]
    <3>1. \/ type \in {"json", "xml"} /\ GenerateData(media, MediaSchema(media))
          \/ type = "html" /\ GenerateData(media, HtmlSchema(media))
          \/ type = "plain" /\ GenerateData(media, TextSchema(media))
          \/ result' = Failed /\ UNCHANGED stack
      BY <2>1, <2>5 DEF GenerateContent
    <3>2. CASE result' = Failed /\ UNCHANGED stack
      BY <1>1, <3>2 DEF DataInv, DataFits, Failed
    <3>3. CASE ~(result' = Failed /\ UNCHANGED stack)
      <4>1. media = Responses[Key][content]'
        BY <2>2
      <4>2. GenerateData(media, Used')
        BY <3>1, <3>3, <4>1 DEF Used
      <4>3. Has(Responses[Key], content)'
        BY <2>2, <2>5
      <4>4. GenerateData(Responses[Key][content]', Used')
        BY <4>1, <4>2
      <4> QED
        BY <1>1, <1>2, <1>3, <2>1, <4>3, <4>4, GenerateDataFits
    <3> QED
      BY <3>2, <3>3
  <2> QED
    BY <2>4, <2>5
<1> QED
  BY <1>4, <1>5

-----------------------------------------------------------------------------
(* The theorem *)

LEMMA NextDataInv == ASSUME Inv, Inv', DataInv, [Next]_vars PROVE DataInv'
<1>1. CASE GenerateStep
  BY <1>1, GenerateDataInv DEF Inv
<1>2. CASE Negotiated
  BY <1>2, NegotiatedDataInv DEF Inv
<1>3. CASE ~GenerateStep /\ ~Negotiated
  BY <1>3, RestingDataInv DEF Inv
<1> QED
  BY <1>1, <1>2, <1>3

\* What is generated for a request fits its schema in every part, however deep,
\* whatever schemas contain themselves or combine one another: unless an example,
\* a default or null is allowed there, no part is for another schema, no item, entry
\* or shown property is missing, and no member of allOf was left out of the merged
\* schema (arrayGenerationDelegator.go, objectGenerationDelegator.go, schemaMerger.go).
THEOREM DataFitsSchema == Spec => []DataFits
<1>1. Init => DataInv
  BY InitDataInv
<1>2. Inv /\ Inv' /\ DataInv /\ [Next]_vars => DataInv'
  BY NextDataInv
<1>3. DataInv => DataFits
  BY DEF DataInv
<1> QED
  BY <1>1, <1>2, <1>3, Invariant, PTL DEF Spec
=============================================================================
