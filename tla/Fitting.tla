------------------------------- MODULE Fitting -------------------------------
(***************************************************************************)
(* What the generators promise of whole data and its schema.  Schemas and  *)
(* data contain others, and a schema can contain itself: data fits when    *)
(* there are pairs, of data and the schema it is for, that contain it and  *)
(* account for one another.  What a scalar can be is what its generator    *)
(* gives, Scalars.                                                         *)
(*                                                                         *)
(* TLC does not evaluate this, as the pairs can be any; Conformance says   *)
(* for TLC what OpenAPI means, and DataProofs proves this.                 *)
(***************************************************************************)
EXTENDS Response

IsRequired(s, p) == \E i \in DOMAIN Required(s) : Required(s)[i] = p

\* A schema that was merged has what a part of it gives and keeps.
Contains(m, part) ==
    /\ Kept(part) \subseteq DOMAIN m
    /\ Properties(part) \subseteq Properties(m)
    /\ \A p : IsRequired(part, p) => IsRequired(m, p)

\* What stands for a member when it is merged: a schema for a combining one, any
\* alternative of oneOf, or the member itself.
PartOf(part, s, pairs) ==
    IF ~Combining(s) THEN part = s
    ELSE IF Has(s, "allOf") \/ Has(s, "anyOf") THEN <<part, s>> \in pairs
    ELSE \E i \in DOMAIN s.oneOf : part = Schemas[s.oneOf[i]]

\* Every member, or the one that was chosen, is in m.
MergedBy(m, s, pairs) ==
    \E members \in Members(s) : \A i \in DOMAIN members :
        \E part : PartOf(part, Schemas[members[i]], pairs) /\ Contains(m, part)

ClosedMerging(pairs) == \A m, s : <<m, s>> \in pairs => MergedBy(m, s, pairs)

\* m has everything that s combines, members of members included: all of an allOf, one of an anyOf.
Combination(m, s) == \E pairs : ClosedMerging(pairs) /\ <<m, s>> \in pairs

\* Enough items for the schema of items, no two alike where they are unique.  The
\* type empty of YANG, which x-empty stands for, is an array of null.
ArrayFits(d, s, pairs) ==
    \/ ~Has(s, "unique") /\ Has(s, "x-empty") /\ d = Array(<<Null>>)
    \/ \E items :
           /\ d = Array(items)
           /\ \E S : items \in Seq(S)
           /\ Len(items) >= MinItems(s)
           /\ Has(s, "unique") => \A i, j \in DOMAIN items : i # j => items[i] # items[j]
           /\ \A i \in DOMAIN items : Has(s, "items") /\ <<items[i], Schemas[s.items]>> \in pairs

\* A plain object has the properties that are shown and no others, a hash map the
\* required ones and other entries, a free-form object texts.
ObjectFits(d, s, pairs) ==
    \E fields :
        /\ d = Object(fields)
        /\ IsFiniteSet(DOMAIN fields)
        /\ IsFreeForm(s) => Cardinality(DOMAIN fields) >= MinProps(s)
        /\ IsHashMap(s) =>
               /\ \A p : IsRequired(s, p) => p \in DOMAIN fields
               /\ \A p \in DOMAIN fields :
                      IF IsRequired(s, p)
                      THEN p \in Properties(s) /\ <<fields[p], Schemas[s.props[p]]>> \in pairs
                      ELSE <<fields[p], Schemas[s.additional]>> \in pairs
        /\ IsFreeForm(s) /\ ~IsHashMap(s) => \A p \in DOMAIN fields : fields[p] = [string |-> "lorem"]
        /\ ~IsFreeForm(s) =>
               /\ DOMAIN fields = Shown(s)
               /\ \A p \in DOMAIN fields : <<fields[p], Schemas[s.props[p]]>> \in pairs

\* What stands for data of any schema if the options o allow it, and what the
\* generator of its type gives; the parts of d are in pairs with their schemas.
FitsBy(o, d, s, pairs) ==
    \/ o.nulls /\ Has(s, "nullable") /\ d = Null
    \/ o.useExamples # "no" /\ Has(s, "example") /\ d = s.example
    \/ o.suppress /\ d = Default(s)
    \/ TypeOf(s) \in ScalarTypes /\ \E r \in ScalarResults(TypeOf(s), s) : r.status = "ok" /\ r.data = d
    \/ TypeOf(s) = "array" /\ ArrayFits(d, s, pairs)
    \/ TypeOf(s) = "object" /\ ObjectFits(d, s, pairs)
    \/ TypeOf(s) = "oneOf" /\ s.oneOf = <<>> /\ d = Object(Empty)
    \/ TypeOf(s) = "oneOf" /\ \E i \in DOMAIN s.oneOf : <<d, Schemas[s.oneOf[i]]>> \in pairs
    \/ TypeOf(s) = "combined" /\ \E m : Combination(m, s) /\ <<d, m>> \in pairs

ClosedFitting(o, pairs) == \A d, s : <<d, s>> \in pairs => FitsBy(o, d, s, pairs)

\* d fits s, part by part to any depth.
Fits(o, d, s) == \E pairs : ClosedFitting(o, pairs) /\ <<d, s>> \in pairs

-----------------------------------------------------------------------------
(* The data of a request. *)

\* The schema of a media type is visited, unless its examples are taken.
Visited ==
    /\ Has(Responses[Key], content)
    /\ options.useExamples # "no" => ~Has(Responses[Key][content], "examples")

\* Data for a request: an empty text without a media type, one of its examples, null
\* when examples are to be used exclusively, or data that fits the schema.
FitsRequest(data) ==
    LET response == Responses[Key]
    IN  IF ~Has(response, content) THEN data = [string |-> ""]
        ELSE IF ~Visited THEN data \in response[content].examples
        ELSE IF options.useExamples = "exclusively" THEN data = Null
        ELSE \E s \in Used : Fits(options, data, s)

\* Whatever is generated is data for the request: schemas that contain themselves,
\* nested calls that fail and are suppressed, values that are drawn again and merged
\* schemas never put a part where its schema does not belong or leave one out.
DataFits ==
    at \in {"generate", "respond"} /\ stack = <<>> /\ result.status = "ok" => FitsRequest(result.data)
=============================================================================
