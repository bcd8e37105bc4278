------------------------------ MODULE Schemas ------------------------------
(***************************************************************************)
(* The schemas of an OpenAPI specification as the generators read them     *)
(* (openapi3.Schema of the library kin-openapi), the data they make and    *)
(* the ways a generator can return.                                        *)
(*                                                                         *)
(* A schema is a function from the attributes it gives to their values:    *)
(* a nil pointer, an empty string, an empty list and FALSE are attributes  *)
(* that are not given.  Schemas refer to each other by name, so that a     *)
(* schema can contain itself, as a resolved $ref can.                      *)
(***************************************************************************)
EXTENDS Integers, Sequences

CONSTANTS
    Schemas,   \* the schema of every name
    Null       \* the JSON null, nil in Go

Names == DOMAIN Schemas

Has(s, attribute) == attribute \in DOMAIN s

Get(s, attribute, otherwise) == IF Has(s, attribute) THEN s[attribute] ELSE otherwise

Default(s) == Get(s, "default", Null)

\* What OpenAPI says of a number and its bounds.
InBounds(v, s) ==
    /\ Has(s, "min") => v >= s.min /\ (Has(s, "exclusiveMin") => v > s.min)
    /\ Has(s, "max") => v <= s.max /\ (Has(s, "exclusiveMax") => v < s.max)

\* Data that has structure; the values of scalars are those of Scalars.
Array(items)   == [array |-> items]
Object(fields) == [object |-> fields]

-----------------------------------------------------------------------------
(* What a call returns: data, an error, the error of a value that could not *)
(* be made unique, or not at all.                                            *)

Ok(data)         == [status |-> "ok", data |-> data]
Failed           == [status |-> "failed"]
AttemptsExceeded == [status |-> "attempts"]
Panic            == [status |-> "panic"]

IsError(r) == r.status \in {"failed", "attempts"}
=============================================================================
