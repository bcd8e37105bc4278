----------------------------- MODULE MCResponse -----------------------------
(* Specifications for TLC: a schema of every kind and one operation for each. *)
EXTENDS Conformance, ResponseDescent, TLC

MCSchemas ==
    [small     |-> [type |-> "integer", min |-> 0, max |-> 1],
     wide      |-> [type |-> "integer", min |-> -8, max |-> 7],
     beyond    |-> [type |-> "integer", min |-> 3, max |-> 9, exclusiveMax |-> TRUE],
     multiple  |-> [type |-> "integer", min |-> 1, max |-> 6, multipleOf |-> 4],
     even      |-> [type |-> "integer", min |-> -4, max |-> 4, multipleOf |-> 4],
     single    |-> [type |-> "integer", min |-> 3, max |-> 3, multipleOf |-> 2],
     deep      |-> [type |-> "integer", min |-> -30, max |-> -20],
     grade     |-> [type |-> "integer", enum |-> <<1, 2>>],
     fraction  |-> [type |-> "integer", multipleOf |-> 0],
     never     |-> [type |-> "integer", min |-> 3, max |-> 1, default |-> [integer |-> 2]],
     short     |-> [type |-> "integer", format |-> "int32", exclusiveMin |-> TRUE],
     price     |-> [type |-> "number", min |-> 1, max |-> 3, multipleOf |-> 2],
     pairs     |-> [type |-> "number", min |-> -2, max |-> 2, multipleOf |-> 2],
     ratio     |-> [type |-> "number", min |-> 0, max |-> 2, exclusiveMax |-> TRUE],
     color     |-> [type |-> "string", enum |-> <<"red", "blue">>],
     secret    |-> [type |-> "string", writeOnly |-> TRUE],
     maybe     |-> [type |-> "boolean", nullable |-> TRUE],
     word      |-> [type |-> "string", minLength |-> 1, maxLength |-> 2],
     wrong     |-> [type |-> "string", minLength |-> 2, maxLength |-> 1],
     bytes     |-> [type |-> "string", format |-> "byte", maxLength |-> 5],
     lookahead |-> [type |-> "string", pattern |-> "lookahead"],
     pattern   |-> [type |-> "string", pattern |-> "letters"],
     decimal   |-> ("type" :> "string" @@ "pattern" :> "digits" @@ "x-range" :> "valid"),
     untyped   |-> ("type" :> "string" @@ "pattern" :> "digits" @@ "x-range" :> "incomplete"),
     page      |-> [type |-> "string", format |-> "html"],
     file      |-> [type |-> "file"],
     pair      |-> [type |-> "array", items |-> "color", minItems |-> 2],
     colors    |-> [type |-> "array", items |-> "color", minItems |-> 2, unique |-> TRUE],
     crowd     |-> [type |-> "array", items |-> "small", minItems |-> 3, unique |-> TRUE],
     crowds    |-> [type |-> "array", items |-> "crowd", unique |-> TRUE],
     hollow    |-> [type |-> "array", unique |-> TRUE],
     empty     |-> ("type" :> "array" @@ "items" :> "maybe" @@ "x-empty" :> TRUE),
     node      |-> [type |-> "object", props |-> [next |-> "node", tag |-> "color"]],
     account   |-> [props |-> [name |-> "color", password |-> "secret"]],
     known     |-> [type |-> "object", props |-> [name |-> "maybe"],
                    example |-> Object([name |-> [boolean |-> TRUE]])],
     table     |-> [type |-> "object", additional |-> "small", minProps |-> 2,
                    required |-> <<"id">>, props |-> [id |-> "small"]],
     vault     |-> [type |-> "object", additional |-> "small",
                    required |-> <<"key">>, props |-> [key |-> "secret"]],
     lost      |-> [type |-> "object", additional |-> "small", required |-> <<"id">>],
     free      |-> [type |-> "object", allowed |-> TRUE, minProps |-> 2],
     crammed   |-> [type |-> "object", allowed |-> TRUE, minProps |-> 4],
     hole      |-> [allOf |-> <<"nothing">>],
     one       |-> [oneOf |-> <<"small", "never", "color">>],
     nothing   |-> [oneOf |-> <<>>],
     pet       |-> [allOf |-> <<"account", "inner">>],
     inner     |-> [allOf |-> <<"tail", "either">>],
     tail      |-> [type |-> "object", props |-> [tail |-> "small"]],
     either    |-> [oneOf |-> <<"tail", "account">>],
     some      |-> [anyOf |-> <<"free", "small", "color">>],
     choice    |-> [anyOf |-> <<"small", "color">>],
     boxed     |-> [allOf |-> <<"known">>],
     loop      |-> [allOf |-> <<"tail", "loop">>]]

Json(name) == [json |-> [schema |-> name]]

\* An operation for every schema, and others for the rest of the way.
MCOperations ==
    [o \in (DOMAIN MCSchemas) \X {"GET"} |-> "200" :> Json(o[1])]
    @@ <<"/codes", "GET">>   :> ("404" :> Json("small") @@ "204" :> Json("small") @@ "2xx" :> Json("tail")
                                 @@ "201" :> Json("small") @@ "x" :> Json("small"))
    @@ <<"/errors", "GET">>  :> ("default" :> Json("small") @@ "404" :> Json("tail"))
    @@ <<"/errors", "POST">> :> ("x" :> Json("small"))
    @@ <<"/types", "GET">>   :> ("200" :> [html |-> [schema |-> "small"], plain |-> [schema |-> "color"],
                                           xml |-> [schema |-> "tail"], other |-> [schema |-> "small"]])
    @@ <<"/types", "HEAD">>  :> ("200" :> [html |-> [schema |-> "page"], plain |-> [schema |-> "small"]])
    @@ <<"/data", "GET">>    :> ("200" :> [json |-> [schema |-> "tail", examples |-> {[integer |-> 7]}]])
    @@ <<"/data", "DELETE">> :> ("204" :> [c \in {} |-> {}])
    @@ <<"/data", "PUT">>    :> ("201" :> [json |-> [c \in {} |-> {}]])
    @@ <<"/call", "POST">>   :> ("200" :> [plain |-> [examples |-> {Object(Empty)}], json |-> [schema |-> "some"]])

MCMaxMerging == Cardinality(DOMAIN MCSchemas) + 1

MCMinInt == -8
MCMinFloat == -2

MCCode == ("200" :> 200 @@ "2xx" :> 200 @@ "201" :> 201 @@ "204" :> 204 @@ "404" :> 404 @@ "default" :> 500)

\* For anyOf alone.
AnyOfOperations == [o \in {"choice", "some"} \X {"GET"} |-> "200" :> Json(o[1])]
=============================================================================
