------------------------------ MODULE Response ------------------------------
(***************************************************************************)
(* One request from the options handler to its answer: the methods that    *)
(* are allowed (optionsHandler.go), routing and validation (lines 351-428  *)
(* of ResponseGeneratorHandler.go), the negotiation of the status code and *)
(* of the content type, the generation of the data, the lookup of stored   *)
(* data and the responder.  A request is handed over where another module  *)
(* goes on: TopologyTrigger, SubscriptionCenter and Datastore.             *)
(*                                                                         *)
(* Handlers share the router, the specification and the options, and       *)
(* change none of them, so one request is followed at a time.              *)
(***************************************************************************)
EXTENDS Generation

CONSTANTS
    Operations,   \* the responses by key of every path and method with a route
    Code,         \* the status code of the keys that stand for one
    Calls         \* the paths of operations (RPCs)

ASSUME CodeAssumption == Code \in [DOMAIN Code -> Nat] /\ "none" \notin DOMAIN Code

\* Every media type without a generator is "other"; the schemas are resolved.
ASSUME OperationsAssumption ==
    \A operation \in DOMAIN Operations : \A key \in DOMAIN Operations[operation] :
        LET response == Operations[operation][key]
        IN  /\ DOMAIN response \subseteq {"json", "xml", "html", "plain", "other"}
            /\ \A type \in DOMAIN response :
                   Has(response[type], "schema") => response[type].schema \in Names

\* The responses of an operation are a map.
ASSUME ResponsesAssumption ==
    \A operation \in DOMAIN Operations : IsFiniteSet(DOMAIN Operations[operation])

VARIABLES
    request,    \* its path and its method, which the options handler changes
    asked,      \* the method that was asked for (originalMethod)
    at,         \* where the handlers are
    probing,    \* the methods the options handler has still to try
    allowed,    \* the methods that are allowed
    keys,       \* the keys of responses the negotiator has still to visit
    best,       \* the keys of the least success and of the least other code
    content,    \* the negotiated content type
    answer      \* the status that was written

routing == <<request, asked, probing, allowed>>

negotiation == <<keys, best, content>>

vars == <<generation, routing, negotiation, at, answer>>

Special == {"trigger", "stream"}

Methods == <<"HEAD", "GET", "POST", "PUT", "PATCH", "DELETE">>

Unanswered == 0

Write(status) == at' = "done" /\ answer' = status

Goto(place) == at' = place /\ UNCHANGED answer

-----------------------------------------------------------------------------
(* The options handler *)

HasRoute(r) == <<r.path, r.method>> \in DOMAIN Operations

Receive(path, method) ==
    /\ at = "idle"
    /\ request' = [path |-> path, method |-> method]
    /\ asked' = method
    /\ probing' = Methods
    /\ allowed' = {"OPTIONS"}
    /\ Goto("options")
    /\ UNCHANGED <<generation, negotiation>>

\* The router is asked for each method in turn, which is put into the request.
TryMethod ==
    /\ at = "options"
    /\ probing # <<>>
    /\ LET r == [request EXCEPT !.method = Head(probing)]
       IN  /\ request' = r
           /\ allowed' = IF HasRoute(r) \/ (r.path \in Special /\ r.method = "GET")
                         THEN allowed \cup {r.method} ELSE allowed
    /\ probing' = Tail(probing)
    /\ UNCHANGED <<generation, negotiation, asked, at, answer>>

Decided ==
    /\ at = "options"
    /\ probing = <<>>
    /\ CASE asked = "OPTIONS" -> Write(200)
         [] asked # "OPTIONS" /\ allowed = {"OPTIONS"} -> Write(404)
         [] asked \in allowed \ {"OPTIONS"} -> Goto("route")
         [] OTHER -> Write(405)

MutantDecide == Decided /\ UNCHANGED <<generation, negotiation, routing>>

Decide ==
    /\ Decided
    /\ request' = [request EXCEPT !.method = asked]
    /\ UNCHANGED <<generation, negotiation, asked, probing, allowed>>

-----------------------------------------------------------------------------
(* Routing and validation *)

\* The router is asked again; a path parameter may be escaped badly.
FindRoute ==
    /\ at = "route"
    /\ CASE request.path \in Special -> Goto("handed")
         [] request.path \notin Special /\ HasRoute(request) -> Goto("validate") \/ Write(500)
         [] OTHER -> Write(404)
    /\ UNCHANGED <<generation, negotiation, routing>>

Responses == Operations[<<request.path, request.method>>]

\* The body cannot be read, or the validation service refuses the request or
\* fails; otherwise the negotiation begins.  The call of that service, an external
\* process, has no deadline (line 407), so that the request may wait here for ever.
Validate ==
    /\ at = "validate"
    /\ \/ Write(400) /\ UNCHANGED keys
       \/ Write(500) /\ UNCHANGED keys
       \/ Goto("negotiate") /\ keys' = DOMAIN Responses
    /\ UNCHANGED <<generation, routing, best, content>>

-----------------------------------------------------------------------------
(* The negotiation of the status code, StatusCodeNegotiator.go, and of the  *)
(* content type                                                              *)

None == "none"

CodeOf(key) == Code[key]

Less(key, than) == than = None \/ CodeOf(key) < CodeOf(than)

MutantBetter(key) ==
    IF CodeOf(key) \in 200 .. 299 THEN [best EXCEPT !.success = key]
    ELSE IF Less(key, best.other) THEN [best EXCEPT !.other = key] ELSE best

\* A success code that is not less than the least so far counts as another code.
Better(key) ==
    IF CodeOf(key) \in 200 .. 299 /\ Less(key, best.success)
    THEN [best EXCEPT !.success = key]
    ELSE IF Less(key, best.other) THEN [best EXCEPT !.other = key] ELSE best

\* The keys come in any order, and those that are no code are skipped.
VisitKey ==
    /\ at = "negotiate"
    /\ \E key \in keys :
           /\ keys' = keys \ {key}
           /\ best' = IF key \in DOMAIN Code THEN Better(key) ELSE best
    /\ UNCHANGED <<generation, routing, content, at, answer>>

Key == IF best.success # None THEN best.success ELSE best.other

\* The library picks one of the offered types by the header Accept, and a random
\* one without it.
NegotiateContentType(response) ==
    IF DOMAIN response = {} THEN {"json"} ELSE DOMAIN response

\* The schema of a text or a page is replaced when it is none.
TextSchema(media) ==
    IF Has(media, "schema") /\ Get(Schemas[media.schema], "type", "") = "string"
    THEN {Schemas[media.schema]} ELSE {[type |-> "string"]}

HtmlSchema(media) ==
    IF Has(media, "schema") /\ Get(Schemas[media.schema], "type", "") = "string"
       /\ Get(Schemas[media.schema], "format", "") = "html"
    THEN {Schemas[media.schema]} ELSE {[type |-> "string", format |-> "html"]}

MediaSchema(media) == IF Has(media, "schema") THEN {Schemas[media.schema]} ELSE {}

\* The generator of the content type: JSON and XML without a media type are an
\* empty text, other types are not supported.
GenerateContent(response, type) ==
    CASE type \in {"json", "xml"} /\ Has(response, type) ->
           GenerateData(response[type], MediaSchema(response[type]))
      [] type \in {"json", "xml"} /\ ~Has(response, type) ->
           result' = Ok([string |-> ""]) /\ UNCHANGED stack
      [] type = "html"  -> GenerateData(response[type], HtmlSchema(response[type]))
      [] type = "plain" -> GenerateData(response[type], TextSchema(response[type]))
      [] OTHER          -> result' = Failed /\ UNCHANGED stack

Negotiated ==
    /\ at = "negotiate"
    /\ keys = {}
    /\ IF Key = None
       THEN Write(500) /\ UNCHANGED <<stack, result, content>>
       ELSE /\ \E type \in NegotiateContentType(Responses[Key]) :
                   content' = type /\ GenerateContent(Responses[Key], type)
            /\ Goto("generate")
    /\ UNCHANGED <<options, merging, routing, keys, best>>

GenerateStep ==
    /\ at = "generate"
    /\ Generate
    /\ UNCHANGED <<routing, negotiation, at, answer>>

Done == at = "generate" /\ stack = <<>> /\ result # NoResult

\* An error is answered, a panic recovered, an exhausted stack ends the process
\* and leaves the request without an answer.
Generated ==
    /\ Done
    /\ CASE result.status = "ok" -> Goto("respond")
         [] result = Crash -> Goto("crashed")
         [] OTHER -> Write(500)
    /\ UNCHANGED <<generation, routing, negotiation>>

-----------------------------------------------------------------------------
(* The answer: lines 450-457 and 542-565, and coordinatingResponder.go *)

IsObject(data) == data # Null /\ "object" \in DOMAIN data

IsText(data) == data # Null /\ DOMAIN data \cap {"string", "text", "format", "matches"} # {}

\* A page or a text that is none cannot be serialized.
WriteResponse(data) ==
    IF CodeOf(Key) # 204 /\ content \in {"html", "plain"} /\ ~IsText(data)
    THEN Write(500) ELSE Write(CodeOf(Key))

\* An answer from the datastore takes its key from the generated data, which
\* must be an object: otherwise the conversion panics, and that is recovered.
ReadStored ==
    \/ IF IsObject(result.data) THEN WriteResponse(Object(Empty)) ELSE Write(500)
    \/ Write(404)
    \/ WriteResponse(result.data)

Respond ==
    /\ at = "respond"
    /\ \/ Write(500)
       \/ IF request.path \in Calls THEN WriteResponse(result.data)
          ELSE IF request.method \in {"GET", "HEAD"} THEN ReadStored
          ELSE Goto("handed")
    /\ UNCHANGED <<generation, routing, negotiation>>

Init ==
    /\ options \in Options
    /\ stack = <<>>
    /\ merging = <<>>
    /\ result = NoResult
    /\ request = [path |-> None, method |-> None]
    /\ asked = None
    /\ at = "idle"
    /\ probing = <<>>
    /\ allowed = {}
    /\ keys = {}
    /\ best = [success |-> None, other |-> None]
    /\ content = None
    /\ answer = Unanswered

\* The steps of the handlers that wait for nobody.
Proceed ==
    \/ TryMethod \/ Decide \/ FindRoute \/ VisitKey \/ Negotiated
    \/ GenerateStep \/ Generated \/ Respond

Handle == Proceed \/ Validate

Paths == {operation[1] : operation \in DOMAIN Operations} \cup Special \cup {"unknown"}

Next ==
    \/ \E path \in Paths, method \in {Methods[i] : i \in DOMAIN Methods} \cup {"OPTIONS"} :
           Receive(path, method)
    \/ Handle

Spec == Init /\ [][Next]_vars

\* The scheduler runs the handler; the validation service may never reply.
FairSpec == Spec /\ WF_vars(Proceed)

-----------------------------------------------------------------------------
(* Properties *)

\* Every variable has the values the code can give it: the chain of generators is
\* never deeper than the breaker lets it be, and nothing is left of it when the
\* answer is made.
TypeOK ==
    /\ options \in Options
    /\ Len(stack) <= MaxLevel
    /\ Len(merging) <= MaxMerging
    /\ result.status \in {"none", "ok", "failed", "attempts", "panic", "crash"}
    /\ at \in {"idle", "options", "route", "validate", "negotiate", "generate", "respond", "handed",
              "done", "crashed"}
    /\ at # "generate" => stack = <<>> /\ merging = <<>>
    /\ at = "respond" => result.status = "ok"

\* The handler behind the options handler finds the route again: although the
\* options handler puts other methods into the request, it leaves the one that
\* was asked for, and only if it is allowed.
RouteFoundAgain ==
    at = "route" => HasRoute(request) \/ (request.path \in Special /\ request.method = "GET")

\* The codes of the responses whose keys stand for one.
Codes == {CodeOf(key) : key \in DOMAIN Responses \cap DOMAIN Code}

Successes == Codes \cap (200 .. 299)

\* The negotiated response has the least success code, or the least code if
\* none is a success, in whatever order the map of responses is visited.
LeastCode ==
    at \in {"generate", "respond"} =>
        LET among == IF Successes # {} THEN Successes ELSE Codes
        IN  CodeOf(Key) \in among /\ \A code \in among : CodeOf(Key) <= code

\* With suppress_errors no error of a generator reaches the handler, at whatever
\* depth it happens ("generation errors will be suppressed and default values
\* used instead", docs/usage_guide.md:257); a type without generator is one, too.
SuppressedNeverFails ==
    options.suppress /\ content # "other" /\ stack = <<>> => ~IsError(result)

\* With use_examples = exclusively no schema is visited, so that no data is
\* random ("no random data generation", docs/usage_guide.md:271).
OnlyExamples ==
    options.useExamples = "exclusively" => stack = <<>>

\* The schema that the content generator chose for the negotiated type.
Used == LET media == Responses[Key][content]
        IN  CASE content = "html"  -> HtmlSchema(media)
              [] content = "plain" -> TextSchema(media)
              [] OTHER             -> MediaSchema(media)

\* What a list or an object that the top call made has to have.
HasItsParts(call, data) ==
    CASE call.phase = "item" -> Len(data.array) = Length(MinItems(call.schema))
      [] call.phase = "unique" ->
             /\ Len(data.array) >= MinItems(call.schema)
             /\ \A i, j \in DOMAIN data.array : i # j => data.array[i] # data.array[j]
      [] call.phase = "property" -> DOMAIN data.object = Shown(call.schema)
      [] call.phase \in {"entry", "free"} ->
             /\ Cardinality(DOMAIN data.object) >= MinProps(call.schema)
             /\ call.phase = "entry" =>
                    \A i \in DOMAIN Required(call.schema) :
                        Required(call.schema)[i] \in DOMAIN data.object
      [] OTHER -> TRUE

\* A list or an object that is returned has all its parts, whatever the order its
\* properties are visited in, whichever values repeat and wherever attempts are
\* given up; one that has not is an error.  An array is filled by items of items,
\* and their failures look like its own.
PartsAreMade ==
    [][stack # <<>> /\ Len(stack') < Len(stack) /\ result'.status = "ok" /\ ~options.suppress =>
           HasItsParts(Top, result'.data)]_result

\* One schema lists another to be merged into it.
Combines(a, b) ==
    \E list \in {"allOf", "anyOf"} \cap DOMAIN Schemas[a] :
        \E i \in DOMAIN Schemas[a][list] : Schemas[a][list][i] = b

\* The members that the nested calls of the merger are at.
Merged == {Head(merging[i].todo) : i \in DOMAIN merging}

\* The merger, which no breaker watches, exhausts the stack of the process only if
\* it goes around in a circle of schemas that combine one another.
OverflowOnlyOnCycles ==
    [][result # Crash /\ result' = Crash =>
           \E circle \in SUBSET Merged :
               circle # {} /\ \A a \in circle : \E b \in circle : Combines(a, b)]_result

\* Every request is answered, handed over or left to the validation service, and
\* one that passed the validation is answered or handed over, unless the process
\* dies with it: recursive schemas, unique values that run out and combined schemas
\* come to an end.  OverflowOnlyOnCycles says which schemas the process dies of.
Answered ==
    /\ at = "options" ~> at \in {"validate", "done", "handed"}
    /\ at = "negotiate" ~> at \in {"done", "handed", "crashed"}
=============================================================================
