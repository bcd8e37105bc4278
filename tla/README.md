# openapi-mock in TLA+

A verification development for `openapi-mock` (Go): TLA+ models of the parts of
the server that keep state, TLC configurations that explore them on small
instances, and TLAPS proofs of what holds for every instance.

The upstream project generates fake responses for an OpenAPI specification. This
repository extends it to a RESTCONF server: it keeps a datastore that clients
read and change, push subscriptions with server-sent event streams, and a
trigger that compares two snapshots of a network topology and notifies the
subscribers. What has state, concurrency and failure is in that extension and in
the life of the process; what is intricate without being concurrent is the
generation of data, with its recursion, its limits and its merging of schemas.
Line numbers below are those of the files under `src/`.

Abbreviations: **SC** `internal/openapi/subscriptionCenter/SubscriptionCenter.go`,
**DB** `database/Database.go`,
**RGH** `internal/openapi/handler/ResponseGeneratorHandler.go`,
**HS** `internal/server/httpServer.go`,
**GEN** `internal/openapi/generator/`.

## 1. Inventory

### Components, their state and operations

| Component | State | Operations | Model |
| --- | --- | --- | --- |
| Subscription center (SC) | four package-level maps and an atomic counter without any lock; `subscriptions.json` | Subscribe, Delete, Connect, SendAll, Send, Save, load at start | `SubscriptionCenter` |
| RPC and event-stream handlers (RGH) | none of their own | establish-subscription, delete-subscription, stream GET | `SubscriptionCenter` |
| Topology trigger (RGH 69-330) | two snapshot files a controller writes to `.temp/`; loop variables | GET `/internal/trigger` | `TopologyTrigger` |
| Datastore (DB) | one JSON file; a `Database` and a mutex per request | Load, Save, Modified, Get, Patch, Delete, Put, Post | `Datastore`, `Store` |
| Data request handler (RGH 351-710) | the per-request `Database` | route, validate, generate, load, operate, deferred save, answer | `Response`, `Datastore` |
| HTTP server (HS) | listeners, three goroutines, signal channel | New, Run, shutdown with a 30 s deadline | `HttpServer` |
| Options handler | the method of the request, for a while | allowed methods by route | `Response` |
| Request validation client | a gRPC connection | refuses, fails or lets pass | outcomes in `Response` |
| Response generation and negotiation (GEN) | none; Go map order | status code, content type, content | `Response` |
| Data generators (GEN `data/`) | breaker level; sets of unique values and keys; one shared `rand.Rand` | GenerateDataBySchema through a chain of decorators | `Generation`, `Scalars` |
| Schema merger | the Go stack | merges allOf/anyOf members recursively | `Generation` |
| Pattern strings (reggen, formats) | none | random text | lengths and failures in `Scalars`; not the text |
| Responder and serializers | none | status and formatting | status in `Response`; not the formatting |
| Specification loader | none after the start | reads a file once | which URLs load, in `Application` |
| Middleware | none shared | CORS, tracing, log context | not modelled; that a panic is recovered is assumed by the other models |
| Configuration | none after the start | file, environment, defaults, corrections | `Configuration` |
| Dependency injection, commands | the template datastore | `serve`, `validate`, `initialize`, dry run | `Application` |
| RESTCONF types | none | notification content, error bodies | the content a subscriber applies, in `TopologyTrigger` |
| Hash set | none | duplicate removal | the set of requested types is a set |

### How they interact

- `net/http` runs every request in its own goroutine. Handlers share the maps of
  SC and the files, and nothing else that changes but the random source.
- A request passes the options handler, which probes the router with the request
  itself, and then RGH: special paths go to the trigger and the streams, others are
  routed, validated by a gRPC service and given a generated response, which
  data requests then replace or change by what the datastore has.
- The event-stream GET looks the subscription up, attaches to a `sse.Broker` and
  registers the connection in `connMap`; it blocks until its client leaves or
  the broker is closed by Delete.
- The trigger calls `SendAll`, which walks `subscriptions` and for each match
  walks `connMap[id]`.
- Every data request, a GET too, loads the datastore file into a `Database` of
  its own and saves that copy in a deferred call. RPCs do the same around
  their call of SC.
- `Run` has three goroutines (main with HTTPS, one for HTTP, one that waits for a
  signal); shutdown waits for requests, and event streams do not end by
  themselves.

### What is hard here, and what makes it correct

| Component | Hard behaviour | What must hold |
| --- | --- | --- |
| Subscription center | unlocked maps, check-then-act on `brokerMap` and `connMap`, a slice that is published before it is filled, ignored save errors, a crash between two system calls | an id handed out stays valid, a deleted one stays deleted, ids are fresh, streams are served and end, nobody gets what it did not ask for, a restart loses nothing that was saved |
| Datastore | lost updates between copies, torn files, stale entity tags, a mutex locked twice | requests one at a time behave like a map, updates are lost in overlaps only, a tag names one content |
| Trigger | snapshots read at two moments, repeated and overlapping triggers, order of notifications | the subscriber's copy of the topology ends up right |
| HTTP server | shutdown against running requests and a half-started server | a signal ends the process, and a reported graceful stop is one |
| Request handling | a method put into the request while the router is probed; the responses are a Go map in random order | the route is found again, the code of the answer does not depend on the order, every request is answered |
| Generators | recursion with a breaker, errors suppressed at every level, limits of attempts, integers at the edge of their width, merging that no breaker watches | data fits its schema, suppressed errors reach nobody, examples are the only data if asked for, every recursion ends |
| Configuration and commands | about twenty options from four sources, corrected in a fixed order; failures halfway through a command | the right source wins, only valid values are served, a dry run serves nothing, success means that the work is done |

`PROJECT.json` lists the hazards with their lines, and for each the properties
that would catch it or the reason why none does yet.

## 2. Modules

| Module | Role |
| --- | --- |
| `SubscriptionCenter` | SC with its RPC and stream handlers; one step per access to a map or system call on the file |
| `Descent` | the order in which the work that is left gets less |
| `CenterDescent` | what a request of the center has left to do, and the property that it gets less |
| `SubscriptionCenterProofs` | the proofs about both, for any overlap of requests in one life of the process |
| `SequentialCenterProofs` | its proofs, for one request at a time over any restarts |
| `Store` | the abstract specification of the datastore: a map that reads, patches and deletions act on one at a time, and counted faults |
| `Datastore` | load, operate, truncate, write, reply of each data request; implements `Store` |
| `DatastoreProofs` | its proofs, with the refinement |
| `TopologyTrigger`, `TopologyTriggerProofs` | the comparison of the snapshots and a subscriber's copy, and the proofs that no loop loses its way and that the copy follows the network |
| `HttpServer` | the life of the server |
| `Configuration` | what `config.Load` makes of its sources, as operators |
| `Application` | the commands around `HttpServer`, whose variables and actions it extends, with `Configuration` |
| `ApplicationProofs` | the proofs about both, those of the server first |
| `Schemas` | schemas, data and the ways a generator can return |
| `Scalars` | the values of generators without structure, as sets |
| `Generation` | the chain of generators as a stack of calls, and the merger with a stack of its own |
| `Response` | one request from the options handler to its answer, around `Generation` |
| `Conformance` | what OpenAPI says of data and schema, independent of the generators: the reference for `Response` |
| `Fitting` | what whole data and its schema have to do with each other, for the proofs: TLC cannot evaluate it |
| `DataProofs` | the theorems about scalars, and that what is generated for a request fits its schema to any depth |
| `ResponseProofs` | the proofs about `Response` and `Generation`: the handler, the chain of generators and the merger |
| `ResponseDescent` | what a request of `Response` has left to do, and the property that it gets less |
| `DescentProofs` | that work which gets less comes to an end, and that the work of `Response` does get less |
| `MC*` | symmetry sets, topologies, launches and specifications for TLC |

Operators named `Mutant...` stand before the definition whose faults they show:
each is a plausible bug of that code, and with it in place the property named
beside it in `PROJECT.json` is violated.

### SubscriptionCenter

`subs`, `brokers`, `conns` and `counter` are the package variables
`subscriptions`, `brokerMap`, `connMap` and `counter`; `file` is
`subscriptions.json` (`Nil` missing or empty, `Torn` not JSON). A handler has a
program counter `pc` and its locals. The pointers in `brokerMap` become: the set of
ids that have a broker, and for every stream whether its session is on the
broker the map holds now (`home`). `life` and `requested` are history: what the
client of an id was told.

| Code | Actions |
| --- | --- |
| Subscribe, 75-91 | `Add`, `Make`, `Fill`, then Save, `StoreBroker`, `Reply` |
| Save, 62-73 | `ReadCounter`, `Marshal`, `Truncate`, `WriteFile` or `SaveFails` |
| Delete, 97-117 | `CheckDelete`, `Drop`, `DropConns`, `FindBroker`, `Close`, `DropBroker`, then Save, `Reply` |
| Get and Connect, 93-95 and 119-137 | `Get`, `FindOwn`, `NewBroker`, `Attach`, `FindMap`, `NewMap`, `Register`, `Leave`; the client's `Disconnect` |
| SendAll and Send, 139-181 | `SendAll`, `Visit`, `RangeConns`, `Send`, `EndSend`, `EndSendAll` |
| NewSubscriptionCenter, 45-60 | `Restart` |

Where the code indexes a slice whose entry was deleted, stores into a nil map or calls a
nil broker, it panics: the goroutine ends and `net/http` recovers. A map
access that the Go runtime aborts as unsynchronised ends the process, which
`Restart` covers at any step. A range over a Go map visits nothing that is deleted
before it gets there, and may visit or skip what is added while it runs: `must`
and `targets` are what the loops of SendAll and Send have still to visit, `Make`
and `Register` choose for every loop that is under way whether it gets the new entry,
and `ranging` tells the loops over a map that is still in `connMap` from those over
one that Delete dropped or Connect replaced, which nothing enters or leaves any more.

### Datastore and Store

`file` is the database file, `db[h]` the `Database` of a request: an entity tag
and the resources. Tags are random UUIDs in the code, here the next number, and
`versions` remembers the resources each was made for. `Load` takes the request and
reads the file (any error gives an empty `Database`, RGH 437-443); `Operate` is
the method; `Truncate` and `WriteFile` are `ioutil.WriteFile`; `Reply` is the
return of the handler, when the buffered answer is complete. PUT and POST lock a
mutex that they hold already and become `stuck` without ever saving. Resources
are addressed by one key; `Twice` is a list that has the key of the request in
two items.

`ImplementsStore` maps the datastore to `Store`: the content is what is in the file
or, from the truncation to the write, what is about to be written. A restart
or failing file operation is a `Fault` of the store, the only step that may lose
content. The mapping is for requests that come one at a time (`MaxBusy = 1`); for
overlapping ones it is false, as lines 437-444 let it be, and `LostInRacesOnly`
and `TagIdentifiesContent` say what is left.

### TopologyTrigger

A snapshot is a record of networks, with nodes (own data, TPs, TTPs) and links.
`old`, `new` are the two snapshots of a handler; `nets`, `nodes`, `todo` what
its loops still have to visit; every round of a loop is a step, in the order of
the code: TPs and TTPs of a node, the node, new nodes, links. A notification is applied to
the `copy` of one subscriber as it is sent. A node that is created comes with all it has
(`ApplyNode`); the update of a node comes without its TPs and TTPs, which RGH 225-229 remove
before the comparison, and the subscriber keeps those it has, or has a node without any
(`Bare`) if it had none (`ApplyUpdate`). The controller is outside the repository; what is assumed of
it is stated at its actions: it writes `previous` before and `after` behind a
change, triggers, may repeat a trigger and make its next change when one has begun to
read, but its first trigger for a change waits for the answers to those for the
change before.

### HttpServer

`main`, `plain` and `closer` are the goroutines of `Run`; `quit` is the signal
channel with its one place. `net/http` is modelled by what `Run` relies on:
`Serve` returns `ErrServerClosed` once Shutdown was called, Shutdown returns when
no request is active or its context ends. Every `Fatalf` ends the process and
cuts what is still active.

### Application and Configuration

`Application` extends `HttpServer` with what `Execute.go` and `Factory.go` do before
`Run`: `stage` is where the command is, `launch` the command line and the sources
of the configuration, `settings` what it works with, and `database` the file that
`initialize` writes. A source is a function from the options it gives to their
values; the nil pointers and zero values of the code are options that are not in
its domain. `Load` overlays the environment on the file, corrects, validates and
fills in defaults, in the order of `Load.go`. The server binds its ports in
`CreateHTTPServer`, before the dry run is asked for (`Execute.go` 133-145), so that
a dry run goes through `Listen` too.

| Code | Actions |
| --- | --- |
| `config.Load`, Execute.go 123-131 | `LoadConfiguration` |
| loader, 181-219 | `LoadSpecification`, `CheckSpecification` |
| router and factory | `BuildRouter`, `RunServer`, `DryRunReturns` |
| `InitializeDatabase`, Factory.go 127-193 | `GenerateTemplate`, `Truncate`, `WriteFile` |
| `Server.Run` | the actions of `HttpServer` |

### Response, Generation, Scalars

A schema is a function from the attributes it gives to their values, and refers to
other schemas by name, so that it can contain itself as a resolved `$ref` can.
`Scalars` gives for every scalar schema the set of results that the random draws
can lead to: data, an error, or a panic. `Generation` has the recursion: `stack`
is the chain of calls, `result` what the last one returned; a step calls, returns, or takes in one
part. The level of `recursionBreaker.go` is the height of the stack.
Every return passes the suppressor of its call (`Return`), and a panic unwinds to the
recovery of the HTTP handlers. `merging` is the Go stack of the merger; a merger that
has `MaxMerging` calls open has exhausted it, which ends the process.

| Code | Actions |
| --- | --- |
| optionsHandler.go | `Receive`, `TryMethod`, `Decide` |
| RGH 351-434, 450-458, 540-564 | `FindRoute`, `Validate`, `Generated`, `Respond` |
| StatusCodeNegotiator.go, ContentTypeNegotiator.go, content/ | `VisitKey`, `Negotiated` |
| nullGenerator, exampleSchemaGenerator, coordinatingSchemaGenerator | `GenerateNull`, `TakeExample`, `GenerateScalar`, `GenerateUnsupported` |
| oneOfGenerator, combinedSchemaGenerator, schemaMerger | `GenerateOneOf`, `GenerateCombined`, `MergeMember`, `MergeReturns` |
| arrays | `GenerateArray`, `NextItem`, `KeepItem`, `KeepUnique`, `RepeatUnique`, `ShortArray` |
| objects | `GenerateObject`, `NextProperty`, `NextRequired`, `NextEntry`, `NextFree`, `KeepField` |
| returns through the chain | `Propagate` |

A request is handed over (`at = "handed"`) where `TopologyTrigger`,
`SubscriptionCenter` or `Datastore` goes on. A GET may be answered from the
datastore or from the generated data, or not be found: which, is `Datastore`'s
question, and any of them is possible here.

## 3. Runs

Times are of two TLC workers.

| Run | Question | Bounds | Result |
| --- | --- | --- | --- |
| `sub_sequential` | Do requests one at a time, beside open streams, keep memory, file and streams in step, over a restart and a failed save? (`TypeOK`, `FileIsMemory`, `HeldIsKept`, `DeletedStaysDeleted`, `StreamsTracked`, `FreshId`, `AudienceServed`) | 3 goroutines, 2 types, 2 establishments, width 4, 1 restart, 1 failed save | holds; 210,702 states, 15 s |
| `sub_concurrent` | Do two requests at work at once, beside streams, spoil a subscription or leak an event? (`HeldIsKept`, `DeletedStaysDeleted`, `FreshId`, `OnlyRequestedTypes`) | 2 goroutines, 2 busy, 1 type, 2 establishments, width 3 | holds; 445,087 states, 30 s |
| `sub_liveness` | Do two requests at work at once keep each other from coming to an end, also when `conn.Send` hangs? Does a notification end, and do the streams of a deleted subscription? (`RequestsAdvance`, `RequestsEnd`, `NotificationsEnd`, `DeletedStreamsEnd`) | 3 goroutines, 2 busy, 1 type, 1 establishment, width 2 | holds; 46,641 states, 110 s |
| `sub_registration` | Is every open stream in `connMap`, however requests overlap? (`EveryStreamRegistered`) | 3 goroutines, 2 busy | **violated**, see below |
| `data_sequential` | Do requests one at a time implement `Store`? (`TypeOK`, `ImplementsStore`) | 2 resources, 2 fields, 3 requests, 1 restart, 1 fault | holds; 607,684 states, 35 s |
| `data_concurrent` | What is left when two requests overlap, and is every one but PUT and POST answered beside hung ones? (`TagIdentifiesContent`, `LostInRacesOnly`, `RequestsEnd`) | 1 resource, 1 field, 2 busy, 3 requests, 1 fault | holds; 759,569 states, 126 s |
| `data_answered` | Is every request answered? (`EveryRequestAnswered`) | 2 requests | **violated**, see below |
| `trigger` | Does the subscriber's copy follow two changes, announced by triggers that repeat, overlap and read on both sides of a change? (`TypeOK`, `CopyFollows`) | 1 network, node, TP, TTP and link, 2 values, 8 topologies, 2 changes, 2 triggers at once | holds; 354,205 states, 15 s |
| `application` | Does every command do what it reports, from the right configuration, and does the process end? (`LaunchTypeOK`, `StoppedIsClean`, `ServesValidConfiguration`, `SourcesRespected`, `DryRunServesNothing`, `SuccessMeansDone`, `SignalEnds`, `CommandEnds`) | 48 launches, 1 request, 1 stream | holds; 9,004 states, 5 s |
| `server_graceful` | Is a request cut only when its 30 seconds have passed? (`CutOnlyWhenExpired`) | 2 requests, 1 stream | **violated**, see below |
| `response` | Is every request answered, with the right code and with data that conforms, and does every step bring it nearer to that? (`TypeOK`, `RouteFoundAgain`, `LeastCode`, `SuppressedNeverFails`, `OnlyExamples`, `DataConforms`, `PartsAreMade`, `OverflowOnlyOnCycles`, `EveryStepIsNearer`, `Answered`) | a specification of 51 schemas and 60 operations, all options, integers of 4 bits, level 4, 2 attempts, 3 keys | holds; 57,326 states, 25 s |
| `response_combined` | Is data generated for an anyOf? (`AnyOfGenerates`) | 2 operations | **violated**, see below |

### Why the bounds are enough

- *Subscriptions.* The races are between two accesses to the entries of one id, so two
  busy requests on one id meet them all pairwise; the
  second establishment gives a second id to mix up. Overlaps of three
  are not explored: the theorems of section 5 cover any number for the properties
  they state. One type is enough for the slice that is published before it is
  filled (blank, then full); two in the sequential run give partly matching audiences.
- *Ends of requests.* One subscription is enough for `sub_liveness`: what an end depends on is
  the entries of one id, and the third goroutine lets a stream, a Delete and a notification, or
  two streams and a Delete, meet. `RequestsAdvance` is proved for any number.
- *Wrap-around.* `Width` exceeds the number of establishments, so the
  counter never wraps in a run. After 2^32 establishments ids repeat, and
  nothing here is claimed of that.
- *Datastore.* Two requests suffice for a lost update or a torn file, and a third
  reads what they left. One present value per field, with the absent one, lets
  a merge keep, set and not set a field; two fields tell a merge from a
  replacement.
- *Trigger.* The loops treat elements of a list independently of each other; one of each kind with two values
  and its absence gives every outcome of a comparison (created, updated,
  deleted, same). Two snapshots that are two changes apart need two changes.
- *Server.* Requests do not interact except by being active; one and a stream
  distinguish none, some and all, ended and not ended.
- *Launches.* Every pair of four files and four environments is served, with and
  without a named file. The files and environments give every kind of option
  (string, number, flag, blank, invalid, debugging) in one source, the
  other, both or none. Options of one kind are treated alike by the code.
- *Specifications.* One schema for every generator, and for the generators with a limit one on
  each side of it. `MaxLevel` 4 lets `node`, which contains itself, reach the breaker inside every other part;
  in the code the level is 100, and nothing depends on the number. Integers of 4 bits
  have every overflow that 64 bits have: a range wider than the maximum, a maximum beyond
  the width, an exclusive bound at the edge. Two attempts for a unique value
  distinguish a repetition that is drawn again from the last one. `MaxMerging` is one more than
  the number of schemas, the least that `MergingAssumption` allows.
- Symmetry permutes goroutines, and resources, fields and values where the run
  checks safety only. The runs with liveness use none.

`CHECK_DEADLOCK FALSE` is set for the datastore (it rests when the bound of requests is reached
or all are hung), for the server and the commands (the process ends) and for
requests followed alone (they are answered). Elsewhere deadlock is checked.

### Fairness

`FairSpec` in `SubscriptionCenter` and `Datastore` is weak fairness of the steps a
handler takes by itself once its request is accepted: the Go scheduler runs every
runnable goroutine, and file operations return. Clients promise nothing: they
need not send, stay or leave. Neither does `conn.Send` of the library: the step `Send` is
not in the fairness, and where it matters (`NotificationsEnd`) its return is a
premise of the property. `HttpServer` adds that the timer of
the shutdown context fires (`ShutdownExpires`); a request in a handler promises
nothing there, because nothing in the server limits it. `Application` keeps that fairness and
adds the steps of the main goroutine before `Run`. In `Response` the handler runs
(`WF_vars(Proceed)`), the client need not send, and the validation service need not reply:
RGH 407 calls it without a deadline, and `Answered` is about what comes before that call and
after it. A request with which the process dies is `crashed`, which is no answer.

### Findings

1. **A stream can be open and never be served** (`sub_registration`). SC 129
   tests `connMap[id]`, 130 stores a new map. Two streams that connect at once
   both find none; the second replaces the map in which the first registered.
   `connMap` is declared (SC 27) as "subscription id -> connection id ->
   connection".
2. **PUT and POST hang, and no timeout answers them** (`data_answered`). DB 422 locks
   `db.m` and 431 calls `EnsureKeyPath`, which locks it again at 193. The
   timeout handler, which `docs/usage_guide.md` line 163 promises with a 503, is
   commented out (`Factory.go` 93).
3. **The graceful shutdown is not graceful** (`server_graceful`). HS 80-87 call
   `Fatalf` when Serve returns `ErrServerClosed`, which it does as soon as
   Shutdown is called and not when it is done; the condition is that of an
   expected end, so unexpected errors are silent. `StoppedIsClean` holds: when
   the server does log that it stopped gracefully, it did.
4. **anyOf cannot be generated for most schemas** (`response_combined`).
   `schemaMerger.go` 69 dereferences `AdditionalPropertiesAllowed` of the first member, which is nil
   unless that schema gives `additionalProperties` as a boolean: with two or more members
   the generation panics, and the request is answered with 500. `README.md` 26 says that
   combined types are supported, and the test at `schemaMerger_test.go` 68 merges
   such members.

`DataConforms` compares with OpenAPI as it is. A schema for which the generators are known to
differ from it is named by `Misfit` and left out; the run has one schema of each kind, and without `Misfit` TLC finds
`DataConforms` violated by each. These are multiples whose bounds
are none, enums of anything but strings, integers beyond the width of the machine, which
`integerGenerator.go` 46-61 wraps, numbers between excluded bounds, which rounding
can reach (`numberGenerator.go` 54-68), and hash maps whose required names are write-only
properties (`hashMapGenerator.go` 26).

Other differences between code and documentation that the models show or had to
take into account, without a run of their own:

- **A specification at a URL cannot be loaded.** `autoLoader.go` 14 opens
  every URI as a file, because the branch for URLs is commented out: the server does not start
  (`LoadSpecification` fails for `Remote`).
  `docs/usage_guide.md` 126 has a "URL to a remote file", lines 17-21 and `README.md` 11, 39 and
  52 show one, and the test at `autoLoader_test.go` 25 expects it to be loaded. `ServesValidConfiguration`
  says which values a server runs with, not that it runs with every one that is documented.
- **Multiples miss their bounds.** `integerGenerator.go` 33 takes the
  remainder off a value that was drawn: with minimum 1 and multipleOf 4 the result can
  be 0. A range of one value returns before that (line 26), so 3 to 3 with multipleOf 2 gives 3.
  `README.md` 13 has data generated "by provided schemas".
- **Enums of numbers are ignored.** `stringGenerator.go` 40 is the only
  reader of `Enum`; `README.md` 24 has enums as supported.
- A path to the specification in a file named with `-c` is prefixed with the directory
  of that file even if it is absolute (`Load.go` 72).
- `docs/usage_guide.md` 244 gives 0.5 as the default of `null_probability`, and 160
  gives 1.0 for the response timeout; the code has 0 and one hour, and does not use
  the timeout.
- The check that a PATCH or PUT does not change the keys of a list item compares the names in `x-key`, first
  to last, with the path parameters, last to first (RGH 728): of an item with two keys the
  unchanged values are refused and swapped ones accepted, unless `x-key` names the keys in reverse.
- A dry run binds both ports (`Execute.go` 133), and fails beside a running server.
- The merger never takes over `items`, nor what stands beside `allOf` or `anyOf` in the schema
  itself; a default or example that is an array or an object makes it panic
  (`schemaMerger.go` 194).
- A hash map panics on a required name without property and shows write-only properties
  (`hashMapGenerator.go` 27).
- A `multipleOf` of an integer that is a fraction below 1 is a division by zero
  (`integerGenerator.go` 33).
- An array of unique values whose items are such arrays takes their failure for its
  own and ends early (`uniqueArrayGenerator.go` 27).
- A GET that the datastore can answer panics when the generated data is no object
  (RGH 546).
- Of two keys of responses that stand for one code, such as `200` and `2xx`, either is chosen.

## 4. Modelling assumptions

- A system call on a file (open with truncation, write, read) is one step. Two writes
  that overlap leave one of the texts or a mix that is not JSON.
- Of the library of event streams (go-sse): `ConnectWithHeartBeatInterval` and `Close` return,
  a broker that is closed ends its sessions, and a connection that has ended delivers nothing
  more. `conn.Send` may hang.
- A goroutine that serves a stream also names its connection, and is not used again while a loop
  of Send still holds that connection.
- The validation service may fail, refuse or not reply at all.
- The text of notifications, error bodies, headers and logs is left out.
- Panics end their request only. The answer to a request is complete when its
  handler returns, after the deferred save.
- Arrays are sets where the code depends on no order, and loops over them take any.
- Snapshots always have the lists the code looks for. What the JSON library
  returns for a list that is missing is outside the repository and not modelled.
- Networks that appear or disappear are not announced by the code, and
  `CopyFollows` speaks of those that were there all the time.
- A random draw of a generator is any value of its range, for each draw by itself. The
  shared source of random numbers, which requests use without a lock, is not modelled.
- A text is its length and one of a few that tell texts apart; a string made from a pattern
  matches it.
- The library that parses the specification has resolved the references, and the one that parses a
  configuration has given each option its type.
- `Response` follows one request at a time: handlers share the router, the specification and the
  options, and change none of them.
- The initial datastore file is absent or any content, with or without a tag, as
  the `initialize` command or a user leaves it.

## 5. Proofs

All theorems are checked by TLAPS, for any values of the constants within the
named assumptions.

| Theorem | Statement | Assumes |
| --- | --- | --- |
| `SubscriptionCenterProofs!TypeCorrect` | `TypeOK` | nothing more |
| `SubscriptionsSafe` | `HeldIsKept` and `DeletedStaysDeleted` for any number of overlapping requests and streams | one life of the process, fewer establishments than `Width` |
| `IdsFresh`, `TypesRespected` | `FreshId`, `OnlyRequestedTypes` | the same |
| `EveryRequestAdvances` | `RequestsAdvance`: each of its own steps brings a request nearer to its end, and a step of another takes it further away only by adding one entry to a map that a notification goes around in | the same |
| `RequestsCounted` | what a request has left is four numbers | nothing more |
| `FileFollowsMemory` | `FileIsMemory`, for any number of streams, restarts and failed saves | `MaxBusy = 1` |
| `StreamsStayTracked`, `AudienceIsServed` | `StreamsTracked`, `AudienceServed` | `MaxBusy = 1`, fewer establishments than `Width` |
| `RestartsSafe` | `HeldIsKept` and `DeletedStaysDeleted` over any number of restarts | the same |
| `IdsFreshOverRestarts` | `FreshId` over restarts from a file that is whole and not stale, and that such a file has a counter which covers the ids that clients know (`IdsRecoverable`) | the same |
| `DatastoreProofs!TypeCorrect` | `TypeOK` | nothing more |
| `TagsIdentify` | `TagIdentifiesContent`, with any overlaps, crashes and faults | nothing more |
| `RacesOnly` | `LostInRacesOnly`, with any overlaps | nothing more |
| `SequentialRequestsImplementStore` | `Datastore` implements `Store` | `MaxBusy = 1` |
| `TopologyTriggerProofs!TypeCorrect` | `TypeOK`: no loop indexes a snapshot with what it does not have, and the copy stays a topology | any topologies and number of triggers |
| `FollowsNetwork` | `CopyFollows`: when every trigger is answered the subscriber has what it wants of the networks that were always there | the same, and any number of changes |
| `ApplicationProofs!TypeCorrect`, `StopsClean` | `TypeOK` and `StoppedIsClean` of `HttpServer` | nothing more |
| `LaunchTypeCorrect`, `LaunchStopsClean` | `LaunchTypeOK`, `StoppedIsClean` inside the commands | any set of launches |
| `ValidConfigurationServed`, `SourcesAreRespected` | `ServesValidConfiguration`, `SourcesRespected` | any values of the options in file and environment |
| `DryRunsServeNothing`, `SuccessIsDone` | `DryRunServesNothing`, `SuccessMeansDone` | any set of launches |
| `ResponseProofs!TypeCorrect` | `TypeOK`: the stack of calls stays below the level of the breaker | any schemas and operations |
| `RouteFound`, `CodeNegotiated` | `RouteFoundAgain`, `LeastCode` | any operations and codes |
| `Suppression`, `ExamplesOnly` | `SuppressedNeverFails`, `OnlyExamples` | any schemas |
| `PartsMade` | `PartsAreMade`: a list or an object that is returned has all its parts | any schemas, `SchemasAssumption` |
| `OverflowsCircle` | `OverflowOnlyOnCycles` | the same, and `MergingAssumption` |
| `DescentProofs!RequestsDescend` | `EveryStepIsNearer`: every step of handlers, generators and merger brings a request nearer to its end | any schemas and operations, any limits |
| `WorkIsCounted` | what a request has left is a sequence of counts of one length | the same |
| `NoEndlessDescent` | such sequences cannot get less for ever | nothing |
| `DataProofs!DataFitsSchema` | `Fitting!DataFits`: what is generated for a request fits its schema part by part, to any depth | any schemas, `SchemasAssumption` |
| `IntegersInRange` | an integer keeps the bounds of its schema (`InBounds`), or no integer does and the generator fails, or the range is wider than the width and it panics | any width, no `multipleOf`, bounds that fit the width (`BoundsFit`) |
| `MultiplesGenerated` | a multiple that misses the minimum by less than one multiple, and keeps the bounds if the minimum is a multiple; of a range of one value, that value | a range that is not negative; for the bounds, `BoundsFit` |
| `TextsFit`, `EncodedFits` | texts and base64 texts keep their limits of length | any limits that do not contradict each other |

*Subscriptions.* `HeldIsKept` is not inductive: an establish that is about to
store its slice could overwrite a held subscription. `IInv` adds that a goroutine is
inside its operation (`InOperation`); that the counter is the number of ids
drawn and ids above it are free (`Drawn`); that an id being established belongs to
one goroutine and cannot be deleted before its slice is made (`Exclusive`); that the map and the
clients' view agree (`Lives`); that only an establish in its loop has less in the map than was
asked for (`Filled`); and that `connMap` and the loops of Send hold streams of
the right id (`Addressed`). A restart is excluded because a save that another
establish overlaps can write an older counter with newer subscriptions, after
which an id is drawn twice.

*One request at a time.* With `MaxBusy = 1` the others are at rest while a request moves (`Turn`), so
each step needs only what its own request counts on. `FileInv`: the file is current unless the
request at work is `Ahead` of it, and what it is about to write is the memory
(`Undisturbed`). `StreamInv` adds that an open stream is on its broker and in the maps, unless its
subscription is being deleted (`LiveTracked`), and that ids above the counter, in memory and in the
file, are unused (`Numbered`). `LifeInv` adds that the file, unless a save failed, knows what the
clients know (`Recoverable`), which is what a restart needs. A file that is torn, empty or stale
does not: a restart from it forgets ids that clients hold, the history forgets them too
(`Survives`), and their numbers are drawn again. `AudienceInv` says which of its loops still
brings a notification to each stream it is owed to (`Owing`).

*Datastore.* `TagInv` carries the tags through file, copies and answers.
`RaceInv` says of every request that no save came in between for (`~raced`):
what it holds is what the file gives, before its operation (`Kept`), or the
effect of its operation on that (`Served`). The refinement adds `Alone`, that
one request is busy at most, and maps `Truncate` to the store's operation, `Restart`
and failures to `Fault`, and the rest to stuttering.

*Trigger.* `Located` says, for each place in the loops, which network and node are in both snapshots
and which list the loop in progress still has to visit; a handler that does not move stays
located (`Elsewhere`), so that each step needs only to show where its own is.

`CopyFollows` speaks of the moments when nothing runs, so its invariant has to say what holds
in between, for each element that the subscriber watches (`Watched`: the own data of a node, a TP,
a TTP or a link in a network that was always there). Either the copy has a value that is right
(`Right`: that of the world or, until a trigger has been called for the last change, that before it), or a
handler still owes the notification (`Owes`): the copy has what the first snapshot of the handler says
and, once the second is read, that says something else and the element is still ahead in
the loop over networks (`ToVisit`), over nodes (`NodeAhead`) or over its list (`ListAhead`). `Remains`, `Written` and
`Announced` tie the snapshots and files to what the controller has done. That repeated triggers
may read on both sides of a change is what makes the two right values necessary: a late repeat can put
an element back to the older one only while the trigger for the new change is still to come or owes it.
The proof has one lemma for each round of a loop (`CompareFollows` and its like): a round either
visits the element, and the copy becomes right, or leaves it ahead.

*Commands.* `LInv` joins the invariant of the server with `Order` (which stage goes with which
place of main, so that the server's actions are those of `serve` alone) and
`SettingsInv` (what has been loaded is valid and comes from its sources); four lemmas
about `Configuration` carry the latter through overlay, correction and
defaults. Every action of `HttpServer` is covered by the lemmas about the server alone.

*Requests.* `ChainInv` says what the stack, the merger and the result can be at each place of
the handler: every step of `Generation` either calls (one level more, if the
breaker lets it), continues, returns, or ends in a panic, and one lemma per
kind (`PartStep`, `TakeMemberStep`, ...) keeps the invariant, so that each
action needs only to show of which kind it is. Since every return passes the suppressor, an
error can only be on top of an empty stack if suppression is off. `RouteInv`
says what the options handler has tried and allowed so far, and `BestOfSeen` that the negotiator has
the least success and, unless there is one, the least code of the keys visited: a
success that falls through to the other codes cannot harm, because the least success wins.

*Parts.* `CallsInv` gives every call of the stack its account (`Accounts`): the parts made, the parts to do and, in
a call that waits, the part that is awaited make up what its schema asks for, so that a call with nothing
left to do has everything (`PartsAreMade`). It tells the top call, which may be at work, from those
below it, which all wait (`AllWait`); as a step calls, returns or goes on, three lemmas
move it along for all generators. This is local to a call.

*Whole data.* That the parts themselves fit their schemas, and their parts again, seems to ask for induction
over the data; `Fitting` states it the other way round. Data fits a schema if there is a set of pairs, of
data and the schema it is for, that contains the two and accounts for each of its pairs (`FitsBy`): an array
fits if it has enough items and each of them is in a pair with the schema of the items, and so on. Such sets can be
united, so data that is made of fitting parts fits, by one step and without induction. The invariant `DataInv`
says of the stack of calls that each call is for a schema that the one below awaits (`Linked`) and that what it has
made so far fits (`MadeFits`); every action is one of a few kinds of step (`FitStep`), and `FitStepKeeps` moves
the invariant along for all of them. The merger has an invariant of its own, `MergeFits`: every member of the schema
it combines is still to do, or what stands for it has been merged, so that what is returned is a `Combination`. What
a scalar can be is `ScalarResults`, which the theorems on scalars describe. `DataFits` quantifies over all
sets of pairs, so no run can check it; `DataConforms` is its counterpart for TLC.

*Merger.* `MergerInv` says that each call of the merger is for members that the head of the call around it
combines, and that what was merged combines nothing any more (`Assembled`). When the stack
overflows, more calls are open than there are names, so two of them are at one member, and the members
between them are the circle (`MergerCircles`). `MergingAssumption` says what this needs: finitely many
schemas, and memory for more calls than that; a Go stack of a gigabyte holds millions. `SchemasAssumption` is
what the parser gives the generators: references that resolve, sizes that are unsigned, and a
type that is not one of the names that `detectSchemaType` uses for combined schemas, which OpenAPI does not know. What is
parsed is finite: the properties of a schema and the responses of an operation (`ResponsesAssumption`) are maps read from a
file, and the types that a request asks for (`TypesAssumption`) are a list in its body.

*Coming to an end.* That every request ends cannot be proved here, because fairness and `ENABLED` are out of the
prover's reach. What can be is the part that the code is responsible for: that nothing goes on for ever.
`Work` is a sequence of counts, the most significant first, and `Nearer` compares two such sequences at the first count
that differs. `NoEndlessDescent` is about the order alone, for any length: the lexicographic product
of well-founded orders is well-founded, by the library's theorem. The rest is that every step descends.

For `Response` the counts are the place of the request, the methods to try, the keys to visit, then one count for each level of
the stack, the first call first, and one for each level of the merger. A call counts what its generator has still to
ask for: items, attempts for unique values (`MaxAttempts` for each item that is lacking, less those made), properties, names. When
a call returns the levels above it are gone and its own count, which comes before theirs, is smaller; when it calls, the
new level goes from `Unknown`, which is more than any number, to a number as soon as its generator is chosen.
The breaker is what bounds the number of levels, and so the length of the sequence. Counts stay natural numbers because of
`BudgetInv`: no list gets longer than it has to be, attempts do not run out unnoticed, an entry that is awaited is not in
the map yet. `LevelStep` lists the kinds of step (return, unwind, go on, call, give up); each descends (`LevelStepDescends`) and keeps
the budgets (`LevelStepKeeps`), and one lemma for each action says of which kind it is.

For the subscription center the order is that of a request among others. A handler's own step goes to a later place, or around in
`SendAll` with one subscription or one stream less to visit, or stores one more element of its slice
(`OwnStep`). A step of another may delete the slice that is being filled, which then has nothing left, or take a
stream that has ended out of a loop; and since a Go range may visit what is added while it runs, an establish or a stream
may add itself to the loop of a notification (`Joined`), each of them once. For everything else `OthersStep` shows
that nothing is added. That no other establish makes the slice anew is
`OwnId` of `IInv`, which is why this theorem has the assumptions of `SubscriptionsSafe`. So a request that is no
notification takes finitely many steps, by `NoEndlessDescent`, and a notification does as long as nothing joins it: under a
stream of establishments without end it need not end, and `NotificationsEnd` does not claim it.

*Streams of a deleted subscription.* `DeletedStreamsEnd` is about the streams that are on the broker in `brokerMap`
when a Delete begins that is alone at work on its id, whatever starts beside it afterwards. It does not say that
a stream which connects during the Delete ends: one that attaches after line 110, or to a broker of its
own, stays open for as long as its client likes, with the subscription gone (SC 105-111, 122). Nor does it cover a stream on
a broker that Subscribe replaced at line 89.

*Scalars.* Theorems about operators, by cases on overflow: the difference of two
bounds wraps exactly when it exceeds the width.

*Server.* `Quiesced`: once Shutdown has returned every request has ended, and
with `closing` set none can start until the process ends.

Model-checked only: all liveness (`RequestsEnd`, `NotificationsEnd`, `DeletedStreamsEnd`,
`SignalEnds`, `CommandEnds`, `Answered`), which is beyond the prover, and `DataConforms`. Of `Answered` and of
the center's `RequestsEnd` it is proved that the steps come to an end (`RequestsDescend`,
`EveryRequestAdvances`); what stays with TLC is that a request which is not at its end can take one, and that fairness makes it. The
reference definition of `DataConforms` follows OpenAPI, recurses over schema and data, and does not hold for every
specification: members of an allOf can contradict each other, and there are the schemas of `Misfit`. What
does hold for every specification is `DataFitsSchema`, with the theorems on scalars.

## 6. Not modelled

- *Key paths* (DB 78-126): the syntax that a URL is converted to, and nested paths. A
  resource is one entry of the datastore here.
- *What PUT and POST would do* behind the second lock of their mutex: no request gets there.
- *The text of generated strings* (`reggen`, faker), serialized bodies, notifications,
  error bodies and headers: formatting without state.
- *Generated gRPC code*, the service it calls, and mocks.
- *Middleware*: it decorates a request and shares nothing.
- *The shared random source* (`MediaGenerator.go` 17): a data race whose outcomes are inside `math/rand`.
