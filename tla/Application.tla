----------------------------- MODULE Application -----------------------------
(***************************************************************************)
(* The commands of internal/application/Execute.go, carried out by the     *)
(* factory of di/Factory.go.  Serve ends in the life of HttpServer, whose  *)
(* variables and actions this module extends with the start of the process;*)
(* validate and initialize end by themselves.                              *)
(***************************************************************************)
EXTENDS HttpServer, Configuration

CONSTANT Launches   \* the ways to start the program

\* The command and its flags, and the sources of the configuration it finds:
\* file says whether there is a file, named by -c or with a default name.
IsLaunch(l) ==
    /\ l.command \in {"serve", "validate", "initialize"}
    /\ {l.dry, l.named, l.parsable} \subseteq BOOLEAN
    /\ l.file \in {"none", "malformed", "parsed"}
    /\ \A source \in {l.options, l.environment} :
         /\ DOMAIN source \subseteq Options
         /\ "response_timeout" \in DOMAIN source => source.response_timeout \in Int
         /\ "debug" \in DOMAIN source => source.debug \in BOOLEAN

ASSUME LaunchesAssumption == \A l \in Launches : IsLaunch(l)

VARIABLES
    launch,     \* how the process was started
    stage,      \* where the command is
    settings,   \* the configuration it works with
    database    \* the file that holds the datastore

start   == <<launch, stage, settings, database>>
allVars == <<vars, start>>

Starting(at) == Running /\ stage = at

Proceed(to) == stage' = to /\ UNCHANGED <<vars, launch, settings, database>>

\* An error that main reports, or a panic.
Fail == Exit("failed") /\ UNCHANGED <<expired, start>>

Return == Exit("stopped") /\ UNCHANGED <<expired, launch, stage, settings>>

-----------------------------------------------------------------------------
(* The configuration, Execute.go lines 123-131, 156-165 and 188-194 *)

Loaded ==
    Load(launch.named, IF launch.file = "parsed" THEN launch.options ELSE <<>>, launch.environment)

\* A file named by -c has to be there; without one the defaults are enough.
\* MustProcess panics on an environment it cannot parse.
Readable ==
    /\ launch.file # "malformed"
    /\ launch.named => launch.file # "none"
    /\ launch.parsable

\* The argument overrides every source, and is no name beside the file.
Overridden(loaded) ==
    IF launch.url = "" THEN [beside |-> loaded.beside, options |-> loaded.options]
    ELSE [beside |-> FALSE, options |-> [loaded.options EXCEPT !.specification_url = launch.url]]

LoadConfiguration ==
    /\ Starting("load")
    /\ IF Readable /\ Loaded.valid
       THEN /\ settings' = Overridden(Loaded)
            /\ stage' = "specification"
            /\ UNCHANGED <<vars, launch, database>>
       ELSE Fail

-----------------------------------------------------------------------------
(* What the commands do with the specification *)

\* The loader opens a file whatever the URL is, autoLoader.go line 14; the
\* file may be missing or no specification.
LoadSpecification ==
    /\ Starting("specification")
    /\ \/ Fail
       \/ /\ settings.options.specification_url \notin Remote \union {""}
          /\ Proceed(IF launch.command = "validate" THEN "check" ELSE "router")

CheckSpecification == Starting("check") /\ (Fail \/ (Return /\ UNCHANGED database))

BuildRouter ==
    /\ Starting("router")
    /\ Fail \/ Proceed(IF launch.command = "serve" THEN "server" ELSE "generate")

\* InitializeDatabase generates an answer for every data root; one that
\* fails, or is no object, ends the command before the file is touched.
GenerateTemplate == Starting("generate") /\ (Fail \/ Proceed("save"))

Truncate ==
    /\ Starting("save")
    /\ \/ Fail
       \/ /\ database' = "truncated"
          /\ stage' = "write"
          /\ UNCHANGED <<vars, launch, settings>>

MutantWriteFile ==
    /\ Starting("write")
    /\ Return
    /\ database' \in {database, "template"}

WriteFile ==
    /\ Starting("write")
    /\ Fail \/ (Return /\ database' = "template")

MutantRunServer ==
    /\ stage = "server"
    /\ StartFails \/ Listen \/ Run
    /\ UNCHANGED start

\* CreateHTTPServer binds both ports, in a dry run too, which returns then.
RunServer ==
    /\ stage = "server"
    /\ launch.dry => main # "run"
    /\ StartFails \/ Listen \/ Run
    /\ UNCHANGED start

DryRunReturns ==
    /\ Starting("server")
    /\ launch.dry
    /\ main = "run"
    /\ Return
    /\ UNCHANGED database

\* The actions of HttpServer that need the goroutines of Run, and signals.
Serving ==
    /\ \/ Signal
       \/ ServeTLS \/ Serve \/ ServeReturns \/ AcceptFails
       \/ BeginShutdown \/ ShutdownReturns \/ ShutdownExpires \/ Stopped
       \/ \E r \in Requests : Accept(r) \/ Answer(r) \/ Leave(r)
    /\ UNCHANGED start

Starts ==
    \/ LoadConfiguration \/ LoadSpecification \/ CheckSpecification
    \/ BuildRouter \/ GenerateTemplate \/ Truncate \/ WriteFile
    \/ RunServer \/ DryRunReturns

LaunchInit ==
    /\ Init
    /\ launch \in Launches
    /\ stage = "load"
    /\ settings = [beside |-> FALSE, options |-> Default]
    /\ database = "kept"

LaunchNext == Starts \/ Serving

LaunchSpec == LaunchInit /\ [][LaunchNext]_allVars

\* Main is one goroutine, and the fairness of HttpServer is that of its steps.
FairLaunchSpec ==
    /\ LaunchSpec
    /\ WF_allVars(Starts)
    /\ WF_allVars((ServeTLS \/ Stopped) /\ UNCHANGED start)
    /\ WF_allVars(Serve /\ UNCHANGED start)
    /\ WF_allVars(ServeReturns /\ UNCHANGED start)
    /\ WF_allVars((BeginShutdown \/ ShutdownReturns) /\ UNCHANGED start)
    /\ WF_allVars(ShutdownExpires /\ UNCHANGED start)

-----------------------------------------------------------------------------
(* Properties *)

\* Every variable has the values the code can give it.
LaunchTypeOK ==
    /\ TypeOK
    /\ launch \in Launches
    /\ stage \in {"load", "specification", "check", "router", "generate", "save", "write", "server"}
    /\ settings.beside \in BOOLEAN
    /\ DOMAIN settings.options = Options
    /\ database \in {"kept", "truncated", "template"}

\* A process that has bound a port runs with values the documentation allows
\* for every option it restricts, whichever source the value came from, and has
\* the specification that is required.  It does not say that every specification
\* the documentation allows is served: one at a URL is not (LoadSpecification).
ServesValidConfiguration ==
    main # "new" =>
        /\ settings.options.port # 0
        /\ settings.options.log_format \in LogFormats
        /\ settings.options.log_level \in LogLevels
        /\ settings.options.use_examples \in UseExamples
        /\ settings.options.response_timeout > 0
        /\ settings.options.specification_url # ""

\* Except for the level of the log, which debugging decides, an option that
\* the environment gives has that value, unless it is one to replace by the
\* default; and the environment has no influence on any other option. The
\* argument outweighs both for the specification, and only its name in a file
\* is taken relative to that file.
SourcesRespected ==
    LET environment == launch.environment
        without == Load(launch.named, IF launch.file = "parsed" THEN launch.options ELSE <<>>, <<>>)
        compared == Options \ {"log_level", "specification_url"}
        url == settings.options.specification_url
    IN stage # "load" =>
        /\ \A o \in compared \intersect (DOMAIN environment \ Blank(environment)) :
             settings.options[o] = environment[o]
        /\ \A o \in compared \ DOMAIN environment : settings.options[o] = without.options[o]
        /\ settings.options.debug => settings.options.log_level = "trace"
        /\ launch.url # "" => url = launch.url
        /\ launch.url = "" /\ "specification_url" \in DOMAIN environment =>
             url = environment.specification_url
        /\ settings.beside => url = launch.options.specification_url

\* A dry run accepts no request, and starts no goroutine to serve one.
DryRunServesNothing ==
    launch.dry => plain = "none" /\ closer = "none" /\ \A r \in Requests : request[r] = "none"

\* A command that reports success has done what it is for: initialize has
\* written the template, no other command has touched the database, and serve
\* returns only from a shutdown that was asked for, or from a dry run.
SuccessMeansDone ==
    exit = "stopped" =>
        /\ IF launch.command = "initialize" THEN database = "template" ELSE database = "kept"
        /\ launch.command = "serve" => launch.dry \/ closing

\* A command that serves nothing ends without a signal.
CommandEnds == launch.dry \/ launch.command # "serve" ~> ~Running
=============================================================================
