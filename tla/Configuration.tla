---------------------------- MODULE Configuration ----------------------------
(***************************************************************************)
(* What config.Load makes of its sources (internal/application/config): a  *)
(* source is a function from the options it gives to their values; absent  *)
(* options are the nil pointers and zero values of the code.               *)
(***************************************************************************)
EXTENDS Integers, Sequences, Functions

CONSTANT Remote   \* the specification URLs that begin with "http"

\* What the program uses of an option that no source gives.
Default ==
    [specification_url |-> "", cors_enabled |-> FALSE, port |-> 8080, https_port |-> 8081,
     response_timeout |-> 3600, debug |-> FALSE, log_format |-> "tty", log_level |-> "info",
     default_min_float |-> -1073741823, default_max_float |-> 1073741823,
     default_min_int |-> 0, default_max_int |-> 2147483647, null_probability |-> 0,
     suppress_errors |-> FALSE, use_examples |-> "no", grpc_port |-> 50051, sse_interval |-> 15]

Options == DOMAIN Default

Gives(source, option, value) == option \in DOMAIN source /\ source[option] = value

MutantOverlay(file, environment) ==
    [o \in DOMAIN file \union DOMAIN environment |->
        IF o \in DOMAIN file THEN file[o] ELSE environment[o]]

\* The environment overrides the file, option by option.
Overlay(file, environment) ==
    [o \in DOMAIN file \union DOMAIN environment |->
        IF o \in DOMAIN environment THEN environment[o] ELSE file[o]]

\* Given, and yet replaced by the default.
Blank(source) ==
    {o \in DOMAIN source \intersect {"log_format", "log_level", "use_examples"} : source[o] = ""}
        \union {o \in DOMAIN source \intersect {"response_timeout"} : source[o] <= 0}

\* autocorrectValues: debugging logs everything.
Autocorrect(source) ==
    LET kept == DOMAIN source \ Blank(source) IN
    IF Gives(source, "debug", TRUE)
    THEN [o \in kept \union {"log_level"} |-> IF o = "log_level" THEN "trace" ELSE source[o]]
    ELSE Restrict(source, kept)

LogFormats == {"tty", "json"}
LogLevels == {"panic", "fatal", "error", "warn", "warning", "info", "debug", "trace"}
UseExamples == {"no", "if_present", "exclusively"}

\* fileConfiguration.Validate: the port for HTTPS and the numbers of the
\* generators are not looked at.
Validate(source) ==
    /\ ~Gives(source, "port", 0)
    /\ "log_format" \in DOMAIN source => source.log_format \in LogFormats
    /\ "log_level" \in DOMAIN source => source.log_level \in LogLevels
    /\ "use_examples" \in DOMAIN source => source.use_examples \in UseExamples

\* A local specification that does not come from the environment is looked for
\* beside the configuration file that -c names: a name that is absolute too.
BesideFile(named, source, environment) ==
    /\ named
    /\ "specification_url" \in DOMAIN source \ DOMAIN environment
    /\ source.specification_url \notin Remote \union {""}

\* createApplicationConfiguration: defaults take the place of what is absent.
Created(source) == [o \in Options |-> IF o \in DOMAIN source THEN source[o] ELSE Default[o]]

MutantLoad(named, file, environment) ==
    LET given == Overlay(file, environment)
        corrected == Autocorrect(given)
    IN [valid |-> Validate(Autocorrect(file)),
        beside |-> BesideFile(named, given, environment),
        options |-> Created(corrected)]

\* Load, from the options of the file and of the environment.
Load(named, file, environment) ==
    LET given == Overlay(file, environment)
        corrected == Autocorrect(given)
    IN [valid |-> Validate(corrected),
        beside |-> BesideFile(named, given, environment),
        options |-> Created(corrected)]
=============================================================================
