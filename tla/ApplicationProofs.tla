-------------------------- MODULE ApplicationProofs --------------------------
(***************************************************************************)
(* What HttpServer promises for any set of requests: types, and that a     *)
(* process which reports a graceful stop has cut nothing off.  And what    *)
(* Application promises for every launch: the configuration a server runs  *)
(* with, whichever sources it came from, and what a command that reports   *)
(* success has done.                                                       *)
(***************************************************************************)
EXTENDS Application, TLAPS

-----------------------------------------------------------------------------
(* The life of the server *)

\* When the closer has closed its channel, every request has ended and none
\* can start; and a request is cut only as the process ends.
Quiesced ==
    /\ closer \in {"shutdown", "done"} => closing
    /\ closer = "done" => Active = {}
    /\ Running => \A r \in Requests : request[r] # "cut"

IInv == TypeOK /\ Quiesced /\ StoppedIsClean

LEMMA InitIInv == Init => IInv
<1> SUFFICES ASSUME Init PROVE IInv
  OBVIOUS
<1>1. TypeOK
  <2>1. quit \in 0 .. 1
    BY DEF Init
  <2>2. closing \in BOOLEAN /\ expired \in BOOLEAN
    BY Zenon DEF Init
  <2> QED BY <2>1, <2>2 DEF Init, TypeOK
<1>2. Quiesced
  BY DEF Init, Quiesced, Running
<1>3. StoppedIsClean
  BY DEF Init, StoppedIsClean
<1> QED BY <1>1, <1>2, <1>3 DEF IInv

\* The end of the process, however it comes: the requests that were active
\* are cut, so only an end without any is clean.
LEMMA ExitIInv ==
    ASSUME IInv, Running, NEW how \in {"failed", "killed", "fatal", "stopped"},
           Exit(how), expired' \in BOOLEAN,
           how = "stopped" => closer = "done"
    PROVE  IInv'
<1>1. TypeOK'
  BY DEF IInv, TypeOK, Exit, Active
<1>2. Quiesced'
  BY DEF IInv, Quiesced, Exit, Active, Running
<1>3. StoppedIsClean'
  BY DEF IInv, Quiesced, StoppedIsClean, Exit, Active, Running
<1> QED BY <1>1, <1>2, <1>3 DEF IInv

\* The fate of one request, while the server accepts or before it ends.
LEMMA SetIInv ==
    ASSUME IInv, Running, NEW r \in Requests, NEW state \in {"active", "ended"},
           Set(r, state), state = "active" => ~closing
    PROVE  IInv'
<1>1. TypeOK'
  BY DEF IInv, TypeOK, Set
<1>2. Quiesced'
  BY DEF IInv, TypeOK, Quiesced, Set, Active, Running
<1>3. StoppedIsClean'
  BY DEF IInv, Running, StoppedIsClean, Set
<1> QED BY <1>1, <1>2, <1>3 DEF IInv

LEMMA NextIInv == IInv /\ [Next]_vars => IInv'
<1> SUFFICES ASSUME IInv, [Next]_vars PROVE IInv'
  OBVIOUS
<1> USE DEF IInv, TypeOK, Quiesced, StoppedIsClean, Active, Running
<1>1. CASE StartFails
  BY <1>1, ExitIInv DEF StartFails
<1>2. CASE Listen
  BY <1>2 DEF Listen
<1>3. CASE Run
  BY <1>3 DEF Run
<1>4. CASE Signal
  <2>1. CASE closer = "none"
    BY <1>4, <2>1, ExitIInv DEF Signal
  <2>2. CASE closer # "none"
    BY <1>4, <2>2 DEF Signal
  <2> QED BY <2>1, <2>2
<1>5. CASE ServeTLS
  <2>1. CASE closing /\ Exit("fatal")
    BY <1>5, <2>1, ExitIInv DEF ServeTLS
  <2>2. CASE ~(closing /\ Exit("fatal"))
    BY <1>5, <2>2 DEF ServeTLS
  <2> QED BY <2>1, <2>2
<1>6. CASE Serve
  <2>1. CASE closing
    BY <1>6, <2>1, ExitIInv DEF Serve
  <2>2. CASE ~closing
    BY <1>6, <2>2 DEF Serve
  <2> QED BY <2>1, <2>2
<1>7. CASE ServeReturns
  BY <1>7, ExitIInv DEF ServeReturns
<1>8. CASE AcceptFails
  BY <1>8 DEF AcceptFails
<1>9. CASE BeginShutdown
  BY <1>9 DEF BeginShutdown
<1>10. CASE ShutdownReturns
  <2>1. TypeOK'
    BY <1>10 DEF ShutdownReturns
  <2> QED BY <1>10, <2>1 DEF ShutdownReturns
<1>11. CASE ShutdownExpires
  BY <1>11, ExitIInv DEF ShutdownExpires
<1>12. CASE Stopped
  BY <1>12, ExitIInv DEF Stopped
<1>13. ASSUME NEW r \in Requests, Accept(r) PROVE IInv'
  BY <1>13, SetIInv DEF Accept
<1>14. ASSUME NEW r \in Requests, Answer(r) \/ Leave(r) PROVE IInv'
  BY <1>14, SetIInv DEF Answer, Leave
<1>15. CASE UNCHANGED vars
  BY <1>15 DEF vars
<1> QED
  BY <1>1, <1>2, <1>3, <1>4, <1>5, <1>6, <1>7, <1>8, <1>9, <1>10, <1>11, <1>12,
     <1>13, <1>14, <1>15 DEF Next

THEOREM Inductive == Spec => []IInv
<1> QED BY InitIInv, NextIInv, PTL DEF Spec

\* Type correctness.
THEOREM TypeCorrect == Spec => []TypeOK
<1>1. IInv => TypeOK
  BY DEF IInv
<1> QED BY <1>1, Inductive, PTL

\* A process that reports to have stopped gracefully has cut no request off.
THEOREM StopsClean == Spec => []StoppedIsClean
<1>1. IInv => StoppedIsClean
  BY DEF IInv
<1> QED BY <1>1, Inductive, PTL

-----------------------------------------------------------------------------
(* The sources of the configuration *)

IsSource(source) ==
    /\ DOMAIN source \subseteq Options
    /\ "response_timeout" \in DOMAIN source => source.response_timeout \in Int
    /\ "debug" \in DOMAIN source => source.debug \in BOOLEAN

-----------------------------------------------------------------------------
(* The configuration *)

LEMMA NoSource == DOMAIN <<>> = {} /\ IsSource(<<>>)
<1>1. DOMAIN <<>> = {}
  OBVIOUS
<1> QED
  BY <1>1 DEF IsSource

LEMMA OverlayIsSource ==
    ASSUME NEW file, NEW environment, IsSource(file), IsSource(environment)
    PROVE  /\ IsSource(Overlay(file, environment))
           /\ DOMAIN Overlay(file, environment) = DOMAIN file \union DOMAIN environment
           /\ \A o \in DOMAIN environment : Overlay(file, environment)[o] = environment[o]
           /\ \A o \in DOMAIN file \ DOMAIN environment : Overlay(file, environment)[o] = file[o]
<1> DEFINE given == Overlay(file, environment)
<1>1. /\ DOMAIN given = DOMAIN file \union DOMAIN environment
      /\ \A o \in DOMAIN environment : given[o] = environment[o]
      /\ \A o \in DOMAIN file \ DOMAIN environment : given[o] = file[o]
  BY DEF Overlay
<1> HIDE DEF given
<1>2. IsSource(given)
  <2>1. CASE "response_timeout" \in DOMAIN environment
    BY <1>1, <2>1, Zenon DEF IsSource
  <2> QED
    BY <1>1, Zenon DEF IsSource
<1> QED
  BY <1>1, <1>2 DEF given

\* An option is kept as it is, unless it is blank or the level of the log.
LEMMA AutocorrectKeeps ==
    ASSUME NEW source, IsSource(source)
    PROVE  /\ \A o \in DOMAIN source \ (Blank(source) \union {"log_level"}) :
                 o \in DOMAIN Autocorrect(source) /\ Autocorrect(source)[o] = source[o]
           /\ DOMAIN Autocorrect(source) \subseteq (DOMAIN source \ Blank(source)) \union {"log_level"}
           /\ Gives(source, "debug", TRUE) =>
                 "log_level" \in DOMAIN Autocorrect(source) /\ Autocorrect(source)["log_level"] = "trace"
<1>1. CASE Gives(source, "debug", TRUE)
  BY <1>1 DEF Autocorrect
<1>2. CASE ~Gives(source, "debug", TRUE)
  BY <1>2 DEF Autocorrect, Restrict
<1> QED
  BY <1>1, <1>2

\* What the program can rely on when Validate accepted the options.
IsValid(options) ==
    /\ options.port # 0
    /\ options.log_format \in LogFormats
    /\ options.log_level \in LogLevels
    /\ options.use_examples \in UseExamples
    /\ options.response_timeout > 0

LEMMA LoadIsValid ==
    ASSUME NEW named, NEW file, NEW environment, IsSource(file), IsSource(environment),
           Load(named, file, environment).valid
    PROVE  IsValid(Load(named, file, environment).options)
<1> DEFINE given == Overlay(file, environment)
           corrected == Autocorrect(given)
<1>1. Load(named, file, environment).options = Created(corrected) /\ Validate(corrected)
  BY DEF Load
<1>2. IsSource(given)
  BY OverlayIsSource
<1>3. "response_timeout" \in DOMAIN corrected => corrected["response_timeout"] > 0
  <2> SUFFICES ASSUME "response_timeout" \in DOMAIN corrected PROVE corrected["response_timeout"] > 0
    OBVIOUS
  <2>1. "response_timeout" \in DOMAIN given \ (Blank(given) \union {"log_level"})
    BY <1>2, AutocorrectKeeps
  <2>2. corrected["response_timeout"] = given["response_timeout"]
    BY <1>2, <2>1, AutocorrectKeeps
  <2>3. given["response_timeout"] \in Int /\ ~(given["response_timeout"] <= 0)
    BY <1>2, <2>1 DEF IsSource, Blank
  <2> QED
    BY <2>2, <2>3
<1> HIDE DEF corrected
<1> DEFINE options == Created(corrected)
<1>4. \A o \in Options : options[o] = IF o \in DOMAIN corrected THEN corrected[o] ELSE Default[o]
  BY DEF Created
<1>5. {"port", "log_format", "log_level", "use_examples", "response_timeout"} \subseteq Options
  BY DEF Options, Default
<1>6. Default.port = 8080 /\ Default.log_format = "tty" /\ Default.log_level = "info"
      /\ Default.use_examples = "no" /\ Default.response_timeout = 3600
  BY DEF Default
<1> HIDE DEF options
<1>7. options.port # 0
  BY <1>1, <1>4, <1>5, <1>6 DEF Validate, Gives
<1>8. options.log_format \in LogFormats
  BY <1>1, <1>4, <1>5, <1>6 DEF Validate, LogFormats
<1>9. options.log_level \in LogLevels
  BY <1>1, <1>4, <1>5, <1>6 DEF Validate, LogLevels
<1>10. options.use_examples \in UseExamples
  BY <1>1, <1>4, <1>5, <1>6 DEF Validate, UseExamples
<1>11. options.response_timeout > 0
  BY <1>3, <1>4, <1>5, <1>6
<1> QED
  BY <1>1, <1>7, <1>8, <1>9, <1>10, <1>11 DEF IsValid, options

\* Loading the configuration honours its sources.
LEMMA LoadRespects ==
    ASSUME NEW named, NEW file, NEW environment, IsSource(file), IsSource(environment)
    PROVE  LET loaded  == Load(named, file, environment)
               without == Load(named, file, <<>>)
           IN  /\ \A o \in (Options \ {"log_level"}) \intersect (DOMAIN environment \ Blank(environment)) :
                    loaded.options[o] = environment[o]
               /\ \A o \in (Options \ {"log_level"}) \ DOMAIN environment :
                    loaded.options[o] = without.options[o]
               /\ loaded.options.debug => loaded.options.log_level = "trace"
               /\ loaded.beside => /\ "specification_url" \in DOMAIN file \ DOMAIN environment
                                   /\ loaded.options.specification_url = file.specification_url
<1> DEFINE given  == Overlay(file, environment)
           alone  == Overlay(file, <<>>)
           loaded == Load(named, file, environment)
           without == Load(named, file, <<>>)
<1>1. IsSource(given) /\ IsSource(alone) /\ DOMAIN alone = DOMAIN file
      /\ (\A o \in DOMAIN file : alone[o] = file[o])
  <2> DEFINE nothing == <<>>
  <2>1. DOMAIN nothing = {} /\ IsSource(nothing)
    BY NoSource
  <2> HIDE DEF nothing
  <2>2. /\ IsSource(Overlay(file, nothing))
        /\ DOMAIN Overlay(file, nothing) = DOMAIN file
        /\ \A o \in DOMAIN file : Overlay(file, nothing)[o] = file[o]
    <3>1. /\ IsSource(Overlay(file, nothing))
          /\ DOMAIN Overlay(file, nothing) = DOMAIN file \union DOMAIN nothing
          /\ \A o \in DOMAIN file \ DOMAIN nothing : Overlay(file, nothing)[o] = file[o]
      BY <2>1, OverlayIsSource, Zenon
    <3> QED
      BY <2>1, <3>1
  <2>3. IsSource(given)
    BY OverlayIsSource
  <2> QED
    BY <2>2, <2>3 DEF nothing
<1>2. /\ DOMAIN given = DOMAIN file \union DOMAIN environment
      /\ \A o \in DOMAIN environment : given[o] = environment[o]
      /\ \A o \in DOMAIN file \ DOMAIN environment : given[o] = file[o]
  <2> HIDE DEF given, alone, loaded, without
  <2>1. /\ DOMAIN Overlay(file, environment) = DOMAIN file \union DOMAIN environment
        /\ \A o \in DOMAIN environment : Overlay(file, environment)[o] = environment[o]
        /\ \A o \in DOMAIN file \ DOMAIN environment : Overlay(file, environment)[o] = file[o]
    BY DEF Overlay
  <2> QED
    BY <2>1, Zenon DEF given
<1>3. /\ loaded.options = Created(Autocorrect(given))
      /\ without.options = Created(Autocorrect(alone))
      /\ loaded.beside = BesideFile(named, given, environment)
  BY DEF Load
<1> HIDE DEF loaded, without, given, alone
<1>4. ASSUME NEW source, IsSource(source), NEW o \in Options \ {"log_level"}
      PROVE  /\ o \in DOMAIN source \ Blank(source) => Created(Autocorrect(source))[o] = source[o]
             /\ o \notin DOMAIN source \ Blank(source) => Created(Autocorrect(source))[o] = Default[o]
  BY <1>4, AutocorrectKeeps DEF Created
<1>5. ASSUME NEW o \in (Options \ {"log_level"}) \intersect (DOMAIN environment \ Blank(environment))
      PROVE  loaded.options[o] = environment[o]
  <2>1. o \in DOMAIN given \ Blank(given) /\ given[o] = environment[o]
    BY <1>2 DEF Blank
  <2> QED
    BY <1>1, <1>3, <1>4, <2>1
<1>6. ASSUME NEW o \in (Options \ {"log_level"}) \ DOMAIN environment
      PROVE  loaded.options[o] = without.options[o]
  <2>1. CASE o \in DOMAIN file
    <3>1. given[o] = alone[o] /\ o \in DOMAIN given /\ o \in DOMAIN alone
      BY <1>1, <1>2, <2>1
    <3>2. o \in Blank(given) <=> o \in Blank(alone)
      BY <3>1 DEF Blank
    <3> QED
      BY <1>1, <1>3, <1>4, <3>1, <3>2
  <2>2. CASE o \notin DOMAIN file
    BY <1>1, <1>2, <1>3, <1>4, <2>2
  <2> QED
    BY <2>1, <2>2
<1>7. loaded.options.debug => loaded.options.log_level = "trace"
  <2> SUFFICES ASSUME loaded.options.debug PROVE loaded.options.log_level = "trace"
    OBVIOUS
  <2>1. {"debug", "log_level"} \subseteq Options /\ Default.debug = FALSE
    BY DEF Options, Default
  <2>2. "debug" \in DOMAIN given /\ given["debug"] \in BOOLEAN /\ loaded.options["debug"] = given["debug"]
    <3>1. "debug" \in DOMAIN given \ Blank(given)
      <4> SUFFICES ASSUME "debug" \notin DOMAIN given \ Blank(given) PROVE FALSE
        OBVIOUS
      <4>1. loaded.options["debug"] = Default["debug"]
        BY <1>1, <1>3, <1>4, <2>1
      <4> QED
        BY <2>1, <4>1, Zenon
    <3>2. loaded.options["debug"] = given["debug"]
      BY <1>1, <1>3, <1>4, <2>1, <3>1
    <3> QED
      BY <1>1, <3>1, <3>2, Zenon DEF IsSource
  <2>3. Gives(given, "debug", TRUE)
    BY <2>2, Zenon DEF Gives
  <2>4. "log_level" \in DOMAIN Autocorrect(given) /\ Autocorrect(given)["log_level"] = "trace"
    BY <1>1, <2>3, AutocorrectKeeps
  <2> QED
    BY <1>3, <2>1, <2>4 DEF Created
<1>8. ASSUME loaded.beside
      PROVE  /\ "specification_url" \in DOMAIN file \ DOMAIN environment
             /\ loaded.options.specification_url = file.specification_url
  <2>1. "specification_url" \in DOMAIN given \ DOMAIN environment
    BY <1>3, <1>8 DEF BesideFile
  <2>2. "specification_url" \in DOMAIN file \ DOMAIN environment
    BY <1>2, <2>1
  <2>3. "specification_url" \in (Options \ {"log_level"}) /\ "specification_url" \notin Blank(given)
    BY <1>1, <2>1 DEF IsSource, Blank
  <2> QED
    BY <1>1, <1>2, <1>3, <1>4, <2>1, <2>2, <2>3
<1> QED
  BY <1>5, <1>6, <1>7, <1>8 DEF loaded, without

-----------------------------------------------------------------------------
(* The commands *)

Url == settings.options.specification_url

Sources == IF launch.file = "parsed" THEN launch.options ELSE <<>>

\* Main has not begun to run the server.
Preparing == main \in {"new", "listening", "run"}

\* What the process has done at each stage.
Order ==
    /\ stage # "server" => main = "new"
    /\ Preparing => /\ plain = "none" /\ closer = "none" /\ ~closing
                    /\ \A r \in Requests : request[r] = "none"
    /\ closer = "none" \/ launch.dry => Preparing
    /\ stage = "server" => launch.command = "serve"
    /\ stage = "check" => launch.command = "validate"
    /\ stage \in {"generate", "save", "write"} => launch.command = "initialize"
    /\ stage = "router" => launch.command # "validate"
    /\ database # "kept" => stage = "write"

\* The settings, once they are loaded.
SettingsInv ==
    /\ stage # "load" => /\ Readable /\ Loaded.valid
                         /\ settings = Overridden(Loaded)
    /\ stage \notin {"load", "specification"} => Url \notin Remote \union {""}

LInv == LaunchTypeOK /\ Quiesced /\ StoppedIsClean /\ Order /\ SettingsInv /\ SuccessMeansDone

LEMMA LaunchSources ==
    ASSUME launch \in Launches
    PROVE  IsSource(Sources) /\ IsSource(launch.environment)
<1>1. IsLaunch(launch)
  BY LaunchesAssumption
<1> QED
  BY <1>1, NoSource DEF IsLaunch, IsSource, Sources

LEMMA LoadedOptions ==
    /\ Loaded = Load(launch.named, Sources, launch.environment)
    /\ DOMAIN Loaded.options = Options
    /\ Loaded.beside \in BOOLEAN
BY DEF Loaded, Sources, Load, Created, BesideFile

\* The argument changes one option only.
LEMMA OverriddenOptions ==
    /\ DOMAIN Overridden(Loaded).options = Options
    /\ Overridden(Loaded).beside \in BOOLEAN
    /\ \A o \in Options \ {"specification_url"} : Overridden(Loaded).options[o] = Loaded.options[o]
    /\ launch.url = "" => Overridden(Loaded) = [beside |-> Loaded.beside, options |-> Loaded.options]
    /\ launch.url # "" => /\ Overridden(Loaded).options.specification_url = launch.url
                          /\ Overridden(Loaded).beside = FALSE
<1>1. "specification_url" \in Options
  BY DEF Options, Default
<1> QED
  BY <1>1, LoadedOptions DEF Overridden

LEMMA InitLInv == ASSUME LaunchInit PROVE LInv
<1>1. TypeOK /\ Quiesced /\ StoppedIsClean
  BY InitIInv DEF LaunchInit, IInv
<1>2. LaunchTypeOK
  <2>1. settings.beside \in BOOLEAN /\ DOMAIN settings.options = Options
    BY DEF LaunchInit, Options
  <2> QED
    BY <1>1, <2>1 DEF LaunchInit, LaunchTypeOK
<1>3. Order
  BY DEF LaunchInit, Init, Order, Preparing
<1>4. SettingsInv /\ SuccessMeansDone
  BY DEF LaunchInit, Init, SettingsInv, SuccessMeansDone
<1> QED
  BY <1>1, <1>2, <1>3, <1>4 DEF LInv

\* A stage that goes on to the next one, and changes nothing else.
LEMMA ProceedLInv ==
    ASSUME LInv, Running, NEW to, Proceed(to),
           to \in {"check", "router", "generate", "save", "server"},
           stage # "load", stage # "server", database = "kept",
           to = "server" => launch.command = "serve",
           to = "check" => launch.command = "validate",
           to \in {"generate", "save"} => launch.command = "initialize",
           to = "router" => launch.command # "validate",
           Url \notin Remote \union {""}
    PROVE  LInv'
<1>1. UNCHANGED <<vars, launch, settings, database>> /\ stage' = to
  BY DEF Proceed
<1>2. LaunchTypeOK'
  <2>1. TypeOK /\ UNCHANGED vars
    BY <1>1 DEF LInv, LaunchTypeOK
  <2>2. /\ main' = main /\ plain' = plain /\ closer' = closer /\ quit' = quit
        /\ closing' = closing /\ request' = request /\ exit' = exit /\ expired' = expired
    BY <2>1 DEF vars
  <2>3. closing' \in BOOLEAN /\ expired' \in BOOLEAN /\ quit' \in 0 .. 1
    BY <2>1, <2>2, Zenon DEF TypeOK
  <2>4. request' \in [Requests -> {"none", "active", "ended", "cut"}]
    BY <2>1, <2>2, Zenon DEF TypeOK
  <2>5. TypeOK'
    BY <2>1, <2>2, <2>3, <2>4 DEF TypeOK
  <2> QED
    BY <1>1, <2>5 DEF LInv, LaunchTypeOK
<1>3. Quiesced' /\ StoppedIsClean'
  BY <1>1 DEF LInv, Quiesced, StoppedIsClean, Active, Running, vars
<1>4. Order'
  BY <1>1 DEF LInv, Order, Preparing, vars
<1>5. SettingsInv'
  BY <1>1 DEF LInv, SettingsInv, Readable, Loaded, Overridden, Url
<1>6. SuccessMeansDone'
  BY <1>1 DEF LInv, SuccessMeansDone, Running, vars
<1> QED
  BY <1>2, <1>3, <1>4, <1>5, <1>6 DEF LInv

\* The process ends before it serves: with an error, or with success.
LEMMA EndLInv ==
    ASSUME LInv, Running, Preparing, NEW how \in {"failed", "killed", "stopped"}, Exit(how),
           UNCHANGED <<expired, launch, stage, settings>>,
           database' = database \/ (stage = "write" /\ database' = "template"),
           how = "stopped" =>
               /\ IF launch.command = "initialize" THEN database' = "template" ELSE database' = "kept"
               /\ launch.command = "serve" => launch.dry
    PROVE  LInv'
<1>1. Active = {} /\ \A r \in Requests : request[r] = "none"
  BY DEF LInv, Order, Active
<1>2. request' = request
  <2>1. request' = [r \in Requests |-> request[r]]
    BY <1>1 DEF Exit
  <2>2. request = [r \in Requests |-> request[r]]
    BY DEF LInv, LaunchTypeOK, TypeOK
  <2> QED
    BY <2>1, <2>2
<1>3. UNCHANGED <<main, plain, closer, quit, closing, expired, launch, stage, settings>> /\ exit' = how
  BY DEF Exit
<1>4. LaunchTypeOK'
  BY <1>2, <1>3 DEF LInv, LaunchTypeOK, TypeOK
<1>5. Quiesced' /\ StoppedIsClean'
  BY <1>1, <1>2, <1>3 DEF LInv, Quiesced, StoppedIsClean, Active, Running
<1>6. Order'
  BY <1>2, <1>3 DEF LInv, Order, Preparing
<1>7. SettingsInv'
  BY <1>3 DEF LInv, SettingsInv, Readable, Loaded, Overridden, Url
<1>8. SuccessMeansDone'
  BY <1>3 DEF SuccessMeansDone
<1> QED
  BY <1>4, <1>5, <1>6, <1>7, <1>8 DEF LInv

\* The steps of the life of the server, whose proofs are those of HttpServer.
LEMMA ServerLInv ==
    ASSUME LInv, Running, [Next]_vars, UNCHANGED start, Order',
           exit' = "stopped" => closing /\ launch.command = "serve"
    PROVE  LInv'
<1>1. IInv'
  BY NextIInv DEF LInv, LaunchTypeOK, IInv
<1>2. UNCHANGED <<launch, stage, settings, database>>
  BY DEF start
<1>3. LaunchTypeOK'
  BY <1>1, <1>2 DEF LInv, LaunchTypeOK, IInv
<1>4. SettingsInv'
  BY <1>2 DEF LInv, SettingsInv, Readable, Loaded, Overridden, Url
<1>5. SuccessMeansDone'
  <2>1. SUFFICES ASSUME exit' = "stopped"
                 PROVE  database = "kept" /\ launch.command = "serve" /\ closing'
    BY <1>2 DEF SuccessMeansDone
  <2>2. launch.command = "serve" /\ closing
    BY <2>1
  <2>3. database = "kept"
    BY <2>2 DEF LInv, Order
  <2>4. closing'
    BY <2>2 DEF Next, StartFails, Listen, Run, Signal, ServeTLS, Serve, ServeReturns, AcceptFails,
       BeginShutdown, ShutdownReturns, ShutdownExpires, Stopped, Accept, Answer, Leave, Set, Exit, vars
  <2> QED
    BY <2>2, <2>3, <2>4
<1> QED
  BY <1>1, <1>3, <1>4, <1>5 DEF LInv, IInv

\* A step while the server runs: main has begun to run it, and does not go back.
Serves ==
    /\ ~Preparing /\ ~Preparing' /\ closer' # "none"
    /\ Running /\ [Next]_vars
    /\ exit' = "stopped" => closing

LEMMA ServingServes ==
    ASSUME LInv, Serving, ~(Signal /\ closer = "none")
    PROVE  Serves
<1> USE DEF Serves, Preparing, Running
<1>1. CASE Signal
  <2>1. closer # "none" /\ Running /\ closer' = closer /\ main' = main /\ exit' = exit
    BY <1>1 DEF Signal
  <2> QED
    BY <1>1, <2>1 DEF LInv, Order, Next, LaunchTypeOK, TypeOK
<1>2. CASE ServeTLS \/ Serve \/ ServeReturns \/ AcceptFails
  BY <1>2 DEF ServeTLS, Serve, ServeReturns, AcceptFails, Exit, LInv, Order, Next
<1>3. CASE BeginShutdown \/ ShutdownReturns \/ ShutdownExpires
  BY <1>3 DEF BeginShutdown, ShutdownReturns, ShutdownExpires, Exit, LInv, Order, Next
<1>4. CASE Stopped
  BY <1>4 DEF Stopped, Exit, LInv, Order, Quiesced, Next
<1>5. ASSUME NEW r \in Requests, Accept(r) \/ Answer(r) \/ Leave(r) PROVE Serves
  BY <1>5 DEF Accept, Answer, Leave, Set, LInv, Order, Next
<1> QED
  BY <1>1, <1>2, <1>3, <1>4, <1>5 DEF Serving

LEMMA NextLInv == ASSUME LInv, [LaunchNext]_allVars PROVE LInv'
<1> USE DEF Starting
<1>1. CASE LoadConfiguration
  <2>1. stage = "load" /\ Running /\ Preparing /\ main = "new"
    BY <1>1 DEF LoadConfiguration, LInv, Order, Preparing
  <2>2. CASE Readable /\ Loaded.valid
    <3>1. UNCHANGED <<vars, launch, database>> /\ stage' = "specification"
          /\ settings' = Overridden(Loaded)
      BY <1>1, <2>2 DEF LoadConfiguration
    <3>2. LaunchTypeOK'
      <4>1. TypeOK'
        BY <3>1 DEF LInv, LaunchTypeOK, TypeOK, vars
      <4>2. settings'.beside \in BOOLEAN /\ DOMAIN settings'.options = Options
        BY <3>1, OverriddenOptions
      <4> QED
        BY <3>1, <4>1, <4>2 DEF LInv, LaunchTypeOK
    <3>3. Quiesced' /\ StoppedIsClean'
      BY <3>1 DEF LInv, Quiesced, StoppedIsClean, Active, Running, vars
    <3>4. Order'
      BY <2>1, <3>1 DEF LInv, Order, Preparing, vars
    <3>5. Readable' /\ Loaded' = Loaded /\ Overridden(Loaded)' = Overridden(Loaded)
      BY <2>2, <3>1 DEF Readable, Loaded, Overridden
    <3>6. SettingsInv'
      BY <2>2, <3>1, <3>5 DEF SettingsInv
    <3>7. SuccessMeansDone'
      BY <3>1 DEF LInv, SuccessMeansDone, vars
    <3> QED
      BY <3>2, <3>3, <3>4, <3>6, <3>7 DEF LInv
  <2>3. CASE ~(Readable /\ Loaded.valid)
    BY <1>1, <2>1, <2>3, EndLInv DEF LoadConfiguration, Fail, start
  <2> QED
    BY <2>2, <2>3
<1>2. ASSUME Fail, Running, Preparing PROVE LInv'
  BY <1>2, EndLInv DEF Fail, start
<1>3. stage # "server" => Preparing
  BY DEF LInv, Order, Preparing
<1>4. CASE LoadSpecification
  <2>1. stage = "specification" /\ Running /\ database = "kept"
    BY <1>4 DEF LoadSpecification, LInv, Order
  <2>2. CASE Fail
    BY <1>2, <1>3, <2>1, <2>2
  <2>3. CASE ~Fail
    <3>1. Url \notin Remote \union {""}
          /\ Proceed(IF launch.command = "validate" THEN "check" ELSE "router")
      BY <1>4, <2>3 DEF LoadSpecification, Url
    <3>2. CASE launch.command = "validate"
      BY <2>1, <3>1, <3>2, ProceedLInv
    <3>3. CASE launch.command # "validate"
      BY <2>1, <3>1, <3>3, ProceedLInv
    <3> QED
      BY <3>2, <3>3
  <2> QED
    BY <2>2, <2>3
<1>5. CASE CheckSpecification
  <2>1. stage = "check" /\ Running /\ launch.command = "validate" /\ database = "kept" /\ Preparing
    BY <1>3, <1>5 DEF CheckSpecification, LInv, Order
  <2>2. CASE Return /\ UNCHANGED database
    BY <2>1, <2>2, EndLInv DEF Return
  <2> QED
    BY <1>2, <1>5, <2>1, <2>2 DEF CheckSpecification
<1>6. CASE BuildRouter
  <2>1. stage = "router" /\ Running /\ launch.command # "validate" /\ database = "kept"
        /\ Url \notin Remote \union {""}
    BY <1>6 DEF BuildRouter, LInv, Order, SettingsInv
  <2>2. CASE Proceed(IF launch.command = "serve" THEN "server" ELSE "generate")
    <3>1. CASE launch.command = "serve"
      BY <2>1, <2>2, <3>1, ProceedLInv
    <3>2. CASE launch.command # "serve"
      <4>1. launch.command = "initialize"
        BY <2>1, <3>2, LaunchesAssumption DEF LInv, LaunchTypeOK, IsLaunch
      <4> QED
        BY <2>1, <2>2, <3>2, <4>1, ProceedLInv
    <3> QED
      BY <3>1, <3>2
  <2> QED
    BY <1>2, <1>3, <1>6, <2>1, <2>2 DEF BuildRouter
<1>7. CASE GenerateTemplate
  <2>1. stage = "generate" /\ Running /\ launch.command = "initialize" /\ database = "kept"
        /\ Url \notin Remote \union {""}
    BY <1>7 DEF GenerateTemplate, LInv, Order, SettingsInv
  <2>2. CASE Proceed("save")
    BY <2>1, <2>2, ProceedLInv
  <2> QED
    BY <1>2, <1>3, <1>7, <2>1, <2>2 DEF GenerateTemplate
<1>8. CASE Truncate
  <2>1. stage = "save" /\ Running /\ launch.command = "initialize" /\ main = "new"
    BY <1>8 DEF Truncate, LInv, Order
  <2>2. CASE Fail
    BY <1>2, <1>3, <2>1, <2>2
  <2>3. CASE ~Fail
    <3>1. UNCHANGED <<vars, launch, settings>> /\ stage' = "write" /\ database' = "truncated"
      BY <1>8, <2>3 DEF Truncate
    <3>2. LaunchTypeOK'
      <4>1. TypeOK'
        BY <3>1 DEF LInv, LaunchTypeOK, TypeOK, vars
      <4> QED
        BY <3>1, <4>1 DEF LInv, LaunchTypeOK
    <3>3. Quiesced' /\ StoppedIsClean'
      BY <3>1 DEF LInv, Quiesced, StoppedIsClean, Active, Running, vars
    <3>4. Order'
      BY <2>1, <3>1 DEF LInv, Order, Preparing, vars
    <3>5. SettingsInv'
      BY <2>1, <3>1 DEF LInv, SettingsInv, Readable, Loaded, Overridden, Url
    <3>6. SuccessMeansDone'
      BY <2>1, <3>1 DEF LInv, SuccessMeansDone, Running, vars
    <3> QED
      BY <3>2, <3>3, <3>4, <3>5, <3>6 DEF LInv
  <2> QED
    BY <2>2, <2>3
<1>9. CASE WriteFile
  <2>1. stage = "write" /\ Running /\ launch.command = "initialize" /\ Preparing
    BY <1>3, <1>9 DEF WriteFile, LInv, Order
  <2>2. CASE Return /\ database' = "template"
    BY <2>1, <2>2, EndLInv DEF Return
  <2> QED
    BY <1>2, <1>9, <2>1, <2>2 DEF WriteFile
<1>10. CASE RunServer
  <2>1. stage = "server" /\ (launch.dry => main # "run") /\ UNCHANGED start
        /\ (StartFails \/ Listen \/ Run) /\ Running
    BY <1>10 DEF RunServer, StartFails, Listen, Run
  <2>2. stage' = stage /\ launch' = launch /\ database' = database
    BY <2>1 DEF start
  <2>3. CASE StartFails
    <3>1. Preparing
      BY <2>3 DEF StartFails, Preparing
    <3> QED
      BY <2>1, <2>3, <3>1, EndLInv DEF StartFails, start
  <2>4. CASE Listen
    <3>1. Order'
      BY <2>1, <2>2, <2>4 DEF LInv, Order, Preparing, Listen
    <3>2. exit' # "stopped" /\ [Next]_vars
      BY <2>1, <2>4 DEF Listen, Running, Next
    <3> QED
      BY <2>1, <3>1, <3>2, ServerLInv
  <2>5. CASE Run
    <3>1. Order'
      BY <2>1, <2>2, <2>5 DEF LInv, Order, Preparing, Run
    <3>2. exit' # "stopped" /\ [Next]_vars
      BY <2>1, <2>5 DEF Run, Running, Next
    <3> QED
      BY <2>1, <3>1, <3>2, ServerLInv
  <2> QED
    BY <2>1, <2>3, <2>4, <2>5
<1>11. CASE DryRunReturns
  <2>1. stage = "server" /\ Running /\ launch.dry /\ Preparing /\ launch.command = "serve"
        /\ database = "kept" /\ Return /\ UNCHANGED database
    BY <1>11 DEF DryRunReturns, LInv, Order, Preparing
  <2> QED
    BY <2>1, EndLInv DEF Return
<1>12. CASE Serving
  <2>1. UNCHANGED start /\ stage' = stage /\ launch' = launch /\ database' = database
    BY <1>12 DEF Serving, start
  <2>2. CASE Signal /\ closer = "none"
    <3>1. Preparing /\ Running /\ Exit("killed") /\ UNCHANGED expired
      BY <2>2 DEF Signal, LInv, Order
    <3> QED
      BY <2>1, <3>1, EndLInv DEF start
  <2>3. CASE ~(Signal /\ closer = "none")
    <3>1. Serves
      BY <1>12, <2>3, ServingServes
    <3>2. Order'
      BY <2>1, <3>1 DEF LInv, Order, Serves, Preparing
    <3>3. launch.command = "serve"
      BY <3>1 DEF LInv, Order, Serves, Preparing
    <3> QED
      BY <2>1, <3>1, <3>2, <3>3, ServerLInv DEF Serves
  <2> QED
    BY <2>2, <2>3
<1>13. CASE UNCHANGED allVars
  <2>1. UNCHANGED <<vars, launch, stage, settings, database>>
    BY <1>13 DEF allVars, start
  <2>2. TypeOK'
    BY <2>1 DEF LInv, LaunchTypeOK, TypeOK, vars
  <2>3. LaunchTypeOK'
    BY <2>1, <2>2 DEF LInv, LaunchTypeOK
  <2>4. Quiesced' /\ StoppedIsClean'
    BY <2>1 DEF LInv, Quiesced, StoppedIsClean, Active, Running, vars
  <2>5. Order'
    BY <2>1 DEF LInv, Order, Preparing, vars
  <2>6. SettingsInv'
    BY <2>1 DEF LInv, SettingsInv, Readable, Loaded, Overridden, Url
  <2>7. SuccessMeansDone'
    BY <2>1 DEF LInv, SuccessMeansDone, vars
  <2> QED
    BY <2>3, <2>4, <2>5, <2>6, <2>7 DEF LInv
<1> QED
  BY <1>1, <1>4, <1>5, <1>6, <1>7, <1>8, <1>9, <1>10, <1>11, <1>12, <1>13 DEF LaunchNext, Starts

LEMMA LaunchInvariant == LaunchSpec => []LInv
BY InitLInv, NextLInv, PTL DEF LaunchSpec

-----------------------------------------------------------------------------
(* The theorems *)

\* Type correctness of the commands and of the server they start.
THEOREM LaunchTypeCorrect == LaunchSpec => []LaunchTypeOK
<1>1. LInv => LaunchTypeOK
  BY DEF LInv
<1> QED
  BY <1>1, LaunchInvariant, PTL

\* A port is bound with valid values only, from whichever sources they came
\* (Load.go, file.go).
THEOREM ValidConfigurationServed == LaunchSpec => []ServesValidConfiguration
<1>1. LInv => ServesValidConfiguration
  <2> SUFFICES ASSUME LInv, main # "new" PROVE ServesValidConfiguration
    BY DEF ServesValidConfiguration
  <2>1. stage = "server"
    BY DEF LInv, Order
  <2>2. Loaded.valid /\ settings = Overridden(Loaded) /\ Url \notin Remote \union {""}
    BY <2>1 DEF LInv, SettingsInv
  <2>3. IsValid(Loaded.options)
    <3>1. IsSource(Sources) /\ IsSource(launch.environment)
      BY LaunchSources DEF LInv, LaunchTypeOK
    <3> QED
      BY <2>2, <3>1, LoadedOptions, LoadIsValid
  <2>4. {"port", "log_format", "log_level", "use_examples", "response_timeout"}
          \subseteq Options \ {"specification_url"}
    BY DEF Options, Default
  <2>5. IsValid(settings.options)
    BY <2>2, <2>3, <2>4, OverriddenOptions DEF IsValid
  <2> QED
    BY <2>2, <2>5 DEF ServesValidConfiguration, IsValid, Url
<1> QED
  BY <1>1, LaunchInvariant, PTL

\* The environment outweighs the file, and the argument outweighs both
\* (Load.go, environment.go, Execute.go).
THEOREM SourcesAreRespected == LaunchSpec => []SourcesRespected
<1>1. LInv => SourcesRespected
  <2> SUFFICES ASSUME LInv, stage # "load" PROVE SourcesRespected
    BY DEF SourcesRespected
  <2> DEFINE environment == launch.environment
             without == Load(launch.named, Sources, <<>>)
             kept == Options \ {"log_level", "specification_url"}
  <2>1. settings = Overridden(Loaded) /\ Loaded = Load(launch.named, Sources, environment)
    BY LoadedOptions DEF LInv, SettingsInv
  <2>2. IsSource(Sources) /\ IsSource(environment)
    BY LaunchSources DEF LInv, LaunchTypeOK
  <2>3. /\ \A o \in (Options \ {"log_level"}) \intersect (DOMAIN environment \ Blank(environment)) :
             Loaded.options[o] = environment[o]
        /\ \A o \in (Options \ {"log_level"}) \ DOMAIN environment :
             Loaded.options[o] = without.options[o]
        /\ Loaded.options.debug => Loaded.options.log_level = "trace"
        /\ Loaded.beside => /\ "specification_url" \in DOMAIN Sources \ DOMAIN environment
                            /\ Loaded.options.specification_url = Sources.specification_url
    BY <2>1, <2>2, LoadRespects
  <2>4. \A o \in Options \ {"specification_url"} : settings.options[o] = Loaded.options[o]
    BY <2>1, OverriddenOptions
  <2>0. launch.url = "" => settings.options = Loaded.options /\ settings.beside = Loaded.beside
    <3>1. settings = Overridden(Loaded)
      BY <2>1
    <3> QED
      BY <3>1 DEF Overridden
  <2> HIDE DEF without
  <2>5. \A o \in kept \intersect (DOMAIN environment \ Blank(environment)) :
          settings.options[o] = environment[o]
    BY <2>3, <2>4
  <2>6. \A o \in kept \ DOMAIN environment : settings.options[o] = without.options[o]
    BY <2>3, <2>4
  <2>7. settings.options.debug => settings.options.log_level = "trace"
    <3>1. {"debug", "log_level"} \subseteq Options \ {"specification_url"}
      BY DEF Options, Default
    <3>2. settings.options["debug"] = Loaded.options["debug"]
          /\ settings.options["log_level"] = Loaded.options["log_level"]
      BY <2>4, <3>1
    <3> QED
      BY <2>3, <3>2, Zenon
  <2>8. launch.url # "" => Url = launch.url
    BY <2>1, OverriddenOptions DEF Url
  <2>9. launch.url = "" /\ "specification_url" \in DOMAIN environment =>
          Url = environment.specification_url
    <3>1. "specification_url" \in Options \ {"log_level"} /\ "specification_url" \notin Blank(environment)
      BY DEF Options, Default, Blank
    <3> QED
      BY <2>0, <2>3, <3>1 DEF Url
  <2>10. settings.beside => Url = launch.options.specification_url
    <3> SUFFICES ASSUME settings.beside PROVE Url = launch.options.specification_url
      OBVIOUS
    <3>1. launch.url = ""
      BY <2>1, OverriddenOptions
    <3>2. Loaded.beside /\ settings.options = Loaded.options
      BY <2>0, <3>1
    <3>3. "specification_url" \in DOMAIN Sources /\ Url = Sources.specification_url
      BY <2>3, <3>2 DEF Url
    <3>4. Sources = launch.options
      BY <3>3, NoSource DEF Sources
    <3> QED
      BY <3>3, <3>4
  <2> QED
    BY <2>5, <2>6, <2>7, <2>8, <2>9, <2>10 DEF SourcesRespected, without, Sources, Url
<1> QED
  BY <1>1, LaunchInvariant, PTL

\* A dry run accepts no request (Execute.go, RunServer).
THEOREM DryRunsServeNothing == LaunchSpec => []DryRunServesNothing
<1>1. LInv => DryRunServesNothing
  BY DEF LInv, Order, DryRunServesNothing
<1> QED
  BY <1>1, LaunchInvariant, PTL

\* A command that reports success has done what it is for (Execute.go, Factory.go).
THEOREM SuccessIsDone == LaunchSpec => []SuccessMeansDone
<1>1. LInv => SuccessMeansDone
  BY DEF LInv
<1> QED
  BY <1>1, LaunchInvariant, PTL

\* A graceful stop has cut no request off, however the process was started.
THEOREM LaunchStopsClean == LaunchSpec => []StoppedIsClean
<1>1. LInv => StoppedIsClean
  BY DEF LInv
<1> QED
  BY <1>1, LaunchInvariant, PTL
=============================================================================
