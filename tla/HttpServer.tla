----------------------------- MODULE HttpServer -----------------------------
(***************************************************************************)
(* The life of the server process: internal/server/httpServer.go, from the *)
(* two listeners of New to the end of Run.  Three goroutines run it: main  *)
(* serves HTTPS, plain starts to serve HTTP a second later, closer waits   *)
(* for SIGINT or SIGTERM and shuts the server down.  What net/http does is *)
(* modelled by how Run uses it: from the call of Shutdown on, Serve returns*)
(* ErrServerClosed; Shutdown returns when no request is active, or when    *)
(* its context ends.                                                       *)
(***************************************************************************)
EXTENDS Naturals

CONSTANTS
    Requests,   \* the requests clients make during one life of the process
    Streams     \* those of them that are event streams: only their client ends them

ASSUME StreamsAssumption == Streams \subseteq Requests

VARIABLES
    main, plain, closer,   \* where the goroutines are
    quit,                  \* the signals in their channel, which has room for one
    closing,               \* Shutdown was called
    request,               \* what became of each request
    exit,                  \* how the process ended
    expired                \* history: the 30 seconds of the shutdown have passed

vars == <<main, plain, closer, quit, closing, request, exit, expired>>

Running == exit = "none"

Active == {r \in Requests : request[r] = "active"}

\* The process ends, and cuts the requests that are still being served.
Exit(how) ==
    /\ exit' = how
    /\ request' = [r \in Requests |-> IF r \in Active THEN "cut" ELSE request[r]]
    /\ UNCHANGED <<main, plain, closer, quit, closing>>

-----------------------------------------------------------------------------
(* New and the start of Run, lines 22-58 *)

\* Either port may be taken, and the name of the host unknown: serve fails.
StartFails == Running /\ main \in {"new", "listening", "run"} /\ Exit("failed") /\ UNCHANGED expired

Listen ==
    /\ Running
    /\ \/ main = "new" /\ main' = "listening"
       \/ main = "listening" /\ main' = "run"
    /\ UNCHANGED <<plain, closer, quit, closing, request, exit, expired>>

Run ==
    /\ Running
    /\ main = "run"
    /\ main' = "start"
    /\ plain' = "sleep"
    /\ closer' = "wait"
    /\ UNCHANGED <<quit, closing, request, exit, expired>>

MutantSignal ==
    /\ Running
    /\ IF closer = "none"
       THEN Exit("killed")
       ELSE quit' = quit + 1 /\ UNCHANGED <<main, plain, closer, closing, request, exit>>
    /\ UNCHANGED expired

\* Before signal.Notify a signal kills the process; afterwards one that finds
\* another in the channel is dropped.
Signal ==
    /\ Running
    /\ IF closer = "none"
       THEN Exit("killed")
       ELSE quit' = 1 /\ UNCHANGED <<main, plain, closer, closing, request, exit>>
    /\ UNCHANGED expired

-----------------------------------------------------------------------------
(* Serving, lines 77-87 *)

\* Serve starts, unless the server is closing, or a file of the certificate
\* is missing for ServeTLS, which is an error that Run does not report.
ServeTLS ==
    /\ Running
    /\ main = "start"
    /\ \/ closing /\ Exit("fatal")
       \/ /\ main' \in IF closing THEN {"waitDone"} ELSE {"serve", "waitDone"}
          /\ UNCHANGED <<plain, closer, quit, closing, request, exit>>
    /\ UNCHANGED expired

Serve ==
    /\ Running
    /\ plain = "sleep"
    /\ \/ closing /\ Exit("fatal")
       \/ ~closing /\ plain' = "serve" /\ UNCHANGED <<main, closer, quit, closing, request, exit>>
    /\ UNCHANGED expired

\* A call of Serve that started returns ErrServerClosed once the server is
\* closing, and Fatalf ends the process.
ServeReturns ==
    /\ Running
    /\ closing
    /\ main = "serve" \/ plain = "serve"
    /\ Exit("fatal")
    /\ UNCHANGED expired

\* A listener that stops to accept ends its loop with another error, which
\* neither goroutine reports.
AcceptFails ==
    /\ Running
    /\ ~closing
    /\ \/ main = "serve" /\ main' = "waitDone" /\ UNCHANGED plain
       \/ plain = "serve" /\ plain' = "ended" /\ UNCHANGED main
    /\ UNCHANGED <<closer, quit, closing, request, exit, expired>>

-----------------------------------------------------------------------------
(* The shutdown, lines 58-74 and 89-92 *)

\* Keep-alives are disabled, Shutdown is called: no more request is accepted.
BeginShutdown ==
    /\ Running
    /\ closer = "wait"
    /\ quit = 1
    /\ quit' = 0
    /\ closing' = TRUE
    /\ closer' = "shutdown"
    /\ UNCHANGED <<main, plain, request, exit, expired>>

MutantShutdownReturns ==
    /\ Running
    /\ closer = "shutdown"
    /\ closer' = "done"
    /\ UNCHANGED <<main, plain, quit, closing, request, exit, expired>>

\* Shutdown has seen every request end: the channel done is closed.
ShutdownReturns ==
    /\ Running
    /\ closer = "shutdown"
    /\ Active = {}
    /\ closer' = "done"
    /\ UNCHANGED <<main, plain, quit, closing, request, exit, expired>>

MutantShutdownExpires == FALSE /\ UNCHANGED vars

\* The context ends first: Fatalf.
ShutdownExpires ==
    /\ Running
    /\ closer = "shutdown"
    /\ expired' = TRUE
    /\ Exit("fatal")

Stopped ==
    /\ Running
    /\ main = "waitDone"
    /\ closer = "done"
    /\ Exit("stopped")
    /\ UNCHANGED expired

-----------------------------------------------------------------------------
(* Requests *)

Set(r, state) ==
    /\ request' = [request EXCEPT ![r] = state]
    /\ UNCHANGED <<main, plain, closer, quit, closing, exit, expired>>

\* Without a call of Serve, or when closing, nobody accepts a connection.
Accept(r) ==
    /\ Running
    /\ ~closing
    /\ main = "serve" \/ plain = "serve"
    /\ request[r] = "none"
    /\ Set(r, "active")

\* A handler returns: nothing makes it, WriteTimeout is 0 and the timeout
\* handler is not installed.
Answer(r) == Running /\ r \notin Streams /\ request[r] = "active" /\ Set(r, "ended")

\* The client of a stream goes away.
Leave(r) == Running /\ r \in Streams /\ request[r] = "active" /\ Set(r, "ended")

Init ==
    /\ main = "new"
    /\ plain = "none"
    /\ closer = "none"
    /\ quit = 0
    /\ closing = FALSE
    /\ request = [r \in Requests |-> "none"]
    /\ exit = "none"
    /\ expired = FALSE

Next ==
    \/ StartFails \/ Listen \/ Run \/ Signal
    \/ ServeTLS \/ Serve \/ ServeReturns \/ AcceptFails
    \/ BeginShutdown \/ ShutdownReturns \/ ShutdownExpires \/ Stopped
    \/ \E r \in Requests : Accept(r) \/ Answer(r) \/ Leave(r)

Spec == Init /\ [][Next]_vars

\* The scheduler runs the three goroutines, and the timer of the context
\* fires. Handlers and clients promise nothing.
FairSpec ==
    /\ Spec
    /\ WF_vars(ServeTLS \/ Stopped)
    /\ WF_vars(Serve)
    /\ WF_vars(ServeReturns)
    /\ WF_vars(BeginShutdown \/ ShutdownReturns)
    /\ WF_vars(ShutdownExpires)

-----------------------------------------------------------------------------
(* Properties *)

\* Every variable has the values the code can give it.
TypeOK ==
    /\ main \in {"new", "listening", "run", "start", "serve", "waitDone"}
    /\ plain \in {"none", "sleep", "serve", "ended"}
    /\ closer \in {"none", "wait", "shutdown", "done"}
    /\ quit \in 0 .. 1
    /\ closing \in BOOLEAN
    /\ request \in [Requests -> {"none", "active", "ended", "cut"}]
    /\ exit \in {"none", "failed", "killed", "fatal", "stopped"}
    /\ expired \in BOOLEAN

\* A process that reports to have stopped gracefully has cut no request off.
StoppedIsClean == exit = "stopped" => \A r \in Requests : request[r] # "cut"

\* The process ends after a signal, even if a request never does.
SignalEnds == quit = 1 ~> ~Running

\* Once a signal is received, requests have 30 seconds to end: a request is
\* cut only when "Could not gracefully shutdown the server" is logged.
CutOnlyWhenExpired ==
    closing /\ ~expired => \A r \in Requests : request[r] # "cut"
=============================================================================
