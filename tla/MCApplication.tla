---------------------------- MODULE MCApplication ----------------------------
(* Launches for TLC: every pair of a file and an environment of a few, for   *)
(* serve; each failure of a source once; the other commands once each.       *)
EXTENDS Application

MCRemote == {"http://api"}

Usual == [command |-> "serve", dry |-> FALSE, named |-> TRUE, file |-> "parsed", parsable |-> TRUE,
          options |-> [specification_url |-> "api.yaml"], environment |-> <<>>, url |-> ""]

FileOptions ==
    {[specification_url |-> "api.yaml"],
     [specification_url |-> "/etc/api.yaml", port |-> 0, use_examples |-> "always"],
     [specification_url |-> "http://api", response_timeout |-> -1, debug |-> TRUE, log_level |-> "error"],
     [port |-> 80, https_port |-> 0, log_format |-> "xml", null_probability |-> 1]}

Environments ==
    {<<>>,
     [specification_url |-> "env.yaml", port |-> 81, log_format |-> "json"],
     [port |-> 0, log_level |-> "loud", suppress_errors |-> TRUE],
     [use_examples |-> "", log_level |-> "", response_timeout |-> 0, debug |-> FALSE, log_format |-> "tty"]}

MCLaunches ==
    {[Usual EXCEPT !.options = o, !.environment = e, !.named = n] :
        o \in FileOptions, e \in Environments, n \in BOOLEAN}
    \union {[Usual EXCEPT !.command = c, !.dry = d, !.url = u] :
        c \in {"serve", "validate", "initialize"}, d \in BOOLEAN, u \in {"", "arg.yaml"}}
    \union {[Usual EXCEPT !.named = n, !.file = f, !.url = "arg.yaml"] :
        n \in BOOLEAN, f \in {"none", "malformed"}}
    \union {[Usual EXCEPT !.parsable = FALSE]}
=============================================================================
