--------------------------------- MODULE Startup ---------------------------------
(****************************************************************************)
(* main() up to the moment the server runs (main.rs), and the operator who  *)
(* starts it again: each step that fails ends the process with an exit code *)
(* of its own, and the operator puts right the variable a configuration     *)
(* error names.  Exchange adds what happens while the process serves; how   *)
(* the server stops is the subject of Proxy.                                *)
(*                                                                          *)
(* A "Variant" is a faulty form of the definition that follows it; no       *)
(* specification uses it.                                                   *)
(****************************************************************************)
EXTENDS Config

CONSTANT Envs       \* the environments the first start may find

ASSUME StartupAssumption == \A e \in Envs : IsEnvironment(e)

VARIABLES
  env,              \* the environment of the process
  step,             \* how far main() is
  exit,             \* its exit code, once it has ended
  warned,           \* the content capture warning was logged
  log,              \* the log file: "absent", "empty" or with "records"
  found,            \* what it was when the process started
  told              \* the variables the operator has been told to put right

startVars == <<env, step, exit, warned, log, found, told>>

Steps == {"loading", "opening", "building", "binding", "serving", "ended"}

\* The Config of the process; Loaded is evaluated once, and env never changes under it.
config == Loaded(env)

StartInit ==
  /\ env \in Envs
  /\ step = "loading"
  /\ exit = 0
  /\ warned = FALSE
  /\ log \in {"absent", "empty", "records"}
  /\ found = log
  /\ told = {}

Exit(from, code) ==
  /\ step = from
  /\ step' = "ended"
  /\ exit' = code
  /\ UNCHANGED <<env, warned, found, told>>

Reach(from, to) ==
  /\ step = from
  /\ step' = to
  /\ UNCHANGED <<env, exit, found, told>>

RejectConfig == ~Accepts(env) /\ Exit("loading", 2) /\ UNCHANGED log

LoadConfig ==
  /\ Accepts(env)
  /\ Reach("loading", "opening")
  /\ warned' = config.capture_content
  /\ UNCHANGED log

\* spawn_pipeline makes the channel before it opens the file, and mpsc::channel panics
\* on a capacity that its semaphore cannot hold; Config does not look for that.
Panic ==
  /\ Exit("opening", 101)
  /\ config.log_channel_capacity > MaxPermits
  /\ UNCHANGED log

\* Variant: a log that is there is truncated.
OpenTruncating == log' = "empty"

\* open_log_file: created if absent, else left as it is.
OpenAppending == log' = IF log = "absent" THEN "empty" ELSE log

OpenLog ==
  /\ Reach("opening", "building")
  /\ config.log_channel_capacity <= MaxPermits
  /\ OpenAppending
  /\ UNCHANGED warned

OpenFails ==
  /\ Exit("opening", 3)
  /\ config.log_channel_capacity <= MaxPermits
  /\ UNCHANGED log

BuildClient == Reach("building", "binding") /\ UNCHANGED <<warned, log>>

BuildFails == Exit("building", 4) /\ UNCHANGED log

Bind == Reach("binding", "serving") /\ UNCHANGED <<warned, log>>

BindFails == Exit("binding", 5) /\ UNCHANGED log

\* The writer task puts records into the log.
Record ==
  /\ step = "serving"
  /\ log' = "records"
  /\ UNCHANGED <<env, step, exit, warned, found, told>>

\* server.await returns, with an error or after a shutdown.
ServerEnds == (Exit("serving", 6) \/ Exit("serving", 0)) /\ UNCHANGED log

\* What the operator sets a variable to: the upstream to a good one, the others to
\* their defaults.
Repair(name) == IF name = "upstream_url" THEN Url("https", "api", 0) ELSE Unset

\* The operator starts the proxy again, after putting right what he was told; a panic
\* tells him about the capacity.
StartAgain ==
  /\ step = "ended"
  /\ LET named == CASE exit = 2 -> {Complaint(env)}
                    [] exit = 101 -> {"log_channel_capacity"}
                    [] OTHER -> {}
     IN  /\ env' = [name \in DOMAIN env |->
                      IF name \in named THEN Repair(name) ELSE env[name]]
         /\ told' = told \union named
  /\ step' = "loading"
  /\ exit' = 0
  /\ warned' = FALSE
  /\ found' = log
  /\ UNCHANGED log

MainNext ==
  \/ RejectConfig \/ LoadConfig
  \/ Panic \/ OpenLog \/ OpenFails
  \/ BuildClient \/ BuildFails
  \/ Bind \/ BindFails
  \/ ServerEnds
  \/ StartAgain

----------------------------------------------------------------------------
\* Properties.

\* Every variable of this module holds what its declaration says.
StartTypeOK ==
  /\ step \in Steps
  /\ exit \in {0, 2, 3, 4, 5, 6, 101}
  /\ warned \in BOOLEAN
  /\ {log, found} \subseteq {"absent", "empty", "records"}
  /\ IsEnvironment(env)
  /\ told \subseteq Names

\* An operator who puts right the variable an error names is never told of it again,
\* so he is done after as many starts as there are variables.
ToldOnce == step = "ended" /\ exit = 2 => Complaint(env) \notin told

\* A start that fails never costs a record: a configuration error, a panic and a log
\* that cannot be opened leave no trace on the disk, later failures at most an empty
\* log.
FailedStartHarmless ==
  step = "ended" =>
    CASE exit \in {2, 3, 101} -> log = found
      [] exit \in {4, 5} -> log = IF found = "absent" THEN "empty" ELSE found
      [] OTHER -> found = "records" => log = "records"

\* A process that serves has settings the other parts can work with, an upstream that
\* is neither a metadata service nor plaintext beyond this host unless the operator
\* said so, and has warned if it captures content.
ServesSafely ==
  step = "serving" =>
    /\ config.log_channel_capacity \in 1 .. MaxPermits
    /\ config.max_request_bytes \in 1 .. WordMax
    /\ config.upstream_url.host \notin BannedHosts
    /\ \/ config.upstream_url.scheme = "https"
       \/ config.upstream_url.host \in LoopbackHosts
       \/ env.allow_plaintext \in {Text(t) : t \in TrueTexts}
    /\ warned <=> config.capture_content
================================================================================
