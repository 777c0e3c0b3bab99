--------------------------------- MODULE Proxy ---------------------------------
(****************************************************************************)
(* The proxy process: main.rs (serve, shut down, drain), the router and the *)
(* request handlers of proxy.rs, composed with the trace pipeline.  Every   *)
(* step of a handler that clones, uses or gives up the TraceWriter is the   *)
(* step of TracePipeline it performs.                                       *)
(*                                                                          *)
(* A request is one exchange: its handler reads the body, dials the         *)
(* upstream, and buffers the answer or hands it to a detached relay task.   *)
(* The relay is StreamRelay seen from outside: it relays, then closes the   *)
(* response, submits the trace and ends.  A request owns a writer from its  *)
(* arrival until its handler, or the relay in its place, is done with the   *)
(* shared AppState.                                                         *)
(*                                                                          *)
(* A "Variant" is a faulty form of the definition that follows it; no       *)
(* specification uses it.                                                   *)
(****************************************************************************)
EXTENDS Naturals, FiniteSets, Sequences, Functions

CONSTANTS
  Requests,         \* the requests clients may send
  Trickling,        \* those whose upstream keeps sending as long as it is read
  Main,             \* main()'s own writer
  Server,           \* the writer in the AppState the router holds
  Capacity, FlushBatchSize, MaxSubmits, Faults      \* as in TracePipeline

ASSUME ProxyAssumption ==
  /\ Trickling \subseteq Requests
  /\ Main # Server
  /\ {Main, Server} \cap Requests = {}
  /\ Capacity \in Nat \ {0}
  /\ FlushBatchSize \in Nat \ {0}
  /\ MaxSubmits \in Nat
  /\ Faults \subseteq {"disk", "crash", "deadline"}

Handles == Requests \union {Main, Server}

VARIABLES
  handles, queue, accepted, dropped, refused, pc, hand, sinceFlush, due, buf, file,
  incidents,        \* the state of the trace pipeline
  main,             \* where main() is
  phase,            \* where the exchange of each request is
  upstream,         \* what its upstream has answered so far
  reply,            \* what its handler answers
  relay,            \* its relay task
  beat,             \* flips with every chunk relayed
  emits,            \* how often emit_trace ran for it
  status,           \* the status field of its trace
  record            \* the number of its accepted trace, else 0

Pipeline == INSTANCE TracePipeline

pipelineVars == <<handles, queue, accepted, dropped, refused, pc, hand, sinceFlush,
                  due, buf, file, incidents>>
traceVars == <<emits, status, record>>
requestVars == <<phase, upstream, reply, relay, beat>>
proxyVars == <<main, requestVars, traceVars>>
vars == <<pipelineVars, proxyVars>>

MainPlaces == {"starting", "serving", "closing", "stopped", "waiting", "exited"}
Phases == {"idle", "reading", "dialing", "buffering", "returning", "answered",
           "streaming", "closed"}
Relays == {"none", "relaying", "emitting", "returning", "done", "cut"}

Init ==
  /\ Pipeline!Init
  /\ main = "starting"
  /\ phase = [r \in Requests |-> "idle"]
  /\ upstream = [r \in Requests |-> "none"]
  /\ reply = [r \in Requests |-> "none"]
  /\ relay = [r \in Requests |-> "none"]
  /\ beat = [r \in Requests |-> FALSE]
  /\ emits = [r \in Requests |-> 0]
  /\ status = [r \in Requests |-> "none"]
  /\ record = [r \in Requests |-> 0]

\* r goes from one phase to another.
Move(r, from, to) == phase[r] = from /\ phase' = [phase EXCEPT ![r] = to]

\* Variant: the client is answered with the status of the trace.
AnswerTraceStatus(r, kind) == reply' = [reply EXCEPT ![r] = status'[r]]

Answer(r, kind) == reply' = [reply EXCEPT ![r] = kind]

Advance(r, from, to) == relay[r] = from /\ relay' = [relay EXCEPT ![r] = to]

\* emit_trace: the record is built and submitted.
Emit(r, s) ==
  /\ Pipeline!Submit(r)
  /\ emits' = [emits EXCEPT ![r] = @ + 1]
  /\ status' = [status EXCEPT ![r] = s]
  /\ record' = [record EXCEPT ![r] = IF accepted' > accepted THEN accepted' ELSE 0]

NoEmit == UNCHANGED traceVars

KeepWriter == UNCHANGED pipelineVars

----------------------------------------------------------------------------
\* The request handler, `forward`.

\* While the server accepts, a request arrives and its handler gets the AppState.
Arrive(r) ==
  /\ main = "serving"
  /\ Move(r, "idle", "reading")
  /\ Pipeline!Clone(r)
  /\ NoEmit
  /\ UNCHANGED <<main, upstream, reply, relay, beat>>

\* Variant: a refused request is recorded too.
RejectTrace(r) == Emit(r, "zero")

RejectQuietly(r) == KeepWriter /\ NoEmit

\* The method is not POST (405, which the router normally gives by itself), or the
\* body is too long (413) or broken (400).
Reject(r) ==
  /\ Move(r, "reading", "returning")
  /\ RejectQuietly(r)
  /\ Answer(r, "rejected")
  /\ UNCHANGED <<main, upstream, relay, beat>>

\* The body is complete: send() starts.
Dial(r) ==
  /\ Move(r, "reading", "dialing")
  /\ KeepWriter
  /\ NoEmit
  /\ UNCHANGED <<main, upstream, reply, relay, beat>>

\* send() fails: a failure trace, then a 502.
DialFails(r) ==
  /\ Move(r, "dialing", "returning")
  /\ Emit(r, "zero")
  /\ Answer(r, "bad_gateway")
  /\ UNCHANGED <<main, upstream, relay, beat>>

\* The upstream answers, and not with an event stream: its body is collected.
AnswerArrives(r) ==
  /\ Move(r, "dialing", "buffering")
  /\ upstream' = [upstream EXCEPT ![r] = "body"]
  /\ KeepWriter
  /\ NoEmit
  /\ UNCHANGED <<main, reply, relay, beat>>

\* The body of the answer breaks off: a failure trace, then a 502.
BodyFails(r) ==
  /\ Move(r, "buffering", "returning")
  /\ Emit(r, "zero")
  /\ Answer(r, "bad_gateway")
  /\ UNCHANGED <<main, upstream, relay, beat>>

\* The answer is complete: its trace is submitted before the client gets it.
BodyRead(r) ==
  /\ Move(r, "buffering", "returning")
  /\ Emit(r, "upstream")
  /\ Answer(r, "upstream")
  /\ UNCHANGED <<main, upstream, relay, beat>>

\* The handler returns its response and lets go of the AppState.
HandlerReturns(r) ==
  /\ Move(r, "returning", "answered")
  /\ Pipeline!DropHandle(r)
  /\ NoEmit
  /\ UNCHANGED <<main, upstream, reply, relay, beat>>

\* Variant: the relay borrows the AppState, which goes when the handler returns.
RelayBorrows(r) == Pipeline!DropHandle(r)

RelayOwnsState(r) == KeepWriter

\* The upstream answers with an event stream: a relay task is spawned with a clone of
\* the state, and the handler returns at once.
StreamArrives(r) ==
  /\ Move(r, "dialing", "streaming")
  /\ upstream' = [upstream EXCEPT ![r] = "stream"]
  /\ RelayOwnsState(r)
  /\ NoEmit
  /\ Answer(r, "upstream")
  /\ Advance(r, "none", "relaying")
  /\ UNCHANGED <<main, beat>>

----------------------------------------------------------------------------
\* The connection.

\* The client has taken the whole response.
ResponseSent(r) ==
  /\ Move(r, "answered", "closed")
  /\ KeepWriter
  /\ NoEmit
  /\ UNCHANGED <<main, upstream, reply, relay, beat>>

\* The response ends with the channel of its relay.
StreamSent(r) ==
  /\ Move(r, "streaming", "closed")
  /\ relay[r] \notin {"relaying", "none"}
  /\ KeepWriter
  /\ NoEmit
  /\ UNCHANGED <<main, upstream, reply, relay, beat>>

\* Variant: the cancelled handler stays behind.
LeakHandler(r) == KeepWriter

CancelHandler(r) == Pipeline!DropHandle(r)

\* The server finds the client gone while the handler waits: the handler's future is
\* dropped where it stands, without a trace.
ConnectionLost(r) ==
  /\ \E p \in {"reading", "dialing", "buffering"} : Move(r, p, "closed")
  /\ CancelHandler(r)
  /\ NoEmit
  /\ UNCHANGED <<main, upstream, reply, relay, beat>>

\* The response, buffered or streamed, is cut short; a relay goes on for now.
ResponseCut(r) ==
  /\ \E p \in {"answered", "streaming"} : Move(r, p, "closed")
  /\ KeepWriter
  /\ NoEmit
  /\ UNCHANGED <<main, upstream, reply, relay, beat>>

----------------------------------------------------------------------------
\* The relay task of forward_streaming.

RelayChunk(r) ==
  /\ relay[r] = "relaying"
  /\ phase[r] = "streaming"
  /\ beat' = [beat EXCEPT ![r] = ~@]
  /\ KeepWriter
  /\ NoEmit
  /\ UNCHANGED <<main, phase, upstream, reply, relay>>

\* Variant: the end of the body is taken for a pause; only a failed send ends the loop.
StopsOnLostClient(r) == phase[r] = "closed"

\* The upstream ends or fails, or a chunk finds the response gone.
Stops(r) == r \notin Trickling \/ phase[r] = "closed"

StreamEnds(r) ==
  /\ Stops(r)
  /\ Advance(r, "relaying", "emitting")
  /\ KeepWriter
  /\ NoEmit
  /\ UNCHANGED <<main, phase, upstream, reply, beat>>

\* Variant: a relay whose client is gone says nothing.
EmitIfConnected(r) ==
  IF phase[r] = "closed" THEN KeepWriter /\ NoEmit ELSE Emit(r, "upstream")

EmitAlways(r) == Emit(r, "upstream")

RelayEmits(r) ==
  /\ Advance(r, "emitting", "returning")
  /\ EmitAlways(r)
  /\ UNCHANGED <<main, phase, upstream, reply, beat>>

RelayReturns(r) ==
  /\ Advance(r, "returning", "done")
  /\ Pipeline!DropHandle(r)
  /\ NoEmit
  /\ UNCHANGED <<main, phase, upstream, reply, beat>>

\* main() has returned: the runtime drops the task where it awaits.  After the loop
\* there is no await left, a task that got there finishes.
RelayCut(r) ==
  /\ main = "exited"
  /\ Advance(r, "relaying", "cut")
  /\ Pipeline!DropHandle(r)
  /\ NoEmit
  /\ UNCHANGED <<main, phase, upstream, reply, beat>>

----------------------------------------------------------------------------
\* main().

MainStep(from, to) ==
  /\ main = from
  /\ main' = to
  /\ UNCHANGED <<requestVars, traceVars>>

\* AppState gets a clone of the writer, the listener is bound.
Serve == MainStep("starting", "serving") /\ Pipeline!Clone(Server)

\* SIGINT or SIGTERM: no new connection is accepted.
Signal == MainStep("serving", "closing") /\ KeepWriter

\* Variant: a connection on which no request has come is waited for as well.
DrainedOfIdle == \A r \in Requests : phase[r] = "closed"

\* No connection has a request or a response under way.
Drained == \A r \in Requests : phase[r] \in {"idle", "closed"}

\* server.await returns, the router is dropped.
ServerStops ==
  /\ Drained
  /\ MainStep("closing", "stopped")
  /\ Pipeline!DropHandle(Server)

DropWriter == MainStep("stopped", "waiting") /\ Pipeline!DropHandle(Main)

\* The writer task has ended in time.
WriterJoined ==
  /\ pc = "done"
  /\ MainStep("waiting", "exited")
  /\ KeepWriter

\* It has not, after SHUTDOWN_DEADLINE: main() warns and returns SUCCESS.
GiveUp == MainStep("waiting", "exited") /\ Pipeline!DrainTimesOut

----------------------------------------------------------------------------
\* The pipeline's own steps.

Writer == Pipeline!WriterStep /\ UNCHANGED proxyVars

Background ==
  /\ \/ Pipeline!WriteFails
     \/ Pipeline!Spill
     \/ Pipeline!FlushFails
     \/ Pipeline!FinalFlushFails
     \/ Pipeline!DeadlinePasses
  /\ UNCHANGED proxyVars

\* The process has ended.
Ended ==
  /\ main = "exited"
  /\ handles = {}
  /\ UNCHANGED vars

Handler(r) ==
  \/ Reject(r)
  \/ Dial(r)
  \/ DialFails(r)
  \/ AnswerArrives(r)
  \/ StreamArrives(r)
  \/ BodyFails(r)
  \/ BodyRead(r)
  \/ HandlerReturns(r)

Connection(r) == ResponseSent(r) \/ StreamSent(r)

RelayTask(r) == StreamEnds(r) \/ RelayEmits(r) \/ RelayReturns(r)

Shutdown == ServerStops \/ DropWriter \/ WriterJoined \/ GiveUp

Next ==
  \/ \E r \in Requests :
       \/ Arrive(r)
       \/ Handler(r)
       \/ Connection(r)
       \/ ConnectionLost(r)
       \/ ResponseCut(r)
       \/ RelayChunk(r)
       \/ RelayTask(r)
       \/ RelayCut(r)
  \/ Serve
  \/ Signal
  \/ Shutdown
  \/ Writer
  \/ Background
  \/ Ended

Spec == Init /\ [][Next]_vars

\* The runtime polls every task, the connect and read timeouts answer for a silent
\* upstream, and clients go on reading and writing unless they leave.
Fairness ==
  /\ \A r \in Requests :
       /\ WF_vars(Handler(r))
       /\ WF_vars(Connection(r))
       /\ WF_vars(RelayTask(r))
       /\ WF_vars(RelayChunk(r))
  /\ WF_vars(Shutdown)
  /\ WF_vars(Writer)

LiveSpec == Spec /\ Fairness

----------------------------------------------------------------------------
\* Properties.

\* Every variable of the proxy holds a value of its kind.
TypeOK ==
  /\ main \in MainPlaces
  /\ phase \in [Requests -> Phases]
  /\ upstream \in [Requests -> {"none", "body", "stream"}]
  /\ reply \in [Requests -> {"none", "rejected", "bad_gateway", "upstream"}]
  /\ relay \in [Requests -> Relays]
  /\ beat \in [Requests -> BOOLEAN]
  /\ emits \in [Requests -> Nat]
  /\ status \in [Requests -> {"none", "zero", "upstream"}]
  /\ record \in [Requests -> Nat]

\* Owners of a writer are exactly the parties that may still submit with it: main()
\* until it drops its own, the router until the server has stopped, a handler until it
\* returns or is cancelled, a relay until it ends.
WritersAccounted ==
  handles = { r \in Requests :
                \/ phase[r] \in {"reading", "dialing", "buffering", "returning"}
                \/ relay[r] \in {"relaying", "emitting", "returning"} }
            \union { h \in {Main} : main \notin {"waiting", "exited"} }
            \union { h \in {Server} : main \in {"serving", "closing"} }

\* The status of the trace that the answer to r calls for by now: that of the upstream
\* with a buffered answer and after the relay of a stream, zero with a 502.
TraceDue(r) ==
  CASE reply[r] = "bad_gateway" -> "zero"
    [] reply[r] = "upstream" /\ relay[r] \in {"none", "returning", "done"} -> "upstream"
    [] OTHER -> "none"

\* The trace of a request agrees with its answer: exactly one before a 502 or a buffered
\* answer can reach the client, for a stream one after the relay has ended, and none as
\* long as nobody answers, for a request turned away, a handler that was cancelled, and
\* a relay that is running or was cut off.
RecordMatchesReply ==
  \A r \in Requests :
    /\ status[r] = TraceDue(r)
    /\ emits[r] = IF TraceDue(r) = "none" THEN 0 ELSE 1

\* What the handler and the relay of a request can be doing at the same time: a handler
\* has not answered while it works, and a relay starts with a streamed answer, which
\* ends its handler.
ExchangeInv ==
  \A r \in Requests :
    /\ phase[r] \in {"idle", "reading", "dialing", "buffering"} =>
         reply[r] = "none" /\ relay[r] = "none"
    /\ relay[r] = "none" => phase[r] # "streaming"
    /\ relay[r] # "none" => reply[r] = "upstream" /\ phase[r] \in {"streaming", "closed"}

\* An exit after a complete drain accounts for every trace: no relay is left behind,
\* and while the disk works each trace is in the file or in the dropped count.
CleanExitAccounts ==
  main = "exited" /\ pc = "done" =>
    /\ \A r \in Requests : relay[r] \in {"none", "done"}
    /\ incidents = {} =>
         /\ \A r \in Requests : record[r] > 0 => record[r] \in Range(file)
         /\ dropped = Cardinality({r \in Requests : emits[r] > 0 /\ record[r] = 0})

\* Every request gives its writer back in the end, whether it is turned away, fails, is
\* answered, streamed, or given up by its client; otherwise no shutdown drains in time.
WritersReleased == \A r \in Requests : (r \in handles) ~> (r \notin handles)

\* A stream is traced, whether or not its client stays, unless main() gives up first.
StreamsTraced ==
  \A r \in Requests :
    (relay[r] = "relaying") ~> (emits[r] = 1 \/ "deadline" \in incidents)

\* README.md: on a signal the in-flight requests drain and the proxy exits.  That needs
\* upstream bodies that end.
ShutdownEnds == (main = "closing") ~> (main = "exited")

\* tests/graceful_shutdown.rs: no in-flight trace should be lost during normal shutdown.
InFlightTraced ==
  main = "exited" => \A r \in Requests : reply[r] = "upstream" => emits[r] = 1

\* tests/security.rs: status 0 in a trace signals that there was no upstream response.
StatusZeroMeansNoResponse ==
  \A r \in Requests : status[r] = "zero" => upstream[r] = "none"
================================================================================
