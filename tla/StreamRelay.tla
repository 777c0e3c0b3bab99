------------------------------- MODULE StreamRelay -------------------------------
(****************************************************************************)
(* One streamed (SSE) response: forward_streaming in proxy.rs.  A spawned   *)
(* task reads the upstream body chunk by chunk, keeps a copy of each chunk  *)
(* for the trace and sends it through a bounded channel; the HTTP server    *)
(* polls the receiving end (ReceiverStream) for the response body.  When    *)
(* the loop ends the task closes the channel and then submits the trace.    *)
(*                                                                          *)
(* Chunks are numbered in the order in which the upstream sends them.  The  *)
(* client may leave at any moment; the server notices later and only then   *)
(* drops the receiver.                                                      *)
(*                                                                          *)
(* A "Variant" is a faulty form of the definition that follows it; no       *)
(* specification uses it.                                                   *)
(****************************************************************************)
EXTENDS Naturals, Sequences, SequencesExt

CONSTANTS
  ChunkCapacity,    \* bound of the chunk channel (64)
  MaxChunks         \* bound on the chunks of the upstream body

ASSUME StreamAssumption ==
  /\ ChunkCapacity \in Nat \ {0}
  /\ MaxChunks \in Nat

\* The Err item that stands for a failed upstream read.
Failure == 0

VARIABLES
  upstream,         \* what the task has seen of the upstream: "open", "ended", "failed"
  task,             \* where the spawned task is
  item,             \* <<c>> while the task waits to send chunk c, else <<>>
  aggregated,       \* the chunks copied for the trace
  channel,          \* items sent and not yet polled
  receiver,         \* "live" until the response body is dropped
  response,         \* "streaming", "complete" or "aborted"
  client,           \* "reading" or "gone"
  polled,           \* chunks the server took for the response body
  received,         \* chunks that got to the client
  trace,            \* <<output>> once the trace is submitted, else <<>>
  overrun           \* chunks read from the upstream after the receiver was dropped

relayVars == <<upstream, task, item, aggregated, trace, overrun>>
serverVars == <<receiver, response, client, polled, received>>
vars == <<relayVars, channel, serverVars>>

Upstreams == {"open", "ended", "failed"}
Tasks == {"reading", "sending", "failing", "closing", "emitting", "done"}
Responses == {"streaming", "complete", "aborted"}

Chunks == 1 .. MaxChunks

\* The upstream answered with an event stream: the task is spawned and the response
\* head is on its way.
Init ==
  /\ upstream = "open"
  /\ task = "reading"
  /\ item = <<>>
  /\ aggregated = <<>>
  /\ channel = <<>>
  /\ receiver = "live"
  /\ response = "streaming"
  /\ client = "reading"
  /\ polled = <<>>
  /\ received = <<>>
  /\ trace = <<>>
  /\ overrun = 0

----------------------------------------------------------------------------
\* The spawned task.

\* Variant: the chunk is sent and not kept for the trace.
KeepNoCopy(c) == UNCHANGED aggregated

KeepCopy(c) == aggregated' = Append(aggregated, c)

\* stream.next() yields a chunk: it is copied before it is sent.
NextChunk ==
  LET c == Len(aggregated) + 1 IN
  /\ task = "reading"
  /\ c \in Chunks
  /\ KeepCopy(c)
  /\ item' = <<c>>
  /\ task' = "sending"
  /\ overrun' = IF receiver = "dropped" THEN overrun + 1 ELSE overrun
  /\ UNCHANGED <<upstream, channel, trace, serverVars>>

\* stream.next() yields None.
NextEnd ==
  /\ task = "reading"
  /\ upstream' = "ended"
  /\ task' = "closing"
  /\ UNCHANGED <<item, aggregated, channel, trace, overrun, serverVars>>

\* Variant: a failed read ends the loop like the end of the body.
AfterFailureClose == "closing"

AfterFailure == "failing"

\* stream.next() yields an error: the connection broke or stayed silent for the read
\* timeout.
NextError ==
  /\ task = "reading"
  /\ upstream' = "failed"
  /\ task' = AfterFailure
  /\ UNCHANGED <<item, aggregated, channel, trace, overrun, serverVars>>

\* Variant: the channel has no bound.
ChannelUnbounded == receiver = "live"

\* A send waits for room as long as the receiver lives.
CanSend == receiver = "live" /\ Len(channel) < ChunkCapacity

\* Variant: the latest chunk overtakes the others.
EnqueueFirst == channel' = item \o channel

Enqueue == channel' = channel \o item

SendChunk ==
  /\ task = "sending"
  /\ CanSend
  /\ Enqueue
  /\ item' = <<>>
  /\ task' = "reading"
  /\ UNCHANGED <<upstream, aggregated, trace, overrun, serverVars>>

\* Variant: a failed send does not end the loop.
AfterLostClientRead == "reading"

\* Variant: the send is tried again.
AfterLostClientRetry == "sending"

AfterLostClient == "closing"

\* The receiver is gone: stop reading.
SendChunkFails ==
  /\ task = "sending"
  /\ receiver = "dropped"
  /\ item' = <<>>
  /\ task' = AfterLostClient
  /\ UNCHANGED <<upstream, aggregated, channel, trace, overrun, serverVars>>

\* The error is passed on if the receiver lives, and the loop ends.
SendFailure ==
  /\ task = "failing"
  /\ \/ CanSend /\ channel' = Append(channel, Failure)
     \/ receiver = "dropped" /\ UNCHANGED channel
  /\ task' = "closing"
  /\ UNCHANGED <<upstream, item, aggregated, trace, overrun, serverVars>>

\* drop(chunk_tx)
CloseChannel ==
  /\ task = "closing"
  /\ task' = "emitting"
  /\ UNCHANGED <<upstream, item, aggregated, channel, trace, overrun, serverVars>>

\* emit_trace
EmitTrace ==
  /\ task = "emitting"
  /\ trace' = <<aggregated>>
  /\ task' = "done"
  /\ UNCHANGED <<upstream, item, aggregated, channel, overrun, serverVars>>

SenderDropped == task \in {"emitting", "done"}

----------------------------------------------------------------------------
\* The response body, polled by the server, and the client.

\* The body is dropped, and with it everything still in the channel.
DropBody ==
  /\ receiver' = "dropped"
  /\ channel' = <<>>

\* Variant: the body takes an error item for data.
AnyIsChunk(x) == TRUE

\* The channel carries results: Ok is data, Err breaks the response off.
IsChunk(x) == x # Failure

\* poll_recv yields a chunk; a client that has left does not get it any more.
PollChunk ==
  /\ receiver = "live"
  /\ channel # <<>>
  /\ IsChunk(Head(channel))
  /\ channel' = Tail(channel)
  /\ polled' = Append(polled, Head(channel))
  /\ received' = IF client = "reading" THEN Append(received, Head(channel)) ELSE received
  /\ UNCHANGED <<relayVars, receiver, response, client>>

\* poll_recv yields the error: the server cuts the connection.
PollFailure ==
  /\ receiver = "live"
  /\ channel # <<>>
  /\ ~IsChunk(Head(channel))
  /\ response' = "aborted"
  /\ DropBody
  /\ UNCHANGED <<relayVars, client, polled, received>>

\* poll_recv yields None: the server ends the response properly.
PollEnd ==
  /\ receiver = "live"
  /\ channel = <<>>
  /\ SenderDropped
  /\ response' = "complete"
  /\ DropBody
  /\ UNCHANGED <<relayVars, client, polled, received>>

ClientLeaves ==
  /\ client = "reading"
  /\ response = "streaming"
  /\ client' = "gone"
  /\ UNCHANGED <<relayVars, channel, receiver, response, polled, received>>

\* The server finds the connection closed.
NoticeClientGone ==
  /\ client = "gone"
  /\ receiver = "live"
  /\ response' = "aborted"
  /\ DropBody
  /\ UNCHANGED <<relayVars, client, polled, received>>

\* The task has ended and so has the response.
Ended ==
  /\ task = "done"
  /\ receiver = "dropped"
  /\ UNCHANGED vars

----------------------------------------------------------------------------
Read == NextChunk \/ NextEnd \/ NextError

Send == SendChunk \/ SendChunkFails \/ SendFailure \/ CloseChannel \/ EmitTrace

Poll == PollChunk \/ PollFailure \/ PollEnd \/ NoticeClientGone

Next == Read \/ Send \/ Poll \/ ClientLeaves \/ Ended

Spec == Init /\ [][Next]_vars

\* The read timeout answers every read, the runtime polls the task, and the client
\* takes the response or is found gone.
Fairness == WF_vars(Read) /\ WF_vars(Send) /\ WF_vars(Poll)

LiveSpec == Spec /\ Fairness

----------------------------------------------------------------------------
\* Properties.

\* Every variable holds a value of its kind.
TypeOK ==
  /\ upstream \in Upstreams
  /\ task \in Tasks
  /\ item \in Seq(Chunks)
  /\ aggregated \in Seq(Chunks)
  /\ channel \in Seq(Chunks \union {Failure})
  /\ receiver \in {"live", "dropped"}
  /\ response \in Responses
  /\ client \in {"reading", "gone"}
  /\ polled \in Seq(Chunks)
  /\ received \in Seq(Chunks)
  /\ trace \in Seq(Seq(Chunks))
  /\ overrun \in Nat

\* The error is in the channel.
Marked == channel # <<>> /\ Last(channel) = Failure

\* The chunks in the channel; nothing is sent after the error.
InChannel == IF Marked THEN Front(channel) ELSE channel

\* While the response is being streamed no chunk is lost, repeated or overtaken: the
\* copy for the trace is what the server took, what is in the channel and what the
\* task is about to send.
NothingInBetween ==
  receiver = "live" => aggregated = polled \o InChannel \o item

\* A client gets a gapless prefix of the upstream body, whatever happens.
ClientSeesPrefix == received = [i \in 1 .. Len(received) |-> i]

\* A client that sees its response end properly has the whole upstream body, and the
\* upstream ended it properly: a broken upstream never looks like a complete answer.
CompleteMeansWhole ==
  response = "complete" /\ client = "reading" =>
    upstream = "ended" /\ received = aggregated

\* A slow client holds the upstream back: the task is never more than a full channel
\* and one chunk ahead of the server.
ReadAheadBounded ==
  receiver = "live" => Len(aggregated) <= Len(polled) + ChunkCapacity + 1

\* Once the response is gone, the task reads at most one more chunk.
StopsAfterDisconnect == overrun <= 1

\* The trace has every chunk the client ever sees, also those it sees only after the
\* trace was submitted.
TraceCoversClient == trace # <<>> => IsPrefix(received, trace[1])

\* How the response ends for its client.
Ending ==
  IF client = "gone" \/ response = "aborted" THEN "cut"
  ELSE IF response = "complete" THEN "complete" ELSE "open"

\* The relay behaves as StreamedBody: its client gets what was read, in turn, its
\* response ends once, and one trace holds all that was read.
Body == INSTANCE StreamedBody WITH
          read <- aggregated, source <- upstream, ending <- Ending

ImplementsStreamedBody == Body!Spec

\* Every stream is traced in the end, whether its upstream ends or breaks off and
\* whether its client stays, leaves early or leaves unnoticed.
EveryStreamTraced == <>(trace # <<>>)

\* tests/client_disconnect.rs: "partial trace must not contain chunks the client never
\* received".  A trace is partial when the task stopped on a failed send, with the
\* upstream still open.
PartialTraceWasReceived ==
  trace # <<>> /\ client = "gone" /\ upstream = "open" => IsPrefix(trace[1], received)
==================================================================================
