----------------------------- MODULE StreamedBody -----------------------------
(****************************************************************************)
(* What forward_streaming promises of one streamed response, without its    *)
(* task, channel and server: the chunks read from the upstream reach the    *)
(* client in their order and without a gap; the response ends properly only *)
(* when the upstream's body has and all of it has arrived, and is cut short *)
(* otherwise; one trace is submitted, when nothing more will be read, with  *)
(* all that was read.  The client may receive the rest of that afterwards.  *)
(****************************************************************************)
EXTENDS Naturals, Sequences

VARIABLES
  read,             \* the chunks read from the upstream
  source,           \* the upstream's body: "open", "ended" or "failed"
  received,         \* the chunks the client has
  ending,           \* of the response: "open", "complete" or "cut"
  trace             \* <<output>> once the trace is submitted, else <<>>

bodyVars == <<read, source, received, ending, trace>>

Init ==
  /\ read = <<>>
  /\ source = "open"
  /\ received = <<>>
  /\ ending = "open"
  /\ trace = <<>>

\* The next chunk is read, also for a client that is gone or will not get it.
ReadChunk ==
  /\ source = "open"
  /\ trace = <<>>
  /\ read' = Append(read, Len(read) + 1)
  /\ UNCHANGED <<source, received, ending, trace>>

\* The upstream's body ends or breaks off.
SourceEnds ==
  /\ source = "open"
  /\ trace = <<>>
  /\ source' \in {"ended", "failed"}
  /\ UNCHANGED <<read, received, ending, trace>>

\* The client gets the chunk that follows those it has.
Deliver ==
  /\ ending = "open"
  /\ Len(received) < Len(read)
  /\ received' = Append(received, read[Len(received) + 1])
  /\ UNCHANGED <<read, source, ending, trace>>

Finish ==
  /\ ending = "open"
  /\ source = "ended"
  /\ received = read
  /\ ending' = "complete"
  /\ UNCHANGED <<read, source, received, trace>>

\* The client leaves, or the connection is cut because the upstream failed.
CutShort ==
  /\ ending = "open"
  /\ ending' = "cut"
  /\ UNCHANGED <<read, source, received, trace>>

\* The upstream has no more to give, or nobody is there to take it.
SubmitTrace ==
  /\ trace = <<>>
  /\ source # "open" \/ ending = "cut"
  /\ trace' = <<read>>
  /\ UNCHANGED <<read, source, received, ending>>

Next == ReadChunk \/ SourceEnds \/ Deliver \/ Finish \/ CutShort \/ SubmitTrace

Spec == Init /\ [][Next]_bodyVars
===============================================================================
