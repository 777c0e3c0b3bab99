---------------------------- MODULE StreamRelayProofs ----------------------------
(****************************************************************************)
(* Theorems about StreamRelay, for every capacity of the chunk channel and  *)
(* every number of chunks.                                                  *)
(****************************************************************************)
EXTENDS StreamRelay, SequenceTheorems, TLAPS

----------------------------------------------------------------------------
\* The inductive invariant.

\* The chunks 1, 2, ... in their order.
Numbered(s) == \A i \in 1 .. Len(s) : s[i] = i

\* The task has passed the error of the upstream on.
Told == upstream = "failed" /\ task # "failing"

\* How many chunks are in the channel.
Queued == IF Told THEN Len(channel) - 1 ELSE Len(channel)

\* Where the task is tells how the upstream ended and what it holds.
TaskInv ==
  /\ task \in {"reading", "sending"} => upstream = "open"
  /\ task = "failing" => upstream = "failed"
  /\ item = IF task = "sending" THEN <<Len(aggregated)>> ELSE <<>>
  /\ task = "sending" => Len(aggregated) > 0
  /\ trace # <<>> => task = "done" /\ trace = <<aggregated>>
  /\ overrun <= 1
  /\ receiver = "live" \/ task = "reading" => overrun = 0

\* What is where while the body is read: the server has taken the first chunks, the
\* channel holds the next ones, in the end the error, and the task the last.
BodyInv ==
  receiver = "live" =>
    /\ task \in {"closing", "emitting", "done"} => upstream # "open"
    /\ Told => channel # <<>>
    /\ Len(channel) <= ChunkCapacity
    /\ Len(aggregated) = Len(polled) + Queued + Len(item)
    /\ \A i \in 1 .. Queued : channel[i] = Len(polled) + i
    /\ Told => channel[Len(channel)] = Failure

\* What the client has, and what the end of its response says.
ClientInv ==
  /\ Len(received) <= Len(polled)
  /\ Len(polled) <= Len(aggregated)
  /\ client = "reading" => Len(received) = Len(polled)
  /\ response = "complete" =>
       /\ receiver = "dropped"
       /\ task \in {"emitting", "done"}
       /\ upstream = "ended"
       /\ Len(polled) = Len(aggregated)

RelayInv ==
  /\ TypeOK
  /\ Numbered(aggregated) /\ Numbered(polled) /\ Numbered(received)
  /\ TaskInv
  /\ BodyInv
  /\ ClientInv

----------------------------------------------------------------------------
\* A chunk more, and the sequence is still numbered.
LEMMA NumberedAppend ==
  ASSUME NEW S, NEW s \in Seq(S), NEW c \in S, Numbered(s), c = Len(s) + 1
  PROVE  /\ Append(s, c) \in Seq(S)
         /\ Len(Append(s, c)) = Len(s) + 1
         /\ Numbered(Append(s, c))
BY AppendProperties, LenProperties DEF Numbered

\* Sequences that are numbered differ only in how long they are.
LEMMA NumberedEqual ==
  ASSUME NEW S, NEW s \in Seq(S), NEW t \in Seq(S),
         Numbered(s), Numbered(t), Len(s) = Len(t)
  PROVE  s = t
BY SeqEqual, LenProperties DEF Numbered

\* A numbered sequence goes on with one that counts on.
LEMMA NumberedConcat ==
  ASSUME NEW s \in Seq(Nat), NEW t \in Seq(Nat),
         Numbered(s), \A i \in 1 .. Len(t) : t[i] = Len(s) + i
  PROVE  /\ s \o t \in Seq(Nat)
         /\ Len(s \o t) = Len(s) + Len(t)
         /\ Numbered(s \o t)
<1>1. /\ Len(s) \in Nat /\ Len(t) \in Nat
      /\ s \o t \in Seq(Nat)
      /\ Len(s \o t) = Len(s) + Len(t)
  BY ConcatProperties, LenProperties
<1>2. ASSUME NEW i \in 1 .. Len(s) + Len(t) PROVE (s \o t)[i] = i
  <2>1. (s \o t)[i] = IF i <= Len(s) THEN s[i] ELSE t[i - Len(s)]
    BY ConcatProperties
  <2>2. CASE i <= Len(s)
    BY <1>1, <2>1, <2>2 DEF Numbered
  <2>3. CASE ~(i <= Len(s))
    <3>1. i - Len(s) \in 1 .. Len(t) /\ Len(s) + (i - Len(s)) = i
      BY <1>1, <2>3
    <3>. QED
      BY <2>1, <2>3, <3>1
  <2>. QED
    BY <2>2, <2>3
<1>. QED
  BY <1>1, <1>2 DEF Numbered

\* All but the last of a sequence.
LEMMA FrontProperties ==
  ASSUME NEW s \in Seq(Nat), s # <<>>
  PROVE  /\ Len(s) - 1 \in Nat
         /\ Front(s) \in Seq(Nat)
         /\ Len(Front(s)) = Len(s) - 1
         /\ \A i \in 1 .. Len(s) - 1 : Front(s)[i] = s[i]
<1>1. Len(s) - 1 \in Nat
  BY LenProperties, EmptySeq
<1>2. \A i \in 1 .. Len(s) - 1 : s[i] \in Nat
  BY <1>1, ElementOfSeq
<1>3. /\ SubSeq(s, 1, Len(s) - 1) \in Seq(Nat)
      /\ Len(SubSeq(s, 1, Len(s) - 1)) =
           IF 1 <= Len(s) - 1 THEN Len(s) - 1 - 1 + 1 ELSE 0
      /\ \A i \in 1 .. Len(s) - 1 - 1 + 1 : SubSeq(s, 1, Len(s) - 1)[i] = s[1 + i - 1]
  BY <1>1, <1>2, SubSeqProperties
<1> DEFINE n == Len(s) - 1
<1>4. n - 1 + 1 = n /\ (~(1 <= n) => n = 0) /\ \A i \in 1 .. n : 1 + i - 1 = i
  <2>1. n \in Nat
    BY <1>1
  <2> HIDE DEF n
  <2>. QED
    BY <2>1
<1>5. Len(SubSeq(s, 1, Len(s) - 1)) = Len(s) - 1
  BY <1>3, <1>4
<1>6. \A i \in 1 .. Len(s) - 1 : SubSeq(s, 1, Len(s) - 1)[i] = s[i]
  BY <1>3, <1>4
<1>. QED
  BY <1>1, <1>3, <1>5, <1>6 DEF Front

\* How far ahead the task can be, as a sum.
LEMMA AheadSum ==
  ASSUME NEW a, NEW p \in Nat, NEW q \in Int, NEW i \in {0, 1}, NEW c \in Nat,
         a = p + q + i, q <= c
  PROVE  a <= p + c + 1
OBVIOUS

LEMMA RelayInit == Init => RelayInv
BY StreamAssumption
   DEF Init, RelayInv, TypeOK, TaskInv, BodyInv, ClientInv, Numbered, Told, Queued,
       Upstreams, Tasks, Responses, StreamAssumption

\* The steps of the task.
LEMMA ReadKeeps ==
  ASSUME RelayInv, Read
  PROVE  RelayInv'
<1> USE StreamAssumption DEF StreamAssumption
<1>1. CASE NextChunk
  <2> DEFINE c == Len(aggregated) + 1
  <2>1. /\ aggregated' = Append(aggregated, c) /\ c \in Chunks
        /\ item' = <<c>>
    BY <1>1 DEF NextChunk, KeepCopy
  <2>2. /\ aggregated' \in Seq(Chunks)
        /\ Len(aggregated') = c
        /\ Numbered(aggregated')
    BY <2>1, NumberedAppend DEF RelayInv, TypeOK
  <2>3. item' \in Seq(Chunks) /\ Len(item') = 1
    BY <2>1
  <2>4. TypeOK' /\ Numbered(polled)' /\ Numbered(received)'
    BY <1>1, <2>2, <2>3
       DEF NextChunk, RelayInv, TypeOK, serverVars, Numbered, Upstreams, Tasks
  <2>5. Len(aggregated) \in Nat /\ item = <<>>
    BY <1>1, LenProperties DEF NextChunk, RelayInv, TypeOK, TaskInv
  <2>6. TaskInv'
    BY <1>1, <2>1, <2>2, <2>5 DEF NextChunk, RelayInv, TypeOK, TaskInv, serverVars
  <2>7. BodyInv'
    BY <1>1, <2>1, <2>2, <2>3, <2>5
       DEF NextChunk, RelayInv, TypeOK, TaskInv, BodyInv, Told, Queued, serverVars
  <2>8. ClientInv'
    BY <1>1, <2>2, <2>5 DEF NextChunk, RelayInv, TypeOK, TaskInv, ClientInv, serverVars
  <2>. QED
    BY <2>2, <2>4, <2>6, <2>7, <2>8 DEF RelayInv
<1>2. CASE NextEnd
  BY <1>2
     DEF NextEnd, RelayInv, TypeOK, TaskInv, BodyInv, ClientInv, Told, Queued, Numbered,
         serverVars, Upstreams, Tasks
<1>3. CASE NextError
  BY <1>3
     DEF NextError, AfterFailure, RelayInv, TypeOK, TaskInv, BodyInv, ClientInv, Told,
         Queued, Numbered, serverVars, Upstreams, Tasks
<1>. QED
  BY <1>1, <1>2, <1>3 DEF Read

LEMMA SendKeeps ==
  ASSUME RelayInv, Send
  PROVE  RelayInv'
<1> USE StreamAssumption DEF StreamAssumption
<1>1. CASE SendChunk
  <2>1. item = <<Len(aggregated)>> /\ channel' = Append(channel, Len(aggregated))
    <3>1. item = <<Len(aggregated)>> /\ channel' = channel \o item
      BY <1>1 DEF SendChunk, Enqueue, RelayInv, TaskInv
    <3>. QED
      BY <3>1, AppendIsConcat, LenProperties DEF RelayInv, TypeOK
  <2>2. Len(aggregated) \in Chunks
    BY <1>1, LenProperties, ElementOfSeq
       DEF SendChunk, RelayInv, TypeOK, TaskInv, Numbered
  <2>3. /\ channel' \in Seq(Chunks \union {Failure})
        /\ Len(channel') = Len(channel) + 1
        /\ \A i \in 1 .. Len(channel) : channel'[i] = channel[i]
        /\ channel'[Len(channel) + 1] = Len(aggregated)
    BY <2>1, <2>2, AppendProperties DEF RelayInv, TypeOK
  <2>4. TypeOK' /\ Numbered(aggregated)' /\ Numbered(polled)' /\ Numbered(received)'
    BY <1>1, <2>3 DEF SendChunk, RelayInv, TypeOK, serverVars, Numbered, Tasks
  <2>5. TaskInv'
    BY <1>1, <2>1 DEF SendChunk, CanSend, RelayInv, TypeOK, TaskInv, serverVars
  <2>6. BodyInv'
    <3>1. /\ ~Told /\ ~Told'
          /\ Len(item) = 1 /\ Len(item') = 0
      BY <1>1, <2>1 DEF SendChunk, RelayInv, TaskInv, Told
    <3>2. /\ Len(channel) \in Nat /\ Len(polled) \in Nat /\ Len(aggregated) \in Nat
          /\ Len(channel) < ChunkCapacity
          /\ Len(aggregated) = Len(polled) + Len(channel) + 1
          /\ \A i \in 1 .. Len(channel) : channel[i] = Len(polled) + i
      BY <1>1, <3>1, LenProperties
         DEF SendChunk, CanSend, RelayInv, TypeOK, BodyInv, Queued
    <3>. QED
      BY SMTT(30), <1>1, <2>3, <3>1, <3>2
         DEF SendChunk, RelayInv, BodyInv, Queued, serverVars
  <2>7. ClientInv'
    BY <1>1 DEF SendChunk, RelayInv, ClientInv, serverVars
  <2>. QED
    BY <2>4, <2>5, <2>6, <2>7 DEF RelayInv
<1>2. CASE SendChunkFails
  BY <1>2
     DEF SendChunkFails, AfterLostClient, RelayInv, TypeOK, TaskInv, BodyInv, ClientInv,
         Told, Queued, Numbered, serverVars, Tasks
<1>3. CASE SendFailure
  <2>1. /\ task = "failing" /\ upstream = "failed" /\ task' = "closing"
        /\ ~Told /\ Told'
    BY <1>3 DEF SendFailure, RelayInv, TaskInv, Told
  <2>2. CASE CanSend /\ channel' = Append(channel, Failure)
    <3>1. /\ channel' \in Seq(Chunks \union {Failure})
          /\ Len(channel') = Len(channel) + 1
          /\ \A i \in 1 .. Len(channel) : channel'[i] = channel[i]
          /\ channel'[Len(channel) + 1] = Failure
          /\ Len(channel) \in Nat
      BY <2>2, AppendProperties, LenProperties DEF RelayInv, TypeOK
    <3>2. TypeOK' /\ Numbered(aggregated)' /\ Numbered(polled)' /\ Numbered(received)'
      BY <1>3, <3>1 DEF SendFailure, RelayInv, TypeOK, serverVars, Numbered, Tasks
    <3>3. TaskInv' /\ ClientInv'
      BY <1>3, <2>1 DEF SendFailure, RelayInv, TypeOK, TaskInv, ClientInv, serverVars
    <3>4. BodyInv'
      <4>1. receiver = "live" /\ Len(channel) < ChunkCapacity
        BY <2>2 DEF CanSend
      <4>2. Queued = Len(channel) /\ Queued' = Len(channel)
        BY <2>1, <3>1 DEF Queued
      <4>3. channel' # <<>> /\ channel'[Len(channel')] = Failure
        BY <3>1
      <4>4. /\ polled' = polled /\ aggregated' = aggregated /\ item' = item
            /\ upstream' = upstream
        BY <1>3 DEF SendFailure, serverVars
      <4>. QED
        BY <2>1, <3>1, <4>1, <4>2, <4>3, <4>4 DEF RelayInv, BodyInv
    <3>. QED
      BY <3>2, <3>3, <3>4 DEF RelayInv
  <2>3. CASE receiver = "dropped" /\ UNCHANGED channel
    BY <1>3, <2>1, <2>3
       DEF SendFailure, RelayInv, TypeOK, TaskInv, BodyInv, ClientInv, Numbered,
           serverVars, Tasks
  <2>. QED
    BY <1>3, <2>2, <2>3 DEF SendFailure
<1>4. CASE CloseChannel
  BY <1>4
     DEF CloseChannel, RelayInv, TypeOK, TaskInv, BodyInv, ClientInv, Told, Queued,
         Numbered, serverVars, Tasks
<1>5. CASE EmitTrace
  <2>1. trace' \in Seq(Seq(Chunks))
    BY <1>5 DEF EmitTrace, RelayInv, TypeOK
  <2>. QED
    BY <1>5, <2>1
       DEF EmitTrace, RelayInv, TypeOK, TaskInv, BodyInv, ClientInv, Told, Queued,
           Numbered, serverVars, Tasks
<1>. QED
  BY <1>1, <1>2, <1>3, <1>4, <1>5 DEF Send

\* The first item in the channel, unless it is the error, is the chunk after those taken.
LEMMA HeadNext ==
  ASSUME RelayInv, receiver = "live", channel # <<>>, Head(channel) # Failure
  PROVE  /\ Head(channel) \in Chunks
         /\ Head(channel) = Len(polled) + 1
         /\ Queued \in Nat \ {0}
         /\ Told => Len(channel) > 1
<1>1. Len(channel) \in Nat \ {0} /\ Head(channel) = channel[1]
  BY HeadTailProperties, LenProperties, EmptySeq DEF RelayInv, TypeOK
<1>2. Told => Len(channel) # 1
  BY <1>1 DEF RelayInv, BodyInv
<1>3. Queued \in Nat \ {0}
  BY <1>1, <1>2 DEF Queued
<1>4. Head(channel) = Len(polled) + 1
  BY <1>1, <1>3 DEF RelayInv, BodyInv
<1>5. Head(channel) \in Chunks
  BY <1>1, ElementOfSeq DEF RelayInv, TypeOK
<1>6. Told => Len(channel) > 1
  BY <1>1, <1>2
<1>. QED
  BY <1>3, <1>4, <1>5, <1>6

\* The steps of the server.
LEMMA PollKeeps ==
  ASSUME RelayInv, Poll
  PROVE  RelayInv'
<1> USE StreamAssumption DEF StreamAssumption
<1>1. CASE PollChunk
  <2>1. /\ Len(channel) \in Nat \ {0}
        /\ Head(channel) = channel[1]
        /\ channel' \in Seq(Chunks \union {Failure})
        /\ Len(channel') = Len(channel) - 1
        /\ \A i \in 1 .. Len(channel) - 1 : channel'[i] = channel[i + 1]
    BY <1>1, HeadTailProperties, LenProperties, EmptySeq DEF PollChunk, RelayInv, TypeOK
  <2>2. /\ Head(channel) \in Chunks
        /\ Head(channel) = Len(polled) + 1
        /\ Told => Len(channel) > 1
    BY <1>1, <2>1, HeadNext DEF PollChunk, IsChunk
  <2>3. /\ polled' \in Seq(Chunks)
        /\ Len(polled') = Len(polled) + 1
        /\ Numbered(polled')
    BY <1>1, <2>2, NumberedAppend DEF PollChunk, RelayInv, TypeOK
  <2>4. /\ received' \in Seq(Chunks)
        /\ Numbered(received')
        /\ Len(received') =
             IF client = "reading" THEN Len(received) + 1 ELSE Len(received)
    <3>1. CASE client = "reading"
      <4>1. /\ Head(channel) = Len(received) + 1
            /\ received' = Append(received, Head(channel))
        BY <1>1, <2>2, <3>1 DEF PollChunk, RelayInv, ClientInv
      <4>. QED
        BY <2>2, <3>1, <4>1, NumberedAppend DEF RelayInv, TypeOK
    <3>2. CASE client # "reading"
      BY <1>1, <3>2 DEF PollChunk, RelayInv, TypeOK
    <3>. QED
      BY <3>1, <3>2
  <2>5. /\ Len(polled) \in Nat /\ Len(received) \in Nat /\ Len(aggregated) \in Nat
        /\ Len(item) \in Nat
    BY LenProperties DEF RelayInv, TypeOK
  <2>6. TypeOK' /\ Numbered(aggregated)'
    BY <1>1, <2>1, <2>3, <2>4 DEF PollChunk, RelayInv, TypeOK, relayVars, Numbered
  <2>7. TaskInv'
    BY <1>1 DEF PollChunk, RelayInv, TaskInv, relayVars
  <2>8. BodyInv' /\ ClientInv'
    <3>1. /\ Told' = Told
          /\ Queued' = Queued - 1
          /\ Queued \in Nat \ {0}
          /\ Queued <= Len(channel)
      BY <1>1, <2>1, <2>2 DEF PollChunk, Told, Queued, relayVars
    <3>2. \A i \in 1 .. Queued' : channel'[i] = Len(polled') + i
      BY <1>1, <2>1, <2>3, <2>5, <3>1 DEF PollChunk, RelayInv, BodyInv
    <3>3. Told' => channel' # <<>> /\ channel'[Len(channel')] = Failure
      <4>1. Told => channel'[Len(channel) - 1] = channel[Len(channel)]
        BY <2>1, <2>2
      <4>2. Told => Len(channel') # 0
        BY <2>1, <2>2
      <4>. QED
        BY <1>1, <2>1, <3>1, <4>1, <4>2 DEF PollChunk, RelayInv, BodyInv
    <3>4. BodyInv'
      <4>1. /\ receiver = "live" /\ task' = task /\ upstream' = upstream
            /\ aggregated' = aggregated /\ item' = item
        BY <1>1 DEF PollChunk, relayVars
      <4>2. Len(aggregated') = Len(polled') + Queued' + Len(item')
        BY SMTT(30), <2>3, <2>5, <3>1, <4>1 DEF RelayInv, BodyInv
      <4>3. Len(channel') <= ChunkCapacity
        BY <2>1, <4>1 DEF RelayInv, BodyInv
      <4>. QED
        BY <3>2, <3>3, <4>1, <4>2, <4>3 DEF RelayInv, BodyInv
    <3>5. ClientInv'
      BY <1>1, <2>3, <2>4, <2>5, <3>1
         DEF PollChunk, RelayInv, BodyInv, ClientInv, relayVars
    <3>. QED
      BY <3>4, <3>5
  <2>. QED
    BY <2>3, <2>4, <2>6, <2>7, <2>8 DEF RelayInv
<1>2. ASSUME NEW end \in Responses, DropBody, response' = end,
             end = "complete" => PollEnd,
             UNCHANGED <<relayVars, client, polled, received>>
      PROVE  RelayInv'
  <2>1. channel' \in Seq(Chunks \union {Failure})
    BY <1>2 DEF DropBody
  <2>2. TypeOK' /\ Numbered(aggregated)' /\ Numbered(polled)' /\ Numbered(received)'
    BY <1>2, <2>1 DEF DropBody, RelayInv, TypeOK, relayVars, Numbered
  <2>3. TaskInv' /\ BodyInv'
    BY <1>2 DEF DropBody, RelayInv, TaskInv, BodyInv, relayVars
  <2>4. ClientInv'
    <3>1. ASSUME end = "complete"
          PROVE  /\ task \in {"emitting", "done"} /\ upstream = "ended"
                 /\ Len(polled) = Len(aggregated)
      <4>1. /\ receiver = "live" /\ channel = <<>> /\ task \in {"emitting", "done"}
            /\ ~Told /\ Len(channel) = 0
        BY <1>2, <3>1 DEF PollEnd, SenderDropped, RelayInv, BodyInv
      <4>2. upstream = "ended"
        BY <4>1 DEF RelayInv, TypeOK, BodyInv, Told, Upstreams
      <4>3. Len(item) = 0 /\ Queued = 0 /\ Len(polled) \in Nat
        BY <4>1, LenProperties DEF RelayInv, TypeOK, TaskInv, Queued
      <4>. QED
        BY <4>1, <4>2, <4>3 DEF RelayInv, BodyInv
    <3>. QED
      BY <1>2, <3>1 DEF DropBody, RelayInv, ClientInv, relayVars
  <2>. QED
    BY <2>2, <2>3, <2>4 DEF RelayInv
<1>3. PollFailure \/ PollEnd \/ NoticeClientGone => RelayInv'
  BY <1>2 DEF PollFailure, PollEnd, NoticeClientGone, Responses
<1>. QED
  BY <1>1, <1>3 DEF Poll

\* The inductive invariant holds in every state: what the task, the channel, the server
\* and the client of forward_streaming hold between them.
THEOREM RelayInvariant == LiveSpec => []RelayInv
<1>1. RelayInv /\ [Next]_vars => RelayInv'
  <2> SUFFICES ASSUME RelayInv, [Next]_vars PROVE RelayInv'
    OBVIOUS
  <2>1. CASE ClientLeaves
    <3>1. response = "streaming" /\ client' = "gone"
      BY <2>1 DEF ClientLeaves
    <3>. QED
      BY <2>1, <3>1
         DEF ClientLeaves, RelayInv, TypeOK, TaskInv, BodyInv, ClientInv, Told, Queued,
             Numbered, relayVars
  <2>2. CASE UNCHANGED vars
    BY <2>2
       DEF vars, relayVars, serverVars, RelayInv, TypeOK, TaskInv, BodyInv, ClientInv,
           Told, Queued, Numbered
  <2>. QED
    BY <2>1, <2>2, ReadKeeps, SendKeeps, PollKeeps DEF Next, Ended
<1>. QED
  BY <1>1, RelayInit, PTL DEF LiveSpec, Spec

----------------------------------------------------------------------------
\* What follows from it.

\* Every variable of the relay keeps its kind.
THEOREM RelayTypeCorrect == LiveSpec => []TypeOK
<1>1. RelayInv => TypeOK
  BY DEF RelayInv
<1>. QED
  BY <1>1, RelayInvariant, PTL

\* Between upstream and client no chunk is lost, repeated or overtaken, for every
\* capacity of the channel in forward_streaming.
THEOREM RelayGapless == LiveSpec => []NothingInBetween
<1>1. RelayInv => NothingInBetween
  <2> SUFFICES ASSUME RelayInv, receiver = "live"
               PROVE  aggregated = polled \o InChannel \o item
    BY DEF NothingInBetween
  <2>1. /\ Len(polled) \in Nat /\ Len(aggregated) \in Nat /\ Len(channel) \in Nat
        /\ polled \in Seq(Nat) /\ item \in Seq(Nat) /\ aggregated \in Seq(Nat)
        /\ channel \in Seq(Nat)
    BY LenProperties, StreamAssumption
       DEF RelayInv, TypeOK, Chunks, Failure, StreamAssumption
  <2>2. Marked <=> Told
    <3>1. ASSUME ~Told, channel # <<>> PROVE Last(channel) # Failure
      <4>1. Len(channel) > 0
        BY <2>1, <3>1, EmptySeq
      <4>2. channel[Len(channel)] = Len(polled) + Len(channel)
        BY <2>1, <3>1, <4>1 DEF RelayInv, BodyInv, Queued
      <4>. QED
        BY <2>1, <4>1, <4>2 DEF Last, Failure
    <3>2. Told => channel # <<>> /\ Last(channel) = Failure
      BY DEF RelayInv, BodyInv, Last
    <3>. QED
      BY <3>1, <3>2 DEF Marked
  <2>3. /\ InChannel \in Seq(Nat)
        /\ Len(InChannel) = Queued
        /\ Queued \in Nat
        /\ \A i \in 1 .. Queued : InChannel[i] = Len(polled) + i
    <3>1. CASE Told
      <4>1. channel # <<>> /\ InChannel = Front(channel) /\ Queued = Len(channel) - 1
        BY <2>2, <3>1 DEF RelayInv, BodyInv, InChannel, Queued
      <4>2. \A i \in 1 .. Queued : channel[i] = Len(polled) + i
        BY DEF RelayInv, BodyInv
      <4>. QED
        BY <2>1, <4>1, <4>2, FrontProperties
    <3>2. CASE ~Told
      BY <2>1, <2>2, <3>2 DEF RelayInv, BodyInv, Queued, InChannel
    <3>. QED
      BY <3>1, <3>2
  <2> DEFINE front == polled \o InChannel
  <2>4. /\ front \in Seq(Nat)
        /\ Len(front) = Len(polled) + Queued
        /\ Numbered(front)
    BY <2>1, <2>3, NumberedConcat DEF RelayInv
  <2> HIDE DEF front
  <2>5. CASE task = "sending"
    <3>1. item = <<Len(aggregated)>> /\ Len(item) = 1 /\ item[1] = Len(aggregated)
      BY <2>5 DEF RelayInv, TaskInv
    <3>2. Len(aggregated) = Len(front) + 1 /\ Len(front) \in Nat
      BY <2>1, <2>3, <2>4, <3>1 DEF RelayInv, BodyInv
    <3>3. \A i \in 1 .. Len(item) : item[i] = Len(front) + i
      BY <3>1, <3>2
    <3>4. /\ front \o item \in Seq(Nat)
          /\ Len(front \o item) = Len(aggregated)
          /\ Numbered(front \o item)
      BY <2>1, <2>4, <3>1, <3>2, <3>3, NumberedConcat
    <3>. QED
      BY <2>1, <3>4, NumberedEqual DEF RelayInv, front
  <2>6. CASE task # "sending"
    <3>1. item = <<>> /\ Len(item) = 0
      BY <2>6 DEF RelayInv, TaskInv
    <3>2. front \o item = front
      BY <2>4, <3>1, ConcatEmptySeq
    <3>3. Len(aggregated) = Len(front)
      BY <2>1, <2>3, <2>4, <3>1 DEF RelayInv, BodyInv
    <3>. QED
      BY <2>1, <2>4, <3>2, <3>3, NumberedEqual DEF RelayInv, front
  <2>. QED
    BY <2>5, <2>6
<1>. QED
  BY <1>1, RelayInvariant, PTL

\* What a client of a stream has is a gapless prefix of the upstream's body.
THEOREM PrefixSeen == LiveSpec => []ClientSeesPrefix
<1>1. RelayInv => ClientSeesPrefix
  <2> SUFFICES ASSUME RelayInv PROVE received = [i \in 1 .. Len(received) |-> i]
    BY DEF ClientSeesPrefix
  <2>1. received = [i \in 1 .. Len(received) |-> received[i]]
    BY LenProperties DEF RelayInv, TypeOK
  <2>. QED
    BY <2>1 DEF RelayInv, Numbered
<1>. QED
  BY <1>1, RelayInvariant, PTL

\* A response that ends properly carried all of an upstream body that ended properly.
THEOREM CompleteIsWhole == LiveSpec => []CompleteMeansWhole
<1>1. RelayInv => CompleteMeansWhole
  BY NumberedEqual DEF RelayInv, TypeOK, ClientInv, CompleteMeansWhole
<1>. QED
  BY <1>1, RelayInvariant, PTL

\* Back-pressure: the task is at most a full channel and a chunk ahead of the server.
THEOREM ReadAhead == LiveSpec => []ReadAheadBounded
<1>1. RelayInv => ReadAheadBounded
  <2> SUFFICES ASSUME RelayInv, receiver = "live"
               PROVE  Len(aggregated) <= Len(polled) + ChunkCapacity + 1
    BY DEF ReadAheadBounded
  <2>1. Len(item) \in {0, 1}
    BY DEF RelayInv, TaskInv
  <2>2. Len(channel) \in Nat /\ Len(polled) \in Nat
    BY LenProperties DEF RelayInv, TypeOK
  <2>3. Queued <= ChunkCapacity /\ Queued \in Int
    BY <2>2, StreamAssumption DEF RelayInv, BodyInv, Queued, StreamAssumption
  <2>4. Len(aggregated) = Len(polled) + Queued + Len(item)
    BY DEF RelayInv, BodyInv
  <2>. QED
    BY <2>1, <2>2, <2>3, <2>4, AheadSum, StreamAssumption DEF StreamAssumption
<1>. QED
  BY <1>1, RelayInvariant, PTL

\* After the response is gone the task reads at most one more chunk.
THEOREM StopsReading == LiveSpec => []StopsAfterDisconnect
<1>1. RelayInv => StopsAfterDisconnect
  BY DEF RelayInv, TaskInv, StopsAfterDisconnect
<1>. QED
  BY <1>1, RelayInvariant, PTL

\* The trace of a stream holds all its client ever sees.
THEOREM TraceCovers == LiveSpec => []TraceCoversClient
<1>1. RelayInv => TraceCoversClient
  <2> SUFFICES ASSUME RelayInv, trace # <<>> PROVE IsPrefix(received, trace[1])
    BY DEF TraceCoversClient
  <2>1. trace[1] = aggregated
    BY DEF RelayInv, TaskInv
  <2>2. /\ Len(received) \in Nat /\ Len(aggregated) \in Nat /\ Len(polled) \in Nat
        /\ Len(received) <= Len(aggregated)
    BY LenProperties DEF RelayInv, TypeOK, ClientInv
  <2> DEFINE part == SubSeq(aggregated, 1, Len(received))
  <2>3. \A i \in 1 .. Len(received) : aggregated[i] \in Chunks
    BY <2>2, ElementOfSeq DEF RelayInv, TypeOK
  <2>4. /\ part \in Seq(Chunks)
        /\ Len(part) = Len(received)
        /\ \A i \in 1 .. Len(received) : part[i] = aggregated[i]
    BY <2>2, <2>3, SubSeqProperties
  <2>5. part = received
    BY <2>2, <2>4, NumberedEqual DEF RelayInv, TypeOK, Numbered
  <2>. QED
    BY <2>1, <2>2, <2>5 DEF IsPrefix
<1>. QED
  BY <1>1, RelayInvariant, PTL
----------------------------------------------------------------------------
\* The relay implements StreamedBody.

\* The response body is dropped when the response ends, and not before.
EndInv == receiver = "live" <=> response = "streaming"

\* Where the task is after its loop, somebody has ended the stream.
LEMMA LoopEnded ==
  ASSUME RelayInv, EndInv, task \in {"closing", "emitting", "done"}
  PROVE  upstream # "open" \/ Ending = "cut"
<1>1. CASE receiver = "live"
  BY <1>1 DEF RelayInv, BodyInv
<1>2. CASE receiver # "live"
  <2>1. response \in {"complete", "aborted"}
    BY <1>2 DEF EndInv, RelayInv, TypeOK, Responses
  <2>. QED
    BY <2>1 DEF RelayInv, ClientInv, Ending
<1>. QED
  BY <1>1, <1>2

LEMMA ReadOfBody ==
  ASSUME RelayInv, EndInv, Read
  PROVE  Body!ReadChunk \/ Body!SourceEnds
<1>1. trace = <<>> /\ upstream = "open"
  BY DEF Read, NextChunk, NextEnd, NextError, RelayInv, TaskInv
<1>2. Ending' = Ending /\ received' = received /\ trace' = trace
  BY DEF Read, NextChunk, NextEnd, NextError, Ending, serverVars
<1>3. CASE NextChunk
  BY <1>1, <1>2, <1>3 DEF NextChunk, KeepCopy, Body!ReadChunk
<1>4. CASE NextEnd \/ NextError
  BY <1>1, <1>2, <1>4 DEF NextEnd, NextError, Body!SourceEnds
<1>. QED
  BY <1>3, <1>4 DEF Read

LEMMA SendOfBody ==
  ASSUME RelayInv, EndInv, Send
  PROVE  Body!SubmitTrace \/ UNCHANGED Body!bodyVars
<1>1. CASE EmitTrace
  <2>1. task = "emitting" /\ trace = <<>> /\ trace' = <<aggregated>>
    BY <1>1 DEF EmitTrace, RelayInv, TaskInv
  <2>2. upstream # "open" \/ Ending = "cut"
    BY <2>1, LoopEnded
  <2>. QED
    BY <1>1, <2>1, <2>2 DEF EmitTrace, Ending, serverVars, Body!SubmitTrace
<1>2. CASE SendChunk \/ SendChunkFails \/ SendFailure \/ CloseChannel
  BY <1>2 DEF SendChunk, SendChunkFails, SendFailure, CloseChannel, Ending, serverVars,
              Body!bodyVars
<1>. QED
  BY <1>1, <1>2 DEF Send

\* The chunk the server takes is the one after those the client has.
LEMMA PollOfBody ==
  ASSUME RelayInv, EndInv, PollChunk
  PROVE  Body!Deliver \/ UNCHANGED Body!bodyVars
<1>1. /\ receiver = "live" /\ channel # <<>> /\ Head(channel) # Failure
      /\ aggregated' = aggregated /\ upstream' = upstream /\ trace' = trace
      /\ Ending' = Ending
  BY DEF PollChunk, IsChunk, relayVars, Ending
<1>2. CASE client = "reading"
  <2>1. Head(channel) = Len(received) + 1 /\ Queued \in Nat \ {0}
    BY <1>1, <1>2, HeadNext DEF RelayInv, ClientInv
  <2>2. /\ Len(received) \in Nat /\ Len(aggregated) \in Nat /\ Len(item) \in Nat
        /\ Len(received) = Len(polled)
    BY <1>2, LenProperties DEF RelayInv, TypeOK, ClientInv
  <2>3. Len(received) < Len(aggregated)
    BY <1>1, <2>1, <2>2 DEF RelayInv, BodyInv
  <2>4. aggregated[Len(received) + 1] = Len(received) + 1
    BY <2>2, <2>3 DEF RelayInv, Numbered
  <2>5. Ending = "open"
    BY <1>1, <1>2 DEF EndInv, Ending
  <2>6. received' = Append(received, Head(channel))
    BY <1>2 DEF PollChunk
  <2>. QED
    BY <1>1, <2>1, <2>3, <2>4, <2>5, <2>6 DEF Body!Deliver
<1>3. CASE client # "reading"
  BY <1>1, <1>3 DEF PollChunk, Body!bodyVars
<1>. QED
  BY <1>2, <1>3

\* However the response ends, the client sees it end once.
LEMMA EndOfBody ==
  ASSUME RelayInv, EndInv, PollFailure \/ PollEnd \/ NoticeClientGone \/ ClientLeaves
  PROVE  Body!Finish \/ Body!CutShort \/ UNCHANGED Body!bodyVars
<1>1. /\ aggregated' = aggregated /\ upstream' = upstream /\ trace' = trace
      /\ received' = received /\ response = "streaming"
  BY DEF PollFailure, PollEnd, NoticeClientGone, ClientLeaves, relayVars, EndInv
<1>2. CASE client = "gone"
  <2>1. Ending = "cut" /\ Ending' = "cut"
    BY <1>2 DEF PollFailure, PollEnd, NoticeClientGone, ClientLeaves, Ending
  <2>. QED
    BY <1>1, <2>1 DEF Body!bodyVars
<1>3. CASE client # "gone"
  <2>1. Ending = "open" /\ client = "reading"
    BY <1>1, <1>3 DEF Ending, RelayInv, TypeOK
  <2>2. CASE PollEnd
    <3>1. response' = "complete" /\ client' = client
      BY <2>2 DEF PollEnd
    <3>2. ClientInv'
      BY <2>2, PollKeeps DEF Poll, RelayInv
    <3>3. upstream = "ended" /\ Len(received) = Len(aggregated)
      BY <1>1, <2>1, <2>2, <3>1, <3>2 DEF PollEnd, ClientInv
    <3>4. received = aggregated
      BY <3>3, NumberedEqual DEF RelayInv, TypeOK
    <3>5. Ending' = "complete"
      BY <1>3, <3>1 DEF Ending
    <3>. QED
      BY <1>1, <2>1, <3>3, <3>4, <3>5 DEF Body!Finish
  <2>3. CASE PollFailure \/ NoticeClientGone \/ ClientLeaves
    <3>1. Ending' = "cut"
      BY <2>3 DEF PollFailure, NoticeClientGone, ClientLeaves, Ending
    <3>. QED
      BY <1>1, <2>1, <3>1 DEF Body!CutShort
  <2>. QED
    BY <2>2, <2>3
<1>. QED
  BY <1>2, <1>3

LEMMA EndKept ==
  ASSUME TypeOK, EndInv, [Next]_vars
  PROVE  EndInv'
<1>1. CASE PollFailure \/ PollEnd \/ NoticeClientGone
  BY <1>1 DEF PollFailure, PollEnd, NoticeClientGone, DropBody, EndInv
<1>2. ASSUME receiver' = receiver, response' = response PROVE EndInv'
  BY <1>2 DEF EndInv
<1>3. CASE Read \/ Send \/ PollChunk \/ ClientLeaves \/ UNCHANGED vars
  BY <1>2, <1>3
     DEF Read, NextChunk, NextEnd, NextError, Send, SendChunk, SendChunkFails, SendFailure,
         CloseChannel, EmitTrace, PollChunk, ClientLeaves, serverVars, vars
<1>. QED
  BY <1>1, <1>3 DEF Next, Poll, Ended

\* What forward_streaming does, with its task, channel and server, is what StreamedBody
\* promises: no chunk out of its turn, a proper end only of a whole body, one end and one
\* trace, of all that was read.
THEOREM BodyRefinement == LiveSpec => ImplementsStreamedBody
<1>1. Init => Body!Init /\ EndInv
  BY DEF Init, Body!Init, Ending, EndInv
<1>2. RelayInv /\ EndInv /\ [Next]_vars => EndInv'
  BY EndKept DEF RelayInv
<1>3. RelayInv /\ EndInv /\ [Next]_vars => [Body!Next]_(Body!bodyVars)
  <2> SUFFICES ASSUME RelayInv, EndInv, [Next]_vars PROVE [Body!Next]_(Body!bodyVars)
    OBVIOUS
  <2>1. CASE Read
    BY <2>1, ReadOfBody DEF Body!Next
  <2>2. CASE Send
    BY <2>2, SendOfBody DEF Body!Next
  <2>3. CASE PollChunk
    BY <2>3, PollOfBody DEF Body!Next
  <2>4. CASE PollFailure \/ PollEnd \/ NoticeClientGone \/ ClientLeaves
    BY <2>4, EndOfBody DEF Body!Next
  <2>5. CASE UNCHANGED vars
    BY <2>5 DEF vars, relayVars, serverVars, Body!bodyVars, Ending
  <2>. QED
    BY <2>1, <2>2, <2>3, <2>4, <2>5 DEF Next, Poll, Ended
<1>. QED
  BY <1>1, <1>2, <1>3, RelayInvariant, PTL DEF LiveSpec, Spec, ImplementsStreamedBody, Body!Spec
================================================================================
