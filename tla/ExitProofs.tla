------------------------------- MODULE ExitProofs -------------------------------
(****************************************************************************)
(* What a clean exit of the proxy accounts for, for every set of requests   *)
(* and every value of the pipeline's constants.  What TracePipelineProofs   *)
(* proves of the writer holds in the proxy, as the proxy implements the     *)
(* pipeline.                                                                *)
(****************************************************************************)
EXTENDS ProxyProofs, FiniteSetTheorems

Proved == INSTANCE TracePipelineProofs

----------------------------------------------------------------------------
\* From the pipeline to the proxy.

LEMMA PipelineConstants == Proved!PipelineAssumption
BY ProxyAssumption DEF Proved!PipelineAssumption, Handles

\* Proxy and TracePipelineProofs instantiate the same pipeline.
LEMMA SameSteps == [Pipeline!Next]_(Pipeline!vars) => [Proved!Next]_(Proved!vars)
BY DEF Pipeline!Next, Proved!Next, Pipeline!vars, Proved!vars,
   Pipeline!producerVars, Proved!producerVars, Pipeline!Writing, Proved!Writing,
   Pipeline!Clone, Proved!Clone, Pipeline!DropHandle, Proved!DropHandle,
   Pipeline!Submit, Proved!Submit, Pipeline!CanSubmit, Proved!CanSubmit,
   Pipeline!HasRoom, Proved!HasRoom, Pipeline!SubmitAccepted, Proved!SubmitAccepted,
   Pipeline!SubmitDropped, Proved!SubmitDropped, Pipeline!CountDrop, Proved!CountDrop,
   Pipeline!SubmitRefused, Proved!SubmitRefused, Pipeline!WriterStep, Proved!WriterStep,
   Pipeline!RecvTrace, Proved!RecvTrace, Pipeline!TakeOldest, Proved!TakeOldest,
   Pipeline!RecvClosed, Proved!RecvClosed, Pipeline!Closed, Proved!Closed,
   Pipeline!Tick, Proved!Tick, Pipeline!Unflushed, Proved!Unflushed,
   Pipeline!WriteOne, Proved!WriteOne, Pipeline!CountWrite, Proved!CountWrite,
   Pipeline!Flush, Proved!Flush, Pipeline!FlushBuffer, Proved!FlushBuffer,
   Pipeline!StartInterval, Proved!StartInterval, Pipeline!FinalFlush, Proved!FinalFlush,
   Pipeline!WriteFails, Proved!WriteFails, Pipeline!Rest, Proved!Rest,
   Pipeline!Spill, Proved!Spill, Pipeline!PassOn, Proved!PassOn,
   Pipeline!FlushFails, Proved!FlushFails,
   Pipeline!FinalFlushFails, Proved!FinalFlushFails,
   Pipeline!DeadlinePasses, Proved!DeadlinePasses,
   Pipeline!DrainTimesOut, Proved!DrainTimesOut, Pipeline!LoseMemory, Proved!LoseMemory,
   Pipeline!Crash, Proved!Crash, Pipeline!Restart, Proved!Restart,
   Pipeline!OpenLog, Proved!OpenLog, Pipeline!Ended, Proved!Ended

LEMMA RunsPipeline == Spec => Proved!Spec
<1>1. Init => Proved!Init
  BY DEF Init, Pipeline!Init, Proved!Init
<1>2. [Next]_vars => [Proved!Next]_(Proved!vars)
  BY PipelineStepOfNext, SameSteps
<1>. QED
  BY <1>1, <1>2, PTL DEF Spec, Proved!Spec

\* What the proxy needs to know of the pipeline.
PipelineFacts ==
  /\ Proved!TypeOK
  /\ Proved!WriterInv
  /\ Proved!CleanExitKeepsAll

LEMMA PipelineFactsHold == Spec => []PipelineFacts
<1>1. Proved!Spec => []Proved!TypeOK
  BY PipelineConstants, Proved!TypeCorrect
<1>2. Proved!Spec => []Proved!WriterInv
  BY PipelineConstants, Proved!WriterInvariant
<1>3. Proved!Spec => []Proved!CleanExitKeepsAll
  BY PipelineConstants, Proved!CleanExit
<1>. QED
  BY RunsPipeline, <1>1, <1>2, <1>3, PTL DEF PipelineFacts

----------------------------------------------------------------------------
\* The traces that did not get into the channel, and the writer that has ended.

\* The requests whose trace was submitted and not taken.
Lost == {r \in Requests : emits[r] > 0 /\ record[r] = 0}

\* Each lost trace was counted once, as dropped or as refused; a trace that was taken
\* has one of the numbers given out; and a relay is cut only when main() has given up
\* on the writer.
ExitInv ==
  /\ IsFiniteSet(Lost)
  /\ Cardinality(Lost) = dropped + refused
  /\ \A r \in Requests : record[r] <= accepted
  /\ main = "exited" => pc \in {"done", "down"}
  /\ \A r \in Requests : relay[r] = "cut" => pc = "down"

\* No trace is submitted.
Quiet == UNCHANGED <<traceVars, accepted, dropped, refused>>

\* A request that submits its trace has not done so before.
FirstEmit(r) == emits[r] = 0 /\ \E s : Emit(r, s)

LEMMA QuietPipeline ==
  \/ KeepWriter
  \/ \E h : Pipeline!Clone(h) \/ Pipeline!DropHandle(h)
  \/ Writer
  \/ Background
  \/ GiveUp
  => UNCHANGED <<accepted, dropped, refused>>
BY DEF KeepWriter, pipelineVars, Writer, Background, GiveUp, Pipeline!Clone,
   Pipeline!DropHandle, Pipeline!DrainTimesOut,
   Pipeline!WriterStep, Pipeline!RecvTrace, Pipeline!RecvClosed, Pipeline!Tick,
   Pipeline!WriteOne, Pipeline!Flush, Pipeline!FinalFlush, Pipeline!WriteFails,
   Pipeline!Spill, Pipeline!FlushFails, Pipeline!FinalFlushFails,
   Pipeline!DeadlinePasses, Pipeline!producerVars

\* A step submits the first trace of one request, or none.
LEMMA EmitOrQuiet ==
  ASSUME TypeOK, TraceInv, [Next]_vars
  PROVE  (\E r \in Requests : FirstEmit(r)) \/ Quiet
<1> USE DEF Quiet
<1>1. ASSUME NEW r \in Requests, Handler(r)
      PROVE  FirstEmit(r) \/ Quiet
  <2>1. CASE DialFails(r) \/ BodyFails(r) \/ BodyRead(r)
    BY <2>1 DEF DialFails, BodyFails, BodyRead, Move, FirstEmit, TraceInv, ExchangeInv,
           RecordMatchesReply, TraceDue
  <2>2. CASE Reject(r) \/ Dial(r) \/ AnswerArrives(r) \/ StreamArrives(r)
    BY <2>2, QuietPipeline
       DEF Reject, RejectQuietly, Dial, AnswerArrives, StreamArrives, RelayOwnsState,
           NoEmit
  <2>3. CASE HandlerReturns(r)
    BY <2>3, QuietPipeline DEF HandlerReturns, NoEmit
  <2>. QED
    BY <1>1, <2>1, <2>2, <2>3 DEF Handler
<1>2. ASSUME NEW r \in Requests,
             \/ Arrive(r)
             \/ Connection(r)
             \/ ConnectionLost(r)
             \/ ResponseCut(r)
      PROVE  Quiet
  BY <1>2, QuietPipeline
     DEF Arrive, Connection, ResponseSent, StreamSent, ConnectionLost, CancelHandler,
         ResponseCut, NoEmit
<1>3. ASSUME NEW r \in Requests, RelayChunk(r) \/ RelayTask(r) \/ RelayCut(r)
      PROVE  FirstEmit(r) \/ Quiet
  <2>1. CASE RelayEmits(r)
    <3>1. emits[r] = 0
      BY <2>1 DEF RelayEmits, Advance, TraceInv, ExchangeInv, RecordMatchesReply,
                         TraceDue
    <3>. QED
      BY <2>1, <3>1 DEF RelayEmits, EmitAlways, FirstEmit
  <2>2. CASE RelayChunk(r) \/ StreamEnds(r) \/ RelayReturns(r) \/ RelayCut(r)
    BY <2>2, QuietPipeline DEF RelayChunk, StreamEnds, RelayReturns, RelayCut, NoEmit
  <2>. QED
    BY <1>3, <2>1, <2>2 DEF RelayTask
<1>4. CASE Serve \/ Signal \/ Shutdown
  BY <1>4, QuietPipeline
     DEF Serve, Signal, Shutdown, ServerStops, DropWriter, WriterJoined, MainStep, GiveUp
<1>5. CASE Writer \/ Background
  BY <1>5, QuietPipeline DEF Writer, Background, proxyVars
<1>6. CASE Ended \/ UNCHANGED vars
  BY <1>6 DEF Ended, vars, pipelineVars, proxyVars
<1>. QED
  BY <1>1, <1>2, <1>3, <1>4, <1>5, <1>6 DEF Next

\* The count of what is lost.
LEMMA LostCounted ==
  ASSUME TypeOK, Proved!TypeOK, TraceInv, ExitInv, [Next]_vars
  PROVE  /\ IsFiniteSet(Lost')
         /\ Cardinality(Lost') = dropped' + refused'
         /\ \A r \in Requests : record'[r] <= accepted'
<1>1. CASE Quiet
  BY <1>1 DEF Quiet, traceVars, ExitInv, Lost
<1>2. ASSUME NEW r \in Requests, FirstEmit(r)
      PROVE  /\ IsFiniteSet(Lost')
             /\ Cardinality(Lost') = dropped' + refused'
             /\ \A q \in Requests : record'[q] <= accepted'
  <2> DEFINE number == IF accepted' > accepted THEN accepted' ELSE 0
  <2>1. /\ emits[r] = 0
        /\ emits' = [emits EXCEPT ![r] = @ + 1]
        /\ record' = [record EXCEPT ![r] = number]
        /\ Pipeline!Submit(r)
    BY <1>2 DEF FirstEmit, Emit
  <2>2. accepted \in Nat /\ dropped \in Nat /\ refused \in Nat
    BY DEF Proved!TypeOK
  <2>3. r \notin Lost /\ emits'[r] = 1
    BY <2>1 DEF Lost, TypeOK
  <2>4. CASE Pipeline!SubmitAccepted(r)
    <3>1. accepted' = accepted + 1 /\ UNCHANGED <<dropped, refused>>
      BY <2>4 DEF Pipeline!SubmitAccepted
    <3>2. record' = [record EXCEPT ![r] = accepted + 1]
      <4>1. number = accepted + 1
        BY <2>2, <3>1
      <4> HIDE DEF number
      <4>. QED
        BY <2>1, <4>1
    <3>3. Lost' = Lost
      BY <2>1, <2>2, <2>3, <3>2 DEF Lost, TypeOK
    <3>4. \A q \in Requests : record'[q] <= accepted + 1
      BY <2>2, <3>2 DEF ExitInv, TypeOK
    <3>. QED
      BY <3>1, <3>3, <3>4 DEF ExitInv
  <2>5. CASE Pipeline!SubmitDropped(r) \/ Pipeline!SubmitRefused(r)
    <3>1. /\ accepted' = accepted
          /\ dropped' + refused' = dropped + refused + 1
      BY <2>2, <2>5
         DEF Pipeline!SubmitDropped, Pipeline!SubmitRefused, Pipeline!CountDrop
    <3>2. record' = [record EXCEPT ![r] = 0]
      <4>1. number = 0
        BY <2>2, <3>1
      <4> HIDE DEF number
      <4>. QED
        BY <2>1, <4>1
    <3>3. Lost' = Lost \union {r}
      BY <2>1, <2>3, <3>2 DEF Lost, TypeOK
    <3>4. IsFiniteSet(Lost') /\ Cardinality(Lost') = Cardinality(Lost) + 1
      BY <2>3, <3>3, FS_AddElement DEF ExitInv
    <3>5. \A q \in Requests : record'[q] <= accepted
      BY <2>2, <3>2 DEF ExitInv, TypeOK
    <3>. QED
      BY <3>1, <3>4, <3>5 DEF ExitInv
  <2>. QED
    BY <2>1, <2>4, <2>5 DEF Pipeline!Submit
<1>. QED
  BY <1>1, <1>2, EmitOrQuiet

----------------------------------------------------------------------------
\* The end of the writer.

\* A writer that has ended stays as it is.
LEMMA EndedStays ==
  ASSUME pc \in {"done", "down"},
         \/ KeepWriter
         \/ \E h : Pipeline!Clone(h) \/ Pipeline!DropHandle(h) \/ Pipeline!Submit(h)
         \/ Writer
         \/ Background
         \/ GiveUp
  PROVE  pc' = pc
BY DEF KeepWriter, pipelineVars, Writer, Background, GiveUp, Pipeline!Clone,
   Pipeline!DropHandle, Pipeline!Submit, Pipeline!SubmitAccepted,
   Pipeline!SubmitDropped, Pipeline!SubmitRefused, Pipeline!DrainTimesOut,
   Pipeline!WriterStep, Pipeline!RecvTrace, Pipeline!RecvClosed, Pipeline!Tick,
   Pipeline!WriteOne, Pipeline!Flush, Pipeline!FinalFlush, Pipeline!WriteFails,
   Pipeline!Spill, Pipeline!FlushFails, Pipeline!FinalFlushFails,
   Pipeline!DeadlinePasses, Pipeline!Writing

\* main() exits after the writer, and no relay is cut that could have kept it alive.
LEMMA WriterEnds ==
  ASSUME TypeOK, Proved!WriterInv, WritersAccounted, ExitInv, [Next]_vars
  PROVE  /\ main' = "exited" => pc' \in {"done", "down"}
         /\ \A r \in Requests : relay'[r] = "cut" => pc' = "down"
<1> DEFINE Goal == /\ main' = "exited" => pc' \in {"done", "down"}
                   /\ \A r \in Requests : relay'[r] = "cut" => pc' = "down"
<1> USE DEF ExitInv, TypeOK
<1>1. ASSUME NEW r \in Requests, Handler(r) PROVE Goal
  BY <1>1, EndedStays
     DEF Handler, Reject, RejectQuietly, Dial, DialFails, AnswerArrives, StreamArrives,
         RelayOwnsState, BodyFails, BodyRead, HandlerReturns, Emit, Advance
<1>2. ASSUME NEW r \in Requests,
             \/ Arrive(r)
             \/ Connection(r)
             \/ ConnectionLost(r)
             \/ ResponseCut(r)
      PROVE  Goal
  BY <1>2, EndedStays
     DEF Arrive, Connection, ResponseSent, StreamSent, ConnectionLost, CancelHandler,
         ResponseCut
<1>3. ASSUME NEW r \in Requests, RelayChunk(r) \/ RelayTask(r) PROVE Goal
  BY <1>3, EndedStays
     DEF RelayChunk, RelayTask, StreamEnds, RelayEmits, EmitAlways, RelayReturns, Emit,
         Advance
<1>4. ASSUME NEW r \in Requests, RelayCut(r) PROVE Goal
  <2>1. /\ main = "exited" /\ main' = main
        /\ relay[r] = "relaying" /\ relay' = [relay EXCEPT ![r] = "cut"]
        /\ pc' = pc
    BY <1>4, EndedStays DEF RelayCut, Advance
  <2>2. r \in handles
    BY <2>1 DEF WritersAccounted
  <2>3. pc = "down"
    BY <2>1, <2>2 DEF Proved!WriterInv
  <2>. QED
    BY <2>1, <2>3
<1>5. CASE Serve \/ Signal \/ ServerStops \/ DropWriter
  BY <1>5, EndedStays
     DEF Serve, Signal, ServerStops, DropWriter,
         MainStep, requestVars
<1>6. CASE WriterJoined
  BY <1>6, EndedStays DEF WriterJoined, MainStep, requestVars
<1>7. CASE GiveUp
  BY <1>7 DEF GiveUp, MainStep, requestVars, Pipeline!DrainTimesOut, Pipeline!LoseMemory
<1>8. CASE Writer \/ Background
  BY <1>8, EndedStays DEF Writer, Background, proxyVars, requestVars
<1>9. CASE Ended \/ UNCHANGED vars
  BY <1>9 DEF Ended, vars, pipelineVars, proxyVars, requestVars
<1>. QED
  BY <1>1, <1>2, <1>3, <1>4, <1>5, <1>6, <1>7, <1>8, <1>9 DEF Next, Shutdown

\* Every lost trace is counted, and the writer ends before main() or with it.
THEOREM ExitInvariant == Spec => []ExitInv
<1>1. Init => ExitInv
  <2> SUFFICES ASSUME Init PROVE ExitInv
    OBVIOUS
  <2>1. Lost = {}
    BY DEF Init, Lost
  <2>. QED
    BY <2>1, FS_EmptySet DEF Init, Pipeline!Init, ExitInv
<1>2. /\ TypeOK /\ PipelineFacts /\ TraceInv /\ WritersAccounted /\ ExitInv
      /\ [Next]_vars
      => ExitInv'
  BY LostCounted, WriterEnds DEF PipelineFacts, ExitInv
<1>3. Init => TraceInv
  BY DEF Init, TraceInv, ExchangeInv, RecordMatchesReply, TraceDue
<1>4. TypeOK /\ TraceInv /\ [Next]_vars => TraceInv'
  BY TraceInvStep
<1>. QED
  BY <1>1, <1>2, <1>3, <1>4, ProxyTypeCorrect, PipelineFactsHold, WritersKnown, PTL
     DEF Spec

\* An exit of main() after a complete drain leaves no relay behind; if nothing failed
\* every trace is in the file, except as many as the dropped counter says.
THEOREM ExitAccounts == Spec => []CleanExitAccounts
<1>1. /\ TypeOK /\ PipelineFacts /\ WritersAccounted /\ ExitInv
      => CleanExitAccounts
  <2> SUFFICES ASSUME TypeOK, PipelineFacts, WritersAccounted, ExitInv, pc = "done"
               PROVE  /\ \A r \in Requests : relay[r] \in {"none", "done"}
                      /\ incidents = {} =>
                           /\ \A r \in Requests :
                                record[r] > 0 => record[r] \in Range(file)
                           /\ dropped = Cardinality(Lost)
    BY DEF CleanExitAccounts, Lost
  <2>1. handles = {} /\ ~(refused > 0)
    BY DEF PipelineFacts, Proved!WriterInv
  <2>2. ASSUME NEW r \in Requests PROVE relay[r] \in {"none", "done"}
    <3>1. relay[r] \notin {"relaying", "emitting", "returning"}
      BY <2>1 DEF WritersAccounted
    <3>2. relay[r] # "cut"
      BY DEF ExitInv
    <3>. QED
      BY <3>1, <3>2 DEF TypeOK, Relays
  <2>3. ASSUME incidents = {}, NEW r \in Requests, record[r] > 0
        PROVE  record[r] \in Range(file)
    <3>1. file = [i \in 1 .. accepted |-> i]
      BY <2>3 DEF PipelineFacts, Proved!CleanExitKeepsAll
    <3>2. record[r] \in 1 .. accepted
      BY <2>3 DEF ExitInv, TypeOK, PipelineFacts, Proved!TypeOK
    <3>. QED
      BY <3>1, <3>2 DEF Range
  <2>4. dropped = Cardinality(Lost)
    BY <2>1 DEF ExitInv, PipelineFacts, Proved!TypeOK
  <2>. QED
    BY <2>2, <2>3, <2>4
<1>. QED
  BY <1>1, ProxyTypeCorrect, PipelineFactsHold, WritersKnown, ExitInvariant, PTL
================================================================================
