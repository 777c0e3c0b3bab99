------------------------------ MODULE ProxyProofs ------------------------------
(****************************************************************************)
(* Theorems about Proxy, for every set of requests and every value of the   *)
(* pipeline's constants.                                                    *)
(****************************************************************************)
EXTENDS Proxy, TLAPS

----------------------------------------------------------------------------
\* The proxy runs the pipeline.

\* A step that leaves the pipeline alone is a stutter of it.
LEMMA PipelineStutter == KeepWriter => UNCHANGED Pipeline!vars
BY DEF KeepWriter, pipelineVars, Pipeline!vars

\* Every step of a request is a step of its writer, or leaves the pipeline alone.
LEMMA RequestStep ==
  ASSUME NEW r \in Requests,
         \/ Arrive(r)
         \/ Handler(r)
         \/ Connection(r)
         \/ ConnectionLost(r)
         \/ ResponseCut(r)
         \/ RelayChunk(r)
         \/ RelayTask(r)
         \/ RelayCut(r)
  PROVE  [Pipeline!Next]_(Pipeline!vars)
<1>1. r \in Handles
  BY DEF Handles
<1>2. ASSUME Pipeline!Clone(r) \/ Pipeline!DropHandle(r) \/ Pipeline!Submit(r)
      PROVE  Pipeline!Next
  BY <1>1, <1>2 DEF Pipeline!Next
<1>3. CASE Arrive(r)
  BY <1>2, <1>3 DEF Arrive
<1>4. CASE Handler(r)
  BY <1>2, <1>4, PipelineStutter
     DEF Handler, Reject, RejectQuietly, Dial, DialFails, AnswerArrives, StreamArrives,
         RelayOwnsState, BodyFails, BodyRead, HandlerReturns, Emit
<1>5. CASE Connection(r)
  BY <1>5, PipelineStutter DEF Connection, ResponseSent, StreamSent
<1>6. CASE ConnectionLost(r)
  BY <1>2, <1>6 DEF ConnectionLost, CancelHandler
<1>7. CASE ResponseCut(r)
  BY <1>7, PipelineStutter DEF ResponseCut
<1>8. CASE RelayChunk(r)
  BY <1>8, PipelineStutter DEF RelayChunk
<1>9. CASE RelayTask(r)
  BY <1>2, <1>9, PipelineStutter
     DEF RelayTask, StreamEnds, RelayEmits, EmitAlways, RelayReturns, Emit
<1>10. CASE RelayCut(r)
  BY <1>2, <1>10 DEF RelayCut
<1>. QED
  BY <1>3, <1>4, <1>5, <1>6, <1>7, <1>8, <1>9, <1>10

\* Every step of main() is a step of one of its writers, or leaves the pipeline alone.
LEMMA MainPipelineStep ==
  Serve \/ Signal \/ Shutdown => [Pipeline!Next]_(Pipeline!vars)
<1>1. Main \in Handles /\ Server \in Handles
  BY DEF Handles
<1>2. ASSUME NEW h \in Handles, Pipeline!Clone(h) \/ Pipeline!DropHandle(h)
      PROVE  Pipeline!Next
  BY <1>2 DEF Pipeline!Next
<1>3. CASE Serve
  BY <1>1, <1>2, <1>3 DEF Serve
<1>4. CASE Signal
  BY <1>4, PipelineStutter DEF Signal
<1>5. CASE ServerStops
  BY <1>1, <1>2, <1>5 DEF ServerStops
<1>6. CASE DropWriter
  BY <1>1, <1>2, <1>6 DEF DropWriter
<1>7. CASE WriterJoined
  BY <1>7, PipelineStutter DEF WriterJoined
<1>8. CASE GiveUp
  BY <1>8 DEF GiveUp, Pipeline!Next
<1>. QED
  BY <1>3, <1>4, <1>5, <1>6, <1>7, <1>8 DEF Shutdown

\* Every step of the proxy is one step of the pipeline, or leaves it alone.
LEMMA PipelineStepOfNext == [Next]_vars => [Pipeline!Next]_(Pipeline!vars)
<1>1. CASE Ended \/ UNCHANGED vars
  BY <1>1 DEF Ended, vars, pipelineVars, Pipeline!vars
<1>2. CASE Writer \/ Background
  BY <1>2 DEF Writer, Background, Pipeline!Next
<1>. QED
  BY <1>1, <1>2, RequestStep, MainPipelineStep DEF Next

----------------------------------------------------------------------------
\* Types.

\* The count of accepted records is a number and grows by one at most.
LEMMA CountStep ==
  ASSUME accepted \in Nat, [Pipeline!Next]_(Pipeline!vars)
  PROVE  accepted' \in Nat
<1>1. CASE UNCHANGED Pipeline!vars
  BY <1>1 DEF Pipeline!vars
<1>2. ASSUME NEW h \in Handles,
             Pipeline!Clone(h) \/ Pipeline!DropHandle(h) \/ Pipeline!Submit(h)
      PROVE  accepted' \in Nat
  BY <1>2 DEF Pipeline!Clone, Pipeline!DropHandle, Pipeline!Submit,
     Pipeline!SubmitAccepted, Pipeline!SubmitDropped, Pipeline!SubmitRefused,
     Pipeline!CountDrop
<1>3. CASE Pipeline!WriterStep
  BY <1>3 DEF Pipeline!WriterStep, Pipeline!RecvTrace, Pipeline!RecvClosed, Pipeline!Tick,
     Pipeline!WriteOne, Pipeline!Flush, Pipeline!FinalFlush, Pipeline!producerVars
<1>4. CASE \/ Pipeline!WriteFails
           \/ Pipeline!Spill
           \/ Pipeline!FlushFails
           \/ Pipeline!FinalFlushFails
           \/ Pipeline!DeadlinePasses
  BY <1>4 DEF Pipeline!WriteFails, Pipeline!Spill, Pipeline!FlushFails,
     Pipeline!FinalFlushFails, Pipeline!DeadlinePasses, Pipeline!producerVars
<1>5. CASE Pipeline!DrainTimesOut \/ Pipeline!Crash \/ Pipeline!Restart \/ Pipeline!Ended
  BY <1>5 DEF Pipeline!DrainTimesOut, Pipeline!Crash, Pipeline!Restart, Pipeline!Ended,
     Pipeline!vars
<1>. QED
  BY <1>1, <1>2, <1>3, <1>4, <1>5 DEF Pipeline!Next

\* Submitting a trace for a request keeps the types of what is known of its trace.
LEMMA EmitTyped ==
  ASSUME TypeOK, accepted \in Nat, accepted' \in Nat,
         NEW r \in Requests, NEW s \in {"zero", "upstream"}, Emit(r, s)
  PROVE  /\ emits' \in [Requests -> Nat]
         /\ status' \in [Requests -> {"none", "zero", "upstream"}]
         /\ record' \in [Requests -> Nat]
BY DEF TypeOK, Emit

\* Every step keeps the types.
LEMMA TypeStep ==
  ASSUME TypeOK, accepted \in Nat, accepted' \in Nat, [Next]_vars
  PROVE  TypeOK'
<1>. USE DEF TypeOK
<1>1. ASSUME NEW r \in Requests, Handler(r) PROVE TypeOK'
  <2>1. CASE Reject(r)
    BY <2>1 DEF Reject, RejectQuietly, NoEmit, traceVars, Move, Answer, Phases
  <2>2. CASE Dial(r)
    BY <2>2 DEF Dial, NoEmit, traceVars, Move, Phases
  <2>3. CASE DialFails(r)
    BY <2>3, EmitTyped DEF DialFails, Move, Answer, Phases
  <2>4. CASE AnswerArrives(r)
    BY <2>4 DEF AnswerArrives, NoEmit, traceVars, Move, Phases
  <2>5. CASE StreamArrives(r)
    BY <2>5 DEF StreamArrives, NoEmit, traceVars, Move, Answer, Advance, Phases, Relays
  <2>6. CASE BodyFails(r)
    BY <2>6, EmitTyped DEF BodyFails, Move, Answer, Phases
  <2>7. CASE BodyRead(r)
    BY <2>7, EmitTyped DEF BodyRead, Move, Answer, Phases
  <2>8. CASE HandlerReturns(r)
    BY <2>8 DEF HandlerReturns, NoEmit, traceVars, Move, Phases
  <2>. QED
    BY <1>1, <2>1, <2>2, <2>3, <2>4, <2>5, <2>6, <2>7, <2>8 DEF Handler
<1>2. ASSUME NEW r \in Requests,
             \/ Arrive(r)
             \/ Connection(r)
             \/ ConnectionLost(r)
             \/ ResponseCut(r)
      PROVE  TypeOK'
  BY <1>2 DEF Arrive, Connection, ResponseSent, StreamSent, ConnectionLost, ResponseCut,
     NoEmit, traceVars, Move, Phases
<1>3. ASSUME NEW r \in Requests, RelayChunk(r) \/ RelayTask(r) \/ RelayCut(r)
      PROVE  TypeOK'
  <2>1. CASE RelayEmits(r)
    BY <2>1, EmitTyped DEF RelayEmits, EmitAlways, Advance, Relays
  <2>2. CASE RelayChunk(r) \/ StreamEnds(r) \/ RelayReturns(r) \/ RelayCut(r)
    BY <2>2 DEF RelayChunk, StreamEnds, RelayReturns, RelayCut, NoEmit, traceVars, Advance,
       Relays
  <2>. QED
    BY <1>3, <2>1, <2>2 DEF RelayTask
<1>4. CASE Serve \/ Signal \/ Shutdown
  BY <1>4 DEF Serve, Signal, Shutdown, ServerStops, DropWriter, WriterJoined, GiveUp,
     MainStep, MainPlaces, requestVars, traceVars
<1>5. CASE Writer \/ Background \/ Ended \/ UNCHANGED vars
  BY <1>5 DEF Writer, Background, Ended, vars, proxyVars, requestVars, traceVars
<1>. QED
  BY <1>1, <1>2, <1>3, <1>4, <1>5 DEF Next

\* Every variable of the proxy keeps the kind of value TypeOK states.
THEOREM ProxyTypeCorrect == Spec => []TypeOK
<1>1. Init => TypeOK /\ accepted \in Nat
  BY DEF Init, Pipeline!Init, TypeOK, MainPlaces, Phases, Relays
<1>2. TypeOK /\ accepted \in Nat /\ [Next]_vars => (TypeOK /\ accepted \in Nat)'
  BY PipelineStepOfNext, CountStep, TypeStep
<1>. QED
  BY <1>1, <1>2, PTL DEF Spec

----------------------------------------------------------------------------
\* The traces of an exchange.

TraceInv == ExchangeInv /\ RecordMatchesReply

\* What Emit does to the two facts the answers depend on.
LEMMA EmitOnce ==
  ASSUME TypeOK, NEW r \in Requests, NEW s, Emit(r, s)
  PROVE  /\ emits' = [emits EXCEPT ![r] = emits[r] + 1]
         /\ status' = [status EXCEPT ![r] = s]
BY DEF Emit

\* A step of one exchange preserves the invariant of all of them.
LEMMA TraceInvStep ==
  ASSUME TypeOK, TraceInv, [Next]_vars
  PROVE  TraceInv'
<1>. USE DEF TypeOK, TraceInv, ExchangeInv, RecordMatchesReply, TraceDue
<1>1. ASSUME NEW r \in Requests, Handler(r) PROVE TraceInv'
  <2>1. CASE Reject(r)
    BY <2>1 DEF Reject, RejectQuietly, NoEmit, traceVars, Move, Answer
  <2>2. CASE Dial(r)
    BY <2>2 DEF Dial, NoEmit, traceVars, Move
  <2>3. CASE DialFails(r)
    BY <2>3, EmitOnce DEF DialFails, Move, Answer
  <2>4. CASE AnswerArrives(r)
    BY <2>4 DEF AnswerArrives, NoEmit, traceVars, Move
  <2>5. CASE StreamArrives(r)
    BY <2>5 DEF StreamArrives, NoEmit, traceVars, Move, Answer, Advance
  <2>6. CASE BodyFails(r)
    BY <2>6, EmitOnce DEF BodyFails, Move, Answer
  <2>7. CASE BodyRead(r)
    BY <2>7, EmitOnce DEF BodyRead, Move, Answer
  <2>8. CASE HandlerReturns(r)
    BY <2>8 DEF HandlerReturns, NoEmit, traceVars, Move
  <2>. QED
    BY <1>1, <2>1, <2>2, <2>3, <2>4, <2>5, <2>6, <2>7, <2>8 DEF Handler
<1>2. ASSUME NEW r \in Requests,
             \/ Arrive(r)
             \/ Connection(r)
             \/ ConnectionLost(r)
             \/ ResponseCut(r)
      PROVE  TraceInv'
  <2>1. CASE Arrive(r)
    BY <2>1 DEF Arrive, NoEmit, traceVars, Move
  <2>2. CASE Connection(r)
    BY <2>2 DEF Connection, ResponseSent, StreamSent, NoEmit, traceVars, Move
  <2>3. CASE ConnectionLost(r)
    BY <2>3 DEF ConnectionLost, NoEmit, traceVars, Move
  <2>4. CASE ResponseCut(r)
    BY <2>4 DEF ResponseCut, NoEmit, traceVars, Move
  <2>. QED
    BY <1>2, <2>1, <2>2, <2>3, <2>4
<1>3. ASSUME NEW r \in Requests, RelayChunk(r) \/ RelayTask(r) \/ RelayCut(r)
      PROVE  TraceInv'
  <2>1. CASE RelayChunk(r)
    BY <2>1 DEF RelayChunk, NoEmit, traceVars
  <2>2. CASE StreamEnds(r)
    BY <2>2 DEF StreamEnds, NoEmit, traceVars, Advance
  <2>3. CASE RelayEmits(r)
    BY <2>3, EmitOnce DEF RelayEmits, EmitAlways, Advance
  <2>4. CASE RelayReturns(r)
    BY <2>4 DEF RelayReturns, NoEmit, traceVars, Advance
  <2>5. CASE RelayCut(r)
    BY <2>5 DEF RelayCut, NoEmit, traceVars, Advance
  <2>. QED
    BY <1>3, <2>1, <2>2, <2>3, <2>4, <2>5 DEF RelayTask
<1>4. CASE Serve \/ Signal \/ Shutdown
  BY <1>4 DEF Serve, Signal, Shutdown, ServerStops, DropWriter, WriterJoined, GiveUp,
     MainStep, requestVars, traceVars
<1>5. CASE Writer \/ Background \/ Ended \/ UNCHANGED vars
  BY <1>5 DEF Writer, Background, Ended, vars, proxyVars, requestVars, traceVars
<1>. QED
  BY <1>1, <1>2, <1>3, <1>4, <1>5 DEF Next

\* The trace of every request agrees with its answer, whoever leaves and whatever fails.
THEOREM TracesMatchReplies == Spec => []RecordMatchesReply
<1>1. Init => TraceInv
  BY DEF Init, TraceInv, ExchangeInv, RecordMatchesReply, TraceDue
<1>2. TypeOK /\ TraceInv /\ [Next]_vars => TraceInv'
  BY TraceInvStep
<1>3. TraceInv => RecordMatchesReply
  BY DEF TraceInv
<1>. QED
  BY <1>1, <1>2, <1>3, ProxyTypeCorrect, PTL DEF Spec

----------------------------------------------------------------------------
\* The owners of writers.

\* The phases and relay states in which a request owns a writer.
HandlerOwns == {"reading", "dialing", "buffering", "returning"}
RelayOwns == {"relaying", "emitting", "returning"}

\* WritersAccounted, owner by owner.
LEMMA OwnerByOwner ==
  WritersAccounted <=>
    /\ handles \subseteq Handles
    /\ \A r \in Requests : r \in handles <=> phase[r] \in HandlerOwns \/ relay[r] \in RelayOwns
    /\ Main \in handles <=> main \notin {"waiting", "exited"}
    /\ Server \in handles <=> main \in {"serving", "closing"}
BY ProxyAssumption DEF WritersAccounted, Handles, HandlerOwns, RelayOwns

\* What the three uses of a writer do to the set of owners.
LEMMA OwnerSteps ==
  /\ \A h : Pipeline!Clone(h) => handles' = handles \union {h}
  /\ \A h : Pipeline!DropHandle(h) => handles' = handles \ {h}
  /\ \A h : Pipeline!Submit(h) => handles' = handles
BY DEF Pipeline!Clone, Pipeline!DropHandle, Pipeline!Submit, Pipeline!SubmitAccepted,
   Pipeline!SubmitDropped, Pipeline!SubmitRefused

\* The pipeline by itself neither takes nor drops a writer.
LEMMA OwnersKept ==
  KeepWriter \/ Writer \/ Background \/ GiveUp => handles' = handles
BY DEF KeepWriter, pipelineVars, Writer, Background, GiveUp, Pipeline!DrainTimesOut,
   Pipeline!WriterStep, Pipeline!RecvTrace, Pipeline!RecvClosed, Pipeline!Tick,
   Pipeline!WriteOne, Pipeline!Flush, Pipeline!FinalFlush, Pipeline!WriteFails,
   Pipeline!Spill, Pipeline!FlushFails, Pipeline!FinalFlushFails,
   Pipeline!DeadlinePasses, Pipeline!producerVars

\* Every step gives and takes writers as it moves main(), a handler or a relay.
LEMMA WritersStep ==
  ASSUME TypeOK, ExchangeInv, WritersAccounted, [Next]_vars
  PROVE  WritersAccounted'
<1> DEFINE Owners ==
      /\ handles \subseteq Handles
      /\ \A r \in Requests : r \in handles <=> phase[r] \in HandlerOwns \/ relay[r] \in RelayOwns
      /\ Main \in handles <=> main \notin {"waiting", "exited"}
      /\ Server \in handles <=> main \in {"serving", "closing"}
<1>0. SUFFICES Owners'
  BY OwnerByOwner, PTL
<1>1. Owners
  BY OwnerByOwner
<1>. USE <1>1, ProxyAssumption DEF TypeOK, ExchangeInv, HandlerOwns, RelayOwns, Handles
<1>2. ASSUME NEW r \in Requests, Handler(r) PROVE Owners'
  <2>1. CASE Reject(r)
    BY <2>1, OwnersKept DEF Reject, RejectQuietly, Move
  <2>2. CASE Dial(r)
    BY <2>2, OwnersKept DEF Dial, Move
  <2>3. CASE DialFails(r)
    BY <2>3, OwnerSteps DEF DialFails, Emit, Move
  <2>4. CASE AnswerArrives(r)
    BY <2>4, OwnersKept DEF AnswerArrives, Move
  <2>5. CASE StreamArrives(r)
    BY <2>5, OwnersKept DEF StreamArrives, RelayOwnsState, Move, Advance
  <2>6. CASE BodyFails(r)
    BY <2>6, OwnerSteps DEF BodyFails, Emit, Move
  <2>7. CASE BodyRead(r)
    BY <2>7, OwnerSteps DEF BodyRead, Emit, Move
  <2>8. CASE HandlerReturns(r)
    BY <2>8, OwnerSteps DEF HandlerReturns, Move
  <2>. QED
    BY <1>2, <2>1, <2>2, <2>3, <2>4, <2>5, <2>6, <2>7, <2>8 DEF Handler
<1>3. ASSUME NEW r \in Requests,
             \/ Arrive(r)
             \/ Connection(r)
             \/ ConnectionLost(r)
             \/ ResponseCut(r)
      PROVE  Owners'
  <2>1. CASE Arrive(r)
    BY <2>1, OwnerSteps DEF Arrive, Move
  <2>2. CASE Connection(r)
    BY <2>2, OwnersKept DEF Connection, ResponseSent, StreamSent, Move
  <2>3. CASE ConnectionLost(r)
    BY <2>3, OwnerSteps DEF ConnectionLost, CancelHandler, Move
  <2>4. CASE ResponseCut(r)
    BY <2>4, OwnersKept DEF ResponseCut, Move
  <2>. QED
    BY <1>3, <2>1, <2>2, <2>3, <2>4
<1>4. ASSUME NEW r \in Requests, RelayChunk(r) \/ RelayTask(r) \/ RelayCut(r)
      PROVE  Owners'
  <2>1. CASE RelayChunk(r)
    BY <2>1, OwnersKept DEF RelayChunk
  <2>2. CASE StreamEnds(r)
    BY <2>2, OwnersKept DEF StreamEnds, Advance
  <2>3. CASE RelayEmits(r)
    BY <2>3, OwnerSteps DEF RelayEmits, EmitAlways, Emit, Advance
  <2>4. CASE RelayReturns(r)
    BY <2>4, OwnerSteps DEF RelayReturns, Advance
  <2>5. CASE RelayCut(r)
    BY <2>5, OwnerSteps DEF RelayCut, Advance
  <2>. QED
    BY <1>4, <2>1, <2>2, <2>3, <2>4, <2>5 DEF RelayTask
<1>5. CASE Serve \/ Signal \/ Shutdown
  BY <1>5, OwnerSteps, OwnersKept
     DEF Serve, Signal, Shutdown, ServerStops, DropWriter, WriterJoined, GiveUp,
         MainStep, requestVars
<1>6. CASE Writer \/ Background
  BY <1>6, OwnersKept DEF Writer, Background, proxyVars, requestVars
<1>7. CASE Ended \/ UNCHANGED vars
  BY <1>7 DEF Ended, vars, pipelineVars, proxyVars, requestVars
<1>. QED
  BY <1>2, <1>3, <1>4, <1>5, <1>6, <1>7 DEF Next

\* Who owns a writer is always exactly known: no handler, cancelled or not, and no relay
\* leaves one behind, and none gives it up while it may still have a trace to submit.
THEOREM WritersKnown == Spec => []WritersAccounted
<1>1. Init => WritersAccounted
  BY ProxyAssumption
     DEF Init, Pipeline!Init, WritersAccounted
<1>2. TypeOK /\ TraceInv /\ WritersAccounted /\ [Next]_vars => WritersAccounted'
  BY WritersStep DEF TraceInv
<1>3. Init => TraceInv
  BY DEF Init, TraceInv, ExchangeInv, RecordMatchesReply, TraceDue
<1>4. TypeOK /\ TraceInv /\ [Next]_vars => TraceInv'
  BY TraceInvStep
<1>. QED
  BY <1>1, <1>2, <1>3, <1>4, ProxyTypeCorrect, PTL DEF Spec
================================================================================
