--------------------------- MODULE TracePipelineProofs ---------------------------
(****************************************************************************)
(* Theorems about TracePipeline, for every channel capacity, batch size, set *)
(* of handles, number of submissions and set of faults.                     *)
(****************************************************************************)
EXTENDS TracePipeline, SequenceTheorems, TLAPS

----------------------------------------------------------------------------
\* Sequences of records.

\* Taking the k oldest records off a sequence splits it.
LEMMA SplitAt ==
  ASSUME NEW S, NEW s \in Seq(S), NEW k \in 0 .. Len(s)
  PROVE  /\ SubSeq(s, 1, k) \in Seq(S)
         /\ Rest(s, k) \in Seq(S)
         /\ Len(SubSeq(s, 1, k)) = k
         /\ Len(Rest(s, k)) = Len(s) - k
         /\ SubSeq(s, 1, k) \o Rest(s, k) = s
<1>1. Len(s) \in Nat /\ \A i \in 1 .. Len(s) : s[i] \in S
  BY LenProperties, ElementOfSeq
<1>2. /\ SubSeq(s, 1, k) \in Seq(S)
      /\ Len(SubSeq(s, 1, k)) = k
  <2>1. \A i \in 1 .. k : s[i] \in S
    BY <1>1
  <2>. QED
    BY <1>1, <2>1, SubSeqProperties
<1>3. /\ Rest(s, k) \in Seq(S)
      /\ Len(Rest(s, k)) = Len(s) - k
  <2>1. \A i \in k + 1 .. Len(s) : s[i] \in S
    BY <1>1
  <2>. QED
    BY <1>1, <2>1, SubSeqProperties DEF Rest
<1>4. SubSeq(s, 1, k) \o Rest(s, k) = s
  <2>1. SubSeq(s, 1, k) \o SubSeq(s, k + 1, Len(s)) = SubSeq(s, 1, Len(s))
    <3>1. /\ 1 \in 1 .. Len(s) + 1
          /\ k \in 1 - 1 .. Len(s)
          /\ Len(s) \in k .. Len(s)
      BY <1>1
    <3>. QED
      BY <3>1, ConcatAdjacentSubSeq
  <2>. QED
    BY <2>1, SubSeqFull DEF Rest
<1>. QED
  BY <1>2, <1>3, <1>4

\* A sequence is a prefix of any extension of it.
LEMMA PrefixOfConcat ==
  ASSUME NEW S, NEW s \in Seq(S), NEW t \in Seq(S)
  PROVE  IsPrefix(s, s \o t)
<1>1. /\ s \o t \in Seq(S)
      /\ Len(s \o t) = Len(s) + Len(t)
      /\ Len(s) \in Nat /\ Len(t) \in Nat
      /\ \A i \in 1 .. Len(s) : (s \o t)[i] = s[i]
  BY ConcatProperties, LenProperties
<1>2. SubSeq(s \o t, 1, Len(s)) = SubSeq(s, 1, Len(s))
  <2>1. /\ \A i \in 1 .. Len(s) : s[i] \in S
        /\ \A i \in 1 .. Len(s) : (s \o t)[i] \in S
    BY <1>1, ElementOfSeq
  <2>2. /\ SubSeq(s, 1, Len(s)) \in Seq(S)
        /\ SubSeq(s \o t, 1, Len(s)) \in Seq(S)
        /\ Len(SubSeq(s, 1, Len(s))) = Len(s)
        /\ Len(SubSeq(s \o t, 1, Len(s))) = Len(s)
        /\ \A i \in 1 .. Len(s) : SubSeq(s, 1, Len(s))[i] = s[i]
        /\ \A i \in 1 .. Len(s) : SubSeq(s \o t, 1, Len(s))[i] = (s \o t)[i]
    BY <1>1, <2>1, SubSeqProperties
  <2>. QED
    BY <1>1, <2>2, SeqEqual
<1>. QED
  BY <1>1, <1>2 DEF IsPrefix

----------------------------------------------------------------------------
\* Type correctness.

\* main() is one of the parties that can own a handle.
LEMMA MainIsHandle == Main \in Handles
BY PipelineAssumption DEF PipelineAssumption

\* Every variable keeps the kind of value TypeOK states, in every behaviour.
THEOREM TypeCorrect == Spec => []TypeOK
<1>1. Init => TypeOK
  <2>1. <<>> \in Seq(Nat)
    BY EmptySeq
  <2> SUFFICES ASSUME Init PROVE TypeOK
    OBVIOUS
  <2>3. handles \subseteq Handles /\ incidents \subseteq Faults
    BY MainIsHandle DEF Init
  <2>4. queue \in Seq(Nat) /\ hand \in Seq(Nat) /\ buf \in Seq(Nat) /\ file \in Seq(Nat)
    BY <2>1 DEF Init
  <2>. QED
    BY <2>3, <2>4 DEF Init, TypeOK, Places
<1>2. TypeOK /\ [Next]_vars => TypeOK'
  <2> SUFFICES ASSUME TypeOK, [Next]_vars PROVE TypeOK'
    OBVIOUS
  <2> USE DEF TypeOK, Places
  <2>1. ASSUME NEW h \in Handles, Clone(h) PROVE TypeOK'
    BY <2>1 DEF Clone
  <2>2. ASSUME NEW h \in Handles, DropHandle(h) PROVE TypeOK'
    BY <2>2 DEF DropHandle
  <2>3. ASSUME NEW h \in Handles, SubmitAccepted(h) PROVE TypeOK'
    BY <2>3, AppendProperties DEF SubmitAccepted, HasRoom
  <2>4. ASSUME NEW h \in Handles, SubmitDropped(h) PROVE TypeOK'
    BY <2>4 DEF SubmitDropped, CountDrop
  <2>5. ASSUME NEW h \in Handles, SubmitRefused(h) PROVE TypeOK'
    BY <2>5 DEF SubmitRefused
  <2>6. CASE RecvTrace
    BY <2>6, HeadTailProperties DEF RecvTrace, TakeOldest, producerVars
  <2>7. CASE RecvClosed
    BY <2>7 DEF RecvClosed, Closed, producerVars
  <2>8. CASE Tick
    BY <2>8 DEF Tick, Unflushed, producerVars
  <2>9. CASE WriteOne
    BY <2>9, ConcatProperties DEF WriteOne, CountWrite, producerVars
  <2>10. CASE WriteFails
    BY <2>10, SplitAt, EmptySeq DEF WriteFails, producerVars
  <2>11. CASE Spill
    <3>1. PICK k \in 1 .. Len(buf) :
            file' = file \o SubSeq(buf, 1, k) /\ buf' = Rest(buf, k)
      BY <2>11 DEF Spill, PassOn
    <3>2. k \in 0 .. Len(buf)
      BY LenProperties
    <3>3. file' \in Seq(Nat) /\ buf' \in Seq(Nat)
      BY <3>1, <3>2, SplitAt, ConcatProperties
    <3>. QED
      BY <2>11, <3>3 DEF Spill, PassOn, producerVars
  <2>12. CASE Flush
    BY <2>12, ConcatProperties, EmptySeq DEF Flush, FlushBuffer, StartInterval, producerVars
  <2>13. CASE FlushFails
    <3>1. PICK k \in 1 .. Len(buf) : buf' = Rest(buf, k)
      BY <2>13 DEF FlushFails, StartInterval
    <3>2. k \in 0 .. Len(buf)
      BY LenProperties
    <3>3. buf' \in Seq(Nat)
      BY <3>1, <3>2, SplitAt
    <3>. QED
      BY <2>13, <3>3 DEF FlushFails, StartInterval, producerVars
  <2>14. CASE FinalFlush
    BY <2>14, ConcatProperties, EmptySeq DEF FinalFlush, FlushBuffer, producerVars
  <2>15. CASE FinalFlushFails
    BY <2>15, EmptySeq DEF FinalFlushFails, producerVars
  <2>16. CASE DeadlinePasses
    BY <2>16 DEF DeadlinePasses, producerVars
  <2>17. CASE DrainTimesOut
    BY <2>17, EmptySeq DEF DrainTimesOut, LoseMemory
  <2>18. CASE Crash
    BY <2>18, EmptySeq DEF Crash, LoseMemory
  <2>19. CASE Restart
    BY <2>19, MainIsHandle DEF Restart, StartInterval, OpenLog
  <2>20. CASE Ended
    BY <2>20 DEF Ended, vars
  <2>21. CASE UNCHANGED vars
    BY <2>21 DEF vars
  <2>. QED
    BY <2>1, <2>2, <2>3, <2>4, <2>5, <2>6, <2>7, <2>8, <2>9, <2>10, <2>11, <2>12,
       <2>13, <2>14, <2>15, <2>16, <2>17, <2>18, <2>19, <2>20, <2>21
       DEF Next, WriterStep, Submit
<1>. QED
  BY <1>1, <1>2, PTL DEF Spec

----------------------------------------------------------------------------
\* The bounds.

\* Both bounds are positive.
LEMMA Bounds == Capacity \in Nat \ {0} /\ FlushBatchSize \in Nat \ {0}
BY PipelineAssumption DEF PipelineAssumption

\* The lengths a step can change: what Rest, Append, Tail and \o do to them.
LEMMA Lengths ==
  ASSUME TypeOK
  PROVE  /\ Len(buf) \in Nat /\ Len(queue) \in Nat /\ Len(hand) \in Nat
         /\ Len(Append(queue, accepted + 1)) = Len(queue) + 1
         /\ queue # <<>> => Len(Tail(queue)) = Len(queue) - 1
         /\ Len(buf \o hand) = Len(buf) + Len(hand)
         /\ \A k \in 0 .. Len(buf) : Len(Rest(buf, k)) = Len(buf) - k
         /\ Len(<<>>) = 0
<1>1. /\ Len(buf) \in Nat /\ Len(queue) \in Nat /\ Len(hand) \in Nat
      /\ Len(<<>>) = 0
  BY LenProperties, EmptySeq DEF TypeOK
<1>2. Len(Append(queue, accepted + 1)) = Len(queue) + 1
  BY AppendProperties DEF TypeOK
<1>3. queue # <<>> => Len(Tail(queue)) = Len(queue) - 1
  BY HeadTailProperties DEF TypeOK
<1>4. Len(buf \o hand) = Len(buf) + Len(hand)
  BY ConcatProperties DEF TypeOK
<1>5. \A k \in 0 .. Len(buf) : Len(Rest(buf, k)) = Len(buf) - k
  BY SplitAt DEF TypeOK
<1>. QED
  BY <1>1, <1>2, <1>3, <1>4, <1>5

\* The invariant holds when spawn_pipeline returns.
LEMMA WriterInvInit == Init => WriterInv
<1>1. Len(<<>>) = 0
  BY EmptySeq
<1>. QED
  BY <1>1, Bounds DEF Init, WriterInv, Writing

\* Every step preserves the invariant.
LEMMA WriterInvStep == TypeOK /\ WriterInv /\ [Next]_vars => WriterInv'
<1> SUFFICES ASSUME TypeOK, WriterInv, [Next]_vars PROVE WriterInv'
  OBVIOUS
<1> USE Bounds, Lengths DEF WriterInv, Writing
<1>0. accepted \in Nat /\ refused \in Nat /\ sinceFlush \in Nat /\ pc \in Places
  BY DEF TypeOK
<1>1. ASSUME NEW h \in Handles, Clone(h) PROVE WriterInv'
  BY <1>1 DEF Clone
<1>2. ASSUME NEW h \in Handles, DropHandle(h) PROVE WriterInv'
  BY <1>2 DEF DropHandle
<1>3. ASSUME NEW h \in Handles, SubmitAccepted(h) PROVE WriterInv'
  BY <1>0, <1>3 DEF SubmitAccepted, HasRoom, CanSubmit
<1>4. ASSUME NEW h \in Handles, SubmitDropped(h) PROVE WriterInv'
  BY <1>4 DEF SubmitDropped, CountDrop
<1>5. ASSUME NEW h \in Handles, SubmitRefused(h) PROVE WriterInv'
  BY <1>0, <1>5 DEF SubmitRefused, CanSubmit, Places
<1>6. CASE RecvTrace
  BY <1>6 DEF RecvTrace, TakeOldest, producerVars
<1>7. CASE RecvClosed
  BY <1>7 DEF RecvClosed, Closed, producerVars
<1>8. CASE Tick
  BY <1>8 DEF Tick, Unflushed, producerVars
<1>9. CASE WriteOne
  <2>1. Len(hand) = 1 /\ sinceFlush < FlushBatchSize
    BY <1>9 DEF WriteOne, CountWrite
  <2>2. /\ Len(buf') = Len(buf) + 1
        /\ sinceFlush' = sinceFlush + 1
        /\ hand' = <<>>
    BY <2>1, <1>9 DEF WriteOne, CountWrite
  <2>3. IF sinceFlush' >= FlushBatchSize THEN pc' = "batch" ELSE pc' = "select"
    BY <1>9 DEF WriteOne, CountWrite
  <2>4. UNCHANGED <<handles, queue, refused, incidents>>
    BY <1>9 DEF WriteOne, CountWrite, producerVars
  <2>5. pc' # "write" /\ pc' \notin {"final", "done", "down"} /\ pc = "write"
    BY <2>3, <1>9 DEF WriteOne, CountWrite
  <2>. QED
    BY <1>0, <2>1, <2>2, <2>3, <2>4, <2>5
<1>10. CASE WriteFails
  BY <1>10 DEF WriteFails, producerVars
<1>11. CASE Spill
  BY <1>0, <1>11 DEF Spill, PassOn, producerVars
<1>12. CASE Flush
  BY <1>12 DEF Flush, FlushBuffer, StartInterval, producerVars
<1>13. CASE FlushFails
  BY <1>13 DEF FlushFails, StartInterval, producerVars
<1>14. CASE FinalFlush
  BY <1>0, <1>14 DEF FinalFlush, FlushBuffer, producerVars
<1>15. CASE FinalFlushFails
  BY <1>15 DEF FinalFlushFails, producerVars
<1>16. CASE DeadlinePasses
  BY <1>16 DEF DeadlinePasses, producerVars
<1>17. CASE DrainTimesOut
  BY <1>0, <1>17 DEF DrainTimesOut, LoseMemory
<1>18. CASE Crash
  BY <1>0, <1>18 DEF Crash, LoseMemory
<1>19. CASE Restart
  BY <1>19 DEF Restart, StartInterval, OpenLog
<1>20. CASE Ended
  BY <1>20 DEF Ended, vars
<1>21. CASE UNCHANGED vars
  BY <1>21 DEF vars
<1>. QED
  BY <1>1, <1>2, <1>3, <1>4, <1>5, <1>6, <1>7, <1>8, <1>9, <1>10, <1>11, <1>12,
     <1>13, <1>14, <1>15, <1>16, <1>17, <1>18, <1>19, <1>20, <1>21
     DEF Next, WriterStep, Submit

\* The inductive invariant holds in every behaviour.
THEOREM WriterInvariant == Spec => []WriterInv
BY TypeCorrect, WriterInvInit, WriterInvStep, PTL DEF Spec

\* What a crash can take is bounded by the channel and one batch.
THEOREM LossBounded == Spec => []LossBound
<1>1. TypeOK /\ WriterInv => LossBound
  <2> SUFFICES ASSUME TypeOK, WriterInv, "disk" \notin incidents
               PROVE  Len(Pending) <= Capacity + FlushBatchSize
    BY DEF LossBound
  <2>1. Len(Pending) = Len(buf) + Len(hand) + Len(queue)
    BY ConcatProperties, LenProperties DEF Pending, TypeOK
  <2>2. Len(buf) + Len(hand) <= FlushBatchSize
    <3>1. CASE pc = "write"
      <4>1. Len(hand) = 1 /\ sinceFlush < FlushBatchSize /\ Len(buf) <= sinceFlush
        BY <3>1 DEF WriterInv
      <4>2. sinceFlush \in Nat
        BY DEF TypeOK
      <4>. QED
        BY <4>1, <4>2, Lengths, Bounds
    <3>2. CASE pc # "write"
      <4>1. Len(hand) = 0
        BY <3>2, Lengths DEF WriterInv
      <4>2. Len(buf) <= sinceFlush
        BY DEF WriterInv
      <4>. QED
        BY <4>1, <4>2, Lengths, Bounds DEF WriterInv, TypeOK
    <3>. QED
      BY <3>1, <3>2
  <2>. QED
    BY <2>1, <2>2, Lengths, Bounds DEF WriterInv
<1>. QED
  BY <1>1, TypeCorrect, WriterInvariant, PTL

\* A producer finds the channel closed only while the runtime is being torn down.
THEOREM NoRefusal == Spec => []NoRefusalWhileRunning
<1>1. WriterInv => NoRefusalWhileRunning
  BY DEF WriterInv, NoRefusalWhileRunning
<1>. QED
  BY <1>1, WriterInvariant, PTL

----------------------------------------------------------------------------
\* The pipeline implements TraceLog.

\* The record at the head of a queue goes into the writer's hands: nothing moves.
LEMMA HeadThenTail ==
  ASSUME NEW S, NEW s \in Seq(S), s # <<>>
  PROVE  <<Head(s)>> \o Tail(s) = s
<1>1. Len(s) \in Nat \ {0} /\ s \in [1 .. Len(s) -> S]
  BY EmptySeq, LenProperties
<1>2. SubSeq(s, 1, Len(s)) = <<s[1]>> \o SubSeq(s, 1 + 1, Len(s))
  BY <1>1, SubSeqRecursiveFirst
<1>3. SubSeq(s, 1, Len(s)) = s /\ Tail(s) = SubSeq(s, 2, Len(s))
  BY SubSeqFull, TailIsSubSeq
<1>4. Head(s) = s[1]
  BY <1>1
<1>. QED
  BY <1>2, <1>3, <1>4

\* A new record at the end of the queue is a new record at the end of what is pending.
LEMMA ConcatAppend ==
  ASSUME NEW S, NEW s \in Seq(S), NEW t \in Seq(S), NEW e \in S
  PROVE  s \o Append(t, e) = Append(s \o t, e)
<1>1. <<e>> \in Seq(S) /\ s \o t \in Seq(S)
  BY ConcatProperties
<1>2. Append(t, e) = t \o <<e>> /\ Append(s \o t, e) = (s \o t) \o <<e>>
  BY <1>1, AppendIsConcat
<1>. QED
  BY <1>1, <1>2, ConcatAssociative

\* A run within the first of two concatenated sequences, and the whole second one.
LEMMA RunsOfConcat ==
  ASSUME NEW S, NEW s \in Seq(S), NEW t \in Seq(S), NEW k \in 0 .. Len(s)
  PROVE  /\ SubSeq(s \o t, 1, k) = SubSeq(s, 1, k)
         /\ SubSeq(s \o t, k + 1, Len(s)) = Rest(s, k)
         /\ SubSeq(s \o t, Len(s) + 1, Len(s \o t)) = t
         /\ Rest(s \o t, k) = Rest(s, k) \o t
<1> DEFINE u == s \o t
<1>1. /\ u \in Seq(S) /\ Len(s) \in Nat /\ Len(t) \in Nat
      /\ Len(u) = Len(s) + Len(t)
      /\ \A i \in 1 .. Len(s) : u[i] = s[i] /\ u[i] \in S /\ s[i] \in S
      /\ \A i \in 1 .. Len(t) : u[Len(s) + i] = t[i] /\ t[i] \in S
      /\ \A i \in 1 .. Len(u) : u[i] \in S
  <2>1. /\ u \in Seq(S) /\ Len(s) \in Nat /\ Len(t) \in Nat
        /\ Len(u) = Len(s) + Len(t)
        /\ \A i \in 1 .. Len(s) + Len(t) :
             u[i] = IF i <= Len(s) THEN s[i] ELSE t[i - Len(s)]
    BY ConcatProperties, LenProperties
  <2>2. /\ \A i \in 1 .. Len(s) : s[i] \in S
        /\ \A i \in 1 .. Len(t) : t[i] \in S
        /\ \A i \in 1 .. Len(u) : u[i] \in S
    BY <2>1, ElementOfSeq
  <2>3. \A i \in 1 .. Len(t) : u[Len(s) + i] = t[i]
    BY <2>1
  <2>. QED
    BY <2>1, <2>2, <2>3
<1> HIDE DEF u
<1>2. SubSeq(u, 1, k) = SubSeq(s, 1, k)
  <2>1. /\ SubSeq(u, 1, k) \in Seq(S) /\ SubSeq(s, 1, k) \in Seq(S)
        /\ Len(SubSeq(u, 1, k)) = k /\ Len(SubSeq(s, 1, k)) = k
        /\ \A i \in 1 .. k : SubSeq(u, 1, k)[i] = u[i] /\ SubSeq(s, 1, k)[i] = s[i]
    BY <1>1, SubSeqProperties
  <2>. QED
    BY <1>1, <2>1, SeqEqual
<1>3. SubSeq(u, k + 1, Len(s)) = Rest(s, k)
  <2>1. /\ SubSeq(u, k + 1, Len(s)) \in Seq(S) /\ Rest(s, k) \in Seq(S)
        /\ Len(SubSeq(u, k + 1, Len(s))) = Len(s) - k
        /\ Len(Rest(s, k)) = Len(s) - k
        /\ \A i \in 1 .. Len(s) - k : /\ SubSeq(u, k + 1, Len(s))[i] = u[k + i]
                                      /\ Rest(s, k)[i] = s[k + i]
    BY <1>1, SubSeqProperties DEF Rest
  <2>. QED
    BY SMTT(30), <1>1, <2>1, SeqEqual
<1>4. SubSeq(u, Len(s) + 1, Len(u)) = t
  <2>1. /\ SubSeq(u, Len(s) + 1, Len(u)) \in Seq(S)
        /\ Len(SubSeq(u, Len(s) + 1, Len(u))) = Len(t)
        /\ \A i \in 1 .. Len(t) : SubSeq(u, Len(s) + 1, Len(u))[i] = u[Len(s) + i]
    BY <1>1, SubSeqProperties
  <2>. QED
    BY <1>1, <2>1, SeqEqual
<1>5. Rest(u, k) = Rest(s, k) \o t
  <2>1. /\ k + 1 \in 1 .. Len(u) + 1
        /\ Len(s) \in (k + 1) - 1 .. Len(u)
        /\ Len(u) \in Len(s) .. Len(u)
    BY <1>1
  <2>2. SubSeq(u, k + 1, Len(s)) \o SubSeq(u, Len(s) + 1, Len(u)) = SubSeq(u, k + 1, Len(u))
    BY <1>1, <2>1, ConcatAdjacentSubSeq
  <2>. QED
    BY <1>3, <1>4, <2>2 DEF Rest
<1>. QED
  BY <1>2, <1>3, <1>4, <1>5 DEF u

\* The shapes the moves take on what is pending.
LEMMA PendingShape ==
  ASSUME TypeOK
  PROVE  /\ Pending \in Seq(Nat)
         /\ buf \o hand \in Seq(Nat)
         /\ hand \o queue \in Seq(Nat)
         /\ Pending = buf \o (hand \o queue)
         /\ Len(Pending) = Len(buf) + Len(hand) + Len(queue)
<1>1. buf \in Seq(Nat) /\ hand \in Seq(Nat) /\ queue \in Seq(Nat)
  BY DEF TypeOK
<1>2. Pending = (buf \o hand) \o queue
  BY DEF Pending
<1>3. (buf \o hand) \o queue = buf \o (hand \o queue)
  BY SMTT(30), <1>1, ConcatAssociative
<1>4. /\ buf \o hand \in Seq(Nat) /\ Len(buf \o hand) = Len(buf) + Len(hand)
      /\ hand \o queue \in Seq(Nat)
  BY <1>1, ConcatProperties
<1>5. /\ (buf \o hand) \o queue \in Seq(Nat)
      /\ Len((buf \o hand) \o queue) = Len(buf \o hand) + Len(queue)
  BY <1>1, <1>4, ConcatProperties
<1>. QED
  BY <1>2, <1>3, <1>4, <1>5

\* Everything that was pending is lost.
LEMMA LoseAll ==
  ASSUME TypeOK, Pending' = <<>>, UNCHANGED <<accepted, file>>, Faults # {}
  PROVE  Log!Lose
<1>1. Len(Pending) \in Nat /\ Pending \in Seq(Nat)
  BY PendingShape, LenProperties
<1> DEFINE n == Len(Pending)
<1>2. /\ n \in 0 .. n
      /\ n + 1 \in n + 1 .. n + 1
      /\ n <= n
  BY <1>1
<1>3. SubSeq(Pending, n + 1, n) = <<>>
  BY <1>1, SubSeqEmpty
<1>4. Pending' = SubSeq(Pending, n + 1, n) \o SubSeq(Pending, n + 1, n)
  BY <1>3, ConcatEmptySeq, EmptySeq
<1>. QED
  BY <1>2, <1>4 DEF Log!Lose

\* Grouping of three runs of records.
LEMMA Grouping ==
  \A r, s, t \in Seq(Nat) : (r \o s) \o t = r \o (s \o t)
BY SMTT(30), ConcatAssociative

\* A flush, or a spill of the k oldest records, is a step of Persist.
LEMMA PersistPrefix ==
  ASSUME TypeOK, NEW k \in 1 .. Len(buf),
         file' = file \o SubSeq(buf, 1, k),
         Pending' = Rest(buf, k) \o (hand \o queue),
         UNCHANGED accepted
  PROVE  Log!Persist
<1>1. buf \in Seq(Nat) /\ Len(buf) \in Nat /\ k \in 0 .. Len(buf)
  BY LenProperties DEF TypeOK
<1>2. SubSeq(Pending, 1, k) = SubSeq(buf, 1, k) /\ Pending' = Rest(Pending, k)
  <2> DEFINE rest == hand \o queue
  <2>1. Pending = buf \o rest /\ rest \in Seq(Nat) /\ Pending' = Rest(buf, k) \o rest
    BY PendingShape
  <2> HIDE DEF rest
  <2>2. SubSeq(buf \o rest, 1, k) = SubSeq(buf, 1, k)
    BY <1>1, <2>1, RunsOfConcat
  <2>3. Rest(buf \o rest, k) = Rest(buf, k) \o rest
    BY SMTT(30), <1>1, <2>1, RunsOfConcat
  <2>. QED
    BY <2>1, <2>2, <2>3
<1>3. k \in 1 .. Len(Pending)
  BY <1>1, PendingShape, LenProperties DEF TypeOK
<1>. QED
  BY <1>2, <1>3 DEF Log!Persist, Rest

\* Flushing the whole buffer while no record is in hand.
LEMMA PersistAll ==
  ASSUME TypeOK, hand = <<>>, hand' = <<>>, file' = file \o buf, buf' = <<>>,
         UNCHANGED <<accepted, queue>>
  PROVE  Log!Persist \/ UNCHANGED <<accepted, Pending, file>>
<1>1. buf \in Seq(Nat) /\ queue \in Seq(Nat) /\ <<>> \in Seq(Nat) /\ file \in Seq(Nat)
  BY EmptySeq DEF TypeOK
<1>2. Pending' = queue /\ hand \o queue = queue
  BY <1>1, ConcatEmptySeq DEF Pending
<1>3. CASE buf = <<>>
  BY <1>1, <1>2, <1>3, ConcatEmptySeq DEF Pending
<1>4. CASE buf # <<>>
  <2>1. Len(buf) \in 1 .. Len(buf) /\ Len(buf) \in Nat
    BY <1>1, <1>4, EmptySeq
  <2>2. SubSeq(buf, 1, Len(buf)) = buf /\ Rest(buf, Len(buf)) = <<>>
    BY <1>1, <2>1, SubSeqFull, SubSeqEmpty DEF Rest
  <2>3. Pending' = Rest(buf, Len(buf)) \o (hand \o queue)
    BY <1>1, <1>2, <2>2, ConcatEmptySeq
  <2>. QED
    BY <2>1, <2>2, <2>3, PersistPrefix
<1>. QED
  BY <1>3, <1>4

\* A disk error takes the k oldest records of the buffer and the record in hand.
LEMMA LosePrefix ==
  ASSUME TypeOK, NEW k \in 0 .. Len(buf),
         Pending' = Rest(buf, k) \o queue,
         UNCHANGED <<accepted, file>>, Faults # {}
  PROVE  Log!Lose
<1> DEFINE b == Len(buf)
           n == Len(buf \o hand)
<1>1. /\ b \in Nat /\ n \in Nat /\ b <= n /\ n = b + Len(hand)
      /\ buf \in Seq(Nat) /\ hand \in Seq(Nat) /\ queue \in Seq(Nat)
      /\ Len(Pending) \in Nat
      /\ n <= Len(Pending)
  BY PendingShape, ConcatProperties, LenProperties DEF TypeOK
<1>2. SubSeq(Pending, k + 1, b) = Rest(buf, k)
  BY <1>1, PendingShape, RunsOfConcat
<1>3. SubSeq(Pending, n + 1, Len(Pending)) = queue
  <2>1. n \in 0 .. Len(buf \o hand)
    BY <1>1
  <2>. QED
    BY <1>1, <2>1, PendingShape, RunsOfConcat DEF Pending
<1>4. /\ k \in 0 .. Len(Pending)
      /\ b \in 0 .. Len(Pending)
      /\ n + 1 \in b + 1 .. Len(Pending) + 1
      /\ k <= b
  BY <1>1
<1>5. Pending' = SubSeq(Pending, k + 1, b) \o SubSeq(Pending, n + 1, Len(Pending))
  BY <1>2, <1>3
<1> HIDE DEF b, n
<1>. QED
  BY <1>4, <1>5 DEF Log!Lose

\* Every step of the pipeline is a step of TraceLog or leaves its state alone, and
\* records are lost only in a step that records an incident.
LEMMA Simulation ==
  ASSUME TypeOK, WriterInv, Next
  PROVE  \/ Log!Accept
         \/ Log!Persist
         \/ Log!Lose /\ incidents' # {}
         \/ UNCHANGED <<accepted, Pending, file>>
<1> DEFINE Still == UNCHANGED <<accepted, Pending, file>>
           Goal == Log!Accept \/ Log!Persist \/ (Log!Lose /\ incidents' # {}) \/ Still
<1>1. ASSUME NEW h \in Handles, Clone(h) PROVE Goal
  BY <1>1 DEF Clone, Pending
<1>2. ASSUME NEW h \in Handles, DropHandle(h) PROVE Goal
  BY <1>2 DEF DropHandle, Pending
<1>3. ASSUME NEW h \in Handles, SubmitAccepted(h) PROVE Goal
  <2>1. Pending' = (buf \o hand) \o Append(queue, accepted + 1)
    BY <1>3 DEF SubmitAccepted, HasRoom, Pending
  <2>2. Pending' = Append(Pending, accepted')
    BY SMTT(30), <1>3, <2>1, PendingShape, ConcatAppend
       DEF SubmitAccepted, HasRoom, Pending, TypeOK
  <2>. QED
    BY <1>3, <2>2 DEF SubmitAccepted, HasRoom, Log!Accept
<1>4. ASSUME NEW h \in Handles, SubmitDropped(h) PROVE Goal
  BY <1>4 DEF SubmitDropped, CountDrop, Pending
<1>5. ASSUME NEW h \in Handles, SubmitRefused(h) PROVE Goal
  BY <1>5 DEF SubmitRefused, Pending
<1>6. CASE RecvTrace
  <2>1. hand = <<>> /\ queue # <<>>
    BY <1>6 DEF RecvTrace, TakeOldest, WriterInv
  <2>2. hand \o queue = queue /\ hand' \o queue' = queue
    BY <1>6, <2>1, HeadThenTail, ConcatEmptySeq DEF RecvTrace, TakeOldest, TypeOK
  <2>3. Pending' = buf \o (hand' \o queue')
    <3>1. hand' \in Seq(Nat) /\ queue' \in Seq(Nat) /\ buf' = buf
      BY <1>6, HeadTailProperties DEF RecvTrace, TakeOldest, TypeOK
    <3>2. Pending' = (buf \o hand') \o queue'
      BY <3>1 DEF Pending
    <3>3. buf \in Seq(Nat)
      BY DEF TypeOK
    <3>4. (buf \o hand') \o queue' = buf \o (hand' \o queue')
      BY SMTT(30), <3>1, <3>3, ConcatAssociative
    <3>. QED
      BY <3>2, <3>4
  <2>. QED
    BY <1>6, <2>2, <2>3, PendingShape DEF RecvTrace, TakeOldest, producerVars
<1>7. CASE RecvClosed
  BY <1>7 DEF RecvClosed, Closed, producerVars, Pending
<1>8. CASE Tick
  BY <1>8 DEF Tick, Unflushed, producerVars, Pending
<1>9. CASE WriteOne
  <2>1. Pending' = (buf \o hand) \o <<>> \o queue
    BY <1>9 DEF WriteOne, CountWrite, Pending
  <2>2. Pending' = Pending
    BY <2>1, PendingShape, ConcatEmptySeq DEF Pending
  <2>. QED
    BY <1>9, <2>2 DEF WriteOne, CountWrite, producerVars
<1>10. CASE WriteFails
  <2>1. PICK k \in 0 .. Len(buf) : buf' = Rest(buf, k)
    BY <1>10 DEF WriteFails
  <2>2. Pending' = Rest(buf, k) \o queue
    <3>1. Rest(buf, k) \in Seq(Nat)
      BY SplitAt DEF TypeOK
    <3>. QED
      BY <1>10, <2>1, <3>1, ConcatEmptySeq DEF WriteFails, Pending
  <2>3. UNCHANGED <<accepted, file>> /\ Faults # {} /\ incidents' # {}
    BY <1>10 DEF WriteFails, producerVars
  <2>. QED
    BY <2>2, <2>3, LosePrefix
<1>11. CASE Spill
  <2>1. PICK k \in 1 .. Len(buf) :
          file' = file \o SubSeq(buf, 1, k) /\ buf' = Rest(buf, k)
    BY <1>11 DEF Spill, PassOn
  <2>2. UNCHANGED <<accepted, hand, queue>>
    BY <1>11 DEF Spill, PassOn, producerVars
  <2>3. Pending' = Rest(buf, k) \o (hand \o queue)
    <3> DEFINE rest == Rest(buf, k)
    <3>1. rest \in Seq(Nat)
      BY SplitAt, LenProperties DEF TypeOK
    <3>2. Pending' = (rest \o hand) \o queue
      BY <2>1, <2>2 DEF Pending
    <3>3. hand \in Seq(Nat) /\ queue \in Seq(Nat)
      BY DEF TypeOK
    <3> HIDE DEF rest
    <3>4. (rest \o hand) \o queue = rest \o (hand \o queue)
      BY <3>1, <3>3, Grouping
    <3>. QED
      BY <3>2, <3>4 DEF rest
  <2>. QED
    BY <2>1, <2>2, <2>3, PersistPrefix
<1>12. CASE Flush
  BY <1>12, PersistAll DEF Flush, FlushBuffer, StartInterval, producerVars, WriterInv
<1>13. CASE FlushFails
  <2>1. PICK k \in 1 .. Len(buf) : buf' = Rest(buf, k)
    BY <1>13 DEF FlushFails, StartInterval
  <2>2. hand = <<>> /\ UNCHANGED <<accepted, hand, queue, file>> /\ k \in 0 .. Len(buf)
    BY <1>13, LenProperties DEF FlushFails, StartInterval, producerVars, WriterInv, TypeOK
  <2>3. Pending' = Rest(buf, k) \o queue
    <3>1. Rest(buf, k) \in Seq(Nat)
      BY <2>2, SplitAt DEF TypeOK
    <3>. QED
      BY <2>1, <2>2, <3>1, ConcatEmptySeq DEF Pending
  <2>4. Faults # {} /\ incidents' # {}
    BY <1>13 DEF FlushFails, StartInterval
  <2>. QED
    BY <2>2, <2>3, <2>4, LosePrefix
<1>14. CASE FinalFlush
  BY <1>14, PersistAll DEF FinalFlush, FlushBuffer, producerVars, WriterInv
<1>15. CASE FinalFlushFails
  <2>1. Pending' = <<>>
    BY <1>15, EmptySeq, ConcatEmptySeq DEF FinalFlushFails, Pending, WriterInv
  <2>. QED
    BY <1>15, <2>1, LoseAll DEF FinalFlushFails, producerVars
<1>16. CASE DeadlinePasses
  BY <1>16 DEF DeadlinePasses, producerVars, Pending
<1>17. CASE DrainTimesOut
  <2>1. Pending' = <<>>
    BY <1>17, EmptySeq, ConcatEmptySeq DEF DrainTimesOut, LoseMemory, Pending
  <2>. QED
    BY <1>17, <2>1, LoseAll DEF DrainTimesOut
<1>18. CASE Crash
  <2>1. Pending' = <<>>
    BY <1>18, EmptySeq, ConcatEmptySeq DEF Crash, LoseMemory, Pending
  <2>. QED
    BY <1>18, <2>1, LoseAll DEF Crash
<1>19. CASE Restart
  BY <1>19 DEF Restart, StartInterval, OpenLog, Pending
<1>20. CASE Ended
  BY <1>20 DEF Ended, vars, Pending
<1>. QED
  BY <1>1, <1>2, <1>3, <1>4, <1>5, <1>6, <1>7, <1>8, <1>9, <1>10, <1>11, <1>12,
     <1>13, <1>14, <1>15, <1>16, <1>17, <1>18, <1>19, <1>20
     DEF Next, WriterStep, Submit

\* The pipeline implements the abstract log: records wait, move to the file in order,
\* and are lost only where faults are possible.
THEOREM Refinement == Spec => ImplementsTraceLog
<1>1. Init => Log!Init
  BY EmptySeq, ConcatEmptySeq DEF Init, Log!Init, Pending
<1>2. TypeOK /\ WriterInv /\ [Next]_vars => [Log!Next]_(Log!logVars)
  <2>1. CASE UNCHANGED vars
    BY <2>1 DEF vars, Log!logVars, Pending
  <2>2. ASSUME TypeOK, WriterInv, Next PROVE [Log!Next]_(Log!logVars)
    BY <2>2, Simulation DEF Log!Next, Log!logVars
  <2>. QED
    BY <2>1, <2>2
<1>. QED
  BY <1>1, <1>2, TypeCorrect, WriterInvariant, PTL DEF Spec, ImplementsTraceLog, Log!Spec

----------------------------------------------------------------------------
\* The file only grows.

\* What a step of TraceLog does to the file and what is pending, taken together.
LEMMA PersistKeepsAll ==
  ASSUME TypeOK, Log!Persist
  PROVE  /\ file' \o Pending' = file \o Pending
         /\ IsPrefix(file, file')
         /\ UNCHANGED accepted
<1>1. Pending \in Seq(Nat) /\ file \in Seq(Nat) /\ Len(Pending) \in Nat
  BY PendingShape, LenProperties DEF TypeOK
<1>2. PICK k \in 1 .. Len(Pending) :
        /\ file' = file \o SubSeq(Pending, 1, k)
        /\ Pending' = Rest(Pending, k)
        /\ UNCHANGED accepted
  BY DEF Log!Persist, Rest
<1> DEFINE front == SubSeq(Pending, 1, k)
           back == Rest(Pending, k)
<1>3. front \in Seq(Nat) /\ back \in Seq(Nat) /\ front \o back = Pending
  <2>1. k \in 0 .. Len(Pending)
    BY <1>1
  <2>. QED
    BY <1>1, <2>1, SplitAt
<1>4. file' = file \o front /\ Pending' = back
  BY <1>2
<1> HIDE DEF front, back
<1>5. (file \o front) \o back = file \o (front \o back)
  BY <1>1, <1>3, Grouping
<1>6. IsPrefix(file, file \o front)
  BY <1>1, <1>3, PrefixOfConcat
<1>. QED
  BY <1>2, <1>3, <1>4, <1>5, <1>6

\* Lines are only ever appended to the file, through losses, crashes and restarts.
THEOREM AppendOnly == Spec => FileAppendOnly
<1>1. ASSUME TypeOK, WriterInv, [Next]_vars PROVE IsPrefix(file, file') \/ UNCHANGED vars
  <2>1. file \in Seq(Nat)
    BY <1>1 DEF TypeOK
  <2>2. IsPrefix(file, file)
    <3>1. <<>> \in Seq(Nat) /\ file \o <<>> = file
      BY <2>1, ConcatEmptySeq, EmptySeq
    <3>2. IsPrefix(file, file \o <<>>)
      BY <2>1, <3>1, PrefixOfConcat
    <3>. QED
      BY <3>1, <3>2
  <2>3. CASE Next
    <3>1. CASE Log!Persist
      BY <1>1, <3>1, PersistKeepsAll
    <3>2. CASE UNCHANGED file
      BY <2>2, <3>2
    <3>. QED
      BY <1>1, <2>3, <3>1, <3>2, Simulation DEF Log!Accept, Log!Lose
  <2>. QED
    BY <1>1, <2>3
<1>2. TypeOK /\ WriterInv /\ [Next]_vars => [IsPrefix(file, file')]_vars
  BY <1>1
<1>. QED
  BY <1>2, TypeCorrect, WriterInvariant, PTL DEF Spec, FileAppendOnly

----------------------------------------------------------------------------
\* Nothing is lost, duplicated or reordered.

\* Where position i of a sequence comes from when, after the first m elements, the
\* runs m+1 .. m+f and m+l+1 .. m+n-1 are left out.
Source(i, m, f, l, n) ==
  IF i <= m THEN i
  ELSE IF i <= m + (l - f) THEN i + f
  ELSE i - (l - f) + (n - 1)

\* Positions picked in increasing order pick increasing records.
LEMMA SourceIncreasing ==
  ASSUME NEW m \in Nat, NEW f \in Nat, NEW l \in Nat, NEW n \in Nat, NEW q \in Nat,
         f <= l, l < n, n <= q + 1
  PROVE  /\ \A i \in 1 .. m + (l - f) + (q - n + 1) : Source(i, m, f, l, n) \in 1 .. m + q
         /\ \A i, j \in 1 .. m + (l - f) + (q - n + 1) :
              i < j => Source(i, m, f, l, n) < Source(j, m, f, l, n)
BY DEF Source

\* A concatenation, position by position.
LEMMA ConcatAt ==
  ASSUME NEW s \in Seq(Nat), NEW t \in Seq(Nat)
  PROVE  /\ s \o t \in Seq(Nat) /\ Len(s) \in Nat /\ Len(t) \in Nat
         /\ Len(s \o t) = Len(s) + Len(t)
         /\ \A i \in 1 .. Len(s) : (s \o t)[i] = s[i]
         /\ \A i \in 1 .. Len(t) : (s \o t)[Len(s) + i] = t[i]
<1>1. /\ s \o t \in Seq(Nat) /\ Len(s) \in Nat /\ Len(t) \in Nat
      /\ Len(s \o t) = Len(s) + Len(t)
      /\ \A i \in 1 .. Len(s) + Len(t) :
           (s \o t)[i] = IF i <= Len(s) THEN s[i] ELSE t[i - Len(s)]
  BY ConcatProperties, LenProperties
<1>2. \A i \in 1 .. Len(s) : (s \o t)[i] = s[i]
  BY <1>1
<1>3. ASSUME NEW i \in 1 .. Len(t) PROVE (s \o t)[Len(s) + i] = t[i]
  <2>1. /\ Len(s) + i \in 1 .. Len(s) + Len(t)
        /\ ~(Len(s) + i <= Len(s))
        /\ (Len(s) + i) - Len(s) = i
    BY <1>1
  <2>. QED
    BY <1>1, <2>1
<1>. QED
  BY <1>1, <1>2, <1>3

\* A run of a sequence, position by position.
LEMMA RunAt ==
  ASSUME NEW s \in Seq(Nat), NEW m \in Nat, NEW n \in 0 .. Len(s), m <= n
  PROVE  /\ SubSeq(s, m + 1, n) \in Seq(Nat)
         /\ Len(SubSeq(s, m + 1, n)) = n - m
         /\ \A i \in 1 .. n - m : SubSeq(s, m + 1, n)[i] = s[m + i]
<1>1. Len(s) \in Nat /\ n \in Nat /\ \A i \in 1 .. Len(s) : s[i] \in Nat
  BY LenProperties, ElementOfSeq
<1>2. \A i \in m + 1 .. n : s[i] \in Nat
  BY <1>1
<1>3. /\ SubSeq(s, m + 1, n) \in Seq(Nat)
      /\ Len(SubSeq(s, m + 1, n)) = IF m + 1 <= n THEN n - (m + 1) + 1 ELSE 0
      /\ \A i \in 1 .. n - (m + 1) + 1 : SubSeq(s, m + 1, n)[i] = s[(m + 1) + i - 1]
  BY <1>1, <1>2, SubSeqProperties
<1>4. /\ n - (m + 1) + 1 = n - m
      /\ (IF m + 1 <= n THEN n - (m + 1) + 1 ELSE 0) = n - m
      /\ \A i \in 1 .. n - m : (m + 1) + i - 1 = m + i
  BY <1>1
<1>. QED
  BY <1>3, <1>4

\* Records in increasing order stay so when two runs of them are left out.
LEMMA RunsStayIncreasing ==
  ASSUME NEW s \in Seq(Nat), NEW p \in Seq(Nat), NEW n \in Nat,
         IncreasingUpTo(s \o p, n),
         NEW first \in 0 .. Len(p), NEW last \in 0 .. Len(p), first <= last,
         NEW next \in last + 1 .. Len(p) + 1
  PROVE  IncreasingUpTo(s \o (SubSeq(p, first + 1, last) \o SubSeq(p, next, Len(p))), n)
<1> DEFINE a == SubSeq(p, first + 1, last)
           b == SubSeq(p, next, Len(p))
           all == s \o p
           kept == s \o (a \o b)
           m == Len(s)
           q == Len(p)
           at(i) == Source(i, m, first, last, next)
<1>1. m \in Nat /\ q \in Nat /\ first \in Nat /\ last \in Nat /\ next \in Nat
      /\ last < next /\ next <= q + 1 /\ last <= q
  BY LenProperties
<1>2. /\ a \in Seq(Nat) /\ Len(a) = last - first
      /\ \A i \in 1 .. last - first : a[i] = p[first + i]
  BY <1>1, RunAt
<1>3. /\ b \in Seq(Nat) /\ Len(b) = q - next + 1
      /\ \A i \in 1 .. q - next + 1 : b[i] = p[(next - 1) + i]
  <2>1. next - 1 \in Nat /\ q \in 0 .. Len(p) /\ next - 1 <= q
    BY <1>1
  <2>2. /\ SubSeq(p, (next - 1) + 1, q) \in Seq(Nat)
        /\ Len(SubSeq(p, (next - 1) + 1, q)) = q - (next - 1)
        /\ \A i \in 1 .. q - (next - 1) :
             SubSeq(p, (next - 1) + 1, q)[i] = p[(next - 1) + i]
    BY <2>1, RunAt
  <2>3. (next - 1) + 1 = next /\ q - (next - 1) = q - next + 1
    BY <1>1
  <2>. QED
    BY <2>2, <2>3
<1>4. /\ Len(all) = m + q
      /\ \A i \in 1 .. m : all[i] = s[i]
      /\ \A i \in 1 .. q : all[m + i] = p[i]
  BY ConcatAt
<1> HIDE DEF a, b
<1>5. /\ a \o b \in Seq(Nat)
      /\ Len(a \o b) = (last - first) + (q - next + 1)
      /\ \A i \in 1 .. last - first : (a \o b)[i] = a[i]
      /\ \A i \in 1 .. q - next + 1 : (a \o b)[(last - first) + i] = b[i]
  <2>1. /\ a \o b \in Seq(Nat) /\ Len(a \o b) = Len(a) + Len(b)
        /\ \A i \in 1 .. Len(a) : (a \o b)[i] = a[i]
        /\ \A i \in 1 .. Len(b) : (a \o b)[Len(a) + i] = b[i]
    BY <1>2, <1>3, ConcatAt
  <2>2. Len(a) = last - first /\ Len(b) = q - next + 1
    BY <1>2, <1>3
  <2> HIDE DEF q
  <2>. QED
    BY <2>1, <2>2
<1> DEFINE ab == a \o b
<1>6. /\ Len(kept) = m + Len(ab)
      /\ \A i \in 1 .. m : kept[i] = s[i]
      /\ \A i \in 1 .. Len(ab) : kept[m + i] = ab[i]
  <2> HIDE DEF ab
  <2>1. ab \in Seq(Nat)
    BY <1>5 DEF ab
  <2>2. kept = s \o ab
    BY DEF ab
  <2> HIDE DEF kept
  <2>. QED
    BY <2>1, <2>2, ConcatAt
<1> HIDE DEF all, kept, ab, m, q
<1>7. Len(kept) = m + (last - first) + (q - next + 1)
  BY <1>1, <1>5, <1>6 DEF ab
<1>8. /\ \A i \in 1 .. Len(kept) : at(i) \in 1 .. Len(all)
      /\ \A i, j \in 1 .. Len(kept) : i < j => at(i) < at(j)
  <2>1. /\ \A i \in 1 .. m + (last - first) + (q - next + 1) :
             Source(i, m, first, last, next) \in 1 .. m + q
        /\ \A i, j \in 1 .. m + (last - first) + (q - next + 1) :
             i < j => Source(i, m, first, last, next) < Source(j, m, first, last, next)
    BY <1>1, SourceIncreasing
  <2>. QED
    BY <1>4, <1>7, <2>1
<1>9. ASSUME NEW i \in 1 .. Len(kept) PROVE kept[i] = all[at(i)]
  <2>1. CASE i <= m
    <3>1. i \in 1 .. m /\ at(i) = i
      BY <2>1, <1>1, <1>7 DEF Source
    <3>. QED
      BY <3>1, <1>4, <1>6
  <2>2. CASE m < i /\ i <= m + (last - first)
    <3> DEFINE j == i - m
    <3>1. /\ j \in 1 .. last - first /\ i = m + j /\ at(i) = m + (first + j)
          /\ j \in 1 .. Len(ab) /\ first + j \in 1 .. q
      BY <2>2, <1>1, <1>5, <1>7 DEF Source, ab
    <3> HIDE DEF j
    <3>2. kept[i] = ab[j] /\ ab[j] = a[j] /\ a[j] = p[first + j]
      BY <3>1, <1>2, <1>5, <1>6 DEF ab
    <3>3. all[at(i)] = p[first + j]
      BY <3>1, <1>4
    <3>. QED
      BY <3>2, <3>3
  <2>3. CASE m + (last - first) < i
    <3> DEFINE j == i - m - (last - first)
    <3>1. /\ j \in 1 .. q - next + 1 /\ i = m + ((last - first) + j)
          /\ at(i) = m + ((next - 1) + j)
          /\ (last - first) + j \in 1 .. Len(ab) /\ (next - 1) + j \in 1 .. q
      BY <2>3, <1>1, <1>5, <1>7 DEF Source, ab
    <3> HIDE DEF j
    <3>2. /\ kept[i] = ab[(last - first) + j] /\ ab[(last - first) + j] = b[j]
          /\ b[j] = p[(next - 1) + j]
      BY <3>1, <1>3, <1>5, <1>6 DEF ab
    <3>3. all[at(i)] = p[(next - 1) + j]
      BY <3>1, <1>4
    <3>. QED
      BY <3>2, <3>3
  <2>4. i \in Nat /\ m + (last - first) \in Nat
    BY <1>1, <1>7
  <2>. QED
    BY <1>1, <2>1, <2>2, <2>3, <2>4
<1> HIDE DEF at
<1>10. IncreasingUpTo(all, n)
  BY DEF all
<1>11. IncreasingUpTo(kept, n)
  BY <1>8, <1>9, <1>10 DEF IncreasingUpTo
<1>. QED
  BY <1>11 DEF kept, a, b

\* A record accepted is the next number at the end of everything there is.
LEMMA AcceptExtends ==
  ASSUME TypeOK, Log!Accept
  PROVE  /\ accepted' = accepted + 1
         /\ file \o Pending \in Seq(Nat)
         /\ file' \o Pending' = Append(file \o Pending, accepted + 1)
<1>1. Pending \in Seq(Nat) /\ file \in Seq(Nat) /\ accepted + 1 \in Nat
  BY PendingShape DEF TypeOK
<1>2. accepted' = accepted + 1 /\ file' = file /\ Pending' = Append(Pending, accepted + 1)
  BY DEF Log!Accept
<1>3. file \o Append(Pending, accepted + 1) = Append(file \o Pending, accepted + 1)
  BY <1>1, ConcatAppend
<1>. QED
  BY <1>1, <1>2, <1>3, ConcatProperties

\* The record accepted next keeps the order.
LEMMA AppendIncreasing ==
  ASSUME NEW s \in Seq(Nat), NEW n \in Nat, IncreasingUpTo(s, n)
  PROVE  IncreasingUpTo(Append(s, n + 1), n + 1)
<1> DEFINE t == Append(s, n + 1)
<1>1. /\ Len(s) \in Nat /\ Len(t) = Len(s) + 1
      /\ \A i \in 1 .. Len(s) : t[i] = s[i]
      /\ t[Len(s) + 1] = n + 1
  BY AppendProperties, LenProperties
<1> HIDE DEF t
<1>2. \A i \in 1 .. Len(t) : t[i] \in 1 .. n + 1
  BY SMTT(30), <1>1 DEF IncreasingUpTo
<1>3. ASSUME NEW i \in 1 .. Len(t), NEW j \in 1 .. Len(t), i < j PROVE t[i] < t[j]
  <2>1. i \in 1 .. Len(s) /\ s[i] \in 1 .. n /\ t[i] = s[i]
    BY <1>1, <1>3 DEF IncreasingUpTo
  <2>2. CASE j \in 1 .. Len(s)
    BY <1>1, <1>3, <2>1, <2>2 DEF IncreasingUpTo
  <2>3. CASE j = Len(s) + 1
    BY <1>1, <2>1, <2>3
  <2>. QED
    BY <1>1, <2>2, <2>3
<1>4. IncreasingUpTo(t, n + 1)
  BY <1>2, <1>3 DEF IncreasingUpTo
<1>. QED
  BY <1>4 DEF t

\* Records reach the file in the order of acceptance and at most once, whatever fails.
THEOREM OrderKept == Spec => []InOrder
<1>1. Init => InOrder
  <2>1. <<>> \o <<>> = <<>> /\ Len(<<>>) = 0
    BY EmptySeq, ConcatEmptySeq
  <2>. QED
    BY <2>1 DEF Init, InOrder, IncreasingUpTo, Pending
<1>2. TypeOK /\ WriterInv /\ InOrder /\ [Next]_vars => InOrder'
  <2> SUFFICES ASSUME TypeOK, WriterInv, InOrder, [Next]_vars PROVE InOrder'
    OBVIOUS
  <2>1. CASE Log!Accept
    BY <2>1, AcceptExtends, AppendIncreasing DEF InOrder, TypeOK
  <2>2. CASE Log!Persist
    BY <2>2, PersistKeepsAll DEF InOrder
  <2>3. CASE Log!Lose
    <3>0. PICK first \in 0 .. Len(Pending), last \in 0 .. Len(Pending) :
            \E next \in last + 1 .. Len(Pending) + 1 :
              /\ first <= last
              /\ Pending' = SubSeq(Pending, first + 1, last)
                               \o SubSeq(Pending, next, Len(Pending))
      BY <2>3 DEF Log!Lose
    <3>1. PICK next \in last + 1 .. Len(Pending) + 1 :
            /\ first <= last
            /\ Pending' = SubSeq(Pending, first + 1, last)
                             \o SubSeq(Pending, next, Len(Pending))
      BY <3>0
    <3>2. UNCHANGED <<accepted, file>>
      BY <2>3 DEF Log!Lose
    <3>3. /\ file \in Seq(Nat) /\ Pending \in Seq(Nat) /\ accepted \in Nat
          /\ IncreasingUpTo(file \o Pending, accepted)
      BY PendingShape DEF TypeOK, InOrder
    <3>4. IncreasingUpTo(file \o (SubSeq(Pending, first + 1, last)
                                   \o SubSeq(Pending, next, Len(Pending))), accepted)
      BY <3>1, <3>3, RunsStayIncreasing
    <3>. QED
      BY <3>1, <3>2, <3>4 DEF InOrder
  <2>4. CASE UNCHANGED <<accepted, Pending, file>>
    BY <2>4 DEF InOrder
  <2>5. CASE UNCHANGED vars
    BY <2>4, <2>5 DEF vars, Pending
  <2>. QED
    BY <2>1, <2>2, <2>3, <2>4, <2>5, Simulation
<1>. QED
  BY <1>1, <1>2, TypeCorrect, WriterInvariant, PTL DEF Spec

\* Incidents are never forgotten.
LEMMA IncidentsGrow == Next => incidents \subseteq incidents'
BY DEF Next, Clone, DropHandle, Submit, SubmitAccepted, SubmitDropped, SubmitRefused,
       CountDrop, OpenLog,
       WriterStep, RecvTrace, RecvClosed, Tick, WriteOne, Flush, FinalFlush, WriteFails,
       Spill, FlushFails, FinalFlushFails, DeadlinePasses, DrainTimesOut, Crash, Restart,
       Ended, vars

\* Without an incident all accepted records are still there, in order.
THEOREM KeepsAll == Spec => []NothingLost
<1>1. Init => NothingLost
  <2>1. <<>> \o <<>> = <<>>
    BY EmptySeq, ConcatEmptySeq
  <2>2. [i \in 1 .. 0 |-> i] = <<>>
    OBVIOUS
  <2>. QED
    BY <2>1, <2>2 DEF Init, NothingLost, Pending
<1>2. TypeOK /\ WriterInv /\ NothingLost /\ [Next]_vars => NothingLost'
  <2> SUFFICES ASSUME TypeOK, WriterInv, NothingLost, [Next]_vars, incidents' = {}
               PROVE  file' \o Pending' = [i \in 1 .. accepted' |-> i]
    BY DEF NothingLost
  <2>1. CASE UNCHANGED vars
    BY <2>1 DEF vars, Pending, NothingLost
  <2>2. CASE Next
    <3>1. incidents = {}
      BY <2>2, IncidentsGrow
    <3>2. file \o Pending = [i \in 1 .. accepted |-> i]
      BY <3>1 DEF NothingLost
    <3>3. CASE Log!Accept
      <4>1. accepted \in Nat
        BY DEF TypeOK
      <4>2. Append([i \in 1 .. accepted |-> i], accepted + 1) = [i \in 1 .. accepted + 1 |-> i]
        BY <4>1
      <4>. QED
        BY <3>2, <3>3, <4>2, AcceptExtends
    <3>4. CASE Log!Persist
      BY <3>2, <3>4, PersistKeepsAll
    <3>5. CASE UNCHANGED <<accepted, Pending, file>>
      BY <3>2, <3>5
    <3>. QED
      BY <2>2, <3>3, <3>4, <3>5, Simulation
  <2>. QED
    BY <2>1, <2>2
<1>. QED
  BY <1>1, <1>2, TypeCorrect, WriterInvariant, PTL DEF Spec

\* A run that ends by itself, with nothing gone wrong, leaves a complete file.
THEOREM CleanExit == Spec => []CleanExitKeepsAll
<1>1. TypeOK /\ WriterInv /\ NothingLost => CleanExitKeepsAll
  <2> SUFFICES ASSUME TypeOK, WriterInv, NothingLost, pc = "done", incidents = {}
               PROVE  file = [i \in 1 .. accepted |-> i]
    BY DEF CleanExitKeepsAll
  <2>1. Pending = <<>>
    BY EmptySeq, ConcatEmptySeq DEF Pending, WriterInv, Writing
  <2>2. file \in Seq(Nat) /\ file \o Pending = [i \in 1 .. accepted |-> i]
    BY DEF NothingLost, TypeOK
  <2>. QED
    BY <2>1, <2>2, ConcatEmptySeq
<1>. QED
  BY <1>1, TypeCorrect, WriterInvariant, KeepsAll, PTL
================================================================================
