------------------------------ MODULE TracePipeline ------------------------------
(****************************************************************************)
(* The trace pipeline of the proxy (crates/replayable-proxy/src/trace.rs):  *)
(* producers hold clones of a TraceWriter and submit records without ever   *)
(* waiting; a bounded channel carries them to one background task, which    *)
(* appends them to the JSONL file through a BufWriter and flushes after     *)
(* FlushBatchSize records or when FLUSH_INTERVAL has passed.                *)
(*                                                                          *)
(* A record is the number of its acceptance, 1, 2, 3, ...: that is all the  *)
(* properties need to tell records apart.  `file` holds the records whose   *)
(* whole line has been written to the file; `buf` the ones write_one has    *)
(* taken that are still in the process, in the BufWriter or in the write    *)
(* that tokio's File has in flight.  How lines become bytes is left to      *)
(* JsonlWriter.                                                             *)
(*                                                                          *)
(* An operator introduced as a "Variant" is a faulty form of the definition *)
(* that follows it; no specification uses it.  Substituted for that         *)
(* definition it makes one of the properties below fail.                    *)
(****************************************************************************)
EXTENDS Naturals, Sequences, SequencesExt

CONSTANTS
  Handles,          \* everything that can own a TraceWriter clone
  Main,             \* the handle main() keeps in pipeline.writer
  Capacity,         \* bound of the channel (log_channel_capacity)
  FlushBatchSize,   \* FLUSH_BATCH_SIZE
  MaxSubmits,       \* bound on the submissions modelled
  Faults            \* which of "disk", "crash" and "deadline" may happen

ASSUME PipelineAssumption ==
  /\ Main \in Handles
  /\ Capacity \in Nat \ {0}
  /\ FlushBatchSize \in Nat \ {0}
  /\ MaxSubmits \in Nat
  /\ Faults \subseteq {"disk", "crash", "deadline"}

VARIABLES
  handles,          \* the owners of a live sender
  queue,            \* the channel, oldest record first
  accepted,         \* how many submissions returned true
  dropped,          \* the `dropped` counter of this process
  refused,          \* submissions that found the channel closed (counted nowhere)
  pc,               \* where writer_loop is
  hand,             \* <<r>> while write_one works on record r, else <<>>
  sinceFlush,       \* since_flush
  due,              \* the flush deadline has passed
  buf,              \* records written to the BufWriter and not yet in the file
  file,             \* records in the JSONL file
  incidents         \* the faults that have happened

producerVars == <<handles, accepted, dropped, refused>>
vars == <<handles, queue, accepted, dropped, refused, pc, hand, sinceFlush, due,
          buf, file, incidents>>

----------------------------------------------------------------------------
\* "select": in tokio::select!; "write": in write_one; "batch", "tick", "final":
\* in one of the three flushes; "done": writer_loop returned; "down": the task
\* was torn down with its process.
Places == {"select", "write", "batch", "tick", "final", "done", "down"}

Writing == pc \in {"select", "write", "batch", "tick", "final"}

\* Accepted records that are not in the file, oldest first.
Pending == buf \o hand \o queue

\* The records left when the k oldest of s are gone.
Rest(s, k) == SubSeq(s, k + 1, Len(s))

\* s lists some of 1 .. n, each once, in increasing order.
IncreasingUpTo(s, n) ==
  /\ \A i \in 1 .. Len(s) : s[i] \in 1 .. n
  /\ \A i, j \in 1 .. Len(s) : i < j => s[i] < s[j]

\* spawn_pipeline: an empty channel, one sender, the loop about to select with
\* its deadline in the future.
Init ==
  /\ handles = {Main}
  /\ queue = <<>>
  /\ accepted = 0
  /\ dropped = 0
  /\ refused = 0
  /\ pc = "select"
  /\ hand = <<>>
  /\ sinceFlush = 0
  /\ due = FALSE
  /\ buf = <<>>
  /\ file = <<>>
  /\ incidents = {}

----------------------------------------------------------------------------
\* Producers.

\* A sender is cloned from any live one.
Clone(h) ==
  /\ handles # {}
  /\ h \notin handles \union {Main}
  /\ handles' = handles \union {h}
  /\ UNCHANGED <<queue, accepted, dropped, refused, pc, hand, sinceFlush, due,
                 buf, file, incidents>>

DropHandle(h) ==
  /\ h \in handles
  /\ handles' = handles \ {h}
  /\ UNCHANGED <<queue, accepted, dropped, refused, pc, hand, sinceFlush, due,
                 buf, file, incidents>>

CanSubmit(h) ==
  /\ h \in handles
  /\ accepted + dropped + refused < MaxSubmits

\* Variant: one record too many fits the channel.
HasRoomForOneMore == Len(queue) <= Capacity

HasRoom == Len(queue) < Capacity

\* Variant: the count goes up for a record that is dropped.
CountDropAsAccepted == accepted' = accepted + 1 /\ UNCHANGED dropped

CountDrop == dropped' = dropped + 1 /\ UNCHANGED accepted

\* try_send returned Ok.
SubmitAccepted(h) ==
  /\ CanSubmit(h)
  /\ Writing
  /\ HasRoom
  /\ accepted' = accepted + 1
  /\ queue' = Append(queue, accepted')
  /\ UNCHANGED <<handles, dropped, refused, pc, hand, sinceFlush, due, buf, file,
                 incidents>>

\* try_send returned Full: the record is dropped and counted.
SubmitDropped(h) ==
  /\ CanSubmit(h)
  /\ Writing
  /\ ~HasRoom
  /\ CountDrop
  /\ UNCHANGED <<handles, refused, queue, pc, hand, sinceFlush, due, buf,
                 file, incidents>>

\* try_send returned Closed, the receiver being gone: a debug line, no count.
SubmitRefused(h) ==
  /\ CanSubmit(h)
  /\ ~Writing
  /\ refused' = refused + 1
  /\ UNCHANGED <<handles, accepted, dropped, queue, pc, hand, sinceFlush, due, buf,
                 file, incidents>>

Submit(h) == SubmitAccepted(h) \/ SubmitDropped(h) \/ SubmitRefused(h)

----------------------------------------------------------------------------
\* The writer task.

\* Variant: the newest record is taken first.
TakeNewest == hand' = <<Last(queue)>> /\ queue' = Front(queue)

TakeOldest == hand' = <<Head(queue)>> /\ queue' = Tail(queue)

\* recv() yields the oldest record.
RecvTrace ==
  /\ pc = "select"
  /\ queue # <<>>
  /\ TakeOldest
  /\ pc' = "write"
  /\ UNCHANGED <<producerVars, sinceFlush, due, buf, file, incidents>>

\* Variant: main's handle alone keeps the channel open.
ClosedByMain == queue = <<>> /\ Main \notin handles

\* Variant: the loop is left only when there is something to flush.
ClosedIfUnflushed == queue = <<>> /\ handles = {} /\ sinceFlush > 0

\* No sender is left and the channel is drained.
Closed == queue = <<>> /\ handles = {}

\* recv() yields None.
RecvClosed ==
  /\ pc = "select"
  /\ Closed
  /\ pc' = "final"
  /\ UNCHANGED <<producerVars, queue, hand, sinceFlush, due, buf, file, incidents>>

\* Variant: the interval flush waits for a second record.
UnflushedOffByOne == sinceFlush > 1

Unflushed == sinceFlush > 0

\* sleep_until fires; the select is biased, so only while recv() is pending.
\* Nothing to flush: just a new deadline.
Tick ==
  /\ pc = "select"
  /\ queue = <<>>
  /\ handles # {}
  /\ due
  /\ IF Unflushed
     THEN pc' = "tick" /\ UNCHANGED due
     ELSE due' = FALSE /\ UNCHANGED pc
  /\ UNCHANGED <<producerVars, queue, hand, sinceFlush, buf, file, incidents>>

\* Variant: a written record does not count towards the next flush.
LeaveCount == UNCHANGED sinceFlush

CountWrite == sinceFlush' = sinceFlush + 1

\* write_one succeeded.
WriteOne ==
  /\ pc = "write"
  /\ buf' = buf \o hand
  /\ hand' = <<>>
  /\ CountWrite
  /\ pc' = IF sinceFlush' >= FlushBatchSize THEN "batch" ELSE "select"
  /\ UNCHANGED <<producerVars, queue, due, file, incidents>>

\* write_one failed: the error is logged, the record skipped without counting it
\* towards a flush.  The error is that of an earlier background write, and the k
\* records that write carried are gone too.
WriteFails ==
  /\ "disk" \in Faults
  /\ pc = "write"
  /\ \E k \in 0 .. Len(buf) : buf' = Rest(buf, k)
  /\ hand' = <<>>
  /\ pc' = "select"
  /\ incidents' = incidents \union {"disk"}
  /\ UNCHANGED <<producerVars, queue, sinceFlush, due, file>>

\* Variant: the records passed on also stay in the buffer.
PassOnCopy(k) == file' = file \o SubSeq(buf, 1, k) /\ UNCHANGED buf

\* The k oldest records of the buffer reach the file.
PassOn(k) == file' = file \o SubSeq(buf, 1, k) /\ buf' = Rest(buf, k)

\* A full BufWriter passes its bytes on, and the write completes.
Spill ==
  /\ Writing
  /\ \E k \in 1 .. Len(buf) : PassOn(k)
  /\ UNCHANGED <<producerVars, queue, pc, hand, sinceFlush, due, incidents>>

\* Variant: the buffer is emptied without being written.
DiscardBuffer == buf' = <<>> /\ UNCHANGED file

FlushBuffer == file' = file \o buf /\ buf' = <<>>

\* Variant: a flush takes a whole batch off the count instead of resetting it.
SubtractBatch == sinceFlush' = sinceFlush - FlushBatchSize /\ due' = FALSE

\* since_flush = 0; deadline = now + FLUSH_INTERVAL.
StartInterval == sinceFlush' = 0 /\ due' = FALSE

\* buf.flush() after a batch or an interval; both start a new interval.
Flush ==
  /\ pc \in {"batch", "tick"}
  /\ FlushBuffer
  /\ StartInterval
  /\ pc' = "select"
  /\ UNCHANGED <<producerVars, queue, hand, incidents>>

\* The flush reports a failed write and is not retried; what the BufWriter still
\* held stays there, and since_flush is reset all the same.
FlushFails ==
  /\ "disk" \in Faults
  /\ pc \in {"batch", "tick"}
  /\ \E k \in 1 .. Len(buf) : buf' = Rest(buf, k)
  /\ StartInterval
  /\ pc' = "select"
  /\ incidents' = incidents \union {"disk"}
  /\ UNCHANGED <<producerVars, queue, hand, file>>

\* The last flush, then writer_loop returns.
FinalFlush ==
  /\ pc = "final"
  /\ FlushBuffer
  /\ pc' = "done"
  /\ UNCHANGED <<producerVars, queue, hand, sinceFlush, due, incidents>>

\* The last flush fails: whatever the BufWriter holds is dropped with it.
FinalFlushFails ==
  /\ "disk" \in Faults
  /\ pc = "final"
  /\ buf # <<>>
  /\ buf' = <<>>
  /\ pc' = "done"
  /\ incidents' = incidents \union {"disk"}
  /\ UNCHANGED <<producerVars, queue, hand, sinceFlush, due, file>>

DeadlinePasses ==
  /\ Writing
  /\ ~due
  /\ due' = TRUE
  /\ UNCHANGED <<producerVars, queue, pc, hand, sinceFlush, buf, file, incidents>>

----------------------------------------------------------------------------
\* The process.

\* Everything the process held in memory goes.
LoseMemory ==
  /\ queue' = <<>>
  /\ hand' = <<>>
  /\ buf' = <<>>
  /\ pc' = "down"

\* main() gave its handle up, waited SHUTDOWN_DEADLINE for the writer, and returns:
\* the runtime drops the writer task while other owners of a handle may still run.
DrainTimesOut ==
  /\ "deadline" \in Faults
  /\ Writing
  /\ Main \notin handles
  /\ LoseMemory
  /\ incidents' = incidents \union {"deadline"}
  /\ UNCHANGED <<handles, accepted, dropped, refused, sinceFlush, due, file>>

\* The process is killed.
Crash ==
  /\ "crash" \in Faults
  /\ Writing
  /\ LoseMemory
  /\ handles' = {}
  /\ incidents' = incidents \union {"crash"}
  /\ UNCHANGED <<accepted, dropped, refused, sinceFlush, due, file>>

\* Variant: the log file is truncated when it is opened.
OpenTruncating == file' = <<>>

\* open_log_file appends to the file that is there.
OpenLog == UNCHANGED file

\* A new process.
Restart ==
  /\ "crash" \in Faults
  /\ ~Writing
  /\ handles = {}
  /\ handles' = {Main}
  /\ dropped' = 0
  /\ refused' = 0
  /\ pc' = "select"
  /\ StartInterval
  /\ OpenLog
  /\ UNCHANGED <<accepted, queue, hand, buf, incidents>>

\* The process has ended.
Ended ==
  /\ ~Writing
  /\ handles = {}
  /\ UNCHANGED vars

----------------------------------------------------------------------------
WriterStep ==
  \/ RecvTrace
  \/ RecvClosed
  \/ Tick
  \/ WriteOne
  \/ Flush
  \/ FinalFlush

Next ==
  \/ \E h \in Handles : Clone(h) \/ DropHandle(h) \/ Submit(h)
  \/ WriterStep
  \/ WriteFails
  \/ Spill
  \/ FlushFails
  \/ FinalFlushFails
  \/ DeadlinePasses
  \/ DrainTimesOut
  \/ Crash
  \/ Restart
  \/ Ended

Spec == Init /\ [][Next]_vars

\* The runtime keeps polling a task that can move, and time passes.
Fairness == WF_vars(WriterStep) /\ WF_vars(DeadlinePasses)

LiveSpec == Spec /\ Fairness

----------------------------------------------------------------------------
\* Properties.

\* Every variable holds a value of its kind.
TypeOK ==
  /\ handles \subseteq Handles
  /\ queue \in Seq(Nat)
  /\ accepted \in Nat
  /\ dropped \in Nat
  /\ refused \in Nat
  /\ pc \in Places
  /\ hand \in Seq(Nat)
  /\ sinceFlush \in Nat
  /\ due \in BOOLEAN
  /\ buf \in Seq(Nat)
  /\ file \in Seq(Nat)
  /\ incidents \subseteq Faults

\* The inductive invariant behind the bounds: a record is in hand exactly during
\* write_one, since_flush stays below the batch size outside a batch flush, and
\* while the disk works it counts everything in the buffer.
WriterInv ==
  /\ IF pc = "write" THEN Len(hand) = 1 ELSE hand = <<>>
  /\ Len(queue) <= Capacity
  /\ pc \in {"final", "done"} => handles = {} /\ queue = <<>>
  /\ ~Writing => buf = <<>> /\ queue = <<>>
  /\ refused > 0 => pc = "down"
  /\ sinceFlush <= FlushBatchSize
  /\ pc \in {"select", "write", "tick", "final"} => sinceFlush < FlushBatchSize
  /\ "disk" \notin incidents => Len(buf) <= sinceFlush

\* Until something fails no accepted record goes astray: the file, the buffer, the
\* record being written and the channel hold all of them, in order.
NothingLost == incidents = {} => file \o Pending = [i \in 1 .. accepted |-> i]

\* Records reach the file in the order of their acceptance, each at most once, and
\* none that was not accepted: through losses, crashes and restarts the file
\* followed by what is pending is strictly increasing.
InOrder == IncreasingUpTo(file \o Pending, accepted)

\* While the disk works, a crash costs at most a full channel and one unflushed
\* batch, whatever the timing of flushes and producers.
LossBound ==
  "disk" \notin incidents => Len(Pending) <= Capacity + FlushBatchSize

\* No producer finds the channel closed before the runtime is being torn down.
NoRefusalWhileRunning == refused > 0 => pc = "down"

\* A writer that ran to its end in a run without incident left every accepted
\* record in the file, in order.
CleanExitKeepsAll ==
  pc = "done" /\ incidents = {} => file = [i \in 1 .. accepted |-> i]

\* Nothing that is in the file ever leaves it or moves, not even over a restart.
FileAppendOnly == [][IsPrefix(file, file')]_vars

\* Every accepted record reaches the file, even if no other record follows it and
\* the process goes on running.
Durable == \A i \in 1 .. MaxSubmits : (accepted >= i) ~> (i \in Range(file))

\* Once the last handle is gone the writer flushes and ends.
ShutdownCompletes == (handles = {}) ~> (pc = "done")

\* spawn_pipeline's documentation: the task flushes every FLUSH_BATCH_SIZE records or
\* every FLUSH_INTERVAL, so a record does not stay in the buffer of a live task.
FlushedWithinInterval ==
  \A i \in 1 .. MaxSubmits : (i \in Range(buf)) ~> (i \notin Range(buf))

\* The pipeline does what TraceLog promises.
Log == INSTANCE TraceLog WITH
         MayLose <- Faults # {},
         pending <- Pending,
         log <- file

ImplementsTraceLog == Log!Spec

ImplementsLiveTraceLog == Log!LiveSpec
==================================================================================
