------------------------------- MODULE JsonlWriter -------------------------------
(****************************************************************************)
(* How the records that writer_loop takes from its channel become the bytes *)
(* of the JSONL file: write_one (trace.rs) writes the JSON of a record and  *)
(* then a newline into a BufWriter over a tokio File.  TracePipeline says   *)
(* when the loop writes and flushes; here a flush may come between any two  *)
(* records, and what counts is where each byte is.                          *)
(*                                                                          *)
(* Bytes come in pieces: <<r, i>> is the i-th piece of the JSON of record   *)
(* r, Newline the byte after it.  A piece waits in `todo` (the write_all    *)
(* that is running), `bw` (the BufWriter), `op` (the one write the File has *)
(* in flight on a blocking thread) and ends in `disk`.  A write that fails  *)
(* is reported by the next operation on the File, whatever that is.         *)
(*                                                                          *)
(* A "Variant" is a faulty form of the definition that follows it; no       *)
(* specification uses it.                                                   *)
(****************************************************************************)
EXTENDS Integers, Sequences, SequencesExt

CONSTANTS
  Sizes,            \* how many pieces the JSON of a record may have
  BufferSize,       \* capacity of the BufWriter
  FileBufferSize,   \* what the File takes in one write
  MaxRecords,       \* bound on the records modelled
  Faults,           \* which of "disk", "crash" and "deadline" may happen
  MaxFaults         \* bound on the faults modelled

ASSUME JsonlAssumption ==
  /\ Sizes \subseteq Nat \ {0}
  /\ BufferSize \in Nat \ {0}
  /\ FileBufferSize \in Nat \ {0}
  /\ MaxRecords \in Nat
  /\ MaxFaults \in Nat
  /\ Faults \subseteq {"disk", "crash", "deadline"}

VARIABLES
  size,             \* the number of JSON pieces of each record accepted so far
  taken,            \* records taken out of the channel, or lost in it
  pc,               \* where writer_loop is
  todo,             \* pieces the running write_all has not written yet
  bw, op, disk,     \* pieces in the BufWriter, in the File's write, in the file
  failed,           \* the last write of the File failed, unreported
  faults            \* how many faults have happened

channel == <<size, taken>>
bytes == <<todo, bw, op, disk, failed>>
vars == <<channel, pc, bytes, faults>>

accepted == Len(size)

Newline == <<0, 0>>

Json(r) == [i \in 1 .. size[r] |-> <<r, i>>]

Line(r) == Append(Json(r), Newline)

\* "json" and "newline": in a write_all of write_one; "flush", "final": in a flush.
Places == {"select", "json", "newline", "flush", "final", "done", "down"}

Running == pc \notin {"done", "down"}

Init ==
  /\ size = <<>>
  /\ taken = 0
  /\ pc = "select"
  /\ todo = <<>> /\ bw = <<>> /\ op = <<>> /\ disk = <<>>
  /\ failed = FALSE
  /\ faults = 0

----------------------------------------------------------------------------
\* writer_loop.

\* In the last flush no sender is left.
Accept ==
  /\ Running /\ pc # "final"
  /\ accepted < MaxRecords
  /\ \E n \in Sizes : size' = Append(size, n)
  /\ UNCHANGED <<taken, pc, bytes, faults>>

\* recv() yields a record; write_one starts with its JSON.
Take ==
  /\ pc = "select"
  /\ taken < accepted
  /\ taken' = taken + 1
  /\ todo' = Json(taken')
  /\ pc' = "json"
  /\ UNCHANGED <<size, bw, op, disk, failed, faults>>

\* A flush, after a batch or an interval, or the last one when the channel is closed.
StartFlush ==
  /\ pc = "select"
  /\ \/ (bw \o op # <<>> \/ failed) /\ pc' = "flush"
     \/ taken = accepted /\ pc' = "final"
  /\ UNCHANGED <<channel, bytes, faults>>

\* Variant: a record ends without its newline.
NoNewline(left) ==
  todo' = left /\ pc' = IF left = <<>> THEN "select" ELSE pc

\* Variant: write in place of write_all, which drops what one write does not take.
ShortWrite(left) ==
  IF pc = "json" THEN todo' = <<Newline>> /\ pc' = "newline"
                 ELSE todo' = <<>> /\ pc' = "select"

\* write_all has `left` still to write: the JSON is followed by the newline.
Written(left) ==
  IF left = <<>> /\ pc = "json"
  THEN todo' = <<Newline>> /\ pc' = "newline"
  ELSE todo' = left /\ pc' = IF left = <<>> THEN "select" ELSE pc

----------------------------------------------------------------------------
\* BufWriter and File.

Writes == pc \in {"json", "newline"}

Overflows == Len(bw) + Len(todo) > BufferSize

\* What does not fit is kept back until the BufWriter is empty.
MustEmpty == bw # <<>> /\ (pc \in {"flush", "final"} \/ (Writes /\ Overflows))

Flushed == bw = <<>> /\ pc \in {"flush", "final"}

\* A write at least as large as the BufWriter goes past it.
PastBuffer == Writes /\ ~MustEmpty /\ Len(todo) >= BufferSize

\* How much of s one write of the File takes.
Portion(s) == IF Len(s) < FileBufferSize THEN Len(s) ELSE FileBufferSize

FileIdle == op = <<>> /\ ~failed

AppendToBuffer ==
  /\ Writes /\ ~Overflows /\ ~PastBuffer
  /\ bw' = bw \o todo
  /\ Written(<<>>)
  /\ UNCHANGED <<channel, op, disk, failed, faults>>

\* The BufWriter hands its oldest bytes to the File.
PushBuffer ==
  /\ MustEmpty /\ FileIdle
  /\ op' = SubSeq(bw, 1, Portion(bw))
  /\ bw' = SubSeq(bw, Portion(bw) + 1, Len(bw))
  /\ UNCHANGED <<channel, pc, todo, disk, failed, faults>>

WritePastBuffer ==
  /\ PastBuffer /\ FileIdle
  /\ op' = SubSeq(todo, 1, Portion(todo))
  /\ Written(SubSeq(todo, Portion(todo) + 1, Len(todo)))
  /\ UNCHANGED <<channel, bw, disk, failed, faults>>

\* A flush is over when the File has written everything.
FlushEnds ==
  /\ Flushed /\ FileIdle
  /\ pc' = IF pc = "final" THEN "done" ELSE "select"
  /\ UNCHANGED <<channel, bytes, faults>>

\* Variant: the record that failed is written once more.
WriteAgain ==
  /\ pc' = IF Writes THEN "json" ELSE IF pc = "final" THEN "done" ELSE "select"
  /\ todo' = IF Writes THEN Json(taken) ELSE <<>>
  /\ bw' = IF pc = "final" THEN <<>> ELSE bw

\* Variant: the loop goes on but keeps the rest of the record.
SkipKeepingRest ==
  /\ pc' = IF pc = "final" THEN "done" ELSE "select"
  /\ bw' = IF pc = "final" THEN <<>> ELSE bw
  /\ UNCHANGED todo

\* The error is logged and the loop goes on with the next record: the rest of this one
\* is dropped, what is in the BufWriter stays there, and only the last flush ends the
\* loop and drops the BufWriter.
Skip ==
  /\ pc' = IF pc = "final" THEN "done" ELSE "select"
  /\ todo' = <<>>
  /\ bw' = IF pc = "final" THEN <<>> ELSE bw

\* The File reports the write that failed to whoever uses it next.
Fails ==
  /\ failed
  /\ MustEmpty \/ PastBuffer \/ Flushed
  /\ failed' = FALSE
  /\ Skip
  /\ UNCHANGED <<channel, op, disk, faults>>

DiskWrites ==
  /\ op # <<>>
  /\ disk' = Append(disk, Head(op))
  /\ op' = Tail(op)
  /\ UNCHANGED <<channel, pc, todo, bw, failed, faults>>

----------------------------------------------------------------------------
\* Faults, and the next process.

Fault(f) == f \in Faults /\ faults < MaxFaults /\ faults' = faults + 1

\* The rest of the write in flight is lost.
DiskFails ==
  /\ Fault("disk")
  /\ op # <<>>
  /\ op' = <<>>
  /\ failed' = TRUE
  /\ UNCHANGED <<channel, pc, todo, bw, disk>>

\* The loop is torn down.  main() gave up waiting: the write in flight still completes
\* before the runtime is gone.  A kill takes that too.
Down(f) ==
  /\ Running
  /\ Fault(f)
  /\ pc' = "down"
  /\ taken' = accepted
  /\ todo' = <<>> /\ bw' = <<>> /\ failed' = FALSE
  /\ UNCHANGED <<size, disk>>

DrainTimesOut == Down("deadline") /\ UNCHANGED op

Crash == Down("crash") /\ op' = <<>>

\* Variant: the log file is truncated when it is opened.
OpenTruncating == disk' = <<>>

\* open_log_file appends to whatever is there.
OpenLog == UNCHANGED disk

\* A new process; the bound keeps the restarts of an idle one out.
Restart ==
  /\ ~Running
  /\ op = <<>>
  /\ accepted < MaxRecords
  /\ pc' = "select"
  /\ OpenLog
  /\ UNCHANGED <<channel, todo, bw, op, failed, faults>>

Ended == ~Running /\ op = <<>> /\ UNCHANGED vars

Next ==
  \/ Accept \/ Take \/ StartFlush
  \/ AppendToBuffer \/ PushBuffer \/ WritePastBuffer \/ FlushEnds \/ Fails
  \/ DiskWrites \/ DiskFails
  \/ DrainTimesOut \/ Crash \/ Restart
  \/ Ended

Spec == Init /\ [][Next]_vars

----------------------------------------------------------------------------
\* Properties.

Pieces == ((1 .. MaxRecords) \X Nat) \union {Newline}

\* Every variable holds a value of its kind, there is something to write exactly in a
\* write_all, and an error is pending only while no write is in flight.
TypeOK ==
  /\ size \in Seq(Sizes)
  /\ accepted <= MaxRecords
  /\ taken \in 0 .. accepted
  /\ pc \in Places
  /\ \A s \in {todo, bw, op, disk} : s \in Seq(Pieces)
  /\ Writes <=> todo # <<>>
  /\ Len(bw) <= BufferSize
  /\ failed \in BOOLEAN
  /\ failed => op = <<>>
  /\ faults \in Nat

\* The pieces on their way to the file, oldest first.
Ahead == op \o bw \o (IF pc = "json" THEN Append(todo, Newline) ELSE todo)

\* The whole lines of the records 1 .. n.
LinesUpTo(n) == FlattenSeq([r \in 1 .. n |-> Line(r)])

\* As long as nothing has failed no byte of a record is missing, doubled or displaced:
\* file, File, BufWriter and write_one hold one whole line per record taken, in order.
LinesIntact == faults = 0 => disk \o Ahead = LinesUpTo(taken)

\* The JSON of record r follows the i first pieces of s.
Follows(s, i, r) == SubSeq(s, i + 1, i + size[r]) = Json(r)

\* A reader of the file finds record r on a line of its own.
Readable(r) ==
  \E i \in 0 .. Len(disk) - size[r] - 1 :
    /\ Follows(disk, i, r)
    /\ i = 0 \/ disk[i] = Newline
    /\ disk[i + size[r] + 1] = Newline

\* Not yet, but nothing in the file rules it out: its JSON is whole, and the pieces
\* beside it that are in the file are newlines.  That includes a record whose own
\* newline was lost: it is readable after all if the newline of a later record comes
\* next because what was between them is lost too.
MayBecomeReadable(r) ==
  /\ ~Readable(r)
  /\ r <= taken =>
       \E i \in 0 .. Len(disk \o Ahead) - size[r] :
         /\ Follows(disk \o Ahead, i, r)
         /\ \A j \in {i, i + size[r] + 1} \cap DOMAIN disk : disk[j] = Newline

\* The records accepted that pass the test, oldest first.
AcceptedWith(Test(_)) ==
  FlattenSeq([r \in 1 .. accepted |-> IF Test(r) THEN <<r>> ELSE <<>>])

\* A fault damages little: at most two lines of the file, the one it cuts and the one
\* in whose middle its error arrives.
DamageBounded ==
  Cardinality({i \in DOMAIN disk : disk[i] = Newline}) <=
    Cardinality({r \in 1 .. accepted : Readable(r)}) + 2 * faults

Before(p, q) == p[1] < q[1] \/ (p[1] = q[1] /\ p[2] < q[2])

\* But for newlines s lists pieces in the order in which they are written, none twice.
Ordered(s) ==
  \A i, j \in 1 .. Len(s) :
    i < j /\ Newline \notin {s[i], s[j]} => Before(s[i], s[j])

\* Lost or not, what is in the file or on its way there is in the order in which it was
\* written, and no piece is there twice.
PiecesInOrder == Ordered(disk \o Ahead)

\* Read line by line the file is the log TraceLog promises.
Log == INSTANCE TraceLog WITH
         MayLose <- Faults # {},
         log <- AcceptedWith(Readable),
         pending <- AcceptedWith(MayBecomeReadable)

ImplementsTraceLog == Log!Spec

\* trace.rs: "serialises every captured request+response as one JSON line", so between
\* the pieces of two records there is a newline.
OneRecordPerLine ==
  \A i \in 1 .. Len(disk) - 1 :
    Newline \in {disk[i], disk[i + 1]} \/ disk[i][1] = disk[i + 1][1]
==================================================================================
