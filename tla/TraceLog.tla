-------------------------------- MODULE TraceLog --------------------------------
(****************************************************************************)
(* What the trace pipeline promises its producers, without its machinery:   *)
(* the records the pipeline accepts, numbered in the order of acceptance,   *)
(* wait in `pending` and move in that order to the end of `log`, the JSONL  *)
(* file.  Where losses are possible (a failing disk, a crash, the shutdown  *)
(* deadline) pending records may vanish, but the log never gains a record   *)
(* twice, out of order, or unannounced, and what it holds is never lost.    *)
(****************************************************************************)
EXTENDS Naturals, Sequences

CONSTANT MayLose    \* TRUE when pending records can be lost

VARIABLES
  accepted,         \* how many records have been accepted so far
  pending,          \* accepted records that are not in the file yet, oldest first
  log               \* records in the file

logVars == <<accepted, pending, log>>

Init ==
  /\ accepted = 0
  /\ pending = <<>>
  /\ log = <<>>

\* A producer hands over a record and is told that it was taken.
Accept ==
  /\ accepted' = accepted + 1
  /\ pending' = Append(pending, accepted')
  /\ UNCHANGED log

\* The oldest pending records reach the file.
Persist ==
  /\ \E k \in 1 .. Len(pending) :
       /\ log' = log \o SubSeq(pending, 1, k)
       /\ pending' = SubSeq(pending, k + 1, Len(pending))
  /\ UNCHANGED accepted

\* A run of the oldest records and a second run further back are lost: a write
\* error takes what was on its way to the disk and the record being written.
Lose ==
  /\ MayLose
  /\ \E first, last \in 0 .. Len(pending) :
       \E next \in last + 1 .. Len(pending) + 1 :
         /\ first <= last
         /\ pending' = SubSeq(pending, first + 1, last)
                         \o SubSeq(pending, next, Len(pending))
  /\ UNCHANGED <<accepted, log>>

Next == Accept \/ Persist \/ Lose

Spec == Init /\ [][Next]_logVars

\* Without losses every accepted record reaches the file in the end.
LiveSpec == Spec /\ WF_logVars(Persist)
=================================================================================
