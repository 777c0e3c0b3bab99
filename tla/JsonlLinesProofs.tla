----------------------------- MODULE JsonlLinesProofs -----------------------------
(****************************************************************************)
(* Theorems about the lines JsonlWriter leaves in the file, for every size  *)
(* of records, of the BufWriter and of the File's writes, and every set and *)
(* number of faults.                                                        *)
(****************************************************************************)
EXTENDS JsonlWriterProofs, FiniteSetTheorems

----------------------------------------------------------------------------
\* FlattenSeq, one sequence at a time.

LEMMA LeastOf ==
  ASSUME NEW F, F \subseteq Nat, F # {}
  PROVE  \E x \in F : \A y \in F : x <= y
<1>1. PICK x \in F : \A y \in F : ~(<<y, x>> \in OpToRel(<, Nat))
  BY NatLessThanWellFounded, WFMin
<1>2. \A y \in F : ~(y < x)
  BY <1>1 DEF OpToRel
<1>. QED
  BY <1>2

\* What FlattenSeq computes on its way: f[i] is the first i members of q, concatenated.
Unfolds(q, n, f) ==
  f = [i \in 1 .. n |-> IF i = 1 THEN q[i] ELSE f[i - 1] \o q[i]]

LEMMA UnfoldsAt ==
  ASSUME NEW q, NEW n \in Nat, NEW f, Unfolds(q, n, f), NEW i \in 1 .. n
  PROVE  f[i] = IF i = 1 THEN q[i] ELSE f[i - 1] \o q[i]
<1> DEFINE e(j) == IF j = 1 THEN q[j] ELSE f[j - 1] \o q[j]
<1>1. f = [j \in 1 .. n |-> e(j)]
  BY DEF Unfolds
<1> HIDE DEF e
<1>2. f[i] = e(i)
  BY <1>1
<1>. QED
  BY <1>2 DEF e

LEMMA UnfoldsAgree ==
  ASSUME NEW q, NEW n \in Nat, NEW f, Unfolds(q, n, f),
         NEW p, NEW m \in Nat, NEW g, Unfolds(p, m, g),
         m <= n, \A i \in 1 .. m : p[i] = q[i]
  PROVE  \A i \in 1 .. m : f[i] = g[i]
<1> DEFINE F == {i \in 1 .. m : f[i] # g[i]}
<1> SUFFICES ASSUME F # {} PROVE FALSE
  OBVIOUS
<1>1. F \subseteq Nat
  OBVIOUS
<1>2. PICK i \in F : \A j \in F : i <= j
  BY <1>1, LeastOf
<1>3. i \in 1 .. m /\ i \in 1 .. n /\ f[i] # g[i]
  OBVIOUS
<1>4. p[i] = q[i]
  BY <1>3
<1>5. /\ f[i] = IF i = 1 THEN q[i] ELSE f[i - 1] \o q[i]
      /\ g[i] = IF i = 1 THEN p[i] ELSE g[i - 1] \o p[i]
  BY <1>3, UnfoldsAt
<1>6. CASE i = 1
  BY <1>3, <1>4, <1>5, <1>6
<1>7. CASE i # 1
  <2>1. i - 1 \in 1 .. m /\ i - 1 \notin F
    BY <1>2, <1>3, <1>7
  <2>2. f[i - 1] = g[i - 1]
    BY <2>1
  <2>. QED
    BY <1>3, <1>4, <1>5, <1>7, <2>2
<1>. QED
  BY <1>6, <1>7

LEMMA UnfoldsExists ==
  ASSUME NEW q, NEW n \in Nat
  PROVE  \E f : Unfolds(q, n, f)
<1> DEFINE F == {m \in Nat : ~ \E f : Unfolds(q, m, f)}
<1> SUFFICES ASSUME F # {} PROVE FALSE
  OBVIOUS
<1>1. PICK m \in F : \A j \in F : m <= j
  BY LeastOf
<1>2. CASE m = 0
  <2>1. Unfolds(q, 0, <<>>)
    BY DEF Unfolds
  <2>. QED
    BY <1>2, <2>1
<1>3. CASE m # 0
  <2>1. m \in Nat /\ m - 1 \in Nat /\ m - 1 \notin F
    BY <1>1, <1>3
  <2>2. PICK g : Unfolds(q, m - 1, g)
    BY <2>1
  <2> DEFINE e(i) == IF i = 1 THEN q[i] ELSE g[i - 1] \o q[i]
             f == [i \in 1 .. m |-> e(i)]
  <2>3. ASSUME NEW i \in 1 .. m - 1 PROVE f[i] = g[i]
    <3>1. g[i] = e(i)
      BY <2>1, <2>2, UnfoldsAt
    <3>2. i \in 1 .. m
      BY <2>1
    <3>. QED
      BY <3>1, <3>2
  <2>4. ASSUME NEW i \in 1 .. m
        PROVE  e(i) = IF i = 1 THEN q[i] ELSE f[i - 1] \o q[i]
    <3>1. CASE i = 1
      BY <3>1
    <3>2. CASE i # 1
      <4>1. i - 1 \in 1 .. m - 1
        BY <2>1, <3>2
      <4>2. f[i - 1] = g[i - 1]
        BY <2>3, <4>1
      <4>. QED
        BY <3>2, <4>2
    <3>. QED
      BY <3>1, <3>2
  <2>5. f = [i \in 1 .. m |-> IF i = 1 THEN q[i] ELSE f[i - 1] \o q[i]]
    BY <2>4, Zenon
  <2>. QED
    BY <1>1, <2>5 DEF Unfolds
<1>. QED
  BY <1>2, <1>3

LEMMA FlattenUnfolds ==
  ASSUME NEW q, Len(q) \in Nat \ {0}
  PROVE  \E f : Unfolds(q, Len(q), f) /\ FlattenSeq(q) = f[Len(q)]
<1>1. \E f : Unfolds(q, Len(q), f)
  BY UnfoldsExists
<1>2. \E f : /\ f = [i \in 1 .. Len(q) |-> IF i = 1 THEN q[i] ELSE f[i - 1] \o q[i]]
             /\ FlattenSeq(q) = f[Len(q)]
  BY <1>1 DEF FlattenSeq, Unfolds
<1>. QED
  BY <1>2 DEF Unfolds

LEMMA FlattenNext ==
  ASSUME NEW n \in Nat, NEW q, NEW p, Len(q) = n + 1, Len(p) = n,
         <<>> \o q[n + 1] = q[n + 1], n = 0 => p = <<>>, \A i \in 1 .. n : p[i] = q[i]
  PROVE  FlattenSeq(q) = FlattenSeq(p) \o q[n + 1]
<1>1. PICK f : Unfolds(q, n + 1, f) /\ FlattenSeq(q) = f[n + 1]
  BY FlattenUnfolds
<1>2. f[n + 1] = IF n + 1 = 1 THEN q[n + 1] ELSE f[n + 1 - 1] \o q[n + 1]
  BY <1>1, UnfoldsAt
<1>3. CASE n = 0
  <2>1. FlattenSeq(p) = <<>>
    BY <1>3 DEF FlattenSeq
  <2>. QED
    BY <1>1, <1>2, <1>3, <2>1
<1>4. CASE n # 0
  <2>1. PICK g : Unfolds(p, n, g) /\ FlattenSeq(p) = g[n]
    BY <1>4, FlattenUnfolds
  <2>2. f[n] = g[n]
    BY <1>1, <1>4, <2>1, UnfoldsAgree
  <2>3. n + 1 # 1 /\ n + 1 - 1 = n
    BY <1>4
  <2>. QED
    BY <1>1, <1>2, <2>1, <2>2, <2>3
<1>. QED
  BY <1>3, <1>4

----------------------------------------------------------------------------
\* What each step does to the pieces on their way to the file.

\* What write_one has not written yet of the record it is at.
Rest == IF pc = "json" THEN Append(todo, Newline) ELSE todo

LEMMA AheadParts ==
  ASSUME TypeOK
  PROVE  /\ Rest \in Seq(Pieces) /\ op \in Seq(Pieces) /\ bw \in Seq(Pieces)
         /\ bw \o Rest \in Seq(Pieces) /\ Ahead \in Seq(Pieces)
         /\ Ahead = op \o (bw \o Rest)
<1>1. op \in Seq(Pieces) /\ bw \in Seq(Pieces) /\ todo \in Seq(Pieces)
  BY Typed
<1>2. Rest \in Seq(Pieces)
  BY <1>1, NewlinePiece, AppendProperties DEF Rest
<1>3. (op \o bw) \o Rest = op \o (bw \o Rest)
  BY <1>1, <1>2, Associative
<1>4. bw \o Rest \in Seq(Pieces)
  BY <1>1, <1>2, ConcatProperties
<1>5. op \o (bw \o Rest) \in Seq(Pieces)
  BY <1>1, <1>4, ConcatProperties
<1>. QED
  BY <1>1, <1>2, <1>3, <1>4, <1>5 DEF Ahead, Rest

LEMMA AppendPiece ==
  ASSUME NEW s \in Seq(Pieces), NEW p \in Pieces
  PROVE  Append(s, p) = s \o <<p>> /\ <<p>> \in Seq(Pieces)
<1>1. Append(s, p) = s \o <<p>>
  BY AppendIsConcat
<1>2. <<p>> \in Seq(Pieces)
  OBVIOUS
<1>. QED
  BY <1>1, <1>2

\* A write_all of which `left` is left.
LEMMA RestWritten ==
  ASSUME TypeOK, Writes, NEW left \in Seq(Pieces), Written(left)
  PROVE  Rest' = IF pc = "json" THEN Append(left, Newline) ELSE left
<1>1. CASE left = <<>>
  <2>1. Append(left, Newline) = <<Newline>>
    BY <1>1, NewlinePiece, AppendPiece, NoPieces
  <2>. QED
    BY <1>1, <2>1 DEF Written, Writes, Rest
<1>2. CASE left # <<>>
  BY <1>2 DEF Written, Writes, Rest
<1>. QED
  BY <1>1, <1>2

\* A write_all that has written s and has t left.
LEMMA RestSplits ==
  ASSUME TypeOK, NEW s \in Seq(Pieces), NEW t \in Seq(Pieces), s \o t = todo
  PROVE  Rest = s \o (IF pc = "json" THEN Append(t, Newline) ELSE t)
<1>1. Append(todo, Newline) = todo \o <<Newline>> /\ <<Newline>> \in Seq(Pieces)
  BY Typed, NewlinePiece, AppendPiece
<1>2. (s \o t) \o <<Newline>> = s \o (t \o <<Newline>>)
  BY <1>1, Associative
<1>3. Append(t, Newline) = t \o <<Newline>>
  BY NewlinePiece, AppendPiece
<1>. QED
  BY <1>1, <1>2, <1>3 DEF Rest

\* Handing pieces on leaves them where they are in the stream.
LEMMA AheadKept ==
  ASSUME TypeOK,
         \/ Accept \/ StartFlush \/ AppendToBuffer \/ PushBuffer \/ WritePastBuffer
         \/ FlushEnds \/ Restart \/ UNCHANGED vars
  PROVE  Ahead' = Ahead /\ disk' = disk
<1>0. /\ op \in Seq(Pieces) /\ bw \in Seq(Pieces) /\ todo \in Seq(Pieces)
      /\ Rest \in Seq(Pieces)
  BY Typed, AheadParts
<1>1. CASE Accept \/ UNCHANGED vars
  BY <1>1 DEF Accept, vars, channel, bytes, Ahead
<1>2. CASE StartFlush \/ FlushEnds \/ Restart
  <2>1. pc # "json" /\ pc' # "json"
    BY <1>2 DEF StartFlush, FlushEnds, Flushed, Restart, Running
  <2>. QED
    BY <1>2, <2>1 DEF StartFlush, FlushEnds, Restart, OpenLog, bytes, channel, Ahead
<1>3. CASE AppendToBuffer
  <2>1. bw' = bw \o todo /\ op' = op /\ disk' = disk /\ Writes /\ Written(<<>>)
    BY <1>3 DEF AppendToBuffer
  <2> DEFINE n == IF pc = "json" THEN Append(<<>>, Newline) ELSE <<>>
  <2>2. Rest' = n
    BY <2>1, NoPieces, RestWritten
  <2>3. Rest = todo \o n
    BY <1>0, NoPieces, RestSplits
  <2>4. n \in Seq(Pieces)
    BY NoPieces, NewlinePiece, AppendPiece
  <2> HIDE DEF n
  <2>5. (op \o (bw \o todo)) \o n = (op \o bw) \o (todo \o n)
    <3>1. (op \o bw) \o todo = op \o (bw \o todo)
      BY SMTT(30), <1>0, Associative
    <3> DEFINE h == op \o bw
    <3>2. h \in Seq(Pieces) /\ todo \in Seq(Pieces)
      BY <1>0, ConcatProperties
    <3> HIDE DEF h
    <3>3. (h \o todo) \o n = h \o (todo \o n)
      BY <2>4, <3>2, Associative
    <3>. QED
      BY <3>1, <3>3 DEF h
  <2>. QED
    BY <2>1, <2>2, <2>3, <2>5 DEF Ahead, Rest
<1>4. CASE PushBuffer
  <2>1. /\ op = <<>> /\ disk' = disk /\ todo' = todo /\ pc' = pc
        /\ op' \in Seq(Pieces) /\ bw' \in Seq(Pieces) /\ op' \o bw' = bw
    BY <1>0, <1>4, PortionSplits DEF PushBuffer, FileIdle
  <2>2. op \o bw = bw
    BY <1>0, <2>1, NoPieces
  <2>. QED
    BY <2>1, <2>2 DEF Ahead
<1>5. CASE WritePastBuffer
  <2> DEFINE left == SubSeq(todo, Portion(todo) + 1, Len(todo))
             n == IF pc = "json" THEN Append(left, Newline) ELSE left
  <2>1. /\ op = <<>> /\ bw' = bw /\ disk' = disk /\ Writes /\ Written(left)
        /\ ~MustEmpty /\ Len(todo) >= BufferSize
    BY <1>5 DEF WritePastBuffer, FileIdle, PastBuffer
  <2>2. op' \in Seq(Pieces) /\ left \in Seq(Pieces) /\ op' \o left = todo
    BY <1>0, <1>5, PortionSplits DEF WritePastBuffer
  <2>3. bw = <<>>
    <3>1. SUFFICES ASSUME bw # <<>> PROVE FALSE
      OBVIOUS
    <3>2. Len(bw) \in Nat \ {0} /\ Len(todo) \in Nat
      BY <1>0, <3>1, EmptySeq, LenProperties
    <3>. QED
      BY <2>1, <3>1, <3>2, JsonlAssumption DEF MustEmpty, Overflows, JsonlAssumption
  <2> HIDE DEF left
  <2>4. n \in Seq(Pieces)
    BY <2>2, NewlinePiece, AppendProperties
  <2>5. Rest' = n
    BY <2>1, <2>2, RestWritten
  <2>6. Rest = op' \o n
    BY <2>2, RestSplits
  <2> HIDE DEF n
  <2>7. op' \o bw' = op' /\ (op \o bw) \o Rest = Rest
    BY <1>0, <2>1, <2>2, <2>3, NoPieces
  <2>. QED
    BY <2>1, <2>5, <2>6, <2>7 DEF Ahead, Rest
<1>. QED
  BY <1>1, <1>2, <1>3, <1>4, <1>5

LEMMA AheadTaken ==
  ASSUME TypeOK, Take
  PROVE  /\ taken' = taken + 1 /\ taken' \in 1 .. Len(size) /\ disk' = disk
         /\ Line(taken') \in Seq(Pieces) /\ Ahead' = Ahead \o Line(taken')
<1>0. op \in Seq(Pieces) /\ bw \in Seq(Pieces) /\ taken \in Nat /\ Len(size) \in Nat
  BY Typed
<1>1. /\ taken' = taken + 1 /\ taken' \in 1 .. Len(size) /\ todo = <<>>
      /\ pc = "select" /\ pc' = "json" /\ todo' = Json(taken')
      /\ op' = op /\ bw' = bw /\ disk' = disk
  BY <1>0 DEF Take, TypeOK, accepted, Writes
<1>2. Line(taken') \in Seq(Pieces)
  BY <1>1, JsonPieces, NewlinePiece, AppendProperties DEF Line, TypeOK, accepted
<1>3. Ahead = op \o bw
  BY <1>0, <1>1, ConcatProperties, NoPieces DEF Ahead
<1>. QED
  BY <1>1, <1>2, <1>3 DEF Ahead, Line

LEMMA AheadWritten ==
  ASSUME TypeOK, DiskWrites
  PROVE  /\ Head(op) \in Pieces /\ Ahead' \in Seq(Pieces)
         /\ disk' = disk \o <<Head(op)>> /\ Ahead = <<Head(op)>> \o Ahead'
<1>0. /\ op \in Seq(Pieces) /\ disk \in Seq(Pieces)
      /\ bw \in Seq(Pieces) /\ Rest \in Seq(Pieces) /\ bw \o Rest \in Seq(Pieces)
      /\ Ahead = op \o (bw \o Rest)
  BY Typed, AheadParts
<1>1. op # <<>> /\ Head(op) \in Pieces /\ op' = Tail(op) /\ op' \in Seq(Pieces)
  BY <1>0, HeadTailProperties DEF DiskWrites
<1>2. disk' = disk \o <<Head(op)>>
  BY <1>0, <1>1, AppendPiece DEF DiskWrites
<1>3. bw' = bw /\ Rest' = Rest
  BY DEF DiskWrites, Rest
<1>4. Ahead' = op' \o (bw \o Rest)
  <2>0. op' \in Seq(Pieces) /\ bw \in Seq(Pieces) /\ Rest \in Seq(Pieces)
    BY <1>0, <1>1
  <2>1. (op' \o bw) \o Rest = op' \o (bw \o Rest)
    BY <2>0, Associative
  <2>. QED
    BY <1>3, <2>1 DEF Ahead, Rest
<1>5. Ahead' \in Seq(Pieces)
  BY <1>0, <1>1, <1>4, ConcatProperties
<1>6. <<Head(op)>> \o (Tail(op) \o (bw \o Rest)) = op \o (bw \o Rest)
  BY <1>0, <1>1, HeadTail
<1>. QED
  BY <1>0, <1>1, <1>2, <1>4, <1>5, <1>6

LEMMA AheadFails ==
  ASSUME TypeOK, DiskFails
  PROVE  /\ disk' = disk /\ op \in Seq(Pieces) /\ Ahead' \in Seq(Pieces)
         /\ Ahead = op \o Ahead'
<1>1. disk' = disk /\ op' = <<>> /\ bw' = bw /\ Rest' = Rest
  BY DEF DiskFails, Rest
<1>2. <<>> \o bw = bw
  BY Typed, NoPieces
<1>3. Ahead' = bw \o Rest
  BY <1>1, <1>2 DEF Ahead, Rest
<1>. QED
  BY <1>1, <1>3, AheadParts

\* The error that write_one or the flush meets, and the end of the process, take the
\* pieces that were to come last.
LEMMA AheadDropped ==
  ASSUME TypeOK, Fails \/ \E f : Down(f) /\ op' \in {op, <<>>}
  PROVE  disk' = disk /\ \E s, t \in Seq(Pieces) : Ahead' = s /\ Ahead = s \o t
<1>0. /\ op \in Seq(Pieces) /\ bw \in Seq(Pieces) /\ Rest \in Seq(Pieces)
      /\ bw \o Rest \in Seq(Pieces) /\ <<>> \in Seq(Pieces)
      /\ Ahead = op \o (bw \o Rest)
  BY AheadParts, NoPieces
<1>1. /\ disk' = disk /\ op' \in {op, <<>>} /\ todo' = <<>> /\ pc' # "json"
      /\ bw' \in {bw, <<>>} /\ (op' = op \/ bw' = <<>>)
  BY DEF Fails, Skip, Down
<1>2. Ahead' = op' \o bw'
  <2>1. op' \o bw' \in Seq(Pieces)
    BY <1>0, <1>1, ConcatProperties
  <2>. QED
    BY <1>1, <2>1, NoPieces DEF Ahead
<1>3. CASE op' = op /\ bw' = bw
  <2>1. (op \o bw) \o Rest = op \o (bw \o Rest)
    BY SMTT(30), <1>0, Associative
  <2>2. op \o bw \in Seq(Pieces)
    BY <1>0, ConcatProperties
  <2>. QED
    BY <1>0, <1>1, <1>2, <1>3, <2>1, <2>2
<1>4. CASE op' = op /\ bw' = <<>>
  <2>1. op \o <<>> = op
    BY <1>0, NoPieces
  <2>. QED
    BY <1>0, <1>1, <1>2, <1>4, <2>1
<1>5. CASE op' = <<>> /\ bw' = <<>>
  <2>1. <<>> \o <<>> = <<>> /\ <<>> \o Ahead = Ahead /\ Ahead \in Seq(Pieces)
    BY <1>0, AheadParts, NoPieces
  <2>. QED
    BY <1>0, <1>1, <1>2, <1>5, <2>1
<1>. QED
  BY <1>1, <1>3, <1>4, <1>5

\* What the file holds or is to hold.
Text == disk \o Ahead

LEMMA TextTaken ==
  ASSUME TypeOK, Take
  PROVE  Text' = Text \o Line(taken')
<1>1. /\ disk \in Seq(Pieces) /\ Ahead \in Seq(Pieces) /\ Line(taken') \in Seq(Pieces)
      /\ disk' = disk /\ Ahead' = Ahead \o Line(taken')
  BY Typed, AheadParts, AheadTaken
<1>2. (disk \o Ahead) \o Line(taken') = disk \o (Ahead \o Line(taken'))
  BY <1>1, Associative
<1>. QED
  BY <1>1, <1>2 DEF Text

LEMMA TextWritten ==
  ASSUME TypeOK, DiskWrites
  PROVE  Text' = Text
<1>1. /\ disk \in Seq(Pieces) /\ <<Head(op)>> \in Seq(Pieces) /\ Ahead' \in Seq(Pieces)
      /\ disk' = disk \o <<Head(op)>> /\ Ahead = <<Head(op)>> \o Ahead'
  BY Typed, AheadWritten, AppendPiece
<1>2. (disk \o <<Head(op)>>) \o Ahead' = disk \o (<<Head(op)>> \o Ahead')
  BY <1>1, Associative
<1>. QED
  BY <1>1, <1>2 DEF Text

LEMMA LineAt ==
  ASSUME TypeOK, NEW r \in 1 .. Len(size)
  PROVE  /\ Line(r) \in Seq(Pieces) /\ Len(Line(r)) = size[r] + 1
         /\ \A x \in 1 .. size[r] : Line(r)[x] = <<r, x>>
         /\ Line(r)[size[r] + 1] = Newline
<1>1. size[r] \in Nat
  <2>1. size[r] \in Sizes
    BY ElementOfSeq DEF TypeOK
  <2>. QED
    BY <2>1, JsonlAssumption DEF JsonlAssumption
<1>2. Json(r) \in Seq(Pieces) /\ Newline \in Pieces
  BY JsonPieces, NewlinePiece DEF TypeOK, accepted
<1>3. Len(Json(r)) = size[r] /\ \A x \in 1 .. size[r] : Json(r)[x] = <<r, x>>
  BY <1>1 DEF Json
<1>. QED
  BY <1>2, <1>3, AppendProperties DEF Line

----------------------------------------------------------------------------
\* Without a failure.

\* LinesIntact is not inductive: what a write that has failed took is missing from it.
IntactInv ==
  /\ BytesInv
  /\ faults = 0 => ~failed /\ Text = LinesUpTo(taken)

LEMMA LinesNext ==
  ASSUME TypeOK, NEW n \in Nat, n + 1 \in 1 .. Len(size)
  PROVE  LinesUpTo(n + 1) = LinesUpTo(n) \o Line(n + 1)
<1> DEFINE q == [r \in 1 .. n + 1 |-> Line(r)]
           p == [r \in 1 .. n |-> Line(r)]
<1>1. Len(q) = n + 1 /\ Len(p) = n
  OBVIOUS
<1>2. Line(n + 1) \in Seq(Pieces)
  BY JsonPieces, NewlinePiece, AppendProperties DEF Line, TypeOK, accepted
<1>3. n = 0 => p = <<>>
  OBVIOUS
<1>4. \A i \in 1 .. n : p[i] = q[i]
  OBVIOUS
<1>5. q[n + 1] = Line(n + 1) /\ <<>> \o q[n + 1] = q[n + 1]
  BY <1>2, NoPieces
<1> HIDE DEF p, q
<1>6. FlattenSeq(q) = FlattenSeq(p) \o Line(n + 1)
  BY ZenonT(30), <1>1, <1>2, <1>3, <1>4, <1>5, FlattenNext
<1>. QED
  BY <1>6 DEF LinesUpTo, p, q

LEMMA IntactInit == Init => IntactInv
<1> SUFFICES ASSUME Init PROVE IntactInv
  OBVIOUS
<1>1. BytesInv
  BY BytesInit
<1>2. Text = <<>>
  BY NoPieces DEF Init, Text, Ahead
<1>3. LinesUpTo(0) = <<>>
  <2>1. [r \in 1 .. 0 |-> Line(r)] = <<>>
    OBVIOUS
  <2>. QED
    BY <2>1 DEF LinesUpTo, FlattenSeq
<1>. QED
  BY <1>1, <1>2, <1>3 DEF Init, IntactInv

LEMMA IntactStep == IntactInv /\ [Next]_vars => IntactInv'
<1> SUFFICES ASSUME IntactInv, [Next]_vars PROVE IntactInv'
  OBVIOUS
<1>1. BytesInv' /\ TypeOK /\ disk \in Seq(Pieces) /\ Ahead \in Seq(Pieces)
  BY BytesStep, Typed, AheadParts DEF IntactInv, BytesInv
<1>2. CASE UNCHANGED <<faults, failed, taken>> /\ Text' = Text
  <2>1. size' = size \/ \E n \in Sizes : size' = Append(size, n)
    BY <1>1 DEF Next, vars, channel, bytes, Accept, Take, StartFlush, AppendToBuffer,
       PushBuffer, WritePastBuffer, FlushEnds, Fails, DiskWrites, DiskFails,
       DrainTimesOut, Crash, Down, Restart, Ended
  <2>2. \A r \in 1 .. taken : size'[r] = size[r]
    <3>1. \A r \in 1 .. taken : r \in 1 .. Len(size)
      BY <1>1, Typed DEF TypeOK, accepted
    <3>. QED
      BY <1>1, <2>1, <3>1, AppendProperties DEF TypeOK
  <2>3. \A r \in 1 .. taken : Line(r)' = Line(r)
    BY <2>2 DEF Line, Json
  <2>4. LinesUpTo(taken)' = LinesUpTo(taken)
    BY <1>2, <2>3 DEF LinesUpTo
  <2>. QED
    BY <1>1, <1>2, <2>4 DEF IntactInv
<1>3. CASE /\ Accept \/ StartFlush \/ AppendToBuffer \/ PushBuffer \/ WritePastBuffer
              \/ FlushEnds \/ Restart \/ UNCHANGED vars
  <2>1. UNCHANGED <<faults, failed, taken>>
    BY <1>3 DEF Accept, StartFlush, AppendToBuffer, PushBuffer, WritePastBuffer,
       FlushEnds, Restart, vars, channel, bytes
  <2>. QED
    BY <1>1, <1>2, <1>3, <2>1, AheadKept DEF Text
<1>4. CASE Take
  <2>1. UNCHANGED <<faults, failed, size>>
    BY <1>4 DEF Take
  <2>2. taken' = taken + 1 /\ taken' \in 1 .. Len(size)
    BY <1>1, <1>4, AheadTaken
  <2>4. Text' = Text \o Line(taken + 1)
    BY <1>1, <1>4, <2>2, TextTaken
  <2>5. LinesUpTo(taken + 1) = LinesUpTo(taken) \o Line(taken + 1)
    BY <1>1, <2>2, Typed, LinesNext
  <2>6. LinesUpTo(taken)' = LinesUpTo(taken + 1)
    BY <2>1, <2>2 DEF LinesUpTo, Line, Json
  <2>. QED
    BY <1>1, <2>1, <2>4, <2>5, <2>6 DEF IntactInv
<1>5. CASE DiskWrites
  <2>1. UNCHANGED <<faults, failed, taken>>
    BY <1>5 DEF DiskWrites, channel
  <2>. QED
    BY <1>1, <1>2, <1>5, <2>1, TextWritten
<1>6. CASE Fails
  \* Nothing is reported that has not failed.
  <2>1. failed /\ faults' = faults
    BY <1>6 DEF Fails
  <2>. QED
    BY <1>1, <2>1 DEF IntactInv
<1>7. CASE DiskFails \/ DrainTimesOut \/ Crash
  <2>1. faults' = faults + 1
    BY <1>7 DEF DiskFails, DrainTimesOut, Crash, Down, Fault
  <2>2. faults' # 0
    BY <1>1, <2>1 DEF TypeOK
  <2>. QED
    BY <1>1, <2>2 DEF IntactInv
<1>. QED
  BY <1>3, <1>4, <1>5, <1>6, <1>7 DEF Next, Ended

\* While nothing has failed, file, File, BufWriter and write_one hold one whole line per
\* record taken from the channel, in order: no flush, write past the buffer or partial
\* write of the File drops, doubles or displaces a byte.
THEOREM LinesStayIntact == Spec => []LinesIntact
<1>1. IntactInv => LinesIntact
  BY DEF IntactInv, LinesIntact, Text
<1>. QED
  BY <1>1, IntactInit, IntactStep, PTL DEF Spec

----------------------------------------------------------------------------
\* Lines that are not one whole record, in a text t of records of the sizes z.

\* The JSON of record r follows the i first pieces of t.
Holds(z, t, i, r) == \A x \in 1 .. z[r] : t[i + x] = <<r, x>>

\* Position j ends a line that is one whole record.
GoodEnd(z, t, j) ==
  \E r \in 1 .. Len(z), i \in Nat :
    /\ j = i + z[r] + 1
    /\ Holds(z, t, i, r)
    /\ i = 0 \/ t[i] = Newline

SpoiltEnds(z, t) == {j \in 1 .. Len(t) : t[j] = Newline /\ ~GoodEnd(z, t, j)}

\* The last line has no end yet.
Open(t) == t # <<>> /\ t[Len(t)] # Newline

Damage(z, t) == Cardinality(SpoiltEnds(z, t)) + (IF Open(t) THEN 1 ELSE 0)

RecordSizes == Seq(Nat \ {0})

LEMMA SpoiltFinite ==
  ASSUME NEW z, NEW t \in Seq(Pieces)
  PROVE  IsFiniteSet(SpoiltEnds(z, t)) /\ Cardinality(SpoiltEnds(z, t)) \in Nat
<1>1. Len(t) \in Nat
  BY LenProperties
<1>2. IsFiniteSet(1 .. Len(t))
  BY <1>1, FS_Interval
<1>3. SpoiltEnds(z, t) \in SUBSET (1 .. Len(t))
  BY DEF SpoiltEnds
<1>4. IsFiniteSet(SpoiltEnds(z, t))
  BY <1>2, <1>3, FS_Subset
<1>. QED
  BY <1>4, FS_CardinalityType

\* A line that is in both of two texts is as good in one as in the other.
LEMMA GoodEndFront ==
  ASSUME NEW z \in RecordSizes, NEW s, NEW t, NEW n \in Nat,
         \A i \in 1 .. n : s[i] = t[i], NEW j \in 1 .. n
  PROVE  GoodEnd(z, s, j) <=> GoodEnd(z, t, j)
<1>1. ASSUME NEW a, NEW b, \A i \in 1 .. n : a[i] = b[i], GoodEnd(z, a, j)
      PROVE  GoodEnd(z, b, j)
  <2>1. PICK r \in 1 .. Len(z), i \in Nat :
          j = i + z[r] + 1 /\ Holds(z, a, i, r) /\ (i = 0 \/ a[i] = Newline)
    BY <1>1 DEF GoodEnd
  <2>2. z[r] \in Nat \ {0}
    BY ElementOfSeq DEF RecordSizes
  <2>3. \A x \in 1 .. z[r] : i + x \in 1 .. n
    BY <2>1, <2>2
  <2>4. i = 0 \/ i \in 1 .. n
    BY <2>1, <2>2
  <2>. QED
    BY ZenonT(30), <1>1, <2>1, <2>3, <2>4 DEF GoodEnd, Holds
<1>. QED
  BY <1>1

\* Sizes of further records spoil nothing.
LEMMA DamageAccept ==
  ASSUME NEW z \in RecordSizes, NEW y \in RecordSizes, Len(z) <= Len(y),
         \A r \in 1 .. Len(z) : y[r] = z[r], NEW t \in Seq(Pieces)
  PROVE  Damage(y, t) <= Damage(z, t)
<1>1. ASSUME NEW j, GoodEnd(z, t, j) PROVE GoodEnd(y, t, j)
  <2>1. PICK r \in 1 .. Len(z), i \in Nat :
          j = i + z[r] + 1 /\ Holds(z, t, i, r) /\ (i = 0 \/ t[i] = Newline)
    BY <1>1 DEF GoodEnd
  <2>2. r \in 1 .. Len(y) /\ y[r] = z[r]
    BY LenProperties DEF RecordSizes
  <2>. QED
    BY <2>1, <2>2 DEF GoodEnd, Holds
<1>2. SpoiltEnds(y, t) \in SUBSET SpoiltEnds(z, t)
  BY <1>1 DEF SpoiltEnds
<1>3. Cardinality(SpoiltEnds(y, t)) <= Cardinality(SpoiltEnds(z, t))
  BY <1>2, SpoiltFinite, FS_Subset
<1>. QED
  BY <1>3, SpoiltFinite DEF Damage

LEMMA OneMoreMember ==
  ASSUME NEW S, NEW x, IsFiniteSet(S)
  PROVE  /\ IsFiniteSet(S \cup {x})
         /\ Cardinality(S) \in Nat /\ Cardinality(S \cup {x}) \in Nat
         /\ Cardinality(S \cup {x}) <= Cardinality(S) + 1
<1>1. IsFiniteSet(S \cup {x})
  BY FS_AddElement
<1>2. Cardinality(S \cup {x}) = IF x \in S THEN Cardinality(S) ELSE Cardinality(S) + 1
  BY FS_AddElement
<1>3. Cardinality(S) \in Nat
  BY FS_CardinalityType
<1>. QED
  BY <1>1, <1>2, <1>3

\* A whole line that is added is good, or ends the one line that was open.
LEMMA DamageLine ==
  ASSUME NEW z \in RecordSizes, NEW t \in Seq(Pieces), NEW l \in Seq(Pieces),
         NEW r \in 1 .. Len(z), Len(l) = z[r] + 1,
         \A x \in 1 .. z[r] : l[x] = <<r, x>>, l[z[r] + 1] = Newline
  PROVE  Damage(z, t \o l) <= Damage(z, t)
<1> DEFINE all == t \o l
           end == Len(t) + z[r] + 1
<1>1. z[r] \in Nat \ {0} /\ Len(t) \in Nat /\ r \in Nat \ {0}
  BY ElementOfSeq, LenProperties DEF RecordSizes
<1>2. all \in Seq(Pieces) /\ Len(all) = end
  <2>1. all \in Seq(Pieces) /\ Len(all) = Len(t) + Len(l)
    BY ConcatAt
  <2>. QED
    BY <1>1, <2>1
<1>3. \A i \in 1 .. Len(t) : all[i] = t[i]
  BY <1>1, ConcatAt
<1>4. ASSUME NEW x \in 1 .. z[r] + 1 PROVE all[Len(t) + x] = l[x]
  <2>1. /\ Len(t) + x \in 1 .. Len(t) + Len(l) /\ ~(Len(t) + x <= Len(t))
        /\ Len(t) + x - Len(t) = x
    BY <1>1
  <2>2. all[Len(t) + x] = l[Len(t) + x - Len(t)]
    BY <2>1, ConcatAt
  <2>. QED
    BY <2>1, <2>2
<1> HIDE DEF all
<1>5. ASSUME NEW x \in 1 .. z[r]
      PROVE  all[Len(t) + x] = <<r, x>> /\ all[Len(t) + x] # Newline
  <2>1. x \in 1 .. z[r] + 1
    BY <1>1
  <2>2. all[Len(t) + x] = l[x]
    BY <1>4, <2>1
  <2>3. l[x] = <<r, x>> /\ <<r, x>> # Newline
    BY <1>1 DEF Newline
  <2>. QED
    BY <2>2, <2>3
<1>6. all[end] = Newline
  <2>1. z[r] + 1 \in 1 .. z[r] + 1 /\ Len(t) + (z[r] + 1) = end
    BY <1>1
  <2>. QED
    BY <1>4, <2>1
<1>7. ASSUME NEW j \in SpoiltEnds(z, all) PROVE j \in SpoiltEnds(z, t) \/ j = end
  <2>1. j \in 1 .. end /\ all[j] = Newline /\ ~GoodEnd(z, all, j)
    BY <1>2 DEF SpoiltEnds
  <2>2. CASE j \in 1 .. Len(t)
    BY <1>1, <1>3, <2>1, <2>2, GoodEndFront DEF SpoiltEnds
  <2>3. CASE j \notin 1 .. Len(t) /\ j # end
    <3>1. j - Len(t) \in 1 .. z[r] /\ Len(t) + (j - Len(t)) = j
      BY <1>1, <2>1, <2>3
    <3>. QED
      BY <1>5, <2>1, <3>1
  <2>. QED
    BY <2>2, <2>3
<1>8. ~Open(all)
  BY <1>2, <1>6 DEF Open
<1>9. CASE Open(t)
  <2>1. SpoiltEnds(z, all) \in SUBSET (SpoiltEnds(z, t) \cup {end})
    BY <1>7
  <2>2. /\ IsFiniteSet(SpoiltEnds(z, t) \cup {end})
        /\ Cardinality(SpoiltEnds(z, t) \cup {end}) <= Cardinality(SpoiltEnds(z, t)) + 1
    BY SpoiltFinite, OneMoreMember
  <2>3. Cardinality(SpoiltEnds(z, all)) <= Cardinality(SpoiltEnds(z, t) \cup {end})
    BY <2>1, <2>2, FS_Subset
  <2>4. /\ Cardinality(SpoiltEnds(z, all)) \in Nat
        /\ Cardinality(SpoiltEnds(z, t)) \in Nat
        /\ Cardinality(SpoiltEnds(z, t) \cup {end}) \in Nat
    BY <1>2, <2>2, SpoiltFinite, FS_CardinalityType
  <2>. QED
    BY <1>8, <1>9, <2>2, <2>3, <2>4 DEF Damage, all
<1>10. CASE ~Open(t)
  <2>1. Len(t) = 0 \/ all[Len(t)] = Newline
    <3>1. t = <<>> \/ t[Len(t)] = Newline
      BY <1>10 DEF Open
    <3>2. Len(t) = 0 \/ Len(t) \in 1 .. Len(t)
      BY <1>1
    <3>. QED
      BY <1>3, <3>1, <3>2, EmptySeq
  <2>2. GoodEnd(z, all, end)
    BY <1>1, <1>5, <2>1 DEF GoodEnd, Holds
  <2>3. SpoiltEnds(z, all) \in SUBSET SpoiltEnds(z, t)
    BY <1>7, <2>2 DEF SpoiltEnds
  <2>4. Cardinality(SpoiltEnds(z, all)) <= Cardinality(SpoiltEnds(z, t))
    BY <2>3, SpoiltFinite, FS_Subset
  <2>5. Damage(z, all) = Cardinality(SpoiltEnds(z, all)) + 0
    BY <1>8 DEF Damage
  <2>6. Damage(z, t) = Cardinality(SpoiltEnds(z, t)) + 0
    BY <1>10 DEF Damage
  <2>7. /\ Cardinality(SpoiltEnds(z, all)) \in Nat
        /\ Cardinality(SpoiltEnds(z, t)) \in Nat
    BY <1>2, SpoiltFinite
  <2>. QED
    BY <2>4, <2>5, <2>6, <2>7 DEF all
<1>. QED
  BY <1>9, <1>10

\* A run of pieces that is lost joins two lines to one, or leaves the last one open.
LEMMA DamageCut ==
  ASSUME NEW z \in RecordSizes,
         NEW s \in Seq(Pieces), NEW v \in Seq(Pieces), NEW u \in Seq(Pieces)
  PROVE  Damage(z, s \o u) <= Damage(z, s \o (v \o u)) + 1
<1> DEFINE all == s \o (v \o u)
           kept == s \o u
           at(j) == Place(j, Len(s), Len(v))
           \* Ends of lines that lie on one side of the cut.
           Apart(j) == j <= Len(s) \/ \E k \in Len(s) + 1 .. j - 1 : kept[k] = Newline
           A == {j \in SpoiltEnds(z, kept) : Apart(j)}
           B == {j \in SpoiltEnds(z, kept) : ~Apart(j)}
<1>1. /\ Len(s) \in Nat /\ Len(v) \in Nat /\ Len(u) \in Nat
      /\ Len(kept) = Len(s) + Len(u)
      /\ Len(all) = Len(s) + (Len(v) + Len(u))
  BY CutAt
<1>2. kept \in Seq(Pieces) /\ all \in Seq(Pieces)
  BY CutAt
<1>3. \A j \in 1 .. Len(kept) : kept[j] = all[at(j)]
  <2>1. \A j \in 1 .. Len(s) + Len(u) : kept[j] = all[at(j)]
    BY CutAt
  <2>. QED
    BY <1>1, <2>1
<1>4. /\ \A j \in 1 .. Len(kept) : at(j) \in 1 .. Len(all)
      /\ \A j, k \in 1 .. Len(kept) : j < k => at(j) < at(k)
  BY <1>1, PlaceRises
<1>5. \A j \in 1 .. Len(s) : j \in 1 .. Len(kept) /\ at(j) = j
  BY <1>1 DEF Place
<1>6. \A j \in Len(s) + 1 .. Len(kept) : at(j) = j + Len(v)
  BY <1>1 DEF Place
<1> HIDE DEF all, kept, at
<1>7. \A j \in 1 .. Len(s) : kept[j] = all[j]
  BY <1>3, <1>5
<1>8. ASSUME NEW j \in A PROVE at(j) \in SpoiltEnds(z, all)
  <2>1. j \in 1 .. Len(kept) /\ kept[j] = Newline /\ ~GoodEnd(z, kept, j)
    BY DEF SpoiltEnds
  <2>2. at(j) \in 1 .. Len(all) /\ all[at(j)] = Newline
    BY <1>3, <1>4, <2>1
  <2>3. CASE j <= Len(s)
    <3>1. j \in 1 .. Len(s) /\ at(j) = j
      BY <1>1, <1>5, <2>1, <2>3
    <3>2. ~GoodEnd(z, all, j)
      BY <1>1, <1>7, <2>1, <3>1, GoodEndFront
    <3>. QED
      BY <2>2, <3>1, <3>2 DEF SpoiltEnds
  <2>4. CASE ~(j <= Len(s))
    <3>1. PICK k \in Len(s) + 1 .. j - 1 : kept[k] = Newline
      BY <2>4
    <3>2. /\ k \in Len(s) + 1 .. Len(kept) /\ k \in 1 .. Len(kept)
          /\ j \in Len(s) + 1 .. Len(kept)
      BY <1>1, <2>1, <2>4
    <3>3. at(k) = k + Len(v) /\ at(j) = j + Len(v) /\ all[k + Len(v)] = Newline
      BY <1>3, <1>6, <3>1, <3>2
    <3>4. ASSUME GoodEnd(z, all, at(j)) PROVE FALSE
      <4>1. PICK r \in 1 .. Len(z), i \in Nat :
              /\ at(j) = i + z[r] + 1 /\ Holds(z, all, i, r)
              /\ i = 0 \/ all[i] = Newline
        BY <3>4 DEF GoodEnd
      <4>2. z[r] \in Nat \ {0} /\ r \in Nat \ {0}
        BY ElementOfSeq, LenProperties DEF RecordSizes
      <4> DEFINE a == Len(s)
                 c == Len(v)
                 w == z[r]
      <4>7. /\ a \in Nat /\ c \in Nat /\ w \in Nat /\ i \in Nat
            /\ j \in Nat /\ k \in Nat /\ Len(kept) \in Nat
            /\ j + c = i + w + 1 /\ j <= Len(kept) /\ a + 1 <= k /\ k <= j - 1
        BY <1>1, <3>1, <3>2, <3>3, <4>1, <4>2
      <4> HIDE DEF a, c, w
      <4>3. ~(k + c > i)
        <5>1. SUFFICES ASSUME k + c > i PROVE FALSE
          OBVIOUS
        <5>2. k + c - i \in 1 .. w /\ i + (k + c - i) = k + c
          BY <4>7, <5>1
        <5>3. all[k + c] = <<r, k + c - i>>
          BY <4>1, <5>2 DEF Holds, w
        <5>. QED
          BY <3>3, <4>2, <5>3 DEF Newline, c
      <4> DEFINE h == i - c
      <4>4. /\ h \in Nat /\ h \in a + 1 .. Len(kept) /\ h \in 1 .. Len(kept)
            /\ h + c = i /\ j = h + w + 1
        BY <4>3, <4>7
      <4>5. kept[h] = Newline
        <5>1. i # 0
          BY <4>4, <4>7
        <5>2. at(h) = i
          BY <1>6, <4>4 DEF a, c
        <5>. QED
          BY <1>3, <4>1, <4>4, <5>1, <5>2
      <4>6. ASSUME NEW x \in 1 .. z[r] PROVE kept[h + x] = <<r, x>>
        <5>0. x \in 1 .. w
          BY DEF w
        <5>1. /\ h + x \in a + 1 .. Len(kept) /\ h + x \in 1 .. Len(kept)
              /\ h + x + c = i + x
          BY <4>4, <4>7, <5>0
        <5>2. kept[h + x] = all[i + x]
          BY <1>3, <1>6, <5>1 DEF a, c
        <5>. QED
          BY <4>1, <5>2 DEF Holds
      <4>. QED
        BY <2>1, <4>4, <4>5, <4>6 DEF GoodEnd, Holds, w
    <3>. QED
      BY <2>2, <3>4 DEF SpoiltEnds
  <2>. QED
    BY <2>3, <2>4
<1>9. Cardinality(A) <= Cardinality(SpoiltEnds(z, all))
  <2> DEFINE f == [j \in A |-> at(j)]
  <2>1. A \subseteq 1 .. Len(kept)
    BY DEF SpoiltEnds
  <2>2. \A j, k \in A : at(j) = at(k) => j = k
    <3> SUFFICES ASSUME NEW j \in A, NEW k \in A, at(j) = at(k), j # k PROVE FALSE
      OBVIOUS
    <3>1. /\ j \in 1 .. Len(kept) /\ k \in 1 .. Len(kept)
          /\ at(j) \in Nat /\ at(k) \in Nat /\ (j < k \/ k < j)
      BY <1>1, <1>4, <2>1
    <3>. QED
      BY <1>4, <3>1
  <2>3. f \in Injection(A, SpoiltEnds(z, all))
    <3>1. f \in [A -> SpoiltEnds(z, all)]
      BY <1>8
    <3>2. \A j, k \in A : f[j] = f[k] => j = k
      BY <2>2
    <3>. QED
      BY <3>1, <3>2 DEF Injection, IsInjective
  <2>. QED
    BY <1>2, <2>3, SpoiltFinite, FS_Injection
<1>10. ASSUME NEW j \in B, NEW k \in B PROVE j = k
  <2>1. /\ j \in Len(s) + 1 .. Len(kept) /\ k \in Len(s) + 1 .. Len(kept)
        /\ kept[j] = Newline /\ kept[k] = Newline
    BY <1>1 DEF SpoiltEnds
  <2>. QED
    BY <1>1, <2>1
<1>11. SpoiltEnds(z, kept) = A \cup B
  OBVIOUS
<1> HIDE DEF A, B, Apart
<1>12. /\ IsFiniteSet(SpoiltEnds(z, kept)) /\ Cardinality(SpoiltEnds(z, kept)) \in Nat
       /\ IsFiniteSet(SpoiltEnds(z, all)) /\ Cardinality(SpoiltEnds(z, all)) \in Nat
  BY <1>2, SpoiltFinite
<1>13. IsFiniteSet(A) /\ Cardinality(A) \in Nat
  BY <1>11, <1>12, FS_Subset, FS_CardinalityType
<1>14. CASE B = {}
  <2>1. Cardinality(SpoiltEnds(z, kept)) <= Cardinality(SpoiltEnds(z, all))
    BY <1>9, <1>11, <1>14
  <2>. QED
    BY <1>12, <2>1 DEF Damage, all, kept
<1>15. CASE B # {}
  <2>1. PICK j : j \in B
    BY <1>15
  <2>2. SpoiltEnds(z, kept) \in SUBSET (A \cup {j})
    BY <1>10, <1>11, <2>1
  <2>3. /\ IsFiniteSet(A \cup {j}) /\ Cardinality(A \cup {j}) \in Nat
        /\ Cardinality(A \cup {j}) <= Cardinality(A) + 1
    BY <1>13, OneMoreMember
  <2>4. Cardinality(SpoiltEnds(z, kept)) <= Cardinality(A \cup {j})
    BY <2>2, <2>3, FS_Subset
  <2>5. Cardinality(SpoiltEnds(z, kept)) <= Cardinality(SpoiltEnds(z, all)) + 1
    BY <1>9, <1>12, <1>13, <2>3, <2>4
  <2>6. Open(kept) <=> Open(all)
    \* The line that is spoilt ends after the cut: there is a last piece, the same.
    <3>1. j \in Len(s) + 1 .. Len(kept)
      BY <1>1, <2>1 DEF B, Apart, SpoiltEnds
    <3>2. /\ Len(kept) \in Len(s) + 1 .. Len(kept) /\ Len(kept) \in 1 .. Len(kept)
          /\ Len(kept) + Len(v) = Len(all) /\ Len(kept) # 0 /\ Len(all) # 0
      BY <1>1, <3>1
    <3>3. kept[Len(kept)] = all[Len(all)]
      BY <1>3, <1>6, <3>2
    <3>4. kept # <<>> /\ all # <<>>
      BY <3>2, EmptySeq
    <3>. QED
      BY <3>3, <3>4 DEF Open
  <2>. QED
    BY <1>12, <2>5, <2>6 DEF Damage, all, kept
<1>. QED
  BY <1>14, <1>15

LEMMA DamageEnd ==
  ASSUME NEW z \in RecordSizes, NEW s \in Seq(Pieces), NEW t \in Seq(Pieces)
  PROVE  Damage(z, s) <= Damage(z, s \o t) + 1
<1>1. <<>> \in Seq(Pieces) /\ s \o <<>> = s /\ t \o <<>> = t
  BY NoPieces
<1>2. Damage(z, s \o <<>>) <= Damage(z, s \o (t \o <<>>)) + 1
  BY <1>1, DamageCut
<1>. QED
  BY <1>1, <1>2

LEMMA DamageNumber ==
  ASSUME NEW z, NEW t \in Seq(Pieces)
  PROVE  Damage(z, t) \in Nat
<1>1. Cardinality(SpoiltEnds(z, t)) \in Nat
  BY SpoiltFinite
<1>. QED
  BY <1>1 DEF Damage

----------------------------------------------------------------------------
\* With failures.

LEMMA SizesAreRecordSizes == TypeOK => size \in RecordSizes
<1>1. Sizes \subseteq Nat \ {0}
  BY JsonlAssumption DEF JsonlAssumption
<1>2. size \in Seq(Sizes) => size \in Seq(Nat \ {0})
  BY <1>1, SeqMonotonic
<1>. QED
  BY <1>2 DEF TypeOK, RecordSizes

LEMMA TextPieces == TypeOK => Text \in Seq(Pieces) /\ disk \in Seq(Pieces)
BY AheadParts, Typed, ConcatProperties DEF Text

\* DamageBounded is not inductive.  A write that fails damages two lines, but the
\* second only when its error is reported: until then it has one more to its credit.
DamageInv ==
  /\ BytesInv
  /\ Damage(size, Text) + (IF failed THEN 1 ELSE 0) <= 2 * faults

\* One record is added to `size` in Accept, and in no other step.
LEMMA SizeGrows ==
  ASSUME TypeOK, [Next]_vars
  PROVE  /\ size' = size \/ Accept
         /\ Len(size) <= Len(size') /\ \A r \in 1 .. Len(size) : size'[r] = size[r]
<1>0. Len(size) \in Nat
  BY Typed
<1>1. CASE Accept
  <2>1. PICK n \in Sizes : size' = Append(size, n)
    BY <1>1 DEF Accept
  <2>2. size \in Seq(Sizes)
    BY DEF TypeOK
  <2>3. Len(size') = Len(size) + 1 /\ \A r \in 1 .. Len(size) : size'[r] = size[r]
    BY <2>1, <2>2, AppendProperties
  <2>. QED
    BY <1>0, <1>1, <2>3
<1>2. CASE ~Accept
  <2>1. size' = size
    BY <1>2 DEF Next, vars, channel, bytes, Accept, Take, StartFlush, AppendToBuffer,
       PushBuffer, WritePastBuffer, FlushEnds, Fails, DiskWrites, DiskFails,
       DrainTimesOut, Crash, Down, Restart, Ended
  <2>. QED
    BY <1>0, <2>1
<1>. QED
  BY <1>1, <1>2

LEMMA DamageInit == Init => DamageInv
<1> SUFFICES ASSUME Init PROVE DamageInv
  OBVIOUS
<1>1. BytesInv
  BY BytesInit
<1>2. Text = <<>>
  BY NoPieces DEF Init, Text, Ahead
<1>3. SpoiltEnds(size, <<>>) = {}
  BY DEF SpoiltEnds
<1>4. Damage(size, Text) = 0
  BY <1>2, <1>3, FS_EmptySet DEF Damage, Open
<1>. QED
  BY <1>1, <1>4 DEF Init, DamageInv

LEMMA DamageStep == DamageInv /\ [Next]_vars => DamageInv'
<1> SUFFICES ASSUME DamageInv, [Next]_vars PROVE DamageInv'
  OBVIOUS
<1>1. /\ BytesInv' /\ TypeOK /\ TypeOK'
      /\ size \in RecordSizes /\ size' \in RecordSizes
      /\ Text \in Seq(Pieces) /\ Text' \in Seq(Pieces) /\ disk \in Seq(Pieces)
  <2>1. BytesInv' /\ TypeOK /\ TypeOK'
    BY BytesStep DEF DamageInv, BytesInv
  <2>2. (size \in RecordSizes)'
    BY <2>1, SizesAreRecordSizes, PTL
  <2>3. (Text \in Seq(Pieces) /\ disk \in Seq(Pieces))'
    BY <2>1, TextPieces, PTL
  <2>. QED
    BY <2>1, <2>2, <2>3, SizesAreRecordSizes, TextPieces
<1>2. /\ Damage(size, Text) \in Nat /\ Damage(size', Text') \in Nat
      /\ Damage(size, Text') \in Nat
      /\ faults \in Nat
  BY <1>1, DamageNumber DEF TypeOK
<1>3. Damage(size', Text') <= Damage(size, Text')
  BY <1>1, SizeGrows, DamageAccept
<1>4. CASE UNCHANGED <<faults, failed>> /\ Damage(size, Text') <= Damage(size, Text)
  BY <1>1, <1>2, <1>3, <1>4 DEF DamageInv
<1>5. CASE /\ Accept \/ StartFlush \/ AppendToBuffer \/ PushBuffer \/ WritePastBuffer
              \/ FlushEnds \/ Restart \/ UNCHANGED vars
  <2>1. UNCHANGED <<faults, failed>>
    BY <1>5 DEF Accept, StartFlush, AppendToBuffer, PushBuffer, WritePastBuffer,
       FlushEnds, Restart, vars, channel, bytes
  <2>2. Text' = Text
    BY <1>1, <1>5, AheadKept DEF Text
  <2>. QED
    BY <1>2, <1>4, <2>1, <2>2
<1>6. CASE Take
  <2> DEFINE r == taken'
  <2>1. UNCHANGED <<faults, failed>> /\ size' = size
    BY <1>6 DEF Take
  <2>2. r \in 1 .. Len(size)
    BY <1>1, <1>6, AheadTaken
  <2>4. Text' = Text \o Line(r)
    BY <1>1, <1>6, TextTaken
  <2>5. /\ Line(r) \in Seq(Pieces)
        /\ Len(Line(r)) = size[r] + 1 /\ Line(r)[size[r] + 1] = Newline
        /\ \A x \in 1 .. size[r] : Line(r)[x] = <<r, x>>
    BY <1>1, <2>2, LineAt
  <2> HIDE DEF r
  <2>6. Damage(size, Text') <= Damage(size, Text)
    BY <1>1, <2>2, <2>4, <2>5, DamageLine
  <2>. QED
    BY <1>4, <2>1, <2>6
<1>7. CASE DiskWrites
  <2>1. UNCHANGED <<faults, failed>>
    BY <1>7 DEF DiskWrites
  <2>2. Text' = Text
    BY <1>1, <1>7, TextWritten
  <2>. QED
    BY <1>2, <1>4, <2>1, <2>2
<1>8. CASE DiskFails
  <2>1. ~failed /\ failed' /\ faults' = faults + 1
    BY <1>1, <1>8 DEF DiskFails, Fault, TypeOK
  <2>2. /\ disk' = disk /\ op \in Seq(Pieces) /\ Ahead' \in Seq(Pieces)
        /\ Ahead = op \o Ahead'
    BY <1>1, <1>8, AheadFails
  <2>3. Damage(size, disk \o Ahead') <= Damage(size, disk \o (op \o Ahead')) + 1
    BY <1>1, <2>2, DamageCut
  <2>4. Damage(size, Text') <= Damage(size, Text) + 1
    BY <2>2, <2>3 DEF Text
  <2>. QED
    BY <1>1, <1>2, <1>3, <2>1, <2>4 DEF DamageInv
<1>9. ASSUME Fails \/ \E f : Down(f) /\ op' \in {op, <<>>}
      PROVE  Damage(size, Text') <= Damage(size, Text) + 1
  <2>1. PICK s, t \in Seq(Pieces) : disk' = disk /\ Ahead' = s /\ Ahead = s \o t
    BY <1>1, <1>9, AheadDropped
  <2>2. (disk \o s) \o t = disk \o (s \o t)
    BY SMTT(30), <1>1, Associative
  <2>3. Text = Text' \o t
    BY <2>1, <2>2 DEF Text
  <2>. QED
    BY <1>1, <2>3, DamageEnd
<1>10. CASE Fails
  <2>1. failed /\ ~failed' /\ faults' = faults
    BY <1>10 DEF Fails
  <2>. QED
    BY <1>1, <1>2, <1>3, <1>9, <1>10, <2>1 DEF DamageInv
<1>11. CASE DrainTimesOut \/ Crash
  <2>1. ~failed' /\ faults' = faults + 1
    BY <1>11 DEF DrainTimesOut, Crash, Down, Fault
  <2>2. Damage(size, Text') <= Damage(size, Text) + 1
    BY <1>9, <1>11 DEF DrainTimesOut, Crash
  <2>. QED
    BY <1>1, <1>2, <1>3, <2>1, <2>2 DEF DamageInv
<1>. QED
  BY <1>5, <1>6, <1>7, <1>8, <1>10, <1>11 DEF Next, Ended

LEMMA FollowsHolds ==
  ASSUME TypeOK, NEW r \in 1 .. Len(size), NEW s \in Seq(Pieces), NEW i \in Nat,
         i + size[r] <= Len(s)
  PROVE  Follows(s, i, r) <=> Holds(size, s, i, r)
<1> DEFINE run == SubSeq(s, i + 1, i + size[r])
<1>1. size[r] \in Nat /\ Len(s) \in Nat
  BY SizesAreRecordSizes, ElementOfSeq, LenProperties DEF RecordSizes
<1>2. \A x \in i + 1 .. i + size[r] : s[x] \in Pieces
  BY <1>1, ElementOfSeq
<1>3. /\ run \in Seq(Pieces)
      /\ Len(run) = IF i + 1 <= i + size[r] THEN i + size[r] - (i + 1) + 1 ELSE 0
      /\ \A x \in 1 .. i + size[r] - (i + 1) + 1 : run[x] = s[i + 1 + x - 1]
  BY <1>1, <1>2, SubSeqProperties
<1> HIDE DEF run
<1>4. Len(run) = size[r] /\ \A x \in 1 .. size[r] : run[x] = s[i + x]
  BY <1>1, <1>3
<1>5. Json(r) \in Seq(Pieces) /\ Len(Json(r)) = size[r]
  <2>1. Json(r) \in Seq(Pieces)
    BY JsonPieces DEF TypeOK, accepted
  <2>. QED
    BY <1>1, <2>1 DEF Json
<1>6. \A x \in 1 .. size[r] : Json(r)[x] = <<r, x>>
  BY DEF Json
<1>7. run = Json(r) <=> \A x \in 1 .. size[r] : run[x] = Json(r)[x]
  BY <1>3, <1>4, <1>5, SeqEqual
<1>. QED
  BY <1>4, <1>6, <1>7 DEF Follows, Holds, run

LEMMA TextFront ==
  ASSUME TypeOK
  PROVE  /\ Len(disk) \in Nat /\ Len(Text) = Len(disk) + Len(Ahead) /\ Len(Ahead) \in Nat
         /\ \A i \in 1 .. Len(disk) : Text[i] = disk[i]
BY AheadParts, Typed, ConcatAt DEF Text

\* Record r is readable in the first d pieces of t.
ReadableIn(z, t, d, r) ==
  \E i \in Nat :
    /\ i + z[r] + 1 <= d
    /\ Holds(z, t, i, r)
    /\ i = 0 \/ t[i] = Newline
    /\ t[i + z[r] + 1] = Newline

LEMMA ReadableInText ==
  ASSUME TypeOK, NEW r \in 1 .. Len(size)
  PROVE  Readable(r) <=> ReadableIn(size, Text, Len(disk), r)
<1> DEFINE d == Len(disk)
<1>1. size[r] \in Nat \ {0} /\ d \in Nat
  BY SizesAreRecordSizes, TextFront, ElementOfSeq DEF RecordSizes
<1>2. \A i \in 1 .. d : Text[i] = disk[i]
  BY TextFront
<1>3. disk \in Seq(Pieces)
  BY Typed
<1>4. ASSUME NEW i \in Nat, i + size[r] + 1 <= d
      PROVE  /\ Follows(disk, i, r) <=> Holds(size, Text, i, r)
             /\ (i = 0 \/ disk[i] = Newline) <=> (i = 0 \/ Text[i] = Newline)
             /\ disk[i + size[r] + 1] = Newline <=> Text[i + size[r] + 1] = Newline
  <2>1. \A x \in 1 .. size[r] : i + x \in 1 .. d
    BY <1>1, <1>4
  <2>2. Holds(size, disk, i, r) <=> Holds(size, Text, i, r)
    BY <1>2, <2>1 DEF Holds
  <2>3. Follows(disk, i, r) <=> Holds(size, disk, i, r)
    <3>1. i + size[r] <= Len(disk)
      BY <1>1, <1>4
    <3>. QED
      BY <1>3, <3>1, FollowsHolds
  <2>4. (i = 0 \/ i \in 1 .. d) /\ i + size[r] + 1 \in 1 .. d
    BY <1>1, <1>4
  <2>. QED
    BY <1>2, <2>2, <2>3, <2>4
<1>5. \A i \in Nat : i \in 0 .. d - size[r] - 1 <=> i + size[r] + 1 <= d
  BY <1>1
<1>6. \A i \in 0 .. d - size[r] - 1 : i \in Nat
  BY <1>1
<1> HIDE DEF d
<1>7. Readable(r) <=>
        \E i \in 0 .. d - size[r] - 1 :
          /\ Follows(disk, i, r)
          /\ i = 0 \/ disk[i] = Newline
          /\ disk[i + size[r] + 1] = Newline
  BY DEF Readable, d
<1>8. Readable(r) <=> ReadableIn(size, Text, d, r)
  BY <1>4, <1>5, <1>6, <1>7 DEF ReadableIn
<1>. QED
  BY <1>8 DEF d

\* In a sound text every piece of a record has one place.
LEMMA OnePlace ==
  ASSUME NEW t, Ordered(t), Len(t) \in Nat, NEW i \in 1 .. Len(t), NEW j \in 1 .. Len(t),
         t[i] = t[j], t[i][1] \in Nat \ {0}, t[i][2] \in Nat
  PROVE  i = j
<1>1. Newline \notin {t[i], t[j]} /\ ~Before(t[i], t[j]) /\ ~Before(t[j], t[i])
  BY DEF Newline, Before
<1>2. ~(i < j) /\ ~(j < i)
  BY <1>1 DEF Ordered
<1>. QED
  BY <1>2

\* Every line in the file that is not spoilt is a record that a reader finds.
LEMMA DamageCounts == DamageInv => DamageBounded
<1> DEFINE N == {i \in DOMAIN disk : disk[i] = Newline}
           W == {r \in 1 .. accepted : Readable(r)}
           Z == SpoiltEnds(size, Text)
           G == N \ Z
           f == [j \in G |-> Text[j - 1][1]]
<1> SUFFICES ASSUME DamageInv PROVE Cardinality(N) <= Cardinality(W) + 2 * faults
  BY DEF DamageBounded
<1>1. TypeOK /\ Text \in Seq(Pieces) /\ disk \in Seq(Pieces) /\ faults \in Nat
  BY TextPieces DEF DamageInv, BytesInv, TypeOK
<1>2. Ordered(Text)
  BY AheadSound DEF DamageInv, Sound, Text
<1>3. /\ Len(disk) \in Nat /\ Len(Text) \in Nat /\ Len(disk) <= Len(Text)
      /\ DOMAIN disk = 1 .. Len(disk) /\ \A i \in 1 .. Len(disk) : Text[i] = disk[i]
      /\ Len(size) \in Nat
  BY <1>1, TextFront, LenProperties, Typed
<1>4. IsFiniteSet(Z) /\ Cardinality(Z) \in Nat /\ Cardinality(Z) <= 2 * faults
  <2>1. IsFiniteSet(Z) /\ Cardinality(Z) \in Nat
    BY <1>1, SpoiltFinite
  <2>. QED
    BY <1>1, <2>1 DEF DamageInv, Damage
<1>5. IsFiniteSet(N) /\ IsFiniteSet(G) /\ IsFiniteSet(W)
  <2>1. IsFiniteSet(1 .. Len(disk)) /\ IsFiniteSet(1 .. Len(size))
    BY <1>3, FS_Interval
  <2>2. N \in SUBSET (1 .. Len(disk)) /\ W \in SUBSET (1 .. Len(size))
    BY <1>3 DEF accepted
  <2>. QED
    BY <2>1, <2>2, FS_Subset
<1>6. ASSUME NEW j \in G
      PROVE  \E r \in W : /\ j - 1 \in 1 .. Len(Text)
                          /\ size[r] \in Nat /\ r \in Nat \ {0}
                          /\ Text[j - 1] = <<r, size[r]>>
  <2>1. j \in 1 .. Len(disk) /\ j \in 1 .. Len(Text) /\ Text[j] = Newline
    BY <1>3
  <2>2. GoodEnd(size, Text, j)
    BY <2>1 DEF SpoiltEnds
  <2>3. PICK r \in 1 .. Len(size), i \in Nat :
          /\ j = i + size[r] + 1 /\ Holds(size, Text, i, r)
          /\ i = 0 \/ Text[i] = Newline
    BY <2>2 DEF GoodEnd
  <2>4. size[r] \in Nat \ {0} /\ r \in Nat \ {0}
    BY <1>1, <1>3, SizesAreRecordSizes, ElementOfSeq DEF RecordSizes
  <2>5. ReadableIn(size, Text, Len(disk), r)
    BY <1>3, <2>1, <2>3, <2>4 DEF ReadableIn
  <2>6. r \in W
    BY <1>1, <2>5, ReadableInText DEF accepted
  <2>7. Text[j - 1] = <<r, size[r]>>
    <3>1. size[r] \in 1 .. size[r] /\ j - 1 = i + size[r]
      BY <2>3, <2>4
    <3>. QED
      BY <2>3, <3>1 DEF Holds
  <2>8. j - 1 \in 1 .. Len(Text)
    BY <1>3, <2>1, <2>3, <2>4
  <2>. QED
    BY <2>4, <2>6, <2>7, <2>8
<1>7. f \in Injection(G, W)
  <2>1. \A j \in G : Text[j - 1][1] \in W
    BY <1>6
  <2>2. ASSUME NEW j \in G, NEW k \in G, Text[j - 1][1] = Text[k - 1][1] PROVE j = k
    <3>1. PICK r \in W : /\ j - 1 \in 1 .. Len(Text) /\ size[r] \in Nat
                         /\ r \in Nat \ {0} /\ Text[j - 1] = <<r, size[r]>>
      BY <1>6
    <3>2. k - 1 \in 1 .. Len(Text) /\ Text[k - 1] = Text[j - 1]
      BY <1>6, <2>2, <3>1
    <3>3. j - 1 = k - 1
      <4> DEFINE a == j - 1
                 b == k - 1
      <4>1. /\ a \in 1 .. Len(Text) /\ b \in 1 .. Len(Text) /\ Text[a] = Text[b]
            /\ Text[a][1] \in Nat \ {0} /\ Text[a][2] \in Nat
        BY <3>1, <3>2
      <4> HIDE DEF a, b
      <4>2. a = b
        BY <1>2, <1>3, <4>1, OnePlace
      <4>. QED
        BY <4>2 DEF a, b
    <3>4. j \in Nat /\ k \in Nat
      BY <1>3
    <3>. QED
      BY <3>3, <3>4
  <2> HIDE DEF G, W
  <2>3. f \in [G -> W] /\ \A j, k \in G : f[j] = f[k] => j = k
    BY <2>1, <2>2
  <2>. QED
    BY <2>3 DEF Injection, IsInjective
<1> HIDE DEF f, G, N, W, Z
<1>8. Cardinality(G) <= Cardinality(W)
  BY <1>5, <1>7, FS_Injection
<1>9. /\ IsFiniteSet(G \cup Z) /\ Cardinality(N) <= Cardinality(G \cup Z)
      /\ Cardinality(G \cup Z) = Cardinality(G) + Cardinality(Z) - Cardinality(G \cap Z)
  <2>1. /\ IsFiniteSet(G \cup Z)
        /\ Cardinality(G \cup Z) = Cardinality(G) + Cardinality(Z) - Cardinality(G \cap Z)
    BY <1>4, <1>5, FS_Union
  <2>2. N \in SUBSET (G \cup Z)
    BY DEF G
  <2>. QED
    BY <2>1, <2>2, FS_Subset
<1>10. /\ Cardinality(N) \in Nat /\ Cardinality(G) \in Nat /\ Cardinality(W) \in Nat
       /\ Cardinality(G \cap Z) \in Nat
  BY <1>5, FS_CardinalityType, FS_Intersection
<1>. QED
  BY <1>1, <1>4, <1>8, <1>9, <1>10

\* Whatever fails and wherever it strikes, at most two lines of the file per fault are
\* not one whole record: the line a failed write cuts, and the one that is being
\* written when the File reports it.
THEOREM DamageIsBounded == Spec => []DamageBounded
BY DamageInit, DamageStep, DamageCounts, PTL DEF Spec
====================================================================================
