---------------------------- MODULE JsonlWriterProofs ----------------------------
(****************************************************************************)
(* Theorems about JsonlWriter, for every size of records, of the BufWriter  *)
(* and of the File's writes, and every set and number of faults.            *)
(****************************************************************************)
EXTENDS JsonlWriter, SequenceTheorems, TLAPS

----------------------------------------------------------------------------
\* Sequences of pieces.

\* No piece of s belongs to a record after n.
UpTo(s, n) == \A i \in 1 .. Len(s) : s[i][1] <= n

Sound(s, n) == s \in Seq(Pieces) /\ Ordered(s) /\ UpTo(s, n)

LEMMA PiecesAreNumbers == \A p \in Pieces : p[1] \in Nat /\ p[2] \in Nat
BY DEF Pieces, Newline

\* A concatenation, position by position.
LEMMA ConcatAt ==
  ASSUME NEW s \in Seq(Pieces), NEW t \in Seq(Pieces)
  PROVE  /\ s \o t \in Seq(Pieces) /\ Len(s) \in Nat /\ Len(t) \in Nat
         /\ Len(s \o t) = Len(s) + Len(t)
         /\ \A i \in 1 .. Len(s) + Len(t) :
              (s \o t)[i] = IF i <= Len(s) THEN s[i] ELSE t[i - Len(s)]
BY ConcatProperties, LenProperties

\* Where a piece of s \o u is in s \o (t \o u).
Place(i, m, k) == IF i <= m THEN i ELSE i + k

LEMMA PlaceRises ==
  ASSUME NEW m \in Nat, NEW k \in Nat, NEW n \in Nat
  PROVE  /\ \A i \in 1 .. m + n : Place(i, m, k) \in 1 .. m + (k + n)
         /\ \A i, j \in 1 .. m + n : i < j => Place(i, m, k) < Place(j, m, k)
BY DEF Place

\* Where the pieces are when a run t of pieces is lost from between s and u.
LEMMA CutAt ==
  ASSUME NEW s \in Seq(Pieces), NEW t \in Seq(Pieces), NEW u \in Seq(Pieces)
  PROVE  /\ Len(s) \in Nat /\ Len(t) \in Nat /\ Len(u) \in Nat
         /\ s \o u \in Seq(Pieces) /\ Len(s \o u) = Len(s) + Len(u)
         /\ s \o (t \o u) \in Seq(Pieces)
         /\ Len(s \o (t \o u)) = Len(s) + (Len(t) + Len(u))
         /\ \A i \in 1 .. Len(s) + Len(u) :
              (s \o u)[i] = (s \o (t \o u))[Place(i, Len(s), Len(t))]
<1> DEFINE all == s \o (t \o u)
           kept == s \o u
<1>1. /\ Len(s) \in Nat /\ Len(t) \in Nat /\ Len(u) \in Nat
      /\ t \o u \in Seq(Pieces) /\ Len(t \o u) = Len(t) + Len(u)
      /\ kept \in Seq(Pieces) /\ Len(kept) = Len(s) + Len(u)
      /\ all \in Seq(Pieces) /\ Len(all) = Len(s) + (Len(t) + Len(u))
  BY ConcatAt
<1>2. ASSUME NEW i \in 1 .. Len(s) + Len(u)
      PROVE  kept[i] = all[Place(i, Len(s), Len(t))]
  <2>1. CASE i <= Len(s)
    <3>1. kept[i] = s[i] /\ all[i] = s[i]
      BY <1>1, <2>1, ConcatAt
    <3>. QED
      BY <2>1, <3>1 DEF Place
  <2>2. CASE ~(i <= Len(s))
    <3>1. kept[i] = u[i - Len(s)]
      BY <1>1, <2>2, ConcatAt
    <3>2. /\ i + Len(t) \in 1 .. Len(s) + Len(t \o u)
          /\ ~(i + Len(t) <= Len(s))
          /\ i + Len(t) - Len(s) \in 1 .. Len(t) + Len(u)
          /\ ~(i + Len(t) - Len(s) <= Len(t))
          /\ i + Len(t) - Len(s) - Len(t) = i - Len(s)
      BY <1>1, <2>2
    <3>3. all[i + Len(t)] = (t \o u)[i + Len(t) - Len(s)]
      BY <1>1, <3>2, ConcatAt
    <3>4. (t \o u)[i + Len(t) - Len(s)] = u[i - Len(s)]
      <4>1. (t \o u)[i + Len(t) - Len(s)] = u[i + Len(t) - Len(s) - Len(t)]
        BY <3>2, ConcatAt
      <4>. QED
        BY <3>2, <4>1
    <3>. QED
      BY <2>2, <3>1, <3>3, <3>4 DEF Place
  <2>. QED
    BY <2>1, <2>2
<1>. QED
  BY <1>1, <1>2

\* Sound sequences stay so when a run of pieces is lost.
LEMMA SoundCut ==
  ASSUME NEW s \in Seq(Pieces), NEW t \in Seq(Pieces), NEW u \in Seq(Pieces), NEW n,
         Sound(s \o (t \o u), n)
  PROVE  Sound(s \o u, n)
<1> DEFINE all == s \o (t \o u)
           kept == s \o u
           at(i) == Place(i, Len(s), Len(t))
<1>1. /\ Len(s) \in Nat /\ Len(t) \in Nat /\ Len(u) \in Nat
      /\ kept \in Seq(Pieces) /\ Len(kept) = Len(s) + Len(u)
      /\ Len(all) = Len(s) + (Len(t) + Len(u))
  BY CutAt
<1>2. \A i \in 1 .. Len(kept) : kept[i] = all[at(i)]
  <2>1. \A i \in 1 .. Len(s) + Len(u) : kept[i] = all[at(i)]
    BY CutAt
  <2>. QED
    BY <1>1, <2>1
<1>3. /\ \A i \in 1 .. Len(kept) : at(i) \in 1 .. Len(all)
      /\ \A i, j \in 1 .. Len(kept) : i < j => at(i) < at(j)
  BY <1>1, PlaceRises
<1> HIDE DEF all, kept, at
<1>4. Ordered(kept)
  <2> SUFFICES ASSUME NEW i \in 1 .. Len(kept), NEW j \in 1 .. Len(kept), i < j,
                      Newline \notin {kept[i], kept[j]}
               PROVE  Before(kept[i], kept[j])
    BY DEF Ordered
  <2>1. Ordered(all)
    BY DEF Sound, all
  <2>2. kept[i] = all[at(i)] /\ kept[j] = all[at(j)]
    BY <1>2
  <2>. QED
    BY <1>3, <2>1, <2>2 DEF Ordered
<1>5. UpTo(kept, n)
  <2>1. UpTo(all, n)
    BY DEF Sound, all
  <2>. QED
    BY <1>2, <1>3, <2>1 DEF UpTo
<1>. QED
  BY <1>1, <1>4, <1>5 DEF Sound, kept

\* The beginning of a sound sequence.
LEMMA SoundFront ==
  ASSUME NEW s \in Seq(Pieces), NEW t \in Seq(Pieces), NEW n, Sound(s \o t, n)
  PROVE  Sound(s, n)
<1>1. <<>> \in Seq(Pieces) /\ t \o <<>> = t /\ s \o <<>> = s
  BY EmptySeq, ConcatEmptySeq
<1>2. Sound(s \o (t \o <<>>), n)
  BY <1>1
<1>. QED
  BY <1>1, <1>2, SoundCut

\* What follows a sound sequence may be newlines, or pieces of later records.
LEMMA SoundNewline ==
  ASSUME NEW s, NEW n \in Nat, Sound(s, n)
  PROVE  Sound(s \o <<Newline>>, n)
<1> DEFINE t == s \o <<Newline>>
<1>1. Newline \in Pieces /\ <<Newline>> \in Seq(Pieces) /\ Newline[1] = 0
  BY DEF Pieces, Newline
<1>2. /\ t \in Seq(Pieces)
      /\ Len(s) \in Nat
      /\ Len(t) = Len(s) + 1
      /\ \A i \in 1 .. Len(s) : t[i] = s[i]
      /\ t[Len(s) + 1] = Newline
  <2>1. t = Append(s, Newline)
    BY AppendIsConcat, <1>1 DEF Sound
  <2>. QED
    BY <1>1, <2>1, AppendProperties, LenProperties DEF Sound
<1> HIDE DEF t
<1>3. Ordered(t)
  <2> SUFFICES ASSUME NEW i \in 1 .. Len(t), NEW j \in 1 .. Len(t), i < j,
                      Newline \notin {t[i], t[j]}
               PROVE  Before(t[i], t[j])
    BY DEF Ordered
  <2>1. i \in 1 .. Len(s) /\ j \in 1 .. Len(s)
    BY <1>2
  <2>. QED
    BY <1>2, <2>1 DEF Sound, Ordered
<1>4. UpTo(t, n)
  <2> SUFFICES ASSUME NEW i \in 1 .. Len(t) PROVE t[i][1] <= n
    BY DEF UpTo
  <2>1. CASE i \in 1 .. Len(s)
    BY <1>2, <2>1 DEF Sound, UpTo
  <2>2. CASE i = Len(s) + 1
    BY <1>1, <1>2, <2>2
  <2>. QED
    BY <1>2, <2>1, <2>2
<1>. QED
  BY <1>2, <1>3, <1>4 DEF Sound, t

LEMMA SoundNext ==
  ASSUME NEW s, NEW n \in Nat, Sound(s, n),
         NEW t \in Seq(Pieces), \A i \in 1 .. Len(t) : t[i] = <<n + 1, i>>
  PROVE  Sound(s \o t, n + 1)
<1> DEFINE all == s \o t
<1>1. /\ all \in Seq(Pieces) /\ Len(s) \in Nat /\ Len(t) \in Nat
      /\ Len(all) = Len(s) + Len(t)
      /\ \A i \in 1 .. Len(all) :
           all[i] = IF i <= Len(s) THEN s[i] ELSE t[i - Len(s)]
  BY ConcatAt DEF Sound
<1>2. \A i \in 1 .. Len(s) : s[i][1] \in Nat /\ s[i][1] <= n
  BY ElementOfSeq, PiecesAreNumbers DEF Sound, UpTo
<1>3. \A i \in 1 .. Len(all) : ~(i <= Len(s)) => i - Len(s) \in 1 .. Len(t)
  BY <1>1
<1>4. \A i \in 1 .. Len(all) : i <= Len(s) => i \in 1 .. Len(s)
  BY <1>1
<1>5. \A i \in 1 .. Len(all) : ~(i <= Len(s)) => all[i] = <<n + 1, i - Len(s)>>
  BY <1>1, <1>3
<1>6. \A i \in 1 .. Len(all) : i <= Len(s) => all[i] = s[i]
  BY <1>1
<1> HIDE DEF all
<1>7. Ordered(all)
  <2> SUFFICES ASSUME NEW i \in 1 .. Len(all), NEW j \in 1 .. Len(all), i < j,
                      Newline \notin {all[i], all[j]}
               PROVE  Before(all[i], all[j])
    BY DEF Ordered
  <2>1. CASE j <= Len(s)
    <3>1. i \in 1 .. Len(s) /\ j \in 1 .. Len(s) /\ i <= Len(s)
      BY <1>1, <2>1
    <3>. QED
      BY <1>6, <2>1, <3>1 DEF Sound, Ordered
  <2>2. CASE i <= Len(s) /\ ~(j <= Len(s))
    <3>1. all[i][1] \in Nat /\ all[i][1] <= n
      BY <1>2, <1>4, <1>6, <2>2
    <3>2. all[j][1] = n + 1
      BY <1>5, <2>2
    <3>. QED
      BY <3>1, <3>2 DEF Before
  <2>3. CASE ~(i <= Len(s))
    <3>1. ~(j <= Len(s)) /\ i - Len(s) < j - Len(s)
      BY <1>1, <2>3
    <3>2. all[i] = <<n + 1, i - Len(s)>> /\ all[j] = <<n + 1, j - Len(s)>>
      BY <1>5, <2>3, <3>1
    <3>. QED
      BY <3>1, <3>2 DEF Before
  <2>. QED
    BY <2>1, <2>2, <2>3
<1>8. UpTo(all, n + 1)
  <2> SUFFICES ASSUME NEW i \in 1 .. Len(all) PROVE all[i][1] <= n + 1
    BY DEF UpTo
  <2>1. CASE i <= Len(s)
    BY <1>2, <1>4, <1>6, <2>1
  <2>2. CASE ~(i <= Len(s))
    BY <1>5, <2>2
  <2>. QED
    BY <2>1, <2>2
<1>. QED
  BY <1>1, <1>7, <1>8 DEF Sound, all

\* A bound may be raised.
LEMMA SoundLater ==
  ASSUME NEW s, NEW n \in Nat, NEW m \in Nat, n <= m, Sound(s, n)
  PROVE  Sound(s, m)
BY ElementOfSeq, PiecesAreNumbers DEF Sound, UpTo

\* What one write of the File takes and what it leaves make up the whole.
LEMMA PortionSplits ==
  ASSUME NEW s \in Seq(Pieces)
  PROVE  /\ SubSeq(s, 1, Portion(s)) \in Seq(Pieces)
         /\ SubSeq(s, Portion(s) + 1, Len(s)) \in Seq(Pieces)
         /\ Len(SubSeq(s, Portion(s) + 1, Len(s))) <= Len(s)
         /\ SubSeq(s, 1, Portion(s)) \o SubSeq(s, Portion(s) + 1, Len(s)) = s
<1> DEFINE k == Portion(s)
<1>1. Len(s) \in Nat /\ \A i \in 1 .. Len(s) : s[i] \in Pieces
  BY LenProperties, ElementOfSeq
<1>2. k \in 0 .. Len(s)
  BY <1>1, JsonlAssumption DEF Portion, JsonlAssumption
<1> HIDE DEF k
<1>3. /\ \A i \in 1 .. k : s[i] \in Pieces
      /\ \A i \in k + 1 .. Len(s) : s[i] \in Pieces
  BY <1>1, <1>2
<1>4. /\ SubSeq(s, 1, k) \in Seq(Pieces)
      /\ SubSeq(s, k + 1, Len(s)) \in Seq(Pieces)
      /\ Len(SubSeq(s, k + 1, Len(s))) =
           IF k + 1 <= Len(s) THEN Len(s) - (k + 1) + 1 ELSE 0
  BY <1>1, <1>2, <1>3, SubSeqProperties
<1>5. (IF k + 1 <= Len(s) THEN Len(s) - (k + 1) + 1 ELSE 0) <= Len(s)
  BY <1>1, <1>2
<1>6. SubSeq(s, 1, k) \o SubSeq(s, k + 1, Len(s)) = SubSeq(s, 1, Len(s))
  <2>1. /\ 1 \in 1 .. Len(s) + 1
        /\ k \in 1 - 1 .. Len(s)
        /\ Len(s) \in k .. Len(s)
    BY <1>1, <1>2
  <2>. QED
    BY <2>1, ConcatAdjacentSubSeq
<1>. QED
  BY <1>4, <1>5, <1>6, SubSeqFull DEF k

LEMMA NewlinePiece ==
  Newline \in Pieces /\ <<Newline>> \in Seq(Pieces) /\ <<Newline>> # <<>>
BY DEF Pieces

LEMMA NoPieces ==
  /\ <<>> \in Seq(Pieces)
  /\ \A s \in Seq(Pieces) : s \o <<>> = s /\ <<>> \o s = s
BY EmptySeq, ConcatEmptySeq

LEMMA Associative ==
  \A s, t, u \in Seq(Pieces) : (s \o t) \o u = s \o (t \o u)
BY ConcatAssociative

----------------------------------------------------------------------------
\* The pieces in the file, the File, the BufWriter and write_all, oldest first.

Whole(d, o, b, t) == d \o (o \o (b \o t))

LEMMA WholeEnd ==
  ASSUME NEW d, NEW o, NEW b, NEW t,
         d \in Seq(Pieces), o \in Seq(Pieces), b \in Seq(Pieces), t \in Seq(Pieces)
  PROVE  Whole(d, o, b, t) = Whole(d, o, b, <<>>) \o t
<1> DEFINE held == o \o b
<1>1. held \in Seq(Pieces)
  BY ConcatProperties
<1>2. held \o t = o \o (b \o t)
  BY Associative
<1>3. b \o <<>> = b
  BY NoPieces
<1> HIDE DEF held
<1>4. (d \o held) \o t = d \o (held \o t)
  BY SMTT(30), <1>1, Associative
<1>. QED
  BY <1>2, <1>3, <1>4 DEF Whole, held

LEMMA NewlineAfter ==
  \A s, t \in Seq(Pieces) : s \o (t \o <<Newline>>) = (s \o t) \o <<Newline>>
<1> TAKE s, t \in Seq(Pieces)
<1>1. <<Newline>> \in Seq(Pieces)
  BY NewlinePiece
<1>. QED
  BY <1>1, Associative

LEMMA WholeLast ==
  ASSUME NEW d, NEW o, NEW b, NEW t,
         d \in Seq(Pieces), o \in Seq(Pieces), b \in Seq(Pieces), t \in Seq(Pieces)
  PROVE  Whole(d, o, b, t \o <<Newline>>) = Whole(d, o, b, t) \o <<Newline>>
<1> DEFINE rest == b \o t
           tail == o \o rest
<1>1. rest \in Seq(Pieces)
  BY ConcatProperties
<1>2. b \o (t \o <<Newline>>) = rest \o <<Newline>>
  BY NewlineAfter
<1> HIDE DEF rest
<1>3. tail \in Seq(Pieces)
  BY <1>1, ConcatProperties
<1>4. o \o (rest \o <<Newline>>) = tail \o <<Newline>>
  BY <1>1, NewlineAfter
<1> HIDE DEF tail
<1>5. d \o (tail \o <<Newline>>) = (d \o tail) \o <<Newline>>
  BY <1>3, NewlineAfter
<1>. QED
  BY <1>2, <1>4, <1>5 DEF Whole, rest, tail

LEMMA WholeSeq ==
  ASSUME NEW d, NEW o, NEW b,
         d \in Seq(Pieces), o \in Seq(Pieces), b \in Seq(Pieces)
  PROVE  Whole(d, o, b, <<>>) \in Seq(Pieces)
<1>1. o \o b \in Seq(Pieces)
  BY ConcatProperties
<1>2. Whole(d, o, b, <<>>) = d \o (o \o b)
  BY NoPieces DEF Whole
<1>. QED
  BY <1>1, <1>2, ConcatProperties

\* write_all adds to the BufWriter.
LEMMA WholeAppend ==
  ASSUME NEW d, NEW o, NEW b, NEW t,
         d \in Seq(Pieces), o \in Seq(Pieces), b \in Seq(Pieces), t \in Seq(Pieces)
  PROVE  Whole(d, o, b \o t, <<>>) = Whole(d, o, b, t)
<1>1. (b \o t) \o <<>> = b \o t
  BY ConcatProperties, NoPieces
<1>. QED
  BY <1>1 DEF Whole

\* The BufWriter gives the File the beginning o of what it holds.
LEMMA WholePush ==
  ASSUME NEW d, NEW o, NEW b, NEW t,
         d \in Seq(Pieces), o \in Seq(Pieces), b \in Seq(Pieces), t \in Seq(Pieces)
  PROVE  Whole(d, <<>>, o \o b, t) = Whole(d, o, b, t)
<1>1. (o \o b) \o t = o \o (b \o t)
  BY Associative
<1>2. o \o (b \o t) \in Seq(Pieces)
  BY ConcatProperties
<1>3. <<>> \o (o \o (b \o t)) = o \o (b \o t)
  BY <1>2, NoPieces
<1>. QED
  BY <1>1, <1>3 DEF Whole

\* So does write_all past the empty BufWriter.
LEMMA WholePast ==
  ASSUME NEW d, NEW o, NEW t,
         d \in Seq(Pieces), o \in Seq(Pieces), t \in Seq(Pieces)
  PROVE  Whole(d, <<>>, <<>>, o \o t) = Whole(d, o, <<>>, t)
<1>1. o \o t \in Seq(Pieces)
  BY ConcatProperties
<1>2. <<>> \o (<<>> \o (o \o t)) = o \o t /\ <<>> \o t = t
  BY <1>1, NoPieces
<1>. QED
  BY <1>2 DEF Whole

LEMMA HeadTail ==
  ASSUME NEW o \in Seq(Pieces), NEW u \in Seq(Pieces), o # <<>>
  PROVE  <<Head(o)>> \o (Tail(o) \o u) = o \o u
<1> DEFINE first == <<Head(o)>>
           left == Tail(o)
<1>1. first \in Seq(Pieces) /\ left \in Seq(Pieces)
  BY HeadTailProperties
<1>2. first \o left = o
  BY HeadTailProperties
<1> HIDE DEF first, left
<1>3. (first \o left) \o u = first \o (left \o u)
  BY <1>1, Associative
<1>. QED
  BY <1>2, <1>3 DEF first, left

LEMMA OneMore ==
  ASSUME NEW d \in Seq(Pieces), NEW u \in Seq(Pieces), NEW p \in Pieces
  PROVE  Append(d, p) \o u = d \o (<<p>> \o u)
<1>1. <<p>> \in Seq(Pieces) /\ Append(d, p) = d \o <<p>>
  BY AppendIsConcat
<1>2. (d \o <<p>>) \o u = d \o (<<p>> \o u)
  BY <1>1, Associative
<1>. QED
  BY <1>1, <1>2

\* The File puts the first piece of its write into the file.
LEMMA WholeDisk ==
  ASSUME NEW d, NEW o, NEW b, NEW t,
         d \in Seq(Pieces), o \in Seq(Pieces), b \in Seq(Pieces), t \in Seq(Pieces),
         o # <<>>
  PROVE  Whole(Append(d, Head(o)), Tail(o), b, t) = Whole(d, o, b, t)
<1> DEFINE rest == b \o t
           tail == Tail(o) \o rest
<1>1. Head(o) \in Pieces /\ Tail(o) \in Seq(Pieces) /\ rest \in Seq(Pieces)
  BY HeadTailProperties, ConcatProperties
<1> HIDE DEF rest
<1>2. tail \in Seq(Pieces)
  BY <1>1, ConcatProperties
<1>3. <<Head(o)>> \o tail = o \o rest
  BY <1>1, HeadTail
<1> HIDE DEF tail
<1>4. Append(d, Head(o)) \o tail = d \o (<<Head(o)>> \o tail)
  BY <1>1, <1>2, OneMore
<1>. QED
  BY <1>3, <1>4 DEF Whole, rest, tail

\* After the JSON, write_all goes on with a newline.
LEMMA WholeNewline ==
  ASSUME NEW d \in Seq(Pieces), NEW o \in Seq(Pieces), NEW b \in Seq(Pieces),
         NEW left, NEW n \in Nat, NEW t,
         t = left \/ (left = <<>> /\ t = <<Newline>>),
         Sound(Whole(d, o, b, left), n)
  PROVE  Sound(Whole(d, o, b, t), n)
<1>1. Whole(d, o, b, <<Newline>>) = Whole(d, o, b, <<>>) \o <<Newline>>
  BY NewlinePiece, WholeEnd
<1>2. Sound(Whole(d, o, b, <<>>), n) => Sound(Whole(d, o, b, <<Newline>>), n)
  BY <1>1, SoundNewline
<1>. QED
  BY <1>2

\* What may be lost: the rest of write_all, with the BufWriter, with the File's write.
LEMMA WholeCut ==
  ASSUME NEW d \in Seq(Pieces), NEW o \in Seq(Pieces), NEW b \in Seq(Pieces),
         NEW t \in Seq(Pieces), NEW n \in Nat, Sound(Whole(d, o, b, t), n)
  PROVE  /\ Sound(Whole(d, o, b, <<>>), n)
         /\ Sound(Whole(d, o, <<>>, <<>>), n)
         /\ Sound(Whole(d, <<>>, b, t), n)
         /\ Sound(Whole(d, <<>>, <<>>, <<>>), n)
<1> DEFINE rest == b \o t
<1>1. rest \in Seq(Pieces) /\ o \o b \in Seq(Pieces) /\ <<>> \in Seq(Pieces)
  BY ConcatProperties, NoPieces
<1>2. /\ Whole(d, o, b, <<>>) = d \o (o \o b)
      /\ Whole(d, o, <<>>, <<>>) = d \o o
      /\ Whole(d, <<>>, <<>>, <<>>) = d
  BY NoPieces DEF Whole
<1>3. <<>> \o rest = rest
  BY <1>1, NoPieces
<1>4. Whole(d, o, b, t) = d \o (o \o rest) /\ Whole(d, <<>>, b, t) = d \o rest
  BY <1>3 DEF Whole
<1>5. Sound(d \o (o \o b), n)
  <2>1. Whole(d, o, b, t) = Whole(d, o, b, <<>>) \o t
    BY WholeEnd
  <2>2. Whole(d, o, b, <<>>) \in Seq(Pieces)
    BY WholeSeq
  <2>3. Sound(Whole(d, o, b, <<>>), n)
    BY <2>1, <2>2, SoundFront
  <2>. QED
    BY <1>2, <2>3
<1> HIDE DEF rest
<1>6. Sound(d \o rest, n)
  BY <1>1, <1>4, SoundCut
<1>7. Sound(d \o o, n)
  <2>1. (d \o o) \o b = d \o (o \o b)
    BY SMTT(30), Associative
  <2>2. d \o o \in Seq(Pieces) /\ Sound((d \o o) \o b, n)
    BY <1>5, <2>1, ConcatProperties
  <2>. QED
    BY <2>2, SoundFront
<1>8. Sound(d, n)
  BY <1>7, SoundFront
<1>. QED
  BY <1>2, <1>4, <1>5, <1>6, <1>7, <1>8

----------------------------------------------------------------------------
\* The stream of pieces through write_all, BufWriter, File and file.

Stream == Whole(disk, op, bw, todo)

\* PiecesInOrder alone is not inductive: that the next record comes after all others
\* rests on `taken` being a bound on the records seen.
BytesInv == TypeOK /\ Sound(Stream, taken)

LEMMA Typed ==
  TypeOK => /\ todo \in Seq(Pieces) /\ bw \in Seq(Pieces)
            /\ op \in Seq(Pieces) /\ disk \in Seq(Pieces)
            /\ taken \in Nat /\ Len(size) \in Nat
BY LenProperties DEF TypeOK, accepted

LEMMA JsonPieces ==
  ASSUME size \in Seq(Sizes), Len(size) <= MaxRecords, NEW r \in 1 .. Len(size)
  PROVE  /\ Json(r) \in Seq(Pieces) /\ Json(r) # <<>>
         /\ \A i \in 1 .. Len(Json(r)) : Json(r)[i] = <<r, i>>
<1>1. size[r] \in Nat \ {0} /\ r \in 1 .. MaxRecords
  <2>1. size[r] \in Sizes /\ Len(size) \in Nat
    BY LenProperties, ElementOfSeq
  <2>2. size[r] \in Nat \ {0}
    BY <2>1, JsonlAssumption DEF JsonlAssumption
  <2>3. r \in 1 .. MaxRecords
    BY <2>1, JsonlAssumption DEF JsonlAssumption
  <2>. QED
    BY <2>2, <2>3
<1>2. \A i \in 1 .. size[r] : <<r, i>> \in Pieces
  BY <1>1 DEF Pieces
<1>3. Json(r) \in Seq(Pieces) /\ Len(Json(r)) = size[r]
  BY <1>1, <1>2 DEF Json
<1>. QED
  BY <1>1, <1>3 DEF Json

\* After the JSON comes the newline, and nothing else.
LEMMA WrittenWrites ==
  ASSUME TypeOK, Writes, NEW left \in Seq(Pieces), Written(left)
  PROVE  /\ todo' \in Seq(Pieces) /\ pc' \in Places /\ (Writes' <=> todo' # <<>>)
         /\ todo' = left \/ (left = <<>> /\ todo' = <<Newline>>)
BY NewlinePiece DEF TypeOK, Written, Writes, Places

----------------------------------------------------------------------------
\* The invariant.

LEMMA BytesInit == Init => BytesInv
<1> SUFFICES ASSUME Init PROVE BytesInv
  OBVIOUS
<1>1. TypeOK
  <2>1. <<>> \in Seq(Sizes) /\ Len(<<>>) = 0
    BY EmptySeq
  <2>2. size \in Seq(Sizes) /\ accepted <= MaxRecords /\ taken \in 0 .. accepted
    BY <2>1, JsonlAssumption DEF Init, accepted, JsonlAssumption
  <2>3. Len(bw) <= BufferSize
    BY <2>1, JsonlAssumption DEF Init, JsonlAssumption
  <2>4. \A s \in {todo, bw, op, disk} : s \in Seq(Pieces)
    BY NoPieces DEF Init
  <2>. QED
    BY <2>2, <2>3, <2>4 DEF Init, TypeOK, Places, Writes
<1>2. Stream = <<>>
  BY NoPieces DEF Init, Stream, Whole
<1>3. Sound(<<>>, taken)
  BY NoPieces DEF Sound, Ordered, UpTo
<1>. QED
  BY <1>1, <1>2, <1>3 DEF BytesInv

\* One step of the bytes: what it leaves of the stream is sound, its bound not lowered.
LEMMA BytesStep == BytesInv /\ [Next]_vars => BytesInv'
<1> SUFFICES ASSUME BytesInv, [Next]_vars PROVE BytesInv'
  OBVIOUS
<1> USE DEF BytesInv
<1>0. /\ todo \in Seq(Pieces) /\ bw \in Seq(Pieces)
      /\ op \in Seq(Pieces) /\ disk \in Seq(Pieces)
      /\ taken \in Nat /\ Len(size) \in Nat
  BY Typed
<1>1. CASE Accept
  <2>1. PICK n \in Sizes : size' = Append(size, n)
    BY <1>1 DEF Accept
  <2>2. size' \in Seq(Sizes) /\ Len(size') = Len(size) + 1
    BY <2>1, AppendProperties DEF TypeOK
  <2>3. TypeOK'
    BY SMTT(30), <1>0, <1>1, <2>2, JsonlAssumption
       DEF Accept, TypeOK, accepted, bytes, Writes, JsonlAssumption
  <2>4. Stream' = Stream /\ taken' = taken
    BY <1>1 DEF Accept, bytes, Stream
  <2>. QED
    BY <2>3, <2>4
<1>2. CASE Take
  <2>1. /\ taken' = taken + 1 /\ taken' \in 1 .. Len(size)
        /\ todo = <<>> /\ todo' = Json(taken')
    BY <1>0, <1>2 DEF Take, TypeOK, accepted, Writes
  <2>2. /\ todo' \in Seq(Pieces) /\ todo' # <<>>
        /\ \A i \in 1 .. Len(todo') : todo'[i] = <<taken + 1, i>>
    BY <2>1, JsonPieces DEF TypeOK, accepted
  <2>3. TypeOK'
    BY <1>0, <1>2, <2>1, <2>2 DEF Take, TypeOK, accepted, Writes, Places
  <2>4. Sound(Whole(disk, op, bw, <<>>), taken)
    BY <2>1 DEF Stream
  <2>5. Sound(Whole(disk, op, bw, <<>>) \o todo', taken + 1)
    BY <1>0, <2>2, <2>4, SoundNext
  <2>6. Stream' = Whole(disk, op, bw, <<>>) \o todo'
    <3>1. Stream' = Whole(disk, op, bw, todo')
      BY <1>2 DEF Take, Stream
    <3>2. Whole(disk, op, bw, todo') = Whole(disk, op, bw, <<>>) \o todo'
      BY <1>0, <2>2, WholeEnd
    <3>. QED
      BY <3>1, <3>2
  <2>. QED
    BY <2>1, <2>3, <2>5, <2>6
<1>3. CASE StartFlush
  <2>1. TypeOK'
    BY <1>3 DEF StartFlush, TypeOK, accepted, channel, bytes, Writes, Places
  <2>2. Stream' = Stream /\ taken' = taken
    BY <1>3 DEF StartFlush, channel, bytes, Stream
  <2>. QED
    BY <2>1, <2>2
<1>4. CASE AppendToBuffer
  <2>1. bw' \in Seq(Pieces) /\ Len(bw') = Len(bw) + Len(todo)
    BY <1>0, <1>4, ConcatProperties DEF AppendToBuffer
  <2>2. Len(bw') <= BufferSize
    BY <1>0, <1>4, <2>1, LenProperties, JsonlAssumption
       DEF AppendToBuffer, Overflows, JsonlAssumption
  <2>3. /\ todo' \in Seq(Pieces) /\ pc' \in Places /\ (Writes' <=> todo' # <<>>)
        /\ todo' = <<>> \/ todo' = <<Newline>>
    BY <1>4, NoPieces, WrittenWrites DEF AppendToBuffer
  <2>4. TypeOK'
    BY <1>0, <1>4, <2>1, <2>2, <2>3 DEF AppendToBuffer, TypeOK, accepted, channel
  <2>5. Sound(Whole(disk, op, bw', <<>>), taken)
    BY <1>0, <1>4, WholeAppend DEF AppendToBuffer, Stream
  <2>6. Sound(Whole(disk, op, bw', todo'), taken)
    BY <1>0, <2>1, <2>3, <2>5, WholeNewline
  <2>. QED
    BY <1>4, <2>4, <2>6 DEF AppendToBuffer, channel, Stream
<1>5. CASE PushBuffer
  <2>1. /\ op = <<>> /\ ~failed
        /\ Len(bw') <= Len(bw) /\ op' \o bw' = bw
    BY <1>0, <1>5, PortionSplits DEF PushBuffer, FileIdle
  <2>5. op' \in Seq(Pieces) /\ bw' \in Seq(Pieces)
    BY <1>0, <1>5, PortionSplits DEF PushBuffer
  <2>2. Len(bw') <= BufferSize
    BY <1>0, <2>1, <2>5, LenProperties, JsonlAssumption DEF TypeOK, JsonlAssumption
  <2>3. TypeOK'
    BY <1>0, <1>5, <2>1, <2>2, <2>5 DEF PushBuffer, TypeOK, accepted, channel, Writes
  <2>4. Whole(disk, op', bw', todo) = Stream
    <3>1. Whole(disk, <<>>, op' \o bw', todo) = Whole(disk, op', bw', todo)
      BY <1>0, <2>5, WholePush
    <3>. QED
      BY <2>1, <3>1 DEF Stream
  <2>. QED
    BY <1>5, <2>3, <2>4 DEF PushBuffer, channel, Stream
<1>6. CASE WritePastBuffer
  <2> DEFINE left == SubSeq(todo, Portion(todo) + 1, Len(todo))
  <2>1. /\ op = <<>> /\ bw = <<>> /\ ~failed /\ Writes
        /\ op' \in Seq(Pieces) /\ left \in Seq(Pieces) /\ op' \o left = todo
    <3>1. op = <<>> /\ ~failed /\ Writes /\ ~MustEmpty /\ Len(todo) >= BufferSize
      BY <1>6 DEF WritePastBuffer, FileIdle, PastBuffer
    <3>2. op' \in Seq(Pieces) /\ left \in Seq(Pieces) /\ op' \o left = todo
      BY <1>0, <1>6, PortionSplits DEF WritePastBuffer
    <3>3. ASSUME bw # <<>> PROVE Overflows
      <4>1. Len(bw) \in Nat \ {0} /\ Len(todo) \in Nat
        BY <1>0, <3>3, EmptySeq, LenProperties
      <4>. QED
        BY <3>1, <4>1, JsonlAssumption DEF Overflows, JsonlAssumption
    <3>. QED
      BY <3>1, <3>2, <3>3 DEF MustEmpty
  <2>2. /\ todo' \in Seq(Pieces) /\ pc' \in Places /\ (Writes' <=> todo' # <<>>)
        /\ todo' = left \/ (left = <<>> /\ todo' = <<Newline>>)
    BY <1>6, <2>1, WrittenWrites DEF WritePastBuffer
  <2>3. TypeOK'
    BY <1>0, <1>6, <2>1, <2>2 DEF WritePastBuffer, TypeOK, accepted, channel
  <2> HIDE DEF left
  <2>4. Whole(disk, op', bw, left) = Stream
    <3>1. Whole(disk, <<>>, <<>>, op' \o left) = Whole(disk, op', <<>>, left)
      BY <1>0, <2>1, WholePast
    <3>. QED
      BY <2>1, <3>1 DEF Stream
  <2>5. Sound(Whole(disk, op', bw, todo'), taken)
    BY <1>0, <2>1, <2>2, <2>4, WholeNewline
  <2>. QED
    BY <1>6, <2>3, <2>5 DEF WritePastBuffer, channel, Stream
<1>7. CASE FlushEnds
  <2>1. TypeOK'
    BY <1>7 DEF FlushEnds, Flushed, TypeOK, accepted, channel, bytes, Writes, Places
  <2>2. Stream' = Stream /\ taken' = taken
    BY <1>7 DEF FlushEnds, channel, bytes, Stream
  <2>. QED
    BY <2>1, <2>2
<1>8. CASE Fails
  <2>1. /\ todo' = <<>> /\ (bw' = bw \/ bw' = <<>>)
        /\ op' = op /\ disk' = disk /\ taken' = taken
    BY <1>8 DEF Fails, Skip, channel
  <2>2. Len(bw') <= BufferSize
    BY <2>1, EmptySeq, JsonlAssumption DEF TypeOK, JsonlAssumption
  <2>3. pc' \in {"done", "select"} /\ ~Writes' /\ failed' = FALSE
    BY <1>8 DEF Fails, Skip, Writes
  <2>4. TypeOK'
    BY <1>0, <1>8, <2>1, <2>2, <2>3, NoPieces
       DEF Fails, TypeOK, accepted, channel, Places
  <2>5. Sound(Stream', taken)
    BY <1>0, <2>1, WholeCut DEF Stream
  <2>. QED
    BY <2>1, <2>4, <2>5
<1>9. CASE DiskWrites
  <2>1. /\ op # <<>> /\ disk' = Append(disk, Head(op)) /\ op' = Tail(op)
        /\ Head(op) \in Pieces /\ Tail(op) \in Seq(Pieces)
    BY <1>0, <1>9, HeadTailProperties DEF DiskWrites
  <2>2. disk' \in Seq(Pieces)
    BY <1>0, <2>1, AppendProperties
  <2>4. TypeOK'
    BY <1>0, <1>9, <2>1, <2>2 DEF DiskWrites, TypeOK, accepted, channel, Writes
  <2>5. Whole(disk', op', bw, todo) = Stream
    BY <1>0, <2>1, WholeDisk DEF Stream
  <2>. QED
    BY <1>9, <2>4, <2>5 DEF DiskWrites, channel, Stream
<1>10. CASE DiskFails
  <2>1. /\ op' = <<>> /\ failed' = TRUE /\ faults' = faults + 1
        /\ UNCHANGED <<channel, pc, todo, bw, disk>>
    BY <1>10 DEF DiskFails, Fault
  <2>2. TypeOK'
    BY <1>0, <2>1, NoPieces DEF TypeOK, accepted, channel, Writes
  <2>3. Sound(Stream', taken)
    BY <1>0, <2>1, WholeCut DEF Stream
  <2>. QED
    BY <2>1, <2>2, <2>3 DEF channel
<1>11. ASSUME NEW f, Down(f), op' = op \/ op' = <<>> PROVE BytesInv'
  <2>1. /\ pc' = "down" /\ taken' = Len(size) /\ todo' = <<>> /\ bw' = <<>>
        /\ failed' = FALSE /\ faults' = faults + 1 /\ size' = size /\ disk' = disk
    BY <1>11 DEF Down, Fault, accepted
  <2>2. Len(bw') <= BufferSize
    BY <2>1, EmptySeq, JsonlAssumption DEF JsonlAssumption
  <2>3. TypeOK'
    <3>1. size' \in Seq(Sizes) /\ accepted' <= MaxRecords /\ taken' \in 0 .. accepted'
      BY <1>0, <2>1 DEF TypeOK, accepted
    <3>2. \A s \in {todo', bw', op', disk'} : s \in Seq(Pieces)
      BY ZenonT(30), <1>0, <1>11, <2>1, NoPieces
    <3>3. pc' \in Places /\ ~Writes' /\ failed' = FALSE /\ faults' \in Nat
      BY <2>1 DEF TypeOK, Writes, Places
    <3>. QED
      BY <2>1, <2>2, <3>1, <3>2, <3>3 DEF TypeOK
  <2>4. Sound(Stream', taken)
    BY <1>0, <1>11, <2>1, WholeCut DEF Stream
  <2>5. taken <= taken' /\ taken' \in Nat
    BY <1>0, <2>1 DEF TypeOK, accepted
  <2>. QED
    BY <1>0, <2>3, <2>4, <2>5, SoundLater
<1>12. CASE DrainTimesOut
  BY <1>11, <1>12 DEF DrainTimesOut
<1>13. CASE Crash
  BY <1>11, <1>13 DEF Crash
<1>14. CASE Restart
  <2>1. TypeOK'
    BY <1>14
       DEF Restart, OpenLog, Running, TypeOK, accepted, channel, Writes, Places
  <2>2. Stream' = Stream /\ taken' = taken
    BY <1>14 DEF Restart, OpenLog, channel, Stream
  <2>. QED
    BY <2>1, <2>2
<1>15. CASE Ended \/ UNCHANGED vars
  <2>1. UNCHANGED vars
    BY <1>15 DEF Ended
  <2>2. TypeOK'
    BY <2>1 DEF vars, channel, bytes, TypeOK, accepted, Writes
  <2>3. Stream' = Stream /\ taken' = taken
    BY <2>1 DEF vars, channel, bytes, Stream
  <2>. QED
    BY <2>2, <2>3
<1>. QED
  BY <1>1, <1>2, <1>3, <1>4, <1>5, <1>6, <1>7, <1>8, <1>9, <1>10, <1>12, <1>13, <1>14,
     <1>15 DEF Next

\* What TypeOK and PiecesInOrder rest on: the pieces in the file and on their way there
\* are in order and belong to records already taken.
THEOREM BytesInvariant == Spec => []BytesInv
BY BytesInit, BytesStep, PTL DEF Spec

\* The BufWriter stays within its capacity, a write_all is running exactly while
\* something is left of it, and the File holds an error only while it is idle.
THEOREM BytesTyped == Spec => []TypeOK
<1>1. BytesInv => TypeOK
  BY DEF BytesInv
<1>. QED
  BY <1>1, BytesInvariant, PTL

\* So are they with the newline that write_one has yet to write.
LEMMA AheadSound == BytesInv => Sound(disk \o Ahead, taken)
<1> SUFFICES ASSUME BytesInv PROVE Sound(disk \o Ahead, taken)
  OBVIOUS
<1>1. /\ todo \in Seq(Pieces) /\ bw \in Seq(Pieces)
      /\ op \in Seq(Pieces) /\ disk \in Seq(Pieces) /\ taken \in Nat
  BY Typed DEF BytesInv
<1>2. CASE pc # "json"
  <2>1. (op \o bw) \o todo = op \o (bw \o todo)
    BY <1>1, Associative
  <2>2. disk \o Ahead = Stream
    BY <1>2, <2>1 DEF Ahead, Stream, Whole
  <2>. QED
    BY <2>2 DEF BytesInv
<1>3. CASE pc = "json"
  <2> DEFINE last == todo \o <<Newline>>
  <2>1. Append(todo, Newline) = last /\ last \in Seq(Pieces)
    BY <1>1, NewlinePiece, AppendIsConcat, ConcatProperties
  <2>2. Whole(disk, op, bw, last) = Stream \o <<Newline>>
    <3>1. Whole(disk, op, bw, todo \o <<Newline>>) =
            Whole(disk, op, bw, todo) \o <<Newline>>
      BY SMTT(30), <1>1, WholeLast
    <3>. QED
      BY <3>1 DEF Stream
  <2> HIDE DEF last
  <2>3. (op \o bw) \o last = op \o (bw \o last)
    BY SMTT(30), <1>1, <2>1, Associative
  <2>4. disk \o Ahead = Stream \o <<Newline>>
    BY <1>3, <2>1, <2>2, <2>3 DEF Ahead, Whole
  <2>5. Sound(Stream \o <<Newline>>, taken)
    BY <1>1, SoundNewline DEF BytesInv
  <2>. QED
    BY <2>4, <2>5
<1>. QED
  BY <1>2, <1>3

\* Whatever fails, in the file and on its way there the pieces of the records are in
\* the order in which write_one wrote them, and none is there twice.
THEOREM PiecesOrdered == Spec => []PiecesInOrder
<1>1. BytesInv => PiecesInOrder
  BY AheadSound DEF Sound, PiecesInOrder
<1>. QED
  BY <1>1, BytesInvariant, PTL
================================================================================
