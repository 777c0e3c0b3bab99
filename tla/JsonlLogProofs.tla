------------------------------ MODULE JsonlLogProofs ------------------------------
(****************************************************************************)
(* Theorem: JsonlWriter implements TraceLog, for every size of records, of  *)
(* the BufWriter and of the File's writes, and every set and number of      *)
(* faults.                                                                  *)
(****************************************************************************)
EXTENDS JsonlLinesProofs

----------------------------------------------------------------------------
\* Sets of numbers, listed in ascending order.

Lists(s, S) ==
  /\ s \in Seq(Nat)
  /\ \A i, j \in 1 .. Len(s) : i < j => s[i] < s[j]
  /\ \A r : r \in S <=> \E i \in 1 .. Len(s) : s[i] = r

Listed(n, S) == FlattenSeq([r \in 1 .. n |-> IF r \in S THEN <<r>> ELSE <<>>])

LEMMA ListsAt ==
  ASSUME NEW s, NEW S, Lists(s, S)
  PROVE  /\ Len(s) \in Nat /\ S \subseteq Nat
         /\ \A i \in 1 .. Len(s) : s[i] \in Nat /\ s[i] \in S
<1>1. Len(s) \in Nat
  BY LenProperties DEF Lists
<1>2. \A i \in 1 .. Len(s) : s[i] \in Nat
  BY ElementOfSeq DEF Lists
<1>. QED
  BY <1>1, <1>2 DEF Lists

\* There is one way to list a set.
LEMMA ListsOnce ==
  ASSUME NEW s, NEW t, NEW S, Lists(s, S), Lists(t, S)
  PROVE  s = t
<1>1. /\ Len(s) \in Nat /\ \A i \in 1 .. Len(s) : s[i] \in Nat /\ s[i] \in S
      /\ Len(t) \in Nat /\ \A i \in 1 .. Len(t) : t[i] \in Nat /\ t[i] \in S
  BY ListsAt
<1> DEFINE F == {i \in 1 .. Len(s) : i \notin 1 .. Len(t) \/ s[i] # t[i]}
<1>2. F = {}
  <2> SUFFICES ASSUME F # {} PROVE FALSE
    OBVIOUS
  <2>1. F \subseteq Nat
    BY <1>1
  <2>2. PICK i \in F : \A j \in F : i <= j
    BY <2>1, LeastOf
  <2>3. i \in 1 .. Len(s) /\ \A j \in 1 .. i - 1 : j \in 1 .. Len(t) /\ s[j] = t[j]
    BY <1>1, <2>2
  <2>4. PICK k \in 1 .. Len(t) : t[k] = s[i]
    BY <2>3 DEF Lists
  <2>5. ~(k < i)
    <3>1. SUFFICES ASSUME k < i PROVE FALSE
      OBVIOUS
    <3>2. k \in 1 .. i - 1 /\ k \in 1 .. Len(s)
      BY <1>1, <2>3, <2>4, <3>1
    <3>3. s[k] < s[i]
      BY <2>3, <3>1, <3>2 DEF Lists
    <3>. QED
      BY <1>1, <2>3, <2>4, <3>2, <3>3
  <2>6. i \in 1 .. Len(t)
    BY <1>1, <2>3, <2>4, <2>5
  <2>7. k # i
    BY <2>2, <2>4, <2>6
  <2>8. t[i] < s[i]
    <3>1. i < k
      BY <1>1, <2>4, <2>5, <2>6, <2>7
    <3>. QED
      BY <2>4, <2>6, <3>1 DEF Lists
  <2>9. PICK m \in 1 .. Len(s) : s[m] = t[i]
    BY <1>1, <2>6 DEF Lists
  <2>10. ~(i <= m)
    <3>1. SUFFICES ASSUME i <= m PROVE FALSE
      OBVIOUS
    <3>2. i = m \/ i < m
      BY <1>1, <2>3, <2>9, <3>1
    <3>3. s[i] = s[m] \/ s[i] < s[m]
      BY <2>3, <2>9, <3>2 DEF Lists
    <3>. QED
      BY <1>1, <2>3, <2>8, <2>9, <3>3
  <2>11. m \in 1 .. i - 1 /\ m < i
    BY <1>1, <2>3, <2>9, <2>10
  <2>12. m \in 1 .. Len(t) /\ t[m] = t[i]
    BY <2>3, <2>9, <2>11
  <2>13. t[m] < t[i]
    BY <2>6, <2>11, <2>12 DEF Lists
  <2>. QED
    BY <1>1, <2>6, <2>12, <2>13
<1>3. \A i \in 1 .. Len(s) : i \in 1 .. Len(t) /\ s[i] = t[i]
  BY <1>2
<1>4. Len(s) = Len(t)
  <2>1. Len(s) <= Len(t)
    BY <1>1, <1>3
  <2>2. SUFFICES ASSUME Len(s) < Len(t) PROVE FALSE
    BY <1>1, <2>1
  <2> DEFINE k == Len(t)
  <2>3. k \in 1 .. Len(t)
    BY <1>1, <2>2
  <2>4. PICK j \in 1 .. Len(s) : s[j] = t[k]
    BY <1>1, <2>3 DEF Lists
  <2>5. j \in 1 .. Len(t) /\ j < k /\ t[j] = t[k]
    BY <1>1, <1>3, <2>2, <2>4
  <2>6. t[j] < t[k]
    BY <2>3, <2>5 DEF Lists
  <2>. QED
    BY <1>1, <2>3, <2>5, <2>6
<1>. QED
  BY <1>3, <1>4, SeqEqual DEF Lists

LEMMA ListsNothing == Lists(<<>>, {})
BY EmptySeq DEF Lists

LEMMA ListsAppend ==
  ASSUME NEW s, NEW S, Lists(s, S), NEW m \in Nat, \A r \in S : r < m
  PROVE  Lists(s \o <<m>>, S \cup {m})
<1> DEFINE t == s \o <<m>>
<1>1. /\ s \in Seq(Nat) /\ Len(s) \in Nat
      /\ \A i \in 1 .. Len(s) : s[i] \in Nat /\ s[i] \in S
  BY ListsAt DEF Lists
<1>2. t = Append(s, m)
  BY <1>1, AppendIsConcat
<1>3. /\ t \in Seq(Nat) /\ Len(t) = Len(s) + 1 /\ t[Len(s) + 1] = m
      /\ \A i \in 1 .. Len(s) : t[i] = s[i]
  BY <1>1, <1>2, AppendProperties
<1> HIDE DEF t
<1>4. \A i \in 1 .. Len(t) : i \in 1 .. Len(s) \/ i = Len(s) + 1
  BY <1>1, <1>3
<1>5. ASSUME NEW i \in 1 .. Len(t), NEW j \in 1 .. Len(t), i < j PROVE t[i] < t[j]
  <2>1. i \in 1 .. Len(s)
    BY <1>1, <1>3, <1>5
  <2>2. CASE j \in 1 .. Len(s)
    BY <1>3, <1>5, <2>1, <2>2 DEF Lists
  <2>3. CASE j = Len(s) + 1
    BY <1>1, <1>3, <2>1, <2>3
  <2>. QED
    BY <1>4, <2>2, <2>3
<1>6. ASSUME NEW r PROVE r \in S \cup {m} <=> \E i \in 1 .. Len(t) : t[i] = r
  <2>1. \A i \in 1 .. Len(s) : i \in 1 .. Len(t)
    BY <1>1, <1>3
  <2>2. Len(s) + 1 \in 1 .. Len(t)
    BY <1>1, <1>3
  <2>. QED
    BY <1>3, <1>4, <2>1, <2>2 DEF Lists
<1>. QED
  BY <1>3, <1>5, <1>6 DEF Lists, t

LEMMA ListedNext ==
  ASSUME NEW k \in Nat, NEW S
  PROVE  Listed(k + 1, S) = Listed(k, S) \o (IF k + 1 \in S THEN <<k + 1>> ELSE <<>>)
<1> DEFINE one(r) == IF r \in S THEN <<r>> ELSE <<>>
           q == [r \in 1 .. k + 1 |-> one(r)]
           p == [r \in 1 .. k |-> one(r)]
<1>1. Len(q) = k + 1 /\ Len(p) = k
  OBVIOUS
<1>2. q[k + 1] = one(k + 1) /\ one(k + 1) \in Seq(Nat)
  OBVIOUS
<1>3. k = 0 => p = <<>>
  OBVIOUS
<1>4. \A i \in 1 .. k : p[i] = q[i]
  OBVIOUS
<1>5. Listed(k + 1, S) = FlattenSeq(q) /\ Listed(k, S) = FlattenSeq(p)
  BY DEF Listed
<1>7. <<>> \o q[k + 1] = q[k + 1]
  BY <1>2, ConcatEmptySeq
<1> HIDE DEF p, q, one
<1>6. FlattenSeq(q) = FlattenSeq(p) \o q[k + 1]
  BY <1>1, <1>3, <1>4, <1>7, FlattenNext
<1>. QED
  BY <1>2, <1>5, <1>6 DEF one

LEMMA ListedLists ==
  ASSUME NEW n \in Nat, NEW S
  PROVE  Lists(Listed(n, S), S \cap 1 .. n)
<1> DEFINE F == {m \in Nat : ~Lists(Listed(m, S), S \cap 1 .. m)}
<1> SUFFICES ASSUME F # {} PROVE FALSE
  OBVIOUS
<1>1. PICK m \in F : \A j \in F : m <= j
  BY LeastOf
<1>2. CASE m = 0
  <2>1. Listed(0, S) = <<>>
    <3>1. [r \in 1 .. 0 |-> IF r \in S THEN <<r>> ELSE <<>>] = <<>>
      OBVIOUS
    <3>. QED
      BY <3>1 DEF Listed, FlattenSeq
  <2>2. S \cap 1 .. 0 = {}
    OBVIOUS
  <2>. QED
    BY <1>1, <1>2, <2>1, <2>2, ListsNothing
<1>3. CASE m # 0
  <2> DEFINE k == m - 1
  <2>1. k \in Nat /\ k + 1 = m /\ m \in Nat
    BY <1>1, <1>3
  <2>2. k \notin F
    BY <1>1, <2>1
  <2>3. Lists(Listed(k, S), S \cap 1 .. k)
    BY <2>1, <2>2
  <2>4. Listed(m, S) = Listed(k, S) \o (IF m \in S THEN <<m>> ELSE <<>>)
    BY <2>1, ListedNext
  <2> HIDE DEF k
  <2>5. CASE m \in S
    <3>1. S \cap 1 .. m = (S \cap 1 .. k) \cup {m}
      BY <2>1, <2>5
    <3>2. \A r \in S \cap 1 .. k : r < m
      BY <2>1
    <3>3. Lists(Listed(k, S) \o <<m>>, (S \cap 1 .. k) \cup {m})
      BY <2>1, <2>3, <3>2, ListsAppend
    <3>. QED
      BY <1>1, <2>4, <2>5, <3>1, <3>3
  <2>6. CASE m \notin S
    <3>1. S \cap 1 .. m = S \cap 1 .. k
      BY <2>1, <2>6
    <3>2. Listed(k, S) \o <<>> = Listed(k, S)
      BY <2>3, ConcatEmptySeq DEF Lists
    <3>. QED
      BY <1>1, <2>3, <2>4, <2>6, <3>1, <3>2
  <2>. QED
    BY <2>5, <2>6
<1>. QED
  BY <1>2, <1>3

LEMMA ListsJoin ==
  ASSUME NEW s, NEW S, Lists(s, S), NEW t, NEW T, Lists(t, T),
         \A q \in S, r \in T : q < r
  PROVE  Lists(s \o t, S \cup T)
<1> DEFINE all == s \o t
<1>1. /\ s \in Seq(Nat) /\ Len(s) \in Nat /\ \A i \in 1 .. Len(s) : s[i] \in S
      /\ t \in Seq(Nat) /\ Len(t) \in Nat /\ \A i \in 1 .. Len(t) : t[i] \in T
  BY ListsAt DEF Lists
<1>2. /\ all \in Seq(Nat) /\ Len(all) = Len(s) + Len(t)
      /\ \A i \in 1 .. Len(s) + Len(t) :
           all[i] = IF i <= Len(s) THEN s[i] ELSE t[i - Len(s)]
  BY <1>1, ConcatProperties
<1> HIDE DEF all
<1>3. \A i \in 1 .. Len(s) : i \in 1 .. Len(all) /\ all[i] = s[i]
  BY <1>1, <1>2
<1>4. \A i \in 1 .. Len(all) :
        i \in 1 .. Len(s) \/ (i - Len(s) \in 1 .. Len(t) /\ all[i] = t[i - Len(s)])
  BY <1>1, <1>2
<1>5. ASSUME NEW i \in 1 .. Len(t)
      PROVE  Len(s) + i \in 1 .. Len(all) /\ all[Len(s) + i] = t[i]
  <2>1. /\ Len(s) + i \in 1 .. Len(s) + Len(t) /\ ~(Len(s) + i <= Len(s))
        /\ Len(s) + i - Len(s) = i
    BY <1>1
  <2>. QED
    BY <1>2, <2>1
<1>6. ASSUME NEW i \in 1 .. Len(all), NEW j \in 1 .. Len(all), i < j PROVE all[i] < all[j]
  <2>1. CASE j \in 1 .. Len(s)
    <3>1. i \in 1 .. Len(s)
      BY <1>1, <1>2, <1>6, <2>1
    <3>. QED
      BY <1>3, <1>6, <2>1, <3>1 DEF Lists
  <2>2. CASE i \in 1 .. Len(s) /\ j \notin 1 .. Len(s)
    BY <1>1, <1>3, <1>4, <2>2
  <2>3. CASE i \notin 1 .. Len(s) /\ j \notin 1 .. Len(s)
    <3>1. /\ i - Len(s) \in 1 .. Len(t) /\ all[i] = t[i - Len(s)]
          /\ j - Len(s) \in 1 .. Len(t) /\ all[j] = t[j - Len(s)]
      BY <1>4, <2>3
    <3>2. i - Len(s) < j - Len(s)
      BY <1>1, <1>6
    <3>. QED
      BY <3>1, <3>2 DEF Lists
  <2>4. CASE i \notin 1 .. Len(s) /\ j \in 1 .. Len(s)
    BY <1>1, <1>2, <1>6, <2>4
  <2>. QED
    BY <2>1, <2>2, <2>3, <2>4
<1>7. ASSUME NEW r PROVE r \in S \cup T <=> \E i \in 1 .. Len(all) : all[i] = r
  <2>1. r \in S => \E i \in 1 .. Len(all) : all[i] = r
    BY <1>3 DEF Lists
  <2>2. r \in T => \E i \in 1 .. Len(all) : all[i] = r
    BY <1>5 DEF Lists
  <2>3. \A i \in 1 .. Len(all) : all[i] \in S \cup T
    BY <1>1, <1>3, <1>4
  <2>. QED
    BY <2>1, <2>2, <2>3
<1>. QED
  BY <1>2, <1>6, <1>7 DEF Lists, all

\* A piece of a list.
LEMMA ListsSub ==
  ASSUME NEW s, NEW S, Lists(s, S), NEW a \in 1 .. Len(s) + 1, NEW b \in a - 1 .. Len(s)
  PROVE  Lists(SubSeq(s, a, b), {s[i] : i \in a .. b})
<1> DEFINE t == SubSeq(s, a, b)
           n == b - a + 1
<1>1. Len(s) \in Nat /\ \A i \in 1 .. Len(s) : s[i] \in Nat
  BY ListsAt
<1>2. a \in Nat /\ b \in Int /\ n \in Nat
  BY <1>1
<1>3. \A i \in a .. b : i \in 1 .. Len(s) /\ s[i] \in Nat
  BY <1>1
<1>4. /\ t \in Seq(Nat) /\ Len(t) = (IF a <= b THEN n ELSE 0)
      /\ \A i \in 1 .. n : t[i] = s[a + i - 1]
  BY <1>2, <1>3, SubSeqProperties
<1>5. Len(t) = n
  BY <1>2, <1>4
<1> HIDE DEF t
<1>6. \A i \in 1 .. n : a + i - 1 \in a .. b /\ a + i - 1 \in 1 .. Len(s)
  BY <1>1, <1>2
<1>7. ASSUME NEW i \in 1 .. Len(t), NEW j \in 1 .. Len(t), i < j PROVE t[i] < t[j]
  <2>1. a + i - 1 < a + j - 1
    BY <1>2, <1>5, <1>7
  <2>2. s[a + i - 1] < s[a + j - 1]
    BY <1>5, <1>6, <2>1 DEF Lists
  <2>. QED
    BY <1>4, <1>5, <2>2
<1>8. ASSUME NEW r
      PROVE  r \in {s[i] : i \in a .. b} <=> \E i \in 1 .. Len(t) : t[i] = r
  <2>1. ASSUME NEW i \in a .. b PROVE i - a + 1 \in 1 .. Len(t) /\ t[i - a + 1] = s[i]
    <3>1. i - a + 1 \in 1 .. n /\ a + (i - a + 1) - 1 = i
      BY <1>2
    <3>. QED
      BY <1>4, <1>5, <3>1
  <2>. QED
    BY <1>4, <1>5, <1>6, <2>1
<1>. QED
  BY <1>4, <1>7, <1>8 DEF Lists, t

\* The numbers up to a come first.
LEMMA ListsSplit ==
  ASSUME NEW s, NEW S, Lists(s, S), NEW a \in Nat
  PROVE  \E k \in 0 .. Len(s) : \A i \in 1 .. Len(s) : i <= k <=> s[i] <= a
<1> DEFINE F == {i \in 1 .. Len(s) : ~(s[i] <= a)}
<1>1. Len(s) \in Nat /\ \A i \in 1 .. Len(s) : s[i] \in Nat
  BY ListsAt
<1>2. CASE F = {}
  <2>1. Len(s) \in 0 .. Len(s) /\ \A i \in 1 .. Len(s) : i <= Len(s) <=> s[i] <= a
    BY <1>1, <1>2
  <2>. QED
    BY <2>1
<1>3. CASE F # {}
  <2>1. F \subseteq Nat
    OBVIOUS
  <2>2. PICK m \in F : \A j \in F : m <= j
    BY <1>3, <2>1, LeastOf
  <2>3. m \in 1 .. Len(s) /\ ~(s[m] <= a) /\ m - 1 \in 0 .. Len(s)
    BY <1>1
  <2>4. ASSUME NEW i \in 1 .. Len(s) PROVE i <= m - 1 <=> s[i] <= a
    <3>1. CASE i <= m - 1
      BY <2>2, <2>3, <3>1
    <3>2. CASE i = m
      BY <2>3, <3>2
    <3>3. CASE m < i
      <4>1. s[m] < s[i]
        BY <2>3, <3>3 DEF Lists
      <4>. QED
        BY <1>1, <2>3, <3>3, <4>1
    <3>. QED
      BY <2>3, <3>1, <3>2, <3>3
  <2>. QED
    BY <2>3, <2>4
<1>. QED
  BY <1>2, <1>3

\* Of the numbers in S, those that survive the loss of all up to a and of all from
\* e + 1 to c.
Survivors(S, a, e, c) == {r \in S : (a < r /\ r <= e) \/ c < r}

\* What TraceLog's Lose leaves of s.
RunsLost(s, t) ==
  \E first, last \in 0 .. Len(s) :
    \E next \in last + 1 .. Len(s) + 1 :
      /\ first <= last
      /\ t = SubSeq(s, first + 1, last) \o SubSeq(s, next, Len(s))

LEMMA ListsSurvivors ==
  ASSUME NEW s, NEW S, Lists(s, S), NEW a \in Nat, NEW e \in Nat, NEW c \in Nat,
         a <= e, e <= c, NEW t, Lists(t, Survivors(S, a, e, c))
  PROVE  RunsLost(s, t)
<1>1. /\ Len(s) \in Nat /\ s \in Seq(Nat)
      /\ \A i \in 1 .. Len(s) : s[i] \in Nat /\ s[i] \in S
  BY ListsAt DEF Lists
<1>2. PICK i \in 0 .. Len(s) : \A x \in 1 .. Len(s) : x <= i <=> s[x] <= a
  BY ListsSplit
<1>3. PICK j \in 0 .. Len(s) : \A x \in 1 .. Len(s) : x <= j <=> s[x] <= e
  BY ListsSplit
<1>4. PICK k \in 0 .. Len(s) : \A x \in 1 .. Len(s) : x <= k <=> s[x] <= c
  BY ListsSplit
<1>5. i <= j
  <2>1. SUFFICES ASSUME j < i PROVE FALSE
    BY <1>1
  <2>2. i \in 1 .. Len(s) /\ i <= i /\ ~(i <= j)
    BY <1>1, <2>1
  <2>3. s[i] <= a /\ ~(s[i] <= e)
    BY <1>2, <1>3, <2>2
  <2>. QED
    BY <1>1, <2>2, <2>3
<1>6. j <= k
  <2>1. SUFFICES ASSUME k < j PROVE FALSE
    BY <1>1
  <2>2. j \in 1 .. Len(s) /\ j <= j /\ ~(j <= k)
    BY <1>1, <2>1
  <2>3. s[j] <= e /\ ~(s[j] <= c)
    BY <1>3, <1>4, <2>2
  <2>. QED
    BY <1>1, <2>2, <2>3
<1> DEFINE u == SubSeq(s, i + 1, j)
           v == SubSeq(s, k + 1, Len(s))
           U == {s[x] : x \in i + 1 .. j}
           V == {s[x] : x \in k + 1 .. Len(s)}
<1>7. Lists(u, U)
  <2>1. i + 1 \in 1 .. Len(s) + 1 /\ j \in i + 1 - 1 .. Len(s)
    BY <1>1, <1>5
  <2>. QED
    BY <2>1, ListsSub
<1>8. Lists(v, V)
  <2>1. k + 1 \in 1 .. Len(s) + 1 /\ Len(s) \in k + 1 - 1 .. Len(s)
    BY <1>1
  <2>. QED
    BY <2>1, ListsSub
<1>9. U \cup V = Survivors(S, a, e, c)
  <2>1. ASSUME NEW r \in Survivors(S, a, e, c) PROVE r \in U \cup V
    <3>1. PICK x \in 1 .. Len(s) : s[x] = r
      BY DEF Survivors, Lists
    <3>2. (~(x <= i) /\ x <= j) \/ ~(x <= k)
      BY <1>1, <1>2, <1>3, <1>4, <3>1 DEF Survivors
    <3>3. x \in i + 1 .. j \/ x \in k + 1 .. Len(s)
      BY <1>1, <3>2
    <3>. QED
      BY <3>1, <3>3
  <2>2. ASSUME NEW x \in i + 1 .. j PROVE s[x] \in Survivors(S, a, e, c)
    <3>1. x \in 1 .. Len(s) /\ ~(x <= i) /\ x <= j
      BY <1>1
    <3>2. ~(s[x] <= a) /\ s[x] <= e /\ s[x] \in S /\ s[x] \in Nat
      BY <1>1, <1>2, <1>3, <3>1
    <3>. QED
      BY <3>2 DEF Survivors
  <2>3. ASSUME NEW x \in k + 1 .. Len(s) PROVE s[x] \in Survivors(S, a, e, c)
    <3>1. x \in 1 .. Len(s) /\ ~(x <= k)
      BY <1>1
    <3>2. ~(s[x] <= c) /\ s[x] \in S /\ s[x] \in Nat
      BY <1>1, <1>4, <3>1
    <3>. QED
      BY <3>2 DEF Survivors
  <2>. QED
    BY <2>1, <2>2, <2>3
<1>10. ASSUME NEW q \in U, NEW r \in V PROVE q < r
  <2>1. PICK x \in i + 1 .. j : q = s[x]
    OBVIOUS
  <2>2. PICK y \in k + 1 .. Len(s) : r = s[y]
    OBVIOUS
  <2> DEFINE l == Len(s)
  <2>3. /\ l \in Nat /\ i \in 0 .. l /\ j \in 0 .. l /\ k \in 0 .. l /\ j <= k
        /\ x \in i + 1 .. j /\ y \in k + 1 .. l
    BY <1>1, <1>6
  <2> HIDE DEF l
  <2>4. x \in 1 .. l /\ y \in 1 .. l /\ x < y
    BY <2>3
  <2>. QED
    BY <2>1, <2>2, <2>4 DEF Lists, l
<1> HIDE DEF u, v, U, V
<1>11. Lists(u \o v, U \cup V)
  BY <1>7, <1>8, <1>10, ListsJoin
<1>12. t = u \o v
  BY <1>9, <1>11, ListsOnce
<1>13. k + 1 \in j + 1 .. Len(s) + 1
  BY <1>1, <1>6
<1>. QED
  BY <1>5, <1>12, <1>13 DEF u, v, RunsLost

\* When no number between two that are lost survives, the numbers lost are a run.
LEMMA LostRun ==
  ASSUME NEW m \in Nat, NEW S, S \subseteq 1 .. m, NEW K, K \subseteq S,
         \A q, p \in S \ K, r \in S : q < r /\ r < p => r \notin K
  PROVE  \E e, c \in Nat : e <= c /\ K = Survivors(S, 0, e, c)
<1>1. CASE S \ K = {}
  <2>1. K = S
    BY <1>1
  <2>2. \A r \in S : 0 < r
    OBVIOUS
  <2>3. K = Survivors(S, 0, 0, 0)
    BY <2>1, <2>2 DEF Survivors
  <2>. QED
    BY <2>3
<1>2. CASE S \ K # {}
  <2>1. S \ K \subseteq Nat
    OBVIOUS
  <2>2. PICK a \in S \ K : \A x \in S \ K : a <= x
    BY <1>2, <2>1, LeastOf
  <2> DEFINE F == {x \in Nat : \A y \in S \ K : y <= x}
  <2>3. m \in F
    OBVIOUS
  <2>4. PICK c \in F : \A x \in F : c <= x
    BY <2>3, LeastOf
  <2>5. c \in S \ K
    <3> SUFFICES ASSUME c \notin S \ K PROVE FALSE
      OBVIOUS
    <3>1. a \in Nat /\ a <= c /\ 1 <= a /\ c \in Nat
      BY <2>2
    <3>2. \A y \in S \ K : y \in Nat /\ y <= c /\ y # c
      BY <2>4
    <3>3. c - 1 \in Nat /\ \A y \in S \ K : y <= c - 1
      BY <3>1, <3>2
    <3>4. c <= c - 1
      BY <2>4, <3>3
    <3>. QED
      BY <3>1, <3>4
  <2>6. a \in Nat \ {0} /\ c \in Nat /\ a <= c /\ a - 1 \in Nat /\ a - 1 <= c
    BY <2>2, <2>5
  <2>7. ASSUME NEW r \in S PROVE r \in K <=> (r <= a - 1 \/ c < r)
    <3>1. r \in Nat
      OBVIOUS
    <3>2. CASE r \in K
      <4>1. r # a /\ r # c /\ ~(a < r /\ r < c)
        BY <2>2, <2>5, <3>2
      <4>. QED
        BY <2>6, <3>1, <3>2, <4>1
    <3>3. CASE r \notin K
      <4>1. a <= r /\ r <= c
        BY <2>2, <2>4, <3>3
      <4>. QED
        BY <2>6, <3>1, <3>3, <4>1
    <3>. QED
      BY <3>2, <3>3
  <2>8. K = Survivors(S, 0, a - 1, c)
    <3>1. \A r \in S : 0 < r
      OBVIOUS
    <3>. QED
      BY <2>7, <3>1 DEF Survivors
  <2>. QED
    BY <2>6, <2>8
<1>. QED
  BY <1>1, <1>2

LEMMA ListsLoss ==
  ASSUME NEW m \in Nat, NEW S, S \subseteq 1 .. m, NEW K, K \subseteq S,
         \A q, p \in S \ K, r \in S : q < r /\ r < p => r \notin K,
         NEW s, Lists(s, S), NEW t, Lists(t, K)
  PROVE  RunsLost(s, t)
<1>1. PICK e, c \in Nat : e <= c /\ K = Survivors(S, 0, e, c)
  BY LostRun
<1> DEFINE a == 0
<1>2. a \in Nat /\ a <= e /\ Lists(t, Survivors(S, a, e, c))
  BY <1>1
<1> HIDE DEF a
<1>. QED
  BY <1>1, <1>2, ListsSurvivors

\* The least number comes first.
LEMMA ListsFirst ==
  ASSUME NEW s, NEW S, Lists(s, S), NEW m \in S, \A r \in S : m <= r,
         NEW t, Lists(t, S \ {m})
  PROVE  1 \in 1 .. Len(s) /\ SubSeq(s, 1, 1) = <<m>> /\ SubSeq(s, 2, Len(s)) = t
<1>1. S \subseteq Nat
  BY ListsAt
<1>2. Lists(<<m>>, {m})
  <2>1. Lists(<<>> \o <<m>>, {} \cup {m})
    BY <1>1, ListsNothing, ListsAppend
  <2>2. <<>> \o <<m>> = <<m>>
    BY <1>1, ConcatEmptySeq
  <2>. QED
    BY <2>1, <2>2
<1>3. \A q \in {m}, r \in S \ {m} : q < r
  BY <1>1
<1>4. Lists(<<m>> \o t, {m} \cup (S \ {m}))
  BY <1>2, <1>3, ListsJoin
<1>5. s = <<m>> \o t
  <2>1. {m} \cup (S \ {m}) = S
    OBVIOUS
  <2>. QED
    BY <1>4, <2>1, ListsOnce
<1>6. /\ t \in Seq(Nat) /\ Len(t) \in Nat /\ m \in Nat
      /\ <<m>> \in Seq(Nat) /\ Len(<<m>>) = 1
  BY <1>1, ListsAt DEF Lists
<1>7. /\ s \in Seq(Nat) /\ Len(s) = 1 + Len(t)
      /\ \A i \in 1 .. 1 + Len(t) : s[i] = IF i <= 1 THEN <<m>>[i] ELSE t[i - 1]
  BY <1>5, <1>6, ConcatProperties
<1> DEFINE h == SubSeq(s, 1, 1)
           u == SubSeq(s, 2, Len(s))
<1>8. \A i \in 1 .. 1 + Len(t) : s[i] \in Nat
  BY <1>7, ElementOfSeq
<1>9. /\ h \in Seq(Nat) /\ Len(h) = (IF 1 <= 1 THEN 1 - 1 + 1 ELSE 0)
      /\ \A i \in 1 .. 1 - 1 + 1 : h[i] = s[1 + i - 1]
  <2>1. \A i \in 1 .. 1 : s[i] \in Nat
    BY <1>6, <1>8
  <2>. QED
    BY <2>1, SubSeqProperties
<1>10. /\ u \in Seq(Nat) /\ Len(u) = (IF 2 <= Len(s) THEN Len(s) - 2 + 1 ELSE 0)
       /\ \A i \in 1 .. Len(s) - 2 + 1 : u[i] = s[2 + i - 1]
  <2>1. \A i \in 2 .. Len(s) : s[i] \in Nat
    BY <1>6, <1>7, <1>8
  <2>2. Len(s) \in Int
    BY <1>6, <1>7
  <2>. QED
    BY <2>1, <2>2, SubSeqProperties
<1> HIDE DEF h, u
<1>11. h = <<m>>
  <2>1. Len(h) = 1 /\ h[1] = s[1]
    BY <1>9
  <2>2. s[1] = m
    BY <1>6, <1>7
  <2>. QED
    BY <1>6, <1>9, <2>1, <2>2, SeqEqual
<1>12. u = t
  <2>1. Len(u) = Len(t)
    BY <1>6, <1>7, <1>10
  <2>2. ASSUME NEW i \in 1 .. Len(t) PROVE u[i] = t[i]
    <3>1. /\ i \in 1 .. Len(s) - 2 + 1 /\ 2 + i - 1 = i + 1 /\ i + 1 \in 1 .. 1 + Len(t)
          /\ ~(i + 1 <= 1) /\ i + 1 - 1 = i
      BY <1>6, <1>7
    <3>2. u[i] = s[i + 1]
      BY <1>10, <3>1
    <3>. QED
      BY <1>7, <3>1, <3>2
  <2>. QED
    BY <1>6, <1>10, <2>1, <2>2, SeqEqual
<1>. QED
  BY <1>6, <1>7, <1>11, <1>12 DEF h, u

----------------------------------------------------------------------------
\* Where records stand in a text.

\* The JSON of record r follows the first i pieces of t, and is whole.
WholeAt(z, t, i, r) == i + z[r] <= Len(t) /\ Holds(z, t, i, r)

LEMMA RecordSize ==
  ASSUME NEW z \in RecordSizes, NEW r \in 1 .. Len(z)
  PROVE  z[r] \in Nat \ {0} /\ r \in Nat \ {0} /\ Len(z) \in Nat
BY ElementOfSeq, LenProperties DEF RecordSizes

LEMMA PlaceOnce ==
  ASSUME NEW z \in RecordSizes, NEW t \in Seq(Pieces), Ordered(t), NEW r \in 1 .. Len(z),
         NEW i \in Nat, WholeAt(z, t, i, r), NEW j \in Nat, WholeAt(z, t, j, r)
  PROVE  i = j
<1> DEFINE a == i + 1
           b == j + 1
<1>1. z[r] \in Nat \ {0} /\ r \in Nat \ {0} /\ Len(t) \in Nat
  BY RecordSize, LenProperties
<1>2. a \in 1 .. Len(t) /\ b \in 1 .. Len(t) /\ t[a] = <<r, 1>> /\ t[b] = <<r, 1>>
  BY SMTT(30), <1>1 DEF WholeAt, Holds
<1> HIDE DEF a, b
<1>3. t[a][1] \in Nat \ {0} /\ t[a][2] \in Nat /\ t[a] = t[b]
  BY <1>1, <1>2
<1>4. a = b
  BY <1>1, <1>2, <1>3, OnePlace
<1>. QED
  BY <1>4 DEF a, b

\* A record that was accepted earlier stands earlier.
LEMMA PlaceOrder ==
  ASSUME NEW z \in RecordSizes, NEW t \in Seq(Pieces), Ordered(t),
         NEW q \in 1 .. Len(z), NEW r \in 1 .. Len(z), q < r,
         NEW i \in Nat, WholeAt(z, t, i, q), NEW j \in Nat, WholeAt(z, t, j, r)
  PROVE  i + z[q] <= j
<1> DEFINE a == i + z[q]
           b == j + 1
<1>1. /\ z[q] \in Nat \ {0} /\ z[r] \in Nat \ {0} /\ Len(t) \in Nat
      /\ q \in Nat \ {0} /\ r \in Nat \ {0}
  BY RecordSize, LenProperties
<1>2. a \in 1 .. Len(t) /\ b \in 1 .. Len(t)
  BY <1>1 DEF WholeAt
<1>3. t[a] = <<q, z[q]>> /\ t[b] = <<r, 1>>
  <2>1. z[q] \in 1 .. z[q] /\ 1 \in 1 .. z[r]
    BY <1>1
  <2>. QED
    BY <2>1 DEF WholeAt, Holds
<1> SUFFICES ASSUME j < a PROVE FALSE
  BY <1>1
<1>4. b <= a
  BY <1>1
<1> HIDE DEF a, b
<1>5. a # b
  BY <1>1, <1>3
<1>6. b < a
  BY <1>2, <1>4, <1>5
<1>7. Newline \notin {t[a], t[b]} /\ ~Before(t[b], t[a])
  BY <1>1, <1>3 DEF Newline, Before
<1>. QED
  BY <1>2, <1>6, <1>7 DEF Ordered

LEMMA PlaceTaken ==
  ASSUME NEW z \in RecordSizes, NEW t \in Seq(Pieces), NEW n, UpTo(t, n),
         NEW r \in 1 .. Len(z), NEW i \in Nat, WholeAt(z, t, i, r)
  PROVE  r <= n
<1>1. z[r] \in Nat \ {0} /\ Len(t) \in Nat
  BY RecordSize, LenProperties
<1>2. i + 1 \in 1 .. Len(t) /\ t[i + 1] = <<r, 1>>
  BY <1>1 DEF WholeAt, Holds
<1>. QED
  BY <1>2 DEF UpTo

\* What is readable depends on the pieces in the file alone.
LEMMA ReadableFront ==
  ASSUME NEW z \in RecordSizes, NEW d \in Nat, NEW s, NEW t,
         \A i \in 1 .. d : s[i] = t[i], NEW r \in 1 .. Len(z)
  PROVE  ReadableIn(z, s, d, r) <=> ReadableIn(z, t, d, r)
<1>1. z[r] \in Nat \ {0}
  BY RecordSize
<1>2. ASSUME NEW i \in Nat, i + z[r] + 1 <= d
      PROVE  /\ Holds(z, s, i, r) <=> Holds(z, t, i, r)
             /\ i = 0 \/ s[i] = t[i]
             /\ s[i + z[r] + 1] = t[i + z[r] + 1]
  <2>1. \A x \in 1 .. z[r] : i + x \in 1 .. d
    BY <1>1, <1>2
  <2>2. (i = 0 \/ i \in 1 .. d) /\ i + z[r] + 1 \in 1 .. d
    BY <1>1, <1>2
  <2>. QED
    BY <2>1, <2>2 DEF Holds
<1>. QED
  BY <1>2 DEF ReadableIn

\* Record r is not readable in the first d pieces of t, but may be when more of them
\* are in the file: its JSON is whole, and no piece beside it that is in the file is
\* anything but a newline.
Due(z, t, d, r) ==
  \E i \in Nat :
    /\ WholeAt(z, t, i, r)
    /\ i = 0 \/ d < i \/ t[i] = Newline
    /\ d <= i + z[r]

LEMMA ReadableTaken ==
  ASSUME NEW z \in RecordSizes, NEW t \in Seq(Pieces), NEW n, UpTo(t, n),
         NEW d \in 0 .. Len(t), NEW r \in 1 .. Len(z), ReadableIn(z, t, d, r)
  PROVE  \E i \in Nat : /\ WholeAt(z, t, i, r) /\ i + z[r] + 1 <= d /\ r <= n
                        /\ i = 0 \/ t[i] = Newline
                        /\ t[i + z[r] + 1] = Newline
<1>1. PICK i \in Nat : /\ i + z[r] + 1 <= d
                       /\ Holds(z, t, i, r)
                       /\ i = 0 \/ t[i] = Newline
                       /\ t[i + z[r] + 1] = Newline
  BY DEF ReadableIn
<1>2. z[r] \in Nat /\ Len(t) \in Nat
  BY RecordSize, LenProperties
<1>3. WholeAt(z, t, i, r)
  BY <1>1, <1>2 DEF WholeAt
<1>4. r <= n
  BY <1>3, PlaceTaken
<1>. QED
  BY <1>1, <1>3, <1>4

LEMMA DueNotReadable ==
  ASSUME NEW z \in RecordSizes, NEW t \in Seq(Pieces), Ordered(t),
         NEW d \in 0 .. Len(t), NEW r \in 1 .. Len(z), Due(z, t, d, r)
  PROVE  ~ReadableIn(z, t, d, r)
<1> SUFFICES ASSUME ReadableIn(z, t, d, r) PROVE FALSE
  OBVIOUS
<1>1. PICK i \in Nat : WholeAt(z, t, i, r) /\ d <= i + z[r]
  BY DEF Due
<1>2. PICK j \in Nat : j + z[r] + 1 <= d /\ Holds(z, t, j, r)
  BY DEF ReadableIn
<1>3. z[r] \in Nat /\ Len(t) \in Nat
  BY RecordSize, LenProperties
<1>4. WholeAt(z, t, j, r)
  BY <1>2, <1>3 DEF WholeAt
<1>5. i = j
  BY <1>1, <1>4, PlaceOnce
<1>. QED
  BY <1>1, <1>2, <1>3, <1>5

----------------------------------------------------------------------------
\* The two sets that the log and the pending records list, for records of sizes z of
\* which n have been taken, a text t and d pieces in the file.

InFile(z, t, d) == {r \in 1 .. Len(z) : ReadableIn(z, t, d, r)}

Pending(z, t, d, n) == {r \in 1 .. Len(z) : r > n \/ Due(z, t, d, r)}

Fits(z, t, d, n) ==
  z \in RecordSizes /\ Sound(t, n) /\ d \in 0 .. Len(t) /\ n \in 0 .. Len(z)

LEMMA FitsFacts ==
  ASSUME NEW z, NEW t, NEW d, NEW n, Fits(z, t, d, n)
  PROVE  /\ z \in RecordSizes /\ t \in Seq(Pieces) /\ Ordered(t) /\ UpTo(t, n)
         /\ d \in 0 .. Len(t) /\ n \in 0 .. Len(z)
         /\ Len(t) \in Nat /\ Len(z) \in Nat /\ d \in Nat /\ n \in Nat
<1>1. Len(t) \in Nat /\ Len(z) \in Nat
  BY LenProperties DEF Fits, Sound, RecordSizes
<1>. QED
  BY <1>1 DEF Fits, Sound

\* Record r is the last thing in the file, but for its newline.
EndsAt(z, t, d, r) ==
  \E i \in Nat : WholeAt(z, t, i, r) /\ i + z[r] = d /\ (i = 0 \/ t[i] = Newline)

LEMMA EndsDue ==
  ASSUME NEW z, NEW t, NEW d, NEW n, Fits(z, t, d, n),
         NEW r \in 1 .. Len(z), EndsAt(z, t, d, r)
  PROVE  /\ r \in Pending(z, t, d, n) /\ r <= n
         /\ d > 0 /\ t[d] = <<r, z[r]>> /\ t[d] # Newline
<1>1. PICK i \in Nat : WholeAt(z, t, i, r) /\ i + z[r] = d /\ (i = 0 \/ t[i] = Newline)
  BY DEF EndsAt
<1>2. /\ z[r] \in Nat \ {0} /\ r \in Nat \ {0} /\ UpTo(t, n) /\ d \in Nat
      /\ z \in RecordSizes /\ t \in Seq(Pieces)
  BY FitsFacts, RecordSize
<1>3. Due(z, t, d, r)
  BY <1>1, <1>2 DEF Due
<1>4. r <= n
  BY <1>1, <1>2, PlaceTaken
<1>5. t[i + z[r]] = <<r, z[r]>>
  <2>1. z[r] \in 1 .. z[r]
    BY <1>2
  <2>. QED
    BY <1>1, <2>1 DEF WholeAt, Holds
<1>. QED
  BY <1>1, <1>2, <1>3, <1>4, <1>5 DEF Pending, Newline

\* It is the oldest of the pending records.
LEMMA EndsFirst ==
  ASSUME NEW z, NEW t, NEW d, NEW n, Fits(z, t, d, n),
         NEW r \in 1 .. Len(z), EndsAt(z, t, d, r), NEW q \in Pending(z, t, d, n)
  PROVE  r <= q
<1>1. PICK i \in Nat : WholeAt(z, t, i, r) /\ i + z[r] = d
  BY DEF EndsAt
<1>2. /\ z \in RecordSizes /\ t \in Seq(Pieces) /\ Ordered(t) /\ n \in Nat /\ d \in Nat
      /\ q \in 1 .. Len(z) /\ r <= n
  BY FitsFacts, EndsDue DEF Pending
<1>3. /\ z[r] \in Nat \ {0} /\ r \in Nat \ {0}
      /\ z[q] \in Nat \ {0} /\ q \in Nat \ {0}
  BY <1>2, RecordSize
<1>4. CASE q > n
  BY <1>2, <1>3, <1>4
<1>5. CASE Due(z, t, d, q)
  <2>1. PICK j \in Nat : WholeAt(z, t, j, q) /\ d <= j + z[q]
    BY <1>5 DEF Due
  <2>2. SUFFICES ASSUME q < r PROVE FALSE
    BY <1>3
  <2>3. j + z[q] <= i
    BY <1>1, <1>2, <2>1, <2>2, PlaceOrder
  <2>. QED
    BY SMTT(30), <1>1, <1>2, <1>3, <2>1, <2>3
<1>. QED
  BY <1>4, <1>5 DEF Pending

\* It is younger than the readable records.
LEMMA EndsAfter ==
  ASSUME NEW z, NEW t, NEW d, NEW n, Fits(z, t, d, n),
         NEW r \in 1 .. Len(z), EndsAt(z, t, d, r), NEW q \in InFile(z, t, d)
  PROVE  q < r
<1>1. PICK i \in Nat : WholeAt(z, t, i, r) /\ i + z[r] = d
  BY DEF EndsAt
<1>2. /\ z \in RecordSizes /\ t \in Seq(Pieces) /\ Ordered(t) /\ n \in Nat /\ d \in Nat
      /\ d \in 0 .. Len(t) /\ UpTo(t, n)
      /\ q \in 1 .. Len(z) /\ ReadableIn(z, t, d, q)
  BY FitsFacts DEF InFile
<1>3. /\ z[r] \in Nat \ {0} /\ r \in Nat \ {0}
      /\ z[q] \in Nat \ {0} /\ q \in Nat \ {0}
  BY <1>2, RecordSize
<1>4. PICK j \in Nat : WholeAt(z, t, j, q) /\ j + z[q] + 1 <= d
  BY <1>2, ReadableTaken
<1>5. q # r
  <2>1. SUFFICES ASSUME q = r PROVE FALSE
    OBVIOUS
  <2>2. i = j
    BY <1>1, <1>2, <1>4, <2>1, PlaceOnce
  <2>. QED
    BY <1>1, <1>2, <1>3, <1>4, <2>1, <2>2
<1>6. ~(r < q)
  <2>1. SUFFICES ASSUME r < q PROVE FALSE
    OBVIOUS
  <2>2. i + z[r] <= j
    BY <1>1, <1>2, <1>4, <2>1, PlaceOrder
  <2>. QED
    BY <1>1, <1>2, <1>3, <1>4, <2>2
<1>. QED
  BY <1>3, <1>5, <1>6

----------------------------------------------------------------------------
\* The file grows by a piece.

\* With a newline after it the record that ended the file is readable.
LEMMA ReadableNext ==
  ASSUME NEW z, NEW t, NEW d, NEW n, Fits(z, t, d, n), d < Len(t), NEW r \in 1 .. Len(z)
  PROVE  ReadableIn(z, t, d + 1, r) <=>
           ReadableIn(z, t, d, r) \/ (EndsAt(z, t, d, r) /\ t[d + 1] = Newline)
<1>1. z[r] \in Nat \ {0} /\ d \in Nat /\ Len(t) \in Nat
  BY FitsFacts, RecordSize
<1>2. ASSUME ReadableIn(z, t, d, r) PROVE ReadableIn(z, t, d + 1, r)
  BY <1>1, <1>2 DEF ReadableIn
<1>3. ASSUME EndsAt(z, t, d, r), t[d + 1] = Newline PROVE ReadableIn(z, t, d + 1, r)
  <2>1. PICK i \in Nat : WholeAt(z, t, i, r) /\ i + z[r] = d /\ (i = 0 \/ t[i] = Newline)
    BY <1>3 DEF EndsAt
  <2>2. i + z[r] + 1 = d + 1
    BY <2>1
  <2>. QED
    BY <1>1, <1>3, <2>1, <2>2 DEF ReadableIn, WholeAt
<1>4. ASSUME ReadableIn(z, t, d + 1, r), ~ReadableIn(z, t, d, r)
      PROVE  EndsAt(z, t, d, r) /\ t[d + 1] = Newline
  <2>1. PICK i \in Nat : /\ i + z[r] + 1 <= d + 1
                         /\ Holds(z, t, i, r)
                         /\ i = 0 \/ t[i] = Newline
                         /\ t[i + z[r] + 1] = Newline
    BY <1>4 DEF ReadableIn
  <2>2. ~(i + z[r] + 1 <= d)
    BY <1>4, <2>1 DEF ReadableIn
  <2>3. i + z[r] = d /\ i + z[r] <= Len(t) /\ i + z[r] + 1 = d + 1
    BY <1>1, <2>1, <2>2
  <2>. QED
    BY <2>1, <2>3 DEF EndsAt, WholeAt
<1>. QED
  BY <1>2, <1>3, <1>4

\* A record stops being due when it is readable, or when the piece before it reaches
\* the file and is no newline.
LEMMA DueNext ==
  ASSUME NEW z, NEW t, NEW d, NEW n, Fits(z, t, d, n), d < Len(t), NEW r \in 1 .. Len(z)
  PROVE  /\ Due(z, t, d + 1, r) => Due(z, t, d, r) /\ ~EndsAt(z, t, d, r)
         /\ Due(z, t, d, r) => \/ Due(z, t, d + 1, r) \/ EndsAt(z, t, d, r)
                               \/ WholeAt(z, t, d + 1, r) /\ t[d + 1] # Newline
<1>1. /\ z[r] \in Nat \ {0} /\ d \in Nat /\ Len(t) \in Nat
      /\ z \in RecordSizes /\ t \in Seq(Pieces) /\ Ordered(t)
  BY FitsFacts, RecordSize
<1>2. ASSUME Due(z, t, d + 1, r) PROVE Due(z, t, d, r) /\ ~EndsAt(z, t, d, r)
  <2>1. PICK i \in Nat : /\ WholeAt(z, t, i, r)
                         /\ i = 0 \/ d + 1 < i \/ t[i] = Newline
                         /\ d + 1 <= i + z[r]
    BY <1>2 DEF Due
  <2>2. (d + 1 < i => d < i) /\ d <= i + z[r]
    BY <1>1, <2>1
  <2>3. ~EndsAt(z, t, d, r)
    <3> SUFFICES ASSUME NEW j \in Nat, WholeAt(z, t, j, r), j + z[r] = d PROVE FALSE
      BY DEF EndsAt
    <3>1. i = j
      BY <1>1, <2>1, PlaceOnce
    <3>. QED
      BY <1>1, <2>1, <3>1
  <2>. QED
    BY <2>1, <2>2, <2>3 DEF Due
<1>3. ASSUME Due(z, t, d, r), ~Due(z, t, d + 1, r), ~EndsAt(z, t, d, r)
      PROVE  WholeAt(z, t, d + 1, r) /\ t[d + 1] # Newline
  <2>1. PICK i \in Nat : /\ WholeAt(z, t, i, r)
                         /\ i = 0 \/ d < i \/ t[i] = Newline
                         /\ d <= i + z[r]
    BY <1>3 DEF Due
  <2>2. i + z[r] # d
    <3>1. SUFFICES ASSUME i + z[r] = d PROVE FALSE
      OBVIOUS
    <3>2. i = 0 \/ t[i] = Newline
      BY <1>1, <2>1, <3>1
    <3>. QED
      BY <1>3, <2>1, <3>1, <3>2 DEF EndsAt
  <2>3. d + 1 <= i + z[r]
    BY <1>1, <2>1, <2>2
  <2>4. ~(i = 0 \/ d + 1 < i \/ t[i] = Newline)
    BY <1>3, <2>1, <2>3 DEF Due
  <2>5. i = d + 1
    BY <1>1, <2>1, <2>4
  <2>. QED
    BY <2>1, <2>4, <2>5
<1>. QED
  BY <1>2, <1>3

LEMMA NewlineWritten ==
  ASSUME NEW z, NEW t, NEW d, NEW n, Fits(z, t, d, n), d < Len(t), t[d + 1] = Newline
  PROVE  \/ /\ InFile(z, t, d + 1) = InFile(z, t, d)
            /\ Pending(z, t, d + 1, n) = Pending(z, t, d, n)
         \/ \E r \in Pending(z, t, d, n) :
              /\ \A q \in Pending(z, t, d, n) : r <= q
              /\ \A q \in InFile(z, t, d) : q < r
              /\ InFile(z, t, d + 1) = InFile(z, t, d) \cup {r}
              /\ Pending(z, t, d + 1, n) = Pending(z, t, d, n) \ {r}
<1>1. \A r \in 1 .. Len(z) :
        ReadableIn(z, t, d + 1, r) <=> ReadableIn(z, t, d, r) \/ EndsAt(z, t, d, r)
  BY ReadableNext
<1>2. \A r \in 1 .. Len(z) :
        Due(z, t, d + 1, r) <=> Due(z, t, d, r) /\ ~EndsAt(z, t, d, r)
  BY DueNext
<1>3. CASE \A r \in 1 .. Len(z) : ~EndsAt(z, t, d, r)
  BY <1>1, <1>2, <1>3 DEF InFile, Pending
<1>4. CASE \E r \in 1 .. Len(z) : EndsAt(z, t, d, r)
  <2>1. PICK r \in 1 .. Len(z) : EndsAt(z, t, d, r)
    BY <1>4
  <2>2. r \in Pending(z, t, d, n) /\ r <= n
    BY <2>1, EndsDue
  <2>3. \A q \in Pending(z, t, d, n) : r <= q
    BY <2>1, EndsFirst
  <2>4. \A q \in InFile(z, t, d) : q < r
    BY <2>1, EndsAfter
  <2>5. \A q \in 1 .. Len(z) : EndsAt(z, t, d, q) <=> q = r
    <3> SUFFICES ASSUME NEW q \in 1 .. Len(z), EndsAt(z, t, d, q) PROVE q = r
      BY <2>1
    <3>1. q \in Pending(z, t, d, n) /\ q <= r
      BY <2>2, EndsDue, EndsFirst
    <3>. QED
      BY <2>3, <3>1
  <2>6. InFile(z, t, d + 1) = InFile(z, t, d) \cup {r}
    BY <1>1, <2>5 DEF InFile
  <2>7. ~(r > n)
    BY <2>2, FitsFacts
  <2>8. Pending(z, t, d + 1, n) = Pending(z, t, d, n) \ {r}
    BY <1>2, <2>5, <2>7 DEF Pending
  <2>. QED
    BY <2>2, <2>3, <2>4, <2>6, <2>8
<1>. QED
  BY <1>3, <1>4

\* Numbers are lost from S, but none of those left lies between two that are lost.
Loses(S, K) ==
  /\ K \subseteq S
  /\ \A q, p \in S \ K, r \in S : q < r /\ r < p => r \notin K

\* A piece of JSON spoils the record whose newline should have come there, and the one
\* that comes next without a newline before it.
LEMMA PieceWritten ==
  ASSUME NEW z, NEW t, NEW d, NEW n, Fits(z, t, d, n), d < Len(t), t[d + 1] # Newline
  PROVE  /\ InFile(z, t, d + 1) = InFile(z, t, d)
         /\ Loses(Pending(z, t, d, n), Pending(z, t, d + 1, n))
<1> DEFINE S == Pending(z, t, d, n)
           K == Pending(z, t, d + 1, n)
<1>1. InFile(z, t, d + 1) = InFile(z, t, d)
  BY ReadableNext DEF InFile
<1>2. K \subseteq S
  BY DueNext DEF Pending
<1>3. /\ z \in RecordSizes /\ t \in Seq(Pieces) /\ Ordered(t) /\ n \in Nat /\ d \in Nat
      /\ Len(z) \in Nat
  BY FitsFacts
<1>4. ASSUME NEW q \in S \ K
      PROVE  q <= n /\ (EndsAt(z, t, d, q) \/ WholeAt(z, t, d + 1, q))
  <2>1. q \in 1 .. Len(z) /\ ~(q > n) /\ Due(z, t, d, q) /\ ~Due(z, t, d + 1, q)
    BY DEF Pending
  <2>. QED
    BY <1>3, <2>1, DueNext
<1>5. ASSUME NEW q \in S \ K, NEW p \in S \ K, NEW r \in K, q < r, r < p PROVE FALSE
  <2>1. q \in 1 .. Len(z) /\ p \in 1 .. Len(z) /\ r \in 1 .. Len(z)
    BY DEF Pending
  <2>2. p <= n /\ ~(r > n)
    BY <1>3, <1>4, <1>5, <2>1
  <2>3. Due(z, t, d + 1, r)
    BY <2>2 DEF Pending
  <2>4. PICK j \in Nat : WholeAt(z, t, j, r) /\ (j = 0 \/ d + 1 < j \/ t[j] = Newline)
    BY <2>3 DEF Due
  <2>5. z[q] \in Nat \ {0} /\ z[p] \in Nat \ {0} /\ z[r] \in Nat \ {0} /\ q \in Nat
    BY <1>3, <2>1, RecordSize
  <2>6. d <= j
    <3>1. CASE EndsAt(z, t, d, q)
      <4>1. PICK i \in Nat : WholeAt(z, t, i, q) /\ i + z[q] = d
        BY <3>1 DEF EndsAt
      <4>. QED
        BY <1>3, <1>5, <2>1, <2>4, <4>1, PlaceOrder
    <3>2. CASE WholeAt(z, t, d + 1, q)
      <4>1. d + 1 + z[q] <= j
        BY <1>3, <1>5, <2>1, <2>4, <3>2, PlaceOrder
      <4>. QED
        BY <1>3, <2>4, <2>5, <4>1
    <3>. QED
      BY <1>4, <3>1, <3>2
  <2>7. ~EndsAt(z, t, d, p)
    <3> SUFFICES ASSUME NEW i \in Nat, WholeAt(z, t, i, p), i + z[p] = d PROVE FALSE
      BY DEF EndsAt
    <3>1. j + z[r] <= i
      BY <1>3, <1>5, <2>1, <2>4, PlaceOrder
    <3>2. d \in Nat /\ z[p] \in Nat \ {0} /\ z[r] \in Nat \ {0}
      BY <1>3, <2>5
    <3>. QED
      BY <2>6, <3>1, <3>2
  <2>8. WholeAt(z, t, d + 1, p)
    BY <1>4, <2>7
  <2>9. j + z[r] <= d + 1
    BY <1>3, <1>5, <2>1, <2>4, <2>8, PlaceOrder
  <2>10. j = d /\ (j = 0 \/ t[j] = Newline)
    BY SMTT(30), <1>3, <2>4, <2>5, <2>6, <2>9
  <2>11. EndsAt(z, t, d, q)
    <3>1. SUFFICES ASSUME WholeAt(z, t, d + 1, q) PROVE FALSE
      BY <1>4
    <3>2. d + 1 + z[q] <= j
      BY <1>3, <1>5, <2>1, <2>4, <3>1, PlaceOrder
    <3>. QED
      BY <1>3, <2>5, <2>10, <3>2
  <2>12. d > 0 /\ t[d] # Newline
    BY <2>1, <2>11, EndsDue
  <2>. QED
    BY <1>3, <2>10, <2>12
<1>. QED
  BY <1>1, <1>2, <1>5 DEF Loses

----------------------------------------------------------------------------
\* Pieces are lost.

\* No newline comes between the pieces of a record.
Unbroken(t) ==
  \A a, c, b \in 1 .. Len(t) :
    a < c /\ c < b /\ t[a][1] = t[b][1] /\ t[c] = Newline => t[a] = Newline

LEMMA UnbrokenCut ==
  ASSUME NEW s \in Seq(Pieces), NEW v \in Seq(Pieces), NEW u \in Seq(Pieces),
         Unbroken(s \o (v \o u))
  PROVE  Unbroken(s \o u)
<1> DEFINE all == s \o (v \o u)
           kept == s \o u
           at(j) == Place(j, Len(s), Len(v))
<1>1. /\ Len(s) \in Nat /\ Len(v) \in Nat /\ Len(u) \in Nat
      /\ Len(kept) = Len(s) + Len(u)
      /\ Len(all) = Len(s) + (Len(v) + Len(u))
  BY CutAt
<1>2. \A j \in 1 .. Len(kept) : kept[j] = all[at(j)]
  <2>1. \A j \in 1 .. Len(s) + Len(u) : kept[j] = all[at(j)]
    BY CutAt
  <2>. QED
    BY <1>1, <2>1
<1>3. /\ \A j \in 1 .. Len(kept) : at(j) \in 1 .. Len(all)
      /\ \A j, k \in 1 .. Len(kept) : j < k => at(j) < at(k)
  BY <1>1, PlaceRises
<1> HIDE DEF all, kept, at
<1>4. Unbroken(all)
  BY DEF all
<1>5. Unbroken(kept)
  <2> SUFFICES ASSUME NEW a \in 1 .. Len(kept), NEW c \in 1 .. Len(kept),
                      NEW b \in 1 .. Len(kept), a < c, c < b,
                      kept[a][1] = kept[b][1], kept[c] = Newline
               PROVE  kept[a] = Newline
    BY DEF Unbroken
  <2>1. /\ at(a) \in 1 .. Len(all) /\ at(c) \in 1 .. Len(all) /\ at(b) \in 1 .. Len(all)
        /\ at(a) < at(c) /\ at(c) < at(b)
    BY <1>3
  <2>2. kept[a] = all[at(a)] /\ kept[c] = all[at(c)] /\ kept[b] = all[at(b)]
    BY <1>2
  <2>3. all[at(a)][1] = all[at(b)][1] /\ all[at(c)] = Newline
    BY <2>2
  <2>4. all[at(a)] = Newline
    BY <1>4, <2>1, <2>3 DEF Unbroken
  <2>. QED
    BY <2>2, <2>4
<1>. QED
  BY <1>5 DEF kept

\* What is whole without the pieces lost was whole before.
LEMMA CutPlace ==
  ASSUME NEW z \in RecordSizes, NEW s \in Seq(Pieces), NEW v \in Seq(Pieces),
         NEW u \in Seq(Pieces), Ordered(s \o (v \o u)), Unbroken(s \o (v \o u)),
         NEW r \in 1 .. Len(z), NEW i \in Nat, WholeAt(z, s \o u, i, r)
  PROVE  \/ i <= Len(s) /\ WholeAt(z, s \o (v \o u), i, r)
         \/ Len(s) <= i /\ WholeAt(z, s \o (v \o u), i + Len(v), r)
<1> DEFINE all == s \o (v \o u)
           kept == s \o u
           at(j) == Place(j, Len(s), Len(v))
           a == Len(s)
           c == Len(v)
           w == z[r]
<1>1. /\ a \in Nat /\ c \in Nat /\ Len(u) \in Nat
      /\ Len(kept) = a + Len(u)
      /\ Len(all) = a + (c + Len(u))
      /\ kept \in Seq(Pieces) /\ all \in Seq(Pieces)
  BY CutAt
<1>2. \A j \in 1 .. Len(kept) : kept[j] = all[at(j)]
  <2>1. \A j \in 1 .. Len(s) + Len(u) : kept[j] = all[at(j)]
    BY CutAt
  <2>. QED
    BY <1>1, <2>1
<1>3. \A j \in 1 .. a : at(j) = j
  BY <1>1 DEF Place
<1>4. \A j \in Nat : j > a => at(j) = j + c
  BY <1>1 DEF Place
<1>5. Ordered(all) /\ Unbroken(all)
  OBVIOUS
<1> HIDE DEF all, kept, at
<1>6. i + w <= Len(kept) /\ \A x \in 1 .. w : kept[i + x] = <<r, x>>
  BY DEF WholeAt, Holds, kept
<1>7. w \in Nat \ {0} /\ r \in Nat \ {0}
  BY RecordSize
<1> HIDE DEF a, c, w
<1>8. CASE i + w <= a
  <2>1. ASSUME NEW x \in 1 .. w PROVE all[i + x] = <<r, x>>
    <3>1. i + x \in 1 .. a /\ i + x \in 1 .. Len(kept)
      BY <1>1, <1>7, <1>8
    <3>. QED
      BY <1>2, <1>3, <1>6, <3>1
  <2>2. i + w <= Len(all) /\ i <= a
    BY <1>1, <1>7, <1>8
  <2>. QED
    BY <2>1, <2>2 DEF WholeAt, Holds, all, a, w
<1>9. CASE a <= i
  <2>1. ASSUME NEW x \in 1 .. w PROVE all[i + c + x] = <<r, x>>
    <3>1. i + x \in Nat /\ i + x > a /\ i + x \in 1 .. Len(kept) /\ i + c + x = i + x + c
      BY <1>1, <1>6, <1>7, <1>9
    <3>2. at(i + x) = i + x + c
      BY <1>4, <3>1
    <3>3. kept[i + x] = all[at(i + x)]
      BY <1>2, <3>1
    <3>. QED
      BY <1>6, <3>1, <3>2, <3>3
  <2>2. i + c + w <= Len(all)
    BY <1>1, <1>6, <1>7
  <2>. QED
    BY <1>9, <2>1, <2>2 DEF WholeAt, Holds, all, a, c, w
<1>10. CASE i < a /\ a < i + w
  <2> DEFINE x == a - i
             y == x + 1
             b == a + c + 1
  <2>1. /\ x \in 1 .. w /\ y \in 1 .. w /\ i + x = a /\ i + y = a + 1
        /\ a \in 1 .. a /\ a \in 1 .. Len(kept) /\ a + 1 \in 1 .. Len(kept)
        /\ a + 1 \in Nat /\ a + 1 > a /\ a + 1 + c = b
        /\ a \in 1 .. Len(all) /\ b \in 1 .. Len(all)
    BY <1>1, <1>6, <1>7, <1>10
  <2> HIDE DEF y, b, x
  <2>2. all[a] = <<r, x>>
    <3>1. kept[a] = <<r, x>>
      BY <1>6, <2>1
    <3>2. kept[a] = all[a]
      BY <1>2, <1>3, <2>1
    <3>. QED
      BY <3>1, <3>2
  <2>3. all[b] = <<r, y>>
    <3>1. kept[a + 1] = <<r, y>>
      BY <1>6, <2>1
    <3>2. at(a + 1) = b
      BY <1>4, <2>1
    <3>3. kept[a + 1] = all[at(a + 1)]
      BY <1>2, <2>1
    <3>. QED
      BY <3>1, <3>2, <3>3
  <2>4. c = 0
    <3> SUFFICES ASSUME c # 0 PROVE FALSE
      OBVIOUS
    <3> DEFINE e == a + 1
    <3>1. e \in 1 .. Len(all) /\ a < e /\ e < b
      BY <1>1, <2>1 DEF b
    <3> HIDE DEF e
    <3>2. all[e] # Newline
      <4>1. all[a] # Newline /\ all[a][1] = all[b][1]
        BY <1>7, <2>2, <2>3 DEF Newline
      <4>. QED
        BY <1>5, <2>1, <3>1, <4>1 DEF Unbroken
    <3>3. Newline \notin {all[a], all[e], all[b]}
      BY <1>7, <2>2, <2>3, <3>2 DEF Newline
    <3>4. Before(all[a], all[e]) /\ Before(all[e], all[b])
      BY <1>5, <2>1, <3>1, <3>3 DEF Ordered
    <3>5. all[e][1] \in Nat /\ all[e][2] \in Nat
      BY <1>1, <3>1, ElementOfSeq, PiecesAreNumbers
    <3> DEFINE e1 == all[e][1]
               e2 == all[e][2]
    <3>6. (r < e1 \/ (r = e1 /\ x < e2)) /\ (e1 < r \/ (e1 = r /\ e2 < y))
      BY <2>2, <2>3, <3>4 DEF Before
    <3>7. x \in Nat /\ y = x + 1
      BY <2>1 DEF y
    <3>8. e1 \in Nat /\ e2 \in Nat
      BY <3>5
    <3> HIDE DEF e1, e2
    <3>. QED
      BY <1>7, <3>6, <3>7, <3>8
  <2>5. \A j \in 1 .. Len(kept) : kept[j] = all[j] /\ Len(kept) = Len(all)
    <3>1. \A j \in 1 .. Len(kept) : at(j) = j
      BY <1>1, <1>3, <1>4, <2>4
    <3>. QED
      BY <1>1, <1>2, <2>4, <3>1
  <2>6. ASSUME NEW k \in 1 .. w PROVE all[i + k] = <<r, k>>
    <3>1. i + k \in 1 .. Len(kept)
      BY <1>1, <1>6, <1>7
    <3>. QED
      BY <1>6, <2>5, <3>1
  <2>7. i + w <= Len(all) /\ i <= a
    BY <1>1, <1>6, <1>10, <2>4
  <2>. QED
    BY <2>6, <2>7 DEF WholeAt, Holds, all, a, w
<1>. QED
  BY <1>1, <1>7, <1>8, <1>9, <1>10

\* What was whole on one side of the cut is whole without the pieces lost.
LEMMA CutKeeps ==
  ASSUME NEW z \in RecordSizes, NEW s \in Seq(Pieces), NEW v \in Seq(Pieces),
         NEW u \in Seq(Pieces), NEW r \in 1 .. Len(z), NEW i \in Nat,
         WholeAt(z, s \o (v \o u), i, r)
  PROVE  /\ i + z[r] <= Len(s) => WholeAt(z, s \o u, i, r)
         /\ Len(s) + Len(v) <= i => WholeAt(z, s \o u, i - Len(v), r)
<1> DEFINE all == s \o (v \o u)
           kept == s \o u
           at(j) == Place(j, Len(s), Len(v))
           a == Len(s)
           c == Len(v)
           w == z[r]
<1>1. /\ a \in Nat /\ c \in Nat /\ Len(u) \in Nat
      /\ Len(kept) = a + Len(u)
      /\ Len(all) = a + (c + Len(u))
  BY CutAt
<1>2. \A j \in 1 .. Len(kept) : kept[j] = all[at(j)]
  <2>1. \A j \in 1 .. Len(s) + Len(u) : kept[j] = all[at(j)]
    BY CutAt
  <2>. QED
    BY <1>1, <2>1
<1>3. \A j \in 1 .. a : at(j) = j
  BY <1>1 DEF Place
<1>4. \A j \in Nat : j > a => at(j) = j + c
  BY <1>1 DEF Place
<1> HIDE DEF all, kept, at
<1>5. i + w <= Len(all) /\ \A x \in 1 .. w : all[i + x] = <<r, x>>
  BY DEF WholeAt, Holds, all
<1>6. w \in Nat \ {0}
  BY RecordSize
<1> HIDE DEF a, c, w
<1>7. ASSUME i + w <= a PROVE WholeAt(z, kept, i, r)
  <2>1. \A x \in 1 .. w : i + x \in 1 .. a /\ i + x \in 1 .. Len(kept)
    BY <1>1, <1>6, <1>7
  <2>2. \A x \in 1 .. w : kept[i + x] = <<r, x>>
    BY <1>2, <1>3, <1>5, <2>1
  <2>3. i + w <= Len(kept)
    BY <1>1, <1>6, <1>7
  <2>. QED
    BY <2>2, <2>3 DEF WholeAt, Holds, w
<1>8. ASSUME a + c <= i PROVE WholeAt(z, kept, i - c, r)
  <2> DEFINE h == i - c
  <2>1. h \in Nat /\ h + c = i /\ a <= h /\ h + w <= Len(kept)
    BY <1>1, <1>5, <1>6, <1>8
  <2> HIDE DEF h
  <2>2. ASSUME NEW x \in 1 .. w PROVE kept[h + x] = <<r, x>>
    <3>1. h + x \in Nat /\ h + x > a /\ h + x \in 1 .. Len(kept) /\ h + x + c = i + x
      BY <1>1, <1>6, <2>1
    <3>2. at(h + x) = i + x
      BY <1>4, <3>1
    <3>3. kept[h + x] = all[at(h + x)]
      BY <1>2, <3>1
    <3>. QED
      BY <1>5, <3>2, <3>3
  <2>3. WholeAt(z, kept, h, r)
    BY <2>1, <2>2 DEF WholeAt, Holds, w
  <2>. QED
    BY <2>3 DEF h
<1>. QED
  BY <1>7, <1>8 DEF a, c, w, kept

\* Before the cut nothing changes.
LEMMA CutFront ==
  ASSUME NEW s \in Seq(Pieces), NEW v \in Seq(Pieces), NEW u \in Seq(Pieces)
  PROVE  /\ Len(s) \in Nat /\ Len(v) \in Nat /\ Len(u) \in Nat
         /\ Len(s \o u) = Len(s) + Len(u)
         /\ \A j \in 1 .. Len(s) : (s \o u)[j] = (s \o (v \o u))[j]
<1>1. /\ Len(s) \in Nat /\ Len(v) \in Nat /\ Len(u) \in Nat
      /\ Len(s \o u) = Len(s) + Len(u)
      /\ \A j \in 1 .. Len(s) + Len(u) :
           (s \o u)[j] = (s \o (v \o u))[Place(j, Len(s), Len(v))]
  BY CutAt
<1>2. \A j \in 1 .. Len(s) :
        j \in 1 .. Len(s) + Len(u) /\ Place(j, Len(s), Len(v)) = j
  BY <1>1 DEF Place
<1>. QED
  BY <1>1, <1>2

LEMMA CutDue ==
  ASSUME NEW z \in RecordSizes, NEW s \in Seq(Pieces), NEW v \in Seq(Pieces),
         NEW u \in Seq(Pieces), Ordered(s \o (v \o u)), Unbroken(s \o (v \o u)),
         NEW d \in 0 .. Len(s), NEW r \in 1 .. Len(z), Due(z, s \o u, d, r)
  PROVE  Due(z, s \o (v \o u), d, r)
<1> DEFINE all == s \o (v \o u)
           kept == s \o u
<1>1. /\ Len(s) \in Nat /\ Len(v) \in Nat /\ d \in Nat /\ z[r] \in Nat
      /\ \A j \in 1 .. Len(s) : kept[j] = all[j]
  <2>1. z[r] \in Nat /\ d \in Nat
    BY RecordSize, LenProperties
  <2>. QED
    BY <2>1, CutFront
<1>2. PICK i \in Nat : /\ WholeAt(z, kept, i, r)
                       /\ i = 0 \/ d < i \/ kept[i] = Newline
                       /\ d <= i + z[r]
  BY DEF Due
<1>3. \/ i <= Len(s) /\ WholeAt(z, all, i, r)
      \/ Len(s) <= i /\ WholeAt(z, all, i + Len(v), r)
  BY <1>2, CutPlace
<1> HIDE DEF all, kept
<1>4. CASE i <= Len(s) /\ WholeAt(z, all, i, r)
  <2>1. i = 0 \/ i \in 1 .. Len(s)
    BY <1>1, <1>4
  <2>2. i = 0 \/ d < i \/ all[i] = Newline
    BY <1>1, <1>2, <2>1
  <2>3. Due(z, all, d, r)
    BY <1>2, <1>4, <2>2 DEF Due
  <2>. QED
    BY <2>3 DEF all
<1>5. CASE Len(s) <= i /\ WholeAt(z, all, i + Len(v), r)
  <2>1. i + Len(v) \in Nat /\ d <= i + Len(v) + z[r]
    BY <1>1, <1>2
  <2>2. i + Len(v) = 0 \/ d < i + Len(v) \/ all[i + Len(v)] = Newline
    <3>1. CASE d < i + Len(v)
      BY <3>1
    <3>2. CASE ~(d < i + Len(v))
      <4>1. i + Len(v) = i /\ i <= Len(s) /\ ~(d < i) /\ (i = 0 \/ i \in 1 .. Len(s))
        BY <1>1, <1>5, <3>2
      <4>. QED
        BY <1>1, <1>2, <4>1
    <3>. QED
      BY <3>1, <3>2
  <2>3. Due(z, all, d, r)
    BY <1>5, <2>1, <2>2 DEF Due
  <2>. QED
    BY <2>3 DEF all
<1>. QED
  BY <1>3, <1>4, <1>5

LEMMA CutDueStays ==
  ASSUME NEW z \in RecordSizes, NEW s \in Seq(Pieces), NEW v \in Seq(Pieces),
         NEW u \in Seq(Pieces), Ordered(s \o (v \o u)),
         NEW d \in 0 .. Len(s), NEW r \in 1 .. Len(z), Due(z, s \o (v \o u), d, r),
         NEW i \in Nat, WholeAt(z, s \o (v \o u), i, r),
         i + z[r] <= Len(s) \/ Len(s) + Len(v) < i
  PROVE  Due(z, s \o u, d, r)
<1> DEFINE all == s \o (v \o u)
           kept == s \o u
<1>1. /\ Len(s) \in Nat /\ Len(v) \in Nat /\ d \in Nat /\ z[r] \in Nat \ {0}
      /\ \A j \in 1 .. Len(s) : kept[j] = all[j]
  <2>1. z[r] \in Nat \ {0} /\ d \in Nat
    BY RecordSize, LenProperties
  <2>. QED
    BY <2>1, CutFront
<1>2. PICK j \in Nat : /\ WholeAt(z, all, j, r)
                       /\ j = 0 \/ d < j \/ all[j] = Newline
                       /\ d <= j + z[r]
  BY DEF Due
<1>3. all \in Seq(Pieces)
  BY CutAt
<1>4. i = j
  BY <1>2, <1>3, PlaceOnce
<1>5. /\ i + z[r] <= Len(s) => WholeAt(z, kept, i, r)
      /\ Len(s) + Len(v) <= i => WholeAt(z, kept, i - Len(v), r)
  BY CutKeeps
<1> HIDE DEF all, kept
<1>6. CASE i + z[r] <= Len(s)
  <2>1. i = 0 \/ i \in 1 .. Len(s)
    BY <1>1, <1>6
  <2>2. i = 0 \/ d < i \/ kept[i] = Newline
    BY <1>1, <1>2, <1>4, <2>1
  <2>3. Due(z, kept, d, r)
    BY <1>2, <1>4, <1>5, <1>6, <2>2 DEF Due
  <2>. QED
    BY <2>3 DEF kept
<1>7. CASE Len(s) + Len(v) < i
  <2> DEFINE h == i - Len(v)
  <2>1. h \in Nat /\ d < h /\ d <= h + z[r] /\ Len(s) + Len(v) <= i
    BY <1>1, <1>7
  <2>2. WholeAt(z, kept, h, r)
    BY <1>5, <2>1
  <2> HIDE DEF h
  <2>3. Due(z, kept, d, r)
    BY <2>1, <2>2 DEF Due
  <2>. QED
    BY <2>3 DEF kept
<1>. QED
  BY <1>6, <1>7

\* Pieces that are lost on their way cost a run of records.  When the loop is torn down
\* everything behind them goes too, and the records it has not taken.
LEMMA CutLoses ==
  ASSUME NEW z, NEW s \in Seq(Pieces), NEW v \in Seq(Pieces), NEW u \in Seq(Pieces),
         NEW d \in 0 .. Len(s), NEW n, Fits(z, s \o (v \o u), d, n),
         Unbroken(s \o (v \o u)), NEW m \in n .. Len(z), m = n \/ u = <<>>
  PROVE  /\ InFile(z, s \o u, d) = InFile(z, s \o (v \o u), d)
         /\ Loses(Pending(z, s \o (v \o u), d, n), Pending(z, s \o u, d, m))
<1> DEFINE all == s \o (v \o u)
           kept == s \o u
           S == Pending(z, all, d, n)
           K == Pending(z, kept, d, m)
<1>1. /\ z \in RecordSizes /\ all \in Seq(Pieces) /\ Ordered(all) /\ UpTo(all, n)
      /\ n \in Nat /\ d \in Nat /\ Len(z) \in Nat /\ m \in Nat /\ n <= m
  BY FitsFacts
<1>2. /\ Len(s) \in Nat /\ Len(v) \in Nat /\ Len(u) \in Nat
      /\ Len(kept) = Len(s) + Len(u)
      /\ \A j \in 1 .. Len(s) : kept[j] = all[j]
  BY CutFront
<1>3. InFile(z, kept, d) = InFile(z, all, d)
  <2>1. \A j \in 1 .. d : kept[j] = all[j]
    BY <1>1, <1>2
  <2> HIDE DEF all, kept
  <2>2. \A r \in 1 .. Len(z) : ReadableIn(z, kept, d, r) <=> ReadableIn(z, all, d, r)
    BY <1>1, <2>1, ReadableFront
  <2>. QED
    BY <2>2 DEF InFile
<1>4. \A r \in 1 .. Len(z) : Due(z, kept, d, r) => Due(z, all, d, r)
  BY <1>1, CutDue
<1>5. K \subseteq S
  <2>1. \A r \in 1 .. Len(z) : r > m => r > n
    BY <1>1
  <2>. QED
    BY <1>4, <2>1 DEF Pending
<1>6. ASSUME NEW r \in 1 .. Len(z), Due(z, all, d, r),
             NEW i \in Nat, WholeAt(z, all, i, r),
             i + z[r] <= Len(s) \/ Len(s) + Len(v) < i
      PROVE  Due(z, kept, d, r)
  BY <1>1, <1>6, CutDueStays
<1>7. \A r \in 1 .. Len(z), i \in Nat :
        WholeAt(z, kept, i, r) => \/ i <= Len(s) /\ WholeAt(z, all, i, r)
                                  \/ Len(s) <= i /\ WholeAt(z, all, i + Len(v), r)
  BY <1>1, CutPlace
<1>8. u = <<>> => Len(u) = 0
  OBVIOUS
<1> HIDE DEF all, kept
<1>9. ASSUME NEW q \in S \ K, NEW p \in S \ K, NEW r \in K, q < r, r < p PROVE FALSE
  <2>1. q \in 1 .. Len(z) /\ p \in 1 .. Len(z) /\ r \in 1 .. Len(z)
    BY DEF Pending
  <2>2. z[q] \in Nat \ {0} /\ z[p] \in Nat \ {0} /\ z[r] \in Nat \ {0}
    BY <1>1, <2>1, RecordSize
  <2>3. ~(p > m) /\ ~Due(z, kept, d, q) /\ ~Due(z, kept, d, p)
    BY <2>1 DEF Pending
  <2>4. Due(z, kept, d, r)
    <3>1. ~(r > m)
      BY <1>1, <1>9, <2>1, <2>3
    <3>. QED
      BY <3>1 DEF Pending
  <2>5. PICK i \in Nat : WholeAt(z, kept, i, r)
    BY <2>4 DEF Due
  <2>6. CASE i <= Len(s) /\ WholeAt(z, all, i, r)
    <3>1. r <= n
      BY <1>1, <2>1, <2>6, PlaceTaken
    <3>2. ~(q > n)
      BY <1>1, <1>9, <2>1, <3>1
    <3>3. Due(z, all, d, q)
      BY <3>2 DEF Pending
    <3>4. PICK j \in Nat : WholeAt(z, all, j, q)
      BY <3>3 DEF Due
    <3>5. j + z[q] <= i
      BY <1>1, <1>9, <2>1, <2>6, <3>4, PlaceOrder
    <3>6. j + z[q] <= Len(s)
      BY <1>2, <2>2, <2>6, <3>5
    <3>. QED
      BY <1>6, <2>1, <2>3, <3>3, <3>4, <3>6
  <2>7. CASE Len(s) <= i /\ WholeAt(z, all, i + Len(v), r)
    <3>1. m = n
      <4>1. i + z[r] <= Len(kept)
        BY <2>5 DEF WholeAt
      <4>2. Len(u) # 0
        BY SMTT(30), <1>2, <2>2, <2>7, <4>1
      <4>. QED
        BY <1>8, <4>2
    <3>2. Due(z, all, d, p)
      BY <2>3, <3>1 DEF Pending
    <3>3. PICK j \in Nat : WholeAt(z, all, j, p)
      BY <3>2 DEF Due
    <3> DEFINE h == i + Len(v)
    <3>4. h \in Nat /\ Len(s) + Len(v) <= h /\ WholeAt(z, all, h, r)
      BY <1>2, <2>7
    <3> HIDE DEF h
    <3>5. h + z[r] <= j
      BY <1>1, <1>9, <2>1, <3>3, <3>4, PlaceOrder
    <3>6. Len(s) + Len(v) < j
      BY SMTT(30), <1>2, <2>2, <3>4, <3>5
    <3>. QED
      BY <1>6, <2>1, <2>3, <3>2, <3>3, <3>6
  <2>. QED
    BY <1>7, <2>1, <2>5, <2>6, <2>7
<1>10. Loses(S, K)
  BY <1>5, <1>9 DEF Loses
<1>. QED
  BY <1>3, <1>10 DEF all, kept

----------------------------------------------------------------------------
\* A line is added.

\* Every JSON in t is a line, and the last line has ended.
Clean(z, t) ==
  /\ ~Open(t)
  /\ \A r \in 1 .. Len(z), i \in Nat :
       WholeAt(z, t, i, r) => /\ i = 0 \/ t[i] = Newline
                              /\ i + z[r] + 1 <= Len(t)
                              /\ t[i + z[r] + 1] = Newline

LineOf(z, r, l) ==
  /\ l \in Seq(Pieces) /\ Len(l) = z[r] + 1
  /\ \A x \in 1 .. z[r] : l[x] = <<r, x>>
  /\ l[z[r] + 1] = Newline

LEMMA LineAdded ==
  ASSUME NEW z \in RecordSizes, NEW t \in Seq(Pieces), NEW r \in 1 .. Len(z),
         NEW l, LineOf(z, r, l)
  PROVE  /\ Len(t) \in Nat /\ Len(t \o l) = Len(t) + (z[r] + 1) /\ t \o l \in Seq(Pieces)
         /\ \A i \in 1 .. Len(t) : (t \o l)[i] = t[i]
         /\ \A x \in 1 .. z[r] : (t \o l)[Len(t) + x] = <<r, x>>
         /\ (t \o l)[Len(t) + (z[r] + 1)] = Newline
         /\ \A i \in 1 .. Len(t \o l) : \/ i \in 1 .. Len(t)
                                        \/ \E x \in 1 .. z[r] : i = Len(t) + x
                                        \/ i = Len(t) + (z[r] + 1)
<1> DEFINE w == z[r]
           all == t \o l
           a == Len(t)
<1>1. w \in Nat \ {0} /\ a \in Nat
  BY RecordSize, LenProperties
<1>2. /\ l \in Seq(Pieces) /\ Len(l) = w + 1 /\ l[w + 1] = Newline
      /\ \A x \in 1 .. w : l[x] = <<r, x>>
  BY DEF LineOf
<1>3. /\ all \in Seq(Pieces) /\ Len(all) = a + Len(l)
      /\ \A i \in 1 .. a + Len(l) : all[i] = IF i <= a THEN t[i] ELSE l[i - a]
  BY <1>2, ConcatAt
<1> HIDE DEF w, all, a
<1>4. Len(all) = a + (w + 1) /\ \A i \in 1 .. a : all[i] = t[i]
  BY <1>1, <1>2, <1>3
<1>5. ASSUME NEW x \in 1 .. w + 1 PROVE all[a + x] = l[x]
  <2> DEFINE b == a + x
  <2>1. b \in 1 .. a + Len(l) /\ ~(b <= a) /\ b - a = x
    BY <1>1, <1>2
  <2> HIDE DEF b
  <2>2. all[b] = l[b - a]
    BY <1>3, <2>1
  <2>. QED
    BY <2>1, <2>2 DEF b
<1>6. \A x \in 1 .. w : x \in 1 .. w + 1
  BY <1>1
<1>7. \A x \in 1 .. w : all[a + x] = <<r, x>>
  BY <1>2, <1>5, <1>6
<1>8. all[a + (w + 1)] = Newline
  <2>1. w + 1 \in 1 .. w + 1
    BY <1>1
  <2>. QED
    BY <1>2, <1>5, <2>1
<1>9. ASSUME NEW i \in 1 .. Len(all)
      PROVE  i \in 1 .. a \/ (\E x \in 1 .. w : i = a + x) \/ i = a + (w + 1)
  <2> DEFINE x == i - a
  <2>1. i \in 1 .. a \/ i = a + (w + 1) \/ (x \in 1 .. w /\ i = a + x)
    BY <1>1, <1>4
  <2>. QED
    BY <2>1
<1>. QED
  BY <1>1, <1>3, <1>4, <1>7, <1>8, <1>9 DEF w, a, all

\* The line adds one record, and takes none away.
LEMMA LinePlaces ==
  ASSUME NEW z \in RecordSizes, NEW t \in Seq(Pieces), NEW m \in 1 .. Len(z),
         NEW l, LineOf(z, m, l), Ordered(t \o l)
  PROVE  /\ WholeAt(z, t \o l, Len(t), m)
         /\ \A r \in 1 .. Len(z), i \in Nat :
              /\ WholeAt(z, t, i, r) => WholeAt(z, t \o l, i, r)
              /\ WholeAt(z, t \o l, i, r) =>
                   WholeAt(z, t, i, r) \/ (r = m /\ i = Len(t))
<1> DEFINE all == t \o l
           a == Len(t)
<1>1. /\ a \in Nat /\ Len(all) = a + (z[m] + 1) /\ all \in Seq(Pieces)
      /\ \A i \in 1 .. a : all[i] = t[i]
      /\ \A x \in 1 .. z[m] : all[a + x] = <<m, x>>
      /\ all[a + (z[m] + 1)] = Newline
      /\ \A i \in 1 .. Len(all) : \/ i \in 1 .. a
                                  \/ \E x \in 1 .. z[m] : i = a + x
                                  \/ i = a + (z[m] + 1)
  BY LineAdded
<1>2. \A r \in 1 .. Len(z) : z[r] \in Nat \ {0} /\ r \in Nat \ {0}
  BY RecordSize
<1>3. Ordered(all)
  OBVIOUS
<1> HIDE DEF all, a
<1>4. WholeAt(z, all, a, m)
  <2>1. a + z[m] <= Len(all)
    BY <1>1, <1>2
  <2>. QED
    BY <1>1, <2>1 DEF WholeAt, Holds
<1>5. ASSUME NEW r \in 1 .. Len(z), NEW i \in Nat, i + z[r] <= a
      PROVE  \A x \in 1 .. z[r] : i + x \in 1 .. a /\ all[i + x] = t[i + x]
  <2>1. \A x \in 1 .. z[r] : i + x \in 1 .. a
    BY <1>1, <1>2, <1>5
  <2>. QED
    BY <1>1, <2>1
<1>6. ASSUME NEW r \in 1 .. Len(z), NEW i \in Nat, WholeAt(z, t, i, r)
      PROVE  WholeAt(z, all, i, r)
  <2>1. i + z[r] <= a /\ Holds(z, t, i, r)
    BY <1>6 DEF WholeAt, a
  <2>2. i + z[r] <= Len(all)
    BY <1>1, <1>2, <2>1
  <2>. QED
    BY <1>5, <2>1, <2>2 DEF WholeAt, Holds
<1>7. ASSUME NEW r \in 1 .. Len(z), NEW i \in Nat, WholeAt(z, all, i, r), r # m
      PROVE  WholeAt(z, t, i, r)
  <2> DEFINE b == i + z[r]
  <2>1. all[b] = <<r, z[r]>> /\ b \in 1 .. Len(all)
    <3>1. z[r] \in 1 .. z[r] /\ b \in Nat \ {0}
      BY <1>2
    <3>2. b <= Len(all) /\ \A x \in 1 .. z[r] : all[i + x] = <<r, x>>
      BY <1>7 DEF WholeAt, Holds
    <3>3. Len(all) \in Nat
      BY <1>1, <1>2
    <3>. QED
      BY <3>1, <3>2, <3>3
  <2> HIDE DEF b
  <2>2. b \in 1 .. a
    <3>1. ~\E x \in 1 .. z[m] : b = a + x
      BY <1>1, <1>7, <2>1
    <3>2. b # a + (z[m] + 1)
      BY <1>1, <1>2, <2>1 DEF Newline
    <3>. QED
      BY <1>1, <2>1, <3>1, <3>2
  <2>3. i + z[r] <= a
    BY <1>1, <2>2 DEF b
  <2>4. Holds(z, t, i, r)
    BY <1>5, <1>7, <2>3 DEF WholeAt, Holds
  <2>. QED
    BY <2>3, <2>4 DEF WholeAt, a
<1>8. ASSUME NEW r \in 1 .. Len(z), NEW i \in Nat, WholeAt(z, all, i, r), r = m
      PROVE  i = a
  BY <1>1, <1>3, <1>4, <1>8, PlaceOnce
<1>. QED
  BY <1>4, <1>6, <1>7, <1>8 DEF all, a

\* A record that is taken when the last line is open shares that line, and is lost.
LEMMA LineLoses ==
  ASSUME NEW z, NEW t, NEW d, NEW n, Fits(z, t, d, n), n + 1 \in 1 .. Len(z),
         NEW l, LineOf(z, n + 1, l), Ordered(t \o l)
  PROVE  /\ InFile(z, t \o l, d) = InFile(z, t, d)
         /\ Loses(Pending(z, t, d, n), Pending(z, t \o l, d, n + 1))
         /\ ~Open(t) => Pending(z, t \o l, d, n + 1) = Pending(z, t, d, n)
<1> DEFINE all == t \o l
           m == n + 1
           a == Len(t)
           S == Pending(z, t, d, n)
           K == Pending(z, all, d, m)
<1>1. /\ z \in RecordSizes /\ t \in Seq(Pieces) /\ UpTo(t, n)
      /\ d \in 0 .. a /\ n \in Nat /\ Len(z) \in Nat /\ a \in Nat /\ d \in Nat
  BY FitsFacts
<1>2. m \in 1 .. Len(z) /\ LineOf(z, m, l) /\ Ordered(all) /\ m \in Nat
  BY <1>1
<1>3. \A i \in 1 .. a : all[i] = t[i]
  <2> HIDE DEF m
  <2>. QED
    BY <1>1, <1>2, LineAdded
<1>4. /\ WholeAt(z, all, a, m)
      /\ \A r \in 1 .. Len(z), i \in Nat :
           /\ WholeAt(z, t, i, r) => WholeAt(z, all, i, r)
           /\ WholeAt(z, all, i, r) => WholeAt(z, t, i, r) \/ (r = m /\ i = a)
  <2> HIDE DEF m
  <2>. QED
    BY <1>1, <1>2, LinePlaces
<1> HIDE DEF all, a
<1>5. InFile(z, all, d) = InFile(z, t, d)
  <2>1. \A i \in 1 .. d : all[i] = t[i]
    BY <1>1, <1>3
  <2>2. \A r \in 1 .. Len(z) : ReadableIn(z, all, d, r) <=> ReadableIn(z, t, d, r)
    BY <1>1, <2>1, ReadableFront
  <2>. QED
    BY <2>2 DEF InFile
<1>6. ASSUME NEW r \in 1 .. Len(z), NEW i \in Nat, WholeAt(z, t, i, r)
      PROVE  i = 0 \/ all[i] = t[i]
  <2>1. i + z[r] <= a /\ z[r] \in Nat
    BY <1>1, <1>6, RecordSize DEF WholeAt, a
  <2>2. i = 0 \/ i \in 1 .. a
    BY <1>1, <2>1
  <2>. QED
    BY <1>3, <2>2
<1>7. ASSUME NEW r \in 1 .. Len(z), r # m PROVE Due(z, all, d, r) <=> Due(z, t, d, r)
  <2>1. ASSUME NEW i \in Nat
        PROVE  WholeAt(z, all, i, r) /\ (i = 0 \/ d < i \/ all[i] = Newline) <=>
               WholeAt(z, t, i, r) /\ (i = 0 \/ d < i \/ t[i] = Newline)
    BY <1>4, <1>6, <1>7
  <2>. QED
    BY <2>1 DEF Due
<1>8. \A r \in 1 .. Len(z) : r # m => (r \in K <=> r \in S)
  <2>1. \A r \in 1 .. Len(z) : r # m => (r > m <=> r > n)
    BY <1>1
  <2>. QED
    BY <1>7, <2>1 DEF Pending
<1>9. m \in S
  <2>1. m > n
    BY <1>1
  <2>. QED
    BY <1>2, <2>1 DEF Pending
<1>10. \A r : (r \in S => r \in 1 .. Len(z)) /\ (r \in K => r \in 1 .. Len(z))
  BY DEF Pending
<1>11. ASSUME ~Open(t) PROVE m \in K
  <2>1. a = 0 \/ all[a] = Newline
    <3>1. t = <<>> \/ t[a] = Newline
      BY <1>11 DEF Open, a
    <3>2. a = 0 \/ a \in 1 .. a
      BY <1>1
    <3>. QED
      BY <1>3, <3>1, <3>2, EmptySeq DEF a
  <2>2. z[m] \in Nat
    BY <1>1, <1>2, RecordSize
  <2>3. d <= a + z[m]
    BY <1>1, <2>2
  <2>4. Due(z, all, d, m)
    BY <1>1, <1>4, <2>1, <2>3 DEF Due
  <2>. QED
    BY <1>2, <2>4 DEF Pending
<1>12. \A r \in 1 .. Len(z) : r \in Nat
  BY <1>1
<1> HIDE DEF S, K, m
<1>13. Loses(S, K)
  <2>1. K \subseteq S
    BY <1>8, <1>9, <1>10
  <2>2. \A q \in S \ K : q = m
    BY <1>8, <1>10
  <2>3. \A r \in S : r \in Nat
    BY <1>10, <1>12
  <2>4. \A q, p \in S \ K, r \in S : ~(q < r /\ r < p)
    BY <2>2, <2>3
  <2>. QED
    BY <2>1, <2>4 DEF Loses
<1>14. ~Open(t) => K = S
  BY <1>8, <1>9, <1>10, <1>11
<1>. QED
  BY <1>5, <1>13, <1>14 DEF S, K, m, all

LEMMA LineUnbroken ==
  ASSUME NEW z \in RecordSizes, NEW t \in Seq(Pieces), NEW n \in Nat, UpTo(t, n),
         Unbroken(t), NEW m \in 1 .. Len(z), n < m, NEW l, LineOf(z, m, l)
  PROVE  Unbroken(t \o l)
<1> DEFINE all == t \o l
           k == Len(t)
           w == z[m]
           e == k + (w + 1)
<1>1. /\ k \in Nat /\ Len(all) = k + (w + 1) /\ all \in Seq(Pieces)
      /\ \A i \in 1 .. k : all[i] = t[i]
      /\ \A x \in 1 .. w : all[k + x] = <<m, x>>
      /\ all[k + (w + 1)] = Newline
      /\ \A i \in 1 .. Len(all) : \/ i \in 1 .. k
                                  \/ \E x \in 1 .. w : i = k + x
                                  \/ i = k + (w + 1)
  BY LineAdded
<1>2. w \in Nat \ {0} /\ m \in Nat \ {0} /\ e \in Nat
  BY <1>1, RecordSize
<1>3. \A i \in 1 .. k : t[i] \in Pieces /\ t[i][1] <= n
  BY ElementOfSeq DEF UpTo
<1>4. \A p \in Pieces : p[1] = 0 => p = Newline
  BY DEF Pieces, Newline
<1> HIDE DEF all, k, w
<1>5. Unbroken(all)
  <2> SUFFICES ASSUME NEW a \in 1 .. Len(all), NEW c \in 1 .. Len(all),
                      NEW b \in 1 .. Len(all), a < c, c < b,
                      all[a][1] = all[b][1], all[c] = Newline
               PROVE  all[a] = Newline
    BY DEF Unbroken
  <2>1. a \in Nat /\ b \in Nat /\ c \in Nat /\ 1 <= a /\ 1 <= c
    OBVIOUS
  <2>2. CASE b \in 1 .. k
    <3>1. a \in 1 .. k /\ c \in 1 .. k
      BY <1>1, <2>1, <2>2
    <3>2. a \in 1 .. Len(t) /\ b \in 1 .. Len(t) /\ c \in 1 .. Len(t)
      BY <2>2, <3>1 DEF k
    <3>3. t[a][1] = t[b][1] /\ t[c] = Newline
      BY <1>1, <2>2, <3>1
    <3>4. t[a] = Newline
      BY <3>2, <3>3 DEF Unbroken
    <3>. QED
      BY <1>1, <3>1, <3>4
  <2>3. CASE \E x \in 1 .. w : b = k + x
    <3>1. PICK x \in 1 .. w : b = k + x
      BY <2>3
    <3>2. all[a][1] = m
      BY <1>1, <3>1
    <3>3. a \notin 1 .. k
      <4>1. SUFFICES ASSUME a \in 1 .. k PROVE FALSE
        OBVIOUS
      <4>2. m <= n
        BY <1>1, <1>3, <3>2, <4>1
      <4>. QED
        BY <1>2, <4>2
    <3> DEFINE y == c - k
    <3>4. y \in 1 .. w /\ c = k + y
      BY <1>1, <1>2, <2>1, <3>1, <3>3
    <3>5. all[c] = <<m, y>>
      BY <1>1, <3>4
    <3>. QED
      BY <1>2, <3>5 DEF Newline
  <2>4. CASE b = e
    <3>1. all[a][1] = 0
      BY <1>1, <2>4 DEF Newline
    <3>2. CASE a \in 1 .. k
      BY <1>1, <1>3, <1>4, <3>1, <3>2
    <3>3. ~\E x \in 1 .. w : a = k + x
      BY <1>1, <1>2, <3>1
    <3>4. a # e
      BY <2>1, <2>4
    <3>. QED
      BY <1>1, <3>2, <3>3, <3>4
  <2>. QED
    BY <1>1, <2>2, <2>3, <2>4
<1>. QED
  BY <1>5 DEF all

LEMMA LineClean ==
  ASSUME NEW z \in RecordSizes, NEW t \in Seq(Pieces), Clean(z, t),
         NEW m \in 1 .. Len(z), NEW l, LineOf(z, m, l), Ordered(t \o l)
  PROVE  Clean(z, t \o l)
<1> DEFINE all == t \o l
           k == Len(t)
<1>1. /\ k \in Nat /\ Len(all) = k + (z[m] + 1) /\ all \in Seq(Pieces)
      /\ \A i \in 1 .. k : all[i] = t[i]
      /\ \A x \in 1 .. z[m] : all[k + x] = <<m, x>>
      /\ all[k + (z[m] + 1)] = Newline
      /\ \A i \in 1 .. Len(all) : \/ i \in 1 .. k
                                  \/ \E x \in 1 .. z[m] : i = k + x
                                  \/ i = k + (z[m] + 1)
  BY LineAdded
<1>2. \A r \in 1 .. Len(z), i \in Nat :
        WholeAt(z, all, i, r) => WholeAt(z, t, i, r) \/ (r = m /\ i = k)
  BY LinePlaces
<1>3. \A r \in 1 .. Len(z) : z[r] \in Nat \ {0}
  BY RecordSize
<1> HIDE DEF all, k
<1>4. ~Open(all)
  BY <1>1 DEF Open
<1>5. ASSUME NEW r \in 1 .. Len(z), NEW i \in Nat, WholeAt(z, all, i, r)
      PROVE  /\ i = 0 \/ all[i] = Newline
             /\ i + z[r] + 1 <= Len(all)
             /\ all[i + z[r] + 1] = Newline
  <2>1. CASE WholeAt(z, t, i, r)
    <3>1. /\ i = 0 \/ t[i] = Newline
          /\ i + z[r] + 1 <= k /\ t[i + z[r] + 1] = Newline
      BY <2>1 DEF Clean, k
    <3> DEFINE b == i + z[r] + 1
    <3>2. z[r] \in Nat
      BY <1>3
    <3>3. k \in Nat
      BY <1>1
    <3>4. b \in Nat /\ i < b /\ 1 <= b /\ b <= k
      BY <3>1, <3>2, <3>3
    <3> HIDE DEF b
    <3>5. (i = 0 \/ i \in 1 .. k) /\ b \in 1 .. k
      BY <3>3, <3>4
    <3>6. b <= Len(all)
      <4>1. z[m] \in Nat /\ Len(all) = k + (z[m] + 1)
        BY <1>1, <1>3
      <4>. QED
        BY <3>3, <3>4, <4>1
    <3>7. i = 0 \/ all[i] = Newline
      BY <1>1, <3>1, <3>5
    <3>8. all[b] = Newline
      BY <1>1, <3>1, <3>5 DEF b
    <3>. QED
      BY <3>6, <3>7, <3>8 DEF b
  <2>2. CASE r = m /\ i = k
    <3>1. k = 0 \/ t[k] = Newline
      BY EmptySeq DEF Clean, Open, k
    <3>2. k = 0 \/ k \in 1 .. k
      BY <1>1
    <3>3. k + (z[m] + 1) = i + z[r] + 1
      BY <1>1, <1>3, <2>2
    <3>4. i = 0 \/ all[i] = Newline
      BY <1>1, <2>2, <3>1, <3>2
    <3>5. i + z[r] + 1 <= Len(all)
      BY <1>1, <1>3, <3>3
    <3>. QED
      BY <1>1, <3>3, <3>4, <3>5
  <2>. QED
    BY <1>2, <1>5, <2>1, <2>2
<1>6. Clean(z, all)
  BY <1>4, <1>5 DEF Clean
<1>. QED
  BY <1>6 DEF all

LEMMA CleanWritten ==
  ASSUME NEW z, NEW t, NEW d, NEW n, Fits(z, t, d, n), d < Len(t), t[d + 1] # Newline,
         Clean(z, t)
  PROVE  Pending(z, t, d + 1, n) = Pending(z, t, d, n)
<1>1. d \in Nat /\ z \in RecordSizes
  BY FitsFacts
<1>2. ASSUME NEW r \in 1 .. Len(z) PROVE ~EndsAt(z, t, d, r) /\ ~WholeAt(z, t, d + 1, r)
  <2>0. z[r] \in Nat
    BY <1>1, RecordSize
  <2>1. ~EndsAt(z, t, d, r)
    <3> SUFFICES ASSUME NEW i \in Nat, WholeAt(z, t, i, r), i + z[r] = d PROVE FALSE
      BY DEF EndsAt
    <3>1. t[i + z[r] + 1] = Newline
      BY DEF Clean
    <3>. QED
      BY <3>1
  <2>2. ~WholeAt(z, t, d + 1, r)
    <3> DEFINE i == d + 1
    <3>1. i \in Nat /\ i # 0 /\ t[i] # Newline
      BY <1>1
    <3> HIDE DEF i
    <3>2. ~WholeAt(z, t, i, r)
      BY <3>1 DEF Clean
    <3>. QED
      BY <3>2 DEF i
  <2>. QED
    BY <2>1, <2>2
<1>3. \A r \in 1 .. Len(z) : Due(z, t, d + 1, r) <=> Due(z, t, d, r)
  BY <1>2, DueNext
<1>. QED
  BY <1>3 DEF Pending

----------------------------------------------------------------------------
\* A record is accepted.

LEMMA Accepted ==
  ASSUME NEW z, NEW t, NEW d, NEW n, Fits(z, t, d, n), NEW y \in RecordSizes,
         Len(y) = Len(z) + 1, \A r \in 1 .. Len(z) : y[r] = z[r]
  PROVE  /\ InFile(y, t, d) = InFile(z, t, d)
         /\ Pending(y, t, d, n) = Pending(z, t, d, n) \cup {Len(z) + 1}
         /\ Clean(z, t) => Clean(y, t)
<1> DEFINE m == Len(z) + 1
<1>1. /\ z \in RecordSizes /\ UpTo(t, n) /\ t \in Seq(Pieces) /\ d \in 0 .. Len(t)
      /\ n \in 0 .. Len(z) /\ Len(z) \in Nat /\ n \in Nat
  BY FitsFacts
<1>2. m \in 1 .. Len(y) /\ m > n
  BY <1>1
<1>3. \A r : r \in 1 .. Len(y) <=> r \in 1 .. Len(z) \/ r = m
  BY <1>1
<1> HIDE DEF m
<1>4. \A i \in Nat : ~WholeAt(y, t, i, m)
  <2> SUFFICES ASSUME NEW i \in Nat, WholeAt(y, t, i, m) PROVE FALSE
    OBVIOUS
  <2>1. m <= n
    BY <1>1, <1>2, PlaceTaken
  <2>2. m \in Nat
    BY <1>1 DEF m
  <2>. QED
    BY <1>1, <1>2, <2>1, <2>2
<1>5. \A r \in 1 .. Len(z), i \in Nat : WholeAt(y, t, i, r) <=> WholeAt(z, t, i, r)
  BY DEF WholeAt, Holds
<1>6. ~ReadableIn(y, t, d, m) /\ ~Due(y, t, d, m)
  <2>1. ~Due(y, t, d, m)
    BY <1>4 DEF Due
  <2>2. ~ReadableIn(y, t, d, m)
    BY <1>1, <1>2, <1>4, ReadableTaken
  <2>. QED
    BY <2>1, <2>2
<1>7. ASSUME NEW r \in 1 .. Len(z)
      PROVE  /\ ReadableIn(y, t, d, r) <=> ReadableIn(z, t, d, r)
             /\ Due(y, t, d, r) <=> Due(z, t, d, r)
  <2>1. y[r] = z[r]
    OBVIOUS
  <2>. QED
    BY <1>5, <2>1 DEF ReadableIn, Due, Holds
<1>8. InFile(y, t, d) = InFile(z, t, d)
  BY <1>3, <1>6, <1>7 DEF InFile
<1>9. Pending(y, t, d, n) = Pending(z, t, d, n) \cup {m}
  BY <1>2, <1>3, <1>7 DEF Pending
<1>10. Clean(z, t) => Clean(y, t)
  BY <1>3, <1>4, <1>5 DEF Clean
<1>. QED
  BY <1>8, <1>9, <1>10 DEF m

----------------------------------------------------------------------------
\* The log and the pending records of TraceLog.

LEMMA MayBecomeReadableInText ==
  ASSUME BytesInv, NEW r \in 1 .. Len(size)
  PROVE  MayBecomeReadable(r) <=> r > taken \/ Due(size, Text, Len(disk), r)
<1> DEFINE d == Len(disk)
           w == size[r]
           e == Len(Text)
           Beside(i) ==
             \A j \in {i, i + w + 1} \cap DOMAIN disk : disk[j] = Newline
<1>1. TypeOK /\ Text \in Seq(Pieces) /\ disk \in Seq(Pieces) /\ size \in RecordSizes
  BY TextPieces, SizesAreRecordSizes DEF BytesInv
<1>2. Ordered(Text) /\ UpTo(Text, taken)
  BY AheadSound DEF Sound, Text
<1>3. /\ d \in Nat /\ e \in Nat /\ d <= e /\ d \in 0 .. e /\ DOMAIN disk = 1 .. d
      /\ \A i \in 1 .. d : Text[i] = disk[i]
      /\ w \in Nat \ {0} /\ taken \in Nat /\ r \in Nat
  <2>1. w \in Nat \ {0} /\ r \in Nat
    BY <1>1, RecordSize
  <2>2. taken \in Nat
    BY <1>1, Typed
  <2>3. DOMAIN disk = 1 .. d
    BY <1>1, LenProperties
  <2>. QED
    BY <1>1, <2>1, <2>2, <2>3, TextFront
<1>4. \A i \in Nat : i + w <= e => (Follows(Text, i, r) <=> Holds(size, Text, i, r))
  BY <1>1, FollowsHolds
<1>5. Readable(r) <=> ReadableIn(size, Text, d, r)
  BY <1>1, ReadableInText
<1>6. MayBecomeReadable(r) <=>
        /\ ~Readable(r)
        /\ r <= taken => \E i \in 0 .. e - w : Follows(Text, i, r) /\ Beside(i)
  BY DEF MayBecomeReadable, Text
<1>7. ASSUME NEW i \in Nat
      PROVE  Beside(i) <=> /\ i = 0 \/ d < i \/ Text[i] = Newline
                           /\ d <= i + w \/ Text[i + w + 1] = Newline
  <2>1. i \in 1 .. d <=> ~(i = 0 \/ d < i)
    BY <1>3
  <2>2. i + w + 1 \in 1 .. d <=> ~(d <= i + w)
    BY <1>3
  <2>. QED
    BY <1>3, <2>1, <2>2
<1>8. ReadableIn(size, Text, d, r) => r <= taken
  BY <1>1, <1>2, <1>3, ReadableTaken
<1>9. Due(size, Text, d, r) => ~ReadableIn(size, Text, d, r)
  BY <1>1, <1>2, <1>3, DueNotReadable
<1>10. \A i : i \in 0 .. e - w <=> i \in Nat /\ i + w <= e
  BY <1>3
<1> HIDE DEF d, w, e, Beside
<1>11. CASE r > taken
  BY <1>3, <1>5, <1>6, <1>8, <1>11
<1>12. CASE ~(r > taken) /\ Due(size, Text, d, r)
  <2>1. PICK i \in Nat : /\ WholeAt(size, Text, i, r)
                         /\ i = 0 \/ d < i \/ Text[i] = Newline
                         /\ d <= i + w
    BY <1>12 DEF Due, w
  <2>2. i + w <= e /\ Holds(size, Text, i, r)
    BY <2>1 DEF WholeAt, w, e
  <2>3. i \in 0 .. e - w /\ Follows(Text, i, r) /\ Beside(i)
    BY <1>4, <1>7, <1>10, <2>1, <2>2
  <2>. QED
    BY <1>5, <1>6, <1>9, <1>12, <2>3 DEF d
<1>13. ASSUME ~(r > taken), MayBecomeReadable(r) PROVE Due(size, Text, d, r)
  <2>1. r <= taken /\ ~ReadableIn(size, Text, d, r)
    BY <1>3, <1>5, <1>6, <1>13
  <2>2. PICK i \in 0 .. e - w : Follows(Text, i, r) /\ Beside(i)
    BY <1>6, <1>13, <2>1
  <2>3. i \in Nat /\ i + w <= e /\ Holds(size, Text, i, r)
    BY <1>4, <1>10, <2>2
  <2>4. WholeAt(size, Text, i, r)
    BY <2>3 DEF WholeAt, w, e
  <2>5. /\ i = 0 \/ d < i \/ Text[i] = Newline
        /\ d <= i + w \/ Text[i + w + 1] = Newline
    BY <1>7, <2>2, <2>3
  <2>6. d <= i + w
    <3>1. SUFFICES ASSUME ~(d <= i + w) PROVE FALSE
      OBVIOUS
    <3>2. i + w + 1 <= d /\ (i = 0 \/ Text[i] = Newline) /\ Text[i + w + 1] = Newline
      BY <1>3, <2>3, <2>5, <3>1
    <3>. QED
      BY <2>1, <2>3, <3>2 DEF ReadableIn, w
  <2>. QED
    BY <2>3, <2>4, <2>5, <2>6 DEF Due, w
<1>. QED
  BY <1>11, <1>12, <1>13 DEF d

TheLog == AcceptedWith(Readable)
TheRest == AcceptedWith(MayBecomeReadable)
Kept == InFile(size, Text, Len(disk))
Left == Pending(size, Text, Len(disk), taken)

LEMMA LogLists ==
  BytesInv => /\ Lists(TheLog, Kept) /\ Kept \subseteq 1 .. Len(size)
              /\ Lists(TheRest, Left) /\ Left \subseteq 1 .. Len(size)
<1> SUFFICES ASSUME BytesInv
             PROVE  /\ Lists(TheLog, Kept) /\ Kept \subseteq 1 .. Len(size)
                    /\ Lists(TheRest, Left) /\ Left \subseteq 1 .. Len(size)
  OBVIOUS
<1>1. Kept \subseteq 1 .. Len(size) /\ Left \subseteq 1 .. Len(size)
  BY DEF Kept, Left, InFile, Pending
<1>2. TypeOK /\ Len(size) \in Nat
  BY Typed DEF BytesInv
<1>3. TheLog = Listed(Len(size), Kept)
  <2>1. \A r \in 1 .. Len(size) : Readable(r) <=> r \in Kept
    BY <1>2, ReadableInText DEF Kept, InFile
  <2>2. [r \in 1 .. Len(size) |-> IF Readable(r) THEN <<r>> ELSE <<>>] =
        [r \in 1 .. Len(size) |-> IF r \in Kept THEN <<r>> ELSE <<>>]
    BY <2>1
  <2>. QED
    BY <2>2 DEF TheLog, AcceptedWith, Listed, accepted
<1>4. TheRest = Listed(Len(size), Left)
  <2>1. \A r \in 1 .. Len(size) : MayBecomeReadable(r) <=> r \in Left
    BY MayBecomeReadableInText DEF Left, Pending
  <2>2. [r \in 1 .. Len(size) |-> IF MayBecomeReadable(r) THEN <<r>> ELSE <<>>] =
        [r \in 1 .. Len(size) |-> IF r \in Left THEN <<r>> ELSE <<>>]
    BY <2>1
  <2>. QED
    BY <2>2 DEF TheRest, AcceptedWith, Listed, accepted
<1>5. Kept \cap 1 .. Len(size) = Kept /\ Left \cap 1 .. Len(size) = Left
  BY <1>1
<1>. QED
  BY <1>1, <1>2, <1>3, <1>4, <1>5, ListedLists

----------------------------------------------------------------------------
\* The inductive invariant.

\* Beside what BytesInv says: no newline breaks a record, and as long as nothing has
\* failed, which is always so when nothing can fail, the text holds whole lines.
LogInv ==
  /\ BytesInv
  /\ Unbroken(Text)
  /\ faults = 0 => ~failed /\ Clean(size, Text)
  /\ faults # 0 => Faults # {}

LEMMA TextFits == BytesInv => Fits(size, Text, Len(disk), taken)
<1> SUFFICES ASSUME BytesInv PROVE Fits(size, Text, Len(disk), taken)
  OBVIOUS
<1>1. TypeOK
  BY DEF BytesInv
<1>2. Sound(Text, taken)
  BY AheadSound DEF Text
<1>3. size \in RecordSizes /\ taken \in 0 .. Len(size)
  BY <1>1, SizesAreRecordSizes DEF TypeOK, accepted
<1>4. Len(disk) \in 0 .. Len(Text)
  BY <1>1, TextFront
<1>. QED
  BY <1>2, <1>3, <1>4 DEF Fits

\* What a step does to the text, the file and the numbers: nothing,
Stays == UNCHANGED <<size, taken, disk, Text, faults, failed>>

\* a record more,
Grows ==
  /\ UNCHANGED <<taken, disk, Text, faults, failed>>
  /\ Len(size') = Len(size) + 1 /\ \A r \in 1 .. Len(size) : size'[r] = size[r]

\* a line more on its way,
Adds ==
  /\ UNCHANGED <<size, disk, faults, failed>>
  /\ taken' = taken + 1 /\ taken' \in 1 .. Len(size)
  /\ \E l : LineOf(size, taken', l) /\ Text' = Text \o l

\* a piece more in the file,
Moves ==
  /\ UNCHANGED <<size, taken, Text, faults, failed>>
  /\ Len(disk) < Len(Text) /\ Len(disk') = Len(disk) + 1

\* or pieces that are lost on their way.
Cut(s, v, u) ==
  /\ UNCHANGED <<size, disk>>
  /\ Text = s \o (v \o u) /\ Text' = s \o u /\ Len(disk) <= Len(s)
  /\ taken' \in taken .. Len(size) /\ (taken' = taken \/ u = <<>>)
  /\ faults' # 0 /\ Faults # {}

LEMMA DiskFailsCuts ==
  ASSUME LogInv, DiskFails
  PROVE  \E s, v, u \in Seq(Pieces) : Cut(s, v, u)
<1>1. TypeOK
  BY DEF LogInv, BytesInv
<1>2. /\ disk \in Seq(Pieces) /\ op \in Seq(Pieces) /\ Ahead' \in Seq(Pieces)
      /\ disk' = disk /\ Ahead = op \o Ahead'
  BY <1>1, AheadFails, Typed
<1>3. Text = disk \o (op \o Ahead') /\ Text' = disk \o Ahead'
  BY <1>2 DEF Text
<1>4. size' = size /\ taken' = taken /\ taken' \in taken .. Len(size)
  BY <1>1 DEF DiskFails, channel, TypeOK, accepted
<1>5. faults' # 0 /\ Faults # {}
  BY <1>1 DEF DiskFails, Fault, TypeOK
<1>6. Len(disk) <= Len(disk)
  BY <1>1, TextFront
<1>7. Cut(disk, op, Ahead')
  BY <1>2, <1>3, <1>4, <1>5, <1>6 DEF Cut
<1>. QED
  BY <1>2, <1>7

LEMMA DropCuts ==
  ASSUME LogInv, Fails \/ DrainTimesOut \/ Crash
  PROVE  \E s, v, u \in Seq(Pieces) : Cut(s, v, u)
<1>1. TypeOK
  BY DEF LogInv, BytesInv
<1>2. Fails \/ \E f : Down(f) /\ op' \in {op, <<>>}
  BY DEF DrainTimesOut, Crash
<1>3. PICK s, v \in Seq(Pieces) : disk' = disk /\ Ahead' = s /\ Ahead = s \o v
  BY <1>1, <1>2, AheadDropped
<1>4. disk \in Seq(Pieces) /\ <<>> \in Seq(Pieces) /\ v \o <<>> = v
  BY <1>1, Typed, NoPieces
<1>5. disk \o s \in Seq(Pieces) /\ (disk \o s) \o <<>> = disk \o s
  BY <1>4, ConcatAt, NoPieces
<1>6. Text = (disk \o s) \o (v \o <<>>)
  <2>1. (disk \o s) \o v = disk \o (s \o v)
    BY <1>4, Associative
  <2>. QED
    BY <1>3, <1>4, <2>1 DEF Text
<1>7. Text' = (disk \o s) \o <<>>
  BY <1>3, <1>5 DEF Text
<1>8. Len(disk) <= Len(disk \o s)
  BY <1>4, ConcatAt
<1>9. size' = size /\ taken' \in taken .. Len(size)
  BY <1>1, <1>2 DEF Fails, Down, channel, TypeOK, accepted
<1>10. faults' # 0 /\ Faults # {}
  <2>1. CASE Fails
    BY <2>1 DEF Fails, LogInv
  <2>2. CASE \E f : Down(f)
    BY <1>1, <2>2 DEF Down, Fault, TypeOK
  <2>. QED
    BY <1>2, <2>1, <2>2
<1>11. Cut(disk \o s, v, <<>>)
  BY <1>3, <1>6, <1>7, <1>8, <1>9, <1>10 DEF Cut
<1>. QED
  BY <1>4, <1>5, <1>11

LEMMA StepIs ==
  ASSUME LogInv, [Next]_vars
  PROVE  Stays \/ Grows \/ Adds \/ Moves \/ \E s, v, u \in Seq(Pieces) : Cut(s, v, u)
<1>1. TypeOK
  BY DEF LogInv, BytesInv
<1>2. CASE StartFlush \/ AppendToBuffer \/ PushBuffer \/ WritePastBuffer
           \/ FlushEnds \/ Restart \/ UNCHANGED vars
  <2>1. UNCHANGED <<size, taken, faults, failed>>
    BY <1>2 DEF StartFlush, AppendToBuffer, PushBuffer, WritePastBuffer,
       FlushEnds, Restart, vars, channel, bytes
  <2>2. Ahead' = Ahead /\ disk' = disk
    BY <1>1, <1>2, AheadKept
  <2>. QED
    BY <2>1, <2>2 DEF Stays, Text
<1>3. CASE Accept
  <2>1. Ahead' = Ahead /\ disk' = disk
    BY <1>1, <1>3, AheadKept
  <2>2. PICK n \in Sizes : size' = Append(size, n)
    BY <1>3 DEF Accept
  <2>3. size \in Seq(Sizes)
    BY <1>1 DEF TypeOK
  <2>4. Len(size') = Len(size) + 1 /\ \A r \in 1 .. Len(size) : size'[r] = size[r]
    BY <2>2, <2>3, AppendProperties
  <2>. QED
    BY <1>3, <2>1, <2>4 DEF Grows, Accept, Text, bytes
<1>4. CASE Take
  <2>1. taken' = taken + 1 /\ taken' \in 1 .. Len(size) /\ disk' = disk
    BY <1>1, <1>4, AheadTaken
  <2>2. Text' = Text \o Line(taken')
    BY <1>1, <1>4, TextTaken
  <2>3. LineOf(size, taken', Line(taken'))
    BY <1>1, <2>1, LineAt DEF LineOf
  <2>4. UNCHANGED <<size, faults, failed>>
    BY <1>4 DEF Take
  <2>. QED
    BY <2>1, <2>2, <2>3, <2>4 DEF Adds
<1>5. CASE DiskWrites
  <2>1. Text' = Text /\ UNCHANGED <<size, taken, faults, failed>>
    BY <1>1, <1>5, TextWritten DEF DiskWrites, channel
  <2>2. /\ disk' = disk \o <<Head(op)>> /\ <<Head(op)>> \in Seq(Pieces)
        /\ Ahead = <<Head(op)>> \o Ahead' /\ Ahead' \in Seq(Pieces)
        /\ disk \in Seq(Pieces)
    BY <1>1, <1>5, AheadWritten, Typed
  <2>3. Len(<<Head(op)>>) = 1
    OBVIOUS
  <2>4. Len(disk') = Len(disk) + 1
    BY <2>2, <2>3, ConcatProperties
  <2>5. Len(Ahead) = 1 + Len(Ahead') /\ Len(Ahead') \in Nat
    BY <2>2, <2>3, ConcatAt
  <2>6. Len(disk) < Len(Text)
    BY <1>1, <2>5, TextFront
  <2>. QED
    BY <2>1, <2>4, <2>6 DEF Moves
<1>6. CASE DiskFails
  BY <1>6, DiskFailsCuts
<1>7. CASE Fails \/ DrainTimesOut \/ Crash
  BY <1>7, DropCuts
<1>. QED
  BY <1>2, <1>3, <1>4, <1>5, <1>6, <1>7 DEF Next, Ended

LEMMA LogInit == Init => LogInv
<1> SUFFICES ASSUME Init PROVE LogInv
  OBVIOUS
<1>1. BytesInv
  BY BytesInit
<1>2. Text = <<>> /\ size = <<>> /\ faults = 0 /\ ~failed
  BY NoPieces DEF Init, Text, Ahead
<1>3. Unbroken(<<>>)
  BY DEF Unbroken
<1>4. Clean(<<>>, <<>>)
  BY DEF Clean, Open
<1>. QED
  BY <1>1, <1>2, <1>3, <1>4 DEF LogInv

LEMMA LogStep == LogInv /\ [Next]_vars => LogInv'
<1> SUFFICES ASSUME LogInv, [Next]_vars PROVE LogInv'
  OBVIOUS
<1>1. BytesInv /\ BytesInv'
  BY BytesStep DEF LogInv
<1>2. Fits(size, Text, Len(disk), taken)
  BY <1>1, TextFits
<1>3. (Fits(size, Text, Len(disk), taken))'
  BY <1>1, TextFits, PTL
<1>4. /\ size \in RecordSizes /\ Text \in Seq(Pieces)
      /\ UpTo(Text, taken) /\ taken \in Nat
  BY <1>2, FitsFacts
<1>5. size' \in RecordSizes /\ Ordered(Text')
  BY <1>3, FitsFacts
<1>6. /\ Unbroken(Text)
      /\ faults = 0 => ~failed /\ Clean(size, Text)
      /\ faults # 0 => Faults # {}
  BY DEF LogInv
<1>7. CASE Stays
  BY <1>1, <1>6, <1>7 DEF Stays, LogInv
<1>8. CASE Grows
  <2>1. /\ UNCHANGED <<taken, disk, Text, faults, failed>>
        /\ Len(size') = Len(size) + 1 /\ \A r \in 1 .. Len(size) : size'[r] = size[r]
    BY <1>8 DEF Grows
  <2>2. Clean(size, Text) => Clean(size', Text)
    BY <1>2, <1>5, <2>1, Accepted
  <2>. QED
    BY <1>1, <1>6, <2>1, <2>2 DEF LogInv
<1>9. CASE Adds
  <2>1. /\ UNCHANGED <<size, disk, faults, failed>>
        /\ taken' = taken + 1 /\ taken' \in 1 .. Len(size)
    BY <1>9 DEF Adds
  <2>2. PICK l : LineOf(size, taken', l) /\ Text' = Text \o l
    BY <1>9 DEF Adds
  <2>3. Unbroken(Text')
    <3>1. taken < taken'
      BY <1>4, <2>1
    <3>. QED
      BY <1>4, <1>6, <2>1, <2>2, <3>1, LineUnbroken
  <2>4. Clean(size, Text) => Clean(size', Text')
    <3>1. Ordered(Text \o l)
      BY <1>5, <2>2
    <3>. QED
      BY <1>4, <2>1, <2>2, <3>1, LineClean
  <2>. QED
    BY <1>1, <1>6, <2>1, <2>3, <2>4 DEF LogInv
<1>10. CASE Moves
  BY <1>1, <1>6, <1>10 DEF Moves, LogInv
<1>11. CASE \E s, v, u \in Seq(Pieces) : Cut(s, v, u)
  <2>1. PICK s, v, u \in Seq(Pieces) : Cut(s, v, u)
    BY <1>11
  <2>2. Text = s \o (v \o u) /\ Text' = s \o u /\ faults' # 0 /\ Faults # {}
    BY <2>1 DEF Cut
  <2>3. Unbroken(Text')
    BY <1>6, <2>2, UnbrokenCut
  <2>. QED
    BY <1>1, <2>2, <2>3 DEF LogInv
<1>. QED
  BY <1>7, <1>8, <1>9, <1>10, <1>11, StepIs

----------------------------------------------------------------------------
\* Refinement.

\* Steps of TraceLog, told from what they do to the two sets.

LEMMA LogSame ==
  ASSUME BytesInv, BytesInv', Kept' = Kept
  PROVE  TheLog' = TheLog
<1>1. Lists(TheLog, Kept)
  BY LogLists
<1>2. (Lists(TheLog, Kept))'
  BY LogLists, PTL
<1>. QED
  BY <1>1, <1>2, ListsOnce

LEMMA RestSame ==
  ASSUME BytesInv, BytesInv', Left' = Left
  PROVE  TheRest' = TheRest
<1>1. Lists(TheRest, Left)
  BY LogLists
<1>2. (Lists(TheRest, Left))'
  BY LogLists, PTL
<1>. QED
  BY <1>1, <1>2, ListsOnce

LEMMA SimulateAccept ==
  ASSUME BytesInv, BytesInv', Len(size') = Len(size) + 1,
         Kept' = Kept, Left' = Left \cup {Len(size) + 1}
  PROVE  Log!Accept
<1> DEFINE m == Len(size) + 1
<1>1. Lists(TheRest, Left) /\ Left \subseteq 1 .. Len(size) /\ Len(size) \in Nat
  BY LogLists, Typed DEF BytesInv
<1>2. (Lists(TheRest, Left))'
  BY LogLists, PTL
<1>3. m \in Nat /\ \A r \in Left : r < m
  BY <1>1
<1> HIDE DEF m
<1>4. Lists(TheRest \o <<m>>, Left \cup {m})
  BY <1>1, <1>3, ListsAppend
<1>5. TheRest' = TheRest \o <<m>>
  BY <1>2, <1>4, ListsOnce DEF m
<1>6. TheRest \o <<m>> = Append(TheRest, m)
  BY <1>1, <1>3, AppendIsConcat DEF Lists
<1>7. TheLog' = TheLog
  BY LogSame
<1>8. accepted' = m /\ accepted' = accepted + 1
  BY DEF accepted, m
<1>9. /\ accepted' = accepted + 1
      /\ TheRest' = Append(TheRest, accepted') /\ UNCHANGED TheLog
  BY <1>5, <1>6, <1>7, <1>8
<1>. QED
  BY <1>9 DEF Log!Accept, TheRest, TheLog

LEMMA SimulatePersist ==
  ASSUME BytesInv, BytesInv', size' = size,
         NEW r \in Left, \A q \in Left : r <= q, \A q \in Kept : q < r,
         Kept' = Kept \cup {r}, Left' = Left \ {r}
  PROVE  Log!Persist
<1>1. Lists(TheRest, Left) /\ Lists(TheLog, Kept) /\ r \in Nat
  BY LogLists
<1>2. (Lists(TheRest, Left) /\ Lists(TheLog, Kept))'
  BY LogLists, PTL
<1>3. /\ 1 \in 1 .. Len(TheRest) /\ SubSeq(TheRest, 1, 1) = <<r>>
      /\ SubSeq(TheRest, 2, Len(TheRest)) = TheRest'
  BY <1>1, <1>2, ListsFirst
<1>4. TheLog' = TheLog \o <<r>>
  <2>1. Lists(TheLog \o <<r>>, Kept \cup {r})
    BY <1>1, ListsAppend
  <2>. QED
    BY <1>2, <2>1, ListsOnce
<1>5. \E k \in 1 .. Len(TheRest) :
        /\ TheLog' = TheLog \o SubSeq(TheRest, 1, k)
        /\ TheRest' = SubSeq(TheRest, k + 1, Len(TheRest))
  <2>1. TheLog' = TheLog \o SubSeq(TheRest, 1, 1)
    BY <1>3, <1>4
  <2>2. 1 + 1 = 2
    OBVIOUS
  <2>3. TheRest' = SubSeq(TheRest, 1 + 1, Len(TheRest))
    BY <1>3, <2>2, Zenon
  <2>. QED
    BY <1>3, <2>1, <2>3, Zenon
<1>6. accepted' = accepted
  BY DEF accepted
<1>. QED
  BY <1>5, <1>6 DEF Log!Persist, TheRest, TheLog

LEMMA SimulateLose ==
  ASSUME BytesInv, BytesInv', size' = size, Faults # {}, Kept' = Kept, Loses(Left, Left')
  PROVE  Log!Lose
<1>1. Lists(TheRest, Left) /\ Left \subseteq 1 .. Len(size) /\ Len(size) \in Nat
  BY LogLists, Typed DEF BytesInv
<1>2. (Lists(TheRest, Left))'
  BY LogLists, PTL
<1>3. /\ Left' \subseteq Left
      /\ \A q, p \in Left \ Left', r \in Left : q < r /\ r < p => r \notin Left'
  BY DEF Loses
<1>4. RunsLost(TheRest, TheRest')
  BY <1>1, <1>2, <1>3, ListsLoss
<1>5. TheLog' = TheLog /\ accepted' = accepted
  BY LogSame DEF accepted
<1>. QED
  BY <1>4, <1>5 DEF Log!Lose, RunsLost, TheRest, TheLog

LEMMA Simulation == LogInv /\ [Next]_vars => [Log!Next]_(Log!logVars)
<1> SUFFICES ASSUME LogInv, [Next]_vars PROVE [Log!Next]_(Log!logVars)
  OBVIOUS
<1>1. BytesInv /\ BytesInv' /\ TypeOK
  BY BytesStep DEF LogInv, BytesInv
<1> DEFINE d == Len(disk)
           n == taken
<1>2. Fits(size, Text, d, n) /\ n \in Nat /\ d \in Nat /\ Len(size) \in Nat
  BY <1>1, TextFits, FitsFacts
<1>3. (Fits(size, Text, Len(disk), taken))'
  BY <1>1, TextFits, PTL
<1>4. size' \in RecordSizes /\ Ordered(Text')
  BY <1>3, FitsFacts
<1>5. /\ Unbroken(Text)
      /\ Clean(size, Text) \/ Faults # {}
  BY DEF LogInv
<1>6. /\ Kept = InFile(size, Text, d) /\ Left = Pending(size, Text, d, n)
      /\ Kept' = InFile(size', Text', Len(disk'))
      /\ Left' = Pending(size', Text', Len(disk'), taken')
  BY DEF Kept, Left
<1> HIDE DEF d, n
<1>7. CASE size' = size /\ Kept' = Kept /\ Left' = Left
  <2>1. TheLog' = TheLog /\ TheRest' = TheRest
    BY <1>1, <1>7, LogSame, RestSame
  <2>2. accepted' = accepted
    BY <1>7 DEF accepted
  <2>. QED
    BY <2>1, <2>2 DEF Log!logVars, TheLog, TheRest
<1>8. CASE Stays
  <2>1. Kept' = Kept /\ Left' = Left
    BY <1>8 DEF Stays, Kept, Left
  <2>. QED
    BY <1>7, <1>8, <2>1 DEF Stays
<1>9. CASE Grows
  <2>1. /\ taken' = n /\ Len(disk') = d /\ Text' = Text
        /\ Len(size') = Len(size) + 1 /\ \A r \in 1 .. Len(size) : size'[r] = size[r]
    BY <1>9 DEF Grows, d, n
  <2>2. /\ InFile(size', Text, d) = InFile(size, Text, d)
        /\ Pending(size', Text, d, n) = Pending(size, Text, d, n) \cup {Len(size) + 1}
    BY <1>2, <1>4, <2>1, Accepted
  <2>3. Kept' = Kept /\ Left' = Left \cup {Len(size) + 1}
    BY <1>6, <2>1, <2>2
  <2>4. Log!Accept
    BY <1>1, <2>1, <2>3, SimulateAccept
  <2>. QED
    BY <2>4 DEF Log!Next
<1>10. CASE Adds
  <2>1. /\ taken' = n + 1 /\ n + 1 \in 1 .. Len(size) /\ Len(disk') = d /\ size' = size
    BY <1>10 DEF Adds, d, n
  <2>2. PICK l : LineOf(size, taken', l) /\ Text' = Text \o l
    BY <1>10 DEF Adds
  <2>3. LineOf(size, n + 1, l) /\ Ordered(Text \o l)
    BY <1>4, <2>1, <2>2
  <2>4. /\ InFile(size, Text \o l, d) = InFile(size, Text, d)
        /\ Loses(Pending(size, Text, d, n), Pending(size, Text \o l, d, n + 1))
        /\ ~Open(Text) =>
             Pending(size, Text \o l, d, n + 1) = Pending(size, Text, d, n)
    BY <1>2, <2>1, <2>3, LineLoses
  <2>5. Kept' = Kept /\ Loses(Left, Left') /\ (~Open(Text) => Left' = Left)
    BY <1>6, <2>1, <2>2, <2>4
  <2>6. CASE Faults # {}
    BY <1>1, <2>1, <2>5, <2>6, SimulateLose DEF Log!Next
  <2>7. CASE Faults = {}
    <3>1. ~Open(Text)
      BY <1>5, <2>7 DEF Clean
    <3>. QED
      BY <1>7, <2>1, <2>5, <3>1
  <2>. QED
    BY <2>6, <2>7
<1>11. CASE Moves
  <2>1. taken' = n /\ Len(disk') = d + 1 /\ d < Len(Text) /\ size' = size /\ Text' = Text
    BY <1>11 DEF Moves, d, n
  <2>2. CASE Text[d + 1] = Newline
    <3>1. \/ /\ InFile(size, Text, d + 1) = InFile(size, Text, d)
             /\ Pending(size, Text, d + 1, n) = Pending(size, Text, d, n)
          \/ \E r \in Pending(size, Text, d, n) :
               /\ \A q \in Pending(size, Text, d, n) : r <= q
               /\ \A q \in InFile(size, Text, d) : q < r
               /\ InFile(size, Text, d + 1) = InFile(size, Text, d) \cup {r}
               /\ Pending(size, Text, d + 1, n) = Pending(size, Text, d, n) \ {r}
      BY <1>2, <2>1, <2>2, NewlineWritten
    <3>2. \/ Kept' = Kept /\ Left' = Left
          \/ \E r \in Left : /\ \A q \in Left : r <= q
                             /\ \A q \in Kept : q < r
                             /\ Kept' = Kept \cup {r}
                             /\ Left' = Left \ {r}
      BY <1>6, <2>1, <3>1
    <3>3. CASE \E r \in Left : /\ \A q \in Left : r <= q
                               /\ \A q \in Kept : q < r
                               /\ Kept' = Kept \cup {r}
                               /\ Left' = Left \ {r}
      <4>1. Log!Persist
        BY <1>1, <2>1, <3>3, SimulatePersist
      <4>. QED
        BY <4>1 DEF Log!Next
    <3>. QED
      BY <1>7, <2>1, <3>2, <3>3
  <2>3. CASE Text[d + 1] # Newline
    <3>1. /\ InFile(size, Text, d + 1) = InFile(size, Text, d)
          /\ Loses(Pending(size, Text, d, n), Pending(size, Text, d + 1, n))
      BY <1>2, <2>1, <2>3, PieceWritten
    <3>2. Clean(size, Text) =>
            Pending(size, Text, d + 1, n) = Pending(size, Text, d, n)
      BY <1>2, <2>1, <2>3, CleanWritten
    <3>3. Kept' = Kept /\ Loses(Left, Left') /\ (Clean(size, Text) => Left' = Left)
      BY <1>6, <2>1, <3>1, <3>2
    <3>4. CASE Faults # {}
      BY <1>1, <2>1, <3>3, <3>4, SimulateLose DEF Log!Next
    <3>. QED
      BY <1>5, <1>7, <2>1, <3>3, <3>4
  <2>. QED
    BY <2>2, <2>3
<1>12. CASE \E s, v, u \in Seq(Pieces) : Cut(s, v, u)
  <2>1. PICK s, v, u \in Seq(Pieces) : Cut(s, v, u)
    BY <1>12
  <2>2. /\ size' = size /\ Len(disk') = d /\ Faults # {}
        /\ Text = s \o (v \o u) /\ Text' = s \o u /\ d <= Len(s)
        /\ taken' \in n .. Len(size) /\ (taken' = n \/ u = <<>>)
    BY <2>1 DEF Cut, d, n
  <2>3. d \in 0 .. Len(s)
    BY <1>2, <2>2, LenProperties
  <2>4. /\ Fits(size, s \o (v \o u), d, n) /\ Unbroken(s \o (v \o u))
    BY <1>2, <1>5, <2>2
  <2>5. /\ InFile(size, s \o u, d) = InFile(size, s \o (v \o u), d)
        /\ Loses(Pending(size, s \o (v \o u), d, n), Pending(size, s \o u, d, taken'))
    BY <2>2, <2>3, <2>4, CutLoses
  <2>6. Kept' = Kept /\ Loses(Left, Left')
    BY <1>6, <2>2, <2>5
  <2>7. Log!Lose
    BY <1>1, <2>2, <2>6, SimulateLose
  <2>. QED
    BY <2>7 DEF Log!Next
<1>. QED
  BY <1>8, <1>9, <1>10, <1>11, <1>12, StepIs

\* Read line by line the file is a trace log: whatever fails and whenever, a record that
\* becomes readable is the oldest that still can, after those readable already, no line
\* that was readable is lost, and records are lost only where faults are possible.
THEOREM Refinement == Spec => ImplementsTraceLog
<1>1. Init => Log!Init
  <2> SUFFICES ASSUME Init PROVE Log!Init
    OBVIOUS
  <2>1. BytesInv /\ size = <<>>
    BY BytesInit DEF Init
  <2>2. accepted = 0
    BY <2>1 DEF accepted
  <2>3. Lists(TheLog, {}) /\ Lists(TheRest, {})
    <3>1. Kept \subseteq 1 .. 0 /\ Left \subseteq 1 .. 0
      BY <2>1, LogLists
    <3>2. Kept = {} /\ Left = {}
      BY <3>1
    <3>. QED
      BY <2>1, <3>2, LogLists
  <2>4. TheLog = <<>> /\ TheRest = <<>>
    BY <2>3, ListsNothing, ListsOnce
  <2>. QED
    BY <2>2, <2>4 DEF Log!Init, TheLog, TheRest
<1>. QED
  BY <1>1, LogInit, LogStep, Simulation, PTL DEF Spec, ImplementsTraceLog, Log!Spec
===================================================================================
