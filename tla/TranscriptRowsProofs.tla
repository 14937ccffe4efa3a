------------------------ MODULE TranscriptRowsProofs ------------------------
(***************************************************************************)
(* The rows a pane shows, for any number of panes, threads and sizes:      *)
(* however a transcript was put together it shows no row twice and misses  *)
(* none, and the newest row stays.                                         *)
(***************************************************************************)
EXTENDS TranscriptPanesProofs, SequenceTheorems, WellFoundedInduction

(***************************************************************************)
(* What Only computes: induction over the rows it goes through.            *)
(***************************************************************************)
OneEach(rows) == \A i, j \in DOMAIN rows : rows[i] = rows[j] => i = j

LEMMA LeastNat ==
    ASSUME NEW S, S \subseteq Nat, S # {}
    PROVE  \E n \in S : \A k \in S : n <= k
<1>1. IsWellFoundedOn(OpToRel(<, Nat), Nat)
  BY NatLessThanWellFounded
<1> DEFINE R == OpToRel(<, Nat)
<1>2. \A x, y \in Nat : x < y => <<x, y>> \in R
  BY DEF OpToRel
<1> HIDE DEF R
<1>3. PICK n \in S : \A k \in S : ~(<<k, n>> \in R)
  BY <1>1, WFMin DEF R
<1>4. \A k \in S : k \in Nat /\ n \in Nat /\ ~(k < n)
  BY <1>2, <1>3
<1> QED  BY <1>4

\* The rows kept of the first n.
IsUpTo(g, rows, some, n) ==
    g = [i \in 0 .. n |->
            IF i = 0 THEN <<>>
            ELSE IF rows[i] \in some THEN Append(g[i - 1], rows[i]) ELSE g[i - 1]]

LEMMA UpToExists ==
    ASSUME NEW rows, NEW some, NEW n \in Nat
    PROVE  \E g : IsUpTo(g, rows, some, n)
<1> DEFINE S == {k \in Nat : ~\E g : IsUpTo(g, rows, some, k)}
<1>1. SUFFICES ASSUME S # {} PROVE FALSE
  OBVIOUS
<1>2. PICK k \in S : \A j \in S : k <= j
  BY <1>1, LeastNat
<1> DEFINE step(g, i) == IF i = 0 THEN <<>>
                         ELSE IF rows[i] \in some THEN Append(g[i - 1], rows[i]) ELSE g[i - 1]
<1>3. CASE k = 0
  <2> DEFINE h == [i \in 0 .. 0 |-> <<>>]
  <2>1. h = [i \in 0 .. 0 |-> step(h, i)]
    OBVIOUS
  <2>2. IsUpTo(h, rows, some, 0)
    BY <2>1, Zenon DEF IsUpTo
  <2> QED  BY <1>2, <1>3, <2>2
<1>4. CASE k # 0
  <2>0. k \in Nat /\ k - 1 \in Nat /\ ~(k <= k - 1)
    BY <1>2, <1>4
  <2>1. PICK g : IsUpTo(g, rows, some, k - 1)
    BY <1>2, <2>0
  <2> DEFINE h == [i \in 0 .. k |-> step(g, i)]
  <2>2. \A i \in 0 .. k - 1 : h[i] = g[i]
    <3>1. TAKE i \in 0 .. k - 1
    <3>2. i \in 0 .. k
      BY <2>0
    <3>3. h[i] = step(g, i)
      BY <3>2, Zenon
    <3>4. g[i] = step(g, i)
      BY <2>1, Zenon DEF IsUpTo
    <3> QED  BY <3>3, <3>4
  <2>3. \A i \in 0 .. k : i # 0 => i - 1 \in 0 .. k - 1
    BY <2>0
  <2>4. \A i \in 0 .. k : step(g, i) = step(h, i)
    <3>1. TAKE i \in 0 .. k
    <3>2. i # 0 => h[i - 1] = g[i - 1]
      BY <2>2, <2>3
    <3> HIDE DEF h
    <3> QED  BY <3>2
  <2>5. h = [i \in 0 .. k |-> step(h, i)]
    BY <2>4, Zenon
  <2>6. IsUpTo(h, rows, some, k)
    BY <2>5, Zenon DEF IsUpTo
  <2> QED  BY <1>2, <2>6
<1> QED  BY <1>3, <1>4

LEMMA OnlyIsUpTo ==
    ASSUME NEW rows, NEW some, Len(rows) \in Nat
    PROVE  \E g : IsUpTo(g, rows, some, Len(rows)) /\ Only(rows, some) = g[Len(rows)]
<1> DEFINE P(g) == g = [i \in 0 .. Len(rows) |->
                          IF i = 0 THEN <<>>
                          ELSE IF rows[i] \in some THEN Append(g[i - 1], rows[i]) ELSE g[i - 1]]
           f == CHOOSE g : P(g)
<1>1. \E g : P(g)
  <2>1. PICK g : IsUpTo(g, rows, some, Len(rows))
    BY UpToExists
  <2>2. P(g)
    BY <2>1, Zenon DEF IsUpTo
  <2> QED  BY <2>2, Zenon
<1>2. P(f)
  BY <1>1
<1>3. Only(rows, some) = f[Len(rows)]
  BY DEF Only
<1> QED  BY <1>2, <1>3 DEF IsUpTo

\* A row appended to rows is their only new one, and stands last.
LEMMA AppendRows ==
    ASSUME NEW T, NEW s \in Seq(T), NEW e \in T
    PROVE  /\ Append(s, e) \in Seq(T)
           /\ RowSet(Append(s, e)) = RowSet(s) \cup {e}
           /\ OneEach(s) /\ e \notin RowSet(s) => OneEach(Append(s, e))
           /\ OldestFirst(s) /\ (\A m \in RowSet(s) : m < e) => OldestFirst(Append(s, e))
<1> DEFINE t == Append(s, e)
<1>1. /\ t \in Seq(T) /\ Len(s) \in Nat
      /\ DOMAIN s = 1 .. Len(s) /\ DOMAIN t = 1 .. Len(s) + 1
      /\ \A i \in 1 .. Len(s) : t[i] = s[i]
      /\ t[Len(s) + 1] = e
  BY AppendProperties, LenProperties
<1> HIDE DEF t
<1>2. RowSet(t) = RowSet(s) \cup {e}
  <2>1. \A m \in RowSet(t) : m \in RowSet(s) \/ m = e
    BY <1>1 DEF RowSet
  <2>2. \A m \in RowSet(s) : m \in RowSet(t)
    BY <1>1 DEF RowSet
  <2>3. e \in RowSet(t)
    BY <1>1 DEF RowSet
  <2> QED  BY <2>1, <2>2, <2>3
<1>3. OneEach(s) /\ e \notin RowSet(s) => OneEach(t)
  BY <1>1 DEF RowSet, OneEach
<1>4. OldestFirst(s) /\ (\A m \in RowSet(s) : m < e) => OldestFirst(t)
  BY <1>1 DEF RowSet, OldestFirst
<1> QED  BY <1>1, <1>2, <1>3, <1>4 DEF t

\* Only keeps the order, and drops just the rows outside the set.
LEMMA OnlyFacts ==
    ASSUME NEW T, NEW rows \in Seq(T), NEW some
    PROVE  /\ Only(rows, some) \in Seq(T)
           /\ RowSet(Only(rows, some)) = RowSet(rows) \cap some
           /\ OneEach(rows) => OneEach(Only(rows, some))
           /\ OldestFirst(rows) => OldestFirst(Only(rows, some))
<1> DEFINE n == Len(rows)
<1>1. n \in Nat /\ DOMAIN rows = 1 .. n /\ \A i \in 1 .. n : rows[i] \in T
  BY LenProperties, ElementOfSeq
<1>2. PICK g : IsUpTo(g, rows, some, n) /\ Only(rows, some) = g[n]
  BY <1>1, OnlyIsUpTo
<1> HIDE DEF n
<1> DEFINE Before(k) == {rows[i] : i \in 1 .. k} \cap some
           Good(k) == /\ g[k] \in Seq(T) /\ RowSet(g[k]) = Before(k)
                      /\ OneEach(rows) => OneEach(g[k])
                      /\ OldestFirst(rows) => OldestFirst(g[k])
           S == {k \in 0 .. n : ~Good(k)}
<1>3. /\ g[0] = <<>>
      /\ \A k \in 1 .. n : g[k] = IF rows[k] \in some THEN Append(g[k - 1], rows[k]) ELSE g[k - 1]
  <2>1. \A k \in 0 .. n : g[k] = IF k = 0 THEN <<>>
                                 ELSE IF rows[k] \in some THEN Append(g[k - 1], rows[k])
                                 ELSE g[k - 1]
    BY <1>2, Zenon DEF IsUpTo
  <2>2. 0 \in 0 .. n /\ \A k \in 1 .. n : k \in 0 .. n /\ k # 0
    BY <1>1
  <2> QED  BY <2>1, <2>2, Zenon
<1>4. Good(0)
  BY <1>3 DEF RowSet, OneEach, OldestFirst
<1>5. ASSUME NEW k \in 1 .. n, Good(k - 1) PROVE Good(k)
  <2>1. rows[k] \in T /\ k \in DOMAIN rows /\ k \in Nat
    BY <1>1
  <2>2. CASE rows[k] \notin some
    <3>1. g[k] = g[k - 1]
      BY <1>3, <2>2
    <3>2. Before(k) = Before(k - 1)
      BY <2>1, <2>2
    <3> QED  BY <1>5, <3>1, <3>2
  <2>3. CASE rows[k] \in some
    <3>1. g[k] = Append(g[k - 1], rows[k])
      BY <1>3, <2>3
    <3>2. Before(k) = Before(k - 1) \cup {rows[k]}
      BY <2>1, <2>3
    <3>3. OneEach(rows) => rows[k] \notin Before(k - 1)
      BY <1>1, <2>1 DEF OneEach
    <3>4. OldestFirst(rows) => \A m \in Before(k - 1) : m < rows[k]
      BY <1>1, <2>1 DEF OldestFirst
    <3> HIDE DEF Before
    <3> QED  BY <1>5, <2>1, <3>1, <3>2, <3>3, <3>4, AppendRows
  <2> QED  BY <2>2, <2>3
<1> HIDE DEF Good
<1>6. S = {}
  <2>1. SUFFICES ASSUME S # {} PROVE FALSE
    OBVIOUS
  <2>2. PICK k \in S : \A j \in S : k <= j
    <3>1. S \subseteq Nat
      OBVIOUS
    <3> QED  BY <2>1, <3>1, LeastNat
  <2>3. k \in 1 .. n /\ k - 1 \in 0 .. n /\ ~(k <= k - 1)
    BY <1>1, <1>4, <2>2
  <2> QED  BY <1>5, <2>2, <2>3
<1>7. Good(n) /\ {rows[i] : i \in 1 .. n} = RowSet(rows)
  BY <1>1, <1>6 DEF RowSet
<1> QED  BY <1>2, <1>7 DEF Good

(***************************************************************************)
(* Rows put together and cut.                                              *)
(***************************************************************************)
LEMMA RowsAreNat == RowSeqs \subseteq Nat /\ \A n \in RowSeqs : n \in 1 .. MaxSeq
BY RowsAssumption, SizesAssumption DEF Seqs

LEMMA SeqOfRows ==
    ASSUME NEW T, NEW s \in Seq(T), NEW U, RowSet(s) \subseteq U
    PROVE  s \in Seq(U)
<1>1. Len(s) \in Nat /\ s \in [1 .. Len(s) -> T] /\ DOMAIN s = 1 .. Len(s)
  BY LenProperties
<1>2. \A i \in 1 .. Len(s) : s[i] \in U
  BY <1>1 DEF RowSet
<1>3. s = [i \in 1 .. Len(s) |-> s[i]]
  BY <1>1
<1> QED  BY <1>1, <1>2, <1>3, IsASeq

LEMMA OldestFirstOnce ==
    ASSUME NEW s \in Seq(Nat), OldestFirst(s)
    PROVE  OneEach(s)
<1>1. Len(s) \in Nat /\ DOMAIN s = 1 .. Len(s) /\ \A i \in 1 .. Len(s) : s[i] \in Nat
  BY LenProperties, ElementOfSeq
<1> SUFFICES ASSUME NEW i \in DOMAIN s, NEW j \in DOMAIN s, s[i] = s[j] PROVE i = j
  BY DEF OneEach
<1>2. ~(s[i] < s[j]) /\ ~(s[j] < s[i])
  BY <1>1
<1>3. ~(i < j) /\ ~(j < i)
  BY <1>2 DEF OldestFirst
<1> QED  BY <1>1, <1>3

LEMMA ConcatRows ==
    ASSUME NEW T, NEW a \in Seq(T), NEW b \in Seq(T)
    PROVE  /\ a \o b \in Seq(T)
           /\ RowSet(a \o b) = RowSet(a) \cup RowSet(b)
           /\ OneEach(a) /\ OneEach(b) /\ RowSet(a) \cap RowSet(b) = {} => OneEach(a \o b)
<1> DEFINE c == a \o b
           m == Len(a)
           n == Len(b)
<1>1. /\ c \in Seq(T) /\ m \in Nat /\ n \in Nat
      /\ DOMAIN a = 1 .. m /\ DOMAIN b = 1 .. n /\ DOMAIN c = 1 .. m + n
      /\ \A i \in 1 .. m + n : c[i] = IF i <= m THEN a[i] ELSE b[i - m]
  BY ConcatProperties, LenProperties
<1> HIDE DEF c, m, n
<1>2. RowSet(c) = RowSet(a) \cup RowSet(b)
  <2>1. ASSUME NEW x \in RowSet(c) PROVE x \in RowSet(a) \cup RowSet(b)
    <3>1. PICK i \in 1 .. m + n : x = c[i]
      BY <1>1 DEF RowSet
    <3>2. (i \in 1 .. m /\ c[i] = a[i]) \/ (i - m \in 1 .. n /\ c[i] = b[i - m])
      BY <1>1
    <3> QED  BY <1>1, <3>1, <3>2 DEF RowSet
  <2>2. ASSUME NEW x \in RowSet(a) PROVE x \in RowSet(c)
    <3>1. PICK i \in 1 .. m : x = a[i]
      BY <1>1 DEF RowSet
    <3>2. i \in 1 .. m + n /\ c[i] = a[i]
      BY <1>1
    <3> QED  BY <1>1, <3>1, <3>2 DEF RowSet
  <2>3. ASSUME NEW x \in RowSet(b) PROVE x \in RowSet(c)
    <3>1. PICK i \in 1 .. n : x = b[i]
      BY <1>1 DEF RowSet
    <3>2. i + m \in 1 .. m + n /\ ~(i + m <= m) /\ (i + m) - m = i
      BY <1>1
    <3>3. c[i + m] = b[i]
      BY <1>1, <3>2
    <3> QED  BY <1>1, <3>1, <3>2, <3>3 DEF RowSet
  <2> QED  BY <2>1, <2>2, <2>3
<1>3. ASSUME OneEach(a), OneEach(b), RowSet(a) \cap RowSet(b) = {} PROVE OneEach(c)
  <2> SUFFICES ASSUME NEW i \in 1 .. m + n, NEW j \in 1 .. m + n, c[i] = c[j] PROVE i = j
    BY <1>1 DEF OneEach
  <2>1. CASE i <= m /\ j <= m
    <3>1. i \in 1 .. m /\ j \in 1 .. m /\ a[i] = a[j]
      BY <1>1, <2>1
    <3> QED  BY <1>1, <1>3, <3>1 DEF OneEach
  <2>2. CASE ~(i <= m) /\ ~(j <= m)
    <3>1. i - m \in 1 .. n /\ j - m \in 1 .. n /\ b[i - m] = b[j - m]
      BY <1>1, <2>2
    <3>2. i - m = j - m
      BY <1>1, <1>3, <3>1 DEF OneEach
    <3> QED  BY <1>1, <3>2
  <2>3. ASSUME NEW k \in 1 .. m, NEW l \in 1 .. m + n, ~(l <= m) PROVE c[k] # c[l]
    <3>1. k \in 1 .. m + n /\ k <= m /\ l - m \in 1 .. n
      BY <1>1, <2>3
    <3>2. c[k] = a[k] /\ c[l] = b[l - m]
      BY <1>1, <2>3, <3>1
    <3>3. a[k] \in RowSet(a) /\ b[l - m] \in RowSet(b)
      BY <1>1, <3>1 DEF RowSet
    <3> QED  BY <1>3, <3>2, <3>3
  <2>4. i <= m \/ j <= m => i <= m /\ j <= m
    <3>1. \A l \in 1 .. m + n : l <= m => l \in 1 .. m
      BY <1>1
    <3> QED  BY <2>3, <3>1
  <2> QED  BY <2>1, <2>2, <2>4
<1> QED  BY <1>1, <1>2, <1>3 DEF c

\* The last n of more rows: the same newest one, and when they were oldest first
\* nothing is lost above the oldest one left.
LEMMA SuffixRows ==
    ASSUME NEW T, NEW s \in Seq(T), NEW n \in Nat \ {0}, ~(Len(s) <= n)
    PROVE  LET t == SubSeq(s, Len(s) - n + 1, Len(s))
           IN /\ t \in Seq(T) /\ Len(t) = n /\ t[n] = s[Len(s)]
              /\ RowSet(t) \subseteq RowSet(s)
              /\ OneEach(s) => OneEach(t)
              /\ OldestFirst(s) => OldestFirst(t)
              /\ OldestFirst(s) => \A x \in RowSet(s) \ RowSet(t) : \A y \in RowSet(t) : x < y
<1> DEFINE t == SubSeq(s, Len(s) - n + 1, Len(s))
           k == Len(s) - n
<1>0. Len(s) \in Nat
  BY LenProperties
<1>1. DOMAIN s = 1 .. Len(s) /\ \A i \in 1 .. Len(s) : s[i] \in T
  BY LenProperties, ElementOfSeq
<1>2. k \in Nat /\ k # 0 /\ Len(s) = k + n
  BY <1>0
<1>3. /\ t \in Seq(T) /\ Len(t) = n
      /\ \A i \in 1 .. n : t[i] = s[k + i]
  <2>1. \A i \in Len(s) - n + 1 .. Len(s) : s[i] \in T
    <3>1. Len(s) - n + 1 = k + 1
      BY <1>0
    <3>2. \A i \in k + 1 .. Len(s) : i \in 1 .. Len(s)
      <4> HIDE DEF k
      <4> QED  BY <1>0, <1>2
    <3> QED  BY <1>1, <3>1, <3>2
  <2>2. /\ t \in Seq(T)
        /\ Len(t) = IF Len(s) - n + 1 <= Len(s) THEN Len(s) - (Len(s) - n + 1) + 1 ELSE 0
        /\ \A i \in 1 .. Len(s) - (Len(s) - n + 1) + 1 : t[i] = s[(Len(s) - n + 1) + i - 1]
    BY <1>0, <2>1, SubSeqProperties
  <2> HIDE DEF t
  <2>3. Len(s) - (Len(s) - n + 1) + 1 = n /\ Len(s) - n + 1 <= Len(s)
    BY <1>0
  <2>4. \A i \in 1 .. n : (Len(s) - n + 1) + i - 1 = k + i
    BY <1>0
  <2> QED  BY <2>2, <2>3, <2>4
<1> HIDE DEF t, k
<1>4. DOMAIN t = 1 .. n
  BY <1>3, LenProperties
<1>5. \A i \in 1 .. n : k + i \in 1 .. Len(s)
  BY <1>2
<1>6. n \in 1 .. n
  OBVIOUS
<1>7. t[n] = s[Len(s)]
  BY <1>2, <1>3, <1>6
<1>8. RowSet(t) \subseteq RowSet(s)
  BY <1>1, <1>3, <1>4, <1>5 DEF RowSet
<1>9. ASSUME OneEach(s) PROVE OneEach(t)
  <2> SUFFICES ASSUME NEW i \in 1 .. n, NEW j \in 1 .. n, t[i] = t[j] PROVE i = j
    BY <1>4 DEF OneEach
  <2>1. s[k + i] = s[k + j] /\ k + i \in DOMAIN s /\ k + j \in DOMAIN s
    BY <1>1, <1>3, <1>5
  <2>2. k + i = k + j
    BY <1>9, <2>1 DEF OneEach
  <2> QED  BY <1>2, <2>2
<1>10. ASSUME OldestFirst(s) PROVE OldestFirst(t)
  <2> SUFFICES ASSUME NEW i \in 1 .. n, NEW j \in 1 .. n, i < j PROVE t[i] < t[j]
    BY <1>4 DEF OldestFirst
  <2>1. k + i < k + j /\ k + i \in DOMAIN s /\ k + j \in DOMAIN s
    BY <1>1, <1>2, <1>5
  <2>2. s[k + i] < s[k + j]
    BY <1>10, <2>1 DEF OldestFirst
  <2> QED  BY <1>3, <2>2
<1>11. ASSUME OldestFirst(s), NEW x \in RowSet(s) \ RowSet(t), NEW y \in RowSet(t) PROVE x < y
  <2>1. PICK i \in 1 .. Len(s) : x = s[i]
    BY <1>1 DEF RowSet
  <2>2. PICK j \in 1 .. n : y = s[k + j]
    BY <1>3, <1>4 DEF RowSet
  <2>3. ~(i > k)
    <3>1. SUFFICES ASSUME i > k PROVE FALSE
      OBVIOUS
    <3>2. i - k \in 1 .. n /\ k + (i - k) = i
      BY <1>0, <1>2, <3>1
    <3>3. x = t[i - k]
      BY <1>3, <2>1, <3>2
    <3> QED  BY <1>4, <3>2, <3>3 DEF RowSet
  <2>4. i < k + j /\ k + j \in 1 .. Len(s)
    BY <1>0, <1>2, <1>5, <2>3
  <2> QED  BY <1>1, <1>11, <2>1, <2>2, <2>4 DEF OldestFirst
<1> QED  BY <1>3, <1>7, <1>8, <1>9, <1>10, <1>11 DEF t

\* The rows of a stretch of the journal.
LEMMA RowsInFacts ==
    ASSUME NEW lo \in Nat \ {0}, NEW hi \in Nat
    PROVE  /\ RowsIn(lo, hi) \in Seq(RowSeqs)
           /\ RowSet(RowsIn(lo, hi)) = RowSeqs \cap lo .. hi
           /\ OldestFirst(RowsIn(lo, hi))
<1> DEFINE all == [n \in 1 .. hi |-> n]
<1>1. all \in Seq(Nat)
  BY IsASeq
<1>2. DOMAIN all = 1 .. hi /\ OldestFirst(all) /\ RowSet(all) = 1 .. hi
  BY DEF OldestFirst, RowSet
<1> HIDE DEF all
<1>3. RowsIn(lo, hi) = Only(all, RowSeqs \cap lo .. hi)
  BY DEF RowsIn, all
<1> DEFINE some == RowSeqs \cap lo .. hi
<1>4. /\ RowsIn(lo, hi) \in Seq(Nat) /\ OldestFirst(RowsIn(lo, hi))
      /\ RowSet(RowsIn(lo, hi)) = RowSet(all) \cap some
  <2> HIDE DEF some
  <2>1. RowsIn(lo, hi) = Only(all, some)
    BY <1>3 DEF some
  <2> QED  BY <1>1, <1>2, <2>1, OnlyFacts
<1>5. RowSet(RowsIn(lo, hi)) = RowSeqs \cap lo .. hi
  BY <1>2, <1>4
<1> QED  BY <1>4, <1>5, SeqOfRows

(***************************************************************************)
(* Sessions: what the app may keep, and what the server answers.           *)
(***************************************************************************)
\* No row is missing between two that are there.
Whole(S) == \A n \in RowSeqs \ S : (\A m \in S : n < m) \/ (\A m \in S : m < n)

Kept == {s \in Sessions : OneEach(s.rows) /\ (~s.torn => Whole(RowSet(s.rows)))}
Replies == {s \in Sessions : ~s.torn /\ OldestFirst(s.rows) /\ Whole(RowSet(s.rows))}
Maybe(S) == S \cup {NoSession}

LEMMA SessionFields ==
    ASSUME NEW s \in Sessions
    PROVE  /\ s.id \in Threads /\ s.rows \in Seq(RowSeqs) /\ s.rows \in Seq(Nat)
           /\ s.more \in BOOLEAN /\ s.torn \in BOOLEAN /\ RowSet(s.rows) \subseteq RowSeqs
           /\ Len(s.rows) \in Nat /\ DOMAIN s.rows = 1 .. Len(s.rows)
           /\ s # NoSession
<1>1. s.id \in Threads /\ s.rows \in Seq(RowSeqs) /\ s.more \in BOOLEAN /\ s.torn \in BOOLEAN
  BY DEF Sessions
<1>2. /\ Len(s.rows) \in Nat /\ DOMAIN s.rows = 1 .. Len(s.rows)
      /\ \A i \in 1 .. Len(s.rows) : s.rows[i] \in RowSeqs
  BY <1>1, LenProperties, ElementOfSeq
<1>3. RowSet(s.rows) \subseteq RowSeqs
  BY <1>2 DEF RowSet
<1>4. s # NoSession
  BY <1>1, ThreadsAssumption DEF NoSession, Session
<1>5. s.rows \in Seq(Nat)
  BY <1>1, <1>3, RowsAreNat, SeqOfRows
<1> QED  BY <1>1, <1>2, <1>3, <1>4, <1>5

LEMMA SessionIn ==
    ASSUME NEW t \in Threads, NEW rows \in Seq(RowSeqs), NEW more \in BOOLEAN, NEW torn \in BOOLEAN
    PROVE  /\ Session(t, rows, more, torn) \in Sessions
           /\ OneEach(rows) /\ (~torn => Whole(RowSet(rows))) => Session(t, rows, more, torn) \in Kept
           /\ ~torn /\ OldestFirst(rows) /\ Whole(RowSet(rows)) => Session(t, rows, more, torn) \in Replies
<1> DEFINE s == Session(t, rows, more, torn)
<1>1. s.rows = rows /\ s.torn = torn /\ s \in Sessions
  BY DEF Session, Sessions
<1> HIDE DEF s
<1> QED  BY <1>1 DEF Kept, Replies, s

LEMMA RepliesAreKept == Replies \subseteq Kept
BY SessionFields, OldestFirstOnce DEF Replies, Kept

LEMMA NoSessionRows == NoSession.rows = <<>> /\ NoSession.id = NoThread /\ RowSet(NoSession.rows) = {}
                       /\ ~NoSession.torn
BY DEF NoSession, Session, RowSet

\* Two stretches that share a row are one stretch.
LEMMA WholeUnion ==
    ASSUME NEW A, NEW B, A \subseteq RowSeqs, B \subseteq RowSeqs, Whole(A), Whole(B), A \cap B # {}
    PROVE  Whole(A \cup B)
<1>1. PICK c : c \in A \cap B
  OBVIOUS
<1> SUFFICES ASSUME NEW n \in RowSeqs \ (A \cup B)
             PROVE  (\A m \in A \cup B : n < m) \/ (\A m \in A \cup B : m < n)
  BY DEF Whole
<1>2. c \in Nat /\ n \in Nat
  BY <1>1, RowsAreNat
<1>3. CASE n < c
  <2>1. (\A m \in A : n < m) /\ (\A m \in B : n < m)
    BY <1>1, <1>2, <1>3 DEF Whole
  <2> QED  BY <2>1
<1>4. CASE ~(n < c)
  <2>1. (\A m \in A : m < n) /\ (\A m \in B : m < n)
    BY <1>1, <1>2, <1>4 DEF Whole
  <2> QED  BY <2>1
<1> QED  BY <1>3, <1>4

\* What is left of a stretch that loses its oldest rows is a stretch.
LEMMA WholeAbove ==
    ASSUME NEW A, NEW B, A \subseteq RowSeqs, B \subseteq A, B # {}, Whole(A),
           \A x \in A \ B : \A y \in B : x < y
    PROVE  Whole(B)
<1> SUFFICES ASSUME NEW n \in RowSeqs \ B
             PROVE  (\A m \in B : n < m) \/ (\A m \in B : m < n)
  BY DEF Whole
<1>1. CASE n \in A
  BY <1>1
<1>2. CASE n \notin A
  BY <1>2 DEF Whole
<1> QED  BY <1>1, <1>2

LEMMA UnseenFacts ==
    ASSUME NEW held \in Seq(RowSeqs), NEW fresh \in Seq(RowSeqs)
    PROVE  /\ Unseen(held, fresh) \in Seq(RowSeqs)
           /\ RowSet(Unseen(held, fresh)) = RowSet(fresh) \ RowSet(held)
           /\ OneEach(fresh) => OneEach(Unseen(held, fresh))
<1>1. /\ Unseen(held, fresh) \in Seq(RowSeqs)
      /\ RowSet(Unseen(held, fresh)) = RowSet(fresh) \cap (RowSet(fresh) \ RowSet(held))
      /\ OneEach(fresh) => OneEach(Unseen(held, fresh))
  BY OnlyFacts DEF Unseen
<1> QED  BY <1>1

\* What a reply is folded into: its rows are there, the held ones stay if they
\* share one.
LEMMA SplicedFacts ==
    ASSUME NEW held \in Kept, NEW fresh \in Replies, NEW more \in BOOLEAN
    PROVE  /\ Spliced(held, fresh, more) \in Kept
           /\ Spliced(held, fresh, more).id = held.id
           /\ RowSet(Spliced(held, fresh, more).rows) =
                 IF Shares(held.rows, fresh.rows) THEN RowSet(held.rows) \cup RowSet(fresh.rows)
                 ELSE RowSet(fresh.rows)
<1> DEFINE a == held.rows
           b == fresh.rows
           c == Spliced(held, fresh, more)
<1>1. /\ held \in Sessions /\ OneEach(a) /\ (~held.torn => Whole(RowSet(a)))
      /\ fresh \in Sessions /\ ~fresh.torn /\ OneEach(b) /\ Whole(RowSet(b))
  BY RepliesAreKept DEF Kept, Replies
<1>2. /\ a \in Seq(RowSeqs) /\ b \in Seq(RowSeqs) /\ held.id \in Threads
      /\ RowSet(a) \subseteq RowSeqs /\ RowSet(b) \subseteq RowSeqs /\ held.torn \in BOOLEAN
  BY <1>1, SessionFields
<1> HIDE DEF a, b
<1>3. CASE Shares(a, b)
  <2> DEFINE d == a \o Unseen(a, b)
  <2>1. /\ d \in Seq(RowSeqs) /\ OneEach(d)
        /\ RowSet(d) = RowSet(a) \cup RowSet(b)
    BY <1>1, <1>2, UnseenFacts, ConcatRows
  <2>2. ~held.torn => Whole(RowSet(d))
    BY <1>1, <1>2, <1>3, <2>1, WholeUnion DEF Shares
  <2>3. c = Session(held.id, d, more, held.torn)
    BY <1>3 DEF Spliced, Reconcile, a, b
  <2> HIDE DEF c, d
  <2>4. c \in Kept /\ c.id = held.id /\ c.rows = d
    BY <1>2, <2>1, <2>2, <2>3, SessionIn DEF Session
  <2> QED  BY <1>3, <2>1, <2>4 DEF a, b, c
<1>4. CASE ~Shares(a, b)
  <2>1. c = Session(held.id, b, more, fresh.torn)
    BY <1>4 DEF Spliced, Reconcile, a, b
  <2>2. fresh.torn = FALSE
    BY <1>1, SessionFields
  <2> HIDE DEF c
  <2>3. c \in Kept /\ c.id = held.id /\ c.rows = b
    BY <1>1, <1>2, <2>1, <2>2, SessionIn DEF Session
  <2> QED  BY <1>4, <2>3 DEF a, b, c
<1> QED  BY <1>3, <1>4 DEF a, b

LEMMA LandedFacts ==
    ASSUME NEW mine \in Maybe(Kept), NEW fresh \in Replies
    PROVE  /\ Landed(mine, fresh) \in Kept
           /\ RowSet(Landed(mine, fresh).rows) =
                 IF mine.id = fresh.id /\ Shares(mine.rows, fresh.rows)
                 THEN RowSet(mine.rows) \cup RowSet(fresh.rows) ELSE RowSet(fresh.rows)
<1>1. CASE mine.id # fresh.id
  BY <1>1, RepliesAreKept DEF Landed
<1>2. CASE mine.id = fresh.id
  <2>1. fresh \in Sessions
    BY DEF Replies
  <2>2. mine \in Kept
    BY <1>2, <2>1, SessionFields, NoSessionRows, ThreadsAssumption DEF Maybe
  <2>3. mine \in Sessions
    BY <2>2 DEF Kept
  <2>4. (IF Shares(mine.rows, fresh.rows) THEN mine.more ELSE fresh.more) \in BOOLEAN
    BY <2>1, <2>3, SessionFields
  <2> QED  BY <1>2, <2>2, <2>4, SplicedFacts DEF Landed
<1> QED  BY <1>1, <1>2

LEMMA LastRowsKept ==
    ASSUME NEW s \in Kept, NEW n \in Nat \ {0}
    PROVE  LastRows(s, n) \in Kept
<1> DEFINE t == SubSeq(s.rows, Len(s.rows) - n + 1, Len(s.rows))
           torn == s.torn \/ ~OldestFirst(s.rows)
<1>1. s \in Sessions /\ OneEach(s.rows) /\ (~s.torn => Whole(RowSet(s.rows)))
  BY DEF Kept
<1>2. CASE Len(s.rows) <= n
  BY <1>2 DEF LastRows
<1>3. CASE ~(Len(s.rows) <= n)
  <2>1. /\ s.id \in Threads /\ s.rows \in Seq(RowSeqs) /\ s.more \in BOOLEAN /\ s.torn \in BOOLEAN
        /\ RowSet(s.rows) \subseteq RowSeqs
    BY <1>1, SessionFields
  <2>2. /\ t \in Seq(RowSeqs) /\ Len(t) = n /\ RowSet(t) \subseteq RowSet(s.rows) /\ OneEach(t)
        /\ OldestFirst(s.rows) => \A x \in RowSet(s.rows) \ RowSet(t) : \A y \in RowSet(t) : x < y
    <3> DEFINE r == s.rows
    <3>1. r \in Seq(RowSeqs) /\ ~(Len(r) <= n) /\ OneEach(r)
      BY <1>1, <1>3, <2>1
    <3> HIDE DEF r
    <3>2. LET u == SubSeq(r, Len(r) - n + 1, Len(r))
          IN /\ u \in Seq(RowSeqs) /\ Len(u) = n /\ RowSet(u) \subseteq RowSet(r) /\ OneEach(u)
             /\ OldestFirst(r) => \A x \in RowSet(r) \ RowSet(u) : \A y \in RowSet(u) : x < y
      BY <3>1, SuffixRows
    <3> QED  BY <3>2 DEF r
  <2> HIDE DEF t
  <2>3. RowSet(t) # {}
    <3>1. n \in DOMAIN t
      BY <2>2, LenProperties
    <3> QED  BY <3>1 DEF RowSet
  <2>4. ~torn => Whole(RowSet(t))
    BY <1>1, <2>1, <2>2, <2>3, WholeAbove
  <2>5. torn \in BOOLEAN
    OBVIOUS
  <2>6. LastRows(s, n) = Session(s.id, t, s.more, torn)
    BY <1>3 DEF LastRows, t
  <2> HIDE DEF torn
  <2>7. OneEach(t) /\ (~torn => Whole(RowSet(t))) => Session(s.id, t, s.more, torn) \in Kept
    BY <2>1, <2>2, <2>5, SessionIn
  <2> QED  BY <2>2, <2>4, <2>6, <2>7
<1> QED  BY <1>2, <1>3

LEMMA NewestIn ==
    ASSUME NEW s \in Maybe(Kept)
    PROVE  Cursor(s.rows) \in 0 .. MaxSeq
<1>0. MaxSeq \in Nat
  BY SizesAssumption
<1>1. CASE s = NoSession
  BY <1>0, <1>1, NoSessionRows DEF Cursor, Newest
<1>2. CASE s \in Kept /\ s.rows # <<>>
  <2>1. s.rows \in Seq(RowSeqs) /\ Len(s.rows) \in 1 .. Len(s.rows)
    BY <1>2, SessionFields, EmptySeq DEF Kept
  <2>2. s.rows[Len(s.rows)] \in RowSeqs
    BY <2>1, ElementOfSeq
  <2>3. Newest(s.rows) \in 1 .. MaxSeq
    BY <1>2, <2>2, RowsAreNat DEF Newest
  <2>4. Newest(s.rows) \in 0 .. MaxSeq
    BY <1>0, <2>3
  <2> QED  BY <1>0, <2>4 DEF Cursor
<1>3. CASE s.rows = <<>>
  BY <1>0, <1>3 DEF Cursor, Newest
<1> QED  BY <1>1, <1>2, <1>3 DEF Maybe

\* A reply is a stretch of the journal, up to its end at the moment of the answer.
LEMMA ReplyIn ==
    ASSUME NEW t \in Threads, journal[t] \in Nat, NEW lo \in Nat \ {0}, NEW more \in BOOLEAN
    PROVE  /\ Reply(t, lo, more) \in Replies
           /\ Reply(t, lo, more).id = t
           /\ RowSet(Reply(t, lo, more).rows) = RowSeqs \cap lo .. journal[t]
<1> DEFINE rows == RowsIn(lo, journal[t])
<1>1. /\ rows \in Seq(RowSeqs) /\ OldestFirst(rows)
      /\ RowSet(rows) = RowSeqs \cap lo .. journal[t]
  BY RowsInFacts
<1> HIDE DEF rows
<1>2. Whole(RowSet(rows))
  <2> SUFFICES ASSUME NEW n \in RowSeqs \ RowSet(rows)
               PROVE  (\A m \in RowSet(rows) : n < m) \/ (\A m \in RowSet(rows) : m < n)
    BY DEF Whole
  <2>1. n \in Nat /\ (n < lo \/ journal[t] < n)
    BY <1>1, RowsAreNat
  <2>2. \A m \in RowSet(rows) : m \in Nat /\ lo <= m /\ m <= journal[t]
    BY <1>1, RowsAreNat
  <2> QED  BY <2>1, <2>2
<1>3. Session(t, rows, more, FALSE) \in Replies
  BY <1>1, <1>2, SessionIn
<1>4. Reply(t, lo, more) = Session(t, rows, more, FALSE)
  BY DEF Reply, rows
<1> QED  BY <1>1, <1>3, <1>4 DEF Session

LEMMA AnswersIn ==
    ASSUME NEW t \in Threads, journal[t] \in Nat, NEW since, NEW r \in Answers(t, since)
    PROVE  /\ r \in Replies /\ r.id = t
           /\ \E lo \in Nat \ {0} : RowSet(r.rows) = RowSeqs \cap lo .. journal[t]
<1>1. \A k \in Seqs : PageStart(t, k) \in Nat \ {0}
  <2>1. TAKE k \in Seqs
  <2> DEFINE w == k * Window
  <2>2. w \in Nat
    BY SizesAssumption DEF Seqs
  <2> HIDE DEF w
  <2>3. (IF journal[t] > w THEN journal[t] - w + 1 ELSE 1) \in Nat \ {0}
    BY <2>2
  <2> QED  BY <2>3 DEF PageStart, w
<1>2. \E lo \in Nat \ {0}, more \in BOOLEAN : r = Reply(t, lo, more)
  <2>1. CASE Resumes /\ since # 0
    <3>1. r \in ResumeReplies(t, since)
      BY <2>1 DEF Answers
    <3>2. PICK k \in Seqs : \E more \in BOOLEAN : r = Reply(t, PageStart(t, k), more)
      BY <3>1 DEF ResumeReplies
    <3> QED  BY <1>1, <3>2
  <2>2. CASE ~(Resumes /\ since # 0)
    <3>1. r = Reply(t, PageStart(t, 1), journal[t] > Window)
      BY <2>2 DEF Answers, FullReply
    <3>2. PageStart(t, 1) \in Nat \ {0}
      <4>1. 1 * Window = Window /\ Window \in Nat
        BY SizesAssumption
      <4>2. (IF journal[t] > Window THEN journal[t] - Window + 1 ELSE 1) \in Nat \ {0}
        BY <4>1
      <4> QED  BY <4>1, <4>2 DEF PageStart
    <3>3. (journal[t] > Window) \in BOOLEAN
      OBVIOUS
    <3> QED  BY <3>1, <3>2, <3>3
  <2> QED  BY <2>1, <2>2
<1>3. PICK lo \in Nat \ {0}, more \in BOOLEAN : r = Reply(t, lo, more)
  BY <1>2
<1> QED  BY <1>3, ReplyIn

LEMMA WholeReplyIn ==
    ASSUME NEW t \in Threads, journal[t] \in Nat
    PROVE  /\ WholeReply(t) \in Replies /\ WholeReply(t).id = t
           /\ RowSet(WholeReply(t).rows) = RowSeqs \cap 1 .. journal[t]
<1>1. WholeReply(t) = Reply(t, 1, FALSE) /\ 1 \in Nat \ {0}
  BY DEF WholeReply
<1> QED  BY <1>1, ReplyIn

(***************************************************************************)
(* The types, with the shape of every transcript that is kept or answered. *)
(***************************************************************************)
\* A load or a read that is under way is for some thread.
AllLoads == [to : Threads \cup {NoThread}, since : 0 .. MaxSeq,
             at : {"none", "sent", "answered", "failed"}, reply : Maybe(Replies)]
TypedLoads == {l \in AllLoads : /\ l.at # "none" => l.to \in Threads
                                /\ l.at = "answered" => l.reply \in Replies}

Copy == [copy : Maybe(Kept), rank : 0 .. CacheThreads]
AllReads == [to : Threads \cup {NoThread}, epoch : 0 .. MaxClears,
             done : BOOLEAN, copy : Maybe(Kept)]
TypedRead == {r \in AllReads : r.done => r.to \in Threads}
TypedSub == [on : BOOLEAN, dirty : BOOLEAN, load : TypedLoads]

Typed ==
    /\ journal \in [Threads -> 0 .. MaxSeq]
    /\ selected \in [Panes -> Ids]
    /\ open \in [Panes -> Maybe(Kept)]
    /\ state \in [Panes -> States]
    /\ waits \in [Panes -> BOOLEAN]
    /\ fetch \in [Panes -> TypedLoads] /\ older \in [Panes -> TypedLoads]
    /\ reading \in [Panes -> TypedRead]
    /\ cache \in [Threads -> Copy]
    /\ disk \in [Threads -> Maybe(Kept)]
    /\ epoch \in 0 .. MaxClears /\ kept \subseteq Threads
    /\ live \in [Threads -> TypedSub]

LEMMA TypedGives == Typed => TypeOK /\ NoHole
<1> SUFFICES ASSUME Typed PROVE TypeOK /\ NoHole  OBVIOUS
<1>1. Maybe(Kept) \subseteq Sessions \cup {NoSession} /\ Maybe(Replies) \subseteq Sessions \cup {NoSession}
  BY DEF Maybe, Kept, Replies
<1>2. TypedLoads \subseteq Loads
  BY <1>1 DEF TypedLoads, AllLoads, Loads
<1>3. TypeOK
  <2>1. open \in [Panes -> Sessions \cup {NoSession}] /\ disk \in [Threads -> Sessions \cup {NoSession}]
    BY <1>1 DEF Typed
  <2>2. fetch \in [Panes -> Loads] /\ older \in [Panes -> Loads]
    BY <1>2 DEF Typed
  <2>3. reading \in [Panes -> [to : Threads \cup {NoThread}, epoch : 0 .. MaxClears,
                               done : BOOLEAN, copy : Sessions \cup {NoSession}]]
    BY <1>1 DEF Typed, TypedRead, AllReads
  <2>4. cache \in [Threads -> [copy : Sessions \cup {NoSession}, rank : 0 .. CacheThreads]]
    BY <1>1 DEF Typed, Copy
  <2>5. live \in [Threads -> [on : BOOLEAN, dirty : BOOLEAN, load : Loads]]
    BY <1>2 DEF Typed, TypedSub
  <2> QED  BY <2>1, <2>2, <2>3, <2>4, <2>5 DEF Typed, TypeOK, Ids, States
<1>4. NoHole
  <2> SUFFICES ASSUME NEW t \in Threads, NEW s \in Copies(t)
               PROVE  OneEach(s.rows) /\ (~s.torn => Whole(RowSet(s.rows)))
    BY DEF NoHole, OneEach, Whole
  <2>1. s \in Maybe(Kept)
    <3>1. cache[t].copy \in Maybe(Kept) /\ disk[t] \in Maybe(Kept)
      BY DEF Typed, Copy
    <3>2. \A p \in Panes : open[p] \in Maybe(Kept)
      BY DEF Typed
    <3> QED  BY <3>1, <3>2 DEF Copies
  <2>2. CASE s = NoSession
    BY <2>2, NoSessionRows DEF OneEach, Whole
  <2>3. CASE s \in Kept
    BY <2>3 DEF Kept
  <2> QED  BY <2>1, <2>2, <2>3 DEF Maybe
<1> QED  BY <1>3, <1>4

LEMMA Emptys ==
    /\ NoSession \in Maybe(Kept) /\ NoSession \in Maybe(Replies)
    /\ NoLoad \in TypedLoads /\ NoSub \in TypedSub
    /\ MaxClears \in Nat /\ MaxSeq \in Nat /\ CacheThreads \in Nat \ {0}
    /\ CacheRows \in Nat \ {0} /\ KeepTail \in Nat \ {0}
    /\ NoRead \in TypedRead /\ Absent \in Copy
<1>1. /\ MaxClears \in Nat /\ MaxSeq \in Nat /\ CacheThreads \in Nat \ {0}
      /\ CacheRows \in Nat \ {0} /\ KeepTail \in Nat \ {0}
  BY SizesAssumption
<1>2. NoSession \in Maybe(Kept) /\ NoSession \in Maybe(Replies)
  BY DEF Maybe
<1>3. NoLoad \in TypedLoads
  BY <1>1, <1>2 DEF NoLoad, LoadAt, TypedLoads, AllLoads
<1>4. NoSub \in TypedSub
  BY <1>3 DEF NoSub, Sub, TypedSub
<1>5. NoRead \in TypedRead
  BY <1>1, <1>2 DEF NoRead, Read, TypedRead, AllReads
<1>6. Absent \in Copy
  BY <1>1, <1>2 DEF Absent, Copy
<1> QED  BY <1>1, <1>2, <1>3, <1>4, <1>5, <1>6

LEMMA LoadTyped ==
    ASSUME NEW t \in Threads, NEW since \in 0 .. MaxSeq
    PROVE  Load(t, since) \in TypedLoads
BY Emptys DEF Load, LoadAt, TypedLoads, AllLoads

LEMMA OutcomeTyped ==
    ASSUME NEW l \in TypedLoads, NEW replies, replies \subseteq Replies, l.at = "sent", NEW o \in Outcomes(l, replies)
    PROVE  o \in TypedLoads
BY Emptys DEF Outcomes, LoadAt, TypedLoads, AllLoads, Maybe

LEMMA TouchTyped ==
    ASSUME cache \in [Threads -> Copy], NEW t \in Threads, Held(t)
    PROVE  Touch(cache, t) \in [Threads -> Copy]
<1> SUFFICES ASSUME NEW u \in Threads
             PROVE  [copy |-> cache[u].copy, rank |-> Moved(cache, t, u)] \in Copy
  BY DEF Touch
<1>1. /\ cache[u].copy \in Maybe(Kept) /\ cache[u].rank \in 0 .. CacheThreads
      /\ cache[t].rank \in 1 .. CacheThreads
  BY Emptys DEF Held, Copy
<1>2. Moved(cache, t, u) \in 0 .. CacheThreads
  BY <1>1, Emptys DEF Moved
<1> QED  BY <1>1, <1>2 DEF Copy

LEMMA PutTyped ==
    ASSUME cache \in [Threads -> Copy], NEW s \in Kept
    PROVE  Put(cache, s) \in [Threads -> Copy]
<1> SUFFICES ASSUME NEW u \in Threads
             PROVE  (IF u = s.id THEN [copy |-> Cut(s), rank |-> 1]
                     ELSE IF Moved(cache, s.id, u) > CacheThreads THEN Absent
                     ELSE [copy |-> cache[u].copy, rank |-> Moved(cache, s.id, u)]) \in Copy
  BY DEF Put
<1>1. [copy |-> Cut(s), rank |-> 1] \in Copy
  BY Emptys, LastRowsKept DEF Cut, Copy, Maybe
<1>2. cache[u].copy \in Maybe(Kept) /\ cache[u].rank \in Nat
  BY Emptys DEF Copy
<1>3. Moved(cache, s.id, u) \in Nat
  BY <1>2 DEF Moved
<1> HIDE DEF Copy
<1>4. ASSUME ~(Moved(cache, s.id, u) > CacheThreads)
      PROVE  [copy |-> cache[u].copy, rank |-> Moved(cache, s.id, u)] \in Copy
  <2>1. Moved(cache, s.id, u) \in 0 .. CacheThreads
    BY <1>3, <1>4, Emptys
  <2> QED  BY <1>2, <2>1 DEF Copy
<1> QED  BY <1>1, <1>4, Emptys

LEMMA KeepTyped ==
    ASSUME cache \in [Threads -> Copy], disk \in [Threads -> Maybe(Kept)], NEW s \in Kept, Keep(s)
    PROVE  cache' \in [Threads -> Copy] /\ disk' \in [Threads -> Maybe(Kept)]
<1>1. disk' = disk \/ disk' = [disk EXCEPT ![s.id] = s]
  BY DEF Keep, Save
<1>2. disk' \in [Threads -> Maybe(Kept)]
  BY <1>1 DEF Maybe
<1> QED  BY <1>2, PutTyped DEF Keep

LEMMA InitTyped == Init => Typed
<1> SUFFICES ASSUME Init PROVE Typed  OBVIOUS
<1>1. InitSeq \in 0 .. MaxSeq
  BY SizesAssumption
<1> QED  BY <1>1, Emptys DEF Init, Typed, Ids, States

LEMMA OpensTyped ==
    ASSUME Inv, Typed, NEW p \in Panes, NEW t \in Threads, Opens(p, t) PROVE Typed'
<1> USE DEF Opens, Selects
<1>1. /\ UNCHANGED <<journal, disk, epoch, live>> /\ kept' \subseteq Threads
      /\ selected' \in [Panes -> Ids] /\ older' \in [Panes -> TypedLoads]
  BY Emptys DEF Typed, Ids
<1>2. CASE Hits(p, t)
  <2>1. cache' \in [Threads -> Copy]
    BY <1>2, TouchTyped DEF Hits, Typed
  <2>2. /\ open' \in [Panes -> Maybe(Kept)] /\ state' \in [Panes -> States]
        /\ waits' \in [Panes -> BOOLEAN]
    BY <1>2 DEF Hits, Typed, States, Copy
  <2>3. fetch' \in [Panes -> TypedLoads] /\ reading' \in [Panes -> TypedRead]
    BY <1>2, Emptys DEF Hits, Typed
  <2> QED  BY <1>1, <2>1, <2>2, <2>3 DEF Typed
<1>3. CASE Misses(p, t)
  <2>1. UNCHANGED <<open, cache>> /\ state' \in [Panes -> States]
    BY <1>3 DEF Misses, Typed, States
  <2>2. waits' \in [Panes -> BOOLEAN]
    <3>1. (DiskOn /\ disk[t] # NoSession) \in BOOLEAN
      OBVIOUS
    <3> QED  BY <1>3, <3>1, Zenon DEF Misses, Typed
  <2>3. fetch' \in [Panes -> TypedLoads]
    <3>1. Load(t, 0) \in TypedLoads
      BY LoadTyped, Emptys
    <3> QED  BY <1>3, <3>1, Emptys DEF Misses, Typed
  <2>4. reading' \in [Panes -> TypedRead]
    <3>1. Read(t, epoch, FALSE, NoSession) \in TypedRead
      BY Emptys DEF Read, TypedRead, AllReads, Typed
    <3> QED  BY <1>3, <3>1, Emptys DEF Misses, Typed
  <2> QED  BY <1>1, <2>1, <2>2, <2>3, <2>4 DEF Typed
<1> QED  BY <1>2, <1>3

LEMMA ReaderTyped ==
    ASSUME Typed,
           \/ \E p \in Panes : ShowsSettings(p) \/ ClosesLast(p) \/ AsksOlder(p)
           \/ \E t \in Threads : ClosesHidden(t)
           \/ ClearsCache
    PROVE  Typed'
<1>1. ASSUME NEW p \in Panes, ShowsSettings(p) \/ ClosesLast(p) PROVE Typed'
  <2>1. /\ UNCHANGED <<journal, cache, disk, epoch, live>> /\ kept' \subseteq kept
        /\ \E to \in {Surface, NoThread} : selected' = [selected EXCEPT ![p] = to]
        /\ older' = [older EXCEPT ![p] = NoLoad] /\ Drops(p)
        /\ state' = state \/ state' = [state EXCEPT ![p] = "idle"]
    BY <1>1 DEF ShowsSettings, ClosesLast, Selects, copies
  <2>2. selected' \in [Panes -> Ids] /\ state' \in [Panes -> States] /\ kept' \subseteq Threads
    BY <2>1 DEF Typed, Ids, States
  <2>3. /\ open' \in [Panes -> Maybe(Kept)] /\ waits' \in [Panes -> BOOLEAN]
        /\ fetch' \in [Panes -> TypedLoads] /\ older' \in [Panes -> TypedLoads]
        /\ reading' \in [Panes -> TypedRead]
    BY <2>1, Emptys DEF Drops, Typed
  <2> QED  BY <2>1, <2>2, <2>3 DEF Typed
<1>2. ASSUME NEW p \in Panes, AsksOlder(p) PROVE Typed'
  <2>1. Load(selected[p], 0) \in TypedLoads
    BY <1>2, LoadTyped, Emptys DEF AsksOlder
  <2>2. older' \in [Panes -> TypedLoads]
    BY <1>2, <2>1 DEF AsksOlder, Typed
  <2> QED  BY <1>2, <2>2 DEF AsksOlder, Typed, copies
<1>3. ASSUME NEW t \in Threads, ClosesHidden(t) PROVE Typed'
  BY <1>3 DEF ClosesHidden, Typed, pane, copies
<1>4. CASE ClearsCache
  <2>1. epoch' \in 0 .. MaxClears
    BY <1>4, Emptys DEF ClearsCache, Typed
  <2>2. /\ cache' \in [Threads -> Copy] /\ disk' \in [Threads -> Maybe(Kept)]
        /\ reading' \in [Panes -> TypedRead]
    BY <1>4, Emptys DEF ClearsCache
  <2> QED  BY <1>4, <2>1, <2>2 DEF ClearsCache, Typed
<1> QED  BY <1>1, <1>2, <1>3, <1>4

LEMMA DiskTyped ==
    ASSUME Inv, Typed, NEW p \in Panes, DiskAnswers(p) \/ DiskLands(p) PROVE Typed'
<1>0. reading[p] \in TypedRead
  BY DEF Typed
<1>1. CASE DiskAnswers(p)
  <2>1. reading[p].to \in Threads
    BY <1>0, <1>1 DEF DiskAnswers, Reading, TypedRead, AllReads
  <2>2. Read(reading[p].to, reading[p].epoch, TRUE, disk[reading[p].to]) \in TypedRead
    BY <1>0, <2>1 DEF Read, TypedRead, AllReads, Typed
  <2>3. reading' \in [Panes -> TypedRead]
    BY <1>1, <2>2 DEF DiskAnswers, Typed
  <2> QED  BY <1>1, <2>3 DEF DiskAnswers, Typed, copies
<1>2. CASE DiskLands(p)
  <2> DEFINE since == IF AcceptsDisk(p) THEN Cursor(reading[p].copy.rows) ELSE 0
  <2>1. reading[p].to \in Threads /\ reading[p].copy \in Maybe(Kept)
    BY <1>0, <1>2 DEF DiskLands, TypedRead, AllReads
  <2>2. since \in 0 .. MaxSeq
    BY <2>1, Emptys, NewestIn
  <2> HIDE DEF since
  <2>3. Load(reading[p].to, since) \in TypedLoads
    BY <2>1, <2>2, LoadTyped
  <2>4. fetch' \in [Panes -> TypedLoads]
    BY <1>2, <2>3 DEF DiskLands, Typed, since
  <2>5. reading' \in [Panes -> TypedRead]
    BY <1>2, Emptys DEF DiskLands, Typed
  <2>6. waits' \in [Panes -> BOOLEAN]
    <3>1. (waits[p] /\ ~Starts(p)) \in BOOLEAN
      OBVIOUS
    <3> QED  BY <1>2, <3>1, Zenon DEF DiskLands, Typed
  <2>7. /\ cache' \in [Threads -> Copy] /\ open' \in [Panes -> Maybe(Kept)]
        /\ state' \in [Panes -> States]
    <3>1. CASE AcceptsDisk(p)
      <4>1. reading[p].copy \in Kept
        BY <2>1, <3>1 DEF AcceptsDisk, Maybe
      <4>2. cache' \in [Threads -> Copy]
        BY <1>2, <3>1, <4>1, PutTyped DEF DiskLands, Typed
      <4> QED  BY <1>2, <2>1, <3>1, <4>2 DEF DiskLands, Typed, States
    <3>2. CASE ~AcceptsDisk(p)
      BY <1>2, <3>2 DEF DiskLands, Typed
    <3> QED  BY <3>1, <3>2
  <2> QED  BY <1>2, <2>4, <2>5, <2>6, <2>7 DEF DiskLands, Typed
<1> QED  BY <1>1, <1>2

LEMMA FetchTyped ==
    ASSUME Inv, Typed, NEW p \in Panes, FetchAnswered(p) \/ FetchLands(p) \/ FetchFails(p)
    PROVE  Typed'
<1>0. /\ fetch[p] \in TypedLoads /\ open[p] \in Maybe(Kept)
      /\ journal \in [Threads -> Nat] /\ LoadIsFor(fetch[p], selected[p])
  BY Emptys DEF Typed, Inv, LoadsInv
<1>1. CASE FetchAnswered(p)
  <2>1. fetch[p].at = "sent" /\ fetch[p].to \in Threads
    BY <1>0, <1>1 DEF FetchAnswered, TypedLoads
  <2>2. Answers(fetch[p].to, fetch[p].since) \subseteq Replies
    BY <1>0, <2>1, AnswersIn
  <2>3. \A l \in Outcomes(fetch[p], Answers(fetch[p].to, fetch[p].since)) : l \in TypedLoads
    BY <1>0, <2>1, <2>2, OutcomeTyped
  <2>4. fetch' \in [Panes -> TypedLoads]
    BY <1>1, <2>3 DEF FetchAnswered, Typed
  <2> QED  BY <1>1, <2>4 DEF FetchAnswered, Typed, copies
<1>2. CASE FetchLands(p)
  <2> DEFINE shown == Landed(open[p], fetch[p].reply)
  <2>1. fetch[p].reply \in Replies /\ fetch[p].reply \in Kept /\ fetch[p].to = selected[p]
    BY <1>0, <1>2, RepliesAreKept DEF FetchLands, TypedLoads, LoadIsFor
  <2>2. shown \in Kept
    BY <1>0, <2>1, LandedFacts
  <2> HIDE DEF shown
  <2>3. Keep(fetch[p].reply) \/ Keep(shown)
    BY <1>2, <2>1 DEF FetchLands, shown
  <2>4. cache' \in [Threads -> Copy] /\ disk' \in [Threads -> Maybe(Kept)]
    BY <2>1, <2>2, <2>3, KeepTyped DEF Typed
  <2>5. open' = [open EXCEPT ![p] = shown] /\ state' = [state EXCEPT ![p] = "loaded"]
    BY <1>2, <2>1 DEF FetchLands, shown
  <2>6. open' \in [Panes -> Maybe(Kept)] /\ state' \in [Panes -> States]
    BY <2>2, <2>5 DEF Typed, Maybe, States
  <2>7. fetch' \in [Panes -> TypedLoads]
    BY <1>2, Emptys DEF FetchLands, Typed
  <2> QED  BY <1>2, <2>4, <2>6, <2>7 DEF FetchLands, Typed
<1>3. CASE FetchFails(p)
  <2>1. open' \in [Panes -> Maybe(Kept)] /\ state' \in [Panes -> States]
    BY <1>3, Emptys DEF FetchFails, FailedState, Typed, States
  <2>2. fetch' \in [Panes -> TypedLoads]
    BY <1>3, Emptys DEF FetchFails, Typed
  <2> QED  BY <1>3, <2>1, <2>2 DEF FetchFails, Typed, copies
<1> QED  BY <1>1, <1>2, <1>3

LEMMA OlderTyped ==
    ASSUME Inv, Typed, NEW p \in Panes, OlderAnswered(p) \/ OlderLands(p) \/ OlderFails(p)
    PROVE  Typed'
<1>0. /\ older[p] \in TypedLoads /\ journal \in [Threads -> Nat]
      /\ LoadIsFor(older[p], selected[p])
  BY Emptys DEF Typed, Inv, LoadsInv
<1>1. CASE OlderAnswered(p)
  <2>1. older[p].at = "sent" /\ older[p].to \in Threads
    BY <1>0, <1>1 DEF OlderAnswered, TypedLoads
  <2>2. {WholeReply(older[p].to)} \subseteq Replies
    BY <1>0, <2>1, WholeReplyIn
  <2>3. \A l \in Outcomes(older[p], {WholeReply(older[p].to)}) : l \in TypedLoads
    BY <1>0, <2>1, <2>2, OutcomeTyped
  <2>4. older' \in [Panes -> TypedLoads]
    BY <1>1, <2>3 DEF OlderAnswered, Typed
  <2> QED  BY <1>1, <2>4 DEF OlderAnswered, Typed, copies
<1>2. CASE OlderLands(p)
  <2>1. older[p].reply \in Replies /\ older[p].reply \in Kept /\ older[p].to = selected[p]
    BY <1>0, <1>2, RepliesAreKept DEF OlderLands, TypedLoads, LoadIsFor
  <2>2. /\ Keep(older[p].reply)
        /\ open' = [open EXCEPT ![p] = older[p].reply] /\ state' = [state EXCEPT ![p] = "loaded"]
    BY <1>2, <2>1 DEF OlderLands
  <2>3. cache' \in [Threads -> Copy] /\ disk' \in [Threads -> Maybe(Kept)]
    BY <2>1, <2>2, KeepTyped DEF Typed
  <2>4. open' \in [Panes -> Maybe(Kept)] /\ state' \in [Panes -> States]
    BY <2>1, <2>2 DEF Typed, Maybe, States
  <2>5. older' \in [Panes -> TypedLoads]
    BY <1>2, Emptys DEF OlderLands, Typed
  <2> QED  BY <1>2, <2>3, <2>4, <2>5 DEF OlderLands, Typed
<1>3. CASE OlderFails(p)
  <2>1. older' \in [Panes -> TypedLoads]
    BY <1>3, Emptys DEF OlderFails, Typed
  <2> QED  BY <1>3, <2>1 DEF OlderFails, Typed, copies
<1> QED  BY <1>1, <1>2, <1>3

LEMMA SubTyped ==
    ASSUME NEW on \in BOOLEAN, NEW dirty \in BOOLEAN, NEW load \in TypedLoads
    PROVE  Sub(on, dirty, load) \in TypedSub
BY DEF Sub, TypedSub

\* A live refetch that lands: what the pane or the copies get.
LEMMA LiveKeeps ==
    ASSUME Inv, Typed, NEW t \in Threads, live[t].load.at = "answered"
    PROVE  /\ live[t].load.reply \in Replies /\ live[t].load.reply \in Kept
           /\ \A p \in Panes : Landed(open[p], live[t].load.reply) \in Kept
           /\ Held(t) => Fold(cache[t].copy, live[t].load.reply) \in Kept
<1> DEFINE r == live[t].load.reply
<1>1. r \in Replies /\ r \in Kept
  BY RepliesAreKept DEF Typed, TypedSub, TypedLoads
<1> HIDE DEF r
<1>2. \A p \in Panes : Landed(open[p], r) \in Kept
  BY <1>1, LandedFacts DEF Typed
<1>3. ASSUME Held(t) PROVE Fold(cache[t].copy, r) \in Kept
  <2>1. cache[t].copy \in Maybe(Kept) /\ cache[t].copy.id = t
    BY <1>3 DEF Typed, Copy, Inv, CopiesInv, Held
  <2>2. cache[t].copy \in Kept
    BY <2>1, NoSessionRows, ThreadsAssumption DEF Maybe
  <2>3. cache[t].copy.more \in BOOLEAN
    BY <2>2, SessionFields DEF Kept
  <2> QED  BY <1>1, <2>2, <2>3, SplicedFacts DEF Fold
<1> QED  BY <1>1, <1>2, <1>3 DEF r

LEMMA LiveTyped ==
    ASSUME Inv, Typed, NEW t \in Threads, Following(t) PROVE Typed'
<1>0. /\ live[t] \in TypedSub /\ live[t].on \in BOOLEAN /\ live[t].dirty \in BOOLEAN
      /\ live[t].load \in TypedLoads /\ live \in [Threads -> TypedSub]
      /\ journal \in [Threads -> Nat]
  BY Emptys DEF Typed, TypedSub
<1>1. CASE LiveStarts(t)
  <2>1. LiveSince(t) \in 0 .. MaxSeq
    <3> DEFINE showing == {p \in Panes : Showing(p, t) /\ open[p].id = t}
               shown == IF showing = {} THEN 0 ELSE Cursor(open[CHOOSE p \in showing : TRUE].rows)
    <3>1. shown \in 0 .. MaxSeq
      <4>1. CASE showing = {}
        BY <4>1, Emptys
      <4>2. CASE showing # {}
        <5>1. (CHOOSE p \in showing : TRUE) \in Panes
          BY <4>2
        <5>2. open[CHOOSE p \in showing : TRUE] \in Maybe(Kept)
          BY <5>1 DEF Typed
        <5> QED  BY <4>2, <5>2, NewestIn
      <4> QED  BY <4>1, <4>2
    <3> HIDE DEF shown
    <3>2. cache[t].copy \in Maybe(Kept)
      BY DEF Typed, Copy
    <3>3. Cursor(cache[t].copy.rows) \in 0 .. MaxSeq
      BY <3>2, NewestIn
    <3>4. LiveSince(t) = IF shown = 0 /\ Held(t) THEN Cursor(cache[t].copy.rows) ELSE shown
      BY DEF LiveSince, shown
    <3> QED  BY <3>1, <3>3, <3>4
  <2>2. Sub(live[t].on, FALSE, Load(t, LiveSince(t))) \in TypedSub
    BY <1>0, <2>1, LoadTyped, SubTyped
  <2>3. live' \in [Threads -> TypedSub]
    BY <1>0, <1>1, <2>2 DEF LiveStarts
  <2> QED  BY <1>1, <2>3 DEF LiveStarts, Typed, pane, copies
<1>2. CASE LiveAnswered(t)
  <2>1. Answers(t, live[t].load.since) \subseteq Replies
    BY <1>0, AnswersIn
  <2>2. \A l \in Outcomes(live[t].load, Answers(t, live[t].load.since)) :
           Sub(live[t].on, live[t].dirty, l) \in TypedSub
    BY <1>0, <1>2, <2>1, OutcomeTyped, SubTyped DEF LiveAnswered
  <2>3. live' \in [Threads -> TypedSub]
    BY <1>0, <1>2, <2>2 DEF LiveAnswered
  <2> QED  BY <1>2, <2>3 DEF LiveAnswered, Typed, pane, copies
<1>3. Lands(live[t]) \in TypedSub
  BY <1>0, SubTyped, Emptys DEF Lands
<1>4. CASE LiveFails(t)
  <2>1. live' \in [Threads -> TypedSub]
    BY <1>0, <1>3, <1>4 DEF LiveFails
  <2> QED  BY <1>4, <2>1 DEF LiveFails, Typed, pane, copies
<1>5. CASE LiveLandsHidden(t)
  <2> DEFINE s == IF Held(t) THEN Fold(cache[t].copy, live[t].load.reply) ELSE live[t].load.reply
  <2>1. s \in Kept /\ Keep(s)
    BY <1>5, LiveKeeps DEF LiveLandsHidden
  <2> HIDE DEF s
  <2>2. cache' \in [Threads -> Copy] /\ disk' \in [Threads -> Maybe(Kept)]
    BY <2>1, KeepTyped DEF Typed
  <2>3. live' \in [Threads -> TypedSub]
    BY <1>0, <1>3, <1>5 DEF LiveLandsHidden
  <2> QED  BY <1>5, <2>2, <2>3 DEF LiveLandsHidden, Typed, pane
<1>6. CASE \E p \in Panes : LiveLandsShown(t, p)
  <2> PICK p \in Panes : LiveLandsShown(t, p)  BY <1>6
  <2> DEFINE shown == Landed(open[p], live[t].load.reply)
  <2>1. shown \in Kept
    BY LiveKeeps DEF LiveLandsShown
  <2> HIDE DEF shown
  <2>2. /\ Keep(shown)
        /\ open' = [open EXCEPT ![p] = shown] /\ state' = [state EXCEPT ![p] = "loaded"]
    BY DEF LiveLandsShown, shown
  <2>3. cache' \in [Threads -> Copy] /\ disk' \in [Threads -> Maybe(Kept)]
    BY <2>1, <2>2, KeepTyped DEF Typed
  <2>4. open' \in [Panes -> Maybe(Kept)] /\ state' \in [Panes -> States]
    BY <2>1, <2>2 DEF Typed, Maybe, States
  <2>5. live' \in [Threads -> TypedSub]
    BY <1>0, <1>3 DEF LiveLandsShown
  <2> QED  BY <2>3, <2>4, <2>5 DEF LiveLandsShown, Typed
<1> QED  BY <1>1, <1>2, <1>4, <1>5, <1>6 DEF Following

LEMMA ServerTyped ==
    ASSUME Typed, Syncs \/ \E t \in Threads : Appends(t) \/ Trims(t)
    PROVE  Typed'
<1>1. CASE Syncs
  <2>1. Sub(TRUE, FALSE, NoLoad) \in TypedSub
    BY SubTyped, Emptys
  <2>2. live' \in [Threads -> TypedSub]
    BY <1>1, <2>1, Emptys DEF Syncs, Typed
  <2> QED  BY <1>1, <2>2 DEF Syncs, Typed, pane, copies
<1>2. ASSUME NEW t \in Threads, Appends(t) PROVE Typed'
  <2>1. journal' \in [Threads -> 0 .. MaxSeq]
    BY <1>2, Emptys DEF Appends, Typed
  <2>2. live[t].on \in BOOLEAN /\ live[t].dirty \in BOOLEAN /\ live[t].load \in TypedLoads
    BY DEF Typed, TypedSub
  <2>3. Sub(live[t].on, live[t].dirty \/ live[t].on, live[t].load) \in TypedSub
    BY <2>2, SubTyped
  <2>4. live' \in [Threads -> TypedSub]
    BY <1>2, <2>3 DEF Appends, Typed
  <2> QED  BY <1>2, <2>1, <2>4 DEF Appends, Typed, pane, copies
<1>3. ASSUME NEW t \in Threads, Trims(t) PROVE Typed'
  <2>1. disk[t] \in Kept
    BY <1>3 DEF Trims, Typed, Maybe
  <2>2. LastRows(disk[t], KeepTail) \in Maybe(Kept)
    BY <2>1, LastRowsKept, Emptys DEF Maybe
  <2>3. disk' \in [Threads -> Maybe(Kept)]
    BY <1>3, <2>2, Emptys DEF Trims, Typed
  <2> QED  BY <1>3, <2>3 DEF Trims, Typed, pane
<1> QED  BY <1>1, <1>2, <1>3

LEMMA NextTyped == ASSUME Inv, Typed, [Next]_vars PROVE Typed'
<1>1. CASE Reader
  BY <1>1, OpensTyped, ReaderTyped DEF Reader
<1>2. CASE \E p \in Panes : Loading(p)
  BY <1>2, DiskTyped, FetchTyped, OlderTyped DEF Loading
<1>3. CASE \E t \in Threads : Following(t)
  BY <1>3, LiveTyped
<1>4. CASE Syncs \/ \E t \in Threads : Appends(t) \/ Trims(t)
  BY <1>4, ServerTyped
<1>5. CASE UNCHANGED vars
  BY <1>5 DEF vars, pane, copies, Typed
<1> QED  BY <1>1, <1>2, <1>3, <1>4, <1>5 DEF Next

THEOREM TypedInvariance == Spec => []Typed
<1>1. Init => Typed  BY InitTyped
<1>2. Inv /\ Typed /\ [Next]_vars => Typed'  BY NextTyped
<1> QED  BY <1>1, <1>2, Invariance, PTL DEF Spec

\* Every variable has its type: the ranks of the cached copies stay within the
\* cache's size, a cursor within the journal, a load is answered by a session.
THEOREM TypeCorrect == Spec => []TypeOK
<1> QED  BY TypedGives, TypedInvariance, PTL

\* However a window, the pages of a resume, a cut copy, a delta and the older
\* rows are put together, no transcript that is kept or shown has a row twice,
\* and none misses a row between two it has, unless it was cut out of order.
THEOREM NoRowMissing == Spec => []NoHole
<1> QED  BY TypedGives, TypedInvariance, PTL

(***************************************************************************)
(* The newest row stays, with a backend that is read from a cursor and     *)
(* pushes no events.                                                       *)
(***************************************************************************)
\* A transcript has no row the server did not have.
Within(j, s) == \A n \in RowSet(s.rows) : n <= j[s.id]
Behind ==
    /\ \A p \in Panes : /\ Within(journal, open[p]) /\ Within(journal, reading[p].copy)
                        /\ Within(journal, fetch[p].reply) /\ Within(journal, older[p].reply)
    /\ \A t \in Threads : Within(journal, cache[t].copy) /\ Within(journal, disk[t])

Quiet == \A t \in Threads : live[t] = NoSub

OneTab == \A p, q \in Panes : p # q /\ selected[p] \in Threads => selected[q] # selected[p]

\* The older rows come from the first one on.
OlderFromStart ==
    \A p \in Panes : older[p].at = "answered" =>
        \E j \in Nat : RowSet(older[p].reply.rows) = RowSeqs \cap 1 .. j

\* A fetch and a read are out together only when there was no file to read, and
\* nobody but the pane itself writes one.
ReadAlone ==
    \A p \in Panes : fetch[p].at # "none" =>
        /\ ~waits[p]
        /\ Reading(p) /\ state[p] # "loaded" =>
              disk[reading[p].to] = NoSession /\ reading[p].copy = NoSession

\* An answer may replace what is shown: it has no row, or shares one, or has for
\* each shown row one that is as new.
CatchesUp(new, old) ==
    \/ new = {} \/ new \cap old # {}
    \/ \A m \in old : \E n \in new : m <= n
FetchCatchesUp ==
    \A p \in Panes : fetch[p].at = "answered" /\ state[p] = "loaded" =>
        CatchesUp(RowSet(fetch[p].reply.rows), RowSet(open[p].rows))

NewestInv == /\ Behind /\ Quiet /\ OneTab /\ OlderFromStart /\ ReadAlone /\ FetchCatchesUp

LEMMA NoSessionWithin == \A j : Within(j, NoSession)
BY NoSessionRows DEF Within

LEMMA LastRowsRows ==
    ASSUME NEW s \in Kept, NEW n \in Nat \ {0}
    PROVE  LastRows(s, n).id = s.id /\ RowSet(LastRows(s, n).rows) \subseteq RowSet(s.rows)
<1>1. CASE Len(s.rows) <= n
  BY <1>1 DEF LastRows
<1>2. CASE ~(Len(s.rows) <= n)
  <2> DEFINE r == s.rows
  <2>1. r \in Seq(RowSeqs) /\ ~(Len(r) <= n)
    BY <1>2, SessionFields DEF Kept
  <2> HIDE DEF r
  <2>2. RowSet(SubSeq(r, Len(r) - n + 1, Len(r))) \subseteq RowSet(r)
    BY <2>1, SuffixRows
  <2> QED  BY <1>2, <2>2 DEF LastRows, Session, r
<1> QED  BY <1>1, <1>2

LEMMA LastRowsWithin ==
    ASSUME NEW j, NEW s \in Kept, NEW n \in Nat \ {0}, Within(j, s)
    PROVE  Within(j, LastRows(s, n))
BY LastRowsRows DEF Within

LEMMA KeepWithin ==
    ASSUME NEW s \in Kept, Keep(s), Within(journal, s), UNCHANGED journal,
           disk \in [Threads -> Maybe(Kept)],
           \A t \in Threads : Within(journal, cache[t].copy) /\ Within(journal, disk[t])
    PROVE  /\ \A t \in Threads : Within(journal', cache'[t].copy) /\ Within(journal', disk'[t])
           /\ \A t \in Threads : t # s.id => disk'[t] = disk[t]
<1>1. Within(journal, Cut(s))
  BY Emptys, LastRowsWithin DEF Cut
<1>2. \A t \in Threads : Within(journal, cache'[t].copy)
  <2>1. TAKE t \in Threads
  <2>2. cache'[t].copy \in {Cut(s), NoSession, cache[t].copy}
    BY DEF Keep, Put, Absent
  <2> QED  BY <1>1, <2>2, NoSessionWithin
<1>3. \A t \in Threads : disk'[t] \in {s, disk[t]} /\ (t # s.id => disk'[t] = disk[t])
  BY DEF Keep, Save
<1> QED  BY <1>2, <1>3

LEMMA LandedWithin ==
    ASSUME NEW j, NEW mine \in Maybe(Kept), NEW fresh \in Replies, Within(j, mine), Within(j, fresh)
    PROVE  Within(j, Landed(mine, fresh))
<1>1. Landed(mine, fresh).id = fresh.id
  BY LandedId
<1> QED  BY <1>1, LandedFacts DEF Within

LEMMA NewestInit == Init => NewestInv
<1> SUFFICES ASSUME Init PROVE NewestInv  OBVIOUS
<1>1. Behind
  BY NoSessionWithin DEF Init, Behind, NoRead, Read, NoLoad, LoadAt, Absent
<1>2. Quiet /\ OneTab /\ OlderFromStart /\ ReadAlone /\ FetchCatchesUp
  BY ThreadsAssumption DEF Init, Quiet, OneTab, OlderFromStart, ReadAlone, FetchCatchesUp, NoLoad, LoadAt
<1> QED  BY <1>1, <1>2 DEF NewestInv

LEMMA OpensNewest ==
    ASSUME Inv, Typed, NewestInv, NEW p \in Panes, NEW t \in Threads, Opens(p, t)
    PROVE  NewestInv'
<1> USE DEF Opens, Selects, NewestInv
<1>0. /\ selected \in [Panes -> Ids] /\ DOMAIN state = Panes /\ DOMAIN waits = Panes
      /\ DOMAIN open = Panes /\ DOMAIN fetch = Panes /\ DOMAIN reading = Panes /\ DOMAIN older = Panes
  BY DEF Typed
<1>1. Quiet'  BY DEF Quiet
<1>2. OneTab'
  BY <1>0 DEF OneTab, Showing
<1>3. older'[p] = NoLoad /\ \A q \in Panes \ {p} : older'[q] = older[q]
  BY <1>0
<1>4. OlderFromStart'
  BY <1>3 DEF OlderFromStart, NoLoad, LoadAt
<1>5. CASE Hits(p, t)
  <2>1. /\ open'[p] = cache[t].copy /\ fetch'[p] = NoLoad /\ reading'[p] = NoRead
        /\ \A q \in Panes \ {p} : UNCHANGED <<open[q], fetch[q], reading[q], state[q], waits[q]>>
        /\ \A u \in Threads : cache'[u].copy = cache[u].copy
    BY <1>0, <1>5 DEF Hits, Touch
  <2>2. Behind'
    BY <1>3, <2>1, NoSessionWithin DEF Behind, NoLoad, LoadAt, NoRead, Read
  <2>3. ReadAlone' /\ FetchCatchesUp'
    BY <2>1 DEF ReadAlone, FetchCatchesUp, NoLoad, LoadAt, Reading
  <2> QED  BY <1>1, <1>2, <1>4, <2>2, <2>3
<1>6. CASE Misses(p, t)
  <2> DEFINE waiting == DiskOn /\ disk[t] # NoSession
  <2>1. /\ UNCHANGED <<open, cache>> /\ waits'[p] = waiting /\ state'[p] = "loading"
        /\ fetch'[p] = IF waiting THEN NoLoad ELSE Load(t, 0)
        /\ reading'[p] = IF DiskOn THEN Read(t, epoch, FALSE, NoSession) ELSE NoRead
        /\ \A q \in Panes \ {p} : UNCHANGED <<fetch[q], reading[q], state[q], waits[q]>>
    BY <1>0, <1>6 DEF Misses
  <2>2. Behind'
    BY <1>3, <2>1, NoSessionWithin DEF Behind, NoLoad, Load, LoadAt, NoRead, Read
  <2>3. ReadAlone'
    <3>1. fetch'[p].at # "none" => ~waiting
      BY <2>1 DEF NoLoad, LoadAt
    <3>2. Reading(p)' => DiskOn /\ reading'[p].to = t /\ reading'[p].copy = NoSession
      BY <2>1 DEF Reading, NoRead, Read
    <3>3. \A q \in Panes \ {p} : Reading(q)' <=> Reading(q)
      BY <2>1 DEF Reading
    <3>4. disk' = disk
      BY <1>1
    <3> SUFFICES ASSUME NEW q \in Panes, fetch'[q].at # "none"
                 PROVE  /\ ~waits'[q]
                        /\ Reading(q)' /\ state'[q] # "loaded" =>
                              disk'[reading'[q].to] = NoSession /\ reading'[q].copy = NoSession
      BY DEF ReadAlone
    <3>5. CASE q = p
      <4>1. ~waiting /\ ~waits'[p]
        BY <2>1, <3>1, <3>5
      <4>2. Reading(p)' => disk'[reading'[p].to] = NoSession /\ reading'[p].copy = NoSession
        BY <3>2, <3>4, <4>1
      <4> QED  BY <3>5, <4>1, <4>2
    <3>6. CASE q # p
      <4>1. /\ fetch'[q] = fetch[q] /\ reading'[q] = reading[q] /\ state'[q] = state[q]
            /\ waits'[q] = waits[q] /\ (Reading(q)' <=> Reading(q))
        BY <2>1, <3>3, <3>6
      <4>2. /\ ~waits[q]
            /\ Reading(q) /\ state[q] # "loaded" =>
                  disk[reading[q].to] = NoSession /\ reading[q].copy = NoSession
        BY <4>1 DEF ReadAlone
      <4> QED  BY <3>4, <4>1, <4>2
    <3> QED  BY <3>5, <3>6
  <2>4. FetchCatchesUp'
    BY <2>1 DEF FetchCatchesUp, NoLoad, Load, LoadAt
  <2> QED  BY <1>1, <1>2, <1>4, <2>2, <2>3, <2>4
<1> QED  BY <1>5, <1>6

LEMMA ReaderNewest ==
    ASSUME Inv, Typed, NewestInv,
           \/ \E p \in Panes : ShowsSettings(p) \/ ClosesLast(p) \/ AsksOlder(p)
           \/ \E t \in Threads : ClosesHidden(t)
           \/ ClearsCache
    PROVE  NewestInv'
<1> USE DEF NewestInv
<1>0. /\ selected \in [Panes -> Ids] /\ DOMAIN state = Panes /\ DOMAIN waits = Panes
      /\ DOMAIN open = Panes /\ DOMAIN fetch = Panes /\ DOMAIN reading = Panes /\ DOMAIN older = Panes
  BY DEF Typed
<1>1. ASSUME NEW p \in Panes, ShowsSettings(p) \/ ClosesLast(p) PROVE NewestInv'
  <2>1. /\ UNCHANGED <<journal, cache, disk, live>>
        /\ selected'[p] \notin Threads /\ open'[p] = NoSession
        /\ fetch'[p] = NoLoad /\ reading'[p] = NoRead /\ older'[p] = NoLoad
        /\ \A q \in Panes \ {p} : UNCHANGED <<selected[q], open[q], fetch[q], reading[q], older[q],
                                             state[q], waits[q]>>
    BY <1>0, <1>1, ThreadsAssumption DEF ShowsSettings, ClosesLast, Selects, Drops, copies
  <2>2. Behind'
    <3>1. /\ NoLoad.reply = NoSession /\ NoRead.copy = NoSession
          /\ \A j : Within(j, NoSession)
      BY NoSessionWithin DEF NoLoad, LoadAt, NoRead, Read
    <3>2. \A q \in Panes :
              /\ open'[q] \in {open[q], NoSession}
              /\ reading'[q] \in {reading[q], NoRead}
              /\ fetch'[q] \in {fetch[q], NoLoad}
              /\ older'[q] \in {older[q], NoLoad}
      BY <2>1
    <3> QED  BY <2>1, <3>1, <3>2 DEF Behind
  <2>3. Quiet' /\ OneTab' /\ OlderFromStart'
    <3>1. Quiet'
      BY <2>1 DEF Quiet
    <3>2. OneTab'
      BY <2>1 DEF OneTab
    <3>3. OlderFromStart'
      BY <2>1 DEF OlderFromStart, NoLoad, LoadAt
    <3> QED  BY <3>1, <3>2, <3>3
  <2>4. ReadAlone'
    BY <2>1 DEF ReadAlone, NoLoad, LoadAt, Reading
  <2>5. FetchCatchesUp'
    BY <2>1 DEF FetchCatchesUp, NoLoad, LoadAt
  <2> QED  BY <2>2, <2>3, <2>4, <2>5
<1>2. ASSUME NEW p \in Panes, AsksOlder(p) PROVE NewestInv'
  <2>1. /\ UNCHANGED <<journal, selected, open, fetch, reading, state, waits, cache, disk, live>>
        /\ older'[p].reply = NoSession /\ older'[p].at = "sent"
        /\ \A q \in Panes \ {p} : older'[q] = older[q]
    BY <1>0, <1>2 DEF AsksOlder, copies, Load, LoadAt
  <2>2. Behind'
    BY <2>1, NoSessionWithin DEF Behind
  <2>3. Quiet' /\ OneTab' /\ OlderFromStart' /\ ReadAlone' /\ FetchCatchesUp'
    BY <2>1 DEF Quiet, OneTab, OlderFromStart, ReadAlone, FetchCatchesUp, Reading
  <2> QED  BY <2>2, <2>3
<1>3. ASSUME NEW t \in Threads, ClosesHidden(t) PROVE NewestInv'
  BY <1>3 DEF ClosesHidden, pane, copies, Behind, Quiet, OneTab, OlderFromStart, ReadAlone,
              FetchCatchesUp, Reading
<1>4. CASE ClearsCache
  <2>1. /\ UNCHANGED <<journal, selected, open, fetch, older, state, waits, live>>
        /\ \A p \in Panes : reading'[p] = NoRead
        /\ \A t \in Threads : cache'[t].copy = NoSession /\ disk'[t] = NoSession
    BY <1>4 DEF ClearsCache, Absent
  <2>2. Behind'
    BY <2>1, NoSessionWithin DEF Behind, NoRead, Read
  <2>3. ReadAlone'
    <3>1. \A p \in Panes : ~Reading(p)'
      BY <2>1 DEF Reading, NoRead, Read
    <3> QED  BY <2>1, <3>1 DEF ReadAlone
  <2>4. Quiet' /\ OneTab' /\ OlderFromStart' /\ FetchCatchesUp'
    BY <2>1 DEF Quiet, OneTab, OlderFromStart, FetchCatchesUp
  <2> QED  BY <2>2, <2>3, <2>4
<1> QED  BY <1>1, <1>2, <1>3, <1>4

LEMMA DiskNewest ==
    ASSUME Inv, Typed, NewestInv, NEW p \in Panes, DiskAnswers(p) \/ DiskLands(p)
    PROVE  NewestInv'
<1> USE DEF NewestInv
<1>0. /\ DOMAIN state = Panes /\ DOMAIN waits = Panes /\ DOMAIN open = Panes
      /\ DOMAIN fetch = Panes /\ DOMAIN reading = Panes /\ DOMAIN older = Panes
      /\ reading[p] \in TypedRead
  BY DEF Typed
<1>1. CASE DiskAnswers(p)
  <2> DEFINE to == reading[p].to
  <2>1. /\ UNCHANGED <<journal, selected, open, fetch, older, state, waits, cache, disk, live>>
        /\ reading'[p] = Read(to, reading[p].epoch, TRUE, disk[to])
        /\ \A q \in Panes \ {p} : reading'[q] = reading[q]
        /\ to \in Threads
    BY <1>0, <1>1 DEF DiskAnswers, copies, Reading, TypedRead, AllReads
  <2> HIDE DEF to
  <2>2. reading'[p].to = to /\ reading'[p].copy = disk[to]
    BY <2>1 DEF Read
  <2>3. Behind'
    BY <2>1, <2>2 DEF Behind
  <2>4. ReadAlone'
    BY <1>1, <2>1, <2>2 DEF ReadAlone, Reading, DiskAnswers, to
  <2>5. Quiet' /\ OneTab' /\ OlderFromStart' /\ FetchCatchesUp'
    BY <2>1 DEF Quiet, OneTab, OlderFromStart, FetchCatchesUp
  <2> QED  BY <2>3, <2>4, <2>5
<1>2. CASE DiskLands(p)
  <2> DEFINE to == reading[p].to
             copy == reading[p].copy
  <2>1. /\ UNCHANGED <<journal, selected, older, disk, live>>
        /\ reading'[p] = NoRead /\ waits'[p] = (waits[p] /\ ~Starts(p))
        /\ \A q \in Panes \ {p} : UNCHANGED <<open[q], fetch[q], reading[q], state[q], waits[q]>>
        /\ ~AcceptsDisk(p) => UNCHANGED <<cache, open, state>>
        /\ AcceptsDisk(p) => /\ cache' = Put(cache, copy) /\ open'[p] = copy /\ copy # NoSession
                             /\ state[p] # "loaded"
    BY <1>0, <1>2 DEF DiskLands, AcceptsDisk
  <2>2. fetch'[p] = fetch[p] \/ (fetch'[p].at = "sent" /\ fetch'[p].reply = NoSession /\ Starts(p))
    BY <1>0, <1>2 DEF DiskLands, Load, LoadAt
  <2>3. Reading(p) /\ to \in Threads /\ copy \in Maybe(Kept) /\ Within(journal, copy)
    BY <1>0, <1>2, ThreadsAssumption DEF DiskLands, Behind, Reading, TypedRead, AllReads
  <2>4. fetch[p].at # "none" => ~waits[p] /\ ~AcceptsDisk(p)
    BY <2>1, <2>3 DEF ReadAlone
  <2> HIDE DEF to, copy
  <2>5. Behind'
    <3>1. \A t \in Threads : Within(journal, cache'[t].copy)
      <4>1. CASE AcceptsDisk(p)
        <5>1. copy \in Kept
          BY <2>1, <2>3, <4>1 DEF Maybe
        <5>2. Within(journal, Cut(copy))
          BY <2>3, <5>1, Emptys, LastRowsWithin DEF Cut
        <5>3. \A t \in Threads : cache'[t].copy \in {Cut(copy), NoSession, cache[t].copy}
          BY <2>1, <4>1 DEF Put, Absent
        <5> QED  BY <5>2, <5>3, NoSessionWithin DEF Behind
      <4>2. CASE ~AcceptsDisk(p)
        BY <2>1, <4>2 DEF Behind
      <4> QED  BY <4>1, <4>2
    <3>2. Within(journal, open'[p])
      BY <2>1, <2>3 DEF Behind
    <3> QED  BY <2>1, <2>2, <3>1, <3>2, NoSessionWithin DEF Behind, NoRead, Read
  <2>6. ReadAlone'
    <3>1. fetch'[p].at # "none" => ~waits'[p]
      BY <2>1, <2>2, <2>4
    <3>2. ~Reading(p)' /\ \A q \in Panes \ {p} : Reading(q)' <=> Reading(q)
      BY <2>1 DEF Reading, NoRead, Read
    <3> QED  BY <2>1, <3>1, <3>2 DEF ReadAlone
  <2>7. FetchCatchesUp'
    <3>1. fetch'[p].at = "answered" => fetch'[p] = fetch[p] /\ ~AcceptsDisk(p)
      BY <2>2, <2>4
    <3> QED  BY <2>1, <3>1 DEF FetchCatchesUp
  <2>8. Quiet' /\ OneTab' /\ OlderFromStart'
    BY <2>1 DEF Quiet, OneTab, OlderFromStart
  <2> QED  BY <2>5, <2>6, <2>7, <2>8
<1> QED  BY <1>1, <1>2

\* What a request turns into: an answer in the set, or a failure.
LEMMA OutcomeOf ==
    ASSUME NEW l, NEW replies, NEW o \in Outcomes(l, replies)
    PROVE  \/ o.at = "answered" /\ o.reply \in replies
           \/ o.at = "failed" /\ o.reply = NoSession
BY DEF Outcomes, LoadAt

LEMMA FetchNewest ==
    ASSUME Inv, Typed, NewestInv, NEW p \in Panes, FetchAnswered(p) \/ FetchLands(p) \/ FetchFails(p)
    PROVE  NewestInv'
<1> USE DEF NewestInv
<1>0. /\ DOMAIN state = Panes /\ DOMAIN open = Panes /\ DOMAIN fetch = Panes
      /\ journal \in [Threads -> Nat]
      /\ fetch[p] \in TypedLoads /\ LoadIsFor(fetch[p], selected[p])
      /\ open[p] \in Maybe(Kept) /\ disk \in [Threads -> Maybe(Kept)]
  BY Emptys DEF Typed, Inv, LoadsInv
<1>1. CASE FetchAnswered(p)
  <2>1. /\ UNCHANGED <<journal, selected, open, older, reading, state, waits, cache, disk, live>>
        /\ fetch[p].at = "sent" /\ fetch'[p] \in Outcomes(fetch[p], Answers(fetch[p].to, fetch[p].since))
        /\ \A q \in Panes \ {p} : fetch'[q] = fetch[q]
    BY <1>0, <1>1 DEF FetchAnswered, copies
  <2> DEFINE t == fetch[p].to
             r == fetch'[p].reply
  <2>2. t \in Threads /\ t = selected[p]
    BY <1>0, <2>1 DEF TypedLoads, LoadIsFor
  <2>3. \/ fetch'[p].at = "failed" /\ r = NoSession
        \/ /\ fetch'[p].at = "answered" /\ r.id = t
           /\ \E lo \in Nat \ {0} : RowSet(r.rows) = RowSeqs \cap lo .. journal[t]
    <3>1. \A a \in Answers(t, fetch[p].since) :
             a.id = t /\ \E lo \in Nat \ {0} : RowSet(a.rows) = RowSeqs \cap lo .. journal[t]
      BY <1>0, <2>2, AnswersIn
    <3> QED  BY <2>1, <3>1, OutcomeOf
  <2> HIDE DEF t, r
  <2>4. Within(journal, r)
    BY <1>0, <2>2, <2>3, NoSessionWithin DEF Within
  <2>5. Behind'
    BY <2>1, <2>4 DEF Behind, r
  <2>6. ASSUME fetch'[p].at = "answered", state[p] = "loaded"
        PROVE  CatchesUp(RowSet(r.rows), RowSet(open[p].rows))
    <3>1. PICK lo \in Nat \ {0} : RowSet(r.rows) = RowSeqs \cap lo .. journal[t]
      BY <2>3, <2>6
    <3>2. open[p].id = t
      BY <2>2, <2>6 DEF Inv, LoadedShowsSelected
    <3>3. open[p] \in Kept
      BY <1>0, <2>2, <3>2, NoSessionRows, ThreadsAssumption DEF Maybe
    <3>4. RowSet(open[p].rows) \subseteq RowSeqs /\ \A m \in RowSet(open[p].rows) : m <= journal[t]
      BY <3>2, <3>3, SessionFields DEF Kept, Behind, Within
    <3> SUFFICES ASSUME NEW c \in RowSet(r.rows), NEW m \in RowSet(open[p].rows)
                 PROVE  \E n \in RowSet(r.rows) : m <= n
      BY DEF CatchesUp
    <3>5. m \in Nat /\ c \in Nat /\ m \in RowSeqs /\ lo <= c
      <4>1. c \in RowSeqs /\ c \in lo .. journal[t] /\ m \in RowSeqs
        BY <3>1, <3>4
      <4> QED  BY <4>1, RowsAreNat
    <3>6. m \in RowSet(r.rows) \/ m <= c
      BY <1>0, <2>2, <3>1, <3>4, <3>5
    <3> QED  BY <3>5, <3>6
  <2>7. FetchCatchesUp'
    BY <2>1, <2>6 DEF FetchCatchesUp, r
  <2>8. ReadAlone'
    BY <2>1 DEF ReadAlone, Reading
  <2>9. Quiet' /\ OneTab' /\ OlderFromStart'
    BY <2>1 DEF Quiet, OneTab, OlderFromStart
  <2> QED  BY <2>5, <2>7, <2>8, <2>9
<1>2. CASE FetchLands(p)
  <2> DEFINE shown == Landed(open[p], fetch[p].reply)
             t == fetch[p].to
  <2>1. /\ fetch[p].reply \in Replies /\ fetch[p].reply \in Kept /\ fetch[p].reply.id = t
        /\ t = selected[p] /\ t \in Threads
    BY <1>0, <1>2, RepliesAreKept DEF FetchLands, TypedLoads, LoadIsFor
  <2>2. shown \in Kept /\ shown.id = t /\ Within(journal, shown)
    BY <1>0, <2>1, LandedFacts, LandedId, LandedWithin DEF Behind
  <2>3. Keep(fetch[p].reply) \/ Keep(shown)
    BY <1>2, <2>1 DEF FetchLands
  <2> HIDE DEF shown, t
  <2>4. /\ \A u \in Threads : Within(journal', cache'[u].copy) /\ Within(journal', disk'[u])
        /\ \A u \in Threads : u # t => disk'[u] = disk[u]
    BY <1>0, <1>2, <2>1, <2>2, <2>3, KeepWithin DEF Behind, FetchLands
  <2>5. /\ UNCHANGED <<journal, selected, older, reading, waits, live>>
        /\ fetch'[p] = NoLoad /\ open'[p] = shown /\ state'[p] = "loaded"
        /\ \A q \in Panes \ {p} : UNCHANGED <<open[q], fetch[q], state[q]>>
    BY <1>0, <1>2, <2>1 DEF FetchLands, shown, t
  <2>6. Behind'
    BY <2>2, <2>4, <2>5, NoSessionWithin DEF Behind, NoLoad, LoadAt
  <2>7. ReadAlone'
    <3>1. fetch'[p].at = "none"
      BY <2>5 DEF NoLoad, LoadAt
    <3>2. ASSUME NEW q \in Panes \ {p}, Reading(q) PROVE disk'[reading[q].to] = disk[reading[q].to]
      <4>1. reading[q].to \in Threads /\ reading[q].to = selected[q]
        BY <3>2 DEF Reading, Inv, LoadsInv, ReadIsFor
      <4>2. selected[q] # t
        BY <2>1, <4>1 DEF OneTab
      <4> QED  BY <2>4, <4>1, <4>2
    <3> QED  BY <2>5, <3>1, <3>2 DEF ReadAlone, Reading
  <2>8. FetchCatchesUp'
    BY <2>5 DEF FetchCatchesUp, NoLoad, LoadAt
  <2>9. Quiet' /\ OneTab' /\ OlderFromStart'
    BY <2>5 DEF Quiet, OneTab, OlderFromStart
  <2> QED  BY <2>6, <2>7, <2>8, <2>9
<1>3. CASE FetchFails(p)
  <2>1. /\ UNCHANGED <<journal, selected, older, reading, waits, cache, disk, live>>
        /\ fetch'[p] = NoLoad /\ open'[p] \in {open[p], NoSession}
        /\ \A q \in Panes \ {p} : UNCHANGED <<open[q], fetch[q], state[q]>>
    BY <1>0, <1>3 DEF FetchFails, copies
  <2>2. Behind'
    BY <2>1, NoSessionWithin DEF Behind, NoLoad, LoadAt
  <2>3. ReadAlone' /\ FetchCatchesUp'
    BY <2>1 DEF ReadAlone, FetchCatchesUp, Reading, NoLoad, LoadAt
  <2>4. Quiet' /\ OneTab' /\ OlderFromStart'
    BY <2>1 DEF Quiet, OneTab, OlderFromStart
  <2> QED  BY <2>2, <2>3, <2>4
<1> QED  BY <1>1, <1>2, <1>3

LEMMA OlderNewest ==
    ASSUME Inv, Typed, NewestInv, NEW p \in Panes, OlderAnswered(p) \/ OlderLands(p) \/ OlderFails(p)
    PROVE  NewestInv'
<1> USE DEF NewestInv
<1>0. /\ DOMAIN state = Panes /\ DOMAIN open = Panes /\ DOMAIN older = Panes
      /\ journal \in [Threads -> Nat]
      /\ older[p] \in TypedLoads /\ LoadIsFor(older[p], selected[p])
      /\ disk \in [Threads -> Maybe(Kept)]
  BY Emptys DEF Typed, Inv, LoadsInv
<1>1. CASE OlderAnswered(p) \/ OlderFails(p)
  <2>1. /\ UNCHANGED <<journal, selected, open, fetch, reading, state, waits, cache, disk, live>>
        /\ \A q \in Panes \ {p} : older'[q] = older[q]
    BY <1>0, <1>1 DEF OlderAnswered, OlderFails, copies
  <2>2. \/ older'[p].at # "answered" /\ older'[p].reply = NoSession
        \/ \E t \in Threads : /\ older'[p].reply.id = t
                              /\ RowSet(older'[p].reply.rows) = RowSeqs \cap 1 .. journal[t]
    <3>1. CASE OlderAnswered(p)
      <4>1. older[p].to \in Threads
        BY <1>0, <3>1 DEF OlderAnswered, TypedLoads
      <4>2. older'[p] \in Outcomes(older[p], {WholeReply(older[p].to)})
        BY <1>0, <3>1 DEF OlderAnswered
      <4>3. /\ WholeReply(older[p].to).id = older[p].to
            /\ RowSet(WholeReply(older[p].to).rows) = RowSeqs \cap 1 .. journal[older[p].to]
        BY <1>0, <4>1, WholeReplyIn
      <4> QED  BY <4>1, <4>2, <4>3, OutcomeOf
    <3>2. CASE OlderFails(p)
      BY <1>0, <3>2 DEF OlderFails, NoLoad, LoadAt
    <3> QED  BY <1>1, <3>1, <3>2
  <2>3. Within(journal, older'[p].reply)
    BY <1>0, <2>2, NoSessionWithin DEF Within
  <2>4. Behind'
    BY <2>1, <2>3 DEF Behind
  <2>5. OlderFromStart'
    BY <1>0, <2>1, <2>2 DEF OlderFromStart
  <2>6. Quiet' /\ OneTab' /\ ReadAlone' /\ FetchCatchesUp'
    BY <2>1 DEF Quiet, OneTab, ReadAlone, FetchCatchesUp, Reading
  <2> QED  BY <2>4, <2>5, <2>6
<1>2. CASE OlderLands(p)
  <2> DEFINE r == older[p].reply
             t == older[p].to
  <2>1. r \in Replies /\ r \in Kept /\ r.id = t /\ t = selected[p] /\ t \in Threads /\ Within(journal, r)
    BY <1>0, <1>2, RepliesAreKept DEF OlderLands, TypedLoads, LoadIsFor, Behind
  <2>2. PICK j \in Nat : RowSet(r.rows) = RowSeqs \cap 1 .. j
    BY <1>2 DEF OlderLands, OlderFromStart
  <2>3. /\ UNCHANGED <<journal, selected, fetch, reading, waits, live>> /\ Keep(r)
        /\ older'[p] = NoLoad /\ open'[p] = r /\ state'[p] = "loaded"
        /\ \A q \in Panes \ {p} : UNCHANGED <<open[q], older[q], state[q]>>
    BY <1>0, <1>2, <2>1 DEF OlderLands
  <2> HIDE DEF r, t
  <2>4. /\ \A u \in Threads : Within(journal', cache'[u].copy) /\ Within(journal', disk'[u])
        /\ \A u \in Threads : u # t => disk'[u] = disk[u]
    BY <1>0, <2>1, <2>3, KeepWithin DEF Behind
  <2>5. Behind'
    BY <2>1, <2>3, <2>4, NoSessionWithin DEF Behind, NoLoad, LoadAt
  <2>6. ReadAlone'
    <3>1. ASSUME NEW q \in Panes \ {p}, Reading(q) PROVE disk'[reading[q].to] = disk[reading[q].to]
      <4>1. reading[q].to \in Threads /\ reading[q].to = selected[q]
        BY <3>1 DEF Reading, Inv, LoadsInv, ReadIsFor
      <4>2. selected[q] # t
        BY <2>1, <4>1 DEF OneTab
      <4> QED  BY <2>4, <4>1, <4>2
    <3> QED  BY <2>3, <3>1 DEF ReadAlone, Reading
  <2>7. FetchCatchesUp'
    <3> DEFINE new == RowSet(fetch[p].reply.rows)
    <3>1. ASSUME fetch[p].at = "answered" PROVE CatchesUp(new, RowSet(r.rows))
      <4>1. new \subseteq RowSeqs
        BY <3>1, SessionFields DEF Typed, TypedLoads, Replies
      <4> HIDE DEF new
      <4> SUFFICES ASSUME new # {}, new \cap RowSet(r.rows) = {}, NEW m \in RowSet(r.rows)
                   PROVE  \E n \in new : m <= n
        BY DEF CatchesUp
      <4>2. PICK n \in new : TRUE
        OBVIOUS
      <4>3. n \in RowSeqs /\ n \in Nat /\ ~(n \in 1 .. j) /\ n # 0 /\ m \in Nat /\ m <= j
        BY <2>2, <4>1, RowsAreNat
      <4>4. m <= n
        BY <2>2, <4>3
      <4> QED  BY <4>4
    <3> QED  BY <2>3, <3>1 DEF FetchCatchesUp
  <2>8. OlderFromStart'
    BY <2>3 DEF OlderFromStart, NoLoad, LoadAt
  <2>9. Quiet' /\ OneTab'
    BY <2>3 DEF Quiet, OneTab
  <2> QED  BY <2>5, <2>6, <2>7, <2>8, <2>9
<1> QED  BY <1>1, <1>2

LEMMA NothingIsLive ==
    ASSUME ~Events, Quiet
    PROVE  ~Syncs /\ \A t \in Threads : ~Following(t)
<1>1. ~Syncs  BY DEF Syncs
<1>2. ASSUME NEW t \in Threads, Following(t) PROVE FALSE
  <2>1. ~live[t].dirty /\ live[t].load.at = "none"
    BY DEF Quiet, NoSub, Sub, NoLoad, LoadAt
  <2> QED  BY <1>2, <2>1 DEF Following, LiveStarts, LiveAnswered, LiveLandsHidden, LiveFails, LiveLandsShown
<1> QED  BY <1>1, <1>2

LEMMA ServerNewest ==
    ASSUME Inv, Typed, NewestInv, \E t \in Threads : Appends(t) \/ Trims(t)
    PROVE  NewestInv'
<1> USE DEF NewestInv
<1>0. journal \in [Threads -> Nat] /\ DOMAIN live = Threads /\ disk \in [Threads -> Maybe(Kept)]
      /\ cache \in [Threads -> Copy] /\ open \in [Panes -> Maybe(Kept)]
      /\ fetch \in [Panes -> TypedLoads] /\ older \in [Panes -> TypedLoads]
      /\ reading \in [Panes -> TypedRead]
  BY Emptys DEF Typed
<1>1. ASSUME NEW t \in Threads, Appends(t) PROVE NewestInv'
  <2>1. UNCHANGED <<selected, open, fetch, older, reading, state, waits, cache, disk>>
    BY <1>1 DEF Appends, pane, copies
  <2>2. \A u \in Threads : journal[u] \in Nat /\ journal'[u] \in Nat /\ journal[u] <= journal'[u]
    BY <1>0, <1>1 DEF Appends
  <2>3. ASSUME NEW s \in Maybe(Kept) \cup Maybe(Replies), Within(journal, s) PROVE Within(journal', s)
    <3>1. CASE s = NoSession
      BY <3>1, NoSessionWithin
    <3>2. CASE s \in Kept
      <4>1. s.id \in Threads /\ RowSet(s.rows) \subseteq Nat
        BY <3>2, SessionFields, RowsAreNat DEF Kept
      <4> QED  BY <2>2, <2>3, <4>1 DEF Within
    <3> QED  BY <3>1, <3>2, RepliesAreKept DEF Maybe
  <2>4. Behind'
    <3>1. \A p \in Panes : /\ open[p] \in Maybe(Kept) /\ reading[p].copy \in Maybe(Kept)
                           /\ fetch[p].reply \in Maybe(Replies) /\ older[p].reply \in Maybe(Replies)
      BY <1>0 DEF TypedRead, AllReads, TypedLoads, AllLoads
    <3>2. \A u \in Threads : cache[u].copy \in Maybe(Kept) /\ disk[u] \in Maybe(Kept)
      BY <1>0 DEF Copy
    <3> QED  BY <2>1, <2>3, <3>1, <3>2 DEF Behind
  <2>5. Quiet'
    <3>1. live' = [live EXCEPT ![t] = Sub(live[t].on, live[t].dirty \/ live[t].on, live[t].load)]
      BY <1>1 DEF Appends
    <3>2. live[t] = NoSub
      BY DEF Quiet
    <3>3. ~NoSub.on /\ NoSub.on \in BOOLEAN /\ (NoSub.dirty \/ NoSub.on) = FALSE /\ NoSub.load = NoLoad
      BY DEF NoSub, Sub
    <3>4. NoSub.on = FALSE
      BY <3>3
    <3>5. Sub(live[t].on, live[t].dirty \/ live[t].on, live[t].load) = Sub(FALSE, FALSE, NoLoad)
      BY <3>2, <3>3, <3>4
    <3> QED  BY <1>0, <3>1, <3>5 DEF Quiet, NoSub
  <2>6. OneTab' /\ OlderFromStart' /\ ReadAlone' /\ FetchCatchesUp'
    BY <2>1 DEF OneTab, OlderFromStart, ReadAlone, FetchCatchesUp, Reading
  <2> QED  BY <2>4, <2>5, <2>6
<1>2. ASSUME NEW t \in Threads, Trims(t) PROVE NewestInv'
  <2>1. UNCHANGED <<journal, selected, open, fetch, older, reading, state, waits, cache, live>>
    BY <1>2 DEF Trims, pane
  <2>2. /\ disk[t] # NoSession /\ disk'[t] \in {LastRows(disk[t], KeepTail), NoSession}
        /\ \A u \in Threads : u # t => disk'[u] = disk[u]
    BY <1>0, <1>2 DEF Trims
  <2>3. Within(journal, disk'[t])
    <3>1. disk[t] \in Kept /\ Within(journal, disk[t])
      BY <1>0, <2>2 DEF Maybe, Behind
    <3> QED  BY <2>2, <3>1, Emptys, LastRowsWithin, NoSessionWithin
  <2>4. Behind'
    BY <2>1, <2>2, <2>3 DEF Behind
  <2>5. ReadAlone'
    <3>1. ASSUME NEW p \in Panes, Reading(p), disk[reading[p].to] = NoSession
          PROVE  disk'[reading[p].to] = NoSession
      <4>1. reading[p].to \in Threads
        BY <3>1 DEF Reading, Inv, LoadsInv, ReadIsFor
      <4> QED  BY <2>2, <3>1, <4>1
    <3> QED  BY <2>1, <3>1 DEF ReadAlone, Reading
  <2>6. Quiet' /\ OneTab' /\ OlderFromStart' /\ FetchCatchesUp'
    BY <2>1 DEF Quiet, OneTab, OlderFromStart, FetchCatchesUp
  <2> QED  BY <2>4, <2>5, <2>6
<1> QED  BY <1>1, <1>2

LEMMA NextNewest == ASSUME ~Events, Inv, Typed, NewestInv, [Next]_vars PROVE NewestInv'
<1>1. CASE Reader
  BY <1>1, OpensNewest, ReaderNewest DEF Reader
<1>2. CASE \E p \in Panes : Loading(p)
  BY <1>2, DiskNewest, FetchNewest, OlderNewest DEF Loading
<1>3. CASE Syncs \/ \E t \in Threads : Following(t)
  BY <1>3, NothingIsLive DEF NewestInv
<1>4. CASE \E t \in Threads : Appends(t) \/ Trims(t)
  BY <1>4, ServerNewest
<1>5. CASE UNCHANGED vars
  BY <1>5 DEF vars, pane, copies, NewestInv, Behind, Quiet, OneTab, OlderFromStart, ReadAlone,
              FetchCatchesUp, Reading
<1> QED  BY <1>1, <1>2, <1>3, <1>4, <1>5 DEF Next

Excused(p) == older'[p] # older[p] \/ Opens(p, selected[p])

\* A pane that shows the same transcript after a step has lost nothing.
LEMMA SameLosesNothing ==
    ASSUME Typed, NEW p \in Panes, open'[p] \in {open[p], NoSession}
    PROVE  ~LosesNewest(p)
<1> SUFFICES ASSUME LosesNewest(p) PROVE FALSE  OBVIOUS
<1>1. open'[p] = open[p]
  BY NoSessionRows DEF LosesNewest
<1>2. PICK m \in RowSet(open[p].rows) : \A n \in RowSet(open[p].rows) : n < m
  BY <1>1 DEF LosesNewest
<1>3. open[p] \in Kept
  BY <1>2, NoSessionRows DEF Typed, Maybe
<1>4. m \in Nat
  BY <1>2, <1>3, SessionFields, RowsAreNat DEF Kept
<1>5. m < m
  BY <1>2
<1> QED  BY <1>4, <1>5

LEMMA LoadingKeepsNewest ==
    ASSUME Inv, Typed, NewestInv, NEW q \in Panes, Loading(q), NEW p \in Panes, LosesNewest(p)
    PROVE  Excused(p)
<1>0. DOMAIN open = Panes /\ DOMAIN older = Panes
  BY DEF Typed
<1>1. open'[p] \notin {open[p], NoSession}
  BY SameLosesNothing
<1>2. CASE DiskAnswers(q) \/ FetchAnswered(q) \/ FetchFails(q) \/ OlderAnswered(q) \/ OlderFails(q)
  BY <1>0, <1>1, <1>2 DEF DiskAnswers, FetchAnswered, FetchFails, OlderAnswered, OlderFails
<1>3. CASE DiskLands(q)
  <2>1. q = p /\ AcceptsDisk(p)
    BY <1>0, <1>1, <1>3 DEF DiskLands
  <2> QED  BY <2>1 DEF AcceptsDisk, LosesNewest
<1>4. CASE OlderLands(q)
  <2>1. q = p
    BY <1>0, <1>1, <1>4 DEF OlderLands
  <2> QED  BY <1>0, <1>4, <2>1 DEF OlderLands, NoLoad, LoadAt, Excused
<1>5. CASE FetchLands(q)
  <2> DEFINE r == fetch[p].reply
             new == RowSet(r.rows)
             old == RowSet(open[p].rows)
  <2>1. q = p /\ fetch[p].at = "answered" /\ fetch[p].to = selected[p] /\ r \in Replies
    BY <1>0, <1>1, <1>5 DEF FetchLands, Inv, LoadsInv, LoadIsFor, Typed, TypedLoads
  <2>2. /\ state[p] = "loaded" /\ selected[p] \in Threads
        /\ open'[p] = Landed(open[p], r)
        /\ open'[p].rows # <<>>
        /\ \E m \in old : \A n \in RowSet(open'[p].rows) : n < m
    BY <1>0, <1>5, <2>1 DEF FetchLands, LosesNewest
  <2>3. PICK m \in old : \A n \in RowSet(open'[p].rows) : n < m
    BY <2>2
  <2>4. open[p].id = selected[p] /\ r.id = selected[p]
    BY <2>1, <2>2 DEF Inv, LoadedShowsSelected, LoadsInv, LoadIsFor
  <2>5. open[p] \in Maybe(Kept) /\ open[p] \in Kept
    <3>1. open[p] \in Maybe(Kept)
      BY DEF Typed
    <3>2. open[p] # NoSession
      BY <2>2, <2>4, ThreadsAssumption DEF NoSession, Session
    <3> QED  BY <3>1, <3>2 DEF Maybe
  <2>6. RowSet(open'[p].rows) = IF old \cap new # {} THEN old \cup new ELSE new
    <3>1. Shares(open[p].rows, r.rows) <=> old \cap new # {}
      BY DEF Shares
    <3>2. RowSet(Landed(open[p], r).rows) =
             IF open[p].id = r.id /\ Shares(open[p].rows, r.rows)
             THEN old \cup new ELSE new
      BY <2>1, <2>5, LandedFacts
    <3> QED  BY <2>2, <2>4, <3>1, <3>2
  <2>7. CatchesUp(new, old)
    BY <2>1, <2>2 DEF NewestInv, FetchCatchesUp
  <2>8. old \subseteq Nat /\ new \subseteq Nat
    BY <2>1, <2>5, SessionFields, RowsAreNat DEF Kept, Replies
  <2>9. new # {}
    <3>1. SUFFICES ASSUME new = {} PROVE FALSE
      OBVIOUS
    <3>2. RowSet(open'[p].rows) = {}
      BY <2>6, <3>1
    <3>3. open'[p] \in Sessions
      BY <2>1, <2>2, <2>5, LandedFacts DEF Kept
    <3>4. DOMAIN open'[p].rows = 1 .. Len(open'[p].rows) /\ Len(open'[p].rows) \in Nat
          /\ open'[p].rows \in Seq(RowSeqs)
      BY <3>3, SessionFields
    <3>5. DOMAIN open'[p].rows = {}
      BY <3>2 DEF RowSet
    <3>6. Len(open'[p].rows) = 0
      <4>1. \A k \in Nat : 1 .. k = {} => k = 0
        OBVIOUS
      <4>2. 1 .. Len(open'[p].rows) = {}
        BY ONLY <3>4, <3>5, Zenon
      <4> QED  BY ONLY <3>4, <4>1, <4>2, Zenon
    <3> QED  BY <2>2, <3>4, <3>6, EmptySeq
  <2> HIDE DEF new, old, r
  <2>10. m \notin RowSet(open'[p].rows)
    BY <2>3, <2>8
  <2>11. PICK n \in new : m <= n
    BY <2>3, <2>6, <2>7, <2>9, <2>10 DEF CatchesUp
  <2>12. n < m
    BY <2>3, <2>6, <2>11
  <2> QED  BY <2>3, <2>8, <2>11, <2>12
<1> QED  BY <1>2, <1>3, <1>4, <1>5 DEF Loading

LEMMA StepKeepsNewest ==
    ASSUME ~Events, Inv, Typed, NewestInv, [Next]_vars, NEW p \in Panes, LosesNewest(p)
    PROVE  Excused(p)
<1>0. DOMAIN open = Panes
  BY DEF Typed
<1>1. open'[p] \notin {open[p], NoSession}
  BY SameLosesNothing
<1>2. ASSUME NEW q \in Panes, NEW t \in Threads, Opens(q, t) PROVE Excused(p)
  <2>1. q = p
    BY <1>0, <1>1, <1>2 DEF Opens, Hits, Misses
  <2>2. t = selected[p]
    BY <1>2, <2>1 DEF Opens, Selects, LosesNewest, Typed
  <2> QED  BY <1>2, <2>1, <2>2 DEF Excused
<1>3. CASE Reader
  BY <1>0, <1>1, <1>2, <1>3 DEF Reader, ShowsSettings, ClosesLast, Drops, AsksOlder, ClosesHidden,
                                ClearsCache, pane
<1>4. CASE \E q \in Panes : Loading(q)
  BY <1>4, LoadingKeepsNewest
<1>5. CASE Syncs \/ \E t \in Threads : Following(t)
  BY <1>5, NothingIsLive DEF NewestInv
<1>6. CASE (\E t \in Threads : Appends(t) \/ Trims(t)) \/ UNCHANGED vars
  BY <1>1, <1>6 DEF Appends, Trims, vars, pane
<1> QED  BY <1>3, <1>4, <1>5, <1>6 DEF Next

\* No fetch and no disk copy takes the newest row from a pane, on a backend that
\* pushes no events: a fetch that was answered before the older rows were read
\* may land after them.
THEOREM NewestStays == ~Events /\ Spec => KeepsNewest
<1>1. ASSUME ~Events PROVE Spec => KeepsNewest
  <2>1. Init => NewestInv  BY NewestInit
  <2>2. Inv /\ Typed /\ NewestInv /\ [Next]_vars => NewestInv'  BY <1>1, NextNewest
  <2>3. Inv /\ Typed /\ NewestInv /\ [Next]_vars =>
           [\A p \in Panes : LosesNewest(p) => older'[p] # older[p] \/ Opens(p, selected[p])]_vars
    BY <1>1, StepKeepsNewest DEF Excused
  <2> QED  BY <2>1, <2>2, <2>3, Invariance, TypedInvariance, PTL DEF Spec, KeepsNewest
<1> QED  BY <1>1
=============================================================================
