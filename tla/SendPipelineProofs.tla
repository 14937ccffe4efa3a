------------------------- MODULE SendPipelineProofs -------------------------
(***************************************************************************)
(* Proofs about SendPipeline: a message has one owner, what is held is in  *)
(* the file and what is in the file is held, the retry policy is blocked   *)
(* only by a message on its way, and an unkeyed message goes out again     *)
(* only when the user asks.                                                *)
(***************************************************************************)
EXTENDS SendPipeline, TLAPS, SequenceTheorems, WellFoundedInduction

LEMMA Basics ==
    /\ None \notin Msgs /\ Msgs \subseteq Nat
    /\ \A m \in Msgs : SessionOf[m] \in Sessions
    /\ Streaming \in BOOLEAN /\ Preflight \in BOOLEAN /\ Silence \in BOOLEAN
    /\ OnlyAsked \subseteq Msgs
    /\ \A m \in OnlyAsked : m \in Files /\ ~FreshAuto(m) /\ Streaming /\ ~Preflight
    /\ \A m : FreshAuto(m) \in BOOLEAN
  BY NAssumption, SessionOfAssumption, SetsAssumption, FlagsAssumption
     DEF Msgs, None, OnlyAsked, FreshAuto

(***************************************************************************)
(* Lists of records with a msg.                                            *)
(***************************************************************************)
Keys(s) == {s[i].msg : i \in DOMAIN s}
Distinct(s) == \A i, j \in DOMAIN s : s[i].msg = s[j].msg => i = j

LEMMA AppendFacts ==
    ASSUME NEW T, NEW s \in Seq(T), NEW e \in T
    PROVE  /\ Append(s, e) \in Seq(T)
           /\ Len(Append(s, e)) = Len(s) + 1
           /\ \A i \in 1 .. Len(s) : Append(s, e)[i] = s[i]
           /\ Append(s, e)[Len(s) + 1] = e
  BY SMT

\* An element appended to a list is its only new one.
LEMMA AppendKeys ==
    ASSUME NEW T, NEW s \in Seq(T), NEW e \in T
    PROVE  /\ Keys(Append(s, e)) = Keys(s) \union {e.msg}
           /\ Distinct(s) /\ e.msg \notin Keys(s) => Distinct(Append(s, e))
<1> DEFINE t == Append(s, e)
<1>1. /\ DOMAIN s = 1 .. Len(s) /\ DOMAIN t = 1 .. Len(s) + 1 /\ Len(s) \in Nat
      /\ \A i \in 1 .. Len(s) : t[i] = s[i]
      /\ t[Len(s) + 1] = e
  BY AppendFacts, LenProperties
<1> HIDE DEF t
<1>2. Keys(t) = Keys(s) \union {e.msg}
  <2>1. \A m \in Keys(t) : m \in Keys(s) \/ m = e.msg
    BY <1>1 DEF Keys
  <2>2. \A m \in Keys(s) : m \in Keys(t)
    BY <1>1 DEF Keys
  <2>3. e.msg \in Keys(t)
    BY <1>1 DEF Keys
  <2> QED  BY <2>1, <2>2, <2>3
<1>3. ASSUME Distinct(s), e.msg \notin Keys(s)
      PROVE  Distinct(t)
  BY <1>1, <1>3 DEF Keys, Distinct
<1> QED  BY <1>2, <1>3 DEF t

LEMMA RemoveAtFacts ==
    ASSUME NEW T, NEW s \in Seq(T), NEW i \in 1 .. Len(s)
    PROVE  /\ RemoveAt(s, i) \in Seq(T)
           /\ Len(RemoveAt(s, i)) = Len(s) - 1
           /\ \A j \in 1 .. Len(s) - 1 : RemoveAt(s, i)[j] = s[IF j < i THEN j ELSE j + 1]
<1> DEFINE a == SubSeq(s, 1, i - 1)
           b == SubSeq(s, i + 1, Len(s))
<1>0. Len(s) \in Nat /\ i \in Int /\ \A j \in 1 .. Len(s) - 1 : j \in Int
  BY LenProperties
<1>1. a \in Seq(T) /\ Len(a) = i - 1 /\ \A j \in 1 .. i - 1 : a[j] = s[j]
  OBVIOUS
<1>2. b \in Seq(T) /\ Len(b) = Len(s) - i /\ \A j \in 1 .. Len(s) - i : b[j] = s[i + j]
  OBVIOUS
<1> HIDE DEF a, b
<1>3. /\ a \o b \in Seq(T) /\ Len(a \o b) = Len(a) + Len(b)
      /\ \A j \in 1 .. Len(a) + Len(b) : (a \o b)[j] = IF j <= Len(a) THEN a[j] ELSE b[j - Len(a)]
  BY <1>1, <1>2, ConcatProperties
<1>4. RemoveAt(s, i) = a \o b
  BY DEF RemoveAt, a, b
<1>5. \A j \in 1 .. Len(s) - 1 : RemoveAt(s, i)[j] = s[IF j < i THEN j ELSE j + 1]
  <2> TAKE j \in 1 .. Len(s) - 1
  <2>1. CASE j < i
    BY <2>1, <1>1, <1>2, <1>3, <1>4
  <2>2. CASE ~(j < i)
    <3>1. (a \o b)[j] = b[j - (i - 1)]
      <4>1. j \in 1 .. Len(a) + Len(b) /\ ~(j <= Len(a))
        BY <2>2, <1>1, <1>2, LenProperties
      <4> QED  BY <4>1, <1>1, <1>3
    <3>2. j - (i - 1) \in 1 .. Len(s) - i
      BY <2>2
    <3>3. b[j - (i - 1)] = s[i + (j - (i - 1))]
      BY <3>2, <1>2
    <3>4. i + (j - (i - 1)) = j + 1
      BY <1>0
    <3> QED  BY <2>2, <3>1, <3>3, <3>4, <1>4
  <2> QED  BY <2>1, <2>2
<1>6. Len(RemoveAt(s, i)) = Len(s) - 1
  <2>1. Len(a) + Len(b) = Len(s) - 1
    BY <1>0, <1>1, <1>2
  <2>2. Len(a \o b) = Len(a) + Len(b)
    BY <1>3
  <2> QED  BY <2>1, <2>2, <1>4, Zenon
<1>7. RemoveAt(s, i) \in Seq(T)
  BY <1>3, <1>4
<1> QED  BY <1>5, <1>6, <1>7

\* Two lists without a common key, joined.
LEMMA ConcatKeys ==
    ASSUME NEW T, NEW s \in Seq(T), NEW t \in Seq(T), Distinct(s), Distinct(t),
           Keys(s) \cap Keys(t) = {}
    PROVE  /\ s \o t \in Seq(T) /\ Distinct(s \o t)
           /\ Keys(s \o t) = Keys(s) \union Keys(t)
<1> DEFINE u == s \o t
<1>1. /\ DOMAIN s = 1 .. Len(s) /\ Len(s) \in Nat
      /\ DOMAIN t = 1 .. Len(t) /\ Len(t) \in Nat
  BY LenProperties
<1>2. /\ u \in Seq(T) /\ Len(u) = Len(s) + Len(t)
      /\ \A i \in 1 .. Len(s) + Len(t) : u[i] = IF i <= Len(s) THEN s[i] ELSE t[i - Len(s)]
  BY ConcatProperties
<1> HIDE DEF u
<1>3. DOMAIN u = 1 .. Len(s) + Len(t)
  BY <1>1, <1>2, LenProperties
<1>4. \A i \in 1 .. Len(s) : i \in DOMAIN u /\ u[i] = s[i]
  BY <1>1, <1>2, <1>3
<1>5. \A i \in 1 .. Len(t) : Len(s) + i \in DOMAIN u /\ u[Len(s) + i] = t[i]
  BY <1>1, <1>2, <1>3
<1>6. \A i \in DOMAIN u : i \in DOMAIN s \/ (i - Len(s) \in DOMAIN t /\ i = Len(s) + (i - Len(s)))
  BY <1>1, <1>3
<1>7. Keys(u) = Keys(s) \union Keys(t)
  <2>1. \A m \in Keys(s) : m \in Keys(u)
    BY <1>1, <1>4 DEF Keys
  <2>2. \A m \in Keys(t) : m \in Keys(u)
    BY <1>1, <1>5 DEF Keys
  <2>3. \A m \in Keys(u) : m \in Keys(s) \/ m \in Keys(t)
    BY <1>1, <1>4, <1>5, <1>6 DEF Keys
  <2> QED  BY <2>1, <2>2, <2>3
<1>8. /\ \A i \in DOMAIN s : u[i].msg \in Keys(s)
      /\ \A i \in DOMAIN u : i \notin DOMAIN s => u[i].msg \in Keys(t)
  BY <1>1, <1>4, <1>5, <1>6 DEF Keys
<1>9. ASSUME NEW i \in DOMAIN u, NEW j \in DOMAIN u, u[i].msg = u[j].msg
      PROVE  i = j
  <2>1. CASE i \in DOMAIN s /\ j \in DOMAIN s
    BY <1>1, <1>4, <1>9, <2>1 DEF Distinct
  <2>2. CASE i \notin DOMAIN s /\ j \notin DOMAIN s
    BY <1>1, <1>5, <1>6, <1>9, <2>2 DEF Distinct
  <2>3. CASE i \in DOMAIN s /\ j \notin DOMAIN s
    BY <1>8, <1>9, <2>3
  <2>4. CASE i \notin DOMAIN s /\ j \in DOMAIN s
    BY <1>8, <1>9, <2>4
  <2> QED  BY <2>1, <2>2, <2>3, <2>4
<1> QED  BY <1>2, <1>7, <1>9 DEF u, Distinct

\* The element removed from a list is the only one that goes.
LEMMA RemoveAtKeys ==
    ASSUME NEW T, NEW s \in Seq(T), NEW i \in 1 .. Len(s), Distinct(s)
    PROVE  /\ Keys(RemoveAt(s, i)) = Keys(s) \ {s[i].msg}
           /\ Distinct(RemoveAt(s, i))
<1> DEFINE t == RemoveAt(s, i)
<1>1. /\ DOMAIN s = 1 .. Len(s) /\ DOMAIN t = 1 .. Len(s) - 1 /\ Len(s) \in Nat
      /\ \A j \in 1 .. Len(s) - 1 : t[j] = s[IF j < i THEN j ELSE j + 1]
  BY RemoveAtFacts, LenProperties
<1> HIDE DEF t
<1>2. Distinct(t)
  BY <1>1 DEF Distinct
<1>3. ASSUME NEW m \in Keys(s), m # s[i].msg
      PROVE  m \in Keys(t)
  <2>1. PICK j \in 1 .. Len(s) : s[j].msg = m
    BY <1>1, <1>3 DEF Keys
  <2>2. CASE j < i
    BY <2>1, <2>2, <1>1 DEF Keys
  <2>3. CASE j > i
    <3>1. j - 1 \in 1 .. Len(s) - 1 /\ t[j - 1] = s[j]
      BY <2>3, <1>1
    <3> QED  BY <3>1, <2>1, <1>1 DEF Keys
  <2> QED  BY <1>3, <2>1, <2>2, <2>3
<1>4. \A m \in Keys(t) : m \in Keys(s) /\ m # s[i].msg
  BY <1>1 DEF Keys, Distinct
<1> QED  BY <1>2, <1>3, <1>4 DEF t

\* Where a key is found in a list.
At(s, m) == SelectInSeq(s, LAMBDA e : e.msg = m)

LEMMA IndexFacts ==
    ASSUME NEW T, NEW s \in Seq(T), Distinct(s), NEW m
    PROVE  /\ m \in Keys(s) => At(s, m) \in 1 .. Len(s) /\ s[At(s, m)].msg = m
           /\ m \notin Keys(s) => At(s, m) = 0
<1> DEFINE I == {i \in 1 .. Len(s) : s[i].msg = m}
<1>1. At(s, m) = IF I # {} THEN Min(I) ELSE 0
  BY DEF At, SelectInSeq
<1>2. CASE m \in Keys(s)
  <2>1. PICK i \in 1 .. Len(s) : s[i].msg = m
    BY <1>2, LenProperties DEF Keys
  <2>2. I = {i}
    BY <2>1, LenProperties DEF Distinct
  <2>3. Min(I) = i
    <3> HIDE DEF I
    <3> QED  BY <2>2 DEF Min
  <2> QED  BY <1>1, <1>2, <2>1, <2>2, <2>3
<1>3. CASE m \notin Keys(s)
  <2>1. I = {}
    BY <1>3, LenProperties DEF Keys
  <2> QED  BY <1>1, <1>3, <2>1
<1> QED  BY <1>2, <1>3

\* A list whose elements are rewritten in place keeps its keys.
LEMMA RewriteFacts ==
    ASSUME NEW T, NEW s \in Seq(T), NEW t \in [DOMAIN s -> T],
           \A i \in DOMAIN s : t[i].msg = s[i].msg
    PROVE  /\ t \in Seq(T) /\ Len(t) = Len(s) /\ DOMAIN t = DOMAIN s
           /\ Keys(t) = Keys(s)
           /\ Distinct(s) => Distinct(t)
<1>1. DOMAIN s = 1 .. Len(s) /\ Len(s) \in Nat
  BY LenProperties
<1>2. t \in [1 .. Len(s) -> T]
  BY <1>1
<1>3. t \in Seq(T)
  BY <1>1, <1>2, SeqDef
<1>4. DOMAIN t = DOMAIN s /\ Len(t) = Len(s)
  BY <1>1, <1>2, <1>3, LenProperties
<1>5. Keys(t) = Keys(s)
  BY <1>4 DEF Keys
<1>6. Distinct(s) => Distinct(t)
  BY <1>4 DEF Distinct
<1> QED  BY <1>3, <1>4, <1>5, <1>6

(***************************************************************************)
(* The retry policy.  A is a set of messages that are never retried        *)
(* unasked.                                                                *)
(***************************************************************************)
Entries(A) == {e \in [msg : Msgs, auto : BOOLEAN, force : BOOLEAN, waiting : BOOLEAN] :
                  e.msg \in A => ~e.auto}

GoodPolicy(p, A) ==
    /\ p \in [entries : Seq(Entries(A)), cursor : Nat, inFlight : Msgs \union {None}]
    /\ p.cursor < Len(p.entries) \/ p.cursor = 0
    /\ Distinct(p.entries)

\* The user has pressed Retry and the press has not been served yet.
Asked(p, m) == \E i \in DOMAIN p.entries : p.entries[i].msg = m /\ p.entries[i].force

LEMMA HeldFacts ==
    ASSUME NEW A, NEW p, GoodPolicy(p, A)
    PROVE  /\ p.entries \in Seq(Entries(A)) /\ HeldBy(p) = Keys(p.entries)
           /\ HeldBy(p) \subseteq Msgs
           /\ DOMAIN p.entries = 1 .. Len(p.entries) /\ Len(p.entries) \in Nat
           /\ p.cursor \in Nat /\ p.inFlight \in Msgs \union {None}
           /\ p = [entries |-> p.entries, cursor |-> p.cursor, inFlight |-> p.inFlight]
<1>1. p.entries \in Seq(Entries(A)) /\ p.cursor \in Nat /\ p.inFlight \in Msgs \union {None}
  BY DEF GoodPolicy
<1>2. DOMAIN p.entries = 1 .. Len(p.entries) /\ Len(p.entries) \in Nat
  BY <1>1, LenProperties
<1>3. \A i \in DOMAIN p.entries : p.entries[i] \in Entries(A)
  BY <1>1, <1>2, ElementOfSeq
<1>4. HeldBy(p) = Keys(p.entries)
  BY DEF HeldBy, Keys
<1>5. HeldBy(p) \subseteq Msgs
  BY <1>3 DEF HeldBy, Entries
<1>6. p = [entries |-> p.entries, cursor |-> p.cursor, inFlight |-> p.inFlight]
  BY DEF GoodPolicy
<1> QED  BY <1>1, <1>2, <1>4, <1>5, <1>6

LEMMA NoEntriesFacts ==
    ASSUME NEW A
    PROVE  /\ GoodPolicy(NoEntries(None), A) /\ HeldBy(NoEntries(None)) = {}
           /\ NoEntries(None).inFlight = None
           /\ \A m : ~Asked(NoEntries(None), m)
  BY DEF NoEntries, GoodPolicy, HeldBy, Asked, Distinct

LEMMA AdoptFacts ==
    ASSUME NEW A, NEW p, GoodPolicy(p, A), NEW m \in Msgs, NEW auto \in BOOLEAN,
           m \in A => ~auto
    PROVE  /\ GoodPolicy(Adopt(p, m, auto), A)
           /\ HeldBy(Adopt(p, m, auto)) = HeldBy(p) \union {m}
           /\ Adopt(p, m, auto).inFlight = p.inFlight
           /\ \A n : Asked(Adopt(p, m, auto), n) => Asked(p, n)
<1>1. CASE Holds(p, m)
  BY <1>1 DEF Adopt, Holds
<1>2. CASE ~Holds(p, m)
  <2> DEFINE e == Entry(m, auto)
             es == Append(p.entries, e)
             q == [p EXCEPT !.entries = es]
  <2>1. Adopt(p, m, auto) = q
    BY <1>2 DEF Adopt
  <2>2. e \in Entries(A) /\ e.msg = m /\ e.force = FALSE
    BY DEF Entry, Entries
  <2> HIDE DEF e
  <2>4. /\ es \in Seq(Entries(A)) /\ Len(es) = Len(p.entries) + 1
        /\ \A i \in 1 .. Len(p.entries) : es[i] = p.entries[i]
        /\ es[Len(p.entries) + 1] = e
    BY <2>2, HeldFacts, AppendFacts
  <2>5. Keys(es) = Keys(p.entries) \union {m} /\ Distinct(es)
    BY <1>2, <2>2, HeldFacts, AppendKeys DEF GoodPolicy, Holds
  <2> HIDE DEF es
  <2>3. /\ q.entries = es /\ q.cursor = p.cursor /\ q.inFlight = p.inFlight
        /\ q = [entries |-> es, cursor |-> p.cursor, inFlight |-> p.inFlight]
    BY HeldFacts
  <2> HIDE DEF q
  <2>6. GoodPolicy(q, A)
    BY <2>3, <2>4, <2>5, HeldFacts DEF GoodPolicy
  <2>7. HeldBy(q) = HeldBy(p) \union {m}
    BY <2>3, <2>5, <2>6, HeldFacts
  <2>8. ASSUME NEW n, Asked(q, n)
        PROVE  Asked(p, n)
    <3>1. PICK i \in DOMAIN q.entries : q.entries[i].msg = n /\ q.entries[i].force
      BY <2>8 DEF Asked
    <3>2. DOMAIN q.entries = 1 .. Len(p.entries) + 1
      BY <2>3, <2>4, <2>6, HeldFacts
    <3>3. i # Len(p.entries) + 1
      BY <3>1, <2>2, <2>3, <2>4
    <3>4. i \in DOMAIN p.entries /\ p.entries[i] = q.entries[i]
      BY <3>2, <3>3, <2>3, <2>4, HeldFacts
    <3> QED  BY <3>1, <3>4 DEF Asked
  <2> QED  BY <2>1, <2>3, <2>6, <2>7, <2>8
<1> QED  BY <1>1, <1>2

LEMMA ReleaseFacts ==
    ASSUME NEW A, NEW p, GoodPolicy(p, A), NEW m
    PROVE  /\ GoodPolicy(Release(p, m, None), A)
           /\ Release(p, m, None).entries = p.entries
           /\ Release(p, m, None).cursor = p.cursor
           /\ Release(p, m, None).inFlight = IF p.inFlight = m THEN None ELSE p.inFlight
           /\ HeldBy(Release(p, m, None)) = HeldBy(p)
           /\ \A n : Asked(Release(p, m, None), n) => Asked(p, n)
<1> DEFINE q == Release(p, m, None)
<1>1. /\ q.entries = p.entries /\ q.cursor = p.cursor
      /\ q.inFlight = IF p.inFlight = m THEN None ELSE p.inFlight
      /\ q \in [entries : Seq(Entries(A)), cursor : Nat, inFlight : Msgs \union {None}]
  BY HeldFacts DEF Release
<1> HIDE DEF q
<1>2. GoodPolicy(q, A)
  BY <1>1 DEF GoodPolicy
<1> QED  BY <1>1, <1>2 DEF q, HeldBy, Asked

\* What a step does to a policy whose entries it rewrites in place.
LEMMA InPlaceFacts ==
    ASSUME NEW A, NEW p, GoodPolicy(p, A), NEW q,
           NEW es \in [DOMAIN p.entries -> Entries(A)],
           \A i \in DOMAIN p.entries : es[i].msg = p.entries[i].msg,
           q = [p EXCEPT !.entries = es]
    PROVE  /\ GoodPolicy(q, A) /\ HeldBy(q) = HeldBy(p)
           /\ q.entries = es /\ q.inFlight = p.inFlight
<1>1. /\ q.entries = es /\ q.cursor = p.cursor /\ q.inFlight = p.inFlight
      /\ q = [entries |-> es, cursor |-> p.cursor, inFlight |-> p.inFlight]
  BY HeldFacts
<1>2. /\ es \in Seq(Entries(A)) /\ Len(es) = Len(p.entries)
      /\ Keys(es) = Keys(p.entries) /\ Distinct(es)
  BY HeldFacts, RewriteFacts DEF GoodPolicy
<1>3. GoodPolicy(q, A)
  BY <1>1, <1>2, HeldFacts DEF GoodPolicy
<1> QED  BY <1>1, <1>2, <1>3, HeldFacts

LEMMA FailedFacts ==
    ASSUME NEW A, NEW p, GoodPolicy(p, A), NEW m
    PROVE  /\ GoodPolicy(Failed(p, m, None), A)
           /\ HeldBy(Failed(p, m, None)) = HeldBy(p)
           /\ Failed(p, m, None).inFlight = IF p.inFlight = m THEN None ELSE p.inFlight
           /\ \A n : Asked(Failed(p, m, None), n) => Asked(p, n)
<1> DEFINE r == Release(p, m, None)
           es == [i \in DOMAIN r.entries |->
                     IF r.entries[i].msg = m THEN [r.entries[i] EXCEPT !.waiting = TRUE]
                                             ELSE r.entries[i]]
<1>1. Failed(p, m, None) = [r EXCEPT !.entries = es]
  BY DEF Failed
<1>2. /\ GoodPolicy(r, A) /\ r.entries = p.entries /\ HeldBy(r) = HeldBy(p)
      /\ r.inFlight = IF p.inFlight = m THEN None ELSE p.inFlight
  BY ReleaseFacts
<1> HIDE DEF r
<1>3. \A i \in DOMAIN r.entries : r.entries[i] \in Entries(A)
  BY <1>2, HeldFacts, ElementOfSeq
<1>4. \A i \in DOMAIN r.entries :
         es[i] \in Entries(A) /\ es[i].msg = r.entries[i].msg /\ es[i].force = r.entries[i].force
  BY <1>3 DEF Entries
<1>5. es \in [DOMAIN r.entries -> Entries(A)]
  BY <1>4
<1> HIDE DEF es
<1> DEFINE q == [r EXCEPT !.entries = es]
<1>6. /\ GoodPolicy(q, A) /\ HeldBy(q) = HeldBy(r)
      /\ q.entries = es /\ q.inFlight = r.inFlight
  <2> HIDE DEF GoodPolicy
  <2> QED  BY <1>2, <1>4, <1>5, InPlaceFacts
<1> HIDE DEF q
<1>7. \A n : Asked(q, n) => Asked(p, n)
  BY <1>2, <1>4, <1>5, <1>6 DEF Asked
<1> QED  BY <1>1, <1>2, <1>6, <1>7 DEF q

LEMMA RetryNowFacts ==
    ASSUME NEW A, NEW p, GoodPolicy(p, A), NEW m \in Msgs, NEW auto \in BOOLEAN,
           m \in A => ~auto
    PROVE  /\ GoodPolicy(RetryNow(p, m, auto), A)
           /\ HeldBy(RetryNow(p, m, auto)) = HeldBy(p)
           /\ RetryNow(p, m, auto).inFlight = p.inFlight
           /\ \A n : Asked(RetryNow(p, m, auto), n) => Asked(p, n) \/ n = m
<1>1. CASE p.inFlight = m
  BY <1>1 DEF RetryNow
<1>2. CASE p.inFlight # m
  <2> DEFINE es == [i \in DOMAIN p.entries |->
                       IF p.entries[i].msg = m
                       THEN [msg |-> m, auto |-> auto, force |-> TRUE, waiting |-> FALSE]
                       ELSE p.entries[i]]
             q == [p EXCEPT !.entries = es]
  <2>1. RetryNow(p, m, auto) = q
    BY <1>2 DEF RetryNow
  <2>2. \A i \in DOMAIN p.entries : p.entries[i] \in Entries(A)
    BY HeldFacts, ElementOfSeq
  <2>3. \A i \in DOMAIN p.entries :
           /\ es[i] \in Entries(A) /\ es[i].msg = p.entries[i].msg
           /\ es[i].msg # m => es[i] = p.entries[i]
    BY <2>2 DEF Entries
  <2>4. es \in [DOMAIN p.entries -> Entries(A)]
    BY <2>3
  <2> HIDE DEF es
  <2>5. /\ GoodPolicy(q, A) /\ HeldBy(q) = HeldBy(p)
        /\ q.entries = es /\ q.inFlight = p.inFlight
    BY <2>3, <2>4, InPlaceFacts
  <2> HIDE DEF q
  <2>6. \A n : Asked(q, n) => Asked(p, n) \/ n = m
    BY <2>3, <2>4, <2>5 DEF Asked
  <2> QED  BY <2>1, <2>5, <2>6
<1> QED  BY <1>1, <1>2

LEMMA BackoffFacts ==
    ASSUME NEW A, NEW p, GoodPolicy(p, A), NEW i \in DOMAIN p.entries
    PROVE  /\ GoodPolicy(BackoffOver(p, i), A)
           /\ HeldBy(BackoffOver(p, i)) = HeldBy(p)
           /\ BackoffOver(p, i).inFlight = p.inFlight
           /\ \A n : Asked(BackoffOver(p, i), n) => Asked(p, n)
<1> DEFINE es == [p.entries EXCEPT ![i].waiting = FALSE]
           q == [p EXCEPT !.entries = es]
<1>1. BackoffOver(p, i) = q
  BY DEF BackoffOver
<1>2. /\ p.entries \in [1 .. Len(p.entries) -> Entries(A)]
      /\ \A j \in DOMAIN p.entries : p.entries[j] \in Entries(A)
  BY HeldFacts, ElementOfSeq, LenProperties
<1>3. /\ es \in [DOMAIN p.entries -> Entries(A)]
      /\ \A j \in DOMAIN p.entries :
            es[j].msg = p.entries[j].msg /\ es[j].force = p.entries[j].force
  BY <1>2 DEF Entries
<1> HIDE DEF es
<1>4. /\ GoodPolicy(q, A) /\ HeldBy(q) = HeldBy(p)
      /\ q.entries = es /\ q.inFlight = p.inFlight
  BY <1>3, InPlaceFacts
<1> HIDE DEF q
<1>5. \A n : Asked(q, n) => Asked(p, n)
  BY <1>3, <1>4 DEF Asked
<1> QED  BY <1>1, <1>4, <1>5

\* A pick leaves the cursor inside the entries, and uses up the press on Retry.
LEMMA AttemptedFacts ==
    ASSUME NEW A, NEW p, GoodPolicy(p, A), NEW i \in DOMAIN p.entries
    PROVE  /\ GoodPolicy(Attempted(p, i), A)
           /\ HeldBy(Attempted(p, i)) = HeldBy(p)
           /\ Attempted(p, i).inFlight = p.entries[i].msg
           /\ p.entries[i].msg \in HeldBy(p)
           /\ \A n : Asked(Attempted(p, i), n) => Asked(p, n) /\ n # p.entries[i].msg
<1> DEFINE es == [p.entries EXCEPT ![i].force = FALSE]
           q == Attempted(p, i)
<1>1. /\ p.entries \in [1 .. Len(p.entries) -> Entries(A)]
      /\ \A j \in DOMAIN p.entries : p.entries[j] \in Entries(A)
  BY HeldFacts, ElementOfSeq, LenProperties
<1>2. /\ es \in [DOMAIN p.entries -> Entries(A)]
      /\ \A j \in DOMAIN p.entries :
            /\ es[j].msg = p.entries[j].msg
            /\ es[j].force => p.entries[j].force /\ j # i
  BY <1>1 DEF Entries
<1>3. q = [entries |-> es, cursor |-> i % Len(p.entries), inFlight |-> p.entries[i].msg]
  BY DEF Attempted, CursorPast
<1> HIDE DEF es, q
<1>4. /\ es \in Seq(Entries(A)) /\ Len(es) = Len(p.entries)
      /\ Keys(es) = Keys(p.entries) /\ Distinct(es)
  BY <1>2, HeldFacts, RewriteFacts DEF GoodPolicy
<1>5. i % Len(p.entries) \in 0 .. Len(p.entries) - 1
  BY HeldFacts, SMT
<1>6. p.entries[i].msg \in Msgs
  BY <1>1 DEF Entries
<1>7. /\ q.entries = es /\ q.cursor = i % Len(p.entries)
      /\ q.inFlight = p.entries[i].msg
  BY <1>3
<1>8. q \in [entries : Seq(Entries(A)), cursor : Nat, inFlight : Msgs \union {None}]
  BY <1>3, <1>4, <1>5, <1>6
<1>9. q.cursor < Len(q.entries)
  BY <1>4, <1>5, <1>7, HeldFacts
<1>10. GoodPolicy(q, A)
  BY <1>4, <1>7, <1>8, <1>9 DEF GoodPolicy
<1>11. HeldBy(q) = HeldBy(p) /\ p.entries[i].msg \in HeldBy(p)
  BY <1>4, <1>7, <1>10, HeldFacts DEF HeldBy
<1>12. \A n : Asked(q, n) => Asked(p, n) /\ n # p.entries[i].msg
  BY <1>2, <1>7 DEF Asked, GoodPolicy, Distinct
<1> QED  BY <1>7, <1>10, <1>11, <1>12 DEF q

LEMMA ConfirmedFacts ==
    ASSUME NEW A, NEW p, GoodPolicy(p, A), NEW m
    PROVE  /\ GoodPolicy(Confirmed(p, m, None), A)
           /\ HeldBy(Confirmed(p, m, None)) = HeldBy(p) \ {m}
           /\ Confirmed(p, m, None).inFlight = IF p.inFlight = m THEN None ELSE p.inFlight
           /\ \A n : Asked(Confirmed(p, m, None), n) => Asked(p, n)
<1> DEFINE r == Release(p, m, None)
           i == IndexOf(r, m)
           n == Len(r.entries) - 1
           es == RemoveAt(r.entries, i)
           c == CursorAfterErase(r.cursor, i, n)
           q == [r EXCEPT !.entries = es, !.cursor = c]
<1>1. Confirmed(p, m, None) = IF ~Holds(r, m) THEN r ELSE q
  BY DEF Confirmed
<1>2. /\ GoodPolicy(r, A) /\ HeldBy(r) = HeldBy(p)
      /\ r.inFlight = IF p.inFlight = m THEN None ELSE p.inFlight
      /\ \A k : Asked(r, k) => Asked(p, k)
  BY ReleaseFacts
<1> HIDE DEF r
<1>3. CASE ~Holds(r, m)
  BY <1>1, <1>2, <1>3 DEF Holds
<1>4. CASE Holds(r, m)
  <2>1. /\ r.entries \in Seq(Entries(A)) /\ Distinct(r.entries)
        /\ DOMAIN r.entries = 1 .. Len(r.entries) /\ Len(r.entries) \in Nat
        /\ r.cursor \in Nat /\ (r.cursor < Len(r.entries) \/ r.cursor = 0)
        /\ HeldBy(r) = Keys(r.entries)
    BY <1>2, HeldFacts DEF GoodPolicy
  <2>0. i = At(r.entries, m)
    BY DEF IndexOf, At
  <2>2. i \in 1 .. Len(r.entries) /\ r.entries[i].msg = m
    BY <1>4, <2>1, <2>0, IndexFacts DEF Holds
  <2> HIDE DEF i
  <2>3. /\ es \in Seq(Entries(A)) /\ Len(es) = n
        /\ \A j \in 1 .. n : es[j] = r.entries[IF j < i THEN j ELSE j + 1]
        /\ Keys(es) = HeldBy(r) \ {m} /\ Distinct(es)
    BY <2>1, <2>2, RemoveAtFacts, RemoveAtKeys
  <2> HIDE DEF es
  <2>4. c \in Nat /\ (c < n \/ c = 0)
    BY <2>1, <2>2 DEF CursorAfterErase
  <2> HIDE DEF c
  <2>5. /\ q.entries = es /\ q.cursor = c /\ q.inFlight = r.inFlight
        /\ q = [entries |-> es, cursor |-> c, inFlight |-> r.inFlight]
    <3>1. r = [entries |-> r.entries, cursor |-> r.cursor, inFlight |-> r.inFlight]
      BY <1>2, HeldFacts
    <3>2. DOMAIN r = {"entries", "cursor", "inFlight"}
      BY <3>1
    <3>3. q = [x \in {"entries", "cursor", "inFlight"} |->
                 IF x = "cursor" THEN c ELSE IF x = "entries" THEN es ELSE r[x]]
      BY <3>2
    <3> QED  BY <3>3
  <2> HIDE DEF q
  <2>6. GoodPolicy(q, A)
    BY <1>2, <2>3, <2>4, <2>5, HeldFacts DEF GoodPolicy
  <2>7. HeldBy(q) = HeldBy(p) \ {m}
    BY <1>2, <2>3, <2>5, <2>6, HeldFacts
  <2>8. ASSUME NEW k, Asked(q, k)
        PROVE  Asked(r, k)
    <3>1. PICK j \in DOMAIN q.entries : q.entries[j].msg = k /\ q.entries[j].force
      BY <2>8 DEF Asked
    <3>2. j \in 1 .. n
      BY <2>3, <2>5, <2>6, HeldFacts
    <3>3. (IF j < i THEN j ELSE j + 1) \in DOMAIN r.entries
      BY <2>1, <2>2, <3>2
    <3> QED  BY <3>1, <3>2, <3>3, <2>3, <2>5 DEF Asked
  <2> QED  BY <1>1, <1>2, <1>4, <2>5, <2>6, <2>7, <2>8
<1> QED  BY <1>3, <1>4

(***************************************************************************)
(* What FlattenSeq computes: induction over the lists it joins.            *)
(***************************************************************************)
LEMMA LeastNat ==
    ASSUME NEW S, S \subseteq Nat, S # {}
    PROVE  \E n \in S : \A k \in S : n <= k
<1>1. IsWellFoundedOn(OpToRel(<, Nat), Nat)
  BY NatLessThanWellFounded
<1> DEFINE R == OpToRel(<, Nat)
<1>2. \A x, y \in Nat : x < y => <<x, y>> \in R
  BY DEF OpToRel
<1> HIDE DEF R
<1>3. PICK n \in S : \A k \in S : ~(<<k, n>> \in R)
  BY <1>1, WFMin DEF R
<1>4. \A k \in S : k \in Nat /\ n \in Nat /\ ~(k < n)
  BY <1>2, <1>3
<1>5. \A k \in S : n <= k
  BY <1>4
<1> QED  BY <1>5

\* The lists ss[1] .. ss[n] joined one after the other.
IsFlat(g, ss, n) == g = [i \in 1 .. n |-> IF i = 1 THEN ss[i] ELSE g[i - 1] \o ss[i]]

LEMMA FlatExists ==
    ASSUME NEW ss, NEW n \in Nat
    PROVE  \E g : IsFlat(g, ss, n)
<1> DEFINE S == {k \in Nat : ~\E g : IsFlat(g, ss, k)}
<1>1. SUFFICES ASSUME S # {} PROVE FALSE
  OBVIOUS
<1>2. PICK k \in S : \A j \in S : k <= j
  BY <1>1, LeastNat
<1>3. CASE k = 0
  <2>1. IsFlat([i \in 1 .. 0 |-> 0], ss, 0)
    BY DEF IsFlat
  <2> QED  BY <1>2, <1>3, <2>1
<1>4. CASE k # 0
  <2>1. PICK g : IsFlat(g, ss, k - 1)
    BY <1>2, <1>4
  <2> DEFINE h == [i \in 1 .. k |-> IF i = 1 THEN ss[i] ELSE g[i - 1] \o ss[i]]
  <2>2. \A i \in 1 .. k - 1 : h[i] = g[i]
    <3>1. k \in Nat
      OBVIOUS
    <3>2. TAKE i \in 1 .. k - 1
    <3>3. i \in 1 .. k
      BY <3>1
    <3>4. h[i] = IF i = 1 THEN ss[i] ELSE g[i - 1] \o ss[i]
      BY <3>3, Zenon
    <3>5. g[i] = IF i = 1 THEN ss[i] ELSE g[i - 1] \o ss[i]
      BY <2>1, Zenon DEF IsFlat
    <3> QED  BY <3>4, <3>5
  <2>3. \A i \in 1 .. k : i # 1 => i - 1 \in 1 .. k - 1
    BY <1>2
  <2>4. h = [i \in 1 .. k |-> IF i = 1 THEN ss[i] ELSE h[i - 1] \o ss[i]]
    BY <2>2, <2>3, Zenon
  <2>5. IsFlat(h, ss, k)
    BY <2>4 DEF IsFlat
  <2> QED  BY <1>2, <2>5
<1> QED  BY <1>3, <1>4

LEMMA FlattenIsFlat ==
    ASSUME NEW ss, Len(ss) \in Nat, Len(ss) # 0
    PROVE  \E g : IsFlat(g, ss, Len(ss)) /\ FlattenSeq(ss) = g[Len(ss)]
<1> DEFINE P(g) == g = [i \in 1 .. Len(ss) |-> IF i = 1 THEN ss[i] ELSE g[i - 1] \o ss[i]]
           f == CHOOSE g : P(g)
<1>1. \E g : P(g)
  BY FlatExists DEF IsFlat
<1>2. P(f)
  BY <1>1
<1>3. FlattenSeq(ss) = f[Len(ss)]
  BY DEF FlattenSeq
<1> QED  BY <1>2, <1>3 DEF IsFlat

\* What joined lists hold, when no key is in two of them.
LEMMA FlattenFacts ==
    ASSUME NEW T, NEW n \in Nat, NEW ss \in [1 .. n -> Seq(T)],
           \A i \in 1 .. n : Distinct(ss[i]),
           \A i, j \in 1 .. n : i # j => Keys(ss[i]) \cap Keys(ss[j]) = {}
    PROVE  /\ FlattenSeq(ss) \in Seq(T) /\ Distinct(FlattenSeq(ss))
           /\ Keys(FlattenSeq(ss)) = UNION {Keys(ss[i]) : i \in 1 .. n}
<1>1. ss \in Seq(Seq(T)) /\ Len(ss) = n /\ DOMAIN ss = 1 .. n
  <2>1. ss \in Seq(Seq(T))
    BY SeqDef
  <2> QED  BY <2>1, LenProperties
<1>2. CASE n = 0
  <2>1. ss = << >>
    BY <1>1, <1>2
  <2>2. FlattenSeq(ss) = << >>
    BY <1>1, <1>2, <2>1 DEF FlattenSeq
  <2> QED  BY <1>2, <2>2 DEF Keys, Distinct
<1>3. CASE n # 0
  <2>1. PICK g : IsFlat(g, ss, n) /\ FlattenSeq(ss) = g[n]
    BY <1>1, <1>3, FlattenIsFlat
  <2> DEFINE Before(k) == UNION {Keys(ss[i]) : i \in 1 .. k}
             Joined(k) == g[k] \in Seq(T) /\ Distinct(g[k]) /\ Keys(g[k]) = Before(k)
             S == {k \in 1 .. n : ~Joined(k)}
  <2>2. g[1] = ss[1] /\ \A k \in 2 .. n : g[k] = g[k - 1] \o ss[k]
    <3>1. \A k \in 1 .. n : g[k] = IF k = 1 THEN ss[k] ELSE g[k - 1] \o ss[k]
      BY <2>1, Zenon DEF IsFlat
    <3>2. 1 \in 1 .. n /\ \A k \in 2 .. n : k \in 1 .. n /\ k # 1
      BY <1>3
    <3> QED  BY <3>1, <3>2, Zenon
  <2>3. Joined(1)
    BY <1>3, <2>2
  <2>4. ASSUME NEW k \in 2 .. n, Joined(k - 1)
        PROVE  Joined(k)
    <3>1. g[k - 1] \in Seq(T) /\ ss[k] \in Seq(T) /\ Distinct(ss[k])
      BY <2>4
    <3>2. Keys(g[k - 1]) \cap Keys(ss[k]) = {}
      BY <2>4
    <3>3. Before(k) = Before(k - 1) \union Keys(ss[k])
      OBVIOUS
    <3> HIDE DEF Before
    <3>4. /\ g[k - 1] \o ss[k] \in Seq(T)
          /\ Distinct(g[k - 1] \o ss[k])
          /\ Keys(g[k - 1] \o ss[k]) = Keys(g[k - 1]) \union Keys(ss[k])
      BY <2>4, <3>1, <3>2, ConcatKeys
    <3> QED  BY <2>2, <2>4, <3>3, <3>4
  <2> HIDE DEF Joined
  <2>5. S = {}
    <3>1. SUFFICES ASSUME S # {} PROVE FALSE
      OBVIOUS
    <3>2. PICK k \in S : \A j \in S : k <= j
      <4>1. S \subseteq Nat
        OBVIOUS
      <4> QED  BY <3>1, <4>1, LeastNat
    <3>3. k \in 2 .. n /\ k - 1 \in 1 .. n /\ ~(k <= k - 1)
      BY <2>3, <3>2
    <3> QED  BY <2>4, <3>2, <3>3
  <2>6. Joined(n)
    BY <1>3, <2>5
  <2> QED  BY <2>1, <2>6 DEF Joined
<1> QED  BY <1>2, <1>3

(***************************************************************************)
(* The outbox file.                                                        *)
(***************************************************************************)
Rows(A) == {e \in [msg : Msgs, auto : BOOLEAN] : e.msg \in A => ~e.auto}

GoodDisk(d, A) ==
    /\ d \in [Sessions -> Seq(Rows(A))]
    /\ \A s \in Sessions : Distinct(d[s]) /\ \A m \in Keys(d[s]) : SessionOf[m] = s

InFile(d, m) == m \in Keys(d[SessionOf[m]])

LEMMA InFileFacts ==
    ASSUME NEW A, NEW d, GoodDisk(d, A), NEW s \in Sessions
    PROVE  /\ Keys(d[s]) \subseteq Msgs
           /\ \A m \in Msgs : m \in Keys(d[s]) <=> SessionOf[m] = s /\ InFile(d, m)
<1>1. d[s] \in Seq(Rows(A))
  BY DEF GoodDisk
<1>2. \A i \in DOMAIN d[s] : d[s][i] \in Rows(A)
  BY <1>1, ElementOfSeq, LenProperties
<1>3. Keys(d[s]) \subseteq Msgs
  BY <1>2 DEF Keys, Rows
<1> QED  BY <1>3 DEF GoodDisk, InFile

\* One thread's list in the file is replaced.
LEMMA ReplaceFacts ==
    ASSUME NEW A, NEW d, GoodDisk(d, A), NEW s \in Sessions,
           NEW l \in Seq(Rows(A)), Distinct(l), \A m \in Keys(l) : SessionOf[m] = s
    PROVE  /\ GoodDisk([d EXCEPT ![s] = l], A)
           /\ \A n \in Msgs : InFile([d EXCEPT ![s] = l], n) <=>
                                 IF SessionOf[n] = s THEN n \in Keys(l) ELSE InFile(d, n)
<1> DEFINE f == [d EXCEPT ![s] = l]
<1>1. d \in [Sessions -> Seq(Rows(A))]
  BY DEF GoodDisk
<1>2. /\ f \in [Sessions -> Seq(Rows(A))]
      /\ f[s] = l /\ \A r \in Sessions : r # s => f[r] = d[r]
  BY <1>1
<1> HIDE DEF f
<1>3. GoodDisk(f, A)
  BY <1>2 DEF GoodDisk
<1>4. ASSUME NEW n \in Msgs
      PROVE  InFile(f, n) <=> IF SessionOf[n] = s THEN n \in Keys(l) ELSE InFile(d, n)
  <2>1. SessionOf[n] \in Sessions
    BY SessionOfAssumption
  <2> QED  BY <1>2, <2>1 DEF InFile
<1> QED  BY <1>3, <1>4 DEF f

LEMMA DiskPutFacts ==
    ASSUME NEW A, NEW d, GoodDisk(d, A), NEW m \in Msgs, NEW auto \in BOOLEAN,
           m \in A => ~auto
    PROVE  /\ GoodDisk(DiskPut(d, m, auto), A)
           /\ \A n \in Msgs : InFile(DiskPut(d, m, auto), n) <=> InFile(d, n) \/ n = m
<1> DEFINE s == SessionOf[m]
           at == At(d[s], m)
           value == [msg |-> m, auto |-> auto]
           l == IF at = 0 THEN Append(d[s], value) ELSE ReplaceAt(d[s], at, value)
<1>1. s \in Sessions
  BY SessionOfAssumption
<1>2. d[s] \in Seq(Rows(A)) /\ Distinct(d[s]) /\ \A n \in Keys(d[s]) : SessionOf[n] = s
  BY <1>1 DEF GoodDisk
<1>3. DiskPut(d, m, auto) = [d EXCEPT ![s] = l]
  BY <1>1 DEF DiskPut, At, GoodDisk
<1>4. value \in Rows(A) /\ value.msg = m
  BY DEF Rows
<1>5. /\ m \in Keys(d[s]) => at \in 1 .. Len(d[s]) /\ d[s][at].msg = m
      /\ m \notin Keys(d[s]) => at = 0
  BY <1>2, IndexFacts
<1> HIDE DEF s, at, value
<1>6. l \in Seq(Rows(A)) /\ Distinct(l) /\ Keys(l) = Keys(d[s]) \union {m}
  <2>1. CASE m \notin Keys(d[s])
    BY <1>2, <1>4, <1>5, <2>1, AppendFacts, AppendKeys
  <2>2. CASE m \in Keys(d[s])
    <3>1. DOMAIN d[s] = 1 .. Len(d[s]) /\ d[s] \in [1 .. Len(d[s]) -> Rows(A)]
      BY <1>2, LenProperties
    <3> DEFINE t == [d[s] EXCEPT ![at] = value]
    <3>2. /\ t \in [DOMAIN d[s] -> Rows(A)]
          /\ \A i \in DOMAIN d[s] : t[i].msg = d[s][i].msg
      BY <1>4, <1>5, <2>2, <3>1
    <3> HIDE DEF t
    <3>3. t \in Seq(Rows(A)) /\ Keys(t) = Keys(d[s]) /\ Distinct(t)
      BY <1>2, <3>2, RewriteFacts
    <3>4. l = t
      BY <1>5, <2>2 DEF t, ReplaceAt
    <3> QED  BY <2>2, <3>3, <3>4
  <2> QED  BY <2>1, <2>2
<1> HIDE DEF l
<1>7. \A n \in Keys(l) : SessionOf[n] = s
  BY <1>2, <1>6 DEF s
<1>8. /\ GoodDisk([d EXCEPT ![s] = l], A)
      /\ \A n \in Msgs : InFile([d EXCEPT ![s] = l], n) <=>
                            IF SessionOf[n] = s THEN n \in Keys(l) ELSE InFile(d, n)
  BY <1>1, <1>6, <1>7, ReplaceFacts
<1> QED  BY <1>3, <1>6, <1>8 DEF s, InFile

LEMMA DiskWithoutFacts ==
    ASSUME NEW A, NEW d, GoodDisk(d, A), NEW m \in Msgs
    PROVE  /\ GoodDisk(DiskWithout(d, m), A)
           /\ \A n \in Msgs : InFile(DiskWithout(d, m), n) <=> InFile(d, n) /\ n # m
<1> DEFINE s == SessionOf[m]
           at == At(d[s], m)
           l == IF m \in Keys(d[s]) THEN RemoveAt(d[s], at) ELSE d[s]
<1>1. s \in Sessions
  BY SessionOfAssumption
<1>2. d[s] \in Seq(Rows(A)) /\ Distinct(d[s]) /\ \A n \in Keys(d[s]) : SessionOf[n] = s
  BY <1>1 DEF GoodDisk
<1>3. DiskWithout(d, m) = [d EXCEPT ![s] = l]
  <2>1. DOMAIN d[s] = 1 .. Len(d[s])
    BY <1>2, LenProperties
  <2>2. m \in Keys(d[s]) <=> \E i \in 1 .. Len(d[s]) : d[s][i].msg = m
    BY <2>1 DEF Keys
  <2>3. RemoveFirstMatch(d[s], LAMBDA e : e.msg = m) = l
    BY <2>2 DEF RemoveFirstMatch, At
  <2> QED  BY <1>1, <2>3 DEF DiskWithout, GoodDisk
<1>5. m \in Keys(d[s]) => at \in 1 .. Len(d[s]) /\ d[s][at].msg = m
  BY <1>2, IndexFacts
<1> HIDE DEF s, at
<1>6. l \in Seq(Rows(A)) /\ Distinct(l) /\ Keys(l) = Keys(d[s]) \ {m}
  BY <1>2, <1>5, RemoveAtFacts, RemoveAtKeys
<1> HIDE DEF l
<1>7. \A n \in Keys(l) : SessionOf[n] = s
  BY <1>2, <1>6
<1>8. /\ GoodDisk([d EXCEPT ![s] = l], A)
      /\ \A n \in Msgs : InFile([d EXCEPT ![s] = l], n) <=>
                            IF SessionOf[n] = s THEN n \in Keys(l) ELSE InFile(d, n)
  BY <1>1, <1>6, <1>7, ReplaceFacts
<1> QED  BY <1>3, <1>6, <1>8 DEF s, InFile

(***************************************************************************)
(* The queue.                                                              *)
(***************************************************************************)
\* In the order the messages were typed, so that none is in it twice.
GoodQueue(q) == q \in Seq(Msgs) /\ \A i, j \in DOMAIN q : i < j => q[i] < q[j]

LEMMA QueueAppendFacts ==
    ASSUME NEW q, GoodQueue(q), NEW m \in Msgs, \A n \in Msgs : Contains(q, n) => n < m
    PROVE  /\ GoodQueue(Append(q, m))
           /\ \A n : Contains(Append(q, m), n) <=> Contains(q, n) \/ n = m
<1> DEFINE t == Append(q, m)
<1>1. /\ DOMAIN q = 1 .. Len(q) /\ Len(q) \in Nat
      /\ t \in Seq(Msgs) /\ Len(t) = Len(q) + 1 /\ DOMAIN t = 1 .. Len(q) + 1
      /\ \A i \in 1 .. Len(q) : t[i] = q[i]
      /\ t[Len(q) + 1] = m
  BY AppendFacts, LenProperties DEF GoodQueue
<1> HIDE DEF t
<1>2. GoodQueue(t)
  <2>1. \A i \in 1 .. Len(q) : q[i] \in Msgs /\ q[i] < m
    BY <1>1 DEF GoodQueue, Contains
  <2> QED  BY <1>1, <2>1 DEF GoodQueue
<1>3. \A n : Contains(t, n) <=> Contains(q, n) \/ n = m
  BY <1>1 DEF Contains
<1> QED  BY <1>2, <1>3 DEF t

LEMMA QueueRemoveFacts ==
    ASSUME NEW q, GoodQueue(q), NEW i \in DOMAIN q
    PROVE  /\ GoodQueue(RemoveAt(q, i)) /\ q[i] \in Msgs /\ Contains(q, q[i])
           /\ \A n : Contains(RemoveAt(q, i), n) <=> Contains(q, n) /\ n # q[i]
<1> DEFINE t == RemoveAt(q, i)
<1>1. /\ DOMAIN q = 1 .. Len(q) /\ Len(q) \in Nat /\ q \in Seq(Msgs)
  BY LenProperties DEF GoodQueue
<1>2. /\ t \in Seq(Msgs) /\ Len(t) = Len(q) - 1 /\ DOMAIN t = 1 .. Len(q) - 1
      /\ \A j \in 1 .. Len(q) - 1 : t[j] = q[IF j < i THEN j ELSE j + 1]
  BY <1>1, RemoveAtFacts, LenProperties
<1> HIDE DEF t
<1>3. \A j \in 1 .. Len(q) : q[j] \in Msgs /\ q[j] \in Int
  <2>1. \A j \in 1 .. Len(q) : q[j] \in Msgs
    BY <1>1, ElementOfSeq
  <2>2. Msgs \subseteq Int
    BY Basics
  <2> QED  BY <2>1, <2>2
<1>4. GoodQueue(t)
  <2>1. ASSUME NEW j \in DOMAIN t, NEW k \in DOMAIN t, j < k
        PROVE  t[j] < t[k]
    <3> DEFINE a == IF j < i THEN j ELSE j + 1
               b == IF k < i THEN k ELSE k + 1
    <3>1. a \in DOMAIN q /\ b \in DOMAIN q /\ a < b /\ t[j] = q[a] /\ t[k] = q[b]
      BY <1>1, <1>2, <2>1
    <3> HIDE DEF a, b
    <3> QED  BY <3>1 DEF GoodQueue
  <2> QED  BY <1>2, <2>1 DEF GoodQueue
<1>5. \A n : Contains(t, n) => Contains(q, n) /\ n # q[i]
  <2>1. \A j \in 1 .. Len(q) : j # i => q[j] # q[i]
    BY <1>1, <1>3 DEF GoodQueue
  <2> QED  BY <1>1, <1>2, <2>1 DEF Contains
<1>6. ASSUME NEW n, Contains(q, n), n # q[i]
      PROVE  Contains(t, n)
  <2>1. PICK j \in 1 .. Len(q) : q[j] = n
    BY <1>6 DEF Contains
  <2>2. CASE j < i
    BY <1>1, <1>2, <2>1, <2>2 DEF Contains
  <2>3. CASE j > i
    <3>1. j - 1 \in 1 .. Len(q) - 1 /\ t[j - 1] = q[j]
      BY <1>1, <1>2, <2>3
    <3> QED  BY <1>2, <2>1, <3>1 DEF Contains
  <2> QED  BY <1>6, <2>1, <2>2, <2>3
<1>7. q[i] \in Msgs /\ Contains(q, q[i])
  BY <1>1 DEF Contains
<1> QED  BY <1>4, <1>5, <1>6, <1>7 DEF t

(***************************************************************************)
(* The restore: what the file holds, each message once.                    *)
(***************************************************************************)
LEMMA RestoreFacts ==
    ASSUME NEW A, GoodDisk(disk, A)
    PROVE  LET p == Restored(FlattenSeq([s \in Sessions |-> RestoreList(s)]), None)
           IN /\ GoodPolicy(p, A) /\ p.inFlight = None
              /\ \A m \in Msgs : m \in HeldBy(p) <=> InFile(disk, m)
              /\ \A n : ~Asked(p, n)
<1> DEFINE ss == [s \in Sessions |-> RestoreList(s)]
           T == {e \in Entries(A) : ~e.force}
           l == FlattenSeq(ss)
           p == Restored(l, None)
<1>1. ASSUME NEW s \in Sessions
      PROVE  /\ RestoreList(s) \in Seq(T) /\ Distinct(RestoreList(s))
             /\ Keys(RestoreList(s)) = Keys(disk[s])
  <2>1. disk[s] \in Seq(Rows(A)) /\ Distinct(disk[s])
    BY DEF GoodDisk
  <2>2. DOMAIN disk[s] = 1 .. Len(disk[s]) /\ Len(disk[s]) \in Nat
    BY <2>1, LenProperties
  <2>3. \A i \in DOMAIN disk[s] : disk[s][i] \in Rows(A)
    BY <2>1, <2>2, ElementOfSeq
  <2> DEFINE t == RestoreList(s)
  <2>4. /\ t \in [DOMAIN disk[s] -> T]
        /\ \A i \in DOMAIN disk[s] : t[i].msg = disk[s][i].msg
    BY <2>3 DEF RestoreList, Entry, Rows, Entries
  <2> HIDE DEF t
  <2>5. t \in Seq(T)
    BY <2>2, <2>4, SeqDef
  <2>6. Keys(t) = Keys(disk[s]) /\ Distinct(t)
    BY <2>1, <2>4 DEF Keys, Distinct
  <2> QED  BY <2>5, <2>6 DEF t
<1>2. ss \in [1 .. K -> Seq(T)] /\ \A s \in 1 .. K : ss[s] = RestoreList(s)
  BY <1>1 DEF Sessions
<1>3. \A i, j \in 1 .. K : i # j => Keys(ss[i]) \cap Keys(ss[j]) = {}
  BY <1>1, <1>2 DEF GoodDisk, Sessions
<1>4. \A s \in 1 .. K : Distinct(ss[s]) /\ Keys(ss[s]) = Keys(disk[s])
  BY <1>1, <1>2 DEF Sessions
<1> HIDE DEF ss, T
<1>5. /\ l \in Seq(T) /\ Distinct(l)
      /\ Keys(l) = UNION {Keys(ss[i]) : i \in 1 .. K}
  BY <1>2, <1>3, <1>4, KAssumption, FlattenFacts
<1> HIDE DEF l
<1>6. p = [entries |-> l, cursor |-> 0, inFlight |-> None]
  BY DEF Restored, NoEntries
<1>7. p.entries = l /\ p.cursor = 0 /\ p.inFlight = None
  BY <1>6
<1> HIDE DEF p
<1>8. l \in Seq(Entries(A))
  BY <1>5, SeqMonotonic DEF T
<1>9. GoodPolicy(p, A)
  BY <1>5, <1>6, <1>7, <1>8 DEF GoodPolicy
<1>10. ASSUME NEW m \in Msgs
       PROVE  m \in HeldBy(p) <=> InFile(disk, m)
  <2>1. SessionOf[m] \in Sessions
    BY SessionOfAssumption
  <2>2. m \in HeldBy(p) <=> \E s \in Sessions : m \in Keys(disk[s])
    BY <1>4, <1>5, <1>7, <1>9, HeldFacts DEF Sessions
  <2> QED  BY <2>1, <2>2, InFileFacts
<1>11. \A n : ~Asked(p, n)
  <2>1. \A i \in DOMAIN l : l[i] \in T
    BY <1>5, ElementOfSeq, LenProperties
  <2> QED  BY <1>7, <2>1 DEF Asked, T
<1> QED  BY <1>7, <1>9, <1>10, <1>11 DEF p, l, ss

(***************************************************************************)
(* The inductive invariant.                                                *)
(***************************************************************************)
PlainOK ==
    /\ composed \in 0 .. N /\ open \subseteq Sessions
    /\ slot \in Msgs \union {None} /\ retrySlot \in Msgs \union {None}
    /\ editing \in Msgs \union {None} /\ sending \in Msgs \union {None}
    /\ draining \in Sessions \union {None}
    /\ due \in BOOLEAN /\ restored \in BOOLEAN
    /\ call \in Results \union {"none", "working", "taken"}
    /\ drafts \subseteq Msgs /\ overwritten \subseteq Msgs
    /\ delivered \in [Msgs -> Nat] /\ forced \in [Msgs -> Nat]
    /\ crashes \in 0 .. MaxCrashes

ListsOK == /\ GoodPolicy(policy, OnlyAsked)
           /\ GoodDisk(disk, OnlyAsked)
           /\ GoodQueue(queue)

\* A queued message is nowhere else: not even a press on Retry can name it.
PlacesOK ==
    /\ sending = None <=> call = "none"
    /\ slot # None => slot # sending
    /\ \A m \in Msgs : Contains(queue, m) =>
          m \notin {slot, sending, retrySlot} /\ m \notin HeldBy(policy)
    /\ editing # None => Contains(queue, editing)

\* What is not typed yet is nowhere.
FreshOK ==
    \A m \in Msgs : m > composed =>
        /\ ~Contains(queue, m) /\ m \notin {slot, sending, retrySlot}
        /\ m \notin HeldBy(policy) /\ ~InFile(disk, m) /\ delivered[m] = 0

\* A new process holds nothing until it has read the file.
EmptyOK ==
    ~restored => /\ slot = None /\ retrySlot = None /\ sending = None
                 /\ HeldBy(policy) = {} /\ policy.inFlight = None
                 /\ \A m \in Msgs : ~Contains(queue, m)

FileOK ==
    /\ \A m \in Msgs : Contains(queue, m) \/ sending = m \/ m \in HeldBy(policy) =>
          InFile(disk, m)
    /\ restored => \A m \in Msgs : InFile(disk, m) =>
          Contains(queue, m) \/ m \in {slot, sending} \/ m \in HeldBy(policy) \/ m \in overwritten

InFlightOK ==
    policy.inFlight # None => /\ policy.inFlight \in HeldBy(policy)
                              /\ policy.inFlight \in {slot, sending} \union overwritten

\* The right to be posted once more: to come, in the slot, in the queue, at the
\* worker, or asked for by a press on Retry.
One(b) == IF b THEN 1 ELSE 0
Claims(m) == One(m > composed) + One(slot = m) + One(Contains(queue, m))
             + One(sending = m /\ call = "working") + One(retrySlot = m) + One(Asked(policy, m))
CreditOK == \A m \in OnlyAsked : delivered[m] + Claims(m) <= 1 + forced[m]

\* What a report says of the server's journal.
AnswerOK ==
    /\ call = "taken" => delivered[sending] > 0
    /\ call = "accepted" => delivered[sending] > 0
    /\ call = "presumed" => MayPresume(sending)
    /\ sending \in OnlyAsked => call # "retryable"

\* Unless a submission overwrote the slot, what waits in the queue of a thread was
\* typed after everything of that thread that is under way or held for a retry.
Ahead(n) == n \in {slot, sending, retrySlot} \/ n \in HeldBy(policy)
OrderOK ==
    /\ Editable = {} => editing = None
    /\ overwritten = {} /\ Editable = {} =>
          \A q, n \in Msgs :
             Contains(queue, q) /\ Ahead(n) /\ SessionOf[n] = SessionOf[q] => n < q

IInv == /\ PlainOK /\ ListsOK /\ PlacesOK /\ FreshOK /\ EmptyOK
        /\ FileOK /\ InFlightOK /\ CreditOK /\ AnswerOK /\ OrderOK

LEMMA ClaimsFacts == \A n : Claims(n) \in Nat /\ Claims(n)' \in Nat
<1> TAKE n
<1>1. \A b : One(b) \in Nat
  BY DEF One
<1>2. Claims(n) \in Nat
  BY <1>1 DEF Claims
<1>3. Claims(n)' \in Nat
  BY <1>1 DEF Claims
<1> QED  BY <1>2, <1>3

\* The credit lasts as long as no step adds to the claims and the copies alone.
LEMMA CreditKept ==
    ASSUME PlainOK, PlainOK', CreditOK,
           \A n \in OnlyAsked : delivered'[n] + Claims(n)' + forced[n]
                                    <= delivered[n] + Claims(n) + forced'[n]
    PROVE  CreditOK'
<1> SUFFICES ASSUME NEW n \in OnlyAsked
             PROVE  delivered'[n] + Claims(n)' <= 1 + forced'[n]
  BY DEF CreditOK
<1>1. delivered[n] \in Nat /\ delivered'[n] \in Nat /\ forced[n] \in Nat /\ forced'[n] \in Nat
  BY Basics DEF PlainOK
<1>2. delivered[n] + Claims(n) <= 1 + forced[n]
  BY DEF CreditOK
<1> QED  BY <1>1, <1>2, ClaimsFacts

\* A step that delivers nothing and asks for nothing.
LEMMA QuietCredit ==
    ASSUME PlainOK, PlainOK', CreditOK, delivered' = delivered, forced' = forced,
           \A n \in OnlyAsked : Claims(n)' <= Claims(n)
    PROVE  CreditOK'
<1>1. \A n \in OnlyAsked : delivered[n] \in Nat /\ forced[n] \in Nat
  BY Basics DEF PlainOK
<1> QED  BY <1>1, ClaimsFacts, CreditKept

LEMMA InitOK == Init => IInv
<1> SUFFICES ASSUME Init PROVE IInv
  OBVIOUS
<1>1. PlainOK
  <2>1. composed \in 0 .. N /\ crashes \in 0 .. MaxCrashes
    BY NAssumption, BoundsAssumption DEF Init
  <2>2. delivered \in [Msgs -> Nat] /\ forced \in [Msgs -> Nat]
    BY DEF Init
  <2> QED  BY <2>1, <2>2 DEF Init, PlainOK
<1>2. GoodDisk(disk, OnlyAsked) /\ \A m \in Msgs : ~InFile(disk, m)
  <2>1. disk \in [Sessions -> Seq(Rows(OnlyAsked))] /\ \A s \in Sessions : disk[s] = << >>
    BY DEF Init
  <2>2. \A s \in Sessions : Keys(disk[s]) = {} /\ Distinct(disk[s])
    BY <2>1 DEF Keys, Distinct
  <2> QED  BY <2>1, <2>2, Basics DEF GoodDisk, InFile
<1>3. GoodQueue(queue) /\ \A m : ~Contains(queue, m)
  BY DEF Init, GoodQueue, Contains
<1>4. /\ GoodPolicy(policy, OnlyAsked) /\ HeldBy(policy) = {} /\ policy.inFlight = None
      /\ \A m : ~Asked(policy, m)
  BY NoEntriesFacts DEF Init
<1>5. PlacesOK /\ FreshOK /\ EmptyOK /\ FileOK /\ InFlightOK /\ OrderOK
  BY <1>2, <1>3, <1>4, Basics
     DEF Init, PlacesOK, FreshOK, EmptyOK, FileOK, InFlightOK, OrderOK
<1>6. CreditOK
  BY <1>3, <1>4, Basics DEF Init, CreditOK, Claims, One
<1>7. AnswerOK
  BY DEF Init, AnswerOK
<1> QED  BY <1>1, <1>2, <1>3, <1>4, <1>5, <1>6, <1>7 DEF IInv, ListsOK

(***************************************************************************)
(* The user's steps.                                                       *)
(***************************************************************************)
LEMMA SubmitToIdleOK ==
    ASSUME IInv, NEW m \in Msgs, SubmitToIdle(m)
    PROVE  IInv'
<1> USE DEF IInv
<1>1. /\ m = composed + 1 /\ composed' = m /\ slot' = m /\ due' \in BOOLEAN
      /\ overwritten' = (IF slot = None THEN overwritten ELSE overwritten \union {slot})
      /\ UNCHANGED <<open, editing, forced, retrySlot, queue, policy, restored, sending,
                     draining, call, disk, drafts, delivered, crashes>>
      /\ restored
  BY DEF SubmitToIdle, Types, TurnEnds, Replaced, Quiet, outside
<1>2. m > composed
  BY <1>1, Basics DEF PlainOK
<1>3. PlainOK'
  BY <1>1, Basics DEF PlainOK, Msgs
<1>4. ListsOK'
  BY <1>1 DEF ListsOK
<1>5. PlacesOK'
  BY <1>1, <1>2, Basics DEF PlacesOK, FreshOK, PlainOK
<1>6. FreshOK'
  BY <1>1, <1>2, Basics DEF FreshOK, PlainOK
<1>7. EmptyOK' /\ AnswerOK'
  BY <1>1 DEF EmptyOK, AnswerOK, MayPresume, RunMayBeOn
<1>8. FileOK'
  BY <1>1, Basics DEF FileOK
<1>9. InFlightOK'
  BY <1>1 DEF InFlightOK
<1>10. CreditOK'
  BY <1>1, <1>2, Basics DEF CreditOK, Claims, One, PlainOK
<1>11. OrderOK'
  <2>1. SUFFICES ASSUME overwritten' = {}, Editable = {}, NEW q \in Msgs, NEW n \in Msgs,
                        Contains(queue, q), Ahead(n)', SessionOf[n] = SessionOf[q]
                 PROVE  n < q
    BY <1>1 DEF OrderOK
  <2>2. slot = None /\ overwritten = {}
    BY <1>1, <2>1
  <2>3. CASE n # m
    BY <1>1, <2>1, <2>2, <2>3 DEF OrderOK, Ahead
  <2>4. CASE n = m
    \* The loop had dispatched what waits for an idle thread.
    <3>1. PICK i \in 1 .. Len(queue) : queue[i] = q
      BY <2>1 DEF Contains
    <3>2. DOMAIN queue = 1 .. Len(queue)
      BY LenProperties DEF ListsOK, GoodQueue
    <3>3. ~SendingFor(SessionOf[q]) /\ ~QueueHeld(SessionOf[q])
      BY <2>1, <2>4 DEF SubmitToIdle, QueueHeld, OrderOK
    <3>4. QueueReady = {}
      BY <2>2 DEF SubmitToIdle, Types, Quiet, QueueFirst
    <3> QED  BY <3>1, <3>2, <3>3, <3>4 DEF QueueReady
  <2> QED  BY <2>3, <2>4
<1> QED  BY <1>3, <1>4, <1>5, <1>6, <1>7, <1>8, <1>9, <1>10, <1>11

LEMMA SubmitToBusyOK ==
    ASSUME IInv, NEW m \in Msgs, SubmitToBusy(m)
    PROVE  IInv'
<1> USE DEF IInv
<1>1. /\ m = composed + 1 /\ composed' = m /\ slot' = None /\ due' \in BOOLEAN
      /\ overwritten' = (IF slot = None THEN overwritten ELSE overwritten \union {slot})
      /\ queue' = Append(queue, m)
      /\ disk' = DiskPut(disk, m, FreshAuto(m))
      /\ UNCHANGED <<open, editing, forced, retrySlot, policy, restored, sending,
                     draining, call, drafts, delivered, crashes>>
      /\ restored
  BY DEF SubmitToBusy, Types, TurnEnds, Replaced, Quiet, outside
<1>2. /\ m > composed
      /\ ~Contains(queue, m) /\ m \notin {slot, sending, retrySlot} /\ m \notin HeldBy(policy)
      /\ \A n \in Msgs : Contains(queue, n) => n < m
  BY <1>1, Basics DEF PlainOK, FreshOK
<1>3. PlainOK'
  BY <1>1, Basics DEF PlainOK, Msgs
<1>4. /\ GoodDisk(disk', OnlyAsked)
      /\ \A n \in Msgs : InFile(disk', n) <=> InFile(disk, n) \/ n = m
  BY <1>1, Basics, DiskPutFacts DEF ListsOK
<1>5. /\ GoodQueue(queue')
      /\ \A n : Contains(queue', n) <=> Contains(queue, n) \/ n = m
  BY <1>1, <1>2, QueueAppendFacts DEF ListsOK
<1>6. ListsOK'
  BY <1>1, <1>4, <1>5 DEF ListsOK
<1>7. PlacesOK'
  BY <1>1, <1>2, <1>5, Basics DEF PlacesOK, PlainOK
<1>8. FreshOK'
  BY <1>1, <1>2, <1>4, <1>5, Basics DEF FreshOK, PlainOK
<1>9. EmptyOK' /\ AnswerOK'
  BY <1>1 DEF EmptyOK, AnswerOK, MayPresume, RunMayBeOn
<1>10. FileOK'
  BY <1>1, <1>4, <1>5 DEF FileOK
<1>11. InFlightOK'
  BY <1>1 DEF InFlightOK
<1>12. CreditOK'
  <2>1. ASSUME NEW n \in OnlyAsked
        PROVE  Claims(n)' <= Claims(n)
    <3>1. Contains(queue', n) <=> Contains(queue, n) \/ n = m
      BY <1>5
    <3>2. composed' = composed + 1 /\ composed \in Int /\ n \in Int
      BY <1>1, <2>1, Basics DEF PlainOK
    <3> QED  BY <1>1, <1>2, <3>1, <3>2, Basics DEF Claims, One
  <2> QED  BY <1>1, <1>3, <2>1, QuietCredit
<1>13. OrderOK'
  <2>1. SUFFICES ASSUME overwritten' = {}, Editable = {}, NEW q \in Msgs, NEW n \in Msgs,
                        Contains(queue', q), Ahead(n)', SessionOf[n] = SessionOf[q]
                 PROVE  n < q
    BY <1>1 DEF OrderOK
  <2>2. overwritten = {} /\ Ahead(n)
    BY <1>1, <2>1, Basics DEF Ahead
  <2>3. CASE q = m
    BY <1>1, <2>2, <2>3, Basics DEF FreshOK, Ahead, PlainOK
  <2>4. CASE q # m
    BY <1>5, <2>1, <2>2, <2>4 DEF OrderOK
  <2> QED  BY <2>3, <2>4
<1> QED  BY <1>3, <1>6, <1>7, <1>8, <1>9, <1>10, <1>11, <1>12, <1>13

LEMMA QueueThisOneOK ==
    ASSUME IInv, NEW m \in Msgs, QueueThisOne(m)
    PROVE  IInv'
<1> USE DEF IInv
<1>1. /\ m = composed + 1 /\ composed' = m /\ due' \in BOOLEAN
      /\ queue' = Append(queue, m)
      /\ disk' = DiskPut(disk, m, FreshAuto(m))
      /\ UNCHANGED <<open, editing, forced, slot, retrySlot, policy, restored, sending,
                     draining, call, drafts, delivered, overwritten, crashes>>
      /\ restored
  BY DEF QueueThisOne, Types, TurnEnds, Quiet, outside
<1>2. /\ m > composed
      /\ ~Contains(queue, m) /\ m \notin {slot, sending, retrySlot} /\ m \notin HeldBy(policy)
      /\ \A n \in Msgs : Contains(queue, n) => n < m
  BY <1>1, Basics DEF PlainOK, FreshOK
<1>3. PlainOK'
  BY <1>1, Basics DEF PlainOK, Msgs
<1>4. /\ GoodDisk(disk', OnlyAsked)
      /\ \A n \in Msgs : InFile(disk', n) <=> InFile(disk, n) \/ n = m
  BY <1>1, Basics, DiskPutFacts DEF ListsOK
<1>5. /\ GoodQueue(queue')
      /\ \A n : Contains(queue', n) <=> Contains(queue, n) \/ n = m
  BY <1>1, <1>2, QueueAppendFacts DEF ListsOK
<1>6. ListsOK'
  BY <1>1, <1>4, <1>5 DEF ListsOK
<1>7. PlacesOK'
  BY <1>1, <1>2, <1>5, Basics DEF PlacesOK, PlainOK
<1>8. FreshOK'
  BY <1>1, <1>2, <1>4, <1>5, Basics DEF FreshOK, PlainOK
<1>9. EmptyOK' /\ AnswerOK'
  BY <1>1 DEF EmptyOK, AnswerOK, MayPresume, RunMayBeOn
<1>10. FileOK'
  BY <1>1, <1>4, <1>5 DEF FileOK
<1>11. InFlightOK'
  BY <1>1 DEF InFlightOK
<1>12. CreditOK'
  <2>1. ASSUME NEW n \in OnlyAsked
        PROVE  Claims(n)' <= Claims(n)
    <3>1. Contains(queue', n) <=> Contains(queue, n) \/ n = m
      BY <1>5
    <3>2. composed' = composed + 1 /\ composed \in Int /\ n \in Int
      BY <1>1, <2>1, Basics DEF PlainOK
    <3> QED  BY <1>1, <1>2, <3>1, <3>2, Basics DEF Claims, One
  <2> QED  BY <1>1, <1>3, <2>1, QuietCredit
<1>13. OrderOK'
  <2>1. SUFFICES ASSUME overwritten' = {}, Editable = {}, NEW q \in Msgs, NEW n \in Msgs,
                        Contains(queue', q), Ahead(n)', SessionOf[n] = SessionOf[q]
                 PROVE  n < q
    BY <1>1 DEF OrderOK
  <2>2. overwritten = {} /\ Ahead(n)
    BY <1>1, <2>1, Basics DEF Ahead
  <2>3. CASE q = m
    BY <1>1, <2>2, <2>3, Basics DEF FreshOK, Ahead, PlainOK
  <2>4. CASE q # m
    BY <1>5, <2>1, <2>2, <2>4 DEF OrderOK
  <2> QED  BY <2>3, <2>4
<1> QED  BY <1>3, <1>6, <1>7, <1>8, <1>9, <1>10, <1>11, <1>12, <1>13

LEMMA EditOpensOK ==
    ASSUME IInv, NEW m \in Msgs, EditOpens(m)
    PROVE  IInv'
<1> USE DEF IInv
<1>1. /\ editing' = m /\ Contains(queue, m) /\ due' \in BOOLEAN
      /\ UNCHANGED <<composed, open, forced, slot, retrySlot, queue, policy, restored, sending,
                     draining, call, disk, drafts, delivered, overwritten, crashes>>
  BY DEF EditOpens, Queued, TurnEnds, pipeline, outside
<1>2. PlainOK'
  BY <1>1 DEF PlainOK
<1>3. ListsOK' /\ FreshOK' /\ EmptyOK' /\ FileOK' /\ InFlightOK' /\ AnswerOK'
  BY <1>1 DEF ListsOK, FreshOK, EmptyOK, FileOK, InFlightOK, AnswerOK, MayPresume, RunMayBeOn
<1>4. PlacesOK'
  BY <1>1 DEF PlacesOK
<1>5. CreditOK'
  BY <1>1 DEF CreditOK, Claims
<1>6. OrderOK'
  BY <1>1 DEF OrderOK, Ahead, EditOpens
<1> QED  BY <1>2, <1>3, <1>4, <1>5, <1>6

LEMMA EditEndsOK ==
    ASSUME IInv, EditEnds
    PROVE  IInv'
<1> USE DEF IInv
<1> DEFINE d == DiskWithout(disk, editing)
<1>1. /\ editing # None /\ editing' = None /\ due' \in BOOLEAN
      /\ disk' \in {disk, DiskPut(d, editing, FreshAuto(editing))}
      /\ UNCHANGED <<composed, open, forced, slot, retrySlot, queue, policy, restored, sending,
                     draining, call, drafts, delivered, overwritten, crashes>>
  BY DEF EditEnds, TurnEnds, pipeline, outside
<1>2. editing \in Msgs /\ Contains(queue, editing) /\ InFile(disk, editing)
  BY <1>1 DEF PlainOK, PlacesOK, FileOK
<1>3. /\ GoodDisk(d, OnlyAsked)
      /\ \A n \in Msgs : InFile(d, n) <=> InFile(disk, n) /\ n # editing
  BY <1>2, DiskWithoutFacts DEF ListsOK
<1> HIDE DEF d
\* The rewrite changes the order of the file, not what is in it.
<1>4. GoodDisk(disk', OnlyAsked) /\ \A n \in Msgs : InFile(disk', n) <=> InFile(disk, n)
  <2>1. CASE disk' = disk
    BY <2>1 DEF ListsOK
  <2>2. CASE disk' = DiskPut(d, editing, FreshAuto(editing))
    <3>1. /\ GoodDisk(disk', OnlyAsked)
          /\ \A n \in Msgs : InFile(disk', n) <=> InFile(d, n) \/ n = editing
      BY <1>2, <1>3, <2>2, Basics, DiskPutFacts
    <3> QED  BY <1>2, <1>3, <3>1
  <2> QED  BY <1>1, <2>1, <2>2
<1>5. PlainOK'
  BY <1>1 DEF PlainOK
<1>6. ListsOK' /\ PlacesOK' /\ EmptyOK' /\ InFlightOK' /\ AnswerOK'
  BY <1>1, <1>4 DEF ListsOK, PlacesOK, EmptyOK, InFlightOK, AnswerOK, MayPresume, RunMayBeOn
<1>7. FreshOK' /\ FileOK'
  BY <1>1, <1>4 DEF FreshOK, FileOK
<1>8. CreditOK'
  BY <1>1 DEF CreditOK, Claims
<1>9. OrderOK'
  BY <1>1 DEF OrderOK, Ahead
<1> QED  BY <1>5, <1>6, <1>7, <1>8, <1>9

LEMMA OpensOrClosesOK ==
    ASSUME IInv, NEW s \in Sessions, OpensOrCloses(s)
    PROVE  IInv'
<1> USE DEF IInv
<1>1. /\ open' \subseteq Sessions /\ due' \in BOOLEAN
      /\ UNCHANGED <<composed, editing, forced, slot, retrySlot, queue, policy, restored, sending,
                     draining, call, disk, drafts, delivered, overwritten, crashes>>
  BY DEF OpensOrCloses, TurnEnds, PlainOK, pipeline, outside
<1>2. PlainOK'
  BY <1>1 DEF PlainOK
<1>3. ListsOK' /\ FreshOK' /\ EmptyOK' /\ FileOK' /\ InFlightOK' /\ AnswerOK' /\ PlacesOK'
  BY <1>1
     DEF ListsOK, FreshOK, EmptyOK, FileOK, InFlightOK, AnswerOK, MayPresume, RunMayBeOn, PlacesOK
<1>4. CreditOK'
  BY <1>1 DEF CreditOK, Claims
<1>5. OrderOK'
  BY <1>1 DEF OrderOK, Ahead
<1> QED  BY <1>2, <1>3, <1>4, <1>5

\* A press on Retry is the only step that adds to the credit.
LEMMA AsksRetryOK ==
    ASSUME IInv, NEW m \in Msgs, AsksRetry(m)
    PROVE  IInv'
<1> USE DEF IInv
<1>1. /\ m \in HeldBy(policy) /\ retrySlot = None /\ retrySlot' = m
      /\ forced' = [forced EXCEPT ![m] = @ + 1] /\ due' \in BOOLEAN /\ restored
      /\ UNCHANGED <<composed, open, editing, slot, queue, policy, restored, sending,
                     draining, call, disk, drafts, delivered, overwritten, crashes>>
  BY DEF AsksRetry, Quiet, Holds, TurnEnds, outside
<1>2. PlainOK'
  <2>1. forced' \in [Msgs -> Nat]
    BY <1>1 DEF PlainOK
  <2> QED  BY <1>1, <2>1 DEF PlainOK
<1>3. ListsOK' /\ EmptyOK' /\ FileOK' /\ InFlightOK' /\ AnswerOK'
  BY <1>1 DEF ListsOK, EmptyOK, FileOK, InFlightOK, AnswerOK, MayPresume, RunMayBeOn
<1>4. PlacesOK' /\ FreshOK'
  BY <1>1 DEF PlacesOK, FreshOK
<1>5. CreditOK'
  <2>1. ASSUME NEW n \in OnlyAsked
        PROVE  delivered'[n] + Claims(n)' + forced[n] <= delivered[n] + Claims(n) + forced'[n]
    <3>1. n \in Msgs /\ delivered[n] \in Nat /\ forced[n] \in Nat /\ delivered' = delivered
      BY <1>1, <2>1, Basics DEF PlainOK
    <3>2. CASE n = m
      <4>1. forced'[n] = forced[n] + 1
        BY <1>1, <3>2 DEF PlainOK
      <4>2. Claims(n)' <= Claims(n) + 1
        BY <1>1, <3>2, Basics DEF Claims, One
      <4> QED  BY <3>1, <4>1, <4>2, ClaimsFacts
    <3>3. CASE n # m
      <4>1. forced'[n] = forced[n]
        BY <1>1, <3>1, <3>3 DEF PlainOK
      <4>2. Claims(n)' = Claims(n)
        BY <1>1, <3>1, <3>3, Basics DEF Claims
      <4> QED  BY <3>1, <4>1, <4>2, ClaimsFacts
    <3> QED  BY <3>2, <3>3
  <2> QED  BY <1>2, <2>1, CreditKept
<1>6. OrderOK'
  BY <1>1 DEF OrderOK, Ahead
<1> QED  BY <1>2, <1>3, <1>4, <1>5, <1>6

(***************************************************************************)
(* The steps of the loop and of the worker.                                *)
(***************************************************************************)
LEMMA StartOK ==
    ASSUME IInv, Start
    PROVE  IInv'
<1> USE DEF IInv
<1>1. /\ slot # None /\ sending = None /\ sending' = slot /\ slot' = None
      /\ due' = FALSE /\ call' = "working"
      /\ disk' = DiskPut(disk, slot, FreshAuto(slot))
      /\ UNCHANGED <<composed, open, editing, forced, retrySlot, queue, policy, restored, draining,
                     drafts, delivered, overwritten, crashes>>
  BY DEF Start, WorkerFree, DiskAtStart, ui, outside
<1>2. slot \in Msgs /\ restored
  BY <1>1 DEF PlainOK, EmptyOK
<1>3. /\ GoodDisk(disk', OnlyAsked)
      /\ \A n \in Msgs : InFile(disk', n) <=> InFile(disk, n) \/ n = slot
  BY <1>1, <1>2, Basics, DiskPutFacts DEF ListsOK
<1>4. PlainOK'
  BY <1>1 DEF PlainOK
<1>5. ListsOK' /\ AnswerOK'
  BY <1>1, <1>3 DEF ListsOK, AnswerOK
<1>6. PlacesOK'
  BY <1>1, <1>2, Basics DEF PlacesOK
<1>7. FreshOK' /\ EmptyOK'
  BY <1>1, <1>2, <1>3, Basics DEF FreshOK, EmptyOK
<1>8. FileOK' /\ InFlightOK'
  BY <1>1, <1>3, Basics DEF FileOK, InFlightOK
<1>9. CreditOK'
  <2>1. ASSUME NEW n \in OnlyAsked
        PROVE  Claims(n)' <= Claims(n)
    BY <1>1, Basics DEF Claims, One
  <2> QED  BY <1>1, <1>4, <2>1, QuietCredit
<1>10. OrderOK'
  BY <1>1, Basics DEF OrderOK, Ahead
<1> QED  BY <1>4, <1>5, <1>6, <1>7, <1>8, <1>9, <1>10

LEMMA ServerTakesOK ==
    ASSUME IInv, ServerTakes
    PROVE  IInv'
<1> USE DEF IInv
<1>1. /\ call = "working" /\ call' = "taken"
      /\ delivered' = [delivered EXCEPT ![sending] = TakenAgain(sending)]
      /\ UNCHANGED <<composed, open, editing, forced, slot, retrySlot, queue, policy, restored,
                     sending, draining, disk, drafts, due, overwritten, crashes>>
  BY DEF ServerTakes, ui, loader, pipeline
<1>2. sending \in Msgs /\ delivered \in [Msgs -> Nat]
  BY <1>1 DEF PlainOK, PlacesOK
<1>3. TakenAgain(sending) \in Nat /\ TakenAgain(sending) > 0
      /\ TakenAgain(sending) <= delivered[sending] + 1
  BY <1>2, BoundsAssumption DEF TakenAgain, CopyLimit
<1>4. PlainOK'
  BY <1>1, <1>2, <1>3 DEF PlainOK
<1>5. ListsOK' /\ PlacesOK' /\ EmptyOK' /\ FileOK' /\ InFlightOK' /\ AnswerOK'
  BY <1>1, <1>2, <1>3 DEF ListsOK, PlacesOK, EmptyOK, FileOK, InFlightOK, AnswerOK
<1>6. FreshOK'
  BY <1>1, <1>2 DEF FreshOK
<1>7. CreditOK'
  <2>1. ASSUME NEW n \in OnlyAsked
        PROVE  delivered'[n] + Claims(n)' + forced[n] <= delivered[n] + Claims(n) + forced'[n]
    <3>1. n \in Msgs /\ delivered[n] \in Nat /\ forced[n] \in Nat /\ forced' = forced
      BY <1>1, <2>1, Basics DEF PlainOK
    <3>2. CASE n = sending
      <4>1. Claims(n)' + 1 <= Claims(n)
        BY <1>1, <3>2, Basics DEF Claims, One
      <4>2. delivered'[n] \in Nat /\ delivered'[n] <= delivered[n] + 1
        BY <1>1, <1>2, <1>3, <3>2
      <4> QED  BY <3>1, <4>1, <4>2, ClaimsFacts
    <3>3. CASE n # sending
      <4>1. Claims(n)' = Claims(n)
        BY <1>1, <3>3, Basics DEF Claims, One
      <4>2. delivered'[n] = delivered[n]
        BY <1>1, <1>2, <3>1, <3>3
      <4> QED  BY <3>1, <4>1, <4>2, ClaimsFacts
    <3> QED  BY <3>2, <3>3
  <2> QED  BY <1>4, <2>1, CreditKept
<1>8. OrderOK'
  BY <1>1 DEF OrderOK, Ahead
<1> QED  BY <1>4, <1>5, <1>6, <1>7, <1>8

\* An unkeyed message gets no report that lets it go out again unasked.
LEMMA WorkerReportsOK ==
    ASSUME IInv, WorkerReports
    PROVE  IInv'
<1> USE DEF IInv
<1>1. /\ call \in {"working", "taken"} /\ \E r \in Reports(sending) : call' = KindSeen(r)
      /\ UNCHANGED <<composed, open, editing, forced, slot, retrySlot, queue, policy, restored,
                     sending, draining, disk, drafts, delivered, due, overwritten, crashes>>
  BY DEF WorkerReports, ui, loader, pipeline, outside
<1>2. PICK r \in Reports(sending) : call' = KindSeen(r)
  BY <1>1
<1>3. /\ r \in Results /\ call' \in Results
      /\ call' \in {"accepted", "presumed"} => r = call'
  BY <1>2 DEF Reports, KindSeen, Fine, Results
<1>4. call' \notin {"none", "working", "taken"} /\ call # "none"
  BY <1>1, <1>3 DEF Results
<1>5. PlainOK'
  BY <1>1, <1>3 DEF PlainOK
<1>6. ListsOK' /\ FreshOK' /\ EmptyOK' /\ FileOK' /\ InFlightOK'
  BY <1>1 DEF ListsOK, FreshOK, EmptyOK, FileOK, InFlightOK
<1>7. PlacesOK'
  BY <1>1, <1>4 DEF PlacesOK
<1>8. /\ r = "accepted" => call = "taken"
      /\ r = "presumed" => MayPresume(sending)
  BY <1>1, <1>2 DEF Reports
<1>9. sending \in OnlyAsked => call' # "retryable"
  <2>1. SUFFICES ASSUME sending \in OnlyAsked PROVE call' # "retryable"
    OBVIOUS
  <2>2. sending \in Files /\ Streaming /\ ~Preflight
    BY <2>1, Basics
  <2>3. call' = r
    BY <1>2, <2>2 DEF KindSeen
  <2>4. r # "retryable"
    BY <1>1, <1>2, <2>2 DEF Reports
  <2> QED  BY <2>3, <2>4
<1>10. AnswerOK'
  BY <1>1, <1>3, <1>4, <1>8, <1>9 DEF AnswerOK, MayPresume, RunMayBeOn
<1>11. CreditOK'
  <2>1. ASSUME NEW n \in OnlyAsked
        PROVE  Claims(n)' <= Claims(n)
    BY <1>1, <1>4, Basics DEF Claims, One
  <2> QED  BY <1>1, <1>5, <2>1, QuietCredit
<1>12. OrderOK'
  BY <1>1 DEF OrderOK, Ahead
<1> QED  BY <1>5, <1>6, <1>7, <1>10, <1>11, <1>12

\* A message that leaves the path leaves the file and the policy together.
LEMMA LeavesOK ==
    ASSUME IInv, sending # None, call # "working",
           sending' = None, call' = "none",
           disk' = DiskWithout(disk, sending),
           policy' = Confirmed(policy, sending, None),
           draining' \in Sessions \union {None}, drafts' \subseteq Msgs,
           UNCHANGED <<composed, open, editing, forced, slot, due, retrySlot, queue, restored,
                       delivered, overwritten, crashes>>
    PROVE  IInv'
<1> USE DEF IInv
<1>1. sending \in Msgs
  BY DEF PlainOK
<1>2. /\ GoodDisk(disk', OnlyAsked)
      /\ \A n \in Msgs : InFile(disk', n) <=> InFile(disk, n) /\ n # sending
  BY <1>1, DiskWithoutFacts DEF ListsOK
<1>3. /\ GoodPolicy(policy', OnlyAsked) /\ HeldBy(policy') = HeldBy(policy) \ {sending}
      /\ policy'.inFlight = (IF policy.inFlight = sending THEN None ELSE policy.inFlight)
      /\ \A n : Asked(policy', n) => Asked(policy, n)
  BY ConfirmedFacts DEF ListsOK
<1>4. PlainOK'
  BY DEF PlainOK
<1>5. ListsOK' /\ AnswerOK'
  BY <1>2, <1>3, Basics DEF ListsOK, AnswerOK
<1>6. PlacesOK' /\ EmptyOK'
  BY <1>3, Basics DEF PlacesOK, EmptyOK
<1>7. FreshOK'
  BY <1>2, <1>3, Basics DEF FreshOK
<1>8. FileOK'
  BY <1>1, <1>2, <1>3, Basics DEF FileOK, PlacesOK
<1>9. InFlightOK'
  BY <1>3 DEF InFlightOK
<1>10. CreditOK'
  <2>1. ASSUME NEW n \in OnlyAsked
        PROVE  Claims(n)' <= Claims(n)
    BY <1>3, Basics DEF Claims, One
  <2> QED  BY <1>4, <2>1, QuietCredit
<1>11. OrderOK'
  BY <1>3, Basics DEF OrderOK, Ahead
<1> QED  BY <1>4, <1>5, <1>6, <1>7, <1>8, <1>9, <1>10, <1>11

LEMMA LandAcceptedOK ==
    ASSUME IInv, LandAccepted
    PROVE  IInv'
<1>1. sending # None /\ call # "working" /\ sending \in Msgs
  BY DEF LandAccepted, Fine, IInv, PlacesOK, PlainOK
<1>2. draining' \in Sessions \union {None} /\ drafts' \subseteq Msgs
  BY <1>1, Basics DEF LandAccepted, outside, IInv, PlainOK
<1> QED  BY <1>1, <1>2, LeavesOK DEF LandAccepted, Landed, ui, outside

LEMMA LandHandedBackOK ==
    ASSUME IInv, LandHandedBack
    PROVE  IInv'
<1>1. sending # None /\ call # "working" /\ sending \in Msgs
  BY DEF LandHandedBack, IInv, PlacesOK, PlainOK
<1>2. draining' \in Sessions \union {None} /\ drafts' \subseteq Msgs
  BY <1>1 DEF LandHandedBack, IInv, PlainOK
<1> QED  BY <1>1, <1>2, LeavesOK DEF LandHandedBack, Landed, ui

\* A failed message is kept for a retry, and freed in the policy.
LEMMA LandFailedOK ==
    ASSUME IInv, LandFailed
    PROVE  IInv'
<1> USE DEF IInv
<1> DEFINE m == sending
           auto == AutoAfter(call)
           d == DiskWithout(disk, m)
           p == Adopt(policy, m, auto)
<1>1. /\ call \in {"retryable", "unknown"} /\ sending' = None /\ call' = "none"
      /\ disk' = DiskPut(d, m, auto)
      /\ policy' = Failed(p, m, None)
      /\ UNCHANGED <<composed, open, editing, forced, slot, due, retrySlot, queue, restored, draining,
                     drafts, delivered, overwritten, crashes>>
  BY DEF LandFailed, Landed, KeptAfterFailure, ui, outside
<1>2. m \in Msgs /\ ~Contains(queue, m) /\ slot # m /\ restored /\ m <= composed
  BY <1>1, Basics DEF PlainOK, PlacesOK, EmptyOK, FreshOK
<1>3. auto \in BOOLEAN /\ (m \in OnlyAsked => ~auto)
  BY <1>1 DEF AutoAfter, AnswerOK
<1> HIDE DEF auto
<1>4. GoodDisk(d, OnlyAsked) /\ \A n \in Msgs : InFile(d, n) <=> InFile(disk, n) /\ n # m
  BY <1>2, DiskWithoutFacts DEF ListsOK
<1> HIDE DEF d
<1>5. /\ GoodDisk(disk', OnlyAsked)
      /\ \A n \in Msgs : InFile(disk', n) <=> InFile(disk, n) \/ n = m
  <2>1. /\ GoodDisk(disk', OnlyAsked)
        /\ \A n \in Msgs : InFile(disk', n) <=> InFile(d, n) \/ n = m
    BY <1>1, <1>2, <1>3, <1>4, DiskPutFacts
  <2> QED  BY <2>1, <1>4
<1>6. /\ GoodPolicy(p, OnlyAsked) /\ HeldBy(p) = HeldBy(policy) \union {m}
      /\ p.inFlight = policy.inFlight
      /\ \A n : Asked(p, n) => Asked(policy, n)
  BY <1>2, <1>3, AdoptFacts DEF ListsOK
<1> HIDE DEF p
<1>7. /\ GoodPolicy(policy', OnlyAsked) /\ HeldBy(policy') = HeldBy(policy) \union {m}
      /\ policy'.inFlight = (IF policy.inFlight = m THEN None ELSE policy.inFlight)
      /\ \A n : Asked(policy', n) => Asked(policy, n)
  BY <1>1, <1>6, FailedFacts
<1>8. PlainOK'
  BY <1>1 DEF PlainOK
<1>9. ListsOK' /\ AnswerOK'
  BY <1>1, <1>5, <1>7, Basics DEF ListsOK, AnswerOK
<1>10. PlacesOK' /\ EmptyOK'
  BY <1>1, <1>2, <1>7, Basics DEF PlacesOK, EmptyOK
<1>11. FreshOK'
  BY <1>1, <1>2, <1>5, <1>7, Basics DEF FreshOK, PlainOK
<1>12. FileOK'
  BY <1>1, <1>2, <1>5, <1>7, Basics DEF FileOK
<1>13. InFlightOK'
  BY <1>1, <1>7 DEF InFlightOK
<1>14. CreditOK'
  <2>1. ASSUME NEW n \in OnlyAsked
        PROVE  Claims(n)' <= Claims(n)
    BY <1>1, <1>7, Basics DEF Claims, One
  <2> QED  BY <1>1, <1>8, <2>1, QuietCredit
<1>15. OrderOK'
  BY <1>1, <1>7, Basics DEF OrderOK, Ahead
<1> QED  BY <1>8, <1>9, <1>10, <1>11, <1>12, <1>13, <1>14, <1>15

LEMMA DrainEndsOK ==
    ASSUME IInv, DrainEnds
    PROVE  IInv'
<1> USE DEF IInv
<1>1. /\ draining' = None
      /\ UNCHANGED <<composed, open, editing, forced, slot, due, retrySlot, queue, policy, restored,
                     sending, call, disk, drafts, delivered, overwritten, crashes>>
  BY DEF DrainEnds, ui, outside
<1>2. PlainOK'
  BY <1>1 DEF PlainOK
<1>3. ListsOK' /\ FreshOK' /\ EmptyOK' /\ FileOK' /\ InFlightOK' /\ AnswerOK' /\ PlacesOK'
  BY <1>1
     DEF ListsOK, FreshOK, EmptyOK, FileOK, InFlightOK, AnswerOK, MayPresume, RunMayBeOn, PlacesOK
<1>4. CreditOK'
  BY <1>1 DEF CreditOK, Claims
<1>5. OrderOK'
  BY <1>1 DEF OrderOK, Ahead
<1> QED  BY <1>2, <1>3, <1>4, <1>5

LEMMA DispatchQueuedOK ==
    ASSUME IInv, NEW i \in DOMAIN queue, DispatchQueued(i)
    PROVE  IInv'
<1> USE DEF IInv
<1>1. /\ slot = None /\ FirstReady(i) /\ slot' = queue[i] /\ queue' = RemoveAt(queue, i)
      /\ UNCHANGED <<composed, open, editing, forced, due, retrySlot, policy, restored, sending,
                     draining, call, disk, drafts, delivered, overwritten, crashes>>
  BY DEF DispatchQueued, Dequeued, ui, outside
<1>2. /\ GoodQueue(queue') /\ queue[i] \in Msgs /\ Contains(queue, queue[i])
      /\ \A n : Contains(queue', n) <=> Contains(queue, n) /\ n # queue[i]
  BY <1>1, QueueRemoveFacts DEF ListsOK
\* The message being edited stays: its thread's queue is held.
<1>3. editing # None => queue[i] # editing
  BY <1>1 DEF FirstReady, QueueReady, QueueHeld, Queued, PlacesOK
<1>4. PlainOK'
  BY <1>1, <1>2 DEF PlainOK
<1>5. ListsOK' /\ AnswerOK'
  BY <1>1, <1>2 DEF ListsOK, AnswerOK, MayPresume, RunMayBeOn
<1>6. PlacesOK'
  BY <1>1, <1>2, <1>3 DEF PlacesOK
<1>7. FreshOK' /\ EmptyOK'
  BY <1>1, <1>2 DEF FreshOK, EmptyOK
<1>8. FileOK' /\ InFlightOK'
  BY <1>1, <1>2, Basics DEF FileOK, InFlightOK
<1>9. CreditOK'
  <2>1. ASSUME NEW n \in OnlyAsked
        PROVE  Claims(n)' <= Claims(n)
    <3>1. Contains(queue', n) <=> Contains(queue, n) /\ n # queue[i]
      BY <1>2
    <3> QED  BY <1>1, <1>2, <3>1, Basics DEF Claims, One
  <2> QED  BY <1>1, <1>4, <2>1, QuietCredit
<1>10. OrderOK'
  <2>1. SUFFICES ASSUME overwritten = {}, Editable = {}, NEW q \in Msgs, NEW n \in Msgs,
                        Contains(queue', q), Ahead(n)', SessionOf[n] = SessionOf[q]
                 PROVE  n < q
    BY <1>1 DEF OrderOK
  <2>2. Contains(queue, q) /\ q # queue[i]
    BY <1>2, <2>1
  <2>3. CASE n # queue[i]
    BY <1>1, <2>1, <2>2, <2>3 DEF OrderOK, Ahead
  <2>4. CASE n = queue[i]
    <3>1. PICK j \in 1 .. Len(queue) : queue[j] = q
      BY <2>2 DEF Contains
    <3>2. DOMAIN queue = 1 .. Len(queue) /\ Len(queue) \in Nat
      BY LenProperties DEF ListsOK, GoodQueue
    <3>3. i \in QueueReady /\ \A k \in QueueReady : i <= k
      BY <1>1 DEF FirstReady
    \* What waits for the same thread is as ready.
    <3>4. j \in QueueReady
      BY <2>1, <2>4, <3>1, <3>2, <3>3 DEF QueueReady
    <3>5. i < j
      BY <2>2, <3>1, <3>2, <3>3, <3>4
    <3> QED  BY <2>4, <3>1, <3>2, <3>5 DEF ListsOK, GoodQueue
  <2> QED  BY <2>3, <2>4
<1> QED  BY <1>4, <1>5, <1>6, <1>7, <1>8, <1>9, <1>10

LEMMA RestoreOutboxOK ==
    ASSUME IInv, RestoreOutbox
    PROVE  IInv'
<1> USE DEF IInv
<1>1. /\ ~restored /\ restored' = TRUE
      /\ policy' = Restored(FlattenSeq([s \in Sessions |-> RestoreList(s)]), None)
      /\ UNCHANGED <<composed, open, editing, forced, slot, due, retrySlot, queue, sending, draining,
                     call, disk, drafts, delivered, overwritten, crashes>>
  BY DEF RestoreOutbox, ui, outside
<1>2. /\ GoodPolicy(policy', OnlyAsked) /\ policy'.inFlight = None
      /\ \A m \in Msgs : m \in HeldBy(policy') <=> InFile(disk, m)
      /\ \A n : ~Asked(policy', n)
  BY <1>1, RestoreFacts DEF ListsOK
<1>3. PlainOK'
  BY <1>1 DEF PlainOK
<1>4. ListsOK' /\ AnswerOK'
  BY <1>1, <1>2 DEF ListsOK, AnswerOK, MayPresume, RunMayBeOn
<1>5. PlacesOK' /\ EmptyOK'
  BY <1>1, <1>2 DEF PlacesOK, EmptyOK
<1>6. FreshOK' /\ FileOK' /\ InFlightOK'
  BY <1>1, <1>2 DEF FreshOK, FileOK, InFlightOK, EmptyOK
<1>7. CreditOK'
  <2>1. ASSUME NEW n \in OnlyAsked
        PROVE  Claims(n)' <= Claims(n)
    BY <1>1, <1>2 DEF Claims, One
  <2> QED  BY <1>1, <1>3, <2>1, QuietCredit
<1>8. OrderOK'
  BY <1>1 DEF OrderOK, EmptyOK
<1> QED  BY <1>3, <1>4, <1>5, <1>6, <1>7, <1>8

LEMMA TakeRetryOK ==
    ASSUME IInv, TakeRetry
    PROVE  IInv'
<1> USE DEF IInv
<1> DEFINE m == retrySlot
           p == Adopt(policy, m, FreshAuto(m))
<1>1. /\ retrySlot # None /\ retrySlot' = None
      /\ disk' = DiskPut(disk, m, FreshAuto(m))
      /\ policy' = RetryNow(p, m, FreshAuto(m))
      /\ UNCHANGED <<composed, open, editing, forced, slot, due, queue, restored, sending, draining,
                     call, drafts, delivered, overwritten, crashes>>
  BY DEF TakeRetry, ui, outside
<1>2. m \in Msgs /\ restored /\ ~Contains(queue, m) /\ m <= composed
  BY <1>1, Basics DEF PlainOK, PlacesOK, EmptyOK, FreshOK
<1>3. /\ GoodDisk(disk', OnlyAsked)
      /\ \A n \in Msgs : InFile(disk', n) <=> InFile(disk, n) \/ n = m
  BY <1>1, <1>2, Basics, DiskPutFacts DEF ListsOK
<1>4. /\ GoodPolicy(p, OnlyAsked) /\ HeldBy(p) = HeldBy(policy) \union {m}
      /\ p.inFlight = policy.inFlight
      /\ \A n : Asked(p, n) => Asked(policy, n)
  BY <1>2, Basics, AdoptFacts DEF ListsOK
<1> HIDE DEF p
<1>5. /\ GoodPolicy(policy', OnlyAsked) /\ HeldBy(policy') = HeldBy(policy) \union {m}
      /\ policy'.inFlight = policy.inFlight
      /\ \A n : Asked(policy', n) => Asked(policy, n) \/ n = m
  BY <1>1, <1>2, <1>4, Basics, RetryNowFacts
<1>6. PlainOK'
  BY <1>1 DEF PlainOK
<1>7. ListsOK' /\ AnswerOK'
  BY <1>1, <1>3, <1>5 DEF ListsOK, AnswerOK, MayPresume, RunMayBeOn
<1>8. PlacesOK' /\ EmptyOK'
  BY <1>1, <1>2, <1>5, Basics DEF PlacesOK, EmptyOK
<1>9. FreshOK'
  BY <1>1, <1>2, <1>3, <1>5, Basics DEF FreshOK, PlainOK
<1>10. FileOK' /\ InFlightOK'
  BY <1>1, <1>2, <1>3, <1>5 DEF FileOK, InFlightOK
<1>11. CreditOK'
  <2>1. ASSUME NEW n \in OnlyAsked
        PROVE  Claims(n)' <= Claims(n)
    BY <1>1, <1>5, Basics DEF Claims, One
  <2> QED  BY <1>1, <1>6, <2>1, QuietCredit
<1>12. OrderOK'
  BY <1>1, <1>5, Basics DEF OrderOK, Ahead
<1> QED  BY <1>6, <1>7, <1>8, <1>9, <1>10, <1>11, <1>12

\* The pick of an unkeyed message uses up a press on Retry.
LEMMA DispatchRetryOK ==
    ASSUME IInv, NEW i \in DOMAIN policy.entries, DispatchRetry(i)
    PROVE  IInv'
<1> USE DEF IInv
<1> DEFINE m == policy.entries[i].msg
<1>1. /\ restored /\ slot = None /\ policy.inFlight = None /\ i \in RetryReady
      /\ policy' = Attempted(policy, i) /\ slot' = m
      /\ UNCHANGED <<composed, open, editing, forced, due, retrySlot, queue, restored, sending, draining,
                     call, disk, drafts, delivered, overwritten, crashes>>
  BY DEF DispatchRetry, Quiet, IsNext, ui, outside
<1>2. MayBeSent(policy.entries[i]) /\ ~SendingFor(SessionOf[m])
  BY <1>1 DEF RetryReady
<1>3. policy.entries[i] \in Entries(OnlyAsked) /\ m \in Msgs
  <2>1. policy.entries[i] \in Entries(OnlyAsked)
    BY HeldFacts, ElementOfSeq DEF ListsOK
  <2> QED  BY <2>1 DEF Entries
<1>4. sending # m
  BY <1>2, <1>3, Basics DEF SendingFor
<1>5. m \in OnlyAsked => Asked(policy, m)
  BY <1>2, <1>3 DEF MayBeSent, Entries, Asked
<1>6. /\ GoodPolicy(policy', OnlyAsked) /\ HeldBy(policy') = HeldBy(policy)
      /\ policy'.inFlight = m /\ m \in HeldBy(policy)
      /\ \A n : Asked(policy', n) => Asked(policy, n) /\ n # m
  BY <1>1, AttemptedFacts DEF ListsOK
<1> HIDE DEF m
<1>7. PlainOK'
  BY <1>1, <1>3 DEF PlainOK
<1>8. ListsOK' /\ EmptyOK' /\ AnswerOK'
  BY <1>1, <1>6 DEF ListsOK, EmptyOK, AnswerOK, MayPresume, RunMayBeOn
<1>9. PlacesOK'
  BY <1>1, <1>3, <1>4, <1>6 DEF PlacesOK
<1>10. FreshOK' /\ InFlightOK'
  BY <1>1, <1>3, <1>6 DEF FreshOK, InFlightOK
<1>11. FileOK'
  BY <1>1, <1>6, Basics DEF FileOK
<1>12. CreditOK'
  <2>1. ASSUME NEW n \in OnlyAsked
        PROVE  Claims(n)' <= Claims(n)
    BY <1>1, <1>5, <1>6, Basics DEF Claims, One
  <2> QED  BY <1>1, <1>7, <2>1, QuietCredit
<1>13. OrderOK'
  BY <1>1, <1>6, Basics DEF OrderOK, Ahead
<1> QED  BY <1>7, <1>8, <1>9, <1>10, <1>11, <1>12, <1>13

LEMMA BackoffElapsesOK ==
    ASSUME IInv, NEW i \in DOMAIN policy.entries, BackoffElapses(i)
    PROVE  IInv'
<1> USE DEF IInv
<1>1. /\ policy' = BackoffOver(policy, i)
      /\ UNCHANGED <<composed, open, editing, forced, slot, due, retrySlot, queue, restored, sending,
                     draining, call, disk, drafts, delivered, overwritten, crashes>>
  BY DEF BackoffElapses, ui, outside
<1>2. /\ GoodPolicy(policy', OnlyAsked) /\ HeldBy(policy') = HeldBy(policy)
      /\ policy'.inFlight = policy.inFlight
      /\ \A n : Asked(policy', n) => Asked(policy, n)
  BY <1>1, BackoffFacts DEF ListsOK
<1>3. PlainOK'
  BY <1>1 DEF PlainOK
<1>4. ListsOK' /\ PlacesOK' /\ FreshOK' /\ EmptyOK' /\ FileOK' /\ InFlightOK' /\ AnswerOK'
  BY <1>1, <1>2
     DEF ListsOK, PlacesOK, FreshOK, EmptyOK, FileOK, InFlightOK, AnswerOK, MayPresume, RunMayBeOn
<1>5. CreditOK'
  <2>1. ASSUME NEW n \in OnlyAsked
        PROVE  Claims(n)' <= Claims(n)
    BY <1>1, <1>2 DEF Claims, One
  <2> QED  BY <1>1, <1>3, <2>1, QuietCredit
<1>6. OrderOK'
  BY <1>1, <1>2 DEF OrderOK, Ahead
<1> QED  BY <1>3, <1>4, <1>5, <1>6

(***************************************************************************)
(* The process dies.                                                       *)
(***************************************************************************)
LEMMA MemoryLostOK ==
    ASSUME IInv, MemoryLost, GoodDisk(disk', OnlyAsked),
           \A n \in Msgs : InFile(disk', n) => InFile(disk, n)
    PROVE  IInv'
<1> USE DEF IInv
<1>1. /\ slot' = None /\ due' = FALSE /\ retrySlot' = None /\ queue' = << >> /\ editing' = None
      /\ policy' = NoEntries(None) /\ restored' = FALSE
      /\ sending' = None /\ draining' = None /\ call' = "none" /\ overwritten' = {}
      /\ UNCHANGED <<composed, open, forced, drafts, delivered>>
      /\ crashes' \in 0 .. MaxCrashes
  BY BoundsAssumption DEF MemoryLost, outside, PlainOK
<1>2. /\ GoodPolicy(policy', OnlyAsked) /\ HeldBy(policy') = {} /\ policy'.inFlight = None
      /\ \A n : ~Asked(policy', n)
  BY <1>1, NoEntriesFacts
<1>3. GoodQueue(queue') /\ \A n : ~Contains(queue', n)
  BY <1>1 DEF GoodQueue, Contains
<1>4. PlainOK'
  BY <1>1 DEF PlainOK
<1>5. ListsOK'
  BY <1>2, <1>3 DEF ListsOK
<1>6. PlacesOK' /\ EmptyOK' /\ FileOK' /\ InFlightOK' /\ AnswerOK'
  BY <1>1, <1>2, <1>3, Basics DEF PlacesOK, EmptyOK, FileOK, InFlightOK, AnswerOK
<1>7. FreshOK'
  BY <1>1, <1>2, <1>3, Basics DEF FreshOK
<1>8. CreditOK'
  <2>1. ASSUME NEW n \in OnlyAsked
        PROVE  Claims(n)' <= Claims(n)
    BY <1>1, <1>2, <1>3, Basics DEF Claims, One
  <2> QED  BY <1>1, <1>4, <2>1, QuietCredit
<1>9. OrderOK'
  BY <1>1, <1>3 DEF OrderOK
<1> QED  BY <1>4, <1>5, <1>6, <1>7, <1>8, <1>9

LEMMA CrashOK ==
    ASSUME IInv, Crash
    PROVE  IInv'
<1>1. MemoryLost /\ disk' = disk
  BY DEF Crash
<1> QED  BY <1>1, MemoryLostOK DEF IInv, ListsOK

\* The rewrite that was cut short has taken the message out of the file.
LEMMA CrashInRewriteOK ==
    ASSUME IInv, NEW m \in Msgs, CrashInRewrite(m)
    PROVE  IInv'
<1>1. MemoryLost /\ disk' = DiskWithout(disk, m)
  BY DEF CrashInRewrite
<1>2. /\ GoodDisk(disk', OnlyAsked)
      /\ \A n \in Msgs : InFile(disk', n) <=> InFile(disk, n) /\ n # m
  BY <1>1, DiskWithoutFacts DEF IInv, ListsOK
<1> QED  BY <1>1, <1>2, MemoryLostOK

LEMMA StutterOK ==
    ASSUME IInv, UNCHANGED vars
    PROVE  IInv'
<1> USE DEF IInv
<1>1. UNCHANGED <<composed, open, editing, forced, slot, due, retrySlot, queue, policy, restored,
                  sending, draining, call, disk, drafts, delivered, overwritten, crashes>>
  BY DEF vars, ui, loader, pipeline, outside
<1>2. PlainOK' /\ ListsOK' /\ PlacesOK' /\ FreshOK' /\ EmptyOK' /\ FileOK' /\ InFlightOK'
      /\ AnswerOK'
  BY <1>1
     DEF PlainOK, ListsOK, PlacesOK, FreshOK, EmptyOK, FileOK, InFlightOK, AnswerOK, MayPresume,
         RunMayBeOn
<1>3. CreditOK'
  BY <1>1 DEF CreditOK, Claims
<1>4. OrderOK'
  BY <1>1 DEF OrderOK, Ahead
<1> QED  BY <1>2, <1>3, <1>4

LEMMA NextOK ==
    ASSUME IInv, [Next]_vars
    PROVE  IInv'
<1>1. CASE UserActs
  BY <1>1, SubmitToIdleOK, SubmitToBusyOK, QueueThisOneOK, EditOpensOK, AsksRetryOK, EditEndsOK,
     OpensOrClosesOK DEF UserActs
<1>2. CASE Start \/ ServerTakes \/ WorkerReports
  BY <1>2, StartOK, ServerTakesOK, WorkerReportsOK
<1>3. CASE Land \/ DrainEnds
  BY <1>3, LandAcceptedOK, LandHandedBackOK, LandFailedOK, DrainEndsOK DEF Land
<1>4. CASE DrainQueue \/ RestoreOutbox \/ TakeRetry
  BY <1>4, DispatchQueuedOK, RestoreOutboxOK, TakeRetryOK DEF DrainQueue
<1>5. CASE Retries \/ \E i \in DOMAIN policy.entries : BackoffElapses(i)
  BY <1>5, DispatchRetryOK, BackoffElapsesOK DEF Retries
<1>6. CASE Crash \/ \E m \in Msgs : CrashInRewrite(m)
  BY <1>6, CrashOK, CrashInRewriteOK
<1>7. CASE Rests \/ UNCHANGED vars
  BY <1>7, StutterOK DEF Rests
<1> QED  BY <1>1, <1>2, <1>3, <1>4, <1>5, <1>6, <1>7 DEF Next

LEMMA Inductive == Spec => []IInv
  BY InitOK, NextOK, PTL DEF Spec

(***************************************************************************)
(* The theorems.                                                           *)
(***************************************************************************)
LEMMA OnDiskFacts ==
    /\ \A m : OnDisk(m) <=> InFile(disk, m)
    /\ \A m : OnDisk(m)' <=> InFile(disk', m)
  BY DEF OnDisk, InFile, Keys

\* Every variable has its type, and the retry policy's cursor points into its
\* entries however they leave it (erase_key and attempted of api/outbox.h).
THEOREM TypeCorrect == Spec => []TypeOK
<1>1. ASSUME IInv PROVE TypeOK
  <2>1. PolicyOK(policy, Msgs, None)
    <3>1. Entries(OnlyAsked) \subseteq
             [msg : Msgs, auto : BOOLEAN, force : BOOLEAN, waiting : BOOLEAN]
      BY DEF Entries
    <3>2. policy.entries \in
             Seq([msg : Msgs, auto : BOOLEAN, force : BOOLEAN, waiting : BOOLEAN])
      BY <1>1, <3>1, SeqMonotonic DEF IInv, ListsOK, GoodPolicy
    <3>3. policy = [entries |-> policy.entries, cursor |-> policy.cursor,
                    inFlight |-> policy.inFlight]
          /\ policy.cursor \in Nat /\ policy.inFlight \in Msgs \union {None}
      BY <1>1, HeldFacts DEF IInv, ListsOK
    <3>4. policy.cursor < Len(policy.entries) \/ policy.cursor = 0
      BY <1>1 DEF IInv, ListsOK, GoodPolicy
    <3>5. policy \in [entries : Seq([msg : Msgs, auto : BOOLEAN, force : BOOLEAN,
                                    waiting : BOOLEAN]),
                      cursor : Nat, inFlight : Msgs \union {None}]
      BY <3>2, <3>3
    <3> QED  BY <3>4, <3>5 DEF PolicyOK
  <2>2. DiskOK
    <3>1. Rows(OnlyAsked) \subseteq [msg : Msgs, auto : BOOLEAN]
      BY DEF Rows
    <3>2. disk \in [Sessions -> Seq(Rows(OnlyAsked))]
      BY <1>1 DEF IInv, ListsOK, GoodDisk
    <3>3. ASSUME NEW s \in Sessions
          PROVE  disk[s] \in Seq([msg : Msgs, auto : BOOLEAN])
      <4>1. disk[s] \in Seq(Rows(OnlyAsked))
        BY <3>2
      <4> QED  BY <3>1, <4>1, SeqMonotonic
    <3>4. disk \in [Sessions -> Seq([msg : Msgs, auto : BOOLEAN])]
      BY <3>2, <3>3
    <3>5. \A s \in Sessions : \A i \in DOMAIN disk[s] : SessionOf[disk[s][i].msg] = s
      <4>1. \A s \in Sessions : \A n \in Keys(disk[s]) : SessionOf[n] = s
        BY <1>1 DEF IInv, ListsOK, GoodDisk
      <4>2. \A s \in Sessions : \A i \in DOMAIN disk[s] : disk[s][i].msg \in Keys(disk[s])
        BY DEF Keys
      <4> QED  BY <4>1, <4>2
    <3> QED  BY <3>4, <3>5 DEF DiskOK
  <2> QED  BY <1>1, <2>1, <2>2 DEF TypeOK, IInv, PlainOK, ListsOK, GoodQueue
<1> QED  BY <1>1, Inductive, PTL

\* No frame can send a message twice: it is in one place of the send path (queue,
\* slot, worker), and at most once in the queue, the policy and the file.
THEOREM NothingSentTwice == Spec => []OneOwner
<1>1. ASSUME IInv PROVE OneOwner
  <2>1. \A m : Once(queue, m)
    <3>1. DOMAIN queue = 1 .. Len(queue) /\ Len(queue) \in Nat
          /\ \A i \in DOMAIN queue : queue[i] \in Msgs
      BY <1>1, LenProperties, ElementOfSeq DEF IInv, ListsOK, GoodQueue
    <3>2. Msgs \subseteq Int
      BY Basics
    <3>3. ASSUME NEW i \in DOMAIN queue, NEW j \in DOMAIN queue, queue[i] = queue[j]
          PROVE  i = j
      <4>1. queue[i] \in Int /\ queue[j] \in Int
        BY <3>1, <3>2
      <4>2. i < j => queue[i] < queue[j]
        BY <1>1 DEF IInv, ListsOK, GoodQueue
      <4>3. j < i => queue[j] < queue[i]
        BY <1>1 DEF IInv, ListsOK, GoodQueue
      <4> QED  BY <3>1, <3>3, <4>1, <4>2, <4>3
    <3> QED  BY <3>3 DEF Once
  <2>2. \A m : Once([i \in DOMAIN policy.entries |-> policy.entries[i].msg], m)
    BY <1>1 DEF IInv, ListsOK, GoodPolicy, Distinct, Once
  <2>3. \A m \in Msgs :
           Once([i \in DOMAIN disk[SessionOf[m]] |-> disk[SessionOf[m]][i].msg], m)
    BY <1>1, Basics DEF IInv, ListsOK, GoodDisk, Distinct, Once
  <2> QED  BY <1>1, <2>1, <2>2, <2>3 DEF OneOwner, Queued, IInv, PlacesOK
<1> QED  BY <1>1, Inductive, PTL

\* The outbox file and what the process holds are in step: nothing that is queued,
\* being sent or held for a retry can be lost in a crash, and nothing in the file
\* is forgotten by the running loop, but for what a submission overwrote.
THEOREM FileFollowsProcess == Spec => []FileIsInStep
<1>1. ASSUME IInv PROVE FileIsInStep
  BY <1>1, OnDiskFacts
     DEF IInv, FileOK, FileIsInStep, HeldIsOnDisk, DiskHasOwner, Queued, Holds
<1> QED  BY <1>1, Inductive, PTL

\* The retry policy is blocked only by a held message that is on its way.
THEOREM NeverBlockedByNobody == Spec => []InFlightIsReal
<1>1. ASSUME IInv PROVE InFlightIsReal
  BY <1>1 DEF IInv, InFlightOK, InFlightIsReal, Holds
<1> QED  BY <1>1, Inductive, PTL

\* A message with files, which has no idempotency key, is posted again only when
\* the user presses Retry, whatever crashes.  A client whose failures lose their
\* kind, or an attempt that fails before anything is sent, would break it.
THEOREM UnkeyedGoesOnce ==
    ASSUME Streaming, ~Preflight
    PROVE  Spec => []UnkeyedOnce
<1>1. OnlyAsked = Files
  BY DEF OnlyAsked
<1>2. ASSUME IInv PROVE UnkeyedOnce
  <2>1. SUFFICES ASSUME NEW m \in Files PROVE delivered[m] <= 1 + forced[m]
    BY DEF UnkeyedOnce
  <2>2. delivered[m] + Claims(m) <= 1 + forced[m]
    BY <1>1, <1>2 DEF IInv, CreditOK
  <2>3. delivered[m] \in Nat /\ forced[m] \in Nat
    BY <1>2, SetsAssumption DEF IInv, PlainOK
  <2> QED  BY <2>2, <2>3, ClaimsFacts
<1> QED  BY <1>2, Inductive, PTL

\* A queued message is overtaken by nothing of its thread that was typed later, as
\* long as no submission overwrote the slot and no queued message is edited.
THEOREM QueueKeepsOrder == Spec => QueueInOrder
<1>1. ASSUME IInv, Start, overwritten = {}, Editable = {}, NEW i \in DOMAIN queue,
             SessionOf[queue[i]] = SessionOf[slot]
      PROVE  queue[i] > slot
  <2>1. slot \in Msgs
    BY <1>1 DEF Start, IInv, PlainOK
  <2>2. DOMAIN queue = 1 .. Len(queue) /\ queue[i] \in Msgs
    BY <1>1, LenProperties, ElementOfSeq DEF IInv, ListsOK, GoodQueue
  <2>3. Contains(queue, queue[i]) /\ Ahead(slot)
    BY <2>2 DEF Contains, Ahead
  <2>4. slot < queue[i]
    BY <1>1, <2>1, <2>2, <2>3 DEF IInv, OrderOK
  <2> QED  BY <2>1, <2>2, <2>4, Basics
<1>2. ASSUME IInv
      PROVE  [Start /\ overwritten = {} /\ Editable = {} =>
                 \A i \in DOMAIN queue :
                    SessionOf[queue[i]] = SessionOf[slot] => queue[i] > slot]_vars
  BY <1>1, <1>2
<1> QED  BY <1>2, Inductive, PTL DEF QueueInOrder

\* One step, and a message that it takes out of the file.
LEMMA LeavesSettled ==
    ASSUME IInv, Next, NEW m \in Msgs,
           InFile(disk, m), ~InFile(disk', m), ~CrashInRewrite(m), ~Presumed(m)
    PROVE  delivered'[m] > 0 \/ m \in drafts'
<1>1. GoodDisk(disk, OnlyAsked) /\ PlainOK /\ PlacesOK /\ AnswerOK /\ FreshOK
  BY DEF IInv, ListsOK
<1>2. disk' # disk
  OBVIOUS
<1>3. ASSUME NEW n \in Msgs, NEW auto \in BOOLEAN, disk' = DiskPut(disk, n, auto),
             n \in OnlyAsked => ~auto
      PROVE  FALSE
  BY <1>1, <1>3, DiskPutFacts
<1>4. ASSUME NEW n \in Msgs, NEW auto \in BOOLEAN, n \in OnlyAsked => ~auto,
             disk' = DiskPut(DiskWithout(disk, n), n, auto)
      PROVE  FALSE
  <2>1. /\ GoodDisk(DiskWithout(disk, n), OnlyAsked)
        /\ \A k \in Msgs : InFile(DiskWithout(disk, n), k) <=> InFile(disk, k) /\ k # n
    BY <1>1, <1>4, DiskWithoutFacts
  <2> QED  BY <1>4, <2>1, DiskPutFacts
<1>5. ASSUME NEW n \in Msgs, disk' = DiskWithout(disk, n)
      PROVE  n = m
  BY <1>1, <1>5, DiskWithoutFacts
<1>6. CASE UserActs
  <2>1. ASSUME NEW n \in Msgs, SubmitToBusy(n) \/ QueueThisOne(n)
        PROVE  FALSE
    BY <1>3, <2>1, Basics DEF SubmitToBusy, QueueThisOne
  <2>2. ~EditEnds
    <3>1. SUFFICES ASSUME EditEnds PROVE FALSE
      OBVIOUS
    <3>2. editing \in Msgs
      BY <1>1, <3>1 DEF EditEnds, PlainOK
    <3> QED  BY <1>2, <1>4, <3>1, <3>2, Basics DEF EditEnds
  <2>3. \A n \in Msgs : ~SubmitToIdle(n) /\ ~EditOpens(n) /\ ~AsksRetry(n)
    BY <1>2 DEF SubmitToIdle, EditOpens, AsksRetry
  <2>4. \A s \in Sessions : ~OpensOrCloses(s)
    BY <1>2 DEF OpensOrCloses
  <2> QED  BY <1>6, <2>1, <2>2, <2>3, <2>4 DEF UserActs
<1>7. CASE Start \/ TakeRetry
  <2>1. ~Start
    <3>1. SUFFICES ASSUME Start PROVE FALSE
      OBVIOUS
    <3>2. slot \in Msgs
      BY <1>1, <3>1 DEF Start, PlainOK
    <3> QED  BY <1>3, <3>1, <3>2, Basics DEF Start, DiskAtStart
  <2>2. ~TakeRetry
    <3>1. SUFFICES ASSUME TakeRetry PROVE FALSE
      OBVIOUS
    <3>2. retrySlot \in Msgs
      BY <1>1, <3>1 DEF TakeRetry, PlainOK
    <3> QED  BY <1>3, <3>1, <3>2, Basics DEF TakeRetry
  <2> QED  BY <1>7, <2>1, <2>2
<1>8. CASE Land
  <2>1. sending \in Msgs /\ call # "none"
    BY <1>1, <1>8 DEF Land, LandAccepted, Fine, LandHandedBack, LandFailed, PlacesOK, PlainOK
  <2>2. CASE LandAccepted
    <3>1. disk' = DiskWithout(disk, sending) /\ call \in Fine /\ delivered' = delivered
      BY <2>2 DEF LandAccepted, outside
    <3>2. m = sending
      BY <1>5, <2>1, <3>1
    <3>3. call = "accepted"
      BY <1>1, <3>1, <3>2 DEF Fine, Presumed, AnswerOK
    <3> QED  BY <1>1, <3>1, <3>2, <3>3 DEF AnswerOK
  <2>3. CASE LandHandedBack
    BY <1>5, <2>1, <2>3 DEF LandHandedBack
  <2>4. CASE LandFailed
    <3>1. AutoAfter(call) \in BOOLEAN /\ (sending \in OnlyAsked => ~AutoAfter(call))
      BY <1>1, <2>4 DEF LandFailed, AutoAfter, AnswerOK
    <3> QED  BY <1>4, <2>1, <2>4, <3>1 DEF LandFailed, KeptAfterFailure
  <2> QED  BY <1>8, <2>2, <2>3, <2>4 DEF Land
<1>9. CASE \E n \in Msgs : CrashInRewrite(n)
  <2>1. PICK n \in Msgs : CrashInRewrite(n)
    BY <1>9
  <2>2. n = m
    BY <1>5, <2>1 DEF CrashInRewrite
  <2> QED  BY <2>1, <2>2
<1>10. ~(ServerTakes \/ WorkerReports \/ DrainEnds \/ RestoreOutbox \/ Crash \/ Rests)
  BY <1>2 DEF ServerTakes, WorkerReports, DrainEnds, RestoreOutbox, Crash, Rests, vars
<1>11. ~(DrainQueue \/ Retries \/ \E i \in DOMAIN policy.entries : BackoffElapses(i))
  BY <1>2 DEF DrainQueue, DispatchQueued, Retries, DispatchRetry, BackoffElapses
<1> QED  BY <1>6, <1>7, <1>8, <1>9, <1>10, <1>11 DEF Next

\* A message leaves the file only when the server has it, when its composer got it
\* back, or when it is a text whose turn was reported done while the line could be
\* silent or a run that it did not start could be under way: so never one with
\* files, and none that starts the first run of a thread of the user's own.
THEOREM KeptUntilTaken == Spec => KeptUntilReported
<1>1. ASSUME IInv, [Next]_vars
      PROVE  [\A m \in Msgs : OnDisk(m) /\ ~OnDisk(m)' /\ ~CrashInRewrite(m) /\ ~Presumed(m)
                                 => delivered'[m] > 0 \/ m \in drafts']_disk
  <2>1. CASE UNCHANGED vars
    BY <2>1 DEF vars
  <2>2. CASE Next
    BY <1>1, <2>2, LeavesSettled, OnDiskFacts
  <2> QED  BY <1>1, <2>1, <2>2
<1>2. IInv /\ [Next]_vars =>
         [\A m \in Msgs : OnDisk(m) /\ ~OnDisk(m)' /\ ~CrashInRewrite(m) /\ ~Presumed(m)
                             => delivered'[m] > 0 \/ m \in drafts']_disk
  BY <1>1
<1> QED  BY <1>2, Inductive, PTL DEF Spec, KeptUntilReported

(***************************************************************************)
(* SendPipeline implements DurableSend.                                    *)
(***************************************************************************)
\* What the invariant lacks: a message that is in the slot and not in the file was
\* never under way before, and what a press on Retry names is not such a message.
Settled(m) == delivered[m] > 0 \/ m \in drafts
DurableOK ==
    /\ \A m \in drafts : m <= composed
    /\ slot # None /\ ~InFile(disk, slot) => ~Settled(slot)
    /\ retrySlot # None /\ ~InFile(disk, retrySlot) => slot # retrySlot

LEMMA PlaceIs ==
    /\ \A m \in Msgs :
          /\ PlaceBar[m] = IF m > composed THEN "untyped"
                           ELSE IF InFile(disk, m) THEN "file"
                           ELSE IF slot = m THEN "memory"
                           ELSE IF Settled(m) THEN "settled" ELSE "lost"
          /\ PlaceBar'[m] = IF m > composed' THEN "untyped"
                            ELSE IF InFile(disk', m) THEN "file"
                            ELSE IF slot' = m THEN "memory"
                            ELSE IF Settled(m)' THEN "settled" ELSE "lost"
    /\ PlaceBar = [m \in Msgs |-> PlaceBar[m]]
    /\ PlaceBar' = [m \in Msgs |-> PlaceBar'[m]]
  BY OnDiskFacts DEF PlaceBar, PlaceOf, Settled

\* One message moves and the others stay where they are.
LEMMA OneMoves ==
    ASSUME NEW m \in Msgs, NEW p, PlaceBar'[m] = p,
           \A n \in Msgs : n # m => PlaceBar'[n] = PlaceBar[n]
    PROVE  PlaceBar' = Promise!Moves({m}, p)
<1>1. Promise!Moves({m}, p) = [n \in Msgs |-> IF n \in {m} THEN p ELSE PlaceBar[n]]
  BY DEF Promise!Moves
<1>2. \A n \in Msgs : PlaceBar'[n] = IF n \in {m} THEN p ELSE PlaceBar[n]
  OBVIOUS
<1> HIDE DEF PlaceBar
<1> QED  BY <1>1, <1>2, PlaceIs

\* A step that types nothing, changes no message's place in the file, hands out of
\* the slot or into it only what is in the file, delivers nothing and presses nothing.
LEMMA QuietStutters ==
    ASSUME DurableOK, PlainOK, PlainOK',
           composed' = composed, delivered' = delivered, drafts' = drafts,
           retrySlot' = retrySlot, forced' = forced,
           \A m \in Msgs : InFile(disk', m) <=> InFile(disk, m),
           \/ slot' = slot
           \/ /\ slot = None \/ InFile(disk, slot)
              /\ slot' = None \/ InFile(disk, slot')
    PROVE  DurableOK' /\ UNCHANGED Promise!durable
<1>1. \A m \in Msgs : m # None
  BY Basics
<1>2. \A m \in Msgs : Settled(m)' <=> Settled(m)
  BY DEF Settled
<1>3. \A m \in Msgs : PlaceBar'[m] = PlaceBar[m]
  BY <1>1, <1>2, PlaceIs
<1>4. PlaceBar' = PlaceBar
  BY <1>3, PlaceIs
<1>5. slot \in Msgs \union {None} /\ slot' \in Msgs \union {None} /\ retrySlot \in Msgs \union {None}
  BY DEF PlainOK
<1>6. DurableOK'
  BY <1>2, <1>5 DEF DurableOK
<1> QED  BY <1>4, <1>6 DEF Promise!durable

LEMMA FileAfter ==
    ASSUME ListsOK, NEW m \in Msgs
    PROVE  /\ \A n \in Msgs : InFile(DiskPut(disk, m, FreshAuto(m)), n) <=> InFile(disk, n) \/ n = m
           /\ \A n \in Msgs : InFile(DiskWithout(disk, m), n) <=> InFile(disk, n) /\ n # m
           /\ \A auto \in BOOLEAN : (m \in OnlyAsked => ~auto) =>
                 \A n \in Msgs : InFile(DiskPut(DiskWithout(disk, m), m, auto), n)
                                    <=> InFile(disk, n) \/ n = m
<1>1. GoodDisk(disk, OnlyAsked)
  BY DEF ListsOK
<1>2. \A n \in Msgs : InFile(DiskPut(disk, m, FreshAuto(m)), n) <=> InFile(disk, n) \/ n = m
  BY <1>1, Basics, DiskPutFacts
<1>3. /\ GoodDisk(DiskWithout(disk, m), OnlyAsked)
      /\ \A n \in Msgs : InFile(DiskWithout(disk, m), n) <=> InFile(disk, n) /\ n # m
  BY <1>1, DiskWithoutFacts
<1>4. ASSUME NEW auto \in BOOLEAN, m \in OnlyAsked => ~auto
      PROVE  \A n \in Msgs : InFile(DiskPut(DiskWithout(disk, m), m, auto), n)
                                <=> InFile(disk, n) \/ n = m
  <2> DEFINE d == DiskWithout(disk, m)
  <2>1. GoodDisk(d, OnlyAsked)
    BY <1>3
  <2> HIDE DEF d
  <2>2. \A n \in Msgs : InFile(DiskPut(d, m, auto), n) <=> InFile(d, n) \/ n = m
    BY <1>4, <2>1, DiskPutFacts
  <2> QED  BY <1>3, <2>2 DEF d
<1> QED  BY <1>2, <1>3, <1>4

\* Typing puts a message into the slot or into the file, and may lose what was in
\* the slot and nowhere else.
LEMMA TypesImplements ==
    ASSUME IInv, IInv', DurableOK, NEW m \in Msgs,
           SubmitToIdle(m) \/ SubmitToBusy(m) \/ QueueThisOne(m)
    PROVE  DurableOK' /\ Promise!Next
<1>1. /\ m = composed + 1 /\ composed' = m /\ composed \in Nat
      /\ delivered' = delivered /\ drafts' = drafts /\ retrySlot' = retrySlot /\ forced' = forced
  BY DEF SubmitToIdle, SubmitToBusy, QueueThisOne, Types, outside, IInv, PlainOK
<1>2. /\ slot \in Msgs \union {None} /\ slot' \in Msgs \union {None}
      /\ retrySlot \in Msgs \union {None} /\ Msgs \subseteq Nat /\ None \notin Msgs
  BY Basics DEF IInv, PlainOK
<1>3. ~InFile(disk, m) /\ slot # m /\ ~Settled(m) /\ delivered[m] = 0
  BY <1>1, <1>2 DEF IInv, FreshOK, DurableOK, Settled
<1>4. \A n \in Msgs : Settled(n)' <=> Settled(n)
  BY <1>1 DEF Settled
<1>5. \/ slot' = m /\ \A n \in Msgs : InFile(disk', n) <=> InFile(disk, n)
      \/ slot' \in {None, slot} /\ \A n \in Msgs : InFile(disk', n) <=> InFile(disk, n) \/ n = m
  BY FileAfter DEF SubmitToIdle, SubmitToBusy, QueueThisOne, IInv
<1>6. DurableOK'
  <2>1. \A n \in drafts' : n <= composed'
    <3>1. drafts \subseteq Msgs
      BY DEF IInv, PlainOK
    <3> QED  BY <1>1, <1>2, <3>1 DEF DurableOK
  <2>2. slot' # None /\ ~InFile(disk', slot') => ~Settled(slot)'
    <3>1. SUFFICES ASSUME slot' # None, ~InFile(disk', slot') PROVE ~Settled(slot)'
      OBVIOUS
    <3>2. ~Settled(slot')
      BY <1>2, <1>3, <1>5, <3>1 DEF DurableOK
    <3> QED  BY <1>1, <3>2 DEF Settled
  <2>3. retrySlot' = None
    BY <1>1 DEF SubmitToIdle, SubmitToBusy, QueueThisOne, Types, Quiet
  <2> QED  BY <2>1, <2>2, <2>3 DEF DurableOK
<1> DEFINE gone == {n \in Msgs : PlaceBar[n] = "memory" /\ slot' # n}
           p == IF slot' = m THEN "memory" ELSE "file"
<1>7. \A n \in Msgs : PlaceBar[n] = "memory" => n = slot
  BY PlaceIs
<1>8. gone \in {{}, Promise!InMemory} /\ (p = "memory" => gone = Promise!InMemory)
  <2>1. Promise!InMemory = {n \in Msgs : PlaceBar[n] = "memory"}
    BY DEF Promise!InMemory, Promise!Is
  <2>2. CASE slot' = slot
    BY <1>3, <1>7, <2>2
  <2>3. CASE slot' # slot
    <3>1. gone = Promise!InMemory
      BY <1>7, <2>1, <2>3, <1>3, <1>5
    <3> QED  BY <3>1
  <2> QED  BY <2>2, <2>3
<1>9. PlaceBar[m] = "untyped"
  BY <1>1, PlaceIs
<1>10. \A n \in Msgs : PlaceBar'[n] = IF n = m THEN p
                                     ELSE IF n \in gone THEN "lost" ELSE PlaceBar[n]
  <2> SUFFICES ASSUME NEW n \in Msgs
               PROVE  PlaceBar'[n] = IF n = m THEN p
                                     ELSE IF n \in gone THEN "lost" ELSE PlaceBar[n]
    OBVIOUS
  <2>1. CASE n = m
    BY <1>1, <1>2, <1>3, <1>5, <2>1, PlaceIs
  <2>2. CASE n # m
    <3>1. n > composed' <=> n > composed
      BY <1>1, <1>2, <2>2
    <3>2. InFile(disk', n) <=> InFile(disk, n)
      BY <1>5, <2>2
    <3>3. slot' = n => slot = n
      BY <1>2, <1>5, <2>2
    <3>4. slot = n /\ ~InFile(disk, n) => ~Settled(n)
      BY <1>2 DEF DurableOK
    <3> QED  BY <1>4, <2>2, <3>1, <3>2, <3>3, <3>4, PlaceIs
  <2> QED  BY <2>1, <2>2
<1> HIDE DEF gone, p
<1>11. PlaceBar' = [Promise!Moves(gone, "lost") EXCEPT ![m] = p]
  <2>1. Promise!Moves(gone, "lost") = [n \in Msgs |-> IF n \in gone THEN "lost" ELSE PlaceBar[n]]
    BY DEF Promise!Moves
  <2>2. [Promise!Moves(gone, "lost") EXCEPT ![m] = p]
            = [n \in Msgs |-> IF n = m THEN p ELSE IF n \in gone THEN "lost" ELSE PlaceBar[n]]
    BY <2>1
  <2> QED  BY <1>10, <2>2, PlaceIs
<1>12. p \in {"memory", "file"}
  BY DEF p
<1>13. Promise!Types(m)
  BY <1>1, <1>8, <1>9, <1>11, <1>12 DEF Promise!Types, Promise!Is
<1> QED  BY <1>6, <1>13 DEF Promise!Next

LEMMA StartImplements ==
    ASSUME IInv, IInv', DurableOK, Start
    PROVE  DurableOK' /\ (Promise!Next \/ UNCHANGED Promise!durable)
<1>1. /\ composed' = composed /\ delivered' = delivered /\ drafts' = drafts
      /\ retrySlot' = retrySlot /\ forced' = forced
      /\ slot # None /\ slot' = None /\ disk' = DiskPut(disk, slot, FreshAuto(slot))
  BY DEF Start, DiskAtStart, ui, outside
<1>2. /\ slot \in Msgs /\ retrySlot \in Msgs \union {None} /\ None \notin Msgs
      /\ Msgs \subseteq Nat /\ composed \in Nat
  BY <1>1, Basics DEF IInv, PlainOK
<1>3. \A n \in Msgs : InFile(disk', n) <=> InFile(disk, n) \/ n = slot
  BY <1>1, <1>2, FileAfter DEF IInv
<1>4. \A n \in Msgs : Settled(n)' <=> Settled(n)
  BY <1>1 DEF Settled
<1>5. CASE InFile(disk, slot)
  BY <1>1, <1>2, <1>3, <1>5, QuietStutters DEF IInv
<1>6. CASE ~InFile(disk, slot)
  <2>1. DurableOK'
    BY <1>1, <1>2, <1>3, <1>4 DEF DurableOK
  <2>2. slot <= composed
    BY <1>2 DEF IInv, FreshOK
  <2>3. PlaceBar[slot] = "memory" /\ PlaceBar'[slot] = "file"
    BY <1>1, <1>2, <1>3, <1>6, <2>2, PlaceIs
  <2>4. \A n \in Msgs : n # slot => PlaceBar'[n] = PlaceBar[n]
    BY <1>1, <1>2, <1>3, <1>4, PlaceIs
  <2>5. PlaceBar' = Promise!Moves({slot}, "file")
    BY <1>2, <2>3, <2>4, OneMoves
  <2>6. Promise!Saves(slot)
    BY <1>1, <2>3, <2>5 DEF Promise!Saves, Promise!Is
  <2> QED  BY <1>2, <2>1, <2>6 DEF Promise!Next
<1> QED  BY <1>5, <1>6

\* The server takes what is in the file, and no oftener than it may.
LEMMA TakesImplements ==
    ASSUME IInv, IInv', DurableOK, ServerTakes
    PROVE  DurableOK' /\ (Promise!Next \/ UNCHANGED Promise!durable)
<1>1. /\ composed' = composed /\ slot' = slot /\ disk' = disk /\ drafts' = drafts
      /\ retrySlot' = retrySlot /\ forced' = forced
      /\ call = "working" /\ delivered' = [delivered EXCEPT ![sending] = TakenAgain(sending)]
  BY DEF ServerTakes, ui, loader, pipeline
<1>2. /\ sending \in Msgs /\ delivered \in [Msgs -> Nat] /\ forced \in [Msgs -> Nat]
      /\ None \notin Msgs /\ slot # sending /\ InFile(disk, sending)
      /\ {slot, retrySlot} \subseteq Msgs \union {None}
  BY <1>1, Basics DEF IInv, PlainOK, PlacesOK, FileOK
<1>3. CASE delivered' = delivered
  BY <1>1, <1>3, QuietStutters DEF IInv
<1>4. CASE delivered' # delivered
  <2>1. /\ delivered' = [delivered EXCEPT ![sending] = @ + 1]
        /\ delivered[sending] < CopyLimit(sending)
    BY <1>1, <1>2, <1>4 DEF TakenAgain
  <2>2. delivered'[sending] = delivered[sending] + 1
        /\ \A n \in Msgs : n # sending => delivered'[n] = delivered[n]
    BY <1>2, <2>1
  <2>3. sending \in Msgs \ Files => delivered[sending] = 0
    BY <1>2, <2>1 DEF CopyLimit
  <2>4. sending \in OnlyAsked => delivered[sending] < 1 + forced[sending]
    <3>1. SUFFICES ASSUME sending \in OnlyAsked PROVE delivered[sending] < 1 + forced[sending]
      OBVIOUS
    <3>2. \A n \in OnlyAsked : delivered'[n] + Claims(n)' <= 1 + forced'[n]
      BY DEF IInv, CreditOK
    <3>3. \A n \in OnlyAsked : n = sending => delivered[n] < 1 + forced[n]
      <4> SUFFICES ASSUME NEW n \in OnlyAsked, n = sending PROVE delivered[n] < 1 + forced[n]
        OBVIOUS
      <4>1. delivered'[n] + Claims(n)' <= 1 + forced[n] /\ Claims(n)' \in Nat
        BY <1>1, <3>2, ClaimsFacts
      <4> QED  BY <1>2, <2>2, <4>1
    <3> QED  BY <3>1, <3>3
  <2>5. \A n \in Msgs : Settled(n) => Settled(n)'
    BY <1>1, <1>2, <2>2 DEF Settled
  <2>6. DurableOK'
    BY <1>1, <1>2, <2>2, <2>5 DEF DurableOK, Settled
  <2>7. \A n \in Msgs : n # sending => (Settled(n)' <=> Settled(n))
    BY <1>1, <2>2 DEF Settled
  <2>8. sending <= composed
    BY <1>2, Basics DEF IInv, FreshOK, PlainOK
  <2>9. PlaceBar' = PlaceBar
    <3>1. \A n \in Msgs : PlaceBar'[n] = PlaceBar[n]
      BY <1>1, <1>2, <2>7, PlaceIs
    <3> QED  BY <3>1, PlaceIs
  <2>10. PlaceBar[sending] = "file"
    BY <1>2, <2>8, Basics, PlaceIs DEF IInv, PlainOK
  <2>11. Promise!Takes(sending)
    BY <1>1, <2>1, <2>3, <2>4, <2>9, <2>10 DEF Promise!Takes, Promise!Is
  <2> QED  BY <1>2, <2>6, <2>11 DEF Promise!Next
<1> QED  BY <1>3, <1>4

\* What ends well leaves the file, settled or presumed taken.
LEMMA LeavesImplements ==
    ASSUME IInv, IInv', DurableOK, LandAccepted \/ LandHandedBack
    PROVE  DurableOK' /\ Promise!Next
<1>1. /\ composed' = composed /\ slot' = slot /\ retrySlot' = retrySlot /\ forced' = forced
      /\ delivered' = delivered /\ disk' = DiskWithout(disk, sending)
      /\ \/ call \in Fine /\ drafts' = drafts
         \/ drafts' = drafts \union {sending}
      /\ call # "none"
  BY DEF LandAccepted, LandHandedBack, Fine, ui, outside
<1>2. /\ sending \in Msgs /\ None \notin Msgs /\ slot # sending /\ InFile(disk, sending)
      /\ {slot, retrySlot} \subseteq Msgs \union {None} /\ composed \in Nat
      /\ Msgs \subseteq Nat
  BY <1>1, Basics DEF IInv, PlainOK, PlacesOK, FileOK
<1>3. sending <= composed
  BY <1>2 DEF IInv, FreshOK
<1>4. \A n \in Msgs : InFile(disk', n) <=> InFile(disk, n) /\ n # sending
  BY <1>1, <1>2, FileAfter DEF IInv
<1>5. \A n \in Msgs : n # sending => (Settled(n)' <=> Settled(n))
  BY <1>1 DEF Settled
<1>6. DurableOK'
  <2>1. \A n \in drafts' : n <= composed'
    BY <1>1, <1>3 DEF DurableOK
  <2>2. slot' # None /\ ~InFile(disk', slot') => ~Settled(slot)'
    BY <1>1, <1>2, <1>4, <1>5 DEF DurableOK, Settled
  <2>3. retrySlot' # None /\ ~InFile(disk', retrySlot') => slot' # retrySlot'
    BY <1>1, <1>2, <1>4 DEF DurableOK
  <2> QED  BY <2>1, <2>2, <2>3 DEF DurableOK
<1> DEFINE p == IF delivered'[sending] > 0 \/ sending \in drafts' THEN "settled" ELSE "lost"
<1>7. PlaceBar[sending] = "file" /\ PlaceBar'[sending] = p
  <2>1. \A n \in Msgs : n = sending =>
           (Settled(n)' <=> delivered'[sending] > 0 \/ sending \in drafts')
    BY DEF Settled
  <2> QED  BY <1>1, <1>2, <1>3, <1>4, <2>1, PlaceIs
<1>8. \A n \in Msgs : n # sending => PlaceBar'[n] = PlaceBar[n]
  BY <1>1, <1>2, <1>4, <1>5, PlaceIs
<1>9. PlaceBar' = Promise!Moves({sending}, p)
  <2> HIDE DEF p
  <2> QED  BY <1>2, <1>7, <1>8, OneMoves
<1>10. CASE drafts' = drafts \union {sending}
  <2>1. p = "settled"
    BY <1>10
  <2>2. Promise!HandsBack(sending)
    BY <1>1, <1>7, <1>9, <1>10, <2>1 DEF Promise!HandsBack, Promise!Is
  <2> QED  BY <1>2, <1>6, <2>2 DEF Promise!Next
<1>11. CASE call = "accepted" /\ drafts' = drafts
  <2>1. delivered[sending] > 0
    BY <1>11 DEF IInv, AnswerOK
  <2>2. p = "settled"
    BY <1>1, <2>1
  <2>3. Promise!Settles(sending)
    BY <1>1, <1>7, <1>9, <1>11, <2>1, <2>2 DEF Promise!Settles, Promise!Is
  <2> QED  BY <1>2, <1>6, <2>3 DEF Promise!Next
<1>12. CASE call = "presumed" /\ drafts' = drafts
  <2>1. sending \in Msgs \ Files /\ (Silence \/ RunMayBeOn(SessionOf[sending]))
    BY <1>2, <1>12 DEF IInv, AnswerOK, MayPresume
  <2>2. RunMayBeOn(SessionOf[sending]) <=> Promise!RunMayBeOn(SessionOf[sending])
    BY DEF RunMayBeOn, Promise!RunMayBeOn
  <2>3. p = IF delivered[sending] > 0 \/ sending \in drafts THEN "settled" ELSE "lost"
    BY <1>1, <1>12
  <2>4. Promise!Presumes(sending)
    <3> HIDE DEF p
    <3> QED  BY <1>1, <1>7, <1>9, <1>12, <2>1, <2>2, <2>3 DEF Promise!Presumes, Promise!Is
  <2> QED  BY <1>2, <1>6, <2>4 DEF Promise!Next
<1> QED  BY <1>1, <1>10, <1>11, <1>12 DEF Fine

\* A press on Retry names what is in the file.
LEMMA AsksImplements ==
    ASSUME IInv, IInv', DurableOK, NEW m \in Msgs, AsksRetry(m)
    PROVE  DurableOK' /\ Promise!Next
<1>1. /\ composed' = composed /\ slot' = slot /\ disk' = disk /\ drafts' = drafts
      /\ delivered' = delivered /\ retrySlot = None /\ retrySlot' = m
      /\ forced' = [forced EXCEPT ![m] = @ + 1]
  BY DEF AsksRetry, Quiet, outside
<1>2. /\ InFile(disk, m) /\ composed \in Nat /\ Msgs \subseteq Nat
      /\ slot \in Msgs \union {None}
  BY Basics DEF AsksRetry, Holds, IInv, FileOK, PlainOK
<1>3. \A n \in Msgs : Settled(n)' <=> Settled(n)
  BY <1>1 DEF Settled
<1>4. DurableOK'
  BY <1>1, <1>2, <1>3 DEF DurableOK
<1>5. PlaceBar' = PlaceBar
  <2>1. \A n \in Msgs : PlaceBar'[n] = PlaceBar[n]
    BY <1>1, <1>3, PlaceIs
  <2> QED  BY <2>1, PlaceIs
<1>6. PlaceBar[m] = "file"
  BY <1>2, PlaceIs DEF IInv, FreshOK
<1>7. Promise!Asks(m)
  BY <1>1, <1>5, <1>6 DEF Promise!Asks, Promise!Is
<1> QED  BY <1>4, <1>7 DEF Promise!Next

\* Taken up, it puts its message into the file again if that was settled meanwhile.
LEMMA TakesUpImplements ==
    ASSUME IInv, IInv', DurableOK, TakeRetry
    PROVE  DurableOK' /\ Promise!Next
<1>1. /\ composed' = composed /\ slot' = slot /\ drafts' = drafts /\ forced' = forced
      /\ delivered' = delivered /\ retrySlot # None /\ retrySlot' = None
      /\ disk' = DiskPut(disk, retrySlot, FreshAuto(retrySlot))
  BY DEF TakeRetry, ui, outside
<1>2. /\ retrySlot \in Msgs /\ slot \in Msgs \union {None} /\ None \notin Msgs
      /\ composed \in Nat /\ Msgs \subseteq Nat
  BY <1>1, Basics DEF IInv, PlainOK
<1>3. \A n \in Msgs : InFile(disk', n) <=> InFile(disk, n) \/ n = retrySlot
  BY <1>1, <1>2, FileAfter DEF IInv
<1>4. \A n \in Msgs : Settled(n)' <=> Settled(n)
  BY <1>1 DEF Settled
<1>5. retrySlot <= composed
  BY <1>2 DEF IInv, FreshOK
<1>6. DurableOK'
  BY <1>1, <1>2, <1>3, <1>4 DEF DurableOK
<1>7. PlaceBar[retrySlot] \in {"file", "settled", "lost"} /\ PlaceBar'[retrySlot] = "file"
  <2>1. PlaceBar'[retrySlot] = "file"
    BY <1>1, <1>2, <1>3, <1>5, PlaceIs
  <2>2. CASE InFile(disk, retrySlot)
    BY <1>2, <1>5, <2>1, <2>2, PlaceIs
  <2>3. CASE ~InFile(disk, retrySlot)
    <3>1. slot # retrySlot
      BY <1>1, <2>3 DEF DurableOK
    <3> QED  BY <1>2, <1>5, <2>1, <2>3, <3>1, PlaceIs
  <2> QED  BY <2>2, <2>3
<1>8. \A n \in Msgs : n # retrySlot => PlaceBar'[n] = PlaceBar[n]
  BY <1>1, <1>2, <1>3, <1>4, PlaceIs
<1>9. PlaceBar' = Promise!Moves({retrySlot}, "file")
  BY <1>2, <1>7, <1>8, OneMoves
<1>10. Promise!TakesUp(retrySlot)
  BY <1>1, <1>7, <1>9 DEF Promise!TakesUp, Promise!Is
<1> QED  BY <1>2, <1>6, <1>10 DEF Promise!Next

\* A crash loses what was in the slot and nowhere else, and the message in whose
\* rewrite it fell.
LEMMA DiesImplements ==
    ASSUME IInv, DurableOK, MemoryLost, NEW torn,
           torn = {} \/ (TornWrites /\ \E m \in Msgs : InFile(disk, m) /\ torn = {m}),
           \A n \in Msgs : InFile(disk', n) <=> InFile(disk, n) /\ n \notin torn
    PROVE  DurableOK' /\ Promise!Next
<1>1. /\ composed' = composed /\ slot' = None /\ drafts' = drafts /\ forced' = forced
      /\ delivered' = delivered /\ retrySlot' = None
  BY DEF MemoryLost, outside
<1>2. /\ slot \in Msgs \union {None} /\ None \notin Msgs
      /\ composed \in Nat /\ Msgs \subseteq Nat
  BY Basics DEF IInv, PlainOK
<1>3. \A n \in Msgs : Settled(n)' <=> Settled(n)
  BY <1>1 DEF Settled
<1>4. \A n \in Msgs : n > composed => ~InFile(disk, n) /\ slot # n
  BY DEF IInv, FreshOK
<1>5. DurableOK'
  BY <1>1 DEF DurableOK
<1>6. torn \in {{}} \union {{m} : m \in {n \in Msgs : PlaceBar[n] = "file"}}
  <2>1. \A m \in Msgs : InFile(disk, m) => PlaceBar[m] = "file"
    BY <1>4, PlaceIs
  <2> QED  BY <2>1
<1>7. \A n \in Msgs : PlaceBar[n] = "memory"
                        <=> slot = n /\ ~InFile(disk, n) /\ ~(n > composed)
  BY PlaceIs
<1>8. \A n \in Msgs : PlaceBar'[n] =
          IF n \in torn /\ Settled(n) THEN "settled"
          ELSE IF n \in torn \/ PlaceBar[n] = "memory" THEN "lost" ELSE PlaceBar[n]
  <2> SUFFICES ASSUME NEW n \in Msgs
               PROVE  PlaceBar'[n] =
                        IF n \in torn /\ Settled(n) THEN "settled"
                        ELSE IF n \in torn \/ PlaceBar[n] = "memory" THEN "lost"
                        ELSE PlaceBar[n]
    OBVIOUS
  <2>1. n \in torn => InFile(disk, n) /\ ~(n > composed)
    BY <1>4
  <2>2. slot = n /\ ~InFile(disk, n) => ~Settled(n)
    BY <1>2 DEF DurableOK
  <2>3. slot' # n
    BY <1>1, <1>2
  <2> QED  BY <1>1, <1>3, <1>4, <1>7, <2>1, <2>2, <2>3, PlaceIs
<1>9. PlaceBar' = [n \in Msgs |->
          IF n \in torn /\ Settled(n) THEN "settled"
          ELSE IF n \in torn \/ PlaceBar[n] = "memory" THEN "lost" ELSE PlaceBar[n]]
  BY <1>8, PlaceIs
<1>10. Promise!Dies
  <2>1. PlaceBar' = [n \in Msgs |->
            IF n \in torn /\ (delivered[n] > 0 \/ n \in drafts) THEN "settled"
            ELSE IF n \in torn \union Promise!InMemory THEN "lost" ELSE PlaceBar[n]]
    BY <1>9 DEF Settled, Promise!InMemory, Promise!Is
  <2> QED  BY <1>1, <1>6, <2>1 DEF Promise!Dies, Promise!Is
<1> QED  BY <1>5, <1>10 DEF Promise!Next
LEMMA CrashImplements ==
    ASSUME IInv, DurableOK, Crash \/ \E m \in Msgs : CrashInRewrite(m)
    PROVE  DurableOK' /\ Promise!Next
<1>1. ASSUME NEW torn, MemoryLost, \A n \in Msgs : InFile(disk', n) <=> InFile(disk, n) /\ n \notin torn,
             torn = {} \/ (TornWrites /\ \E m \in Msgs : InFile(disk, m) /\ torn = {m})
      PROVE  DurableOK' /\ Promise!Next
  BY <1>1, DiesImplements
<1>2. CASE Crash
  <2> DEFINE none == {}
  <2>1. MemoryLost /\ none = {} /\ \A n \in Msgs : InFile(disk', n) <=> InFile(disk, n) /\ n \notin none
    BY <1>2 DEF Crash
  <2> HIDE DEF none
  <2> QED  BY <1>1, <2>1
<1>3. ASSUME NEW m \in Msgs, CrashInRewrite(m)
      PROVE  DurableOK' /\ Promise!Next
  <2> DEFINE torn == IF InFile(disk, m) THEN {m} ELSE {}
  <2>1. MemoryLost /\ TornWrites /\ disk' = DiskWithout(disk, m)
    BY <1>3 DEF CrashInRewrite
  <2>2. \A n \in Msgs : InFile(disk', n) <=> InFile(disk, n) /\ n # m
    BY <2>1, FileAfter DEF IInv
  <2>3. \A n \in Msgs : InFile(disk', n) <=> InFile(disk, n) /\ n \notin torn
    BY <2>2
  <2>4. torn = {} \/ (InFile(disk, m) /\ torn = {m})
    OBVIOUS
  <2> HIDE DEF torn
  <2> QED  BY <1>1, <2>1, <2>3, <2>4
<1> QED  BY <1>2, <1>3

\* Editing a queued message, failing, restoring, dispatching and waiting move
\* messages between the lists of the process; the promise does not see them.
LEMMA EditsStutter ==
    ASSUME IInv, IInv', DurableOK,
           EditEnds \/ (\E m \in Msgs : EditOpens(m)) \/ (\E s \in Sessions : OpensOrCloses(s))
    PROVE  DurableOK' /\ UNCHANGED Promise!durable
<1>1. /\ composed' = composed /\ delivered' = delivered /\ drafts' = drafts /\ slot' = slot
      /\ retrySlot' = retrySlot /\ forced' = forced
  BY DEF EditEnds, EditOpens, OpensOrCloses, pipeline, outside
<1>2. \A n \in Msgs : InFile(disk', n) <=> InFile(disk, n)
  <2>1. CASE disk' = disk
    BY <2>1
  <2>2. CASE disk' # disk
    <3>1. EditEnds
      BY <2>2 DEF EditOpens, OpensOrCloses
    <3>2. /\ editing \in Msgs /\ Contains(queue, editing)
          /\ disk' = DiskPut(DiskWithout(disk, editing), editing, FreshAuto(editing))
      BY <2>2, <3>1 DEF EditEnds, IInv, PlainOK, PlacesOK
    <3>3. InFile(disk, editing)
      BY <3>2 DEF IInv, FileOK
    <3> QED  BY <3>2, <3>3, FileAfter, Basics DEF IInv
  <2> QED  BY <2>1, <2>2
<1> QED  BY <1>1, <1>2, QuietStutters DEF IInv

LEMMA FailsStutters ==
    ASSUME IInv, IInv', DurableOK, LandFailed
    PROVE  DurableOK' /\ UNCHANGED Promise!durable
<1>1. /\ composed' = composed /\ delivered' = delivered /\ drafts' = drafts /\ slot' = slot
      /\ retrySlot' = retrySlot /\ forced' = forced
      /\ disk' = DiskPut(DiskWithout(disk, sending), sending, AutoAfter(call))
  BY DEF LandFailed, KeptAfterFailure, ui, outside
<1>2. sending \in Msgs /\ InFile(disk, sending)
  BY DEF LandFailed, IInv, PlainOK, PlacesOK, FileOK
<1>3. AutoAfter(call) \in BOOLEAN /\ (sending \in OnlyAsked => ~AutoAfter(call))
  BY DEF LandFailed, AutoAfter, IInv, AnswerOK
<1>4. \A n \in Msgs : InFile(disk', n) <=> InFile(disk, n)
  BY <1>1, <1>2, <1>3, FileAfter DEF IInv
<1> QED  BY <1>1, <1>4, QuietStutters DEF IInv

LEMMA DispatchStutters ==
    ASSUME IInv, IInv', DurableOK, DrainQueue \/ Retries
    PROVE  DurableOK' /\ UNCHANGED Promise!durable
<1>1. /\ composed' = composed /\ delivered' = delivered /\ drafts' = drafts
      /\ retrySlot' = retrySlot /\ forced' = forced /\ disk' = disk /\ slot = None
  BY DEF DrainQueue, DispatchQueued, Retries, DispatchRetry, ui, outside
<1>2. InFile(disk, slot')
  <2>1. CASE DrainQueue
    <3>1. PICK i \in DOMAIN queue : slot' = queue[i]
      BY <2>1 DEF DrainQueue, DispatchQueued
    <3>2. queue[i] \in Msgs /\ Contains(queue, queue[i])
      BY <3>1 DEF IInv, ListsOK, GoodQueue, Contains
    <3> QED  BY <3>1, <3>2 DEF IInv, FileOK
  <2>2. CASE Retries
    <3>1. PICK i \in DOMAIN policy.entries : slot' = policy.entries[i].msg
      BY <2>2 DEF Retries, DispatchRetry
    <3>2. policy.entries[i].msg \in HeldBy(policy)
      BY <3>1 DEF HeldBy
    <3>3. policy.entries[i].msg \in Msgs
      BY <3>2, HeldFacts DEF IInv, ListsOK
    <3> QED  BY <3>1, <3>2, <3>3 DEF IInv, FileOK
  <2> QED  BY <2>1, <2>2
<1> QED  BY <1>1, <1>2, QuietStutters DEF IInv

LEMMA OthersStutter ==
    ASSUME IInv, IInv', DurableOK,
           \/ WorkerReports \/ DrainEnds \/ RestoreOutbox \/ Rests \/ UNCHANGED vars
           \/ \E i \in DOMAIN policy.entries : BackoffElapses(i)
    PROVE  DurableOK' /\ UNCHANGED Promise!durable
<1>1. /\ composed' = composed /\ delivered' = delivered /\ drafts' = drafts /\ slot' = slot
      /\ retrySlot' = retrySlot /\ forced' = forced /\ disk' = disk
  BY DEF WorkerReports, DrainEnds, RestoreOutbox, Rests, BackoffElapses, vars, ui, loader,
         pipeline, outside
<1> QED  BY <1>1, QuietStutters DEF IInv

LEMMA StepImplements ==
    ASSUME IInv, IInv', DurableOK, [Next]_vars
    PROVE  DurableOK' /\ [Promise!Next]_(Promise!durable)
<1>1. CASE UserActs
  BY <1>1, TypesImplements, EditsStutter, AsksImplements DEF UserActs
<1>2. CASE Start \/ ServerTakes
  BY <1>2, StartImplements, TakesImplements
<1>3. CASE Land
  BY <1>3, LeavesImplements, FailsStutters DEF Land
<1>4. CASE DrainQueue \/ Retries
  BY <1>4, DispatchStutters
<1>5. CASE TakeRetry
  BY <1>5, TakesUpImplements
<1>6. CASE Crash \/ \E m \in Msgs : CrashInRewrite(m)
  BY <1>6, CrashImplements
<1>7. CASE \/ WorkerReports \/ DrainEnds \/ RestoreOutbox \/ Rests \/ UNCHANGED vars
           \/ \E i \in DOMAIN policy.entries : BackoffElapses(i)
  BY <1>7, OthersStutter
<1> QED  BY <1>1, <1>2, <1>3, <1>4, <1>5, <1>6, <1>7 DEF Next

LEMMA StartsUntyped == Init => DurableOK /\ Promise!Init
<1> SUFFICES ASSUME Init PROVE DurableOK /\ Promise!Init
  OBVIOUS
<1>1. /\ composed = 0 /\ drafts = {} /\ slot = None /\ retrySlot = None
      /\ delivered = [m \in Msgs |-> 0] /\ forced = [m \in Msgs |-> 0]
  BY DEF Init
<1>2. DurableOK
  BY <1>1 DEF DurableOK
<1>3. \A m \in Msgs : m > 0
  BY NAssumption DEF Msgs
<1>4. \A m \in Msgs : PlaceBar[m] = "untyped"
  BY <1>1, <1>3, PlaceIs
<1>5. PlaceBar = [m \in Msgs |-> "untyped"]
  BY <1>4, PlaceIs
<1> QED  BY <1>1, <1>2, <1>5 DEF Promise!Init

\* The whole send path implements DurableSend: through any interleaving of typing,
\* editing, sends, answers, retries, restarts and crashes a message in the file gets
\* lost only when the process dies in its rewrite, or as a text whose turn ended
\* before anybody said that it was taken; none reaches the server before it is in the
\* file, and none is taken oftener than its key or the presses on Retry allow.
THEOREM EveryWordIsKept == Spec => KeepsEveryWord
<1>1. Init => DurableOK /\ Promise!Init
  BY StartsUntyped
<1>2. IInv /\ IInv' /\ DurableOK /\ [Next]_vars => DurableOK' /\ [Promise!Next]_(Promise!durable)
  BY StepImplements
<1> QED  BY <1>1, <1>2, Inductive, PTL DEF Spec, KeepsEveryWord, Promise!Spec
=============================================================================
