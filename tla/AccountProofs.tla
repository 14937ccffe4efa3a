--------------------------- MODULE AccountProofs ---------------------------
(***************************************************************************)
(* Proofs about the account's three components and their composition, for  *)
(* every number of clients, asks, edits and codes.                         *)
(***************************************************************************)
EXTENDS Account, FiniteSetTheorems, TLAPS

USE ClientsAssumption, CodesAssumption, EditsAssumption, OutstandingAssumption

----------------------------------------------------------------------------
(* Sign-in: a code is minted for each begin(), and "Try again" is offered  *)
(* while there is one left, so a begin() that is due or launched has its   *)
(* code; the app signs in once.                                            *)
CodesLeft ==
    /\ needsBegin => flow.code <= MaxCodes
    /\ begin = "launched" => flow.code <= MaxCodes
    /\ needsBegin /\ begin = "launched" => flow.code < MaxCodes

SignInInv == SignInTypeOK /\ CodesLeft /\ (showAuth => client = 1)

(* Settings: nothing dirty and nothing on its way leaves the last change   *)
(* taken or spared; a push on its way while nothing is dirty carries it.   *)
SyncInv ==
    /\ SyncTypeOK
    /\ ~dirty => IF push.at = "sent" THEN push.snapshot = edits
                 ELSE edits \in {server, spared}

(* Menu: the cache belongs to the client it is bound to, older asks are    *)
(* orphans, and what it holds is what runs.                                *)
Good(m) ==
    /\ m \in Caches0
    /\ m.boundTo <= client
    /\ m.inFlight \in {NoClient, m.boundTo}
    /\ m.menu \in {NoClient, m.boundTo}
    /\ \A c \in m.orphans : c < m.boundTo
    /\ Cardinality(Holds(m)) <= MaxOutstanding

MenuInv ==
    /\ MenuTypeOK
    /\ Good(cache)
    /\ part # "loader" => cache.boundTo = client
    /\ {c \in Clients : asks[c] # "none"} = Holds(cache)

Here == client \in Clients /\ part \in Parts

Inv == Here /\ SignInInv /\ SyncInv /\ MenuInv

----------------------------------------------------------------------------
(* The menu cache's operators                                              *)

LEMMA HoldsFinite ==
    ASSUME NEW m \in Caches0
    PROVE  Holds(m) \subseteq Clients /\ IsFiniteSet(Holds(m)) /\ IsFiniteSet(m.orphans)
<1>1. IsFiniteSet(Clients)
  BY FS_Interval DEF Clients
<1>2. Holds(m) \subseteq Clients /\ m.orphans \subseteq Clients
  BY DEF Holds, Caches0, None, NoClient
<1> QED BY <1>1, <1>2, FS_Subset

(* The number outstanding is the number held.                              *)
LEMMA OutstandingIsHeld ==
    ASSUME NEW m, Good(m)
    PROVE  Outstanding(m) = Cardinality(Holds(m)) /\ Outstanding(m) \in Nat
<1>1. IsFiniteSet(m.orphans) /\ Cardinality(m.orphans) \in Nat
  BY HoldsFinite, FS_CardinalityType DEF Good
<1>2. CASE m.inFlight = NoClient
  <2>1. Holds(m) = m.orphans
    BY <1>2 DEF Holds, None, Good, Caches0
  <2> QED BY <2>1, <1>1, <1>2 DEF Outstanding
<1>3. CASE m.inFlight # NoClient
  <2>1. m.inFlight \notin m.orphans
    BY <1>3 DEF Good, Caches0, Clients, NoClient, None
  <2>2. Holds(m) = m.orphans \cup {m.inFlight}
    BY <1>3 DEF Holds, None, Good, Caches0
  <2>3. Cardinality(Holds(m)) = Cardinality(m.orphans) + 1
    BY <1>1, <2>1, <2>2, FS_AddElement
  <2> QED BY <2>3, <1>1, <1>3 DEF Outstanding
<1> QED BY <1>2, <1>3

(* Holding no more than a good cache does is as good.                      *)
LEMMA FewerHeld ==
    ASSUME NEW m, NEW n \in Caches0, Good(m), Holds(n) \subseteq Holds(m)
    PROVE  Cardinality(Holds(n)) <= MaxOutstanding
<1>1. IsFiniteSet(Holds(m))
  BY HoldsFinite DEF Good
<1>2. Cardinality(Holds(n)) <= Cardinality(Holds(m))
  BY <1>1, FS_Subset
<1>3. Cardinality(Holds(n)) \in Nat /\ Cardinality(Holds(m)) \in Nat
  BY <1>1, HoldsFinite, FS_CardinalityType
<1> QED BY <1>2, <1>3 DEF Good

LEMMA BindGood ==
    ASSUME Here, NEW m, Good(m), NEW open \in BOOLEAN
    PROVE  /\ Good(Bind(m, open))
           /\ Holds(Bind(m, open)) = Holds(m)
           /\ Bind(m, open).boundTo = client
<1>1. CASE m.boundTo = client
  BY <1>1 DEF Bind
<1>2. CASE m.boundTo # client
  <2> DEFINE b == [EmptyCache EXCEPT !.boundTo = client, !.deferred = open,
                                     !.orphans = Holds(m)]
  <2>1. Bind(m, open) = b
    BY <1>2 DEF Bind
  <2>2. /\ b.boundTo = client /\ b.inFlight = NoClient /\ b.menu = NoClient
        /\ b.orphans = Holds(m)
    BY DEF EmptyCache
  <2>3. b \in Caches0
    BY HoldsFinite DEF EmptyCache, Caches0, Good, Here, None, NoClient
  <2>4. Holds(b) = Holds(m)
    BY <2>2 DEF Holds, None
  <2>5. \A c \in Holds(m) : c < client
    BY <1>2 DEF Holds, Good, Here, Caches0, Clients, None, NoClient
  <2>6. Cardinality(Holds(b)) <= MaxOutstanding
    BY <2>4 DEF Good
  <2>7. Good(b)
    BY <2>2, <2>3, <2>5, <2>6 DEF Good, Here, Clients
  <2> QED BY <2>1, <2>2, <2>4, <2>7
<1> QED BY <1>1, <1>2

LEMMA RequestGood ==
    ASSUME Here, NEW m, Good(m)
    PROVE  /\ Good(RequestIfStale(m))
           /\ Holds(m) \subseteq Holds(RequestIfStale(m))
           /\ RequestIfStale(m).boundTo = client
<1> DEFINE b == Bind(m, FALSE)
<1>1. Good(b) /\ Holds(b) = Holds(m) /\ b.boundTo = client
  BY BindGood
<1> HIDE DEF b
<1>2. CASE ~Due(b)
  <2>1. RequestIfStale(m) = b
    BY <1>2 DEF RequestIfStale, b
  <2> QED BY <1>1, <2>1
<1>3. CASE Due(b) /\ Full(b)
  <2> DEFINE r == [b EXCEPT !.deferred = TRUE]
  <2>1. RequestIfStale(m) = r
    BY <1>3 DEF RequestIfStale, b
  <2>2. /\ r.boundTo = b.boundTo /\ r.inFlight = b.inFlight /\ r.menu = b.menu
        /\ r.orphans = b.orphans /\ r \in Caches0
    BY <1>1 DEF Good, Caches0
  <2>3. Holds(r) = Holds(b)
    BY <2>2 DEF Holds
  <2>4. Good(r)
    BY <1>1, <2>2, <2>3 DEF Good
  <2> QED BY <1>1, <2>1, <2>2, <2>3, <2>4
<1>4. CASE Due(b) /\ ~Full(b)
  <2> DEFINE r == [b EXCEPT !.deferred = FALSE, !.inFlight = client]
  <2>1. RequestIfStale(m) = r
    BY <1>4 DEF RequestIfStale, b
  <2>2. /\ r.boundTo = b.boundTo /\ r.inFlight = client /\ r.menu = b.menu
        /\ r.orphans = b.orphans /\ r \in Caches0
    BY <1>1 DEF Good, Caches0, Here
  <2>3. b.inFlight = NoClient
    BY <1>4 DEF Due
  <2>4. Holds(b) = b.orphans
    BY <2>3, <1>1 DEF Holds, None, Good, Caches0
  <2>5. Holds(r) = Holds(b) \cup {client}
    BY <2>2, <2>4 DEF Holds, Here, Clients, None, NoClient
  <2>6. client \notin Holds(b)
    BY <1>1, <2>4 DEF Good, Caches0, Here, Clients
  <2>7. IsFiniteSet(Holds(b))
    BY <1>1, HoldsFinite DEF Good
  <2>8. Cardinality(Holds(r)) = Cardinality(Holds(b)) + 1
    BY <2>5, <2>6, <2>7, FS_AddElement
  <2>9. Cardinality(Holds(b)) < MaxOutstanding
    BY <1>1, <1>4, OutstandingIsHeld DEF Full
  <2>10. Cardinality(Holds(b)) \in Nat
    BY <2>7, FS_CardinalityType
  <2>11. Cardinality(Holds(r)) <= MaxOutstanding
    BY <2>8, <2>9, <2>10
  <2>12. Good(r)
    BY <1>1, <2>2, <2>11 DEF Good
  <2> QED BY <1>1, <2>1, <2>2, <2>5, <2>12
<1> QED BY <1>2, <1>3, <1>4

LEMMA TakeGood ==
    ASSUME Here, NEW m, Good(m), m.boundTo = client
    PROVE  /\ Good(TakeDeferred(m))
           /\ Holds(m) \subseteq Holds(TakeDeferred(m))
           /\ TakeDeferred(m).boundTo = client
BY RequestGood DEF TakeDeferred

(* Only an ask that ended is let go of.                                    *)
LEMMA PollGood ==
    ASSUME Here, NEW m, Good(m)
    PROVE  /\ Good(Poll(m))
           /\ \A c \in Holds(m) : ~Answered(c) => c \in Holds(Poll(m))
           /\ Poll(m).boundTo = m.boundTo
<1> DEFINE r == [m EXCEPT !.orphans = {c \in @ : ~Answered(c)}]
<1>1. /\ r.boundTo = m.boundTo /\ r.inFlight = m.inFlight /\ r.menu = m.menu
      /\ r.orphans = {c \in m.orphans : ~Answered(c)} /\ r \in Caches0
  BY DEF Good, Caches0
<1>2. Holds(r) \subseteq Holds(m) /\ \A c \in Holds(m) : ~Answered(c) => c \in Holds(r)
  BY <1>1 DEF Holds
<1>3. Good(r)
  <2>1. Cardinality(Holds(r)) <= MaxOutstanding
    BY <1>1, <1>2, FewerHeld
  <2> QED BY <1>1, <2>1 DEF Good
<1> HIDE DEF r
<1>4. CASE m.inFlight # NoClient /\ Answered(m.inFlight)
  <2> DEFINE l == Land(r, m.inFlight)
  <2>1. Poll(m) = l
    BY <1>4 DEF Poll, r
  <2>2. /\ l.boundTo = r.boundTo /\ l.inFlight = NoClient /\ l.orphans = r.orphans
        /\ l.menu \in {r.menu, r.boundTo} /\ l \in Caches0
    BY <1>1, <1>4 DEF Land, Caches0, Good, None, NoClient
  <2>3. Holds(l) = r.orphans
    BY <2>2 DEF Holds, None
  <2>4. Holds(l) \subseteq Holds(r)
    BY <2>3 DEF Holds
  <2>5. Cardinality(Holds(l)) <= MaxOutstanding
    BY <1>3, <2>2, <2>4, FewerHeld
  <2>6. Good(l)
    BY <1>3, <2>2, <2>5 DEF Good
  <2>7. \A c \in Holds(m) : ~Answered(c) => c \in Holds(l)
    BY <1>1, <1>4, <2>3 DEF Holds
  <2> QED BY <1>1, <2>1, <2>2, <2>6, <2>7
<1>5. CASE ~(m.inFlight # NoClient /\ Answered(m.inFlight))
  <2>1. Poll(m) = r
    BY <1>5 DEF Poll, r
  <2> QED BY <1>1, <1>2, <1>3, <2>1
<1> QED BY <1>4, <1>5

LEMMA DrivenGood ==
    ASSUME Here, NEW m, Good(m), panelOpen \in BOOLEAN
    PROVE  /\ Good(Driven(m))
           /\ \A c \in Holds(m) : ~Answered(c) => c \in Holds(Driven(m))
           /\ Driven(m).boundTo = client
<1> DEFINE b == Bind(m, panelOpen)
           p == Poll(b)
           q == PanelClosed(p)
<1>1. Good(b) /\ Holds(b) = Holds(m) /\ b.boundTo = client
  BY BindGood
<1> HIDE DEF b
<1>2. Good(p) /\ p.boundTo = client /\ \A c \in Holds(m) : ~Answered(c) => c \in Holds(p)
  BY <1>1, PollGood
<1> HIDE DEF p
<1>3. /\ q.boundTo = p.boundTo /\ q.inFlight = p.inFlight /\ q.menu = p.menu
      /\ q.orphans = p.orphans /\ q \in Caches0
  BY <1>2 DEF PanelClosed, Good, Caches0
<1>4. Holds(q) = Holds(p)
  BY <1>3 DEF Holds
<1>5. Good(q)
  BY <1>2, <1>3, <1>4 DEF Good
<1> HIDE DEF q
<1>6. Driven(m) \in {q, TakeDeferred(q)}
  BY DEF Driven, b, p, q
<1>7. Good(TakeDeferred(q)) /\ Holds(q) \subseteq Holds(TakeDeferred(q))
      /\ TakeDeferred(q).boundTo = client
  BY <1>2, <1>3, <1>5, TakeGood
<1> QED BY <1>2, <1>3, <1>4, <1>5, <1>6, <1>7

(* A cache that keeps every running ask keeps the account of them.         *)
LEMMA CachesStep ==
    ASSUME Here, MenuInv, NEW m, Good(m), Caches(m), UNCHANGED client,
           \A c \in Holds(cache) : ~Answered(c) => c \in Holds(m)
    PROVE  /\ Good(cache)' /\ cache' = m
           /\ asks' \in [Clients -> {"none", "asked", "ok", "failed"}]
           /\ {c \in Clients : asks'[c] # "none"} = Holds(m)
<1>1. Good(cache)' /\ cache' = m
  BY DEF Caches, Good, Holds
<1>2. asks' \in [Clients -> {"none", "asked", "ok", "failed"}]
  BY DEF Caches, MenuInv, MenuTypeOK
<1>3. Holds(m) \subseteq Clients
  BY HoldsFinite DEF Good
<1>4. ASSUME NEW c \in Clients
      PROVE  asks'[c] # "none" <=> c \in Holds(m)
  <2>1. c \in Holds(cache) <=> asks[c] # "none"
    BY DEF MenuInv
  <2>2. asks'[c] = IF c \in Holds(m) THEN IF asks[c] = "none" THEN "asked" ELSE asks[c]
                   ELSE IF Answered(c) THEN "none" ELSE asks[c]
    BY DEF Caches
  <2> QED BY <2>1, <2>2
<1> QED BY <1>1, <1>2, <1>3, <1>4

----------------------------------------------------------------------------
(* The steps of each component                                             *)

LEMMA SignInStep ==
    ASSUME Here, SignInInv, UNCHANGED client,
           SignInTick \/ OverlayDraws \/ BeginPosts \/ BeginAnswered \/ Approves
           \/ UNCHANGED signInVars
    PROVE  SignInInv'
<1> USE DEF SignInInv, SignInTypeOK, CodesLeft
<1>1. CASE SignInTick
  BY <1>1 DEF SignInTick
<1>2. CASE Cancels
  BY <1>2 DEF Cancels
<1>3. CASE Presses
  <2>1. UNCHANGED <<flow, begin, showAuth, approved>>
        /\ needsBegin' \in BOOLEAN /\ cancelling' \in BOOLEAN
    BY <1>3 DEF Presses
  <2>2. needsBegin' => needsBegin \/ flow.code < MaxCodes
    BY <1>3 DEF Presses
  <2> QED BY <2>1, <2>2
<1>4. CASE BeginPosts
  BY <1>4 DEF BeginPosts, Flow
<1>5. CASE BeginAnswered
  BY <1>5 DEF BeginAnswered
<1>6. CASE Approves
  BY <1>6 DEF Approves
<1>7. CASE UNCHANGED signInVars
  BY <1>7 DEF signInVars
<1> QED BY <1>1, <1>2, <1>3, <1>4, <1>5, <1>6, <1>7 DEF OverlayDraws

(* A poll that succeeds is the first: the reader was signed out.           *)
LEMMA PolledStep ==
    ASSUME Here, SignInInv, FlowPolled
    PROVE  SignInInv' /\ client' \in Clients /\ client' \in {client, client + 1}
<1> USE DEF SignInInv, SignInTypeOK, CodesLeft, Here, Clients
<1>1. CASE ~PollsOwnFlow
  BY <1>1 DEF FlowPolled
<1>2. CASE PollsOwnFlow
  <2>1. PICK f \in Polled : /\ flow' = f /\ showAuth' = (f.at # "success")
                            /\ client' = IF f.at = "success" THEN client + 1 ELSE client
    BY <1>2 DEF FlowPolled
  <2>2. f \in [at : {"idle", "requesting", "awaiting", "success", "failed", "expired", "gone"},
               code : {flow.code}]
    BY <2>1 DEF Polled, Flow
  <2>3. UNCHANGED <<begin, needsBegin, cancelling, approved>> /\ showAuth
    BY <1>2 DEF FlowPolled, PollsOwnFlow
  <2>4. flow' \in [at : {"idle", "requesting", "awaiting", "success", "failed", "expired", "gone"},
                   code : 0..MaxCodes + 1] /\ flow'.code = flow.code
    BY <2>1, <2>2
  <2>5. client' \in {client, client + 1} /\ client = 1
    BY <2>1, <2>3
  <2>6. showAuth' \in BOOLEAN /\ (showAuth' => f.at # "success")
    BY <2>1, Zenon
  <2>7. showAuth' => client' = 1
    BY <2>1, <2>5, <2>6, Zenon
  <2>8. client' \in Clients
    BY <2>5
  <2> QED BY <2>3, <2>4, <2>5, <2>6, <2>7, <2>8
<1> QED BY <1>1, <1>2

LEMMA SyncStep ==
    ASSUME SyncInv, SyncTick \/ Edits \/ Elapses \/ PushEnds \/ UNCHANGED syncVars
    PROVE  SyncInv'
<1> USE DEF SyncInv, SyncTypeOK
<1>1. CASE SyncTick
  <2>1. Reaped \in [snapshot : 0..MaxEdits, at : {"none", "sent", "ended"}]
        /\ (Reaped.at = "sent" <=> push.at = "sent")
        /\ (Reaped.at = "sent" => Reaped = push)
    BY DEF Reaped, NoPush
  <2>2. CASE Rests(Reaped) /\ push' = Reaped /\ UNCHANGED <<dirty, timer, spared>>
    BY <1>1, <2>1, <2>2 DEF SyncTick
  <2>3. CASE ~Rests(Reaped) /\ Arms(Reaped)
    BY <1>1, <2>1, <2>3 DEF SyncTick, Rests, Arms
  <2>4. CASE ~Rests(Reaped) /\ Waits(Reaped)
    BY <1>1, <2>1, <2>4 DEF SyncTick, Rests, Waits
  <2>5. CASE ~Rests(Reaped) /\ Flushes
    <3>1. /\ timer' = "off" /\ dirty' \in BOOLEAN /\ UNCHANGED <<edits, server>>
      BY <1>1, <2>5 DEF SyncTick, Flushes
    <3>2. CASE push' = [snapshot |-> edits, at |-> "sent"] /\ UNCHANGED spared
      BY <3>1, <3>2
    <3>3. CASE push' = NoPush /\ spared' = edits
      <4>1. push' = [snapshot |-> 0, at |-> "none"]
        BY <3>3 DEF NoPush
      <4> QED BY <3>1, <3>3, <4>1
    <3> QED BY <2>5, <3>2, <3>3 DEF Flushes
  <2> QED BY <1>1, <2>2, <2>3, <2>4, <2>5 DEF SyncTick
<1>2. CASE Edits
  BY <1>2 DEF Edits
<1>3. CASE Elapses
  BY <1>3 DEF Elapses
<1>4. CASE PushEnds
  BY <1>4 DEF PushEnds
<1>5. CASE UNCHANGED syncVars
  BY <1>5 DEF syncVars
<1> QED BY <1>1, <1>2, <1>3, <1>4, <1>5

LEMMA MenuTickStep ==
    ASSUME Here, MenuInv, MenuTick, UNCHANGED client
    PROVE  MenuInv' /\ cache'.boundTo = client
<1>1. /\ Good(Driven(cache)) /\ Driven(cache).boundTo = client
      /\ \A c \in Holds(cache) : ~Answered(c) => c \in Holds(Driven(cache))
  BY DrivenGood DEF MenuInv, MenuTypeOK
<1>2. /\ Good(cache)' /\ cache' = Driven(cache)
      /\ asks' \in [Clients -> {"none", "asked", "ok", "failed"}]
      /\ {c \in Clients : asks'[c] # "none"} = Holds(Driven(cache))
  BY <1>1, CachesStep DEF MenuTick
<1>3. UNCHANGED <<panelOpen, wasOpen>>
  BY DEF MenuTick
<1>4. MenuTypeOK'
  BY <1>2, <1>3 DEF MenuInv, MenuTypeOK, Good
<1> QED BY <1>1, <1>2, <1>4 DEF MenuInv, Here

LEMMA PanelStep ==
    ASSUME Here, MenuInv, PanelDraws, UNCHANGED client, part # "loader"
    PROVE  MenuInv' /\ cache'.boundTo = client
<1>1. PICK open, thread, picks \in BOOLEAN :
        /\ Caches(IF open /\ ~wasOpen /\ thread THEN RequestIfStale(cache) ELSE cache)
        /\ wasOpen' = open
        /\ panelOpen' = (open /\ ~picks)
  BY DEF PanelDraws
<1> DEFINE m == IF open /\ ~wasOpen /\ thread THEN RequestIfStale(cache) ELSE cache
<1>2. Good(m) /\ m.boundTo = client /\ Holds(cache) \subseteq Holds(m)
  BY RequestGood DEF MenuInv
<1>3. Caches(m)
  BY <1>1
<1> HIDE DEF m
<1>4. /\ Good(cache)' /\ cache' = m
      /\ asks' \in [Clients -> {"none", "asked", "ok", "failed"}]
      /\ {c \in Clients : asks'[c] # "none"} = Holds(m)
  BY <1>2, <1>3, CachesStep
<1>5. MenuTypeOK'
  BY <1>1, <1>4 DEF MenuTypeOK, Good
<1> QED BY <1>2, <1>4, <1>5 DEF MenuInv

LEMMA ClockStep ==
    ASSUME Here, MenuInv, MenuAges \/ BackoffEnds
    PROVE  MenuInv'
<1>1. /\ cache' \in Caches0
      /\ cache'.boundTo = cache.boundTo /\ cache'.inFlight = cache.inFlight
      /\ cache'.menu = cache.menu /\ cache'.orphans = cache.orphans
      /\ UNCHANGED <<client, part, asks, panelOpen, wasOpen>>
  BY DEF MenuAges, BackoffEnds, MenuInv, MenuTypeOK, Caches0
<1>2. Holds(cache)' = Holds(cache)
  BY <1>1 DEF Holds
<1>3. Good(cache)'
  BY <1>1, <1>2 DEF MenuInv, Good
<1> QED BY <1>1, <1>2, <1>3 DEF MenuInv, MenuTypeOK

LEMMA AnswerStep ==
    ASSUME Here, MenuInv, NEW c \in Clients, AskAnswers(c)
    PROVE  MenuInv'
<1>1. PICK how \in {"ok", "failed"} : asks' = [asks EXCEPT ![c] = how]
  BY DEF AskAnswers
<1>2. asks[c] = "asked" /\ UNCHANGED <<client, part, cache, panelOpen, wasOpen>>
  BY DEF AskAnswers
<1>3. MenuTypeOK'
  BY <1>1, <1>2 DEF MenuInv, MenuTypeOK
<1>4. {d \in Clients : asks'[d] # "none"} = {d \in Clients : asks[d] # "none"}
  BY <1>1, <1>2 DEF MenuInv, MenuTypeOK
<1>5. Good(cache)' /\ Holds(cache)' = Holds(cache)
  BY <1>2 DEF MenuInv, Good, Holds
<1> QED BY <1>2, <1>3, <1>4, <1>5 DEF MenuInv

(* A new client leaves what the cache holds as it is.                      *)
LEMMA MenuRests ==
    ASSUME Here, MenuInv, UNCHANGED menuVars, client' \in Clients,
           client' \in {client, client + 1},
           part' # "loader" => client' = client /\ part # "loader"
    PROVE  MenuInv'
<1>1. Holds(cache)' = Holds(cache) /\ cache' = cache
  BY DEF menuVars, Holds
<1>2. Good(cache)'
  BY <1>1 DEF MenuInv, Good, Here, Clients, Caches0, None, NoClient
<1> QED BY <1>1, <1>2 DEF MenuInv, MenuTypeOK, menuVars

----------------------------------------------------------------------------
(* The composition                                                         *)

LEMMA Initially == Init => Inv
<1> SUFFICES ASSUME Init PROVE Inv
  OBVIOUS
<1>1. Here
  BY DEF Init, Here, Clients, Parts
<1>2. SignInInv
  <2>1. /\ flow.at = "idle" /\ flow.code = 0 /\ flow = [at |-> "idle", code |-> 0]
        /\ begin = "none" /\ approved = 0 /\ client = 1
        /\ needsBegin \in BOOLEAN /\ showAuth \in BOOLEAN /\ cancelling \in BOOLEAN
    BY DEF Init, SignInInit, Flow
  <2>2. SignInTypeOK
    BY <2>1 DEF SignInTypeOK
  <2> QED BY <2>1, <2>2 DEF SignInInv, CodesLeft
<1>3. SyncInv
  <2>1. /\ push = [snapshot |-> 0, at |-> "none"] /\ push.at = "none"
        /\ edits = 0 /\ server = 0 /\ spared = 0 /\ timer = "off" /\ dirty \in BOOLEAN
    BY DEF Init, SyncInit, NoPush
  <2>2. SyncTypeOK
    BY <2>1 DEF SyncTypeOK
  <2> QED BY <2>1, <2>2 DEF SyncInv
<1>4. MenuInv
  <2>1. Holds(cache) = {} /\ cache \in Caches0
    BY DEF Init, MenuInit, EmptyCache, Holds, None, NoClient, Caches0
  <2>2. Good(cache)
    BY <2>1, FS_EmptySet DEF Good, Init, MenuInit, EmptyCache, NoClient
  <2> QED BY <2>1, <2>2 DEF Init, MenuInit, MenuInv, MenuTypeOK
<1> QED BY <1>1, <1>2, <1>3, <1>4 DEF Inv

LEMMA Stepwise == Inv /\ [Next]_vars => Inv'
<1> SUFFICES ASSUME Inv, [Next]_vars PROVE Inv'
  OBVIOUS
<1> USE DEF Inv
<1>1. CASE LoaderTicks
  <2>1. Here' /\ UNCHANGED client
    BY <1>1 DEF LoaderTicks, Passes, Here, Parts
  <2>2. SignInInv' /\ SyncInv' /\ MenuInv'
    BY <1>1, <2>1, SignInStep, SyncStep, MenuTickStep DEF LoaderTicks
  <2> QED BY <2>1, <2>2
<1>2. CASE Draws
  <2>1. Here' /\ UNCHANGED client /\ part # "loader"
    BY <1>2 DEF Draws, Passes, Here, Parts
  <2>2. SignInInv' /\ SyncInv' /\ MenuInv'
    BY <1>2, <2>1, SignInStep, SyncStep, PanelStep DEF Draws
  <2> QED BY <2>1, <2>2
<1>3. CASE FrameEnds
  <2>1. SignInInv' /\ client' \in Clients /\ client' \in {client, client + 1}
    BY <1>3, PolledStep DEF FrameEnds
  <2>2. part' = "loader" /\ UNCHANGED <<menuVars, syncVars>>
    BY <1>3 DEF FrameEnds, Passes
  <2>3. SyncInv' /\ MenuInv'
    BY <2>1, <2>2, SyncStep, MenuRests
  <2> QED BY <2>1, <2>2, <2>3 DEF Here, Parts
<1>4. CASE Switches
  <2>1. /\ Here' /\ part' = "loader" /\ client' = client + 1
        /\ UNCHANGED <<signInVars, menuVars, syncVars>> /\ ~showAuth
    BY <1>4 DEF Switches, Here, Clients, Parts
  <2>2. SignInInv'
    BY <2>1 DEF SignInInv, SignInTypeOK, CodesLeft, signInVars
  <2>3. SyncInv' /\ MenuInv'
    BY <2>1, SyncStep, MenuRests DEF Here
  <2> QED BY <2>1, <2>2, <2>3
<1>5. CASE BeginWorks
  <2>1. UNCHANGED <<client, part, menuVars, syncVars>> /\ (BeginPosts \/ BeginAnswered)
    BY <1>5 DEF BeginWorks, BeginPosts, BeginAnswered
  <2> QED BY <2>1, SignInStep, SyncStep, MenuRests DEF Here
<1>6. CASE PushWorks
  <2>1. UNCHANGED <<client, part, menuVars, signInVars>> /\ PushEnds
    BY <1>6 DEF PushWorks, PushEnds
  <2> QED BY <2>1, SignInStep, SyncStep, MenuRests DEF Here
<1>7. ASSUME NEW c \in Clients, AskWorks(c) PROVE Inv'
  <2>1. UNCHANGED <<client, part, signInVars, syncVars>> /\ AskAnswers(c)
    BY <1>7 DEF AskWorks, AskAnswers
  <2> QED BY <2>1, SignInStep, SyncStep, AnswerStep DEF Here
<1>8. CASE DebounceEnds
  <2>1. UNCHANGED <<client, part, menuVars, signInVars>> /\ Elapses
    BY <1>8 DEF DebounceEnds, Elapses
  <2> QED BY <2>1, SignInStep, SyncStep, MenuRests DEF Here
<1>9. CASE MenuClocks
  <2>1. UNCHANGED <<client, part, signInVars, syncVars>> /\ (MenuAges \/ BackoffEnds)
    BY <1>9 DEF MenuClocks, MenuAges, BackoffEnds
  <2> QED BY <2>1, SignInStep, SyncStep, ClockStep DEF Here
<1>10. CASE Reader
  <2>1. CASE Approves /\ UNCHANGED <<menuVars, syncVars>>
    BY <2>1, SignInStep, SyncStep, MenuRests DEF Here, Approves
  <2>2. CASE Edits /\ UNCHANGED <<signInVars, menuVars>>
    BY <2>2, SignInStep, SyncStep, MenuRests DEF Here, Edits
  <2> QED BY <1>10, <2>1, <2>2 DEF Reader
<1>11. CASE UNCHANGED vars
  <2>1. UNCHANGED <<client, part, signInVars, menuVars, syncVars>>
    BY <1>11 DEF vars
  <2> QED BY <2>1, SignInStep, SyncStep, MenuRests DEF Here
<1> QED BY <1>1, <1>2, <1>3, <1>4, <1>5, <1>6, <1>7, <1>8, <1>9, <1>10, <1>11 DEF Next

(* Inv holds of every state of the account's frame.                        *)
THEOREM Invariance == Spec => []Inv
BY Initially, Stepwise, PTL DEF Spec

(* Every variable keeps its type: the codes, the clients and the asks stay *)
(* within what the frame can make of them.                                 *)
THEOREM TypeCorrect == Spec => []TypeOK
<1>1. Inv => TypeOK
  BY DEF Inv, Here, SignInInv, SyncInv, MenuInv, TypeOK
<1> QED BY <1>1, Invariance, PTL

(* However many deployments replace one another and however late their     *)
(* asks answer, the panel never shows one's menu under another.            *)
THEOREM MenuIsTheClients == Spec => []NoForeignMenu
<1>1. Inv => NoForeignMenu
  BY DEF Inv, MenuInv, Good, NoForeignMenu
<1> QED BY <1>1, Invariance, PTL

(* No ask is lost while it runs, and there are never more than the cap.    *)
THEOREM NoAskIsLost == Spec => []AsksAreHeld
<1>1. Inv => AsksAreHeld
  BY DEF Inv, MenuInv, Good, AsksAreHeld
<1> QED BY <1>1, Invariance, PTL

(* The debounced push forgets no change made while another was out.        *)
THEOREM EveryEditAccountedFor == Spec => []NoEditForgotten
<1>1. Inv => NoEditForgotten
  BY DEF Inv, SyncInv, NoEditForgotten
<1> QED BY <1>1, Invariance, PTL

(* While begin() runs on its worker nothing else writes the flow, unless   *)
(* the overlay lets go of it.                                              *)
THEOREM WorkerOwnsTheFlow == Spec => BeginOwnsTheFlow
<1> DEFINE A == (begin \in {"launched", "posting"} /\ begin' = begin) => flow'.at = "gone"
<1>1. Inv /\ [Next]_vars => [A]_flow
  <2> SUFFICES ASSUME Inv, [Next]_vars, flow' # flow,
                      begin \in {"launched", "posting"}, begin' = begin
               PROVE  flow'.at = "gone"
    OBVIOUS
  <2>1. CASE LoaderTicks
    BY <2>1 DEF LoaderTicks, SignInTick
  <2>2. CASE Draws
    BY <2>2 DEF Draws, OverlayDraws, Cancels, Presses, Inv, SignInInv, SignInTypeOK
  <2>3. CASE FrameEnds
    BY <2>3 DEF FrameEnds, FlowPolled, PollsOwnFlow
  <2>4. CASE BeginWorks
    BY <2>4 DEF BeginWorks, BeginPosts, BeginAnswered
  <2>5. CASE Reader
    BY <2>5 DEF Reader, Approves, signInVars
  <2>6. CASE Switches \/ PushWorks \/ (\E c \in Clients : AskWorks(c))
             \/ DebounceEnds \/ MenuClocks \/ UNCHANGED vars
    BY <2>6 DEF Switches, PushWorks, AskWorks, DebounceEnds, MenuClocks, vars, signInVars
  <2> QED BY <2>1, <2>2, <2>3, <2>4, <2>5, <2>6 DEF Next
<1> QED BY <1>1, Invariance, PTL DEF Spec, BeginOwnsTheFlow
=============================================================================
