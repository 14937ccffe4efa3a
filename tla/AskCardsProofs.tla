--------------------------- MODULE AskCardsProofs ---------------------------
(***************************************************************************)
(* Whatever the order in which the reads of a thread land, an answered ask *)
(* stays gone, a card under answer stays busy, no typed answer is dropped, *)
(* and an undisturbed read sets the card right: for any asks and threads   *)
(* and any number of reads.                                                *)
(***************************************************************************)
EXTENDS AskCards, TLAPS

\* Every stamp was minted.
StampsOK ==
    /\ \A l \in loads : l.stamp # 0 /\ l.stamp <= loadSeq
    /\ \A a \in Asks : born[a] <= loadSeq /\ drop[a] <= loadSeq

\* A list names asks of its own thread.
ListsOK ==
    /\ \A l \in loads : l.asks \subseteq Of(l.session)
    /\ turn.asks \subseteq Of(turn.session)

\* Text belongs to a card.
TextsOK == typed \subseteq shown

\* Only an answer under way makes a card busy, and an answer that ended well
\* ended the ask.
CallOK ==
    /\ call = NoCall => busy = NoAsk
    /\ call # NoCall => busy \in {call.ask, NoAsk}
    /\ call.outcome \in {"ok", "gone"} => status[call.ask] = "settled"

\* A read that still lists an answered ask is older than its drop.
AnsweredOK ==
    \A a \in answered :
        /\ status[a] = "settled"
        /\ \A l \in loads : a \in l.asks => l.stamp <= drop[a]

\* What is known of a thread is older than a read that nothing disturbed.
AloneOK ==
    \A l \in loads : l.alone =>
        \A a \in Of(l.session) : born[a] < l.stamp /\ drop[a] < l.stamp

Inv == TypeOK /\ StampsOK /\ ListsOK /\ TextsOK /\ CallOK /\ AnsweredOK /\ AloneOK

(***************************************************************************)
(* What the parts of the actions do.                                       *)
(***************************************************************************)
LEMMA InitInv == Init => Inv
<1> SUFFICES ASSUME Init PROVE Inv  OBVIOUS
<1>1. PICK s \in Sessions : turn = NoTurn(s)  BY DEF Init
<1>2. turn.session = s /\ turn.asks = {} /\ turn \in [session : Sessions, out : BOOLEAN, asks : Lists, heard : BOOLEAN]
  BY <1>1 DEF NoTurn, Lists
<1>3. TypeOK  BY <1>2 DEF Init, TypeOK, Lists
<1>4. StampsOK /\ ListsOK /\ TextsOK /\ AnsweredOK /\ AloneOK
  BY <1>2 DEF Init, StampsOK, ListsOK, TextsOK, AnsweredOK, AloneOK
<1>5. CallOK  BY DEF Init, CallOK, NoCall
<1> QED  BY <1>3, <1>4, <1>5 DEF Inv

LEMMA Disturbs ==
    ASSUME NEW some \in SUBSET Loads, NEW s, NEW m \in Disturbed(s, some)
    PROVE  /\ m \in Loads
           /\ \E l \in some : /\ m.session = l.session /\ m.stamp = l.stamp /\ m.asks = l.asks
                              /\ m.alone => l.alone /\ l.session # s
BY DEF Disturbed, Loads

\* A list that lands, with the stamp it lands with.
Landing(s, list, stamp) ==
    /\ s \in Sessions /\ list \subseteq Of(s)
    /\ stamp \in Nat /\ loadSeq' \in Nat
    /\ loadSeq <= loadSeq' /\ stamp <= loadSeq'
    /\ Apply(s, list, stamp)

LEMMA LandingFacts ==
    ASSUME Inv, NEW s, NEW list, NEW stamp, Landing(s, list, stamp)
    PROVE  /\ shown' \in Lists /\ typed' \in Lists /\ parked' \in Lists
           /\ born' \in [Asks -> Nat] /\ drop' \in [Asks -> Nat]
           /\ busy' \in {busy, NoAsk}
           /\ typed' \subseteq shown'
           /\ \A a \in Asks : /\ born'[a] <= loadSeq' /\ drop'[a] <= loadSeq'
                              /\ drop[a] <= drop'[a]
                              /\ a \notin Of(s) => born'[a] = born[a] /\ drop'[a] = drop[a]
<1> USE DEF Inv, Landing
<1>1. /\ shown' \in Lists /\ typed' \in Lists /\ parked' \in Lists /\ busy' \in {busy, NoAsk}
      /\ typed' \subseteq shown'
  BY DEF Apply, TypeOK, Lists, Of, ShownOf, TextsOK
<1>2. \A a \in Asks : born'[a] \in {stamp, 0, born[a]} /\ drop'[a] \in {loadSeq', drop[a]}
  BY DEF Apply, DroppedAt
<1>3. born' \in [Asks -> Nat] /\ drop' \in [Asks -> Nat]
  <2>1. \A a \in Asks : born'[a] \in Nat /\ drop'[a] \in Nat  BY <1>2 DEF TypeOK
  <2> QED  BY <2>1 DEF Apply
<1>4. \A a \in Asks : born'[a] <= loadSeq' /\ drop'[a] <= loadSeq' /\ drop[a] <= drop'[a]
  BY <1>2, <1>3 DEF StampsOK, TypeOK
<1>5. \A a \in Asks : a \notin Of(s) => born'[a] = born[a] /\ drop'[a] = drop[a]
  BY DEF Apply, ShownOf
<1> QED  BY <1>1, <1>3, <1>4, <1>5

LEMMA AdoptedOfThread ==
    ASSUME NEW s, NEW asks, asks \subseteq Of(s), NEW stamp
    PROVE  Adopted(s, asks, stamp) \subseteq Of(s)
BY DEF Adopted, WithoutDropped, KeepNewer, KeepBusy, ShownOf

LEMMA ReadIsLanding ==
    ASSUME Inv, NEW l \in loads, ReadLands(l)
    PROVE  Landing(l.session, Adopted(l.session, l.asks, l.stamp), l.stamp)
<1> USE DEF Inv
<1>1. l \in Loads /\ loadSeq' = loadSeq  BY DEF ReadLands, TypeOK
<1>2. l.session \in Sessions /\ l.stamp \in Nat /\ l.stamp <= loadSeq /\ loadSeq \in Nat
  BY <1>1 DEF Loads, StampsOK, TypeOK
<1>3. l.asks \subseteq Of(l.session)  BY DEF ListsOK
<1> QED  BY <1>1, <1>2, <1>3, AdoptedOfThread DEF ReadLands, Landing

LEMMA TurnIsLanding ==
    ASSUME Inv, TurnLands, turn.heard
    PROVE  Landing(turn.session, Adopted(turn.session, turn.asks, loadSeq'), loadSeq')
<1> USE DEF Inv
<1>1. turn.session \in Sessions /\ loadSeq \in Nat /\ loadSeq' = loadSeq + 1
  BY DEF TurnLands, TypeOK
<1>2. turn.asks \subseteq Of(turn.session)  BY DEF ListsOK
<1> QED  BY <1>1, <1>2, AdoptedOfThread DEF TurnLands, Landing

(***************************************************************************)
(* The end of an answer, in which busy, if it names an ask, names the      *)
(* call's.                                                                 *)
(***************************************************************************)
Settled == call.outcome # "failed" /\ busy # NoAsk

LEMMA AnswerFacts ==
    ASSUME Inv, AnswerLands
    PROVE  /\ call.ask \in Asks /\ busy \in {call.ask, NoAsk} /\ call' = NoCall /\ busy' = NoAsk
           /\ Settled => busy = call.ask /\ TakenOff(call.ask) /\ status[call.ask] = "settled"
           /\ ~Settled => NothingTakenOff
           /\ loadSeq' \in {loadSeq, loadSeq + 1}
           /\ UNCHANGED <<status, turn, request>>
<1> USE DEF Inv
<1>1. call # NoCall  BY DEF AnswerLands, NoCall, Outcomes
<1>2. call.ask \in Asks /\ busy \in {call.ask, NoAsk}  BY <1>1 DEF TypeOK, CallOK
<1>3. Settled => busy = call.ask /\ status[call.ask] = "settled"
  BY <1>2 DEF Settled, CallOK, AnswerLands, Outcomes
<1> QED  BY <1>2, <1>3 DEF AnswerLands, Settled, Requested

\* The reads after it: those before, with those of its thread disturbed if an
\* ask was taken off, and perhaps a new refresh.
LEMMA AnswerReads ==
    ASSUME Inv, AnswerLands, NEW m \in loads'
    PROVE  /\ m \in Loads
           /\ \/ m.stamp = loadSeq + 1 /\ m.asks = {} /\ loadSeq' = loadSeq + 1
              \/ \E l \in loads : /\ m.session = l.session /\ m.stamp = l.stamp /\ m.asks = l.asks
                                  /\ m.alone => l.alone
                                  /\ m.alone /\ Settled => l.session # SessionOf[call.ask]
<1> USE DEF Inv
<1> DEFINE s == SessionOf[call.ask]
           after == IF Settled THEN Disturbed(s, loads) ELSE loads
<1>1. call.ask \in Asks /\ s \in Sessions  BY AnswerFacts, AskAssumption
<1>2. \/ Requested("refresh", s, after) /\ ~Outstanding("refresh", s) /\ call.outcome = "ok"
      \/ loads' = after /\ loadSeq' = loadSeq
  BY DEF AnswerLands, Settled
<1>3. ASSUME m \in after
      PROVE  /\ m \in Loads
             /\ \E l \in loads : /\ m.session = l.session /\ m.stamp = l.stamp /\ m.asks = l.asks
                                 /\ m.alone => l.alone
                                 /\ m.alone /\ Settled => l.session # s
  <2>1. CASE Settled  BY <1>3, <2>1, Disturbs DEF TypeOK
  <2>2. CASE ~Settled  BY <1>3, <2>2 DEF TypeOK
  <2> QED  BY <2>1, <2>2
<1>4. CASE loads' = after /\ loadSeq' = loadSeq  BY <1>3, <1>4
<1>5. CASE Requested("refresh", s, after) /\ ~Outstanding("refresh", s)
  <2>1. loadSeq' = loadSeq + 1 /\ loads' = after \cup {Load("refresh", s, loadSeq + 1)}
    BY <1>5 DEF Requested
  <2>2. CASE m \in after  BY <1>3, <2>1, <2>2
  <2>3. CASE m = Load("refresh", s, loadSeq + 1)
    BY <1>1, <2>1, <2>3 DEF Load, Loads, Kinds, Lists, TypeOK
  <2> QED  BY <2>1, <2>2, <2>3
<1> QED  BY <1>2, <1>4, <1>5

(***************************************************************************)
(* Inv is inductive.                                                       *)
(***************************************************************************)
LEMMA ServerKeeps ==
    ASSUME Inv, NEW a \in Asks, Raises(a) \/ OthersSettle(a)
    PROVE  Inv'
<1> USE DEF Inv
<1>1. UNCHANGED <<loads, turn, card, loadSeq, request, call, answered>>
  BY DEF Raises, OthersSettle
<1>2. /\ status' \in [Asks -> {"unraised", "pending", "settled"}]
      /\ \A b \in Asks : status[b] = "settled" => status'[b] = "settled"
  BY DEF Raises, OthersSettle, TypeOK
<1>3. TypeOK'  BY <1>1, <1>2 DEF TypeOK, card
<1>4. StampsOK' /\ ListsOK' /\ TextsOK' /\ AloneOK'
  BY <1>1 DEF StampsOK, ListsOK, TextsOK, AloneOK, card
<1>5. CallOK'
  <2>1. call.outcome \in {"ok", "gone"} => call.ask \in Asks  BY DEF TypeOK, NoCall
  <2> QED  BY <1>1, <1>2, <2>1 DEF CallOK, card
<1>6. AnsweredOK'
  <2>1. answered \subseteq Asks  BY DEF TypeOK, Lists
  <2> QED  BY <1>1, <1>2, <2>1 DEF AnsweredOK, card
<1> QED  BY <1>3, <1>4, <1>5, <1>6

LEMMA ReadsKeep ==
    ASSUME Inv,
           \/ \E src \in Sources, s \in Sessions : Reads(src, s)
           \/ \E l \in loads : ReadAnswered(l) \/ ReadVanishes(l)
    PROVE  Inv'
<1> USE DEF Inv
<1>1. UNCHANGED <<status, turn, card, request, call, answered>>
  BY DEF Reads, ReadAnswered, ReadVanishes
\* Each read was there, or is new, or has just been answered.
<1> DEFINE New(m) == m.asks = {} /\ m.stamp = loadSeq + 1 /\ loadSeq' = loadSeq + 1
           Heard(m) == \E l \in loads : /\ m.stamp = l.stamp /\ m.session = l.session
                                        /\ m.alone = l.alone /\ m.asks = PendingOf(l.session)
<1>2. /\ loadSeq' \in {loadSeq, loadSeq + 1}
      /\ \A m \in loads' : m \in Loads /\ (m \in loads \/ New(m) \/ Heard(m))
  <2>1. ASSUME NEW src \in Sources, NEW s \in Sessions, Reads(src, s) PROVE <1>2
    <3>1. loadSeq' = loadSeq + 1 /\ loads' = loads \cup {Load(src, s, loadSeq + 1)}
      BY <2>1 DEF Reads, Requested
    <3>2. Load(src, s, loadSeq + 1) \in Loads /\ New(Load(src, s, loadSeq + 1))
      BY <3>1, AskAssumption DEF Load, Loads, Lists, TypeOK
    <3> QED  BY <3>1, <3>2 DEF TypeOK
  <2>2. ASSUME NEW l \in loads, ReadAnswered(l) PROVE <1>2
    <3> DEFINE n == [l EXCEPT !.asks = PendingOf(l.session), !.answered = TRUE]
    <3>1. loadSeq' = loadSeq /\ loads' = (loads \ {l}) \cup {n}  BY <2>2 DEF ReadAnswered
    <3>2. l \in Loads /\ PendingOf(l.session) \in Lists  BY DEF TypeOK, PendingOf, Of, Lists
    <3>3. n \in Loads /\ Heard(n)  BY <3>2 DEF Loads
    <3> QED  BY <3>1, <3>3 DEF TypeOK
  <2>3. ASSUME NEW l \in loads, ReadVanishes(l) PROVE <1>2
    BY <2>3 DEF ReadVanishes, TypeOK
  <2> QED  BY <2>1, <2>2, <2>3
<1>3. loadSeq \in Nat /\ loadSeq' \in Nat /\ loadSeq <= loadSeq'  BY <1>2 DEF TypeOK
<1>4. TypeOK'
  <2>1. loads' \in SUBSET Loads  BY <1>2
  <2> QED  BY <1>1, <1>3, <2>1 DEF TypeOK, card
<1>5. TextsOK' /\ CallOK'  BY <1>1 DEF TextsOK, CallOK, card
<1>6. StampsOK'
  <2>1. \A m \in loads' : m.stamp # 0 /\ m.stamp <= loadSeq'
    BY <1>2, <1>3 DEF StampsOK, TypeOK, Loads
  <2>2. \A a \in Asks : born[a] <= loadSeq' /\ drop[a] <= loadSeq'
    BY <1>3 DEF StampsOK, TypeOK
  <2> QED  BY <1>1, <2>1, <2>2 DEF StampsOK, card
<1>7. ListsOK'
  <2>1. \A m \in loads' : m.asks \subseteq Of(m.session)
    BY <1>2 DEF ListsOK, PendingOf
  <2> QED  BY <1>1, <2>1 DEF ListsOK, Of
<1>8. AnsweredOK'
  <2> SUFFICES ASSUME NEW a \in answered, NEW m \in loads', a \in m.asks PROVE m.stamp <= drop[a]
    BY <1>1 DEF AnsweredOK, card
  <2>1. status[a] # "pending"  BY DEF AnsweredOK
  <2>2. m \in loads  BY <1>2, <2>1 DEF PendingOf
  <2> QED  BY <2>2 DEF AnsweredOK
<1>9. AloneOK'
  <2> SUFFICES ASSUME NEW m \in loads', m.alone, NEW a \in Of(m.session)
               PROVE  born[a] < m.stamp /\ drop[a] < m.stamp
    BY <1>1 DEF AloneOK, Of, card
  <2>1. a \in Asks  BY DEF Of
  <2>2. CASE m \in loads \/ Heard(m)  BY <2>2 DEF AloneOK
  <2>3. CASE New(m)  BY <2>1, <2>3, <1>3 DEF StampsOK, TypeOK
  <2> QED  BY <1>2, <2>2, <2>3
<1> QED  BY <1>4, <1>5, <1>6, <1>7, <1>8, <1>9

\* The reads left by a list that lands: those of its thread are disturbed.
LEMMA LandingKeeps ==
    ASSUME Inv, NEW s, NEW list, NEW at, NEW some \in SUBSET loads,
           Landing(s, list, at),
           loads' = Disturbed(s, some),
           turn' = turn \/ turn' = NoTurn(turn.session),
           UNCHANGED <<status, request, call, answered>>
    PROVE  Inv'
<1> USE DEF Inv
<1>1. some \in SUBSET Loads  BY DEF TypeOK
<1>2. \A m \in loads' :
        /\ m \in Loads
        /\ \E l \in loads : /\ m.session = l.session /\ m.stamp = l.stamp /\ m.asks = l.asks
                            /\ m.alone => l.alone /\ l.session # s
  BY <1>1, Disturbs
<1>3. /\ turn'.session = turn.session /\ turn'.asks \subseteq turn.asks
      /\ turn' \in [session : Sessions, out : BOOLEAN, asks : Lists, heard : BOOLEAN]
  <2>1. CASE turn' = turn  BY <2>1 DEF TypeOK
  <2>2. CASE turn' = NoTurn(turn.session)
    <3>1. turn.session \in Sessions  BY DEF TypeOK
    <3> QED  BY <2>2, <3>1 DEF NoTurn, Lists
  <2> QED  BY <2>1, <2>2
<1>4. loadSeq \in Nat /\ loadSeq' \in Nat /\ loadSeq <= loadSeq'  BY DEF Landing, TypeOK
<1>5. TypeOK'
  <2>1. loads' \in SUBSET Loads  BY <1>2
  <2>2. busy' \in Asks \cup {NoAsk}  BY LandingFacts DEF TypeOK
  <2> QED  BY <1>3, <1>4, <2>1, <2>2, LandingFacts DEF TypeOK
<1>6. TextsOK'  BY LandingFacts DEF TextsOK
<1>7. StampsOK'
  <2>1. \A m \in loads' : m.stamp # 0 /\ m.stamp <= loadSeq'
    BY <1>2, <1>4 DEF StampsOK, TypeOK, Loads
  <2> QED  BY <2>1, LandingFacts DEF StampsOK
<1>8. ListsOK'
  <2>1. \A m \in loads' : m.asks \subseteq Of(m.session)  BY <1>2 DEF ListsOK
  <2>2. turn'.asks \subseteq Of(turn'.session)  BY <1>3 DEF ListsOK
  <2> QED  BY <2>1, <2>2 DEF ListsOK, Of
<1>9. CallOK'
  <2>1. busy' \in {busy, NoAsk}  BY LandingFacts
  <2> QED  BY <2>1 DEF CallOK
<1>10. AnsweredOK'
  <2> SUFFICES ASSUME NEW a \in answered, NEW m \in loads', a \in m.asks PROVE m.stamp <= drop'[a]
    BY DEF AnsweredOK
  <2>1. a \in Asks  BY DEF TypeOK, Lists
  <2>2. m.stamp <= drop[a]  BY <1>2 DEF AnsweredOK
  <2>3. m.stamp \in Nat  BY <1>2 DEF Loads
  <2> QED  BY <2>1, <2>2, <2>3, LandingFacts DEF TypeOK
<1>11. AloneOK'
  <2> SUFFICES ASSUME NEW m \in loads', m.alone, NEW a \in Of(m.session)
               PROVE  born'[a] < m.stamp /\ drop'[a] < m.stamp
    BY DEF AloneOK, Of
  <2>1. PICK l \in loads : /\ m.session = l.session /\ m.stamp = l.stamp
                           /\ l.alone /\ l.session # s
    BY <1>2
  <2>2. a \in Asks /\ a \notin Of(s)  BY <2>1 DEF Of
  <2>3. born[a] < m.stamp /\ drop[a] < m.stamp  BY <2>1 DEF AloneOK
  <2> QED  BY <2>2, <2>3, LandingFacts
<1> QED  BY <1>5, <1>6, <1>7, <1>8, <1>9, <1>10, <1>11

LEMMA TurnKeeps ==
    ASSUME Inv, (\E s \in Sessions : TurnStarts(s)) \/ TurnHears \/ TurnLands
    PROVE  Inv'
<1> USE DEF Inv
<1> DEFINE Turns == [session : Sessions, out : BOOLEAN, asks : Lists, heard : BOOLEAN]
<1>1. CASE TurnLands /\ turn.heard
  <2>1. loads' = Disturbed(turn.session, loads) /\ turn' = NoTurn(turn.session)
        /\ UNCHANGED <<status, request, call, answered>>
    BY <1>1 DEF TurnLands
  <2> QED  BY <1>1, <2>1, TurnIsLanding, LandingKeeps
<1>2. CASE ~(TurnLands /\ turn.heard)
  <2>1. /\ UNCHANGED <<status, loads, card, request, call, answered>>
        /\ loadSeq' \in {loadSeq, loadSeq + 1}
    BY <1>2 DEF TurnStarts, TurnHears, TurnLands
  <2>2. turn' \in Turns /\ turn'.asks \subseteq Of(turn'.session)
    <3>1. ASSUME NEW s \in Sessions, TurnStarts(s) PROVE <2>2
      BY <3>1 DEF TurnStarts, Turn, Lists
    <3>2. CASE TurnHears
      BY <3>2 DEF TurnHears, TypeOK, PendingOf, Of, Lists
    <3>3. CASE TurnLands
      BY <3>3 DEF TurnLands, NoTurn, TypeOK, Lists
    <3> QED  BY <3>1, <3>2, <3>3
  <2>3. loadSeq \in Nat /\ loadSeq' \in Nat /\ loadSeq <= loadSeq'  BY <2>1 DEF TypeOK
  <2>4. TypeOK'  BY <2>1, <2>2, <2>3 DEF TypeOK, card
  <2>5. StampsOK'
    <3>1. \A l \in loads : l.stamp # 0 /\ l.stamp <= loadSeq'
      BY <2>3 DEF StampsOK, TypeOK, Loads
    <3>2. \A a \in Asks : born[a] <= loadSeq' /\ drop[a] <= loadSeq'
      BY <2>3 DEF StampsOK, TypeOK
    <3> QED  BY <2>1, <3>1, <3>2 DEF StampsOK, card
  <2>6. ListsOK'  BY <2>1, <2>2 DEF ListsOK, Of
  <2>7. TextsOK' /\ CallOK' /\ AnsweredOK' /\ AloneOK'
    BY <2>1 DEF TextsOK, CallOK, AnsweredOK, AloneOK, Of, card
  <2> QED  BY <2>4, <2>5, <2>6, <2>7
<1> QED  BY <1>1, <1>2

LEMMA ReadLandingKeeps == ASSUME Inv, NEW l \in loads, ReadLands(l) PROVE Inv'
<1>1. loads' = Disturbed(l.session, loads \ {l}) /\ UNCHANGED <<status, turn, request, call, answered>>
  BY DEF ReadLands
<1> QED  BY <1>1, ReadIsLanding, LandingKeeps

LEMMA CardKeeps ==
    ASSUME Inv, (\E a \in Asks : Types(a) \/ Submits(a)) \/ Starts
    PROVE  Inv'
<1> USE DEF Inv
<1>1. UNCHANGED <<status, loads, turn, shown, born, drop, parked, loadSeq, answered>>
  BY DEF Types, Submits, Starts, card
<1>2. typed' \in Lists /\ typed' \subseteq shown
  BY DEF Types, Submits, Starts, card, TypeOK, Lists, TextsOK
<1>3. /\ request' \in Asks \cup {NoAsk} /\ busy' \in Asks \cup {NoAsk}
      /\ call' \in [ask : Asks, outcome : Outcomes \cup {"out"}] \cup {NoCall}
      /\ CallOK'
  <2>1. ASSUME NEW a \in Asks, Types(a) \/ Submits(a) PROVE <1>3
    BY <2>1, <1>1 DEF Types, Submits, card, TypeOK, CallOK
  <2>2. CASE Starts
    <3>1. request \in Asks  BY <2>2 DEF Starts, TypeOK
    <3>2. call' = Call(request) /\ busy' = request /\ request' = NoAsk  BY <2>2 DEF Starts
    <3>3. call'.ask = request /\ call'.outcome = "out" /\ call' # NoCall
      BY <3>1, <3>2, AskAssumption DEF Call, NoCall
    <3> QED  BY <3>1, <3>2, <3>3 DEF CallOK, Call
  <2> QED  BY <2>1, <2>2
<1>4. TypeOK'  BY <1>1, <1>2, <1>3 DEF TypeOK
<1>5. StampsOK' /\ ListsOK' /\ TextsOK' /\ AnsweredOK' /\ AloneOK'
  BY <1>1, <1>2 DEF StampsOK, ListsOK, TextsOK, AnsweredOK, AloneOK, Of
<1> QED  BY <1>3, <1>4, <1>5

LEMMA AnswerEndKeeps == ASSUME Inv, NEW o \in Outcomes, AnswerEnds(o) PROVE Inv'
<1> USE DEF Inv
<1>1. UNCHANGED <<loads, turn, card, loadSeq, request, answered>>  BY DEF AnswerEnds
<1>2. call # NoCall /\ call.ask \in Asks  BY DEF AnswerEnds, TypeOK, NoCall
<1>3. /\ call' = [call EXCEPT !.outcome = o]
      /\ call' \in [ask : Asks, outcome : Outcomes \cup {"out"}]
      /\ call'.ask = call.ask /\ call'.outcome = o
  BY <1>2 DEF AnswerEnds, TypeOK
<1>4. /\ status' \in [Asks -> {"unraised", "pending", "settled"}]
      /\ \A b \in Asks : status[b] = "settled" => status'[b] = "settled"
      /\ o \in {"ok", "gone"} => status'[call.ask] = "settled"
  BY <1>2 DEF AnswerEnds, TypeOK
<1>5. TypeOK'  BY <1>1, <1>3, <1>4 DEF TypeOK, card
<1>6. StampsOK' /\ ListsOK' /\ TextsOK' /\ AloneOK'
  BY <1>1 DEF StampsOK, ListsOK, TextsOK, AloneOK, Of, card
<1>7. CallOK'
  <2>1. call' # NoCall  BY <1>2, <1>3, AskAssumption DEF NoCall
  <2> QED  BY <1>1, <1>2, <1>3, <1>4, <2>1 DEF CallOK, card
<1>8. AnsweredOK'
  <2>1. answered \subseteq Asks  BY DEF TypeOK, Lists
  <2> QED  BY <1>1, <1>4, <2>1 DEF AnsweredOK, card
<1> QED  BY <1>5, <1>6, <1>7, <1>8

LEMMA AnswerKeeps == ASSUME Inv, AnswerLands PROVE Inv'
<1> USE DEF Inv
<1> DEFINE s == SessionOf[call.ask]
           New(m) == m.stamp = loadSeq + 1 /\ m.asks = {} /\ loadSeq' = loadSeq + 1
           Old(m) == \E l \in loads : /\ m.session = l.session /\ m.stamp = l.stamp /\ m.asks = l.asks
                                      /\ m.alone => l.alone
                                      /\ m.alone /\ Settled => l.session # s
<1>1. \A m \in loads' : m \in Loads /\ (New(m) \/ Old(m))
  BY AnswerReads
<1>2. /\ loadSeq \in Nat /\ loadSeq' \in Nat /\ loadSeq <= loadSeq'
      /\ UNCHANGED <<status, turn, request>> /\ busy' = NoAsk /\ call' = NoCall
  BY AnswerFacts DEF TypeOK
<1>3. /\ shown' \in Lists /\ typed' \in Lists /\ answered' \in Lists
      /\ born' \in [Asks -> Nat] /\ drop' \in [Asks -> Nat]
      /\ typed' \subseteq shown'
  <2>1. CASE Settled  BY <2>1, AnswerFacts DEF TakenOff, DroppedAt, TypeOK, Lists, TextsOK
  <2>2. CASE ~Settled  BY <2>2, AnswerFacts DEF NothingTakenOff, TypeOK, TextsOK
  <2> QED  BY <2>1, <2>2
<1>4. \A a \in Asks : /\ born'[a] \in {0, born[a]} /\ drop'[a] \in {loadSeq, drop[a]}
                      /\ drop'[a] = drop[a] \/ (Settled /\ a = call.ask)
  <2>1. CASE Settled  BY <2>1, AnswerFacts DEF TakenOff, DroppedAt, TypeOK
  <2>2. CASE ~Settled  BY <2>2, AnswerFacts DEF NothingTakenOff
  <2> QED  BY <2>1, <2>2
<1>5. \A a \in Asks : born'[a] <= loadSeq /\ drop[a] <= drop'[a] /\ drop'[a] <= loadSeq
  BY <1>2, <1>4 DEF StampsOK, TypeOK
<1>6. TypeOK'
  <2>1. parked' \in Lists  BY DEF AnswerLands, TextOf, TypeOK, Lists
  <2>2. loads' \in SUBSET Loads  BY <1>1
  <2> QED  BY <1>2, <1>3, <2>1, <2>2 DEF TypeOK
<1>7. StampsOK'
  <2>1. \A m \in loads' : m.stamp # 0 /\ m.stamp <= loadSeq'
    BY <1>1, <1>2 DEF StampsOK, Loads
  <2>2. \A a \in Asks : born'[a] <= loadSeq' /\ drop'[a] <= loadSeq'
    BY <1>2, <1>3, <1>5
  <2> QED  BY <2>1, <2>2 DEF StampsOK
<1>8. ListsOK'
  <2>1. \A m \in loads' : m.asks \subseteq Of(m.session)  BY <1>1 DEF ListsOK
  <2> QED  BY <1>2, <2>1 DEF ListsOK, Of
<1>9. TextsOK' /\ CallOK'
  BY <1>2, <1>3 DEF TextsOK, CallOK, NoCall
<1>10. AnsweredOK'
  <2> SUFFICES ASSUME NEW a \in answered'
               PROVE  status[a] = "settled" /\ \A m \in loads' : a \in m.asks => m.stamp <= drop'[a]
    BY <1>2 DEF AnsweredOK
  <2>1. a \in Asks  BY <1>3 DEF Lists
  <2>2. CASE a \in answered
    <3>1. status[a] = "settled" /\ \A m \in loads' : a \in m.asks => m.stamp <= drop[a]
      BY <1>1, <2>2 DEF AnsweredOK
    <3>2. \A m \in loads' : m.stamp \in Nat  BY <1>1 DEF Loads
    <3> QED  BY <1>3, <1>5, <2>1, <3>1, <3>2 DEF TypeOK
  <2>3. CASE a \notin answered
    <3>1. Settled /\ a = call.ask
      BY <2>3, AnswerFacts DEF TakenOff, NothingTakenOff
    <3>2. status[a] = "settled" /\ drop'[a] = loadSeq
      BY <3>1, <2>1, AnswerFacts DEF TakenOff, DroppedAt, TypeOK
    <3>3. \A m \in loads' : a \in m.asks => m.stamp <= loadSeq
      BY <1>1 DEF StampsOK
    <3> QED  BY <3>2, <3>3
  <2> QED  BY <2>2, <2>3
<1>11. AloneOK'
  <2> SUFFICES ASSUME NEW m \in loads', m.alone, NEW a \in Of(m.session)
               PROVE  born'[a] < m.stamp /\ drop'[a] < m.stamp
    BY DEF AloneOK, Of
  <2>1. a \in Asks /\ SessionOf[a] = m.session /\ m.stamp \in Nat  BY <1>1 DEF Of, Loads
  <2>2. CASE New(m)  BY <1>2, <1>3, <1>5, <2>1, <2>2
  <2>3. CASE Old(m)
    <3>1. PICK l \in loads : /\ m.session = l.session /\ m.stamp = l.stamp
                             /\ l.alone /\ (Settled => l.session # s)
      BY <2>3
    <3>2. born[a] < m.stamp /\ drop[a] < m.stamp /\ m.stamp # 0
      BY <3>1 DEF AloneOK, StampsOK
    <3>3. drop'[a] = drop[a]  BY <1>4, <2>1, <3>1
    <3> QED  BY <1>4, <2>1, <3>2, <3>3
  <2> QED  BY <1>1, <2>2, <2>3
<1> QED  BY <1>6, <1>7, <1>8, <1>9, <1>10, <1>11

LEMMA StepKeeps == ASSUME Inv, [Next]_vars PROVE Inv'
<1>1. CASE UNCHANGED vars
  BY <1>1 DEF Inv, vars, card, TypeOK, StampsOK, ListsOK, TextsOK, CallOK, AnsweredOK, AloneOK, Of
<1>2. CASE Next
  BY <1>2, ServerKeeps, ReadsKeep, TurnKeeps, ReadLandingKeeps, CardKeeps, AnswerEndKeeps, AnswerKeeps
     DEF Next
<1> QED  BY <1>1, <1>2

LEMMA Invariance == Spec => []Inv
BY InitInv, StepKeeps, PTL DEF Spec

(***************************************************************************)
(* The results.                                                            *)
(***************************************************************************)

\* The variables of the cards, the reads and the answer keep their types.
THEOREM TypeCorrect == Spec => []TypeOK
BY Invariance, PTL DEF Inv

\* A list that lands keeps what is busy, unless the ask had been dropped.
LEMMA LandingIsBusy ==
    ASSUME NEW s, NEW asks, NEW stamp, Apply(s, Adopted(s, asks, stamp), stamp), busy # NoAsk
    PROVE  busy' = busy \/ drop[busy] # 0
BY DEF Apply, Adopted, WithoutDropped, KeepNewer, KeepBusy, IsStale, ShownOf

\* A card under answer stays busy with it.
THEOREM UnderAnswer == Spec => StaysBusy
<1> DEFINE Kept == busy # NoAsk => busy' = busy \/ call' = NoCall \/ drop[busy] # 0
<1>1. ASSUME Inv, [Next]_vars PROVE Kept
  <2> SUFFICES ASSUME busy # NoAsk PROVE busy' = busy \/ call' = NoCall \/ drop[busy] # 0
    OBVIOUS
  <2>1. ASSUME NEW l \in loads, ReadLands(l) PROVE busy' = busy \/ drop[busy] # 0
    BY <2>1, LandingIsBusy DEF ReadLands
  <2>2. CASE TurnLands /\ turn.heard
    BY <2>2, LandingIsBusy DEF TurnLands
  <2>3. CASE TurnLands /\ ~turn.heard  BY <2>3 DEF TurnLands, card
  <2>4. CASE Starts  BY <1>1, <2>4 DEF Starts, Inv, CallOK
  <2>5. CASE AnswerLands  BY <2>5 DEF AnswerLands
  <2>6. CASE UNCHANGED busy  BY <2>6
  <2> QED
    BY <1>1, <2>1, <2>2, <2>3, <2>4, <2>5, <2>6
    DEF Next, vars, card, Raises, OthersSettle, Types, Submits, Reads, ReadAnswered, ReadVanishes,
        TurnStarts, TurnHears, AnswerEnds
<1> QED  BY <1>1, Invariance, PTL DEF Spec, StaysBusy

\* What a list shows was listed, or shown before; and it never shows what was
\* dropped at its stamp or later.
LEMMA LandingShows ==
    ASSUME NEW s, NEW asks, NEW stamp, Apply(s, Adopted(s, asks, stamp), stamp),
           NEW a \in shown' \ shown
    PROVE  a \in asks /\ ~IsStale(a, stamp)
BY DEF Apply, Adopted, WithoutDropped, KeepNewer, KeepBusy, ShownOf

\* An answered ask is brought back by the list of a turn only.
THEOREM AnsweredIsOver == Spec => AnsweredStaysGone
<1> DEFINE Gone == \A a \in answered : a \in shown' => a \in shown \/ (turn.out /\ ~turn'.out /\ a \in turn.asks)
<1>1. ASSUME Inv, [Next]_vars PROVE Gone
  <2> SUFFICES ASSUME NEW a \in answered, a \in shown' \ shown
               PROVE  turn.out /\ ~turn'.out /\ a \in turn.asks
    OBVIOUS
  <2>1. ASSUME NEW l \in loads, ReadLands(l) PROVE FALSE
    <3>1. a \in l.asks /\ ~IsStale(a, l.stamp)  BY <2>1, LandingShows DEF ReadLands
    <3>2. l.stamp <= drop[a] /\ l.stamp # 0  BY <1>1, <3>1 DEF Inv, AnsweredOK, StampsOK
    <3>3. a \in Asks /\ l.stamp \in Nat /\ drop[a] \in Nat
      BY <1>1 DEF Inv, TypeOK, Lists, Loads
    <3> QED  BY <3>1, <3>2, <3>3 DEF IsStale
  <2>2. CASE TurnLands /\ turn.heard
    <3>1. a \in turn.asks  BY <2>2, LandingShows DEF TurnLands
    <3> QED  BY <2>2, <3>1 DEF TurnLands, NoTurn
  <2>3. CASE TurnLands /\ ~turn.heard  BY <2>3 DEF TurnLands, card
  <2>4. CASE AnswerLands  BY <2>4 DEF AnswerLands, TakenOff, NothingTakenOff
  <2>5. CASE UNCHANGED shown  BY <2>5
  <2> QED
    BY <1>1, <2>1, <2>2, <2>3, <2>4, <2>5
    DEF Next, vars, card, Raises, OthersSettle, Types, Submits, Reads, ReadAnswered, ReadVanishes,
        TurnStarts, TurnHears, Starts, AnswerEnds
<1> QED  BY <1>1, Invariance, PTL DEF Spec, AnsweredStaysGone

\* What was typed is kept, but for the text of an answer that was accepted.
THEOREM TypedIsKept == Spec => DraftIsKept
<1> DEFINE Kept == \A a \in typed : a \in typed' \cup parked' \/ (busy = a /\ call.outcome = "ok" /\ call' = NoCall)
<1>1. ASSUME Inv, [Next]_vars PROVE Kept
  <2> SUFFICES ASSUME NEW a \in typed, a \notin typed' \cup parked'
               PROVE  busy = a /\ call.outcome = "ok" /\ call' = NoCall
    OBVIOUS
  <2>1. ASSUME NEW s, NEW list, NEW stamp, Apply(s, list, stamp) PROVE FALSE
    BY <2>1 DEF Apply
  <2>2. CASE \E l \in loads : ReadLands(l)  BY <2>1, <2>2 DEF ReadLands
  <2>3. CASE TurnLands  BY <2>1, <2>3 DEF TurnLands, card
  <2>4. CASE AnswerLands
    <3>1. Settled  BY <1>1, <2>4, AnswerFacts DEF NothingTakenOff
    <3>2. busy = a /\ call' = NoCall  BY <1>1, <2>4, <3>1, AnswerFacts DEF TakenOff
    <3>3. a \in shown  BY <1>1 DEF Inv, TextsOK
    <3>4. call.outcome # "gone"  BY <2>4, <3>2, <3>3 DEF AnswerLands, TextOf
    <3> QED  BY <2>4, <3>1, <3>2, <3>4 DEF AnswerLands, Outcomes, Settled
  <2>5. CASE typed \subseteq typed'  BY <2>5
  <2> QED
    BY <1>1, <2>2, <2>3, <2>4, <2>5
    DEF Next, vars, card, Raises, OthersSettle, Types, Submits, Reads, ReadAnswered, ReadVanishes,
        TurnStarts, TurnHears, Starts, AnswerEnds
<1> QED  BY <1>1, Invariance, PTL DEF Spec, DraftIsKept

\* Of an undisturbed read nothing is filtered out, and nothing outranks it.
LEMMA AloneIsAdopted ==
    ASSUME Inv, NEW l \in loads, l.alone
    PROVE  Adopted(l.session, l.asks, l.stamp) = l.asks \cup ({busy} \cap ShownOf(l.session))
<1> USE DEF Inv
<1>1. \A a \in Of(l.session) : ~BornAfter(a, l.stamp) /\ ~IsStale(a, l.stamp)
  <2> SUFFICES ASSUME NEW a \in Of(l.session) PROVE ~BornAfter(a, l.stamp) /\ ~IsStale(a, l.stamp)
    OBVIOUS
  <2>1. born[a] < l.stamp /\ drop[a] < l.stamp  BY DEF AloneOK
  <2>2. born[a] \in Nat /\ drop[a] \in Nat /\ l.stamp \in Nat  BY DEF TypeOK, Of, Loads
  <2> QED  BY <2>1, <2>2 DEF BornAfter, IsStale
<1>2. l.asks \subseteq Of(l.session)  BY DEF ListsOK
<1> QED  BY <1>1, <1>2 DEF Adopted, WithoutDropped, KeepNewer, KeepBusy, ShownOf

\* A read that nothing disturbs sets the card right.
THEOREM QuietReadSettles == Spec => RefreshSettles
<1> DEFINE Settles ==
      \A l \in loads :
         l.alone /\ l.asks = PendingOf(l.session) /\ ReadLands(l)
           => ShownOf(l.session)' = PendingOf(l.session) \cup ({busy} \cap ShownOf(l.session))
<1>1. ASSUME Inv, [Next]_vars PROVE Settles
  <2> SUFFICES ASSUME NEW l \in loads, l.alone, l.asks = PendingOf(l.session), ReadLands(l)
               PROVE  ShownOf(l.session)' = l.asks \cup ({busy} \cap ShownOf(l.session))
    OBVIOUS
  <2> DEFINE list == l.asks \cup ({busy} \cap ShownOf(l.session))
  <2>1. Apply(l.session, list, l.stamp)  BY <1>1, AloneIsAdopted DEF ReadLands
  <2>2. list \subseteq Of(l.session)  BY <1>1 DEF Inv, ListsOK, ShownOf
  <2>3. ShownOf(l.session)' = shown' \cap Of(l.session)  BY DEF ShownOf, Of
  <2> QED  BY <2>1, <2>2, <2>3 DEF Apply, ShownOf
<1> QED  BY <1>1, Invariance, PTL DEF Spec, RefreshSettles
=============================================================================
