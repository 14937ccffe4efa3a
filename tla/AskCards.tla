------------------------------ MODULE AskCards ------------------------------
(***************************************************************************)
(* The questions an agent asks: hanabi::ask::State (ecs/ask_card.h), the   *)
(* asks of each thread (AppComponent::attachAsks), the reads that bring    *)
(* them, the turn that raises them and the one answer in flight.           *)
(*                                                                         *)
(* A read is stamped when it is requested and says, when it lands, which   *)
(* asks were pending when the server looked.  Reads of one thread are made *)
(* by the pane's fetch, by the live refetch and by the ask refresh, and    *)
(* land in any order.  An ask keeps the stamp of the read that carried it  *)
(* last (born) and the stamp that was the newest when it was dropped; a    *)
(* stamp of 0 says that there is none.                                     *)
(***************************************************************************)
EXTENDS Naturals

CONSTANTS
    Asks,
    Sessions,
    SessionOf,   \* the thread of an ask, the first part of its id
    NoAsk,
    Sources,     \* bound: which of the three kinds of reads there are
    MaxStamp     \* bound: stamps, of reads and of turns

Kinds == {"fetch", "live", "refresh"}

ASSUME AskAssumption ==
    /\ SessionOf \in [Asks -> Sessions]
    /\ NoAsk \notin Asks
    /\ Sources \subseteq Kinds
    /\ MaxStamp \in Nat

VARIABLES
    status,    \* per ask, at the server
    loads,     \* reads of a thread under way
    turn,      \* the stream of a turn, with the last list it was told
    shown,     \* attachAsks: the asks on the cards of all threads
    typed,     \* askState.answers: asks with something typed into their card
    born,      \* askState.bornStamp
    drop,      \* askState.dropStamp
    loadSeq,   \* askState.loadSeq
    busy,      \* askState.busyId
    request,   \* requestAskSessionId, requestAsk
    call,      \* askFuture, askInFlightSession
    parked,    \* askRescued: asks whose answer was kept for the composer
    answered   \* asks that the end of their own answer took off their card

card == <<shown, typed, born, drop, busy, parked>>
vars == <<status, loads, turn, card, loadSeq, request, call, answered>>

Outcomes == {"ok", "gone", "failed"}

(* `alone`: nothing else changed the thread's card since the request.      *)
Load(src, s, stamp) ==
    [src |-> src, session |-> s, stamp |-> stamp, asks |-> {}, answered |-> FALSE, alone |-> TRUE]

Turn(s, asks) == [session |-> s, out |-> TRUE, asks |-> asks, heard |-> FALSE]
NoTurn(s) == [session |-> s, out |-> FALSE, asks |-> {}, heard |-> FALSE]

Call(a) == [ask |-> a, outcome |-> "out"]
NoCall == [ask |-> NoAsk, outcome |-> "none"]

Of(s) == {a \in Asks : SessionOf[a] = s}
ShownOf(s) == shown \cap Of(s)
PendingOf(s) == {a \in Of(s) : status[a] = "pending"}

Init ==
    /\ status = [a \in Asks |-> "unraised"]
    /\ loads = {}
    /\ turn \in {NoTurn(s) : s \in Sessions}
    /\ shown = {} /\ typed = {} /\ parked = {} /\ answered = {}
    /\ born = [a \in Asks |-> 0] /\ drop = [a \in Asks |-> 0]
    /\ loadSeq = 0
    /\ busy = NoAsk /\ request = NoAsk /\ call = NoCall

-----------------------------------------------------------------------------
(* What a list that lands does to the card.                                *)

BornAfter(a, stamp) == born[a] > stamp

StaleUnlessEqual(a, stamp) == drop[a] # 0 /\ stamp < drop[a]
IsStale(a, stamp) == drop[a] # 0 /\ stamp <= drop[a]

BusyIsNoException(s, fresh) == fresh
KeepBusy(s, fresh) == fresh \cup ({busy} \cap ShownOf(s))

KeepNewer(s, fresh, stamp) == fresh \cup {a \in ShownOf(s) : BornAfter(a, stamp)}

WithoutDropped(fresh, stamp) == {a \in fresh : ~IsStale(a, stamp)}

Adopted(s, asks, stamp) == WithoutDropped(KeepNewer(s, KeepBusy(s, asks), stamp), stamp)

DroppedForNext(now) == now + 1
DroppedAt(now) == now

(* apply_attach_asks: what the list lacks is retired, its text kept for    *)
(* the composer; an empty list says so of each ask it retires.             *)
Apply(s, list, stamp) ==
    LET retired == ShownOf(s) \ list IN
    /\ shown' = (shown \ retired) \cup list
    /\ typed' = typed \ retired
    /\ parked' = parked \cup (typed \cap retired)
    /\ born' = [a \in Asks |-> IF a \in list THEN stamp ELSE IF a \in retired THEN 0 ELSE born[a]]
    /\ drop' = [a \in Asks |-> IF list = {} /\ a \in retired THEN DroppedAt(loadSeq') ELSE drop[a]]
    /\ busy' = IF busy \in retired THEN NoAsk ELSE busy

Disturbed(s, some) ==
    {[l EXCEPT !.alone = l.alone /\ l.session # s] : l \in some}

-----------------------------------------------------------------------------
(* The server, and other clients of the reader.                            *)

Raises(a) ==
    /\ status[a] = "unraised"
    /\ status' = [status EXCEPT ![a] = "pending"]
    /\ UNCHANGED <<loads, turn, card, loadSeq, request, call, answered>>

OthersSettle(a) ==
    /\ status[a] = "pending"
    /\ status' = [status EXCEPT ![a] = "settled"]
    /\ UNCHANGED <<loads, turn, card, loadSeq, request, call, answered>>

-----------------------------------------------------------------------------
(* Reads.                                                                  *)

Outstanding(src, s) == \E l \in loads : l.src = src /\ l.session = s

Requested(src, s, some) ==
    /\ loadSeq < MaxStamp
    /\ loadSeq' = loadSeq + 1
    /\ loads' = some \cup {Load(src, s, loadSeq + 1)}

Reads(src, s) ==
    /\ ~Outstanding(src, s)
    /\ Requested(src, s, loads)
    /\ UNCHANGED <<status, turn, card, request, call, answered>>

ReadAnswered(l) ==
    /\ ~l.answered
    /\ loads' = (loads \ {l}) \cup {[l EXCEPT !.asks = PendingOf(l.session), !.answered = TRUE]}
    /\ UNCHANGED <<status, turn, card, loadSeq, request, call, answered>>

(* It fails, or another read takes its place, or its pane shows another    *)
(* thread by now.                                                          *)
ReadVanishes(l) ==
    /\ loads' = loads \ {l}
    /\ UNCHANGED <<status, turn, card, loadSeq, request, call, answered>>

(* In a frame the panes' fetches land before the pressed answer is taken   *)
(* up, and everything else after it.                                       *)
TakenUp == request = NoAsk \/ call # NoCall

ReadLands(l) ==
    /\ l.answered
    /\ l.src = "fetch" \/ TakenUp
    /\ loads' = Disturbed(l.session, loads \ {l})
    /\ UNCHANGED loadSeq
    /\ Apply(l.session, Adopted(l.session, l.asks, l.stamp), l.stamp)
    /\ UNCHANGED <<status, turn, request, call, answered>>

-----------------------------------------------------------------------------
(* The turn: its attach tells the pending asks, later frames correct them, *)
(* and what it was told last is adopted when it ends, as if read then.     *)

TurnStarts(s) ==
    /\ ~turn.out
    /\ loadSeq < MaxStamp
    /\ turn' = Turn(s, {})
    /\ UNCHANGED <<status, loads, card, loadSeq, request, call, answered>>

TurnHears ==
    /\ turn.out
    /\ turn' = [turn EXCEPT !.asks = PendingOf(turn.session), !.heard = TRUE]
    /\ UNCHANGED <<status, loads, card, loadSeq, request, call, answered>>

TurnLands ==
    /\ turn.out /\ TakenUp
    /\ loadSeq < MaxStamp
    /\ loadSeq' = loadSeq + 1
    /\ turn' = NoTurn(turn.session)
    /\ IF turn.heard
       THEN /\ loads' = Disturbed(turn.session, loads)
            /\ Apply(turn.session, Adopted(turn.session, turn.asks, loadSeq'), loadSeq')
       ELSE UNCHANGED <<loads, card>>
    /\ UNCHANGED <<status, request, call, answered>>

-----------------------------------------------------------------------------
(* The card, and the answer.                                               *)

(* The field stays open while the answer is out: what is typed then is not *)
(* part of it.                                                             *)
Types(a) ==
    /\ a \in shown \ typed
    /\ typed' = typed \cup {a}
    /\ UNCHANGED <<status, loads, turn, shown, born, drop, busy, parked, loadSeq, request, call,
                   answered>>

(* submit_ask.                                                             *)
Submits(a) ==
    /\ a \in shown
    /\ busy = NoAsk
    /\ TakenUp
    /\ request' = a
    /\ UNCHANGED <<status, loads, turn, card, loadSeq, call, answered>>

Starts ==
    /\ request # NoAsk
    /\ call = NoCall
    /\ call' = Call(request)
    /\ busy' = request
    /\ request' = NoAsk
    /\ UNCHANGED <<status, loads, turn, shown, typed, born, drop, parked, loadSeq, answered>>

(* resolve_ask: "ok" also when another client of the same user was first,  *)
(* "gone" when the ask is no longer listed, also after an unconfirmed      *)
(* answer, "failed" whatever became of it.                                 *)
AnswerEnds(outcome) ==
    /\ call.outcome = "out"
    /\ call' = [call EXCEPT !.outcome = outcome]
    /\ \/ status[call.ask] = "pending"
          /\ status' = [status EXCEPT ![call.ask] = "settled"]
       \/ status[call.ask] = "pending" /\ outcome = "failed" /\ UNCHANGED status
       \/ status[call.ask] = "settled" /\ UNCHANGED status
    /\ UNCHANGED <<loads, turn, card, loadSeq, request, answered>>

NoTextOnceDropped(a) == {}
TextOf(a) == typed \cap shown \cap {a}

(* drop_attach_ask of what busyId names, if it names any.                  *)
TakenOff(a) ==
    /\ shown' = shown \ {a}
    /\ typed' = typed \ {a}
    /\ born' = [born EXCEPT ![a] = 0]
    /\ drop' = [drop EXCEPT ![a] = DroppedAt(loadSeq)]
    /\ answered' = answered \cup {a}

NothingTakenOff == UNCHANGED <<shown, typed, born, drop, answered>>

AnswerLands ==
    /\ call.outcome \in Outcomes
    /\ call' = NoCall
    /\ busy' = NoAsk
    /\ LET s == SessionOf[call.ask]
           settled == call.outcome # "failed" /\ busy # NoAsk
           after == IF settled THEN Disturbed(s, loads) ELSE loads
       IN
       /\ IF settled THEN TakenOff(busy) ELSE NothingTakenOff
       /\ parked' = IF call.outcome = "gone" THEN parked \cup TextOf(busy) ELSE parked
       /\ IF call.outcome = "ok" /\ ~Outstanding("refresh", s)
          THEN Requested("refresh", s, after)
          ELSE loads' = after /\ UNCHANGED loadSeq
    /\ UNCHANGED <<status, turn, request>>

-----------------------------------------------------------------------------
Next ==
    \/ \E a \in Asks : Raises(a) \/ OthersSettle(a) \/ Types(a) \/ Submits(a)
    \/ \E src \in Sources, s \in Sessions : Reads(src, s)
    \/ \E l \in loads : ReadAnswered(l) \/ ReadVanishes(l) \/ ReadLands(l)
    \/ \E s \in Sessions : TurnStarts(s)
    \/ TurnHears \/ TurnLands \/ Starts \/ AnswerLands
    \/ \E outcome \in Outcomes : AnswerEnds(outcome)

Spec == Init /\ [][Next]_vars

-----------------------------------------------------------------------------
Lists == SUBSET Asks
Loads ==
    [src : Kinds, session : Sessions, stamp : Nat, asks : Lists, answered : BOOLEAN,
     alone : BOOLEAN]

TypeOK ==
    /\ status \in [Asks -> {"unraised", "pending", "settled"}]
    /\ loads \in SUBSET Loads
    /\ turn \in [session : Sessions, out : BOOLEAN, asks : Lists, heard : BOOLEAN]
    /\ shown \in Lists /\ typed \in Lists /\ parked \in Lists /\ answered \in Lists
    /\ born \in [Asks -> Nat] /\ drop \in [Asks -> Nat]
    /\ loadSeq \in Nat
    /\ busy \in Asks \cup {NoAsk} /\ request \in Asks \cup {NoAsk}
    /\ call \in [ask : Asks, outcome : Outcomes \cup {"out"}] \cup {NoCall}

(* While an answer is on its way the card stays busy with it: no list that *)
(* lands late frees it for a second answer, unless one had taken the ask   *)
(* off its card before.                                                    *)
StaysBusy ==
    [][busy # NoAsk => busy' = busy \/ call' = NoCall \/ drop[busy] # 0]_vars

(* An ask whose answer has ended does not come back, whatever reads were   *)
(* under way: only the list of a turn, which is stamped when it lands, can *)
(* bring it back.                                                          *)
AnsweredStaysGone ==
    [][\A a \in answered : a \in shown' => a \in shown \/ (turn.out /\ ~turn'.out /\ a \in turn.asks)]_vars

(* What the reader typed into a card goes only when the ask's own answer   *)
(* ends well, and then with what was typed since that answer was sent:     *)
(* however else the card goes, the text is kept for the composer.          *)
DraftIsKept ==
    [][\A a \in typed : a \in typed' \cup parked' \/ (busy = a /\ call.outcome = "ok" /\ call' = NoCall)]_vars

(* Whatever happened before: a read that nothing overtakes, and that saw   *)
(* what is pending, makes the card show exactly that, and the ask being    *)
(* answered.                                                               *)
RefreshSettles ==
    [][\A l \in loads :
         l.alone /\ l.asks = PendingOf(l.session) /\ ReadLands(l)
           => ShownOf(l.session)' = PendingOf(l.session) \cup ({busy} \cap ShownOf(l.session))]_vars
=============================================================================
