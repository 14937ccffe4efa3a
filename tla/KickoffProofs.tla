---------------------------- MODULE KickoffProofs ----------------------------
(***************************************************************************)
(* What is typed into a New Thread composer is in one place and is not     *)
(* dropped, for any number of panes, words and creates.                    *)
(***************************************************************************)
EXTENDS Kickoff, TLAPS

\* What Enter reported waits for the next frame only, beside no request, and the
\* field still holds it.
SubmitOK ==
    submit # NoMessage =>
        /\ part # "listeners" /\ request = NoMessage
        /\ submit.pane \in Panes /\ submit.words \subseteq drafts[submit.pane]

\* A request and a create under way come from a pane.
RequestOK == request # NoMessage => request.pane \in Panes
FlightOK == flight.fate \in PossibleFates /\ (flight.at # "none" => flight.pane \in Panes)

Inv == TypeOK /\ SubmitOK /\ RequestOK /\ FlightOK /\ OneCopy /\ RetryIsSafe

LEMMA MessageFields ==
    ASSUME NEW p, NEW ws
    PROVE  Message(p, ws).pane = p /\ Message(p, ws).words = ws
BY DEF Message

LEMMA NothingFields ==
    /\ NoMessage.pane = Nobody /\ NoMessage.words = {}
    /\ NoCreate.pane = Nobody /\ NoCreate.words = {} /\ NoCreate.at = "none"
    /\ NoCreate.fate \in PossibleFates /\ NoCreate.fate \in Fates
    /\ NoRestore.retry = FALSE
BY DEF NoMessage, Message, NoCreate, NoRestore, Restore, PossibleFates, Fates

LEMMA InitInv == Init => Inv
<1> SUFFICES ASSUME Init PROVE Inv  OBVIOUS
<1>1. TypeOK
  <2>1. NoMessage \in [pane : Panes \cup {Nobody}, words : SUBSET Words]
    BY DEF NoMessage, Message
  <2>2. NoCreate \in [pane : Panes \cup {Nobody}, words : SUBSET Words, fate : Fates,
                      at : {"none", "sent", "ended"}]
    BY DEF NoCreate, Fates
  <2>3. NoRestore \in [where : {"nowhere", "pane", Thread}, pane : Panes \cup {Nobody},
                       retry : BOOLEAN, fate : Fates]
    BY NothingFields DEF NoRestore, Restore
  <2> QED  BY <2>1, <2>2, <2>3 DEF Init, TypeOK
<1>2. SubmitOK /\ RequestOK /\ FlightOK
  BY NothingFields DEF Init, SubmitOK, RequestOK, FlightOK
<1>3. OneCopy  BY NothingFields DEF Init, OneCopy
<1>4. RetryIsSafe  BY NothingFields DEF Init, RetryIsSafe
<1> QED  BY <1>1, <1>2, <1>3, <1>4 DEF Inv

(***************************************************************************)
(* The landing of a create: its words go to one place, by its disposition. *)
(***************************************************************************)
LEMMA RetryFacts ==
    ASSUME NEW f \in PossibleFates, OffersRetry(Disposition(f))
    PROVE  ~f.landed /\ (Disposition(f) # "CreatedInputRejected" => ~f.created)
BY DEF PossibleFates, Fates, OffersRetry, Disposition

ToPane(words) ==
    /\ drafts' = [drafts EXCEPT ![flight.pane] = RestoredTo(@, words)]
    /\ UNCHANGED <<returned, parked, started>>
ToThread(words) == returned' = returned \cup words /\ UNCHANGED <<drafts, parked, started>>
ToOutbox(words) == parked' = parked \cup words /\ UNCHANGED <<drafts, returned, started>>
Delivered(words) == started' = started \cup words /\ UNCHANGED <<drafts, returned, parked>>

LEMMA LandingPlaces ==
    ASSUME Landing, flight.fate \in PossibleFates
    PROVE  \/ ToPane(flight.words) \/ ToThread(flight.words)
           \/ ToOutbox(flight.words) \/ Delivered(flight.words)
<1> DEFINE d == Disposition(flight.fate)
<1>1. d \in {"NotCreatedUnknown", "NotCreatedRejected", "CreatedInputUnknown", "Created",
             "CreatedInputRejected"}
  BY DEF Disposition
<1>2. CASE d \in {"NotCreatedUnknown", "NotCreatedRejected"}
  BY <1>2 DEF Landing, RestoresDraft, ToPane
<1>3. CASE d = "CreatedInputRejected"  BY <1>3 DEF Landing, RestoresDraft, ToThread
<1>4. CASE d = "CreatedInputUnknown"  BY <1>4 DEF Landing, RestoresDraft, ToOutbox
<1>5. CASE d = "Created"  BY <1>5 DEF Landing, RestoresDraft, Delivered
<1> QED  BY <1>1, <1>2, <1>3, <1>4, <1>5

LEMMA LandingRestore ==
    ASSUME Landing, flight.fate \in PossibleFates, RetryIsSafe
    PROVE  RetryIsSafe'
<1> DEFINE d == Disposition(flight.fate)
<1>1. CASE restore' = restore  BY <1>1 DEF RetryIsSafe
<1>2. CASE restore' = Restore("pane", flight.pane, OffersRetry(d), flight.fate)
           /\ d \in {"NotCreatedUnknown", "NotCreatedRejected"}
  BY <1>2, RetryFacts DEF RetryIsSafe, Restore
<1>3. CASE restore' = Restore(Thread, flight.pane, OffersRetry(d), flight.fate)
  BY <1>3, RetryFacts DEF RetryIsSafe, Restore, Thread
<1>4. d \in {"NotCreatedUnknown", "NotCreatedRejected", "CreatedInputUnknown", "Created",
             "CreatedInputRejected"}
  BY DEF Disposition
<1> QED  BY <1>1, <1>2, <1>3, <1>4 DEF Landing, RestoresDraft

LEMMA LandsInv ==
    ASSUME Inv, Lands, UNCHANGED <<submit, made>>, part' = "composers"
    PROVE  Inv'
<1> USE DEF Inv
<1> DEFINE ws == flight.words
<1>1. /\ flight.pane \in Panes /\ flight' = NoCreate /\ request' = request
      /\ ws \in SUBSET Words
  BY DEF Lands, FlightOK, TypeOK
<1>2. ToPane(ws) \/ ToThread(ws) \/ ToOutbox(ws) \/ Delivered(ws)
  BY LandingPlaces DEF Lands, FlightOK
<1>3. /\ drafts' \in [Panes -> SUBSET Words] /\ {returned', parked', started'} \subseteq SUBSET Words
      /\ \A p \in Panes : drafts[p] \subseteq drafts'[p]
  <2>1. CASE ToPane(ws)  BY <1>1, <2>1 DEF ToPane, RestoredTo, TypeOK
  <2> QED  BY <1>1, <1>2, <2>1 DEF ToThread, ToOutbox, Delivered, TypeOK
<1>4. TypeOK'
  <2>1. restore' \in [where : {"nowhere", "pane", Thread}, pane : Panes \cup {Nobody},
                      retry : BOOLEAN, fate : Fates]
    BY <1>1 DEF Lands, Landing, Restore, TypeOK, OffersRetry
  <2>2. flight' \in [pane : Panes \cup {Nobody}, words : SUBSET Words, fate : Fates,
                     at : {"none", "sent", "ended"}]
    BY <1>1, NothingFields DEF NoCreate
  <2> QED  BY <1>1, <1>3, <2>1, <2>2 DEF TypeOK
<1>5. SubmitOK' /\ RequestOK' /\ FlightOK'
  BY <1>1, <1>3, NothingFields DEF SubmitOK, RequestOK, FlightOK
<1>6. OneCopy'
  <2>1. request'.words = request.words /\ flight'.words = {}  BY <1>1, NothingFields
  <2>2. CASE ToPane(ws)  BY <1>1, <2>1, <2>2 DEF ToPane, RestoredTo, OneCopy, TypeOK
  <2>3. CASE ToThread(ws)  BY <1>1, <2>1, <2>3 DEF ToThread, OneCopy
  <2>4. CASE ToOutbox(ws)  BY <1>1, <2>1, <2>4 DEF ToOutbox, OneCopy
  <2>5. CASE Delivered(ws)  BY <1>1, <2>1, <2>5 DEF Delivered, OneCopy
  <2> QED  BY <1>2, <2>2, <2>3, <2>4, <2>5
<1>7. RetryIsSafe'  BY LandingRestore DEF Lands, FlightOK
<1> QED  BY <1>4, <1>5, <1>6, <1>7

LEMMA LaunchesInv ==
    ASSUME Inv, Launches, UNCHANGED <<submit, made>>, part' = "composers"
    PROVE  Inv'
<1> USE DEF Inv
<1>1. PICK f \in PossibleFates : flight' = Create(request, f)  BY DEF Launches
<1>2. /\ flight'.pane = request.pane /\ flight'.words = request.words
      /\ flight'.fate = f /\ flight'.at = "sent" /\ f \in Fates
  BY <1>1 DEF Create, PossibleFates
<1>3. /\ request # NoMessage /\ flight = NoCreate /\ request' = NoMessage
      /\ UNCHANGED <<drafts, restore, returned, parked, started, submit>>
  BY DEF Launches, KickoffPending
<1>4. request.pane \in Panes /\ submit = NoMessage  BY <1>3 DEF RequestOK, SubmitOK
<1>5. TypeOK'
  <2>1. flight' \in [pane : Panes \cup {Nobody}, words : SUBSET Words, fate : Fates,
                     at : {"none", "sent", "ended"}]
    BY <1>1, <1>2, <1>4 DEF Create, TypeOK
  <2>2. request' \in [pane : Panes \cup {Nobody}, words : SUBSET Words]
    BY <1>3 DEF NoMessage, Message
  <2> QED  BY <1>3, <2>1, <2>2 DEF TypeOK
<1>6. SubmitOK' /\ RequestOK' /\ FlightOK'
  BY <1>2, <1>3, <1>4 DEF SubmitOK, RequestOK, FlightOK
<1>7. OneCopy'
  <2>1. request'.words = {} /\ flight.words = {}  BY <1>3, NothingFields
  <2> QED  BY <1>2, <1>3, <2>1 DEF OneCopy
<1>8. RetryIsSafe'  BY <1>3 DEF RetryIsSafe
<1> QED  BY <1>5, <1>6, <1>7, <1>8

LEMMA LoaderInv == ASSUME Inv, LoaderTicks PROVE Inv'
<1>1. CASE Launches  BY <1>1, LaunchesInv DEF LoaderTicks
<1>2. CASE Lands  BY <1>2, LandsInv DEF LoaderTicks
<1>3. CASE LoaderIdle
  BY <1>3 DEF LoaderTicks, LoaderIdle, Inv, TypeOK, SubmitOK, RequestOK, FlightOK, OneCopy,
              RetryIsSafe
<1> QED  BY <1>1, <1>2, <1>3 DEF LoaderTicks

(***************************************************************************)
(* The composers and their listeners.                                      *)
(***************************************************************************)
LEMMA RoutesInv ==
    ASSUME Inv, Routes, UNCHANGED <<flight, returned, parked, started>>, part' = "listeners"
    PROVE  Inv'
<1> USE DEF Inv
<1>1. /\ submit # NoMessage /\ submit' = NoMessage /\ request = NoMessage
      /\ submit.pane \in Panes /\ submit.words \subseteq drafts[submit.pane]
  BY DEF Routes, Routed, SubmitOK
<1>2. NoMessage \in [pane : Panes \cup {Nobody}, words : SUBSET Words]
  BY DEF NoMessage, Message
<1>3. CASE KickoffPending
  <2>1. /\ drafts' = [drafts EXCEPT ![submit.pane] = submit.words]
        /\ restore' = Restore("pane", submit.pane, FALSE, NoCreate.fate)
        /\ UNCHANGED <<request, made>>
    BY <1>3 DEF Routes, Routed
  <2>2. TypeOK'  BY <1>1, <1>2, <2>1, NothingFields DEF TypeOK, Restore
  <2>3. SubmitOK' /\ RequestOK' /\ FlightOK'
    BY <1>1, <2>1 DEF SubmitOK, RequestOK, FlightOK
  <2>4. OneCopy'  BY <1>1, <2>1 DEF OneCopy, TypeOK
  <2>5. RetryIsSafe'  BY <2>1 DEF RetryIsSafe, Restore
  <2> QED  BY <2>2, <2>3, <2>4, <2>5
<1>4. CASE ~KickoffPending
  <2>1. /\ drafts' = [drafts EXCEPT ![submit.pane] = {}]
        /\ request' = submit /\ made' = made + 1 /\ UNCHANGED restore
    BY <1>4 DEF Routes, Routed
  <2>2. TypeOK'  BY <1>1, <1>2, <2>1 DEF TypeOK
  <2>3. SubmitOK' /\ RequestOK' /\ FlightOK'
    BY <1>1, <2>1 DEF SubmitOK, RequestOK, FlightOK
  <2>4. OneCopy'
    <3>1. flight.words = {} /\ request.words = {}
      BY <1>1, <1>4, NothingFields DEF KickoffPending
    <3>2. \A p \in Panes : /\ drafts'[p] \subseteq drafts[p]
                           /\ p = submit.pane => drafts'[p] = {}
      BY <1>1, <2>1 DEF TypeOK
    <3> QED  BY <1>1, <2>1, <3>1, <3>2 DEF OneCopy
  <2>5. RetryIsSafe'  BY <2>1 DEF RetryIsSafe
  <2> QED  BY <2>2, <2>3, <2>4, <2>5
<1> QED  BY <1>3, <1>4

LEMMA PressesInv ==
    ASSUME Inv, NEW p \in Panes, Presses(p), UNCHANGED <<flight, returned, parked, started>>,
           part' = "listeners"
    PROVE  Inv'
<1> USE DEF Inv
<1>1. /\ submit' = NoMessage /\ request = NoMessage /\ flight = NoCreate
      /\ request' = Message(p, drafts[p]) /\ made' = made + 1
      /\ drafts' = [drafts EXCEPT ![p] = {}]
      /\ restore' \in {restore, NoRestore}
  BY DEF Presses, Unhurried, SendEnabled, KickoffPending
<1>2. request'.pane = p /\ request'.words = drafts[p]  BY <1>1, MessageFields
<1>3. TypeOK'
  <2>1. request' \in [pane : Panes \cup {Nobody}, words : SUBSET Words]
    BY <1>1 DEF Message, TypeOK
  <2>2. NoRestore \in [where : {"nowhere", "pane", Thread}, pane : Panes \cup {Nobody},
                       retry : BOOLEAN, fate : Fates]
    BY NothingFields DEF NoRestore, Restore
  <2>3. submit' \in [pane : Panes \cup {Nobody}, words : SUBSET Words]
    BY <1>1 DEF NoMessage, Message
  <2> QED  BY <1>1, <2>1, <2>2, <2>3 DEF TypeOK
<1>4. SubmitOK' /\ RequestOK' /\ FlightOK'
  BY <1>1, <1>2 DEF SubmitOK, RequestOK, FlightOK
<1>5. OneCopy'
  <2>1. flight.words = {}  BY <1>1, NothingFields
  <2>2. \A q \in Panes : drafts'[q] = IF q = p THEN {} ELSE drafts[q]  BY <1>1 DEF TypeOK
  <2> QED  BY <1>2, <2>1, <2>2 DEF OneCopy
<1>6. RetryIsSafe'  BY <1>1, NothingFields DEF RetryIsSafe
<1> QED  BY <1>3, <1>4, <1>5, <1>6

LEMMA ComposersInv == ASSUME Inv, ComposersDraw PROVE Inv'
<1>1. CASE Routes  BY <1>1, RoutesInv DEF ComposersDraw
<1>2. ASSUME NEW p \in Panes, Presses(p) PROVE Inv'  BY <1>2, PressesInv DEF ComposersDraw
<1>3. CASE Dismisses \/ NothingPressed
  <2>1. /\ submit = NoMessage /\ restore' \in {restore, NoRestore}
        /\ UNCHANGED <<drafts, submit, request, made, flight, returned, parked, started>>
        /\ part' = "listeners"
    BY <1>3 DEF ComposersDraw, Dismisses, NothingPressed
  <2>2. NoRestore \in [where : {"nowhere", "pane", Thread}, pane : Panes \cup {Nobody},
                       retry : BOOLEAN, fate : Fates]
    BY NothingFields DEF NoRestore, Restore
  <2>3. TypeOK'  BY <2>1, <2>2 DEF Inv, TypeOK
  <2>4. SubmitOK' /\ RequestOK' /\ FlightOK' /\ OneCopy' /\ RetryIsSafe'
    BY <2>1, NothingFields DEF Inv, SubmitOK, RequestOK, FlightOK, OneCopy, RetryIsSafe
  <2> QED  BY <2>3, <2>4 DEF Inv
<1> QED  BY <1>1, <1>2, <1>3 DEF ComposersDraw

LEMMA ListenInv == ASSUME Inv, Listen PROVE Inv'
<1> USE DEF Inv
<1>1. /\ part = "listeners" /\ part' = "loader" /\ submit = NoMessage
      /\ UNCHANGED <<request, flight, restore, returned, parked, started, made>>
  BY DEF Listen, SubmitOK
<1>2. RequestOK' /\ FlightOK' /\ RetryIsSafe'
  BY <1>1 DEF RequestOK, FlightOK, RetryIsSafe
<1>3. ASSUME NEW p \in Panes, Types(p) PROVE Inv'
  <2>1. PICK w \in Words \ Everywhere : drafts' = [drafts EXCEPT ![p] = @ \cup {w}]
    BY <1>3 DEF Types
  <2>2. submit' = NoMessage  BY <1>1, <1>3 DEF Types
  <2>3. \A q \in Panes : drafts'[q] = IF q = p THEN drafts[q] \cup {w} ELSE drafts[q]
    BY <2>1 DEF TypeOK
  <2>4. TypeOK' /\ SubmitOK'  BY <1>1, <2>1, <2>2 DEF TypeOK, SubmitOK
  <2>5. /\ \A q \in Panes : w \notin drafts[q]
        /\ w \notin request.words \cup flight.words \cup returned \cup parked \cup started
    BY <2>1 DEF Everywhere
  <2>6. OneCopy'
    <3>1. ASSUME NEW q \in Panes, NEW r \in Panes, q # r
          PROVE  drafts'[q] \cap drafts'[r] = {}
      <4>1. drafts[q] \cap drafts[r] = {} /\ w \notin drafts[q] /\ w \notin drafts[r]
        BY <2>5, <3>1 DEF OneCopy
      <4>2. /\ drafts'[q] = IF q = p THEN drafts[q] \cup {w} ELSE drafts[q]
            /\ drafts'[r] = IF r = p THEN drafts[r] \cup {w} ELSE drafts[r]
        BY <2>3
      <4> QED  BY <3>1, <4>1, <4>2
    <3>2. ASSUME NEW q \in Panes
          PROVE  drafts'[q] \cap (request.words \cup flight.words
                                 \cup returned \cup parked \cup started) = {}
      <4>1. drafts[q] \cap (request.words \cup flight.words
                           \cup returned \cup parked \cup started) = {}
        BY DEF OneCopy
      <4>2. drafts'[q] \subseteq drafts[q] \cup {w}  BY <2>3
      <4> QED  BY <2>5, <4>1, <4>2
    <3> QED  BY <1>1, <3>1, <3>2 DEF OneCopy
  <2> QED  BY <1>2, <2>4, <2>6
<1>4. ASSUME NEW p \in Panes, Enters(p) PROVE Inv'
  <2>1. submit' = Message(p, drafts[p]) /\ drafts' = drafts /\ request = NoMessage
    BY <1>4 DEF Enters, Unhurried
  <2>2. submit'.pane = p /\ submit'.words = drafts[p]  BY <2>1, MessageFields
  <2>3. TypeOK'
    <3>1. submit' \in [pane : Panes \cup {Nobody}, words : SUBSET Words]
      BY <2>1 DEF Message, TypeOK
    <3> QED  BY <1>1, <2>1, <3>1 DEF TypeOK
  <2>4. SubmitOK' /\ OneCopy'  BY <1>1, <2>1, <2>2 DEF SubmitOK, OneCopy
  <2> QED  BY <1>2, <2>3, <2>4
<1>5. CASE UNCHANGED <<drafts, submit>>
  BY <1>1, <1>2, <1>5 DEF TypeOK, SubmitOK, OneCopy
<1> QED  BY <1>3, <1>4, <1>5 DEF Listen

LEMMA CreateEndsInv == ASSUME Inv, CreateEnds PROVE Inv'
<1> USE DEF Inv
<1>1. /\ flight'.pane = flight.pane /\ flight'.words = flight.words
      /\ flight'.fate = flight.fate /\ flight.at = "sent" /\ flight' = [flight EXCEPT !.at = "ended"]
      /\ UNCHANGED <<part, drafts, submit, request, restore, returned, parked, started, made>>
  BY DEF CreateEnds, TypeOK
<1>2. TypeOK'  BY <1>1 DEF TypeOK
<1>3. SubmitOK' /\ RequestOK' /\ FlightOK' /\ OneCopy' /\ RetryIsSafe'
  BY <1>1 DEF SubmitOK, RequestOK, FlightOK, OneCopy, RetryIsSafe
<1> QED  BY <1>2, <1>3

LEMMA NextInv == ASSUME Inv, [Next]_vars PROVE Inv'
<1>1. CASE UNCHANGED vars
  BY <1>1 DEF vars, Inv, TypeOK, SubmitOK, RequestOK, FlightOK, OneCopy, RetryIsSafe
<1> QED  BY <1>1, LoaderInv, ComposersInv, ListenInv, CreateEndsInv DEF Next

THEOREM Invariance == Spec => []Inv
BY InitInv, NextInv, PTL DEF Spec

\* Every variable keeps its type.
THEOREM TypeCorrect == Spec => []TypeOK
<1>1. Inv => TypeOK  BY DEF Inv
<1> QED  BY <1>1, Invariance, PTL

\* What was typed is in one place, however creates end and fields are filled meanwhile.
THEOREM OnePlace == Spec => []OneCopy
<1>1. Inv => OneCopy  BY DEF Inv
<1> QED  BY <1>1, Invariance, PTL

\* A Retry that is on offer doubles nothing.
THEOREM RetryDoublesNothing == Spec => []RetryIsSafe
<1>1. Inv => RetryIsSafe  BY DEF Inv
<1> QED  BY <1>1, Invariance, PTL

(***************************************************************************)
(* Nothing is dropped: a step moves words from one place to another, but   *)
(* for the routing, which empties a field.                                 *)
(***************************************************************************)
LEMMA InADraft == \A w : w \in Everywhere <=>
                      \/ w \in submit.words \cup request.words \cup flight.words
                      \/ w \in returned \cup parked \cup started
                      \/ \E p \in Panes : w \in drafts[p]
BY DEF Everywhere

LEMMA LoaderKeeps == ASSUME Inv, LoaderTicks, NEW w \in Everywhere PROVE w \in Everywhere'
<1> USE DEF Inv
<1>1. submit' = submit  BY DEF LoaderTicks
<1>2. CASE Launches
  <2>1. /\ flight'.words = request.words /\ flight.words = {}
        /\ UNCHANGED <<drafts, returned, parked, started>>
    BY <1>2, NothingFields DEF Launches, KickoffPending, Create
  <2> QED  BY <1>1, <2>1, InADraft DEF Everywhere
<1>3. CASE Lands
  <2>1. /\ request' = request /\ flight.pane \in Panes
    BY <1>3 DEF Lands, FlightOK
  <2>2. \/ ToPane(flight.words) \/ ToThread(flight.words)
        \/ ToOutbox(flight.words) \/ Delivered(flight.words)
    BY <1>3, LandingPlaces DEF Lands, FlightOK
  <2>3. CASE ToPane(flight.words)
    <3>1. /\ \A p \in Panes : drafts[p] \subseteq drafts'[p]
          /\ flight.words \subseteq drafts'[flight.pane]
      BY <2>1, <2>3 DEF ToPane, RestoredTo, TypeOK
    <3> QED  BY <1>1, <2>1, <2>3, <3>1, InADraft DEF ToPane, Everywhere
  <2>4. CASE ~ToPane(flight.words)
    BY <1>1, <2>1, <2>2, <2>4, InADraft DEF ToThread, ToOutbox, Delivered, Everywhere
  <2> QED  BY <2>3, <2>4
<1>4. CASE LoaderIdle  BY <1>1, <1>4 DEF LoaderIdle, Everywhere
<1> QED  BY <1>2, <1>3, <1>4 DEF LoaderTicks

LEMMA ComposersKeep ==
    ASSUME Inv, ComposersDraw, NEW w \in Everywhere, w \notin Everywhere'
    PROVE  submit # NoMessage /\ w \notin submit.words
<1> USE DEF Inv
<1>1. UNCHANGED <<flight, returned, parked, started>>  BY DEF ComposersDraw
<1>2. CASE Routes
  <2>1. submit # NoMessage /\ submit.pane \in Panes /\ request = NoMessage
    BY <1>2 DEF Routes, SubmitOK
  <2>2. CASE KickoffPending
    <3>1. submit.words = drafts'[submit.pane]  BY <1>2, <2>1, <2>2 DEF Routes, Routed, TypeOK
    <3> QED  BY <2>1, <3>1 DEF Everywhere
  <2>3. CASE ~KickoffPending
    <3>1. submit.words = request'.words  BY <1>2, <2>3 DEF Routes, Routed
    <3> QED  BY <2>1, <3>1 DEF Everywhere
  <2> QED  BY <2>2, <2>3
<1>3. ASSUME NEW p \in Panes, Presses(p) PROVE w \in Everywhere'
  <2>1. /\ submit' = submit /\ request.words = {} /\ request'.words = drafts[p]
        /\ drafts' = [drafts EXCEPT ![p] = {}]
    BY <1>3, MessageFields, NothingFields DEF Presses, Unhurried
  <2>2. \A q \in Panes : q # p => drafts'[q] = drafts[q]  BY <2>1 DEF TypeOK
  <2> QED  BY <1>1, <2>1, <2>2, InADraft DEF Everywhere
<1>4. CASE Dismisses \/ NothingPressed
  BY <1>1, <1>4 DEF Dismisses, NothingPressed, Everywhere
<1> QED  BY <1>2, <1>3, <1>4 DEF ComposersDraw

LEMMA ListenKeeps == ASSUME Inv, Listen, NEW w \in Everywhere PROVE w \in Everywhere'
<1> USE DEF Inv
<1>1. UNCHANGED <<request, flight, returned, parked, started>>  BY DEF Listen
<1>2. ASSUME NEW p \in Panes, Types(p) PROVE w \in Everywhere'
  <2>1. \A q \in Panes : drafts[q] \subseteq drafts'[q]  BY <1>2 DEF Types, TypeOK
  <2>2. submit' = submit  BY <1>2 DEF Types
  <2> QED  BY <1>1, <2>1, <2>2, InADraft DEF Everywhere
<1>3. ASSUME NEW p \in Panes, Enters(p) PROVE w \in Everywhere'
  <2>1. drafts' = drafts /\ submit.words = {}  BY <1>3, NothingFields DEF Enters, Unhurried
  <2> QED  BY <1>1, <2>1, InADraft DEF Everywhere
<1>4. CASE UNCHANGED <<drafts, submit>>  BY <1>1, <1>4 DEF Everywhere
<1> QED  BY <1>2, <1>3, <1>4 DEF Listen

\* Nothing typed is dropped, but for what came into the field after the Enter
\* that empties it.
THEOREM TypedIsKept == Spec => NothingDropped
<1> DEFINE Kept == \A w \in Everywhere \ Everywhere' : submit # NoMessage /\ w \notin submit.words
<1>1. ASSUME Inv, [Next]_vars PROVE [Kept]_vars
  <2>1. CASE LoaderTicks  BY <1>1, <2>1, LoaderKeeps
  <2>2. CASE ComposersDraw  BY <1>1, <2>2, ComposersKeep
  <2>3. CASE Listen  BY <1>1, <2>3, ListenKeeps
  <2>4. CASE CreateEnds
    <3>1. flight'.words = flight.words /\ UNCHANGED <<drafts, submit, request, returned, parked, started>>
      BY <1>1, <2>4 DEF CreateEnds, Inv, TypeOK
    <3> QED  BY <3>1 DEF Everywhere
  <2> QED  BY <1>1, <2>1, <2>2, <2>3, <2>4 DEF Next
<1> QED  BY <1>1, Invariance, PTL DEF Spec, NothingDropped
=============================================================================
