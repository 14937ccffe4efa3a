------------------------------ MODULE Kickoff ------------------------------
(***************************************************************************)
(* Starting a conversation: the New Thread composers of the panes, the one *)
(* create in flight (LoaderSystem), what a create did                      *)
(* (api/create_outcome.h) and what a failed one hands back.                *)
(*                                                                         *)
(* A draft is the set of things typed into it.  The composers are those of *)
(* the New Thread surface; a thread's own composer is where a refused      *)
(* first message is handed back, and sending from it is SendPipeline's.    *)
(***************************************************************************)
EXTENDS Naturals, FiniteSets

CONSTANTS
    Panes,
    Words,        \* bound: what the reader types, each thing once
    MaxCreates    \* bound: creates

ASSUME CreatesAssumption == MaxCreates \in Nat

VARIABLES
    part,      \* the frame: the loader, then the composers, then their listeners
    drafts,    \* replyDraft of each pane's __kickoff__ composer
    submit,    \* composerSubmit: what Enter reported, to be routed next frame
    request,   \* requestKickoff
    flight,    \* kickoffMessage, kickoffPaneIndex, kickoffFuture
    restore,   \* composerRestore
    returned,  \* handed back in the composer of a thread that exists
    parked,    \* in the outbox, not to be sent unasked
    started,   \* first messages the app knows it delivered
    made       \* creates, for their bound

vars == <<part, drafts, submit, request, flight, restore, returned, parked, started, made>>

Nobody == 0
Message(p, words) == [pane |-> p, words |-> words]
NoMessage == Message(Nobody, {})

(* How a create went at the server, and what of it the transport heard.    *)
Fates ==
    [created : BOOLEAN, landed : BOOLEAN, heard : {"nothing", "create", "all"}]

PossibleFates ==
    {f \in Fates : /\ f.landed => f.created
                   /\ f.heard = "create" => f.created}

Create(m, fate) == [pane |-> m.pane, words |-> m.words, fate |-> fate, at |-> "sent"]
NoCreate == [pane |-> Nobody, words |-> {}, fate |-> [created |-> FALSE, landed |-> FALSE, heard |-> "all"],
             at |-> "none"]

(* classify_create.                                                        *)
Disposition(f) ==
    IF f.heard = "nothing" THEN "NotCreatedUnknown"
    ELSE IF ~f.created THEN "NotCreatedRejected"
    ELSE IF f.heard = "create" THEN "CreatedInputUnknown"
    ELSE IF f.landed THEN "Created"
    ELSE "CreatedInputRejected"

RestoresDraftAlsoParked(d) == d # "Created"
RestoresDraft(d) == d \in {"NotCreatedUnknown", "NotCreatedRejected", "CreatedInputRejected"}
OffersRetryOnUnknown(d) == RestoresDraft(d)
OffersRetry(d) == d \in {"NotCreatedRejected", "CreatedInputRejected"}

Thread == "thread"
Restore(where, p, retry, fate) == [where |-> where, pane |-> p, retry |-> retry, fate |-> fate]
NoRestore == Restore("nowhere", Nobody, FALSE, NoCreate.fate)

Init ==
    /\ part = "loader"
    /\ drafts = [p \in Panes |-> {}]
    /\ submit = NoMessage /\ request = NoMessage
    /\ flight = NoCreate
    /\ restore = NoRestore
    /\ returned = {} /\ parked = {} /\ started = {}
    /\ made = 0

KickoffPending == flight # NoCreate

(***************************************************************************)
(* LoaderSystem: the launch is looked at before the landing.               *)
(***************************************************************************)
Launches ==
    /\ request # NoMessage /\ ~KickoffPending
    /\ \E f \in PossibleFates : flight' = Create(request, f)
    /\ request' = NoMessage
    /\ UNCHANGED <<drafts, restore, returned, parked, started>>

(* restore_to_composer: the words go before what was typed meanwhile.      *)
RestoredOver(d, words) == words
RestoredTo(d, words) == d \cup words

Landing ==
    LET d == Disposition(flight.fate)
        exists == d \in {"Created", "CreatedInputRejected", "CreatedInputUnknown"}
        toPane == RestoresDraft(d) /\ ~exists
        toThread == RestoresDraft(d) /\ exists
    IN  /\ drafts' = IF toPane THEN [drafts EXCEPT ![flight.pane] = RestoredTo(@, flight.words)]
                     ELSE drafts
        /\ returned' = IF toThread THEN returned \cup flight.words ELSE returned
        /\ parked' = IF d = "CreatedInputUnknown" THEN parked \cup flight.words ELSE parked
        /\ started' = IF d = "Created" THEN started \cup flight.words ELSE started
        /\ restore' = IF toPane THEN Restore("pane", flight.pane, OffersRetry(d), flight.fate)
                      ELSE IF toThread THEN Restore(Thread, flight.pane, OffersRetry(d), flight.fate)
                      ELSE restore

Lands ==
    /\ flight.at = "ended"
    /\ Landing
    /\ flight' = NoCreate
    /\ UNCHANGED request

LoaderIdle ==
    /\ request = NoMessage \/ KickoffPending
    /\ flight.at # "ended"
    /\ UNCHANGED <<drafts, request, flight, restore, returned, parked, started>>

LoaderTicks ==
    /\ part = "loader" /\ part' = "composers"
    /\ Launches \/ Lands \/ LoaderIdle
    /\ UNCHANGED <<submit, made>>

(***************************************************************************)
(* The composers: what Enter reported is routed, or refused while a create *)
(* is in flight; or the Send button (or Retry, which presses it) is        *)
(* pressed, which is disabled then.                                        *)
(***************************************************************************)
Routed ==
    /\ submit' = NoMessage
    /\ IF KickoffPending
       THEN /\ drafts' = [drafts EXCEPT ![submit.pane] = submit.words]
            /\ restore' = Restore("pane", submit.pane, FALSE, NoCreate.fate)
            /\ UNCHANGED <<request, made>>
       ELSE /\ drafts' = [drafts EXCEPT ![submit.pane] = {}]
            /\ request' = submit /\ made' = made + 1
            /\ UNCHANGED restore

Routes == submit # NoMessage /\ Routed

SendEnabled(p) == drafts[p] # {} /\ ~KickoffPending

(* Two gestures of one reader are frames apart.                            *)
Unhurried == submit = NoMessage /\ request = NoMessage

Presses(p) ==
    /\ Unhurried /\ SendEnabled(p)
    /\ made < MaxCreates
    /\ request' = Message(p, drafts[p]) /\ made' = made + 1
    /\ drafts' = [drafts EXCEPT ![p] = {}]
    /\ restore' = IF restore.where = "pane" /\ restore.pane = p THEN NoRestore ELSE restore
    /\ UNCHANGED submit

Dismisses ==
    /\ submit = NoMessage
    /\ restore' = NoRestore
    /\ UNCHANGED <<drafts, submit, request, made>>

NothingPressed == submit = NoMessage /\ UNCHANGED <<drafts, submit, request, restore, made>>

ComposersDraw ==
    /\ part = "composers" /\ part' = "listeners"
    /\ Routes \/ (\E p \in Panes : Presses(p)) \/ Dismisses \/ NothingPressed
    /\ UNCHANGED <<flight, returned, parked, started>>

(***************************************************************************)
(* The fields' own listeners.  Enter reports the text and leaves it there. *)
(***************************************************************************)
Everywhere ==
    submit.words \cup request.words \cup flight.words \cup returned \cup parked \cup started
    \cup (UNION {drafts[p] : p \in Panes})

Types(p) ==
    /\ \E w \in Words \ Everywhere : drafts' = [drafts EXCEPT ![p] = @ \cup {w}]
    /\ UNCHANGED submit

Enters(p) ==
    /\ Unhurried /\ drafts[p] # {}
    /\ made < MaxCreates
    /\ submit' = Message(p, drafts[p])
    /\ UNCHANGED drafts

Listen ==
    /\ part = "listeners" /\ part' = "loader"
    /\ (\E p \in Panes : Types(p) \/ Enters(p)) \/ UNCHANGED <<drafts, submit>>
    /\ UNCHANGED <<request, flight, restore, returned, parked, started, made>>

(* The worker's create_with_message.                                       *)
CreateEnds ==
    /\ flight.at = "sent"
    /\ flight' = [flight EXCEPT !.at = "ended"]
    /\ UNCHANGED <<part, drafts, submit, request, restore, returned, parked, started, made>>

Next == LoaderTicks \/ ComposersDraw \/ Listen \/ CreateEnds

Spec == Init /\ [][Next]_vars

----------------------------------------------------------------------------
(* Properties *)

TypeOK ==
    /\ part \in {"loader", "composers", "listeners"}
    /\ drafts \in [Panes -> SUBSET Words]
    /\ {submit, request} \subseteq [pane : Panes \cup {Nobody}, words : SUBSET Words]
    /\ flight \in [pane : Panes \cup {Nobody}, words : SUBSET Words, fate : Fates,
                   at : {"none", "sent", "ended"}]
    /\ restore \in [where : {"nowhere", "pane", Thread}, pane : Panes \cup {Nobody},
                    retry : BOOLEAN, fate : Fates]
    /\ {returned, parked, started} \subseteq SUBSET Words
    /\ made \in Nat

(* Nothing typed is ever dropped (create_outcome.h:22), but for what came  *)
(* into the field after the Enter that empties it: the routing a frame     *)
(* later clears the field, and the copy it sends is the older one.         *)
NothingDropped ==
    [][\A w \in Everywhere \ Everywhere' : submit # NoMessage /\ w \notin submit.words]_vars

(* What was typed is in one place: what is on its way, delivered or held   *)
(* in the outbox is not also back in a composer, where it would be sent    *)
(* again.                                                                  *)
OneCopy ==
    LET settled == returned \cup parked \cup started
        underway == request.words \cup flight.words
    IN  /\ \A p, q \in Panes : p # q => drafts[p] \cap drafts[q] = {}
        /\ \A p \in Panes : drafts[p] \cap (underway \cup settled) = {}
        /\ request.words \cap flight.words = {} /\ underway \cap settled = {}
        /\ returned \cap parked = {} /\ (returned \cup parked) \cap started = {}

(* A Retry is on offer only for an attempt that left nothing at the server *)
(* that repeating it would double: no delivered message, and no thread     *)
(* where the press makes another (create_outcome.h:24).                    *)
RetryIsSafe ==
    restore.retry => /\ ~restore.fate.landed
                     /\ restore.where = "pane" => ~restore.fate.created
=============================================================================
