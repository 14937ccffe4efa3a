--------------------------- MODULE ModelMenuCache ---------------------------
(***************************************************************************)
(* The deployment's model menu as the app holds it                         *)
(* (ecs/model_menu_cache.h): one snapshot bound to one client, one ask at  *)
(* a time, retired asks kept until they end, one deferred refresh.  A menu *)
(* is the client it came from; a client has at most one ask outstanding    *)
(* (an ask in flight refuses another, and a replaced client never comes    *)
(* back), so an ask is its client too.                                     *)
(***************************************************************************)
EXTENDS Deployment, FiniteSets

CONSTANTS
    MaxOutstanding,   \* kMaxOutstanding
    Menus,            \* clients that support the models command
    AsksMayFail

ASSUME OutstandingAssumption == MaxOutstanding \in Nat \ {0}
ASSUME MenusAssumption == Menus \subseteq Clients /\ AsksMayFail \in BOOLEAN

VARIABLES
    cache,       \* the ModelMenuCache
    asks,        \* the worker of each client's ask
    panelOpen,   \* modelPopoverOpen
    wasOpen      \* modelPopoverWasOpen_

menuVars == <<cache, asks, panelOpen, wasOpen>>

NoClient == 0
None == {NoClient}

EmptyCache ==
    [boundTo |-> NoClient, menu |-> NoClient, aged |-> FALSE, backoff |-> FALSE,
     inFlight |-> NoClient, orphans |-> {}, deferred |-> FALSE]

MenuInit ==
    /\ cache = EmptyCache
    /\ asks = [c \in Clients |-> "none"]
    /\ panelOpen = FALSE /\ wasOpen = FALSE

Holds(m) == m.orphans \cup ({m.inFlight} \ None)
Outstanding(m) == Cardinality(m.orphans) + (IF m.inFlight = NoClient THEN 0 ELSE 1)
Answered(c) == asks[c] \in {"ok", "failed"}

(* A different client is a different deployment: what is held goes, and an *)
(* ask in flight is an orphan from this moment.                            *)
BindKeepsMenu(m, open) ==
    IF m.boundTo = client THEN m
    ELSE [m EXCEPT !.boundTo = client, !.deferred = open, !.orphans = Holds(m),
                   !.inFlight = NoClient, !.backoff = FALSE]
BindOverwrites(m, open) ==
    IF m.boundTo = client THEN m
    ELSE [EmptyCache EXCEPT !.boundTo = client, !.deferred = open, !.orphans = m.orphans]
Bind(m, open) ==
    IF m.boundTo = client THEN m
    ELSE [EmptyCache EXCEPT !.boundTo = client, !.deferred = open, !.orphans = Holds(m)]

Due(m) ==
    /\ client \in Menus
    /\ m.inFlight = NoClient
    /\ m.menu = NoClient \/ m.aged
    /\ ~m.backoff

Full(m) == Outstanding(m) >= MaxOutstanding

(* request_if_stale, and the launch its callers make when it says so.      *)
RequestIfStale(m) ==
    LET b == Bind(m, FALSE)
    IN  IF ~Due(b) THEN b
        ELSE IF Full(b) THEN [b EXCEPT !.deferred = TRUE]
        ELSE [b EXCEPT !.deferred = FALSE, !.inFlight = client]

TakeDeferred(m) == IF m.deferred THEN RequestIfStale(m) ELSE m

Land(m, c) ==
    LET idle == [m EXCEPT !.inFlight = NoClient]
    IN  IF c # m.boundTo THEN idle
        ELSE IF asks[c] = "ok" THEN [idle EXCEPT !.menu = c, !.aged = FALSE, !.backoff = FALSE]
        ELSE [idle EXCEPT !.backoff = TRUE]

Poll(m) ==
    LET reaped == [m EXCEPT !.orphans = {c \in @ : ~Answered(c)}]
    IN  IF m.inFlight # NoClient /\ Answered(m.inFlight) THEN Land(reaped, m.inFlight)
        ELSE reaped

PanelClosed(m) == [m EXCEPT !.deferred = @ /\ panelOpen]

(* The loader's block, every frame: the retained refresh goes out when a   *)
(* slot came free or the client was just replaced.                         *)
DrivenOnRebind(m) ==
    LET polled == PanelClosed(Poll(Bind(m, panelOpen)))
    IN  IF panelOpen /\ m.boundTo # client THEN TakeDeferred(polled) ELSE polled
Driven(m) ==
    LET bound == Bind(m, panelOpen)
        polled == PanelClosed(Poll(bound))
        room == Outstanding(polled) < Outstanding(bound) \/ m.boundTo # client
    IN  IF panelOpen /\ room THEN TakeDeferred(polled) ELSE polled

(* Asks go out and their answers are taken as the cache says.              *)
Caches(m) ==
    /\ cache' = m
    /\ asks' = [c \in Clients |->
                  IF c \in Holds(m) THEN IF asks[c] = "none" THEN "asked" ELSE asks[c]
                  ELSE IF Answered(c) THEN "none" ELSE asks[c]]

MenuTick == Caches(Driven(cache)) /\ UNCHANGED <<panelOpen, wasOpen>>

(* The panel is drawn: its open edge asks, over a thread that is open; a   *)
(* row's press closes it after that.                                       *)
PanelDraws ==
    \E open, thread, picks \in BOOLEAN :
        /\ Caches(IF open /\ ~wasOpen /\ thread THEN RequestIfStale(cache) ELSE cache)
        /\ wasOpen' = open
        /\ panelOpen' = (open /\ ~picks)

AskAnswers(c) ==
    /\ asks[c] = "asked"
    /\ \E how \in {"ok"} \cup (IF AsksMayFail THEN {"failed"} ELSE {}) :
          asks' = [asks EXCEPT ![c] = how]
    /\ UNCHANGED <<client, part, cache, panelOpen, wasOpen>>

(* kRefreshAge and kRetryAfter pass.                                       *)
MenuAges ==
    /\ cache.menu # NoClient /\ ~cache.aged
    /\ cache' = [cache EXCEPT !.aged = TRUE]
    /\ UNCHANGED <<client, part, asks, panelOpen, wasOpen>>

BackoffEnds ==
    /\ cache.backoff
    /\ cache' = [cache EXCEPT !.backoff = FALSE]
    /\ UNCHANGED <<client, part, asks, panelOpen, wasOpen>>

----------------------------------------------------------------------------
(* Properties *)

Caches0 == [boundTo : Clients \cup None, menu : Clients \cup None, aged : BOOLEAN,
            backoff : BOOLEAN, inFlight : Clients \cup None,
            orphans : SUBSET Clients, deferred : BOOLEAN]

MenuTypeOK ==
    /\ cache \in Caches0
    /\ asks \in [Clients -> {"none", "asked", "ok", "failed"}]
    /\ panelOpen \in BOOLEAN /\ wasOpen \in BOOLEAN

(* While the panes are drawn, the menu in the cache is the current         *)
(* client's or none: a late answer of a replaced deployment reaches no     *)
(* panel (model_menu_cache.h:16-21).                                       *)
NoForeignMenu == part = "panes" => cache.menu \in {NoClient, client}

(* Every ask that is running, or that ended and was not taken, is held in  *)
(* the cache, and however clients are replaced these are no more than      *)
(* kMaxOutstanding: no future is destroyed before its task ends, which     *)
(* would block the frame.                                                  *)
AsksAreHeld ==
    LET running == {c \in Clients : asks[c] # "none"}
    IN  running = Holds(cache) /\ Cardinality(running) <= MaxOutstanding

(* A refresh held back for want of room goes out, or is no longer wanted,  *)
(* once asks end: no wake-up is lost between the reap and the take.        *)
DeferredResumes == (cache.deferred /\ client \in Menus) ~> ~(cache.deferred /\ client \in Menus)
=============================================================================
