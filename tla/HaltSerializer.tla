--------------------------- MODULE HaltSerializer ---------------------------
(***************************************************************************)
(* Halting a thread and resuming it: the per-thread serializer of          *)
(* api/halt_state.h, the app's queue of writes and its one write at a time *)
(* (ecs/loader_system.h, ecs/components.h), the worker that attaches,      *)
(* writes and waits for the echo (api/agentcloud_client.cpp), and the      *)
(* attaches of the panes that tell the serializer what the server says.    *)
(*                                                                         *)
(* The rows a menu offers (rows_for) are worked out from the attached copy *)
(* of the thread, which may be any age, so any intent may be raised.  A    *)
(* thread has one tab, so it is in one pane.                               *)
(***************************************************************************)
EXTENDS HaltState, Naturals, Sequences
LOCAL INSTANCE FiniteSets

CONSTANTS
    Threads,
    NoThread,      \* no write in flight
    PaneCount,     \* panes on screen
    MaxRaises,     \* bound: intents raised, by thread
    Raised,        \* bound: which ones, by thread
    MaxOthers,     \* bound: changes made by other clients and ancestors
    OthersMake,    \* bound: what they change a brake to, by thread
    MayFail,       \* may attaches and writes fail?
    GuardedMenus   \* the menus' rows are disabled while halt_in_flight_for

ASSUME ThreadsAssumption == NoThread \notin Threads
ASSUME BoundsAssumption == /\ {PaneCount, MaxOthers} \subseteq Nat /\ MaxRaises \in [Threads -> Nat]
                           /\ Raised \in [Threads -> SUBSET Intents]
                           /\ OthersMake \in [Threads -> SUBSET Observations]
ASSUME FlagsAssumption == {MayFail, GuardedMenus} \subseteq BOOLEAN

VARIABLES
    server,    \* the brake of each thread, as the server has it
    wire,      \* writes the server has been sent and has not served
    others,    \* changes made by others, for their bound
    sz,        \* haltSerializers; ticket 0 where there is none
    writes,    \* haltWrites
    inFlight,  \* haltInFlight
    worker,    \* haltFuture
    awaiting,  \* haltAwaitingObservation
    unproven,  \* haltMarkUnconfirmed
    screen,    \* threads the panes show
    read       \* a pane's transcriptFuture: nothing, sent, or what its hello said

net == <<server, wire, others>>
app == <<sz, writes, inFlight, worker, awaiting, unproven>>
panes == <<screen, read>>
vars == <<net, app, panes>>

Write(t, i, ticket) == [to |-> t, intent |-> i, ticket |-> ticket]
NoWrite == Write(NoThread, NoIntent, 0)

Job(at, o, status) == [at |-> at, seen |-> o, echo |-> FALSE, status |-> status]
Idle == Job("none", Unseen, "none")
Opening == Job("opening", Unseen, "none")
Waiting(o) == Job("waiting", o, "none")
Done(o, status) == Job("done", o, status)

Ask(at, o) == [at |-> at, seen |-> o]
NoAsk == Ask("none", Unseen)
Sent == Ask("sent", Unseen)

NewSerializer ==
    [doing |-> NoIntent, ticket |-> 0, raised |-> 0, queued |-> NoIntent,
     last |-> Unseen, needs |-> FALSE]

Init ==
    /\ server = [t \in Threads |-> Seen(FALSE, "nobody")]
    /\ wire = [t \in Threads |-> {}]
    /\ others = 0
    /\ sz = [t \in Threads |-> NewSerializer]
    /\ writes = <<>>
    /\ inFlight = NoWrite
    /\ worker = Idle
    /\ awaiting = {} /\ unproven = {}
    /\ screen = {}
    /\ read = [t \in Threads |-> NoAsk]

(***************************************************************************)
(* halt::Serializer.  A method that hands out a write moves the ticket on. *)
(***************************************************************************)
Start(s, i) == [s EXCEPT !.doing = i, !.ticket = @ + 1]

Drain(s) ==
    LET taken == [s EXCEPT !.queued = NoIntent]
    IN IF s.queued = NoIntent \/ (s.last # Unseen /\ Satisfied(s.queued, s.last))
       THEN taken
       ELSE Start(taken, s.queued)

RaiseThroughGate(s, i) ==
    LET counted == [s EXCEPT !.raised = @ + 1]
    IN IF s.doing # NoIntent THEN [counted EXCEPT !.queued = i] ELSE Start(counted, i)
Raise(s, i) ==
    LET counted == [s EXCEPT !.raised = @ + 1]
    IN IF s.doing # NoIntent \/ s.needs
       THEN [counted EXCEPT !.queued = i]
       ELSE Start(counted, i)

\* settled: an answer of an older ticket is dropped.
SettledUngated(s, ticket, status, now) ==
    LET freed == [s EXCEPT !.doing = NoIntent, !.last = IF now = Unseen THEN @ ELSE now]
    IN IF s.doing = NoIntent \/ s.ticket # ticket THEN s ELSE Drain(freed)
SettledKeepsQueue(s, ticket, status, now) ==
    IF status = "failed" THEN [s EXCEPT !.doing = NoIntent] ELSE SettledUngated(s, ticket, status, now)
Settled(s, ticket, status, now) ==
    LET freed == [s EXCEPT !.doing = NoIntent, !.last = IF now = Unseen THEN @ ELSE now]
    IN IF s.doing = NoIntent \/ s.ticket # ticket THEN s
       ELSE IF status = "unconfirmed" THEN [freed EXCEPT !.needs = TRUE]
       ELSE Drain(freed)

\* observed, from an attach.
ObservedDrains(s, now) == Drain([s EXCEPT !.last = now, !.needs = FALSE])
Observed(s, now) ==
    LET told == [s EXCEPT !.last = now, !.needs = FALSE]
    IN IF s.doing # NoIntent THEN told ELSE Drain(told)

PushedByRequests(old, new, t) ==
    IF new.ticket = old.ticket \/ old.doing # NoIntent THEN writes
    ELSE Append(writes, Write(t, new.doing, new.ticket))
Pushed(old, new, t) ==
    IF new.ticket = old.ticket THEN writes ELSE Append(writes, Write(t, new.doing, new.ticket))

(***************************************************************************)
(* The menus: request_halt.                                                *)
(***************************************************************************)
\* halt_in_flight_for
Busy(t) == t \in awaiting \cup unproven \/ sz[t].doing # NoIntent

RequestsHalt(t, i) ==
    LET s == Raise(sz[t], i)
    IN /\ t \in screen /\ sz[t].raised < MaxRaises[t]
       /\ GuardedMenus => ~Busy(t)
       /\ sz' = [sz EXCEPT ![t] = s]
       /\ writes' = Pushed(sz[t], s, t)
       /\ UNCHANGED <<net, inFlight, worker, awaiting, unproven, panes>>

(***************************************************************************)
(* The loader launches the oldest write when none is in flight, and the    *)
(* worker runs set_halt_state.                                             *)
(***************************************************************************)
Launches ==
    /\ inFlight = NoWrite /\ writes # <<>>
    /\ inFlight' = Head(writes)
    /\ writes' = Tail(writes)
    /\ worker' = Opening
    /\ UNCHANGED <<net, sz, awaiting, unproven, panes>>

\* What the hello shows decides whether anything is written.
Attaches ==
    LET t == inFlight.to
        o == server[t]
    IN /\ worker.at = "opening"
       /\ IF Satisfied(inFlight.intent, o)
          THEN worker' = Done(o, "satisfied") /\ UNCHANGED wire
          ELSE IF o.by = "ancestor" /\ inFlight.intent = "resume"
          THEN worker' = Done(o, "contained") /\ UNCHANGED wire
          ELSE \/ worker' = Waiting(o) /\ wire' = [wire EXCEPT ![t] = @ \cup {inFlight.intent}]
               \/ MayFail /\ worker' = Done(o, "failed") /\ UNCHANGED wire
       /\ UNCHANGED <<server, others, sz, writes, inFlight, awaiting, unproven, panes>>

AttachFails ==
    /\ MayFail /\ worker.at = "opening"
    /\ worker' = Done(Unseen, "failed")
    /\ UNCHANGED <<net, sz, writes, inFlight, awaiting, unproven, panes>>

\* The journal's session_halted or session_resumed reaches the worker, whoever
\* caused it.
Hears(t, halted) ==
    worker' = IF worker.at = "waiting" /\ inFlight.to = t /\ WantsHalted(inFlight.intent) = halted
              THEN [worker EXCEPT !.echo = TRUE]
              ELSE worker

Confirms ==
    /\ worker.at = "waiting" /\ worker.echo
    /\ worker' = Done(worker.seen, "confirmed")
    /\ UNCHANGED <<net, sz, writes, inFlight, awaiting, unproven, panes>>

\* The socket closes or thirty seconds pass; the write may still be served.
RunsDry ==
    /\ worker.at = "waiting"
    /\ worker' = Done(worker.seen, "unconfirmed")
    /\ UNCHANGED <<net, sz, writes, inFlight, awaiting, unproven, panes>>

(***************************************************************************)
(* The loader takes the worker's outcome.                                  *)
(***************************************************************************)
\* What the outcome says of the thread, for the serializer: the attach, when the
\* worker stopped there.  await_echo makes an outcome of its own, which counts as
\* no observation, whether its write was confirmed, refused or neither.
Fresh == worker.status \in {"satisfied", "contained", "failed"}
Now == IF Fresh THEN worker.seen ELSE Unseen

\* An echo speaks for the flag only, not for a mark that changes with it.
MarkPending(i) ==
    /\ worker.status = "confirmed"
    /\ i = "halt_subtree" \/ (i = "resume" /\ worker.seen.by = "self")

\* reobserve: a pane that shows the thread attaches again.
Reobserves(t) ==
    read' = IF t \in screen /\ read[t] = NoAsk THEN [read EXCEPT ![t] = Sent] ELSE read

OutcomeLandsQuietly ==
    LET t == inFlight.to
        i == inFlight.intent
        s == Settled(sz[t], inFlight.ticket,
                     IF MarkPending(i) THEN "unconfirmed" ELSE worker.status, Now)
    IN /\ worker.at = "done"
       /\ inFlight' = NoWrite /\ worker' = Idle
       /\ sz' = [sz EXCEPT ![t] = s]
       /\ writes' = Pushed(sz[t], s, t)
       /\ awaiting' = IF worker.status = "unconfirmed" THEN awaiting \cup {t} ELSE awaiting
       /\ unproven' = IF MarkPending(i) THEN unproven \cup {t} ELSE unproven
       /\ IF worker.status = "unconfirmed" THEN Reobserves(t) ELSE UNCHANGED read
       /\ UNCHANGED <<net, screen>>

OutcomeLands ==
    LET t == inFlight.to
        i == inFlight.intent
        s == Settled(sz[t], inFlight.ticket,
                     IF MarkPending(i) THEN "unconfirmed" ELSE worker.status, Now)
    IN /\ worker.at = "done"
       /\ inFlight' = NoWrite /\ worker' = Idle
       /\ sz' = [sz EXCEPT ![t] = s]
       /\ writes' = Pushed(sz[t], s, t)
       /\ awaiting' = IF worker.status = "unconfirmed" THEN awaiting \cup {t} ELSE awaiting
       /\ unproven' = IF MarkPending(i) THEN unproven \cup {t} ELSE unproven
       /\ IF worker.status = "unconfirmed" \/ MarkPending(i) THEN Reobserves(t) ELSE UNCHANGED read
       /\ UNCHANGED <<net, screen>>

(***************************************************************************)
(* What the panes see.                                                     *)
(***************************************************************************)
\* A pane shows the thread: from the memory cache, or with an attach.  The one
\* it replaces takes its read along.
Shows(t, gone) ==
    /\ t \notin screen /\ gone \subseteq screen
    /\ Cardinality(screen \ gone) < PaneCount
    /\ screen' = (screen \ gone) \cup {t}
    /\ \E r \in {NoAsk, Sent} :
           read' = [u \in Threads |-> IF u = t THEN r ELSE IF u \in gone THEN NoAsk ELSE read[u]]
    /\ UNCHANGED <<net, app>>

\* The thread is read again: the reader retries, or an event was heard.
Rereads(t) ==
    /\ t \in screen /\ read[t] = NoAsk
    /\ read' = [read EXCEPT ![t] = Sent]
    /\ UNCHANGED <<net, app, screen>>

Hello(t) ==
    /\ read[t] = Sent
    /\ read' = [read EXCEPT ![t] = Ask("said", server[t])]
    /\ UNCHANGED <<net, app, screen>>

ReadFails(t) ==
    /\ MayFail /\ read[t] = Sent
    /\ read' = [read EXCEPT ![t] = NoAsk]
    /\ UNCHANGED <<net, app, screen>>

\* adopt_attach_brakes and halt_observed: a thread nobody halted has no
\* serializer to tell.
ReadLands(t) ==
    LET s == IF sz[t].ticket = 0 THEN sz[t] ELSE Observed(sz[t], read[t].seen)
    IN /\ read[t].at = "said"
       /\ read' = [read EXCEPT ![t] = NoAsk]
       /\ sz' = [sz EXCEPT ![t] = s]
       /\ writes' = Pushed(sz[t], s, t)
       /\ awaiting' = awaiting \ {t}
       /\ unproven' = unproven \ {t}
       /\ UNCHANGED <<net, inFlight, worker, screen>>

\* The stream of a send carries the flag; the mark is the pane's own copy of
\* it, which may be from before there was one.
FrameHeard(t) ==
    /\ t \in screen /\ sz[t].ticket # 0
    /\ \E by \in IF sz[t].last = Unseen THEN {"nobody", server[t].by} ELSE {sz[t].last.by} :
           sz' = [sz EXCEPT ![t].last = Seen(server[t].own, by)]
    /\ UNCHANGED <<net, writes, inFlight, worker, awaiting, unproven, panes>>

(***************************************************************************)
(* The server.  Nothing obliges it to serve: a write may be lost with its  *)
(* socket.                                                                 *)
(***************************************************************************)
Serves(t, i) ==
    /\ i \in wire[t]
    /\ wire' = [wire EXCEPT ![t] = @ \ {i}]
    /\ server' = [server EXCEPT ![t] = Obeyed(i, @)]
    /\ Hears(t, WantsHalted(i))
    /\ UNCHANGED <<others, sz, writes, inFlight, awaiting, unproven, panes>>

\* A refusal nobody waits for any more is a write that is never served.
Refuses(t, i) ==
    /\ MayFail /\ i \in wire[t]
    /\ worker.at = "waiting" /\ inFlight.to = t /\ inFlight.intent = i
    /\ wire' = [wire EXCEPT ![t] = @ \ {i}]
    /\ worker' = Done(worker.seen, "refused")
    /\ UNCHANGED <<server, others, sz, writes, inFlight, awaiting, unproven, panes>>

\* Another client or an ancestor changes the brake.
OthersAct(t, o) ==
    /\ others < MaxOthers /\ o # server[t]
    /\ others' = others + 1
    /\ server' = [server EXCEPT ![t] = o]
    /\ IF o.own # server[t].own THEN Hears(t, o.own) ELSE UNCHANGED worker
    /\ UNCHANGED <<wire, sz, writes, inFlight, awaiting, unproven, panes>>

Worker == Attaches \/ AttachFails \/ Confirms \/ RunsDry

Server == \E t \in Threads :
              \/ \E i \in Intents : Serves(t, i) \/ Refuses(t, i)
              \/ \E o \in OthersMake[t] : OthersAct(t, o)

Next == \/ \E t \in Threads : \/ \E i \in Raised[t] : RequestsHalt(t, i)
                              \/ \E gone \in SUBSET Threads : Shows(t, gone)
                              \/ Rereads(t) \/ Hello(t) \/ ReadFails(t) \/ ReadLands(t)
                              \/ FrameHeard(t)
        \/ Launches \/ Worker \/ OutcomeLands \/ Server

Spec == Init /\ [][Next]_vars

\* The worker answers (every wait has a deadline), the frame loop takes every
\* answer; nothing obliges the reader or the server.
FairSpec == /\ Spec
            /\ WF_vars(Launches) /\ WF_vars(Worker) /\ WF_vars(OutcomeLands)
            /\ \A t \in Threads : WF_vars(Hello(t)) /\ WF_vars(ReadLands(t))

(***************************************************************************)
(* Properties.                                                             *)
(***************************************************************************)
Statuses == {"none", "satisfied", "confirmed", "unconfirmed", "refused", "failed", "contained"}
Writes == [to : Threads, intent : Intents, ticket : Nat]
Serializers ==
    [doing : Intents \cup {NoIntent}, ticket : Nat, raised : Nat,
     queued : Intents \cup {NoIntent}, last : Observations \cup {Unseen}, needs : BOOLEAN]

\* Every variable has its type.
TypeOK ==
    /\ server \in [Threads -> Observations]
    /\ wire \in [Threads -> SUBSET Intents]
    /\ others \in 0 .. MaxOthers
    /\ sz \in [Threads -> Serializers]
    /\ writes \in Seq(Writes)
    /\ inFlight \in Writes \cup {NoWrite}
    /\ worker \in [at : {"none", "opening", "waiting", "done"},
                   seen : Observations \cup {Unseen}, echo : BOOLEAN, status : Statuses]
    /\ awaiting \subseteq Threads /\ unproven \subseteq Threads /\ screen \subseteq Threads
    /\ read \in [Threads -> [at : {"none", "sent", "said"}, seen : Observations \cup {Unseen}]]

\* The writes of a thread that wait or run: by place, 0 for the one in flight.
Places(t) == {n \in 1 .. Len(writes) : writes[n].to = t} \cup {n \in {0} : inFlight.to = t}
At(n) == IF n = 0 THEN inFlight ELSE writes[n]

\* A thread has the one write its serializer believes in, or none: no second
\* one is ever queued, none is lost between the queue and the worker.
OneWrite ==
    \A t \in Threads :
        /\ sz[t].doing = NoIntent => Places(t) = {}
        /\ sz[t].doing # NoIntent =>
              \E n \in Places(t) : /\ Places(t) = {n}
                                   /\ At(n) = Write(t, sz[t].doing, sz[t].ticket)

\* An intent that is kept back has something that will take it up again.
QueuedHasReason ==
    \A t \in Threads : sz[t].queued # NoIntent => sz[t].doing # NoIntent \/ sz[t].needs

\* The serializer's gate and the caption of the pane ("sent, not confirmed",
\* "containment not yet confirmed"), kept in two places, agree.
GateIsShown == \A t \in Threads : sz[t].needs <=> t \in awaiting \cup unproven

\* When the gate of a thread on screen closes, an attach is under way that
\* will open it.
GateIsWatched ==
    [][\A t \in Threads : ~sz[t].needs /\ sz'[t].needs /\ t \in screen => read'[t] # NoAsk]_vars

\* Every write that is handed out comes back, also behind those of other
\* threads: when the reader stops asking, the thread's rows are enabled again.
WritesComeBack == \A t \in Threads : sz[t].doing # NoIntent ~> sz[t].doing = NoIntent

\* The abstract brake: what is being written is read off the app's queue, not
\* off the serializer.
Doing(t) ==
    IF inFlight.to = t THEN inFlight.intent
    ELSE IF \E n \in DOMAIN writes : writes[n].to = t
    THEN writes[CHOOSE n \in DOMAIN writes : writes[n].to = t].intent
    ELSE NoIntent

DoingBar == [t \in Threads |-> Doing(t)]
WantedBar == [t \in Threads |-> sz[t].queued]
UnknownBar == [t \in Threads |-> sz[t].needs]
SeenBar == [t \in Threads |-> sz[t].last]

Brake == INSTANCE BrakeControl
         WITH doing <- DoingBar, wanted <- WantedBar, unknown <- UnknownBar, seen <- SeenBar

\* The queue, the worker and the serializers together keep the abstract promise.
KeepsPromise == Brake!Spec
=============================================================================
