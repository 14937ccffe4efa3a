------------------------------ MODULE InboxSync ------------------------------
(***************************************************************************)
(* Snoozes shared with the web app: the optimistic store                   *)
(* (ecs/inbox_sync_store.h, class Store) and the driver that polls its     *)
(* futures once a frame (ecs/inbox_sync_driver.h, class Driver), with the  *)
(* web app they talk to and another device writing to it.                  *)
(*                                                                         *)
(* A row the store or the server does not hold is the row whose until is   *)
(* NoTime.  at is the server's snoozedAt stamp; for an absent row at and   *)
(* for every row gen (the client generation that delivered it) are history *)
(* values no guard of the code reads.  Driver::client_generation and       *)
(* Store::generation_ are always assigned together: one variable.          *)
(***************************************************************************)
EXTENDS Integers, FiniteSets

CONSTANTS
    Ids,           \* sessions
    Times,         \* the wake times a user can pick
    NoTime,        \* std::nullopt: "not snoozed" / "clear the snooze"
    ReadFailures,  \* phases a failed read leaves the store in
    MaxWrites,     \* bound: tickets issued
    MaxVersion,    \* bound: server writes per session
    MaxClients     \* bound: client generations

ASSUME TimesAssumption == NoTime \notin Times
ASSUME PhasesAssumption == ReadFailures \subseteq {"SignedOut", "Unreachable", "Malformed"}
ASSUME BoundsAssumption == MaxWrites \in Nat /\ MaxVersion \in Nat /\ MaxClients \in Nat

VARIABLES
    generation,  \* Store::generation_ and Driver::client_generation
    phase,       \* Store::phase_
    entries,     \* Store::entries_
    pending,     \* Store::pending_ : the ticket of the pending intent, 0 when none
    confirmed,   \* Store::confirmed_ : the epoch of the last confirmation, 0 when none
    epoch,       \* Store::epoch_
    tickets,     \* Store::tickets_
    request,     \* Driver::request
    reads,       \* Driver::reads : tickets of reads with what their future holds
    writes,      \* Driver::writes : intents with what their future holds
    server,      \* the web app's rows
    wire,        \* writes on their way to the web app
    acked,       \* history: stamp of the last write of this client the server confirmed
    held,        \* history: every row the server has held
    applied,     \* history: the ticket the server has applied last
    gaveUp       \* history: tickets whose future gave up while the server had not answered

store == <<generation, phase, entries, pending, confirmed, epoch, tickets>>
driver == <<request, reads, writes>>
history == <<acked, held, applied, gaveUp>>
vars == <<store, driver, server, wire, history>>

Until == Times \union {NoTime}
Stored == [until : Until, at : Nat]
Row == [until : Until, at : Nat, gen : Nat]
Optimistic == 0      \* a stamp this device made up; the server's start at 1
Phases == {"Unsynced", "SignedOut", "Unreachable", "Malformed", "Synced"}
NoRequest == [id |-> "none"]

AsRow(s, g) == [until |-> s.until, at |-> s.at, gen |-> g]
Absent(g) == [until |-> NoTime, at |-> Optimistic, gen |-> g]
StoredPart(row) == [until |-> row.until, at |-> row.at]

Unanswered == [kind |-> "waiting"]
Snapshot(rows) == [kind |-> "ok", rows |-> rows]
Echo(stamp) == [kind |-> "echo", at |-> stamp]
FailedAnswer(why) == [kind |-> why]

Answered(x) == x.answer.kind # "waiting"

(***************************************************************************)
(* Init: the driver before its first read; the server holds old rows.      *)
(***************************************************************************)
Init ==
    /\ generation = 1
    /\ phase = "Unsynced"
    /\ entries = [id \in Ids |-> Absent(1)]
    /\ pending = [id \in Ids |-> 0]
    /\ confirmed = [id \in Ids |-> 0]
    /\ epoch = 0
    /\ tickets = 0
    /\ request = NoRequest
    /\ reads = {}
    /\ writes = {}
    /\ server \in [Ids -> [until : Until, at : {1}]]
    /\ wire = {}
    /\ acked = [id \in Ids |-> 0]
    /\ held = [id \in Ids |-> {server[id]}]
    /\ applied = [id \in Ids |-> 0]
    /\ gaveUp = {}

\* Store::reset forgets the pending intents: their answers will be ignored.
PendingNotReset == pending
PendingAfterReset == [id \in Ids |-> 0]

(***************************************************************************)
(* The client is replaced (a sign-in finished): AppComponent and Driver    *)
(* on_client_replaced, Store::reset.  Futures of the old client stay in    *)
(* the vectors and tickets_ keeps counting.                                *)
(***************************************************************************)
ClientReplaced ==
    /\ generation < MaxClients
    /\ generation' = generation + 1
    /\ phase' = "Unsynced"
    /\ entries' = [id \in Ids |-> Absent(generation + 1)]
    /\ pending' = PendingAfterReset
    /\ confirmed' = [id \in Ids |-> 0]
    /\ epoch' = 0
    /\ request' = NoRequest
    /\ acked' = [id \in Ids |-> 0]
    /\ UNCHANGED <<tickets, reads, writes, server, wire, held, applied, gaveUp>>

(***************************************************************************)
(* Reads: launch_read on a list refresh, the snapshot taken by the web app *)
(* at some later moment, read_landed on a later frame still.               *)
(***************************************************************************)
ReadInFlightForCurrentClient == \E r \in reads : r.gen = generation

LaunchRead ==
    /\ ~ReadInFlightForCurrentClient
    /\ reads' = reads \union {[gen |-> generation, epoch |-> epoch, answer |-> Unanswered]}
    /\ UNCHANGED <<store, request, writes, server, wire, history>>

ReadAnswered(r) ==
    /\ ~Answered(r)
    /\ \E a \in {Snapshot(server)} \union {FailedAnswer(f) : f \in ReadFailures} :
          reads' = (reads \ {r}) \union {[r EXCEPT !.answer = a]}
    /\ UNCHANGED <<store, request, writes, server, wire, history>>

\* A read belongs to the client that launched it.
AnyReadIsCurrent(r) == TRUE
ReadIsCurrent(r) == r.gen = generation

\* The rows read_landed keeps in spite of the snapshot: written since the read began.
KeepsOnlyPending(id, r) == pending[id] # 0
KeepsEverConfirmed(id, r) == pending[id] # 0 \/ confirmed[id] # 0
KeepsMine(id, r) == pending[id] # 0 \/ confirmed[id] > r.epoch

ReadLanded(r) ==
    /\ Answered(r)
    /\ reads' = reads \ {r}
    /\ \/ /\ ~ReadIsCurrent(r)
          /\ UNCHANGED <<entries, phase>>
       \/ /\ ReadIsCurrent(r)
          /\ r.answer.kind # "ok"
          /\ phase' = r.answer.kind
          /\ UNCHANGED entries
       \/ /\ ReadIsCurrent(r)
          /\ r.answer.kind = "ok"
          /\ phase' = "Synced"
          /\ entries' = [id \in Ids |-> IF KeepsMine(id, r) THEN entries[id]
                                        ELSE AsRow(r.answer.rows[id], r.gen)]
    /\ UNCHANGED <<generation, pending, confirmed, epoch, tickets, request, writes,
                   server, wire, history>>

(***************************************************************************)
(* Writes: a pick in a menu sets the request; the next drain begins the    *)
(* write or refuses it with a toast.                                       *)
(***************************************************************************)
UserAsks(id, until) ==
    /\ tickets < MaxWrites
    /\ request' = [id |-> id, until |-> until]
    /\ UNCHANGED <<store, reads, writes, server, wire, history>>

\* drain asks both the store and the futures: after a reset they differ.
WriteInFlight(id) == \E w \in writes : w.id = id
BusyPendingOnly(id) == pending[id] # 0
Busy(id) == pending[id] # 0 \/ WriteInFlight(id)

RequestRefused ==
    /\ request # NoRequest
    /\ phase # "Synced" \/ Busy(request.id)
    /\ request' = NoRequest
    /\ UNCHANGED <<store, reads, writes, server, wire, history>>

\* in.ticket = ++tickets_, so 0 can stand for "none".
NextTicket == tickets + 1

BeginWrite ==
    /\ request # NoRequest
    /\ phase = "Synced"
    /\ ~Busy(request.id)
    /\ LET id == request.id
           t == NextTicket
       IN /\ tickets' = tickets + 1
          /\ writes' = writes \union
                {[ticket |-> t, gen |-> generation, id |-> id, until |-> request.until,
                  before |-> entries[id], answer |-> Unanswered]}
          /\ wire' = wire \union {[ticket |-> t, id |-> id, until |-> request.until]}
          /\ entries' = [entries EXCEPT ![id] =
                [until |-> request.until, at |-> Optimistic, gen |-> generation]]
          /\ pending' = [pending EXCEPT ![id] = t]
    /\ request' = NoRequest
    /\ UNCHANGED <<generation, phase, confirmed, epoch, reads, server, history>>

\* write_landed is for the intent the store is still waiting for.
Current(w) == w.gen = generation /\ pending[w.id] = w.ticket

\* What rollback puts back, and the intent it no longer waits for.
RollbackKeepsRow(w) == entries[w.id]
RolledBackTo(w) == w.before
Settled(w) == [pending EXCEPT ![w.id] = 0]

WriteIgnored(w) ==
    /\ Answered(w)
    /\ ~Current(w)
    /\ writes' = writes \ {w}
    /\ UNCHANGED <<store, request, reads, server, wire, history>>

WriteConfirmed(w) ==
    /\ w.answer.kind = "echo"
    /\ Current(w)
    /\ writes' = writes \ {w}
    /\ pending' = Settled(w)
    /\ epoch' = epoch + 1
    /\ confirmed' = [confirmed EXCEPT ![w.id] = epoch + 1]
    /\ entries' = [entries EXCEPT ![w.id] =
          [until |-> w.until, at |-> w.answer.at, gen |-> w.gen]]
    /\ acked' = [acked EXCEPT ![w.id] = w.answer.at]
    /\ UNCHANGED <<generation, phase, tickets, request, reads, server, wire, held, applied,
                   gaveUp>>

\* Refused, unreachable, or an echo that does not confirm what was asked.
WriteRolledBack(w) ==
    /\ Answered(w)
    /\ w.answer.kind # "echo"
    /\ Current(w)
    /\ writes' = writes \ {w}
    /\ pending' = Settled(w)
    /\ entries' = [entries EXCEPT ![w.id] = RolledBackTo(w)]
    /\ UNCHANGED <<generation, phase, confirmed, epoch, tickets, request, reads,
                   server, wire, history>>

(***************************************************************************)
(* The web app, and the network between.                                   *)
(***************************************************************************)
ServerPuts(id, until) ==
    LET row == [until |-> until, at |-> server[id].at + 1]
    IN /\ server[id].at < MaxVersion
       /\ server' = [server EXCEPT ![id] = row]
       /\ held' = [held EXCEPT ![id] = @ \union {row}]

Answers(t, a) ==
    writes' = {IF w.ticket = t /\ ~Answered(w) THEN [w EXCEPT !.answer = a] ELSE w : w \in writes}

\* The write takes effect; the echo confirms it, or is garbled or lost on the way back.
ServerApplies(m) ==
    /\ ServerPuts(m.id, m.until)
    /\ wire' = wire \ {m}
    /\ applied' = [applied EXCEPT ![m.id] = m.ticket]
    /\ \E a \in {Echo(server[m.id].at + 1), FailedAnswer("lost")} : Answers(m.ticket, a)
    /\ UNCHANGED <<store, request, reads, acked, gaveUp>>

ServerRefuses(m) ==
    /\ wire' = wire \ {m}
    /\ Answers(m.ticket, FailedAnswer("refused"))
    /\ UNCHANGED <<store, request, reads, server, history>>

\* The future gives up; the request itself may still get there.
WriteTimesOut(w) ==
    /\ ~Answered(w)
    /\ Answers(w.ticket, FailedAnswer("lost"))
    /\ gaveUp' = gaveUp \union {w.ticket}
    /\ UNCHANGED <<store, request, reads, server, wire, acked, held, applied>>

OtherDeviceWrites(id, until) ==
    /\ ServerPuts(id, until)
    /\ UNCHANGED <<store, driver, wire, acked, applied, gaveUp>>

-----------------------------------------------------------------------------
RefreshLands == \E r \in reads : r.answer.kind = "ok" /\ r.gen = generation /\ ReadLanded(r)
WriteSettles(m) == ServerApplies(m) \/ ServerRefuses(m)
WriteLanded(w) == WriteIgnored(w) \/ WriteConfirmed(w) \/ WriteRolledBack(w)
TakeRequest == RequestRefused \/ BeginWrite

Next ==
    \/ ClientReplaced
    \/ LaunchRead
    \/ \E r \in reads : ReadAnswered(r) \/ ReadLanded(r)
    \/ \E id \in Ids, until \in Until : UserAsks(id, until) \/ OtherDeviceWrites(id, until)
    \/ TakeRequest
    \/ \E w \in writes : WriteLanded(w) \/ WriteTimesOut(w)
    \/ \E m \in wire : WriteSettles(m)

Spec == Init /\ [][Next]_vars

(***************************************************************************)
(* The frame loop polls every ready future and takes the request on every  *)
(* frame; an HTTP call ends in an answer or a timeout.  Nothing is assumed *)
(* of the user, of list refreshes or of the other device.                  *)
(***************************************************************************)
Fairness ==
    /\ WF_vars(TakeRequest)
    /\ \A g \in 1 .. MaxClients :
          /\ WF_vars(\E r \in reads : r.gen = g /\ ReadAnswered(r))
          /\ WF_vars(\E r \in reads : r.gen = g /\ ReadLanded(r))
    /\ \A t \in 1 .. MaxWrites :
          /\ WF_vars(\E w \in writes : w.ticket = t /\ WriteLanded(w))
          /\ WF_vars(\E m \in wire : m.ticket = t /\ WriteSettles(m))

FairSpec == Spec /\ Fairness

-----------------------------------------------------------------------------
ReadTicket == [gen : Nat, epoch : Nat,
               answer : {Unanswered} \union {FailedAnswer(f) : f \in ReadFailures}
                        \union [kind : {"ok"}, rows : [Ids -> Stored]]]
Intent == [ticket : Nat \ {0}, gen : Nat, id : Ids, until : Until, before : Row,
           answer : {Unanswered, FailedAnswer("lost"), FailedAnswer("refused")}
                    \union [kind : {"echo"}, at : Nat]]

\* Every variable holds a value of the type its C++ counterpart has.
TypeOK ==
    /\ generation \in Nat
    /\ phase \in Phases
    /\ entries \in [Ids -> Row]
    /\ pending \in [Ids -> Nat]
    /\ confirmed \in [Ids -> Nat]
    /\ epoch \in Nat
    /\ tickets \in Nat
    /\ request \in {NoRequest} \union [id : Ids, until : Until]
    /\ reads \subseteq ReadTicket
    /\ writes \subseteq Intent
    /\ server \in [Ids -> Stored]
    /\ wire \subseteq [ticket : Nat \ {0}, id : Ids, until : Until]
    /\ acked \in [Ids -> Nat]
    /\ held \in [Ids -> SUBSET Stored]
    /\ applied \in [Ids -> Nat]
    /\ gaveUp \subseteq Nat \ {0}

\* A snooze the server confirmed is never undone by a read that set out before
\* the confirmation, nor by the rollback of a later write: what a settled row
\* shows is at least as new as the last write of this client that was confirmed.
ReadYourWrites == \A id \in Ids : pending[id] = 0 => entries[id].at >= acked[id]

\* Once a row has no write pending it shows something the server really held (or
\* nothing, before the first read): no optimistic value outlives its write.
ShowsWhatServerHeld ==
    \A id \in Ids : pending[id] = 0 =>
        \/ entries[id] = Absent(generation)
        \/ StoredPart(entries[id]) \in held[id]

\* After a sign-in nothing on screen came from the client it replaced, whatever
\* answers of the old client's calls still arrive.
CurrentClientOnly == \A id \in Ids : entries[id].gen = generation

\* A row that says "still saving" has exactly one call out that will settle it:
\* no thread is left unsnoozable by an intent nobody answers for.
PendingHasItsWrite ==
    \A id \in Ids : pending[id] # 0 =>
        \E w \in writes : /\ w.ticket = pending[id] /\ w.id = id /\ w.gen = generation
                          /\ \A v \in writes : v.id = id => v = w

\* The server applies one thread's snoozes in the order the user made them, across
\* sign-ins too.  The only write it can apply after a newer one is one whose call
\* had timed out before the newer one was begun.
AppliedInOrder ==
    [][\A id \in Ids : applied'[id] < applied[id] => applied'[id] \in gaveUp]_applied

\* The other half of keeping one's own rows over a stale read: the rows are let go.
\* When refreshes keep succeeding, what is shown becomes and stays the server's.
Agrees == \A id \in Ids : StoredPart(entries[id]) = server[id]
Converges == []<><<RefreshLands>>_vars => <>[]Agrees
=============================================================================
