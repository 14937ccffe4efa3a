--------------------------- MODULE InboxSyncProofs ---------------------------
(***************************************************************************)
(* Proofs about InboxSync, for any sessions, times and bounds: the type    *)
(* invariant, the four safety invariants the runs check, and the order in  *)
(* which the web app applies one session's writes.                         *)
(*                                                                         *)
(* None of the invariants is inductive by itself.  A rollback restores     *)
(* what the intent remembers, a refresh what its snapshot holds, and a     *)
(* confirmation what the echo says: IInv says of each of the three, while  *)
(* it is still in flight, what the row must satisfy when it lands.         *)
(***************************************************************************)
EXTENDS InboxSync, TLAPS

\* Tickets number the intents: no two calls share one, and what is on the wire
\* says the same as the future that waits for it.
TicketsInv ==
    /\ \A w \in writes : w.ticket <= tickets
    /\ \A m \in wire : m.ticket <= tickets
    /\ \A id \in Ids : applied[id] <= tickets
    /\ \A m \in wire, w \in writes : m.ticket = w.ticket => m.id = w.id /\ m.until = w.until
    /\ \A m, n \in wire : m.ticket = n.ticket => m = n

\* drain's "one write per session": the futures of one session are one future.
OneCallInv == \A v, w \in writes : v.id = w.id => v = w

\* What is on the wire and has not timed out is still waited for, and newer than
\* anything the server has applied, or may yet apply, to that session.
WireInv ==
    \A m \in wire : m.ticket \notin gaveUp =>
        /\ applied[m.id] < m.ticket
        /\ \A n \in wire : n.id = m.id => n.ticket <= m.ticket
        /\ \E w \in writes : w.ticket = m.ticket /\ w.id = m.id /\ ~Answered(w)

\* What the server confirmed, it holds or has held.
ServerInv ==
    /\ \A id \in Ids : acked[id] <= server[id].at /\ server[id] \in held[id]
    /\ \A w \in writes : w.answer.kind = "echo" =>
          /\ w.answer.at <= server[w.id].at
          /\ [until |-> w.until, at |-> w.answer.at] \in held[w.id]

\* A snapshot in flight for this client is as new as every write confirmed before
\* the read set out; a later confirmation carries a later epoch.
ReadsInv ==
    \A r \in reads :
        /\ r.gen <= generation
        /\ r.gen = generation => r.epoch <= epoch
        /\ r.answer.kind = "ok" => \A id \in Ids :
              /\ r.answer.rows[id] \in held[id]
              /\ r.gen = generation /\ confirmed[id] <= r.epoch =>
                    r.answer.rows[id].at >= acked[id]

\* What a settled row may show, or an intent may put back.
Fits(row, id) ==
    /\ row.gen = generation
    /\ row.at >= acked[id]
    /\ row = Absent(generation) \/ StoredPart(row) \in held[id]

RowsInv ==
    /\ \A id \in Ids : entries[id].gen = generation
    /\ \A id \in Ids : pending[id] = 0 => Fits(entries[id], id)
    /\ \A w \in writes : Current(w) => Fits(w.before, w.id)

IInv ==
    /\ TypeOK
    /\ TicketsInv
    /\ OneCallInv
    /\ WireInv
    /\ ServerInv
    /\ ReadsInv
    /\ RowsInv
    /\ PendingHasItsWrite

-----------------------------------------------------------------------------
\* What a part of the invariant does not speak of may change: a step that leaves
\* its state alone keeps it.
LEMMA WritesKept ==
    ASSUME IInv, UNCHANGED <<tickets, wire, applied, gaveUp>>, writes' \subseteq writes,
           \A w \in writes : ~Answered(w) => w \in writes'
    PROVE  TicketsInv' /\ OneCallInv' /\ WireInv'
  <1>1. TicketsInv' /\ OneCallInv'
    BY DEF IInv, TicketsInv, OneCallInv
  <1>2. WireInv'
    BY DEF IInv, WireInv, Answered
  <1> QED
    BY <1>1, <1>2

LEMMA ServerKept ==
    ASSUME IInv, UNCHANGED <<server, acked, held>>, writes' \subseteq writes
    PROVE  ServerInv'
  BY DEF IInv, ServerInv

LEMMA ReadsKept ==
    ASSUME IInv, UNCHANGED <<generation, epoch, confirmed, acked, held>>, reads' \subseteq reads
    PROVE  ReadsInv'
  BY DEF IInv, ReadsInv

LEMMA RowsKept ==
    ASSUME IInv, UNCHANGED <<generation, entries, pending, acked, held, writes>>
    PROVE  RowsInv' /\ PendingHasItsWrite'
  <1>1. RowsInv'
    BY DEF IInv, RowsInv, Fits, Current, StoredPart, Absent
  <1>2. PendingHasItsWrite'
    BY DEF IInv, PendingHasItsWrite
  <1> QED
    BY <1>1, <1>2

\* The answers a future can come to hold.
WriteAnswer == {Unanswered, FailedAnswer("lost"), FailedAnswer("refused")}
               \union [kind : {"echo"}, at : Nat]

\* An intent is the same before and after its future is filled in.
SameIntent(v, w) ==
    /\ v.ticket = w.ticket /\ v.gen = w.gen /\ v.id = w.id
    /\ v.until = w.until /\ v.before = w.before

\* Answers fills in the future of one ticket and changes nothing else of any intent.
LEMMA AnswersFillIn ==
    ASSUME writes \subseteq Intent, NEW t, NEW a \in WriteAnswer, Answers(t, a)
    PROVE  /\ \A v \in writes' : \E w \in writes :
                 SameIntent(v, w) /\ (v = w \/ (v.answer = a /\ w.ticket = t))
           /\ \A w \in writes : \E v \in writes' : SameIntent(v, w)
           /\ \A w \in writes : w.ticket # t \/ Answered(w) => w \in writes'
           /\ OneCallInv => OneCallInv'
           /\ writes' \subseteq Intent
  <1> DEFINE filled(w) == IF w.ticket = t /\ ~Answered(w) THEN [w EXCEPT !.answer = a] ELSE w
  <1>1. ASSUME NEW w \in writes
        PROVE  filled(w) \in Intent /\ SameIntent(filled(w), w)
               /\ (filled(w) = w \/ (filled(w).answer = a /\ w.ticket = t))
    BY DEF Intent, WriteAnswer, SameIntent
  <1>2. writes' = {filled(w) : w \in writes}
    BY DEF Answers
  <1>3. \A w \in writes : w.ticket # t \/ Answered(w) => filled(w) = w
    OBVIOUS
  <1> HIDE DEF filled
  <1>4. OneCallInv => OneCallInv'
    BY <1>1, <1>2 DEF OneCallInv, SameIntent
  <1> QED
    BY <1>1, <1>2, <1>3, <1>4

\* What a filled-in future leaves true, whichever answer it is.
LEMMA AnswersKeep ==
    ASSUME IInv, NEW t, NEW a \in WriteAnswer, Answers(t, a), UNCHANGED <<store, acked>>,
           \A id \in Ids : held[id] \subseteq held'[id]
    PROVE  OneCallInv' /\ RowsInv' /\ PendingHasItsWrite'
  <1>1. writes \subseteq Intent
    BY DEF IInv, TypeOK
  <1>2. OneCallInv'
    BY <1>1, AnswersFillIn DEF IInv
  <1>3. RowsInv'
    <2>1. \A v \in writes' : \E w \in writes : SameIntent(v, w)
      BY <1>1, AnswersFillIn
    <2>2. \A w \in writes : w.id \in Ids
      BY <1>1 DEF Intent
    <2> QED
      BY <2>1, <2>2 DEF IInv, RowsInv, Fits, Current, SameIntent, StoredPart, Absent, store
  <1>4. PendingHasItsWrite'
    <2>1. \A w \in writes : \E v \in writes' : SameIntent(v, w)
      BY <1>1, AnswersFillIn
    <2> SUFFICES ASSUME NEW id \in Ids, pending[id] # 0
                 PROVE  \E v \in writes' : /\ v.ticket = pending[id] /\ v.id = id /\ v.gen = generation
                                           /\ \A u \in writes' : u.id = id => u = v
      BY DEF PendingHasItsWrite, store
    <2>2. PICK w \in writes : w.ticket = pending[id] /\ w.id = id /\ w.gen = generation
      BY DEF IInv, PendingHasItsWrite
    <2>3. PICK v \in writes' : SameIntent(v, w)
      BY <2>1
    <2> QED
      BY <1>2, <2>2, <2>3 DEF OneCallInv, SameIntent
  <1> QED
    BY <1>2, <1>3, <1>4

\* Initially the invariant holds: nothing is in flight.
LEMMA InitIInv == Init => IInv
  <1> SUFFICES ASSUME Init PROVE IInv
    OBVIOUS
  <1>1. TypeOK
    BY DEF Init, TypeOK, Absent, Row, Stored, Until, Phases, NoRequest, Optimistic
  <1>2. TicketsInv /\ OneCallInv /\ WireInv /\ ReadsInv /\ PendingHasItsWrite
    BY DEF Init, TicketsInv, OneCallInv, WireInv, ReadsInv, PendingHasItsWrite
  <1>3. ServerInv
    BY DEF Init, ServerInv
  <1>4. RowsInv
    BY DEF Init, RowsInv, Fits, Absent, Optimistic
  <1> QED
    BY <1>1, <1>2, <1>3, <1>4 DEF IInv

\* A sign-in empties the store, so that no intent in flight is current any more, and
\* starts a new generation, so that no read in flight is.
LEMMA ClientReplacedStep ==
    ASSUME IInv, ClientReplaced PROVE IInv'
  <1>1. TypeOK'
    BY DEF IInv, TypeOK, ClientReplaced, PendingAfterReset, Absent, Optimistic, Row,
           Until, Phases, NoRequest
  <1>2. ServerInv'
    BY DEF IInv, TypeOK, ServerInv, ClientReplaced, Stored
  <1>3. ReadsInv'
    BY DEF IInv, TypeOK, ReadsInv, ClientReplaced, ReadTicket
  <1>4. RowsInv'
    <2>1. \A w \in writes : w.ticket # 0 /\ w.id \in Ids
      BY DEF IInv, TypeOK, Intent
    <2> QED
      BY <2>1 DEF ClientReplaced, PendingAfterReset, RowsInv, Fits, Current, Absent, Optimistic
  <1>5. PendingHasItsWrite'
    BY DEF PendingHasItsWrite, ClientReplaced, PendingAfterReset
  <1>6. TicketsInv' /\ OneCallInv' /\ WireInv'
    BY DEF IInv, TicketsInv, OneCallInv, WireInv, ClientReplaced, Answered
  <1> QED
    BY <1>1, <1>2, <1>3, <1>4, <1>5, <1>6 DEF IInv

\* A read sets out with no answer yet.
LEMMA LaunchReadStep ==
    ASSUME IInv, LaunchRead PROVE IInv'
  <1>1. TypeOK'
    BY DEF IInv, TypeOK, LaunchRead, ReadTicket, store, driver, history
  <1>2. ReadsInv'
    BY DEF IInv, TypeOK, ReadsInv, LaunchRead, Unanswered, store, history
  <1>3. TicketsInv' /\ OneCallInv' /\ WireInv' /\ ServerInv' /\ RowsInv' /\
       PendingHasItsWrite'
    BY WritesKept, ServerKept, RowsKept DEF LaunchRead, store, history
  <1> QED
    BY <1>1, <1>2, <1>3 DEF IInv

\* A snapshot holds what the server holds, which is at least as new as every
\* confirmation so far.
LEMMA ReadAnsweredStep ==
    ASSUME IInv, NEW r \in reads, ReadAnswered(r) PROVE IInv'
  <1>1. TypeOK'
    <2>1. r \in ReadTicket /\ server \in [Ids -> Stored]
      BY DEF IInv, TypeOK
    <2>2. PICK a \in {Snapshot(server)} \union {FailedAnswer(f) : f \in ReadFailures} :
             reads' = (reads \ {r}) \union {[r EXCEPT !.answer = a]}
      BY DEF ReadAnswered
    <2>3. [r EXCEPT !.answer = a] \in ReadTicket
      BY <2>1, <2>2 DEF ReadTicket, Snapshot, FailedAnswer
    <2> QED
      BY <2>2, <2>3 DEF IInv, TypeOK, ReadAnswered, store, history
  <1>2. ReadsInv'
    <2>1. PICK a \in {Snapshot(server)} \union {FailedAnswer(f) : f \in ReadFailures} :
             reads' = (reads \ {r}) \union {[r EXCEPT !.answer = a]}
      BY DEF ReadAnswered
    <2>2. a.kind = "ok" => a.rows = server
      BY PhasesAssumption DEF Snapshot, FailedAnswer
    <2> DEFINE q == [r EXCEPT !.answer = a]
    <2>3. q.gen = r.gen /\ q.epoch = r.epoch /\ q.answer = a
      BY DEF IInv, TypeOK, ReadTicket
    <2>4. UNCHANGED <<generation, epoch, confirmed, held, acked>>
      BY DEF ReadAnswered, store, history
    <2>5. \A id \in Ids : server[id] \in held[id] /\ server[id].at >= acked[id]
      BY DEF IInv, TypeOK, Stored, ServerInv
    <2>6. \A x \in reads' : x \in reads \/ x = q
      BY <2>1
    <2> HIDE DEF q
    <2>7. \A x \in reads :
            /\ x.gen <= generation
            /\ x.gen = generation => x.epoch <= epoch
            /\ x.answer.kind = "ok" => \A id \in Ids :
                  /\ x.answer.rows[id] \in held[id]
                  /\ x.gen = generation /\ confirmed[id] <= x.epoch =>
                        x.answer.rows[id].at >= acked[id]
      BY DEF IInv, ReadsInv
    <2>8. /\ q.gen <= generation /\ (q.gen = generation => q.epoch <= epoch)
          /\ q.answer.kind = "ok" => \A id \in Ids :
                q.answer.rows[id] \in held[id] /\ q.answer.rows[id].at >= acked[id]
      BY <2>2, <2>3, <2>5, <2>7
    <2> QED
      BY <2>4, <2>6, <2>7, <2>8 DEF ReadsInv
  <1>3. TicketsInv' /\ OneCallInv' /\ WireInv' /\ ServerInv' /\ RowsInv' /\
       PendingHasItsWrite'
    BY WritesKept, ServerKept, RowsKept DEF ReadAnswered, store, history
  <1> QED
    BY <1>1, <1>2, <1>3 DEF IInv

\* A row a current snapshot may replace was not confirmed since the read set out.
LEMMA ReadLandedStep ==
    ASSUME IInv, NEW r \in reads, ReadLanded(r) PROVE IInv'
  <1>1. TypeOK'
    <2>1. /\ r \in ReadTicket
          /\ entries \in [Ids -> Row] /\ phase \in Phases /\ reads \subseteq ReadTicket
      BY DEF IInv, TypeOK
    <2>2. Answered(r) /\ r.answer.kind # "ok" => r.answer.kind \in Phases
      BY <2>1, PhasesAssumption DEF ReadTicket, Answered, Unanswered, FailedAnswer, Phases
    <2>3. r.answer.kind = "ok" => r.answer.rows \in [Ids -> Stored]
      BY <2>1, PhasesAssumption DEF ReadTicket, Unanswered, FailedAnswer
    <2>4. r.answer.kind = "ok" => \A id \in Ids : AsRow(r.answer.rows[id], r.gen) \in Row
      BY <2>1, <2>3 DEF ReadTicket, AsRow, Row, Stored
    <2>5. entries' \in [Ids -> Row] /\ phase' \in Phases /\ reads' \subseteq ReadTicket
      BY <2>1, <2>2, <2>4 DEF ReadLanded, Phases
    <2> QED
      BY <2>5 DEF IInv, TypeOK, ReadLanded, history
  <1>2. RowsInv'
    <2>1. UNCHANGED <<generation, pending, writes, acked, held>>
      BY DEF ReadLanded, history
    <2>2. \A id \in Ids : /\ entries'[id].gen = generation
                          /\ pending[id] = 0 => Fits(entries'[id], id)
      <3>1. CASE UNCHANGED entries
        BY <3>1 DEF IInv, RowsInv
      <3>2. CASE ReadIsCurrent(r) /\ r.answer.kind = "ok"
        <4> SUFFICES ASSUME NEW id \in Ids, ~KeepsMine(id, r)
                     PROVE  AsRow(r.answer.rows[id], r.gen).gen = generation
                            /\ Fits(AsRow(r.answer.rows[id], r.gen), id)
          BY <3>2 DEF ReadLanded, IInv, RowsInv, KeepsMine
        <4>1. r.answer.rows[id] \in Stored /\ confirmed[id] <= r.epoch
          BY <3>2, PhasesAssumption
             DEF IInv, TypeOK, ReadTicket, KeepsMine, Unanswered, FailedAnswer
        <4>2. /\ r.answer.rows[id] \in held[id]
              /\ r.answer.rows[id].at >= acked[id]
          BY <3>2, <4>1 DEF IInv, ReadsInv, ReadIsCurrent
        <4>3. StoredPart(AsRow(r.answer.rows[id], r.gen)) = r.answer.rows[id]
          BY <4>1 DEF StoredPart, AsRow, Stored
        <4> QED
          BY <3>2, <4>2, <4>3 DEF Fits, AsRow, ReadIsCurrent
      <3> QED
        BY <3>1, <3>2 DEF ReadLanded
    <2> QED
      BY <2>1, <2>2 DEF IInv, RowsInv, Fits, Current
  <1>3. TicketsInv' /\ OneCallInv' /\ WireInv' /\ ServerInv' /\ ReadsInv' /\
       PendingHasItsWrite'
    <2>1. PendingHasItsWrite'
      BY DEF IInv, PendingHasItsWrite, ReadLanded
    <2> QED
      BY <2>1, WritesKept, ServerKept, ReadsKept DEF ReadLanded, history
  <1> QED
    BY <1>1, <1>2, <1>3 DEF IInv

\* A pick in the menu only fills the request.
LEMMA UserAsksStep ==
    ASSUME IInv, NEW id \in Ids, NEW until \in Until, UserAsks(id, until) PROVE IInv'
  <1>1. TypeOK'
    BY DEF IInv, TypeOK, UserAsks, store, driver, history
  <1>2. TicketsInv' /\ OneCallInv' /\ WireInv' /\ ServerInv' /\ ReadsInv' /\ RowsInv' /\
       PendingHasItsWrite'
    BY WritesKept, ServerKept, ReadsKept, RowsKept DEF UserAsks, store, history
  <1> QED
    BY <1>1, <1>2 DEF IInv

\* A refused request changes no row.
LEMMA RequestRefusedStep ==
    ASSUME IInv, RequestRefused PROVE IInv'
  <1>1. TypeOK'
    BY DEF IInv, TypeOK, RequestRefused, store, driver, history
  <1>2. TicketsInv' /\ OneCallInv' /\ WireInv' /\ ServerInv' /\ ReadsInv' /\ RowsInv' /\
       PendingHasItsWrite'
    BY WritesKept, ServerKept, ReadsKept, RowsKept DEF RequestRefused, store, history
  <1> QED
    BY <1>1, <1>2 DEF IInv

\* An intent the store no longer waits for disappears without a trace.
LEMMA WriteIgnoredStep ==
    ASSUME IInv, NEW w \in writes, WriteIgnored(w) PROVE IInv'
  <1>1. TypeOK'
    BY DEF IInv, TypeOK, WriteIgnored, store, history
  <1>2. TicketsInv' /\ OneCallInv' /\ ServerInv' /\ ReadsInv' /\ RowsInv'
    BY DEF IInv, TicketsInv, OneCallInv, ServerInv, ReadsInv, RowsInv,
       WriteIgnored, Fits, Current, StoredPart, Absent, store, history
  <1>3. WireInv'
    <2>1. \A v \in writes : ~Answered(v) => v \in writes'
      BY DEF WriteIgnored
    <2> QED
      BY <2>1 DEF IInv, WireInv, WriteIgnored, Answered, history
  <1>4. PendingHasItsWrite'
    BY DEF IInv, TypeOK, PendingHasItsWrite, WriteIgnored, Current, store
  <1> QED
    BY <1>1, <1>2, <1>3, <1>4 DEF IInv

\* A confirmed row shows what the echo says, and every snapshot in flight is older.
LEMMA WriteConfirmedStep ==
    ASSUME IInv, NEW w \in writes, WriteConfirmed(w) PROVE IInv'
  <1>1. TypeOK'
    <2>1. w.id \in Ids /\ w.until \in Until /\ w.gen \in Nat /\ w.answer.at \in Nat
      BY DEF IInv, TypeOK, Intent, WriteConfirmed, Unanswered, FailedAnswer
    <2> QED
      BY <2>1 DEF IInv, TypeOK, WriteConfirmed, Settled, Row
  <1>2. ServerInv'
    <2>1. w.id \in Ids /\ w.answer.at <= server[w.id].at
      BY DEF IInv, TypeOK, Intent, ServerInv, WriteConfirmed
    <2>2. acked' = [acked EXCEPT ![w.id] = w.answer.at] /\ acked \in [Ids -> Nat]
      BY DEF IInv, TypeOK, WriteConfirmed
    <2>3. UNCHANGED <<server, held>> /\ writes' \subseteq writes
      BY DEF WriteConfirmed
    <2> QED
      BY <2>1, <2>2, <2>3 DEF IInv, ServerInv
  <1>3. ReadsInv'
    <2>1. w.id \in Ids /\ w.answer.at \in Nat /\ epoch \in Nat /\ confirmed \in [Ids -> Nat]
      BY DEF IInv, TypeOK, Intent, WriteConfirmed, Unanswered, FailedAnswer
    <2>2. \A r \in reads : r.epoch \in Nat
      BY DEF IInv, TypeOK, ReadTicket
    <2> QED
      BY <2>1, <2>2 DEF IInv, TypeOK, ReadsInv, WriteConfirmed
  <1>4. RowsInv'
    <2>1. /\ w.id \in Ids /\ w.answer.at \in Nat
          /\ \A v \in writes : v.ticket # 0 /\ v.id \in Ids
      BY DEF IInv, TypeOK, Intent, WriteConfirmed, Unanswered, FailedAnswer
    <2> DEFINE row == [until |-> w.until, at |-> w.answer.at, gen |-> w.gen]
    <2>2. /\ entries' = [entries EXCEPT ![w.id] = row]
          /\ acked' = [acked EXCEPT ![w.id] = w.answer.at]
          /\ pending' = [pending EXCEPT ![w.id] = 0]
          /\ writes' = writes \ {w}
          /\ generation' = generation /\ held' = held
          /\ w.gen = generation
      BY DEF WriteConfirmed, Settled, Current
    <2>3. StoredPart(row) \in held[w.id]
      BY DEF IInv, ServerInv, StoredPart, WriteConfirmed
    <2>4. Fits(row, w.id)'
      BY <2>1, <2>2, <2>3 DEF IInv, TypeOK, Fits, StoredPart
    <2>5. \A v \in writes' : Current(v)' => v.id # w.id /\ Current(v)
      BY <2>1, <2>2 DEF IInv, TypeOK, Current
    <2>6. \A x : \A id \in Ids : id # w.id => Fits(x, id)' = Fits(x, id)
      BY <2>1, <2>2 DEF IInv, TypeOK, Fits, Absent, StoredPart
    <2> QED
      BY <2>1, <2>2, <2>4, <2>5, <2>6 DEF IInv, TypeOK, RowsInv
  <1>5. PendingHasItsWrite'
    <2>1. \A id \in Ids : pending'[id] # 0 => pending'[id] = pending[id] /\ id # w.id
      BY DEF IInv, TypeOK, Intent, WriteConfirmed, Settled
    <2>2. \A v \in writes : v.id # w.id => v \in writes'
      BY DEF WriteConfirmed
    <2> QED
      BY <2>1, <2>2 DEF IInv, PendingHasItsWrite, WriteConfirmed
  <1>6. TicketsInv' /\ OneCallInv' /\ WireInv'
    BY DEF IInv, TicketsInv, OneCallInv, WireInv, WriteConfirmed, Answered, Settled,
       Current
  <1> QED
    BY <1>1, <1>2, <1>3, <1>4, <1>5, <1>6 DEF IInv

\* A row goes back to what it was before its write, and nothing was confirmed since.
LEMMA WriteRolledBackStep ==
    ASSUME IInv, NEW w \in writes, WriteRolledBack(w) PROVE IInv'
  <1>1. TypeOK'
    <2>1. w.id \in Ids /\ w.before \in Row
      BY DEF IInv, TypeOK, Intent
    <2> QED
      BY <2>1 DEF IInv, TypeOK, WriteRolledBack, Settled, RolledBackTo, history
  <1>2. RowsInv'
    <2>1. /\ w.id \in Ids
          /\ \A v \in writes : v.ticket # 0 /\ v.id \in Ids
      BY DEF IInv, TypeOK, Intent
    <2>2. /\ entries' = [entries EXCEPT ![w.id] = w.before]
          /\ pending' = [pending EXCEPT ![w.id] = 0]
          /\ writes' = writes \ {w}
          /\ generation' = generation /\ held' = held /\ acked' = acked
          /\ Current(w)
      BY DEF WriteRolledBack, Settled, RolledBackTo, history
    <2>3. Fits(w.before, w.id) /\ w.before.gen = generation
      BY <2>2 DEF IInv, RowsInv, Fits
    <2> QED
      BY <2>1, <2>2, <2>3 DEF IInv, TypeOK, RowsInv, Fits, Current
  <1>3. PendingHasItsWrite'
    <2>1. \A id \in Ids : pending'[id] # 0 => pending'[id] = pending[id] /\ id # w.id
      BY DEF IInv, TypeOK, Intent, WriteRolledBack, Settled
    <2>2. \A v \in writes : v.id # w.id => v \in writes'
      BY DEF WriteRolledBack
    <2> QED
      BY <2>1, <2>2 DEF IInv, PendingHasItsWrite, WriteRolledBack
  <1>4. TicketsInv' /\ OneCallInv' /\ WireInv' /\ ServerInv' /\ ReadsInv'
    BY WritesKept, ServerKept, ReadsKept DEF WriteRolledBack, history
  <1> QED
    BY <1>1, <1>2, <1>3, <1>4 DEF IInv

\* The new intent has a ticket of its own, is the only call of its session, and
\* remembers a row that was settled.
LEMMA BeginWriteStep ==
    ASSUME IInv, BeginWrite PROVE IInv'
  <1> DEFINE id == request.id
             row == [until |-> request.until, at |-> Optimistic, gen |-> generation]
             new == [ticket |-> NextTicket, gen |-> generation, id |-> id,
                     until |-> request.until, before |-> entries[id], answer |-> Unanswered]
             msg == [ticket |-> NextTicket, id |-> id, until |-> request.until]
  <1>a. id \in Ids /\ request.until \in Until /\ tickets \in Nat /\ NextTicket = tickets + 1
    BY DEF IInv, TypeOK, BeginWrite, NoRequest, NextTicket
  <1>b. pending[id] = 0 /\ \A v \in writes : v.id # id
    BY DEF BeginWrite, Busy, WriteInFlight
  <1>c. /\ writes' = writes \union {new} /\ wire' = wire \union {msg}
        /\ pending' = [pending EXCEPT ![id] = NextTicket]
        /\ entries' = [entries EXCEPT ![id] = row]
        /\ tickets' = tickets + 1
        /\ request' = NoRequest
        /\ UNCHANGED <<generation, phase, confirmed, epoch, reads, server, acked, held, applied,
                      gaveUp>>
    BY DEF BeginWrite, history
  <1>d. new \in Intent /\ row \in Row /\ msg \in [ticket : Nat \ {0}, id : Ids, until : Until]
    BY <1>a DEF IInv, TypeOK, Intent, Row, Optimistic
  <1>e. /\ new.ticket = tickets + 1 /\ new.id = id /\ new.gen = generation
        /\ new.until = request.until /\ new.before = entries[id]
        /\ new.answer.kind = "waiting"
        /\ msg.ticket = tickets + 1 /\ msg.id = id /\ msg.until = request.until
        /\ row.gen = generation
    BY <1>a DEF Unanswered
  <1> HIDE DEF id, row, new, msg
  <1>1. TypeOK'
    BY <1>a, <1>c, <1>d DEF IInv, TypeOK
  <1>2. TicketsInv'
    <2>1. \A w \in writes : w.ticket \in Nat
      BY DEF IInv, TypeOK, Intent
    <2>2. \A m \in wire : m.ticket \in Nat
      BY DEF IInv, TypeOK
    <2>3. applied \in [Ids -> Nat]
      BY DEF IInv, TypeOK
    <2> QED
      BY <2>1, <2>2, <2>3, <1>a, <1>c, <1>e DEF IInv, TicketsInv
  <1>3. OneCallInv'
    BY <1>b, <1>c, <1>e DEF IInv, OneCallInv
  <1>4. WireInv'
    <2>1. \A m \in wire : m.ticket \in Nat /\ m.ticket <= tickets
      BY DEF IInv, TypeOK, TicketsInv
    <2>2. applied[id] \in Nat /\ applied[id] <= tickets
      BY <1>a DEF IInv, TypeOK, TicketsInv
    <2>3. ASSUME NEW m \in wire, m.ticket \notin gaveUp
          PROVE  m.id # id
      BY <1>b, <2>3 DEF IInv, WireInv
    <2>4. gaveUp' = gaveUp /\ applied' = applied /\ msg.id = id /\ msg.ticket = tickets + 1
      BY <1>c, <1>e DEF history
    <2>5. /\ \A n \in wire' : n.id = msg.id => n.ticket <= msg.ticket
          /\ applied'[msg.id] < msg.ticket
          /\ \E w \in writes' : w.ticket = msg.ticket /\ w.id = msg.id /\ ~Answered(w)
      BY <1>a, <1>c, <1>e, <2>1, <2>2, <2>4 DEF Answered
    <2>6. ASSUME NEW m \in wire, m.ticket \notin gaveUp
          PROVE  /\ applied'[m.id] < m.ticket
                 /\ \A n \in wire' : n.id = m.id => n.ticket <= m.ticket
                 /\ \E w \in writes' : w.ticket = m.ticket /\ w.id = m.id /\ ~Answered(w)
      BY <1>c, <2>3, <2>4, <2>6 DEF IInv, WireInv
    <2> QED
      BY <1>c, <2>4, <2>5, <2>6 DEF WireInv
  <1>5. ServerInv'
    BY <1>c, <1>e DEF IInv, ServerInv
  <1>6. ReadsInv'
    BY <1>c DEF IInv, ReadsInv
  <1>7. RowsInv'
    <2>1. \A w \in writes : w.id \in Ids /\ w.id # id
      BY <1>b DEF IInv, TypeOK, Intent
    <2>2. pending' \in [Ids -> Nat] /\ pending'[id] # 0
      BY <1>a, <1>c DEF IInv, TypeOK
    <2>3. \A x, i : Fits(x, i)' = Fits(x, i)
      BY <1>c DEF Fits, Absent, StoredPart
    <2>4. Fits(new.before, id)
      BY <1>a, <1>b, <1>e DEF IInv, RowsInv
    <2> QED
      BY <2>1, <2>2, <2>3, <2>4, <1>a, <1>c, <1>e DEF IInv, TypeOK, RowsInv, Current
  <1>8. PendingHasItsWrite'
    BY <1>a, <1>b, <1>c, <1>e DEF IInv, TypeOK, PendingHasItsWrite
  <1> QED
    BY <1>1, <1>2, <1>3, <1>4, <1>5, <1>6, <1>7, <1>8 DEF IInv

\* The echo carries the row the server has just written.
LEMMA ServerAppliesStep ==
    ASSUME IInv, NEW m \in wire, ServerApplies(m) PROVE IInv'
  <1> DEFINE row == [until |-> m.until, at |-> server[m.id].at + 1]
  <1>a. m.id \in Ids /\ m.until \in Until /\ m.ticket \in Nat /\ server[m.id].at \in Nat
    BY DEF IInv, TypeOK, Stored
  <1>b. PICK a \in {Echo(server[m.id].at + 1), FailedAnswer("lost")} : Answers(m.ticket, a)
    BY DEF ServerApplies
  <1>c. /\ server' = [server EXCEPT ![m.id] = row]
        /\ held' = [held EXCEPT ![m.id] = @ \union {row}]
        /\ wire' = wire \ {m}
        /\ applied' = [applied EXCEPT ![m.id] = m.ticket]
        /\ UNCHANGED <<store, request, reads, acked, gaveUp>>
    BY DEF ServerApplies, ServerPuts
  <1>d. a \in WriteAnswer /\ (a.kind = "echo" => a.at = row.at)
    BY <1>a DEF WriteAnswer, Echo, FailedAnswer
  <1>e. row \in Stored /\ row.until = m.until /\ row.at = server[m.id].at + 1
    BY <1>a DEF Stored
  <1>f. writes \subseteq Intent
    BY DEF IInv, TypeOK
  <1>g. \A id \in Ids : held[id] \subseteq held'[id]
    BY <1>c DEF IInv, TypeOK
  <1> HIDE DEF row
  <1>1. TypeOK'
    BY <1>a, <1>b, <1>c, <1>d, <1>e, <1>f, AnswersFillIn DEF IInv, TypeOK, store
  <1>2. TicketsInv'
    <2>1. \A v \in writes' : \E w \in writes : SameIntent(v, w)
      BY <1>b, <1>d, <1>f, AnswersFillIn
    <2> QED
      BY <2>1, <1>a, <1>c DEF IInv, TypeOK, TicketsInv, SameIntent, store
  <1>4. WireInv'
    <2> SUFFICES ASSUME NEW n \in wire, n # m, n.ticket \notin gaveUp
                 PROVE  /\ applied'[n.id] < n.ticket
                        /\ \A k \in wire' : k.id = n.id => k.ticket <= n.ticket
                        /\ \E w \in writes' : w.ticket = n.ticket /\ w.id = n.id /\ ~Answered(w)
      BY <1>c DEF WireInv
    <2>1. PICK w \in writes : w.ticket = n.ticket /\ w.id = n.id /\ ~Answered(w)
      BY DEF IInv, WireInv
    <2>2. n.ticket # m.ticket /\ n.ticket \in Nat
      BY DEF IInv, TypeOK, TicketsInv
    <2>3. applied[n.id] < n.ticket /\ (n.id = m.id => m.ticket <= n.ticket)
      BY DEF IInv, WireInv
    <2>4. applied'[n.id] < n.ticket
      BY <2>2, <2>3, <1>a, <1>c DEF IInv, TypeOK
    <2>5. w \in writes'
      BY <2>1, <2>2, <1>b, <1>d, <1>f, AnswersFillIn
    <2>6. \A k \in wire' : k.id = n.id => k.ticket <= n.ticket
      BY <1>c DEF IInv, WireInv
    <2> QED
      BY <2>1, <2>4, <2>5, <2>6
  <1>5. ServerInv'
    <2>1. \A id \in Ids : acked'[id] <= server'[id].at /\ server'[id] \in held'[id]
      BY <1>a, <1>c, <1>e DEF IInv, TypeOK, Stored, ServerInv
    <2>2. ASSUME NEW v \in writes', v.answer.kind = "echo"
          PROVE  v.answer.at <= server'[v.id].at
                 /\ [until |-> v.until, at |-> v.answer.at] \in held'[v.id]
      <3>1. PICK w \in writes : SameIntent(v, w) /\ (v = w \/ (v.answer = a /\ w.ticket = m.ticket))
        BY <1>b, <1>d, <1>f, AnswersFillIn
      <3>2. w.id \in Ids
        BY <1>f DEF Intent
      <3>3. CASE v = w
        <4>1. w.answer.at \in Nat
          BY <2>2, <3>3, <1>f DEF Intent, Unanswered, FailedAnswer
        <4>2. /\ w.answer.at <= server[w.id].at
              /\ [until |-> w.until, at |-> w.answer.at] \in held[w.id]
          BY <2>2, <3>3 DEF IInv, ServerInv
        <4>3. /\ server[w.id].at <= server'[w.id].at
              /\ server[w.id].at \in Nat /\ server'[w.id].at \in Nat
          BY <3>2, <1>a, <1>c, <1>e DEF IInv, TypeOK, Stored
        <4> QED
          BY <3>3, <3>2, <4>1, <4>2, <4>3, <1>g
      <3>4. CASE v.answer = a /\ w.ticket = m.ticket
        <4>1. v.id = m.id /\ v.until = m.until
          BY <3>1, <3>4 DEF IInv, TicketsInv, SameIntent
        <4>2. v.answer.at = row.at
          BY <2>2, <3>4, <1>d
        <4>3. [until |-> v.until, at |-> v.answer.at] = row
          BY <4>1, <4>2, <1>e DEF Stored
        <4>4. server'[m.id] = row /\ row \in held'[m.id] /\ row.at <= row.at
          BY <1>a, <1>c, <1>e DEF IInv, TypeOK
        <4> QED
          BY <4>1, <4>2, <4>3, <4>4
      <3> QED
        BY <3>1, <3>3, <3>4
    <2> QED
      BY <2>1, <2>2 DEF ServerInv
  <1>6. ReadsInv'
    BY <1>c, <1>g DEF IInv, ReadsInv, store
  <1>7. OneCallInv' /\ RowsInv' /\ PendingHasItsWrite'
    BY <1>b, <1>c, <1>d, <1>g, AnswersKeep
  <1> QED
    BY <1>1, <1>2, <1>4, <1>5, <1>6, <1>7 DEF IInv

\* A future filled in with a failure, whether the message stays on the wire or not.
LEMMA FailureStep ==
    ASSUME IInv, NEW t, NEW a \in {FailedAnswer("lost"), FailedAnswer("refused")},
           Answers(t, a), wire' \subseteq wire,
           gaveUp' \in {gaveUp, gaveUp \union {t}}, t \in Nat \ {0},
           t \notin gaveUp' => \A m \in wire' : m.ticket # t,
           UNCHANGED <<store, request, reads, server, acked, held, applied>>
    PROVE  IInv'
  <1>a. writes \subseteq Intent /\ a \in WriteAnswer /\ a.kind # "echo"
    BY DEF IInv, TypeOK, WriteAnswer, FailedAnswer
  <1>b. \A v \in writes' : \E w \in writes : SameIntent(v, w) /\ (v = w \/ v.answer = a)
    BY <1>a, AnswersFillIn
  <1>1. TypeOK'
    BY <1>a, AnswersFillIn DEF IInv, TypeOK, store
  <1>2. TicketsInv'
    BY <1>b DEF IInv, TicketsInv, SameIntent, store
  <1>4. WireInv'
    <2>1. \A w \in writes : w.ticket # t => w \in writes'
      BY <1>a, AnswersFillIn
    <2> QED
      BY <2>1 DEF IInv, WireInv
  <1>5. ServerInv'
    BY <1>a, <1>b DEF IInv, ServerInv, SameIntent
  <1>6. ReadsInv'
    BY DEF IInv, ReadsInv, store
  <1>7. OneCallInv' /\ RowsInv' /\ PendingHasItsWrite'
    BY <1>a, AnswersKeep
  <1> QED
    BY <1>1, <1>2, <1>4, <1>5, <1>6, <1>7 DEF IInv

\* A refused write leaves the wire and fails.
LEMMA ServerRefusesStep ==
    ASSUME IInv, NEW m \in wire, ServerRefuses(m) PROVE IInv'
  <1>1. \A n \in wire' : n.ticket # m.ticket
    BY DEF IInv, TicketsInv, ServerRefuses
  <1>2. m.ticket \in Nat \ {0} /\ wire' \subseteq wire
    BY DEF IInv, TypeOK, ServerRefuses
  <1> QED
    BY <1>1, <1>2, FailureStep DEF ServerRefuses, history

\* A write whose future gave up may still be on the wire.
LEMMA WriteTimesOutStep ==
    ASSUME IInv, NEW w \in writes, WriteTimesOut(w) PROVE IInv'
  <1>1. w.ticket \in Nat \ {0}
    BY DEF IInv, TypeOK, Intent
  <1> QED
    BY <1>1, FailureStep DEF WriteTimesOut

\* Another device only makes the server's row newer.
LEMMA OtherDeviceWritesStep ==
    ASSUME IInv, NEW id \in Ids, NEW until \in Until, OtherDeviceWrites(id, until)
    PROVE  IInv'
  <1> DEFINE row == [until |-> until, at |-> server[id].at + 1]
  <1>a. /\ server' = [server EXCEPT ![id] = row]
        /\ held' = [held EXCEPT ![id] = @ \union {row}]
        /\ UNCHANGED <<store, driver, wire, acked, applied, gaveUp>>
    BY DEF OtherDeviceWrites, ServerPuts
  <1>b. row \in Stored /\ server[id].at \in Nat /\ row.at = server[id].at + 1
    BY DEF IInv, TypeOK, Stored
  <1>c. \A i \in Ids : /\ held[i] \subseteq held'[i]
                       /\ server[i].at \in Nat /\ server'[i].at \in Nat
                       /\ server[i].at <= server'[i].at
                       /\ server[i] \in held[i] => server'[i] \in held'[i]
    BY <1>a, <1>b DEF IInv, TypeOK, Stored
  <1>d. \A w \in writes : w.id \in Ids /\ (w.answer.kind = "echo" => w.answer.at \in Nat)
    BY DEF IInv, TypeOK, Intent, Unanswered, FailedAnswer
  <1> HIDE DEF row
  <1>1. TypeOK'
    BY <1>a, <1>b DEF IInv, TypeOK, store, driver
  <1>2. TicketsInv' /\ OneCallInv' /\ WireInv' /\ PendingHasItsWrite'
    BY <1>a DEF IInv, TicketsInv, OneCallInv, WireInv, PendingHasItsWrite, store, driver
  <1>3. ServerInv'
    <2>1. acked \in [Ids -> Nat]
      BY DEF IInv, TypeOK
    <2>2. \A i \in Ids : acked'[i] <= server'[i].at /\ server'[i] \in held'[i]
      BY <2>1, <1>a, <1>c DEF IInv, ServerInv
    <2>3. ASSUME NEW w \in writes, w.answer.kind = "echo"
          PROVE  w.answer.at <= server'[w.id].at
                 /\ [until |-> w.until, at |-> w.answer.at] \in held'[w.id]
      BY <2>3, <1>c, <1>d DEF IInv, ServerInv
    <2> QED
      BY <2>2, <2>3, <1>a DEF ServerInv, driver
  <1>4. ReadsInv'
    BY <1>a, <1>c DEF IInv, ReadsInv, store, driver
  <1>5. RowsInv'
    BY <1>a, <1>c, <1>d DEF IInv, RowsInv, Fits, Current, StoredPart, Absent, store, driver
  <1> QED
    BY <1>1, <1>2, <1>3, <1>4, <1>5 DEF IInv

-----------------------------------------------------------------------------
\* Every step of the system preserves the invariant.
LEMMA StepIInv == IInv /\ [Next]_vars => IInv'
  <1> SUFFICES ASSUME IInv, [Next]_vars PROVE IInv'
    OBVIOUS
  <1>1. CASE ClientReplaced
    BY <1>1, ClientReplacedStep
  <1>2. CASE LaunchRead
    BY <1>2, LaunchReadStep
  <1>3. ASSUME NEW r \in reads, ReadAnswered(r) \/ ReadLanded(r) PROVE IInv'
    BY <1>3, ReadAnsweredStep, ReadLandedStep
  <1>4. ASSUME NEW id \in Ids, NEW until \in Until,
               UserAsks(id, until) \/ OtherDeviceWrites(id, until)
        PROVE  IInv'
    BY <1>4, UserAsksStep, OtherDeviceWritesStep
  <1>5. CASE TakeRequest
    BY <1>5, RequestRefusedStep, BeginWriteStep DEF TakeRequest
  <1>6. ASSUME NEW w \in writes, WriteLanded(w) \/ WriteTimesOut(w) PROVE IInv'
    BY <1>6, WriteIgnoredStep, WriteConfirmedStep, WriteRolledBackStep, WriteTimesOutStep
       DEF WriteLanded
  <1>7. ASSUME NEW m \in wire, WriteSettles(m) PROVE IInv'
    BY <1>7, ServerAppliesStep, ServerRefusesStep DEF WriteSettles
  <1>8. CASE UNCHANGED vars
    BY <1>8 DEF vars, store, driver, history, IInv, TypeOK, TicketsInv, OneCallInv, WireInv,
                ServerInv, ReadsInv, RowsInv, Fits, Current, PendingHasItsWrite
  <1> QED
    BY <1>1, <1>2, <1>3, <1>4, <1>5, <1>6, <1>7, <1>8 DEF Next

\* The inductive invariant holds of every behaviour.
THEOREM InvariantHolds == Spec => []IInv
  BY InitIInv, StepIInv, PTL DEF Spec

\* Every variable of the store, the driver and the web app keeps its type.
THEOREM TypeCorrect == Spec => []TypeOK
  <1>1. IInv => TypeOK
    BY DEF IInv
  <1> QED
    BY <1>1, InvariantHolds, PTL

\* For any number of sessions, clients and writes, no read that set out before a
\* confirmation and no rollback undoes a snooze the server has confirmed.
THEOREM NoConfirmedSnoozeIsUndone == Spec => []ReadYourWrites
  <1>1. IInv => ReadYourWrites
    BY DEF IInv, RowsInv, Fits, ReadYourWrites
  <1> QED
    BY <1>1, InvariantHolds, PTL

\* An optimistic row never outlives its write: what a settled row shows the server
\* has really held, or the row was never read.
THEOREM SettledRowsAreReal == Spec => []ShowsWhatServerHeld
  <1>1. IInv => ShowsWhatServerHeld
    BY DEF IInv, RowsInv, Fits, ShowsWhatServerHeld
  <1> QED
    BY <1>1, InvariantHolds, PTL

\* No answer of a client that has been replaced reaches a row.
THEOREM OldClientsAreSilent == Spec => []CurrentClientOnly
  <1>1. IInv => CurrentClientOnly
    BY DEF IInv, RowsInv, CurrentClientOnly
  <1> QED
    BY <1>1, InvariantHolds, PTL

\* A session that is still saving has exactly one call out that will settle it.
THEOREM NoOrphanedIntent == Spec => []PendingHasItsWrite
  <1>1. IInv => PendingHasItsWrite
    BY DEF IInv
  <1> QED
    BY <1>1, InvariantHolds, PTL

\* For any number of clients and writes, the server applies one session's writes in
\* the order they were issued, sign-ins between them included, but for those whose
\* call had timed out.
THEOREM WritesApplyInOrder == Spec => AppliedInOrder
  <1> DEFINE InOrder == \A id \in Ids : applied'[id] < applied[id] => applied'[id] \in gaveUp
  <1>1. IInv /\ [Next]_vars => [InOrder]_applied
    <2> SUFFICES ASSUME IInv, [Next]_vars
                 PROVE  UNCHANGED applied \/ InOrder
      OBVIOUS
    <2>1. ASSUME NEW m \in wire, ServerApplies(m)
          PROVE  InOrder
      <3>1. m.id \in Ids /\ m.ticket \in Nat /\ applied \in [Ids -> Nat]
        BY DEF IInv, TypeOK
      <3>2. m.ticket \notin gaveUp => applied[m.id] < m.ticket
        BY DEF IInv, WireInv
      <3> QED
        BY <2>1, <3>1, <3>2 DEF ServerApplies
    <2>2. CASE \E m \in wire : ServerApplies(m)
      BY <2>1, <2>2
    <2>3. CASE ~\E m \in wire : ServerApplies(m)
      BY <2>3 DEF Next, vars, history, ClientReplaced, LaunchRead, ReadAnswered, ReadLanded,
                  UserAsks, OtherDeviceWrites, TakeRequest, RequestRefused, BeginWrite,
                  WriteLanded, WriteIgnored, WriteConfirmed, WriteRolledBack, WriteTimesOut,
                  WriteSettles, ServerRefuses
    <2> QED
      BY <2>2, <2>3
  <1> QED
    BY <1>1, InvariantHolds, PTL DEF Spec, AppliedInOrder
=============================================================================
