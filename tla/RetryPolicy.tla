----------------------------- MODULE RetryPolicy -----------------------------
(***************************************************************************)
(* The outbox retry policy (api/outbox.h, class Retry) as operators on a   *)
(* value: which held message is handed out next, and what an outcome does  *)
(* to it.  A policy is the record                                          *)
(*    entries   entries_, in order: [msg, auto, force, waiting]            *)
(*    cursor    cursor_, counted from 0                                    *)
(*    inFlight  the key inFlight_ is held for, or none                     *)
(* waiting stands for notBefore > now, the doubling backoff: its length is *)
(* abstracted, when it ends is the environment's choice.                   *)
(***************************************************************************)
EXTENDS Integers, SequencesExt

Entry(m, auto) == [msg |-> m, auto |-> auto, force |-> FALSE, waiting |-> FALSE]
NoEntries(none) == [entries |-> <<>>, cursor |-> 0, inFlight |-> none]

IndexOf(p, m) == SelectInSeq(p.entries, LAMBDA e : e.msg = m)
HeldBy(p) == {p.entries[i].msg : i \in DOMAIN p.entries}
Holds(p, m) == m \in HeldBy(p)

\* restore() into the empty policy of a new process.
NothingRestored(list, none) == NoEntries(none)
Restored(list, none) == [NoEntries(none) EXCEPT !.entries = list]

AdoptNever(p, m, auto) == p
Adopt(p, m, auto) ==
    IF Holds(p, m) THEN p ELSE [p EXCEPT !.entries = Append(@, Entry(m, auto))]

ReleaseNever(p, m, none) == p
Release(p, m, none) == IF p.inFlight = m THEN [p EXCEPT !.inFlight = none] ELSE p

Failed(p, m, none) ==
    [Release(p, m, none) EXCEPT !.entries =
        [i \in DOMAIN @ |-> IF @[i].msg = m THEN [@[i] EXCEPT !.waiting = TRUE] ELSE @[i]]]

\* Where the cursor goes when entry i leaves n of them behind.
CursorNotMoved(c, i, n) == c
CursorAfterErase(c, i, n) ==
    CASE n = 0 -> 0
      [] n > 0 /\ c > i - 1 -> c - 1
      [] n > 0 /\ c <= i - 1 /\ c >= n -> 0
      [] OTHER -> c

ConfirmedKeepsEntry(p, m, none) == Release(p, m, none)
Confirmed(p, m, none) ==
    LET q == Release(p, m, none)
        i == IndexOf(q, m)
    IN IF ~Holds(q, m) THEN q
       ELSE [q EXCEPT !.entries = RemoveAt(@, i),
                      !.cursor = CursorAfterErase(@, i, Len(q.entries) - 1)]

\* A press on Retry: the entry is due at once, whatever its auto_retry says.
RetryNow(p, m, auto) ==
    IF p.inFlight = m THEN p
    ELSE [p EXCEPT !.entries = [i \in DOMAIN @ |->
            IF @[i].msg = m THEN [msg |-> m, auto |-> auto, force |-> TRUE, waiting |-> FALSE]
            ELSE @[i]]]

\* An unknown delivery must wait for the user; a forced retry is the user.
MayBeSent(e) == (e.auto \/ e.force) /\ ~e.waiting

\* next(): round-robin from the cursor, over the entries that are ready.
Turn(p, i) == (i - 1 - p.cursor) % Len(p.entries)
IsNext(p, i, ready) == i \in ready /\ \A j \in ready : Turn(p, i) <= Turn(p, j)

CursorStays(p, i) == p.cursor
CursorPast(p, i) == i % Len(p.entries)

Attempted(p, i) ==
    [entries  |-> [p.entries EXCEPT ![i].force = FALSE],
     cursor   |-> CursorPast(p, i),
     inFlight |-> p.entries[i].msg]

BackoffOver(p, i) == [p EXCEPT !.entries[i].waiting = FALSE]

\* The cursor always points into the entries, and nothing is held twice.
PolicyOK(p, Msgs, none) ==
    /\ p \in [entries : Seq([msg : Msgs, auto : BOOLEAN, force : BOOLEAN, waiting : BOOLEAN]),
              cursor : Nat,
              inFlight : Msgs \union {none}]
    /\ p.cursor < Len(p.entries) \/ p.cursor = 0
=============================================================================
