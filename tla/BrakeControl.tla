---------------------------- MODULE BrakeControl ----------------------------
(***************************************************************************)
(* What the halt and resume rows promise, thread by thread: one write is   *)
(* under way at most; of what is asked meanwhile only the newest is kept;  *)
(* after a write nobody confirmed nothing goes out before the thread was   *)
(* seen again; and what is kept is dropped only when the last observation  *)
(* shows the thread as it wants it.  That observation may be from before   *)
(* the write that just ended: only an attach and the stream renew it, not  *)
(* the echo of a write.                                                    *)
(***************************************************************************)
EXTENDS HaltState

CONSTANT Threads

VARIABLES
    doing,    \* the intent being written
    wanted,   \* the newest one asked since
    unknown,  \* a write was sent and nobody confirmed it
    seen      \* the last observation

brake == <<doing, wanted, unknown, seen>>

Init ==
    /\ doing = [t \in Threads |-> NoIntent]
    /\ wanted = [t \in Threads |-> NoIntent]
    /\ unknown = [t \in Threads |-> FALSE]
    /\ seen = [t \in Threads |-> Unseen]

Idle(t) == doing[t] = NoIntent /\ ~unknown[t]

Asks(t, i) ==
    /\ IF Idle(t)
       THEN doing' = [doing EXCEPT ![t] = i] /\ UNCHANGED wanted
       ELSE wanted' = [wanted EXCEPT ![t] = i] /\ UNCHANGED doing
    /\ UNCHANGED <<unknown, seen>>

\* What was kept is written, or was there before it could be.
Continues(t) ==
    /\ wanted' = [wanted EXCEPT ![t] = NoIntent]
    /\ \/ doing' = [doing EXCEPT ![t] = wanted[t]]
       \/ /\ seen'[t] # Unseen /\ Satisfied(wanted[t], seen'[t])
          /\ doing' = [doing EXCEPT ![t] = NoIntent]

Sees(t) == /\ seen'[t] \in Observations
           /\ seen' = [seen EXCEPT ![t] = seen'[t]]

\* A write that its attach made needless renews the observation; one that was
\* confirmed or refused leaves it, and what was kept meanwhile is held against it.
Ends(t) ==
    /\ doing[t] # NoIntent
    /\ Sees(t) \/ UNCHANGED seen
    /\ Continues(t)
    /\ UNCHANGED unknown

EndsUnconfirmed(t) ==
    /\ doing[t] # NoIntent
    /\ doing' = [doing EXCEPT ![t] = NoIntent]
    /\ unknown' = [unknown EXCEPT ![t] = TRUE]
    /\ UNCHANGED <<wanted, seen>>

\* An attach: it settles what was unknown.
Observes(t) ==
    /\ Sees(t)
    /\ unknown' = [unknown EXCEPT ![t] = FALSE]
    /\ IF doing[t] = NoIntent THEN Continues(t) ELSE UNCHANGED <<doing, wanted>>

\* A frame of the stream carries the flag, and settles nothing.
Glimpses(t) == Sees(t) /\ UNCHANGED <<doing, wanted, unknown>>

Next == \E t \in Threads :
            \/ \E i \in Intents : Asks(t, i)
            \/ Ends(t) \/ EndsUnconfirmed(t) \/ Observes(t) \/ Glimpses(t)

Spec == Init /\ [][Next]_brake
=============================================================================
