----------------------------- MODULE DurableSend -----------------------------
(***************************************************************************)
(* What the send path promises of a message, from the keystroke on.  It is *)
(* in memory only while it waits to be sent at once, and at most one is;   *)
(* it is in the file before the server can see it; it leaves the file only *)
(* taken by the server or handed back; and it comes back into the file     *)
(* only by a press on Retry.  What is in memory only is lost when the next *)
(* message replaces it or the process dies; what is in the file, only when *)
(* the process dies between the two writes of its rewrite.  A message that *)
(* carries an idempotency key is taken once, one that does not no more     *)
(* often than it was asked for.  One more loss is part of the promise as   *)
(* it is kept: a text that was not taken may pass for taken when the line  *)
(* goes silent, or when a run it did not start ends in its thread.         *)
(***************************************************************************)
LOCAL INSTANCE Naturals

CONSTANTS
    Msgs,
    NoMsg,       \* nobody has pressed Retry
    Keyed,       \* messages whose copies the server recognises
    Counted,     \* messages that are posted again only when that is asked for
    ThreadOf,    \* the thread of each message
    Shared,      \* threads in which others start runs too
    Silence,     \* may the line go silent after a text was written to it?
    TornWrites   \* may the process die between the two writes of a rewrite?

VARIABLES
    place,    \* of each message
    taken,    \* times the server took it
    back,     \* messages that were handed back to their composer
    pressed,  \* the message a press on Retry named, until it is taken up
    presses   \* presses on Retry, by message

durable == <<place, taken, back, pressed, presses>>

Init ==
    /\ place = [m \in Msgs |-> "untyped"]
    /\ taken = [m \in Msgs |-> 0]
    /\ back = {}
    /\ pressed = NoMsg
    /\ presses = [m \in Msgs |-> 0]

Is(m, p) == place[m] = p
InMemory == {m \in Msgs : Is(m, "memory")}
Moves(some, p) == [m \in Msgs |-> IF m \in some THEN p ELSE place[m]]

\* A message that is sent at once replaces what waits in memory; one that is
\* queued may leave it there.
Types(m) ==
    /\ Is(m, "untyped")
    /\ \E p \in {"memory", "file"}, gone \in {{}, InMemory} :
           /\ p = "memory" => gone = InMemory
           /\ place' = [Moves(gone, "lost") EXCEPT ![m] = p]
    /\ UNCHANGED <<taken, back, pressed, presses>>

Saves(m) ==
    /\ Is(m, "memory")
    /\ place' = Moves({m}, "file")
    /\ UNCHANGED <<taken, back, pressed, presses>>

Takes(m) ==
    /\ Is(m, "file")
    /\ m \in Keyed => taken[m] = 0
    /\ m \in Counted => taken[m] < 1 + presses[m]
    /\ taken' = [taken EXCEPT ![m] = @ + 1]
    /\ UNCHANGED <<place, back, pressed, presses>>

Settles(m) ==
    /\ Is(m, "file") /\ taken[m] > 0
    /\ place' = Moves({m}, "settled")
    /\ UNCHANGED <<taken, back, pressed, presses>>

\* Nobody told the sender that the text was taken, and it gives the turn up as done.
RunMayBeOn(t) == t \in Shared \/ \E m \in Msgs : ThreadOf[m] = t /\ taken[m] > 0
Presumes(m) ==
    /\ Is(m, "file")
    /\ m \in Keyed /\ (Silence \/ RunMayBeOn(ThreadOf[m]))
    /\ place' = Moves({m}, IF taken[m] > 0 \/ m \in back THEN "settled" ELSE "lost")
    /\ UNCHANGED <<taken, back, pressed, presses>>

HandsBack(m) ==
    /\ Is(m, "file")
    /\ place' = Moves({m}, "settled")
    /\ back' = back \cup {m}
    /\ UNCHANGED <<taken, pressed, presses>>

Asks(m) ==
    /\ Is(m, "file") /\ pressed = NoMsg
    /\ pressed' = m
    /\ presses' = [presses EXCEPT ![m] = @ + 1]
    /\ UNCHANGED <<place, taken, back>>

\* The press is taken up.  Its message may have been settled, or presumed taken,
\* meanwhile: it comes back.
TakesUp(m) ==
    /\ pressed = m /\ place[m] \in {"file", "settled", "lost"}
    /\ place' = Moves({m}, "file")
    /\ pressed' = NoMsg
    /\ UNCHANGED <<taken, back, presses>>

\* The process dies: what was in memory only is gone, and perhaps one message
\* whose rewrite it was in the middle of.
Dies ==
    /\ \E torn \in {{}} \cup {{m} : m \in {n \in Msgs : Is(n, "file")}} :
          /\ torn # {} => TornWrites
          /\ place' = [m \in Msgs |->
                IF m \in torn /\ (taken[m] > 0 \/ m \in back) THEN "settled"
                ELSE IF m \in torn \cup InMemory THEN "lost"
                ELSE place[m]]
    /\ pressed' = NoMsg
    /\ UNCHANGED <<taken, back, presses>>

Next ==
    \/ \E m \in Msgs : \/ Types(m) \/ Saves(m) \/ Takes(m) \/ Settles(m) \/ Presumes(m)
                       \/ HandsBack(m) \/ Asks(m) \/ TakesUp(m)
    \/ Dies

Spec == Init /\ [][Next]_durable
=============================================================================
