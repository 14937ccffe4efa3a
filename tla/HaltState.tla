------------------------------ MODULE HaltState ------------------------------
(***************************************************************************)
(* What can be asked of a thread's brake and what can be seen of it.  From *)
(* api/halt_state.h.                                                       *)
(***************************************************************************)
LOCAL INSTANCE Naturals

CONSTANTS NoIntent,   \* no optional<Intent>
          Unseen      \* no optional<Observation>

Intents == {"halt", "halt_subtree", "resume"}

\* own_halted, and who holds the mark: nobody, the thread itself (own_mark) or
\* an ancestor (contained_by).
Seen(own, by) == [own |-> own, by |-> by]
Observations == [own : BOOLEAN, by : {"nobody", "self", "ancestor"}]

ASSUME NullsAssumption == NoIntent \notin Intents /\ Unseen \notin Observations

WantsHalted(i) == i # "resume"

SatisfiedByFlag(i, o) == o.own = WantsHalted(i)
Satisfied(i, o) ==
    \/ i = "halt" /\ o.own
    \/ i = "halt_subtree" /\ o.own /\ o.by = "self"
    \/ i = "resume" /\ ~o.own /\ o.by # "self"

\* What a write does to the thread; an ancestor's mark stays.
Obeyed(i, o) ==
    LET mark == IF i = "halt" THEN o.by ELSE IF i = "resume" THEN "nobody" ELSE "self"
    IN Seen(WantsHalted(i), IF o.by = "ancestor" THEN o.by ELSE mark)
=============================================================================
