----------------------------- MODULE MCAskCards -----------------------------
EXTENDS AskCards, TLC

CONSTANTS a1, a2, s1

OneThread == [a \in {a1, a2} |-> s1]

Alike == Permutations({a1, a2})
=============================================================================
