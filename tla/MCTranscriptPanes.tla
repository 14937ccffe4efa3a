------------------------- MODULE MCTranscriptPanes -------------------------
(* Small instances of TranscriptPanes: threads and panes are model values. *)
EXTENDS TranscriptPanes, TLC
CONSTANTS t1, t2, left, right
OneThread == {t1}
TwoThreads == {t1, t2}
AllFour == 1 .. 4
GapAtFour == {1, 2, 3, 5}
First3 == 1 .. 3
First2 == 1 .. 2
OnePane == {left}
TwoPanes == {left, right}
Symmetric == Permutations(TwoThreads)
=============================================================================
