--------------------------- MODULE MCSendPipeline ---------------------------
(* Small instances of SendPipeline. *)
EXTENDS SendPipeline
OneThread1 == <<1>>
TwoThreads3 == <<1, 2, 1>>
TwoThreads4 == <<1, 1, 2, 1>>
NoMsgs == {}
Second == {2}
Third == {3}
NoThreads == {}
Thread2 == {2}
Thread1 == {1}
=============================================================================
