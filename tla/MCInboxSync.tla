---------------------------- MODULE MCInboxSync ----------------------------
(* A small instance of InboxSync: sessions and times are model values.     *)
EXTENDS InboxSync, TLC
CONSTANTS s1, s2, t1, t2
Sessions == {s1, s2}
OneSession == {s1}
OneTime == {t1}
TwoTimes == {t1, t2}
OnlyUnreachable == {"Unreachable"}
=============================================================================
