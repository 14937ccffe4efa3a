----------------------------- MODULE MCKickoff -----------------------------
EXTENDS Kickoff

TwoPanes == {1, 2}
=============================================================================
