----------------------------- MODULE MCAccount -----------------------------
EXTENDS Account

AllClients == Clients
ButFirst == Clients \ {1}
=============================================================================
