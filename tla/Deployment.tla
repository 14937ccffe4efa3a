----------------------------- MODULE Deployment -----------------------------
(***************************************************************************)
(* What the account components share: the app's client (a new deployment   *)
(* is a new client object) and the frame, which runs the loader, then the  *)
(* panes and the overlay, then app_frame's own tail (main.cpp).            *)
(***************************************************************************)
EXTENDS Naturals

CONSTANT MaxClients   \* bound: clients made in the life of the process

ASSUME ClientsAssumption == MaxClients \in Nat \ {0, 1}

VARIABLES client, part

Clients == 1..MaxClients
Parts == {"loader", "panes", "tail"}

Passes(from, to) == part = from /\ part' = to
=============================================================================
