------------------------------ MODULE Account ------------------------------
(***************************************************************************)
(* The parts of the app that follow its account, in the frame they share:  *)
(* sign-in replaces the client under the model menu and the settings sync. *)
(***************************************************************************)
EXTENDS DeviceSignIn, ModelMenuCache, SettingsSync

vars == <<client, part, signInVars, menuVars, syncVars>>

Init ==
    /\ client = 1 /\ part = "loader"
    /\ SignInInit
    /\ MenuInit
    /\ SyncInit

LoaderTicks ==
    /\ Passes("loader", "panes")
    /\ SignInTick /\ SyncTick /\ MenuTick
    /\ UNCHANGED client

Draws ==
    /\ Passes("panes", "tail")
    /\ PanelDraws /\ OverlayDraws
    /\ UNCHANGED <<client, syncVars>>

FrameEnds ==
    /\ Passes("tail", "loader")
    /\ FlowPolled
    /\ UNCHANGED <<menuVars, syncVars>>

(* model_menu_cache.h is written for any number of deployments, one after  *)
(* another; the app itself makes one more, on sign-in.                     *)
Switches ==
    /\ part = "loader" /\ ~showAuth
    /\ client < MaxClients
    /\ client' = client + 1
    /\ UNCHANGED <<part, signInVars, menuVars, syncVars>>

BeginWorks == (BeginPosts \/ BeginAnswered) /\ UNCHANGED <<menuVars, syncVars>>
AskWorks(c) == AskAnswers(c) /\ UNCHANGED <<signInVars, syncVars>>
PushWorks == PushEnds /\ UNCHANGED <<signInVars, menuVars>>

DebounceEnds == Elapses /\ UNCHANGED <<signInVars, menuVars>>
MenuClocks == (MenuAges \/ BackoffEnds) /\ UNCHANGED <<signInVars, syncVars>>

Reader ==
    \/ Approves /\ UNCHANGED <<menuVars, syncVars>>
    \/ Edits /\ UNCHANGED <<signInVars, menuVars>>

Next ==
    \/ LoaderTicks \/ Draws \/ FrameEnds
    \/ Switches
    \/ BeginWorks \/ PushWorks \/ \E c \in Clients : AskWorks(c)
    \/ DebounceEnds \/ MenuClocks
    \/ Reader

Spec == Init /\ [][Next]_vars

(* Frames are drawn, calls end, the debounce runs and the poll asks in     *)
(* time; the reader, the switches and the menu's clocks owe nothing.       *)
FairSpec ==
    /\ Spec
    /\ WF_vars(LoaderTicks) /\ WF_vars(Draws) /\ WF_vars(FrameEnds)
    /\ SF_vars(FrameEnds /\ flow' # flow)
    /\ WF_vars(BeginWorks) /\ WF_vars(PushWorks) /\ WF_vars(DebounceEnds)
    /\ \A c \in Clients : WF_vars(AskWorks(c))

TypeOK == client \in Clients /\ part \in Parts /\ SignInTypeOK /\ MenuTypeOK /\ SyncTypeOK
=============================================================================
