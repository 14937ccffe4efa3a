---------------------------- MODULE DeviceSignIn ----------------------------
(***************************************************************************)
(* The device-code sign-in: DeviceCodeFlow (api/auth.cpp), its begin() on  *)
(* a worker (LoaderSystem), the overlay (AuthSystem), the poll at the end  *)
(* of app_frame (main.cpp) and the approval in the reader's browser.  A    *)
(* device code is its number.                                              *)
(***************************************************************************)
EXTENDS Deployment

CONSTANTS
    MaxCodes,          \* bound: codes minted, by MayBegin
    SignInMayFail,     \* may the code request or the poll fail, the code expire?
    MayCancel

ASSUME CodesAssumption == MaxCodes \in Nat \ {0}
ASSUME SignInAssumption == {SignInMayFail, MayCancel} \subseteq BOOLEAN

VARIABLES
    flow,         \* authFlow: state_ and device_code_; "gone" when reset
    begin,        \* authBeginFuture
    needsBegin,   \* authNeedsBegin
    showAuth,
    cancelling,   \* requestAuthCancel
    approved      \* the code the reader approved in the browser, at the server

signInVars == <<flow, begin, needsBegin, showAuth, cancelling, approved>>

Flow(at, code) == [at |-> at, code |-> code]

SignInInit ==
    /\ flow = Flow("idle", 0)
    /\ begin = "none"
    /\ needsBegin = TRUE /\ showAuth = TRUE
    /\ cancelling = FALSE
    /\ approved = 0

(* authBeginPending holds from the launch until the loader reaps it; the   *)
(* launch is looked at before the reap.                                    *)
SignInTickKeepsPending ==
    /\ UNCHANGED <<flow, showAuth, cancelling, approved>>
    /\ IF needsBegin /\ begin = "none" /\ flow.at # "gone"
       THEN needsBegin' = FALSE /\ begin' = "launched"
       ELSE UNCHANGED <<begin, needsBegin>>
SignInTick ==
    /\ UNCHANGED <<flow, showAuth, cancelling, approved>>
    /\ IF needsBegin /\ begin = "none" /\ flow.at # "gone"
       THEN needsBegin' = FALSE /\ begin' = "launched"
       ELSE /\ begin' = (IF begin = "ended" THEN "none" ELSE begin)
            /\ UNCHANGED needsBegin

(* begin() on the worker: it mints a code, and the server takes it or not. *)
(* A flow the overlay dropped is still the worker's.                       *)
BeginPosts ==
    /\ begin = "launched"
    /\ begin' = "posting"
    /\ flow' = IF flow.at = "gone" THEN flow ELSE Flow("requesting", flow.code + 1)
    /\ UNCHANGED <<client, part, needsBegin, showAuth, cancelling, approved>>

BeginAnswered ==
    /\ begin = "posting"
    /\ begin' = "ended"
    /\ IF flow.at = "gone" THEN UNCHANGED flow
       ELSE \E at \in {"awaiting"} \cup (IF SignInMayFail THEN {"failed"} ELSE {}) :
               flow' = [flow EXCEPT !.at = at]
    /\ UNCHANGED <<client, part, needsBegin, showAuth, cancelling, approved>>

Cancels ==
    /\ cancelling
    /\ cancelling' = FALSE /\ showAuth' = FALSE
    /\ flow' = [flow EXCEPT !.at = "gone"]
    /\ UNCHANGED <<begin, needsBegin, approved>>

(* The buttons are drawn from the flow's state whatever the worker is      *)
(* doing (render_escape), so "Try again" can be pressed twice.             *)
Presses ==
    /\ ~cancelling
    /\ \/ UNCHANGED <<needsBegin, cancelling>>
       \/ /\ showAuth /\ flow.at \in {"failed", "expired"} /\ flow.code < MaxCodes
          /\ needsBegin' = TRUE /\ UNCHANGED cancelling
       \/ /\ showAuth /\ flow.at # "success" /\ MayCancel
          /\ cancelling' = TRUE /\ UNCHANGED needsBegin
    /\ UNCHANGED <<flow, begin, showAuth, approved>>

OverlayDraws == Cancels \/ Presses

Polled ==
    {flow} \cup
    (IF flow.at # "awaiting" THEN {}
     ELSE (IF approved = flow.code THEN {Flow("success", flow.code)} ELSE {})
          \cup (IF SignInMayFail THEN {Flow("expired", flow.code), Flow("failed", flow.code)}
                ELSE {}))

(* The poll asks at most once an interval, so it may leave the flow as it  *)
(* is; a success makes the client of the signed-in deployment.             *)
PollsAnyFlow == showAuth /\ flow.at # "gone"
PollsOwnFlow == showAuth /\ flow.at # "gone" /\ begin = "none"

FlowPolled ==
    /\ UNCHANGED <<begin, needsBegin, cancelling, approved>>
    /\ IF ~PollsOwnFlow THEN UNCHANGED <<flow, showAuth, client>>
       ELSE \E f \in Polled :
              /\ flow' = f
              /\ showAuth' = (f.at # "success")
              /\ client' = IF f.at = "success" THEN client + 1 ELSE client

(* The reader approves the code the overlay shows; the server answers the  *)
(* polls for that code.                                                    *)
Approves ==
    /\ showAuth /\ begin = "none" /\ flow.at = "awaiting"
    /\ approved' = flow.code
    /\ UNCHANGED <<client, part, flow, begin, needsBegin, showAuth, cancelling>>

----------------------------------------------------------------------------
(* Properties *)

SignInTypeOK ==
    /\ flow \in [at : {"idle", "requesting", "awaiting", "success", "failed", "expired", "gone"},
                 code : 0..MaxCodes + 1]
    /\ begin \in {"none", "launched", "posting", "ended"}
    /\ {needsBegin, showAuth, cancelling} \subseteq BOOLEAN
    /\ approved \in 0..MaxCodes + 1

(* DeviceCodeFlow is not thread-safe: while begin() is on its worker, no   *)
(* step of the frame changes what the worker writes, and dropping the flow *)
(* is dropping the app's own reference (loader_system.h:851-853).          *)
BeginOwnsTheFlow ==
    [][(begin \in {"launched", "posting"} /\ begin' = begin) => flow'.at = "gone"]_flow

(* The overlay never hangs: it comes to a code nobody approved yet, to a   *)
(* failure with its "Try again", or away, whatever the reader pressed while *)
(* a begin() was out and however the server answers.                       *)
OverlayNeverHangs ==
    []<>(\/ ~showAuth
         \/ begin = "none" /\ flow.at \in {"failed", "expired"}
         \/ begin = "none" /\ flow.at = "awaiting" /\ approved # flow.code)
=============================================================================
