---------------------------- MODULE SettingsSync ----------------------------
(***************************************************************************)
(* LoaderSystem::drive_settings_sync: local preference changes, numbered,  *)
(* are debounced and pushed one at a time, as a snapshot of the settings.  *)
(* A push is best effort: its result is not looked at.                     *)
(***************************************************************************)
EXTENDS Deployment

CONSTANTS
    MaxEdits,        \* bound: preference changes
    Writers,         \* clients with a settings write path
    PushesMayFail

ASSUME EditsAssumption == MaxEdits \in Nat
ASSUME WritersAssumption == Writers \subseteq Clients /\ PushesMayFail \in BOOLEAN

VARIABLES
    edits,    \* changes made: the local preferences are those of the last one
    dirty,    \* settings_dirty_
    timer,    \* settings_sync_armed_ and settings_sync_deadline_
    push,     \* settings_sync_future_: the snapshot it carries and how it goes
    server,   \* the last snapshot the account took
    spared    \* the last snapshot that was withheld or lost

syncVars == <<edits, dirty, timer, push, server, spared>>

NoPush == [snapshot |-> 0, at |-> "none"]

SyncInit ==
    /\ edits = 0 /\ dirty = FALSE
    /\ timer = "off"
    /\ push = NoPush
    /\ server = 0 /\ spared = 0

Edits ==
    /\ edits < MaxEdits
    /\ edits' = edits + 1
    /\ dirty' = TRUE
    /\ UNCHANGED <<client, part, timer, push, server, spared>>

Elapses ==
    /\ timer = "running"
    /\ timer' = "over"
    /\ UNCHANGED <<client, part, edits, dirty, push, server, spared>>

Reaped == IF push.at = "ended" THEN NoPush ELSE push

Rests(p) == ~dirty \/ p # NoPush

Arms(p) ==
    /\ timer = "off"
    /\ timer' = "running"
    /\ push' = p
    /\ UNCHANGED <<dirty, spared>>

Waits(p) ==
    /\ timer = "running"
    /\ push' = p
    /\ UNCHANGED <<timer, dirty, spared>>

(* The flags go first; a client that cannot write, or a reader who shares  *)
(* nothing, leaves the change local.                                       *)
Flushes ==
    /\ timer = "over"
    /\ timer' = "off"
    /\ dirty' = FALSE
    /\ \E sharing \in BOOLEAN :
          IF client \in Writers /\ sharing
          THEN push' = [snapshot |-> edits, at |-> "sent"] /\ UNCHANGED spared
          ELSE push' = NoPush /\ spared' = edits

SyncTickClearsLate ==
    /\ UNCHANGED <<edits, server, spared>>
    /\ IF push.at = "ended"
       THEN push' = NoPush /\ dirty' = FALSE /\ UNCHANGED timer
       ELSE \/ Rests(push) /\ UNCHANGED <<dirty, timer, push>>
            \/ ~Rests(push) /\ Arms(push)
            \/ ~Rests(push) /\ timer = "over" /\ timer' = "off" /\ UNCHANGED dirty
               /\ push' = [snapshot |-> edits, at |-> "sent"]
SyncTick ==
    /\ UNCHANGED <<edits, server>>
    /\ LET p == Reaped IN
          \/ Rests(p) /\ push' = p /\ UNCHANGED <<dirty, timer, spared>>
          \/ ~Rests(p) /\ (Arms(p) \/ Waits(p) \/ Flushes)

(* The worker's call: the account takes the snapshot, or it is lost.       *)
PushEnds ==
    /\ push.at = "sent"
    /\ push' = [push EXCEPT !.at = "ended"]
    /\ \/ server' = push.snapshot /\ UNCHANGED spared
       \/ PushesMayFail /\ spared' = push.snapshot /\ UNCHANGED server
    /\ UNCHANGED <<client, part, edits, dirty, timer>>

----------------------------------------------------------------------------
(* Properties *)

SyncTypeOK ==
    /\ edits \in 0..MaxEdits /\ dirty \in BOOLEAN
    /\ timer \in {"off", "running", "over"}
    /\ push \in [snapshot : 0..MaxEdits, at : {"none", "sent", "ended"}]
    /\ server \in 0..MaxEdits /\ spared \in 0..MaxEdits

(* A change made while a push is on its way marks the settings again, so   *)
(* when nothing is dirty and nothing is on its way the account has the     *)
(* last change, or that very change was withheld or lost                   *)
(* (loader_system.h:2457).                                                 *)
NoEditForgotten == ~dirty /\ push.at # "sent" => edits \in {server, spared}
=============================================================================
