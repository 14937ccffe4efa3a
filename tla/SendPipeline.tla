----------------------------- MODULE SendPipeline -----------------------------
(***************************************************************************)
(* From the composer to the server and back: the one-message request slot, *)
(* the queue of messages typed while a thread is busy, the send START and  *)
(* DONE blocks and drive_outbox of ecs/loader_system.h, the worker of      *)
(* api/agentcloud_client.cpp, the outbox file of api/disk_cache.cpp, and   *)
(* crashes of the process between any two of them.                         *)
(*                                                                         *)
(* Messages are numbered in the order the user types them.  The frame loop *)
(* is single threaded; only the worker, the server and the user run beside *)
(* it.  A step of the loop that its next frame takes before the user can   *)
(* act again is given priority in the user's guards (Quiet).               *)
(***************************************************************************)
EXTENDS RetryPolicy

CONSTANTS
    N,           \* bound: messages typed
    K,           \* threads: 1 .. K, in the order a restore lists them
    SessionOf,   \* the thread each message is for
    Files,       \* the messages with attachments: posted without an idempotency key
    Streaming,   \* Client::supports_stream: failures keep their kind, replies drain
    Silence,     \* may a live socket go silent after the input was written?
    Shared,      \* threads in which others start runs too
    Preflight,   \* may an attempt fail before anything was sent (token, socket)?
    TornWrites,  \* may the process die between the two writes of one rewrite?
    Closable,    \* threads that may be closed and opened again
    Editable,    \* messages the user may open for editing while queued
    Reachable,   \* threads whose sends eventually get through (fairness only)
    MaxCrashes,  \* bound
    MaxRetries,  \* bound: presses on Retry, per message
    MaxCopies    \* bound: the server's copies of one message are counted up to here

Msgs == 1 .. N
Sessions == 1 .. K
None == 0

ASSUME NAssumption == N \in Nat
ASSUME KAssumption == K \in Nat
ASSUME SessionOfAssumption == SessionOf \in [Msgs -> Sessions]
ASSUME SetsAssumption == /\ Files \subseteq Msgs /\ Editable \subseteq Msgs
                         /\ Closable \subseteq Sessions /\ Reachable \subseteq Sessions
                         /\ Shared \subseteq Sessions
ASSUME FlagsAssumption == {Streaming, Silence, Preflight, TornWrites} \subseteq BOOLEAN
ASSUME BoundsAssumption == /\ MaxCrashes \in Nat /\ MaxRetries \in Nat
                           /\ MaxCopies \in Nat /\ MaxCopies > MaxRetries + 1

VARIABLES
    composed,    \* messages typed so far
    open,        \* threads a pane shows
    slot,        \* requestStream / requestSend
    due,         \* the slot is full and the worker free: the next frame starts it
    retrySlot,   \* requestRetryMessage
    queue,       \* pendingSendQueue
    editing,     \* queuedEditing: the queued message open in a composer
    policy,      \* outboxRetry
    restored,    \* outboxRestored
    sending,     \* streamPendingMessage / sendingMessage while collecting
    draining,    \* streamSessionId while streamActive, None otherwise
    call,        \* how far the worker is with sending
    disk,        \* the outbox file: per thread, [msg, auto] in file order
    drafts,      \* messages handed back to their composer
    delivered,   \* the server's journal: times each message was taken as an input
    forced,      \* history: presses on Retry
    overwritten, \* history: messages a later one replaced in the slot, this run
    crashes      \* history

ui == <<composed, open, editing, forced>>
pipeline == <<slot, retrySlot, queue, policy, restored, sending, draining>>
loader == <<pipeline, due>>
outside == <<drafts, delivered>>
vars == <<ui, loader, call, disk, outside, overwritten, crashes>>

Results == {"accepted", "presumed", "retryable", "rejected", "cancelled", "unknown"}

Init ==
    /\ composed = 0
    /\ open = Sessions
    /\ slot = None /\ due = FALSE /\ retrySlot = None /\ queue = <<>> /\ editing = None
    /\ policy = NoEntries(None)
    /\ restored = FALSE
    /\ sending = None /\ draining = None /\ call = "none"
    /\ disk = [s \in Sessions |-> <<>>]
    /\ drafts = {}
    /\ delivered = [m \in Msgs |-> 0]
    /\ forced = [m \in Msgs |-> 0]
    /\ overwritten = {} /\ crashes = 0

(***************************************************************************)
(* The outbox file.                                                        *)
(***************************************************************************)
OnDisk(m) == \E i \in DOMAIN disk[SessionOf[m]] : disk[SessionOf[m]][i].msg = m

\* outbox_add: replaces the message in place, or appends it.
DiskPut(d, m, auto) ==
    LET s == SessionOf[m]
        at == SelectInSeq(d[s], LAMBDA e : e.msg = m)
        value == [msg |-> m, auto |-> auto]
    IN [d EXCEPT ![s] = IF at = 0 THEN Append(@, value) ELSE ReplaceAt(@, at, value)]

\* outbox_remove_message
DiskWithout(d, m) ==
    [d EXCEPT ![SessionOf[m]] = RemoveFirstMatch(@, LAMBDA e : e.msg = m)]

\* A message with files starts, and is delivered, with auto_retry off.
FilesStartAuto(m) == TRUE
FreshAuto(m) == m \notin Files

(***************************************************************************)
(* The loader's questions about a thread.                                  *)
(***************************************************************************)
SendingFor(s) == (sending # None /\ SessionOf[sending] = s) \/ draining = s
Queued(m) == Contains(queue, m)
QueueHeld(s) == editing # None /\ Queued(editing) /\ SessionOf[editing] = s

QueueReady == {i \in DOMAIN queue : ~SendingFor(SessionOf[queue[i]])
                                 /\ ~QueueHeld(SessionOf[queue[i]])}
AnyReady(i) == i \in QueueReady
FirstReady(i) == i \in QueueReady /\ \A j \in QueueReady : i <= j

WorkerFree == sending = None /\ draining = None

\* drive_send_queue runs before drive_outbox, and both before the user's next turn.
NoQueueFirst == TRUE
QueueFirst == slot = None => QueueReady = {}

\* The user acts between frames: what a frame does unasked has been done.  One frame
\* passes between two acts: it starts what it then finds in the slot.
Quiet == restored /\ ~due /\ retrySlot = None /\ QueueFirst
TurnEnds(inSlot) == due' = (inSlot # None /\ WorkerFree)

(***************************************************************************)
(* The user types.  A composer assigns the slot whatever it holds; the     *)
(* next frame begins with queue_if_busy, which moves a message for a busy  *)
(* thread to the disk and the queue.                                       *)
(***************************************************************************)
Types(m) == /\ Quiet
            /\ m = composed + 1
            /\ SessionOf[m] \in open
            /\ composed' = m

\* The message the assignment replaces is gone from memory.
Replaced == IF slot = None THEN overwritten ELSE overwritten \union {slot}

SubmitToIdle(m) ==
    /\ Types(m)
    /\ ~SendingFor(SessionOf[m])
    /\ slot' = m
    /\ TurnEnds(m)
    /\ overwritten' = Replaced
    /\ UNCHANGED <<open, editing, forced, retrySlot, queue, policy, restored, sending,
                   draining, call, disk, outside, crashes>>

SubmitToBusy(m) ==
    /\ Types(m)
    /\ SendingFor(SessionOf[m])
    /\ slot' = None
    /\ TurnEnds(None)
    /\ overwritten' = Replaced
    /\ queue' = Append(queue, m)
    /\ disk' = DiskPut(disk, m, FreshAuto(m))
    /\ UNCHANGED <<open, editing, forced, retrySlot, policy, restored, sending,
                   draining, call, outside, crashes>>

\* The queue-this-one chord, and /queue for a busy thread.
QueueThisOne(m) ==
    /\ Types(m)
    /\ queue' = Append(queue, m)
    /\ disk' = DiskPut(disk, m, FreshAuto(m))
    /\ TurnEnds(slot)
    /\ UNCHANGED <<open, editing, forced, slot, retrySlot, policy, restored, sending,
                   draining, call, outside, overwritten, crashes>>

(***************************************************************************)
(* The user edits a queued message: the thread's queue holds meanwhile.    *)
(***************************************************************************)
EditOpens(m) ==
    /\ Quiet
    /\ editing # m
    /\ m \in Editable
    /\ Queued(m)
    /\ editing' = m
    /\ TurnEnds(slot)
    /\ UNCHANGED <<composed, open, forced, pipeline, call, disk, outside, overwritten,
                   crashes>>

EditEnds ==
    /\ Quiet
    /\ editing # None
    /\ editing' = None
    /\ disk' \in {disk, DiskPut(DiskWithout(disk, editing), editing, FreshAuto(editing))}
    /\ TurnEnds(slot)
    /\ UNCHANGED <<composed, open, forced, pipeline, call, outside, overwritten,
                   crashes>>

OpensOrCloses(s) ==
    /\ s \in Closable
    /\ Quiet
    /\ open' \in {open \union {s}, open \ {s}}
    /\ TurnEnds(slot)
    /\ UNCHANGED <<composed, editing, forced, pipeline, call, disk, outside, overwritten,
                   crashes>>

\* Retry is offered on the bubble of every held message of an open thread.
AsksRetry(m) ==
    /\ Quiet
    /\ Holds(policy, m)
    /\ SessionOf[m] \in open
    /\ forced[m] < MaxRetries
    /\ forced' = [forced EXCEPT ![m] = @ + 1]
    /\ retrySlot' = m
    /\ TurnEnds(slot)
    /\ UNCHANGED <<composed, open, editing, slot, queue, policy, restored, sending,
                   draining, call, disk, outside, overwritten, crashes>>

\* outbox_begin_delivery, before the worker exists.
NotSavedAtStart(m) == disk
DiskAtStart(m) == DiskPut(disk, m, FreshAuto(m))

(***************************************************************************)
(* START: one send at a time, whichever thread it is for.                  *)
(***************************************************************************)
Start ==
    /\ slot # None
    /\ WorkerFree
    /\ sending' = slot
    /\ slot' = None
    /\ due' = FALSE
    /\ call' = "working"
    /\ disk' = DiskAtStart(slot)
    /\ UNCHANGED <<ui, retrySlot, queue, policy, restored, draining, outside,
                   overwritten, crashes>>

(***************************************************************************)
(* The worker and the server.  A text carries its local_id as idempotency  *)
(* key; the post of a message with files carries none.                     *)
(***************************************************************************)
CopyLimit(m) == IF m \in Files THEN MaxCopies ELSE 1
TakenAgain(m) == IF delivered[m] < CopyLimit(m) THEN delivered[m] + 1 ELSE delivered[m]

ServerTakes ==
    /\ call = "working"
    /\ call' = "taken"
    /\ delivered' = [delivered EXCEPT ![sending] = TakenAgain(sending)]
    /\ UNCHANGED <<ui, loader, disk, drafts, overwritten, crashes>>

\* A run may be under way in the thread: another client's, or that of an earlier
\* input, which may have been reported done on a question it raised.
RunMayBeOn(s) == s \in Shared \/ \E m \in Msgs : SessionOf[m] = s /\ delivered[m] > 0

\* run_turn reports done on the end of any run and on any question of the thread, on
\* a close after some text of a run, and after the silence of its window; it asks
\* for no echo of its input.  Nothing tells the loader such a report from an
\* acceptance.  (What the server takes after it is as if taken before.)
MayPresume(m) == m \notin Files /\ (Silence \/ RunMayBeOn(SessionOf[m]))

\* Everything run_turn and post_message can report at this point of a send.
Reports(m) ==
    IF call = "taken"
    THEN {"accepted"} \union (IF m \in Files THEN {"unknown"} ELSE {"retryable"})
    ELSE (IF m \in Files THEN {"rejected", "cancelled", "unknown"} ELSE {"retryable"})
         \union (IF Preflight THEN {"retryable"} ELSE {})
         \union (IF MayPresume(m) THEN {"presumed"} ELSE {})

\* send_message has only r.ok: every failure is retryable.
Fine == {"accepted", "presumed"}
KindSeen(r) == IF Streaming \/ r \in Fine THEN r ELSE "retryable"

WorkerReports ==
    /\ call \in {"working", "taken"}
    /\ \E r \in Reports(sending) : call' = KindSeen(r)
    /\ UNCHANGED <<ui, loader, disk, outside, overwritten, crashes>>

(***************************************************************************)
(* DONE: what the loader makes of the report on a later frame.             *)
(***************************************************************************)
Landed == sending' = None /\ call' = "none"

\* note_outbox_failure: only a retryable failure may be retried unasked.
AutoAfter(r) == r = "retryable"

\* The failed message is written again with its new flag: to the end of the file.
DroppedAfterFailure(m, auto) == DiskWithout(disk, m)
KeptAfterFailure(m, auto) == DiskPut(DiskWithout(disk, m), m, auto)

LandAccepted ==
    /\ call \in Fine
    /\ Landed
    /\ disk' = DiskWithout(disk, sending)
    /\ policy' = Confirmed(policy, sending, None)
    \* The reply drains if it came without an error and its pane still shows the thread.
    /\ draining' \in {None} \union (IF Streaming THEN {SessionOf[sending]} ELSE {})
    /\ UNCHANGED <<ui, slot, due, retrySlot, queue, restored, outside, overwritten, crashes>>

LandHandedBack ==
    /\ call \in {"rejected", "cancelled"}
    /\ Landed
    /\ disk' = DiskWithout(disk, sending)
    /\ policy' = Confirmed(policy, sending, None)
    /\ drafts' = drafts \union {sending}
    /\ UNCHANGED <<ui, slot, due, retrySlot, queue, restored, draining, delivered,
                   overwritten, crashes>>

LandFailed ==
    /\ call \in {"retryable", "unknown"}
    /\ Landed
    /\ LET m == sending
           auto == AutoAfter(call)
       IN /\ disk' = KeptAfterFailure(m, auto)
          /\ policy' = Failed(Adopt(policy, m, auto), m, None)
    /\ UNCHANGED <<ui, slot, due, retrySlot, queue, restored, draining, outside,
                   overwritten, crashes>>

DrainEnds ==
    /\ draining # None
    /\ draining' = None
    /\ UNCHANGED <<ui, slot, due, retrySlot, queue, policy, restored, sending, call, disk,
                   outside, overwritten, crashes>>

(***************************************************************************)
(* drive_send_queue, then drive_outbox, at the end of every frame.         *)
(***************************************************************************)
LeftInQueue(i) == queue
Dequeued(i) == RemoveAt(queue, i)

DispatchQueued(i) ==
    /\ slot = None
    /\ FirstReady(i)
    /\ slot' = queue[i]
    /\ queue' = Dequeued(i)
    /\ UNCHANGED <<ui, due, retrySlot, policy, restored, sending, draining, call, disk,
                   outside, overwritten, crashes>>

RestoreList(s) == [i \in DOMAIN disk[s] |-> Entry(disk[s][i].msg, disk[s][i].auto)]

RestoreOutbox ==
    /\ ~restored
    /\ restored' = TRUE
    /\ policy' = Restored(FlattenSeq([s \in Sessions |-> RestoreList(s)]), None)
    /\ UNCHANGED <<ui, slot, due, retrySlot, queue, sending, draining, call, disk, outside,
                   overwritten, crashes>>

TakeRetry ==
    /\ retrySlot # None
    /\ retrySlot' = None
    /\ LET m == retrySlot
       IN /\ disk' = DiskPut(disk, m, FreshAuto(m))
          /\ policy' = RetryNow(Adopt(policy, m, FreshAuto(m)), m, FreshAuto(m))
    /\ UNCHANGED <<ui, slot, due, queue, restored, sending, draining, call, outside,
                   overwritten, crashes>>

RetryReady == {i \in DOMAIN policy.entries :
                  LET e == policy.entries[i]
                  IN MayBeSent(e) /\ ~SendingFor(SessionOf[e.msg]) /\ SessionOf[e.msg] \in open}

DispatchRetry(i) ==
    /\ Quiet
    /\ slot = None
    /\ policy.inFlight = None
    /\ IsNext(policy, i, RetryReady)
    /\ policy' = Attempted(policy, i)
    /\ slot' = policy.entries[i].msg
    /\ UNCHANGED <<ui, due, retrySlot, queue, restored, sending, draining, call, disk,
                   outside, overwritten, crashes>>

BackoffElapses(i) ==
    /\ policy.entries[i].waiting
    /\ policy' = BackoffOver(policy, i)
    /\ UNCHANGED <<ui, slot, due, retrySlot, queue, restored, sending, draining, call, disk,
                   outside, overwritten, crashes>>

(***************************************************************************)
(* The process dies; what is in the file and at the server survives.       *)
(***************************************************************************)
MemoryLost ==
    /\ crashes < MaxCrashes
    /\ crashes' = crashes + 1
    /\ slot' = None /\ due' = FALSE /\ retrySlot' = None /\ queue' = <<>> /\ editing' = None
    /\ policy' = NoEntries(None)
    /\ restored' = FALSE
    /\ sending' = None /\ draining' = None /\ call' = "none"
    /\ overwritten' = {}
    /\ UNCHANGED <<composed, open, forced, outside>>

Crash == MemoryLost /\ UNCHANGED disk

\* Between outbox_remove_message and outbox_add.
CrashInRewrite(m) ==
    /\ TornWrites
    /\ \/ m = sending /\ call \in {"retryable", "unknown"}
       \/ m = editing
    /\ MemoryLost
    /\ disk' = DiskWithout(disk, m)

\* The user is done and the loop has nothing to do: what is held waits for a press
\* on Retry, for its thread to be opened, or behind an overwritten retry.  Any
\* other stop is a deadlock.
Rests ==
    /\ composed = N
    /\ Quiet /\ slot = None /\ WorkerFree /\ queue = <<>>
    /\ \/ RetryReady = {}
       \/ policy.inFlight \in overwritten
    /\ \A i \in DOMAIN policy.entries : ~policy.entries[i].waiting
    /\ UNCHANGED vars

-----------------------------------------------------------------------------
UserActs ==
    \/ \E m \in Msgs : SubmitToIdle(m) \/ SubmitToBusy(m) \/ QueueThisOne(m)
    \/ \E m \in Msgs : EditOpens(m) \/ AsksRetry(m)
    \/ EditEnds
    \/ \E s \in Sessions : OpensOrCloses(s)

Land == LandAccepted \/ LandHandedBack \/ LandFailed
Retries == \E i \in DOMAIN policy.entries : DispatchRetry(i)
DrainQueue == \E i \in DOMAIN queue : DispatchQueued(i)

Next ==
    \/ UserActs
    \/ Start
    \/ ServerTakes
    \/ WorkerReports
    \/ Land
    \/ DrainEnds
    \/ DrainQueue
    \/ RestoreOutbox
    \/ TakeRetry
    \/ Retries
    \/ \E i \in DOMAIN policy.entries : BackoffElapses(i)
    \/ Crash
    \/ \E m \in Msgs : CrashInRewrite(m)
    \/ Rests

Spec == Init /\ [][Next]_vars

(***************************************************************************)
(* The frame loop takes each of its steps when it can; a call ends within  *)
(* its timeouts; a backoff is at most a minute; a send to a reachable      *)
(* thread is taken and reported accepted if it is tried again and again.   *)
(* Nothing is assumed of the user.                                         *)
(***************************************************************************)
Taken(s) == sending # None /\ SessionOf[sending] = s /\ ServerTakes
Acknowledged(s) ==
    sending # None /\ SessionOf[sending] = s /\ WorkerReports /\ call' = "accepted"

Fairness ==
    /\ WF_vars(Start) /\ WF_vars(Land) /\ WF_vars(DrainEnds) /\ WF_vars(WorkerReports)
    /\ WF_vars(DrainQueue) /\ WF_vars(RestoreOutbox) /\ WF_vars(TakeRetry)
    /\ WF_vars(Retries)
    /\ \A m \in Msgs : WF_vars(\E i \in DOMAIN policy.entries :
                                  policy.entries[i].msg = m /\ BackoffElapses(i))
    /\ \A s \in Reachable : SF_vars(Taken(s)) /\ SF_vars(Acknowledged(s))

FairSpec == Spec /\ Fairness

-----------------------------------------------------------------------------
DiskOK == /\ disk \in [Sessions -> Seq([msg : Msgs, auto : BOOLEAN])]
          /\ \A s \in Sessions : \A i \in DOMAIN disk[s] : SessionOf[disk[s][i].msg] = s

\* Every variable has its type; the retry policy's cursor points into its
\* entries, however entries leave it.
TypeOK ==
    /\ composed \in 0 .. N
    /\ open \subseteq Sessions
    /\ {slot, retrySlot, editing, sending} \subseteq Msgs \union {None}
    /\ draining \in Sessions \union {None}
    /\ {due, restored} \subseteq BOOLEAN
    /\ queue \in Seq(Msgs)
    /\ PolicyOK(policy, Msgs, None)
    /\ call \in Results \union {"none", "working", "taken"}
    /\ DiskOK
    /\ drafts \union overwritten \subseteq Msgs
    /\ delivered \in [Msgs -> Nat] /\ forced \in [Msgs -> Nat]
    /\ crashes \in 0 .. MaxCrashes

Once(f, m) == \A i, j \in DOMAIN f : f[i] = m /\ f[j] = m => i = j

\* A message is in one place of the send path at a time and in each list at most
\* once, so that no frame can send it twice: the queue, the slot and the worker
\* hand it on, and the policy and the file key it by its local_id.
OneOwner ==
    /\ slot # None => slot # sending
    /\ \A m \in Msgs :
        /\ Queued(m) => m \notin {slot, sending}
        /\ Once(queue, m)
        /\ Once([i \in DOMAIN policy.entries |-> policy.entries[i].msg], m)
        /\ Once([i \in DOMAIN disk[SessionOf[m]] |-> disk[SessionOf[m]][i].msg], m)

\* What is queued, being sent or held for a retry is in the file: no crash from
\* there on can lose the user's words.
HeldIsOnDisk ==
    \A m \in Msgs : Queued(m) \/ sending = m \/ Holds(policy, m) => OnDisk(m)

\* Nothing in the file is forgotten by the running process, apart from what a
\* submission overwrote in the slot: it is about to be sent, queued or retried.
DiskHasOwner ==
    restored => \A m \in Msgs : OnDisk(m) =>
        Queued(m) \/ m \in {slot, sending} \/ Holds(policy, m) \/ m \in overwritten

\* The file and what the process holds are in step, through every interleaving of
\* sends, edits, failures, presses on Retry and restarts.
FileIsInStep == HeldIsOnDisk /\ DiskHasOwner

\* The retry policy is blocked ("one in flight") only by a message that is really
\* on its way, so that it is freed when that one lands.
InFlightIsReal ==
    policy.inFlight # None =>
        /\ Holds(policy, policy.inFlight)
        /\ policy.inFlight \in {slot, sending} \union overwritten

\* A message leaves the file only once the server has taken it or its composer has
\* got it back, or the process dies between the two writes of its rewrite; or else
\* it is the text being sent, its turn was reported done, and the line may be
\* silent or a run that the text did not start may have ended in its thread.
Presumed(m) == sending = m /\ call = "presumed" /\ MayPresume(m)
KeptUntilReported ==
    [][\A m \in Msgs : OnDisk(m) /\ ~OnDisk(m)' /\ ~CrashInRewrite(m) /\ ~Presumed(m)
                          => delivered'[m] > 0 \/ m \in drafts']_disk

\* What outbox.h and the sender's comment claim: a message leaves the file only
\* once the server has taken it or its composer has got it back; or the process
\* dies between the two writes of its rewrite.
KeptUntilSettled ==
    [][\A m \in Msgs : OnDisk(m) /\ ~OnDisk(m)' /\ ~CrashInRewrite(m)
                          => delivered'[m] > 0 \/ m \in drafts']_disk

\* A message with files has no idempotency key: it is posted again only when the
\* user presses Retry, crashes included.
UnkeyedOnce == \A m \in Files : delivered[m] <= 1 + forced[m]

\* As long as no submission overwrote the slot and no queued message is taken out
\* for editing, a thread's queued messages leave in the order they were typed and
\* nothing typed later is sent before them, whatever waits for the other threads.
QueueInOrder ==
    [][Start /\ overwritten = {} /\ Editable = {} =>
        \A i \in DOMAIN queue : SessionOf[queue[i]] = SessionOf[slot] => queue[i] > slot]_vars

\* A queued message gets its turn, whatever keeps failing in other threads.
QueueDrains == \A m \in Msgs : Queued(m) ~> ~Queued(m)

\* A held text of a reachable thread goes out in the end, although an unreachable
\* thread fails for ever, if no submission overwrites the slot.
RetrySettles(m) == Holds(policy, m) ~> ~Holds(policy, m)
RetriedTexts == {m \in Msgs \ Files : SessionOf[m] \in Reachable}
NoStarvation == [](overwritten = {}) => \A m \in RetriedTexts : RetrySettles(m)

\* Messages that are never retried unasked: a failure of theirs keeps its kind,
\* and none of the kinds they can get allows it.
OnlyAsked == IF Streaming /\ ~Preflight THEN Files ELSE {}

\* Where a message is, read off the file and the slot, the server's journal and
\* the composers.
PlaceOf(m) ==
    IF m > composed THEN "untyped"
    ELSE IF OnDisk(m) THEN "file"
    ELSE IF slot = m THEN "memory"
    ELSE IF delivered[m] > 0 \/ m \in drafts THEN "settled"
    ELSE "lost"
PlaceBar == [m \in Msgs |-> PlaceOf(m)]

Promise == INSTANCE DurableSend
           WITH NoMsg <- None, Keyed <- Msgs \ Files, Counted <- OnlyAsked,
                ThreadOf <- SessionOf,
                place <- PlaceBar, taken <- delivered, back <- drafts,
                pressed <- retrySlot, presses <- forced

\* The composer, the queue, the loader, the worker and the file together keep the
\* promise: through any crashes, failures, presses on Retry and early reports no
\* message is lost from the file but in the two ways DurableSend names, and none
\* is sent before it is there.
KeepsEveryWord == Promise!Spec
=============================================================================
