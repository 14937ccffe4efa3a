# Verification of hanabi

hanabi is a native desktop client (C++) for conversations with AI agents. The program is a
single-threaded frame loop over an entity-component world: each frame the *systems* in
`src/ecs/` read requests that the user interface left in `AppComponent`, start worker threads
(`std::async`) that talk to the server, poll their futures, and fold what has landed into the
state the panes draw. What makes it hard to get right is not the drawing: it is that every
answer arrives some frames after its question was asked, that the user keeps acting meanwhile,
that the process may die at any point, and that a few one-place slots are shared by everything.

This directory holds TLA+ models of the parts where that matters, the configurations that
model-check them, and machine-checked proofs. Paths below are relative to the repository's
`src/` directory.

## 1. Inventory

| Component | State it keeps | Operations | Talks to | Hard because | Correct when |
|---|---|---|---|---|---|
| **Send pipeline**: `ecs/main_pane_system.h` (composer), `ecs/loader_system.h` 939–949, 1844–1938, 2142–2157, 2231–2380, 2810–3180, `api/agentcloud_client.cpp` 2700–2916, `api/disk_cache.cpp` 1410–1481 | one request slot (`requestStream` or `requestSend`), `pendingSendQueue`, `queuedEditing`, the send in flight, the outbox file | submit, queue, edit a queued message, START, collect DONE, DRAIN, dispatch the queue, restore, retry | retry policy, disk, server | one slot for composer, queue and retries; the outcome of a send may be unknown; crashes between any two steps | nothing the pipeline holds can be lost by a crash; an unknown outcome is not repeated unasked; a thread's order is the user's; every queued message gets its turn |
| **Retry policy**: `api/outbox.h` `Retry` | entries, cursor, the one key in flight, backoff | restore, adopt, next, attempted, failed, confirmed, retry_now | the loader | round-robin cursor over a list that shrinks; one entry in flight blocks all | no starvation; the block is real; an unknown delivery waits for the user |
| **Snooze sync**: `ecs/inbox_sync_store.h`, `ecs/inbox_sync_driver.h` | entries, pending tickets, confirmation epochs; futures of reads and writes | launch a read, begin a write, land either, replace the client | the web app, other devices | stale snapshots, rollbacks, lost echoes, late writes, answers for a replaced client | confirmed snoozes are not undone; nothing optimistic survives its write; rows converge |
| **Transcript load**: `ecs/loader_system.h` 560–960, `ecs/transcript_reconcile.h`, `ecs/transcript_cache.h`, `ui/open_fetch.h` | per pane: selected thread, session shown, state, disk read, network fetch; the memory cache | open, disk landed, fetch landed or failed, fold | disk cache, server, tabs, live events | reads race each other and tab switches; windows, resumes page by page and cut copies are joined | a pane never shows another thread, is never left loading, shows no row twice and none missing between two, and keeps its newest row |
| **Older pages, creation times**: `ecs/load_older_model.h`, `api/resume_paging.h`, `ecs/created_at_walk.h` | page in flight; walk batch, refused set | ask, land | server | read before, landed after | older rows stay reachable; a session is asked once |
| **Kickoff**: `api/create_outcome.h`, `ecs/loader_system.h` 1246–1290, 1940–2140, `ecs/main_pane_system.h` 9000–9100 | drafts, what Enter reported, the one request, the create in flight, the restore banner | Enter, Send, route, launch, land, restore, dismiss | outbox, composer | two legs, each may fail or never be heard of; Enter is routed a frame later | what was typed is in one place and not dropped; a Retry doubles nothing |
| **Halt**: `api/halt_state.h`, `ecs/loader_system.h` 1400–1540, `ecs/components.h` 1990–2090, `api/agentcloud_client.cpp` | per thread: in flight, one queued intent, last observation, gate; the app's write queue and its one worker | request, launch, settle, observe, reobserve | server, attaches of panes, frames | late and lost echoes, marks of ancestors, one worker for all threads | one write per thread; the newest intent is kept; after an unconfirmed write nothing goes out before the thread was seen |
| **Model menu**: `ecs/model_menu_cache.h` | snapshot, ask in flight, orphans, deferred flag | bind, request if stale, land, poll, panel open and close | client replacement | futures whose destructor blocks; a cap on outstanding asks | asks bounded and never dropped; no menu of another client; a deferred ask is asked |
| **Settings sync**: `ecs/loader_system.h` 2420–2550, `settings.cpp` | dirty flag, debounce, push in flight | change, arm, flush, land | server | a change while a push is out; a best-effort push | no change is forgotten without having been pushed, withheld or lost |
| **Disk cache**: `api/disk_cache.cpp` | epoch, writer queue, files | save, load, wipe, flush | every reader | writes queued before a wipe | nothing written before a wipe reappears |
| **Tabs**: `ecs/tab_model.h`, `ecs/tab_groups.h` | tab lists, groups | open, close, move, group | sidebar, panes | long sequences of list edits | indices stay in range, groups stay contiguous |
| **Ask cards**: `ecs/ask_card.h`, `ecs/components.h` 1405–1513, `ecs/loader_system.h` 297–448, 1690–1745, `api/elicitation.h`, `api/agentcloud_client.cpp` 3720–3812 | asks per thread, what is typed into them, stamps of birth and drop, the answer in flight | adopt a list, type, answer, withdraw | transcript loads, turns, the ask refresh, other clients | lists land out of order, also while an answer is in flight | an answered ask does not come back; a card under answer stays busy; typed text is kept; a quiet read settles the card |
| **Sign-in**: `api/auth.cpp`, `ecs/auth_system.h`, `main.cpp` | device-code flow, its begin() on a worker, the overlay | begin, poll, try again, cancel | client, browser | a class that is not thread-safe shared with a worker; expiry against approval | only the worker writes the flow while it runs; the overlay never hangs |
| **Live subscriptions**: `ecs/loader_system.h` 2553–2700, `ws_socket.mm` | one subscription per hot thread, dirty flag, refetch | sync, hear, start, land | transcript load | an event during a refetch, or while older rows load | what was heard is shown |
| **Follow latch, snooze wake, quit confirmation**: `ecs/follow_latch.h`, `ecs/snooze_wake.h`, `quit_confirmation.h` | a few fields | one step function each | — | boundaries | small pure functions |
| **Other clients, rendering, search, side panels, vendored code** | — | — | — | request formatting, layout, text processing, fetch-and-show | not modelled |

`PROJECT.json` lists the same components with their status, and under `hazards` every place
where this code can go wrong in a way a test would hardly reach.

## 2. What is modelled

### RetryPolicy — `api/outbox.h`
Class `Retry` as operators on a value: the entries in order, the cursor, and the key in flight.
`Adopt`, `Failed`, `Confirmed`, `RetryNow`, `IsNext`/`Attempted`, `Restored` are the methods of
the same meaning. The doubling backoff is the flag `waiting`, cleared by the environment. The
cursor is counted from 0 as in the code, and `CursorAfterErase` is `erase_key`'s arithmetic.

### SendPipeline — composer, loader, worker, outbox file, server
Messages are numbered in the order they are typed. The actions, and the code they stand for:

| Action | Code |
|---|---|
| `SubmitToIdle`, `SubmitToBusy`, `QueueThisOne` | a composer assigns the slot; the next frame's `queue_if_busy` moves it to the queue and the disk if its thread is sending |
| `EditOpens`, `EditEnds` | a queued message opened in the composer holds its thread's queue; saving rewrites it |
| `OpensOrCloses`, `AsksRetry` | tabs; the Retry press on a held message |
| `Start` | `drive_stream` START: `outbox_begin_delivery`, then the worker |
| `ServerTakes`, `WorkerReports` | the server's journal; every outcome `run_turn` and `post_message` can report, a turn reported done that is not the input's own among them (`presumed`, guarded by `MayPresume`) |
| `LandAccepted`, `LandHandedBack`, `LandFailed`, `DrainEnds` | DONE and DRAIN, with `note_outbox_failure` |
| `DispatchQueued` | `drive_send_queue` |
| `RestoreOutbox`, `TakeRetry`, `DispatchRetry`, `BackoffElapses` | `drive_outbox` |
| `Crash`, `CrashInRewrite` | the process dies between two steps, or between the two writes of one rewrite |
| `Rests` | nothing is left to do; any other stop is reported by TLC as a deadlock |

The frame loop is single threaded, so what a frame does unasked is done before the user acts
again: `Quiet` says so in the user's guards. The variable `due` makes one frame pass between two
acts of the user. Texts carry their `local_id` as idempotency key, so the server counts a text
once; the post of a message with files carries none and is counted each time it is taken. The file
holds one row per message and, as in the code, a removal erases the first row that matches:
`OneOwner` is what makes that enough.

`run_turn` does not wait for the echo of its input. It reports done on the end, or on a question,
of any run of the thread, on a close after some text was assembled, and after its window of silence,
and the loader takes every report without an error for an acceptance. `MayPresume` says when that can
happen to a text the server has not taken: with `Silence`, or when a run that is not its own may be
on (`RunMayBeOn`: an earlier input of the thread was taken, or the thread is one of `Shared`, where
other clients and agents start runs). What the server takes after such a report is, for the message,
as if taken before it.

`DurableSend` is the abstract promise, message by message: a message is untyped, in memory, in the
file, settled or lost (`place`), and beside that there are only the server's count, the composers
that got one back and the press on Retry not yet taken up. `SendPipeline` implements it with
`PlaceOf`, which reads the place off the file and the slot: of the queue, the policy, the worker and
the sessions nothing is left. `Saves` is START's `outbox_begin_delivery`, `Takes` is guarded by the
file, `Presumes` is the report of a turn not its own, under the same guard, `TakesUp` may put a
settled or lost message back (a press on Retry in the frame of such a report), and `Dies` loses what is in memory, with at most one message in whose rewrite the process died.

Left out: steering into a running turn, the kickoff of a new thread, forks, the optimistic
bubbles, the older `(id, prompt)` overloads of `Retry`, and the length of the backoff.

### InboxSync — `ecs/inbox_sync_store.h`, `ecs/inbox_sync_driver.h`
The optimistic store and its driver whole, with the web app, the network in between and another
device. One action per method: `LaunchRead`, `ReadLanded`, `UserAsks`, `RequestRefused`,
`BeginWrite`, `WriteIgnored`/`WriteConfirmed`/`WriteRolledBack` (the three ends of
`write_landed`), `ClientReplaced`. `ReadAnswered`, `ServerApplies`, `ServerRefuses`,
`WriteTimesOut` and `OtherDeviceWrites` are the outside: the snapshot is taken at any moment
between launch and landing, an applied write's echo may be lost, and a write may reach the server
after its future gave up. `acked`, `held`, `applied` and `gaveUp` are history variables that the
code does not have and no guard reads; the row's `gen` likewise.

### TranscriptPanes — what a pane shows of a thread
A thread's journal is its frames `1 .. journal[t]`; the frames of `RowSeqs` make a row, and a row
is its frame, so that order, doubles and holes can be seen and contents need not be written down.
A session (`Session(t, rows, more)`) is what the code calls `AgentSession`: the rows held and
`has_more_older`. A backend with cursors (agent-cloud: resumes, no pushed events) and one with
newest windows and pushed events (HTTP) are the flags `Resumes` and `Events`. The rows of a session
need not be oldest first: the reconcile appends whatever the held copy lacks, in the reply's order
(`Reconcile`). The history flag `torn` says that such a copy was cut to its last rows since; only
then may a row be missing inside it.

| Action | Code |
|---|---|
| `Opens` = `Hits` or `Misses` | `open_session_in_tab`, `switch_to_tab`, `retarget_split_pane`, with the `service_pane` that serves the request: a cache hit paints and fetches nothing, a miss follows `open_fetch_plan` |
| `ShowsSettings`, `ClosesLast`, `ClosesHidden` | the Settings tab, `request_close`, `reset_pane_to` |
| `AsksOlder`, `OlderAnswered`, `OlderLands`, `OlderFails` | `requestLoadOlder`, `drive_load_older` |
| `DiskAnswers`, `DiskLands` | `diskReadFuture`, `accepts_disk_read`, the fetch that waited for its cursor |
| `FetchAnswered`, `FetchLands`, `FetchFails` | `transcriptFuture`: a window, or a resume whose pages may break off (`resume_paging.h`); `land_refetch`, `reconcile_transcript` |
| `Syncs`, `LiveStarts`, `LiveAnswered`, `LiveLandsShown`/`LiveLandsHidden`, `LiveFails` | `sync_subscriptions`, `live_hot_set`, `drive_live_events` |
| `Appends` | the server writes a frame; a live subscription's sink raises the flag |
| `Trims`, `ClearsCache` | `trim_to_cap`; Clear in Settings with the epoch |

The memory cache is a copy and a recency rank per thread (`Touch`, `Put` with eviction and the cut
to the last rows). The background writer's queue is read through by `load_transcript`, so a save is
seen at once and is one step. The debounce of a live event may take any time. Left out: rows that
change in place, local (unsent) bubbles, previews, the scroll anchor, the disk list of sessions.

### HaltState, HaltSerializer, BrakeControl — halting and resuming
`HaltState` is what can be asked and seen (`satisfied_by`). `HaltSerializer` is class `Serializer`
as operators on a record (`Raise`, `Settled`, `Observed`, `Drain`), with everything that calls it:

| Action | Code |
|---|---|
| `RequestsHalt` | `request_halt` of a menu row, `enqueue_halt` |
| `Launches` | the loader takes the oldest of `haltWrites` when none is in flight |
| `Attaches`, `AttachFails`, `Confirms`, `RunsDry`, `Refuses` | `set_halt_state` on the worker: attach, look, write, wait for the echo |
| `OutcomeLands` | the loader takes the outcome, settles, closes the gate (`MarkPending`), reobserves |
| `Shows`, `Rereads`, `Hello`, `ReadFails`, `ReadLands` | a pane's attach and `adopt_attach_brakes`/`halt_observed` |
| `FrameHeard` | a frame of a send's stream carries the flag, with the mark of the pane's copy |
| `Serves`, `OthersAct` | the server, whenever it likes or never; other clients and ancestors |

An outcome carries an observation only if its attach made the write needless or impossible (`Fresh`);
the echo of a confirmed or refused write carries none, so the serializer's last observation stays as
it was (`Now`).

`BrakeControl` is the abstract promise, thread by thread. It lets a kept intent be dropped when the
last observation satisfies it, also one from before the write that just ended. The refinement mapping reads the write
that is under way off the app's queue and worker, not off the serializer, so it fails if either
loses or doubles one. `retry_halt` has no caller in the repository and is left out.

### Account = DeviceSignIn + ModelMenuCache + SettingsSync over Deployment
`Deployment` holds what the three share: the client (a new deployment is a new object, here the
next number) and the part of the frame: loader, then panes and overlay, then `app_frame`'s tail.
`Account` composes them into that frame: sign-in replaces the client while a menu ask and a
settings push are out.

| Module | Actions | Code |
|---|---|---|
| `DeviceSignIn` | `SignInTick`, `BeginPosts`, `BeginAnswered`, `Presses`/`Cancels`, `FlowPolled`, `Approves` | `loader_system.h` 840–870, `DeviceCodeFlow::begin`, `auth_system.h`, the poll in `main.cpp`, the reader's browser |
| `ModelMenuCache` | `MenuTick` (`Bind`, `Poll`, `PanelClosed`, `TakeDeferred`), `PanelDraws` (`RequestIfStale`), `AskAnswers`, `MenuAges`, `BackoffEnds` | `model_menu_cache.h` whole, its block in the loader and the panel |
| `SettingsSync` | `SyncTick` (`Arms`, `Waits`, `Flushes`), `Edits`, `Elapses`, `PushEnds` | `drive_settings_sync`, the setters of the settings |

A menu is the client it came from and a snapshot is the number of the last change in it: that is
all the properties tell apart. `Switches` replaces the client once more than the app does, because
the cache is written for any number of replacements.

### Kickoff — `api/create_outcome.h` with the composers and the loader
A draft is the set of things typed into it. `Enters` reports the text and leaves it in the field;
`Routes` takes it up a frame later, or refuses it while a create is in flight; `Presses` is the
Send button (and the banner's Retry, which presses it). `Launches` starts the one create;
`CreateEnds` is `create_with_message` on its worker; `Lands` classifies its fate (`Disposition` is
`classify_create`) and hands the text back to the composer, to the thread's composer, or parks it.
A fate is what the server did and what the transport heard of it, chosen when the create starts.
The loader may launch and land in one frame; here these are two frames, with nothing in between
that the code could not do. `Unhurried` says that two gestures of one reader are frames apart.
Left out: staged files, the node and model pickers.

### AskCards — `ecs/ask_card.h` with the loader
An ask belongs to the thread its id begins with. A read is stamped when it is requested; an ask
remembers the stamp of the list that carried it last (`born`) and the newest stamp at the time it
was dropped (`drop`). `Apply` is `apply_attach_asks` whole, behind `Adopted`, the three filters a
list passes (`KeepBusy`, `KeepNewer`, `WithoutDropped`).

| Action | Code |
|---|---|
| `Reads`, `ReadAnswered`, `ReadVanishes`, `ReadLands` | the pane's fetch, the live refetch and the ask refresh, each at most one per thread; `adopt_attach_asks` |
| `TurnStarts`, `TurnHears`, `TurnLands` | the stream of a send, the asks its attach and its frames tell, `adopt_turn_asks` at its end |
| `Types`, `Submits` | the card's field, which stays open while the answer is out; `submit_ask` |
| `Starts`, `AnswerEnds`, `AnswerLands` | the one answer in flight: its launch, `resolve_ask` on the worker, what the loader does with its end |
| `Raises`, `OthersSettle` | the agent asks; another client of the same reader answers |

`TakenUp` is the order within a frame: the panes' fetches land before a pressed answer is
launched, everything else after it. `answered`, and the flag `alone` of a read (no list or answer
changed its thread's card since it was requested), are history. A read may vanish at any moment:
it fails, its tab moves on, or a newer one takes its place.
Left out: the pages and cursors of a form, expiry, the details of a child's questions, how the
composer takes up a text that was kept, and the cap of 32 such texts.

## 3. What is checked

Every property is stated, with the code behaviour it is about, in its module. Each has a mutant in
`PROJECT.json`: a change of the code's logic under which TLC finds it violated.

| Run | Instance | Shows | States |
|---|---|---|---|
| `inbox` | 1 session, 2 writes, 3 server versions, 2 clients, late and lost answers, fair | `ReadYourWrites`, `ShowsWhatServerHeld`, `CurrentClientOnly`, `PendingHasItsWrite`; `AppliedInOrder` across a sign-in; `Converges` if refreshes keep landing | 881 240 |
| `send_threads` | 3 messages in 2 threads, one with files, one edited while queued, a thread that closes, 1 crash (also inside a rewrite), 1 press on Retry each | `OneOwner`, `FileIsInStep`, `InFlightIsReal`, `UnkeyedOnce`, `KeptUntilReported`, and that the path implements `DurableSend` (`KeepsEveryWord`) | 582 174 |
| `send_live` | 4 messages, 3 of them in a thread that may fail for ever, the fourth in a shared one, fair | `QueueDrains`, `NoStarvation`, `QueueInOrder` | 137 013 |
| `panes` | 2 threads in 1 pane, 5 frames of which the fourth makes no row, windows of three, one cached thread, copies and files cut to 2 rows, resumes, failures | `LoadedShowsSelected`, `NotStranded`, `NoHole`, `KeepsNewest` | 344 152 |
| `panes_live` | 1 thread, 4 frames, windows of two, pushed events, failures, one Clear, fair | `HeardIsShown` | 21 642 |
| `halt` | 2 threads, 1 pane, 3 intents, 1 change by an ancestor, failures, fair | `OneWrite`, `QueuedHasReason`, `GateIsShown`, `GateIsWatched`, `WritesComeBack`, and that the app implements `BrakeControl` (`KeepsPromise`) | 345 230 |
| `account` | 2 clients, a cap of one ask, 2 changes, 2 codes, failures, cancel, fair | `NoForeignMenu`, `AsksAreHeld`, `DeferredResumes`, `NoEditForgotten`, `BeginOwnsTheFlow`, `OverlayNeverHangs` | 540 013 |
| `kickoff` | 2 panes, 3 words, 3 creates with any fate | `OneCopy`, `RetryIsSafe`, `NothingDropped` | 205 024 |
| `asks` | 1 thread, 2 asks, fetches and refreshes, a turn, another client, 4 stamps | `StaysBusy`, `AnsweredStaysGone`, `DraftIsKept`, `RefreshSettles` | 2 474 433 |

**The bounds** are small because the hazards are: each needs two messages, two answers, or an
answer and a tab switch to meet.

- Send: three messages in two threads put one ahead in the same thread and one of another thread
  in competition for the slot and the policy. `MaxCopies` bounds the server's count of one file
  message above what `UnkeyedOnce` compares it with. `send_threads` has `Preflight = FALSE`: with
  attempts that fail before anything is sent, `UnkeyedOnce` does not hold (section 4). It has no
  silence and no shared thread either: a text is presumed taken there because of a run that an
  earlier message of its thread started, which is the case that needs two messages. `send_live`
  shares its second thread, and `silent_loss` is silent.
- Inbox: two snoozes of one session, two clients and three versions give a stale snapshot, a
  rollback across a confirmation, and another device's write in between.
- Panes: five frames with pages of three give a resume of two pages that breaks off, and one whose
  last page reaches further back than a copy that was cut to two rows, so that rows get out of
  order and are cut again (`torn`); a frame without a row between two rows keeps row numbers and
  frame numbers apart. A cache of one thread makes every second open a miss. Two panes meet in the
  proofs only, which hold for any number. Threads are symmetric (no property of that run is a
  liveness property). `NotStranded` is checked without presses on Clear, which breaks it
  (section 4).
- Halt: `GuardedMenus = FALSE`, because the rows a menu offers may be those of an older copy; with
  the guard always up to date the serializer would never queue anything. One pane makes the second
  thread's writes end off screen.
- Account: with a cap of one (`kMaxOutstanding` is 4) one orphan fills it. Two codes allow a second
  "Try again" while the first `begin()` is out.
- Asks: two asks let one be dropped while the other is listed; four stamps and two kinds of reads
  let a read outlive the answer, or the read that shows an ask again. The asks are symmetric, and
  deadlock is not checked, because the stamps run out. The third kind of read, the live refetch,
  behaves like the refresh.

Type correctness of `InboxSync`, `TranscriptPanes`, `HaltSerializer`, `Account`, `Kickoff` and `AskCards` is proved
(section 5) and not checked a second time.

**Fairness.** The frame loop takes each of its steps when it can, because a frame comes at least
every few milliseconds while anything is pending; a worker reports, because every wait in it has
a timeout (5 s and 20 s on HTTP, 30 s for an echo, 120 s of silence on a socket); a backoff and a
debounce end; futures become ready. Strong fairness is assumed in two places: of acceptance, for
`Reachable` threads only (a thread that is tried again and again is in the end reached), and of
the sign-in poll's answer, which asks at most once an interval and so is passed over in most
frames. Nothing is assumed of the reader, the server's journal, list refreshes, other devices or
the cap on the files; `Converges` has its refreshes as a hypothesis, `NoStarvation` that no
submission overwrote the slot.

## 4. Where the code and its documents disagree

Three runs check a sentence of the repository and TLC finds a behaviour of the code that breaks
it; the sentences are quoted in `PROJECT.json` under `findings`.

- `silent_loss`: a socket silent for 120 s after the input was written ends like a finished turn,
  and the message leaves the outbox although no echo confirmed it. The run shows this one cause;
  there are two more, without silence: a socket that closes after some text was assembled
  (`agentcloud_client.cpp:2890–2896`), and the end or a question of a run that the input did not
  start (2187, 2195, 2910). `KeptUntilReported` says that a message leaves in no further way.
- `older_rows`: a cached copy cut to its last rows keeps saying that there is nothing older
  (`has_more_older` is not touched by the cut), so the rows before it cannot be reached.
- `row_order`: the reconcile appends every row the held copy lacks, also one older than those held.
  When a copy was cut to its newest rows and the page of the next resume reaches further back, older
  rows are shown and saved after newer ones, and the next cut to the last rows keeps the wrong ones.

Met while modelling, and not given a run of their own. Properties that would be affected say so
in their statement or in a bound named above.

- Send. Two held texts of one thread: while the older backs off the younger is retried first
  (`outbox.h:118`). A file message that failed before its upload stays retryable after a later
  attempt ended unknown (`outbox.h:196`). A submission between `drive_outbox` and START takes the
  slot from a retry, whose key then stays in flight, or replaces a message that waits in memory
  only (`main_pane_system.h:9079`); while the slot waits, the next submission to its thread passes
  what is queued (`loader_system.h:2368`). `InFlightIsReal`, `QueueInOrder` and `NoStarvation`
  name the overwritten slot where it matters.
- Transcripts. A live refetch that lands while the older rows, read before the event, still load is
  folded into the cached copy only, and the older rows then land over the pane without the new row;
  the flag is gone (`loader_system.h:2634`). So `HeardIsShown` is checked without reads of older
  rows. The cut of a file, and the fold into a cut copy, lose `has_more_older` as well. Clear in Settings drops the disk read a pane waits for and never
  starts the fetch (`components.h:559`). A full fetch that was answered earlier may overwrite a
  newer cached copy, and with pushed events the newer rows of the pane: `NewestStays` supposes a
  backend that pushes none. A resume that broke off in pages without a row blanks the pane. A failed live
  refetch loses the event; `HeardIsShown` excepts it. Reaping a subscription with a refetch in
  flight waits for the call in the future's destructor.
- Kickoff. The routing a frame after Enter clears what came into the field since
  (`main_pane_system.h:9082`; `NothingDropped` excepts it); Enter in one pane and Send in another
  within a frame overwrite the one request; the Enter path does not clear the restore banner; a
  crash during a create loses the text, which is in no file (`loader_system.h:1246`).
- Halt. An attach answered before a write and landing after it opens the gate and can settle a
  queued intent by an old picture; reobserving reaches only a pane that shows the thread, and a
  later cache hit attaches nothing, so the gate of an off-screen thread may stay closed. A confirmed
  write leaves the last observation as it was (`halt_state.h:182`, `loader_system.h:1471`), so an
  intent to the contrary that was kept meanwhile can be dropped as satisfied already
  (`halt_state.h:230`): a thread that was seen running, is halted, and is resumed before the echo
  stays halted. `tests/unit/test_halt_state.cpp:144` expects such an intent to go out, and
  passes because it hands `settled` a fresh observation, which the loader does not. It takes a raise
  while a write is in flight, which the menus' own guard mostly prevents. `KeepsPromise` allows it.
- Asks. An ask kept by `keep_newer_asks` against an older list is then stamped with that list's
  age (`ask_card.h:135`), so a second list that old retires a live ask, against the comment
  (`ask_card.h:107`). A drop stamp outlives the drop: a list older than the read that showed the
  ask again takes it away, also under an answer in flight (`StaysBusy` excepts it), and an empty
  list hides a live ask from reads that were already asked for (`components.h:1471`). The list of a
  turn is stamped when it lands (`loader_system.h:3005`), so it can bring back an ask that was
  answered meanwhile; `AnsweredStaysGone` excepts it. All of this lasts until the next sweep,
  every 20 seconds for a thread on screen. The answer of another client of the same user counts
  as this one's, and what was typed here goes with it (`elicitation.h:477`). The field stays open
  while the answer is out, and what is typed into it then is neither sent nor parked when the answer
  ends "ok" (`components.h:1498`, `ask_card.h:146`). `DraftIsKept` excepts an answer that ends "ok".
- Account. The debounce runs from the first change, not from the last (`loader_system.h:2428`); a
  failed push is not repeated; one preference setter does not mark the settings. The overlay reads
  the flow while `begin()` writes it, and a second "Try again" mints a second code;
  `BeginOwnsTheFlow` is about writes. "Continue offline" in the frame in which a poll succeeds
  still signs in. The model panel opened while its thread loads asks nothing until it is opened
  again.

## 5. What is proved

Eight modules of proofs, checked by TLAPS with no unproved step, for every value of the constants
that their named ASSUMEs allow.

| Module | Theorem | Statement |
|---|---|---|
| `InboxSyncProofs` | `TypeCorrect` | `Spec => []TypeOK` |
| | `NoConfirmedSnoozeIsUndone` | `Spec => []ReadYourWrites` |
| | `SettledRowsAreReal` | `Spec => []ShowsWhatServerHeld` |
| | `OldClientsAreSilent` | `Spec => []CurrentClientOnly` |
| | `NoOrphanedIntent` | `Spec => []PendingHasItsWrite` |
| | `WritesApplyInOrder` | `Spec => AppliedInOrder` |
| `SendPipelineProofs` | `TypeCorrect` | `Spec => []TypeOK` |
| | `NothingSentTwice` | `Spec => []OneOwner` |
| | `FileFollowsProcess` | `Spec => []FileIsInStep` |
| | `NeverBlockedByNobody` | `Spec => []InFlightIsReal` |
| | `UnkeyedGoesOnce` | `Streaming /\ ~Preflight => (Spec => []UnkeyedOnce)` |
| | `QueueKeepsOrder` | `Spec => QueueInOrder` |
| | `KeptUntilTaken` | `Spec => KeptUntilReported` |
| | `EveryWordIsKept` | `Spec => KeepsEveryWord`, the refinement of `DurableSend` |
| `TranscriptPanesProofs` | `NoForeignLoad` | `Spec => []LoadsAreForTheSelected` |
| | `PaintsTheSelected` | `Spec => []LoadedShowsSelected` |
| | `NeverStranded` | `MaxClears = 0 /\ Spec => []NotStranded` |
| `TranscriptRowsProofs` | `TypeCorrect` | `Spec => []TypeOK` |
| | `NoRowMissing` | `Spec => []NoHole` |
| | `NewestStays` | `~Events /\ Spec => KeepsNewest` |
| `HaltSerializerProofs` | `TypeCorrect` | `Spec => []TypeOK` |
| | `OneWritePerThread` | `Spec => []OneWrite` |
| | `NothingForgotten` | `Spec => []QueuedHasReason` |
| | `GateAndCaption` | `Spec => []GateIsShown` |
| | `ClosedGateIsWatched` | `Spec => GateIsWatched` |
| | `Implements` | `Spec => KeepsPromise`, the refinement of `BrakeControl` |
| `AccountProofs` | `TypeCorrect` | `Spec => []TypeOK` |
| | `MenuIsTheClients` | `Spec => []NoForeignMenu` |
| | `NoAskIsLost` | `Spec => []AsksAreHeld` |
| | `EveryEditAccountedFor` | `Spec => []NoEditForgotten` |
| | `WorkerOwnsTheFlow` | `Spec => BeginOwnsTheFlow` |
| `KickoffProofs` | `TypeCorrect` | `Spec => []TypeOK` |
| | `OnePlace` | `Spec => []OneCopy` |
| | `RetryDoublesNothing` | `Spec => []RetryIsSafe` |
| | `TypedIsKept` | `Spec => NothingDropped` |
| `AskCardsProofs` | `TypeCorrect` | `Spec => []TypeOK` |
| | `UnderAnswer` | `Spec => StaysBusy` |
| | `AnsweredIsOver` | `Spec => AnsweredStaysGone` |
| | `TypedIsKept` | `Spec => DraftIsKept` |
| | `QuietReadSettles` | `Spec => RefreshSettles` |

**InboxSync.** A row changes in three ways: to what an intent remembers (rollback), to what a
snapshot holds (refresh), to what an echo says (confirmation). The inductive `IInv` says of each
of the three *while it is in flight* what the row needs when it lands: `RowsInv` that the row a
current intent remembers was settled and nothing has been confirmed for its session since;
`ReadsInv` that a current snapshot is as new as every confirmation with an epoch up to the read's
own; `ServerInv` that an echo names a row the server has held. `TicketsInv` and `OneCallInv` make
the calls distinguishable; `WireInv` says that a write on the wire whose call has not given up is
the one being waited for, and the newest, so that only a call that timed out can be overtaken.

**SendPipeline.** None of the properties is inductive alone. `IInv` says:

- `ListsOK`: the queue, the policy's entries and each thread's file are lists without repetition,
  the queue in the order of typing, and the cursor points into the entries. The lemmas about
  `Append`, `RemoveAt`, `RemoveFirstMatch` and `FlattenSeq` on such lists are proved first; for
  `FlattenSeq`, which the outbox is read back with, through a least counterexample.
- `PlacesOK`, `FreshOK`, `EmptyOK`: a queued message is nowhere else, so neither a retry nor a press
  names it; what is not typed yet is nowhere; a new process holds nothing until it has read the
  file. `OneOwner` needs all three.
- `FileOK`, `InFlightOK`: the file and the process in step, and what blocks the policy is on its
  way or was overwritten in the slot.
- `CreditOK`: of a message with files, the copies the server took and the claims to post it once
  more (still to be typed, in the slot, in the queue, at the worker, asked for by a press) are at
  most one more than the presses on Retry. Every step passes claims on, spends one, or is a press.
- `AnswerOK`, `OrderOK`: what a report says of the server's journal (accepted, the text was taken;
  presumed, `MayPresume` holds of it); and whatever of a thread is
  under way or held was typed before what waits in its queue.

`UnkeyedGoesOnce` supposes the client with streaming (another client's failures lose their kind,
and are retried unasked) and no attempt that fails before anything is sent. `KeptUntilTaken` and
`EveryWordIsKept` suppose nothing: the reports of turns that are not the message's own are in the
model, and named in what is proved. That they never happen to an untaken message is what
`SilentLoss.cfg` refutes.

The refinement needs three facts more (`DurableOK`): what was handed back was typed; what is in the
slot and not in the file was never settled, so that memory is where it is; and what a press on Retry
names is not a message that is in the slot only, so that taking it up is an abstract step.
`FileAfter` says what each of the three ways to write the file does to the set of messages in it.
Then `Start` is `Saves` (or a stutter, for a message that is in the file already), the three ways to
leave the file are `Settles`, `Presumes` and `HandsBack`, the crashes are `Dies`, and everything the
process moves between its own lists is a stutter by one lemma (`QuietStutters`), because `FileOK`
has it in the file all along.
`KeepsEveryWord` says more than `KeptUntilReported`: it also forbids a send before the save, a
return into the file without a press, a second copy without a key or a press, and a loss of more
than one message in memory and one in a rewrite by any one step.

**TranscriptPanes.** `LoadsAreForTheSelected` is what makes a landing paint the right thread: every
tab switch cancels what is out. `LoadsInv` adds that a reply carries the thread it was asked for,
and `CopiesInv` that a cached or saved copy is filed under its own. It also shows that the loader's tests of
`selectedId` at a landing, and its branch for a fetch that lands elsewhere, are a second line of
defence that nothing reaches. `StrandedInv` adds that a fetch waits only for a read that is out.

*Rows.* `Only`, which filters rows, is a recursive function; `OnlyFacts` finds out what it computes
by a least counterexample, as no induction theorem can be used. `Typed` then says of every
transcript that is shown, cached, saved or under way that it has each row once and, unless it is
`torn`, that its rows are all the rows between its oldest and its newest (`Whole`); a server's reply
is moreover in order. Each way to put transcripts together keeps that: two whole sets of rows that
share one have a whole union, a cut of rows in order leaves a whole set, and a reply without a row
in common replaces what was held. `NoHole` and `TypeOK` are read off it.

*The newest row* (`NewestInv`). A reply could take the newest row only if it shared no row with the
pane and was older, and `FetchCatchesUp` excludes that while it is out: `Behind` (nobody has a row
the server had not), `OneTab` (a thread is shown in one pane, so nobody else writes its file
meanwhile), `ReadAlone` (a fetch that runs beside a disk read began when there was no file),
`OlderFromStart` (older rows come whole) and `Quiet` (no live refetch writes behind the pane's back).

**HaltSerializer.** `QueueOK` (the queue holds one entry per thread, none of them the thread in
flight), `WorkerOK` (a worker runs for the write in flight and nothing else) and `SerializersOK` (a
busy serializer has its entry, with its ticket) are needed for one another: a settle finds the
right serializer only if the queue was right, and pushes one entry only if there was none. Every
action then maps to one abstract action or a stutter. `GateIsWatched` follows from `OutcomesClose`:
an intent, an attach and a frame leave a gate as it is or open it, so only a landing outcome closes
one, and that action reobserves.

**Account.** `Good` says of a cache that all it holds is its client's and orphans are older; each
operation of the cache has a lemma that it keeps `Good` and lets go only of asks that ended, so
what runs is what is held. `SyncInv` speaks of the push that is out: it carries the last change
if nothing is dirty. `CodesLeft` counts the codes the buttons may still mint.

**Kickoff.** What Enter reported stays in the field until it is routed, so the invariant
(`SubmitOK`) says what the field holds meanwhile; all other places are disjoint.

**AskCards.** The properties compare a list with what happened since it was asked for, so the
invariant speaks of every read that is out. `AnsweredOK`: a read that lists an ask whose answer has
ended was requested before the drop, so its stamp is not above the ask's drop stamp. `AloneOK`: a
read that nothing overtook is newer than every stamp of its thread's asks, so no filter touches
its list. `CallOK` ties the busy card to the answer in flight, `TextsOK` what is typed to a card,
`StampsOK` every stamp to the counter, `ListsOK` every list to its thread.

Only model-checked: the liveness properties `Converges`, `QueueDrains`, `NoStarvation`,
`HeardIsShown`, `WritesComeBack`, `DeferredResumes` and `OverlayNeverHangs`, because fairness and
ENABLED are outside the prover. Every invariant and every action property of a passing run is a
theorem.

## 6. Plan

1. Steering into a running turn, and the forks of a thread, beside the send pipeline.
2. `CreatedAtWalk`, and the background writer of the disk cache with the wipe between two writes.
3. Tab groups, the follow latch and the snooze wake as operators over bounded inputs.

**Not modelled.** The settings file and the bearer (plain reads and saves of one value); request
formatting of the clients; layout and drawing, whose requests are the reader's actions in the
models; the scripted end-to-end commands and the mock client (test drivers); search and text
utilities (no state); the knots, memory and companion panels (fetch and show); vendored code and
the native shell. What is left out of a component that is modelled is named with it in section 2
and in its note in `PROJECT.json`. The interface code is most of the repository by far, so the
modelled lines are a small share of it: they are the ones in which the order of steps matters.
