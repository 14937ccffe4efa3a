--------------------------- MODULE TranscriptPanes ---------------------------
(***************************************************************************)
(* What a pane shows of a thread, and every read that can land on it: the  *)
(* memory cache of recent transcripts, the copy on disk, the network fetch *)
(* of an open, the fetch of the older rows, and the background refetch a   *)
(* live event starts.  From ecs/loader_system.h (service_pane,             *)
(* drive_load_older, drive_live_events, sync_subscriptions),               *)
(* ecs/transcript_reconcile.h, ecs/transcript_cache.h, ui/open_fetch.h,    *)
(* api/resume_paging.h and the tab switches of ecs/tab_model.h.            *)
(*                                                                         *)
(* The server's journal of a thread is its frames 1 .. journal[t]; the     *)
(* frames of RowSeqs make a row of the transcript, and a row is its frame. *)
(* The frame loop is single threaded: one action is one landing, with all  *)
(* it writes.  Reads run on workers: starting, being answered and landing  *)
(* are separate steps, and the server may grow between any two of them.    *)
(***************************************************************************)
EXTENDS Naturals, Sequences, FiniteSets

CONSTANTS
    Threads,      \* threads of the server
    Panes,        \* panes on screen
    NoThread,     \* a pane at Home, and "nothing pending"
    Surface,      \* the Settings tab: selected like a thread, with nothing behind it
    MaxSeq,       \* bound: frames of one journal
    InitSeq,      \* frames each journal starts with
    RowSeqs,      \* the frames that make a row
    Window,       \* kMessagesWindow, and the size of a resume's pages
    CacheRows,    \* kCacheMaxMessagesPerThread
    KeepTail,     \* keep_tail: rows the cap on the files leaves of one
    CacheThreads, \* kCacheMaxThreads, which bounds the live subscriptions too
    Resumes,      \* the backend reads from a cursor (agentcloud); else newest window (http)
    Events,       \* the backend pushes live events (http)
    DiskOn,       \* disk_cache_enabled
    MayFail,      \* may requests fail?
    MayReadOlder, \* does the reader scroll up for older rows?
    MaxClears     \* bound: presses on Clear in Settings

Seqs == 1 .. MaxSeq

ASSUME ThreadsAssumption == NoThread \notin Threads /\ Surface \notin Threads
                            /\ NoThread # Surface
ASSUME SizesAssumption == /\ MaxSeq \in Nat /\ InitSeq \in 0 .. MaxSeq /\ MaxClears \in Nat
                          /\ {Window, CacheRows, KeepTail, CacheThreads} \subseteq Nat \ {0}
ASSUME RowsAssumption == RowSeqs \subseteq Seqs
ASSUME FlagsAssumption == {Resumes, Events, DiskOn, MayFail, MayReadOlder} \subseteq BOOLEAN

VARIABLES
    journal,    \* server: frames of each thread
    selected,   \* Pane::selectedId
    open,       \* Pane::openSession; NoSession when reset
    state,      \* Pane::transcriptState
    waits,      \* Pane::transcriptFetchWaitsForDisk
    fetch,      \* Pane::transcriptFuture, PendingId, PendingSince
    reading,    \* Pane::diskReadFuture, Id, Epoch
    older,      \* Pane::loadOlderFuture, PendingId
    cache,      \* TranscriptCache: the copy of a thread and its rank, 1 = most recent
    disk,       \* the transcript files
    epoch,      \* disk_cache::epoch
    kept,       \* threads with a kept tab
    live        \* liveSubs

pane == <<selected, open, state, waits, fetch, reading, older>>
copies == <<cache, disk>>
vars == <<journal, pane, copies, epoch, kept, live>>

\* `torn` is history: rows that were not oldest first were cut to the last ones.
Session(t, rows, more, torn) == [id |-> t, rows |-> rows, more |-> more, torn |-> torn]
NoSession == Session(NoThread, <<>>, FALSE, FALSE)
Sessions == [id : Threads, rows : Seq(RowSeqs), more : BOOLEAN, torn : BOOLEAN]
Absent == [copy |-> NoSession, rank |-> 0]

\* A request on a worker: sent, then answered or failed.
LoadAt(t, since, at, reply) == [to |-> t, since |-> since, at |-> at, reply |-> reply]
NoLoad == LoadAt(NoThread, 0, "none", NoSession)
Load(t, since) == LoadAt(t, since, "sent", NoSession)
Pending(l) == l.to # NoThread

Read(t, e, done, copy) == [to |-> t, epoch |-> e, done |-> done, copy |-> copy]
NoRead == Read(NoThread, 0, FALSE, NoSession)
Reading(p) == reading[p].to # NoThread

Sub(on, dirty, load) == [on |-> on, dirty |-> dirty, load |-> load]
NoSub == Sub(FALSE, FALSE, NoLoad)

Init ==
    /\ journal = [t \in Threads |-> InitSeq]
    /\ selected = [p \in Panes |-> NoThread]
    /\ open = [p \in Panes |-> NoSession]
    /\ state = [p \in Panes |-> "idle"]
    /\ waits = [p \in Panes |-> FALSE]
    /\ fetch = [p \in Panes |-> NoLoad]
    /\ reading = [p \in Panes |-> NoRead]
    /\ older = [p \in Panes |-> NoLoad]
    /\ cache = [t \in Threads |-> Absent]
    /\ disk = [t \in Threads |-> NoSession]
    /\ epoch = 0
    /\ kept = {}
    /\ live = [t \in Threads |-> NoSub]

(***************************************************************************)
(* Transcripts.                                                            *)
(***************************************************************************)
RowSet(rows) == {rows[i] : i \in DOMAIN rows}
OldestFirst(rows) == \A i, j \in DOMAIN rows : i < j => rows[i] < rows[j]

\* The rows that are in some set, in their order.
Only(rows, some) ==
    LET upTo[i \in 0 .. Len(rows)] ==
            IF i = 0 THEN <<>>
            ELSE IF rows[i] \in some THEN Append(upTo[i - 1], rows[i]) ELSE upTo[i - 1]
    IN upTo[Len(rows)]

\* install_paged_transcript: the rows of the frames lo .. hi.
RowsIn(lo, hi) == Only([n \in 1 .. hi |-> n], RowSeqs \cap lo .. hi)
Newest(rows) == IF rows = <<>> THEN 0 ELSE rows[Len(rows)]

\* newest_seq: a backend without seqs has no cursor to read from.
Cursor(rows) == IF Resumes THEN Newest(rows) ELSE 0

\* cap_messages, trim_transcript_file: the last rows are kept, has_more_older is
\* not touched.
LastRows(s, n) ==
    IF Len(s.rows) <= n THEN s
    ELSE Session(s.id, SubSeq(s.rows, Len(s.rows) - n + 1, Len(s.rows)), s.more,
                 s.torn \/ ~OldestFirst(s.rows))
Cut(s) == LastRows(s, CacheRows)

\* reconcile_transcript: the unseen rows go to the end in the reply's order;
\* a reply with no row in common replaces the held rows.
Shares(held, fresh) == RowSet(held) \cap RowSet(fresh) # {}
Unseen(held, fresh) == Only(fresh, RowSet(fresh) \ RowSet(held))
ReconcileAppends(held, fresh) == held \o Unseen(held, fresh)
Reconcile(held, fresh) ==
    IF Shares(held, fresh) THEN held \o Unseen(held, fresh) ELSE fresh

Spliced(held, fresh, more) ==
    Session(held.id, Reconcile(held.rows, fresh.rows), more,
            IF Shares(held.rows, fresh.rows) THEN held.torn ELSE fresh.torn)

\* The reply folded into a copy nobody sees: has_more_older stays the copy's.
Fold(held, fresh) == Spliced(held, fresh, held.more)

\* land_refetch
LandedOver(mine, fresh) == fresh
Landed(mine, fresh) ==
    IF mine.id # fresh.id THEN fresh
    ELSE Spliced(mine, fresh, IF Shares(mine.rows, fresh.rows) THEN mine.more ELSE fresh.more)

(***************************************************************************)
(* The memory cache and the files.                                         *)
(***************************************************************************)
Held(t) == cache[t].rank # 0

\* touch_locked, and the push_front of a new entry.
Moved(c, t, u) ==
    LET ahead == c[t].rank = 0 \/ c[u].rank < c[t].rank
    IN IF u = t THEN 1
       ELSE IF c[u].rank # 0 /\ ahead THEN c[u].rank + 1 ELSE c[u].rank

Touch(c, t) == [u \in Threads |-> [copy |-> c[u].copy, rank |-> Moved(c, t, u)]]

\* TranscriptCache::put, with evict_lru.
Put(c, s) ==
    [u \in Threads |->
        IF u = s.id THEN [copy |-> Cut(s), rank |-> 1]
        ELSE IF Moved(c, s.id, u) > CacheThreads THEN Absent
        ELSE [copy |-> c[u].copy, rank |-> Moved(c, s.id, u)]]

\* save_and_trim.  The writer's queue is read through, so a save is seen at once.
Save(d, s) == IF DiskOn THEN [d EXCEPT ![s.id] = s] ELSE d

\* put and save_and_trim always come together.
Keep(s) == /\ cache' = Put(cache, s)
           /\ disk' = Save(disk, s)

(***************************************************************************)
(* What the server answers: its journal at the moment of the answer.       *)
(***************************************************************************)
Reply(t, lo, more) == Session(t, RowsIn(lo, journal[t]), more, FALSE)

\* The oldest frame of the first k pages, newest first.
PageStart(t, k) == IF journal[t] > k * Window THEN journal[t] - k * Window + 1 ELSE 1

FullReply(t) == Reply(t, PageStart(t, 1), journal[t] > Window)
WholeReply(t) == Reply(t, 1, FALSE)

\* after_page, on_page_error: a resume pages back until it reaches the cursor;
\* a page that fails keeps the pages before it and reports more.
ResumeReplies(t, since) ==
    LET Reaches(k) == PageStart(t, k) <= since
        Wanted(k) == \A j \in 1 .. k - 1 : ~Reaches(j)
    IN {Reply(t, PageStart(t, k), ~Reaches(k) \/ PageStart(t, k) > 1) :
            k \in {k \in Seqs : Wanted(k) /\ (Reaches(k) \/ MayFail)}}

\* get_session(id, window), or get_session_since when there is a cursor.
Answers(t, since) ==
    IF Resumes /\ since # 0 THEN ResumeReplies(t, since) ELSE {FullReply(t)}

\* What an asynchronous request may turn into.
Outcomes(load, replies) ==
    {LoadAt(load.to, load.since, "answered", r) : r \in replies}
    \cup {l \in {LoadAt(load.to, load.since, "failed", NoSession)} : MayFail}

(***************************************************************************)
(* The reader.                                                             *)
(***************************************************************************)
Showing(p, t) == selected[p] = t
Shown(t) == \E p \in Panes : Showing(p, t)

\* supersede_transcript_loads, then selectedId; the loader serves the request
\* before anything else can land.
Selects(p, t) ==
    /\ selected' = [selected EXCEPT ![p] = t]
    /\ older' = [older EXCEPT ![p] = NoLoad]

\* A cache hit is painted at once and nothing is fetched.
Hits(p, t) ==
    /\ Held(t)
    /\ cache' = Touch(cache, t)
    /\ open' = [open EXCEPT ![p] = cache[t].copy]
    /\ state' = [state EXCEPT ![p] = "loaded"]
    /\ waits' = [waits EXCEPT ![p] = FALSE]
    /\ fetch' = [fetch EXCEPT ![p] = NoLoad]
    /\ reading' = [reading EXCEPT ![p] = NoRead]

\* A miss starts the disk read, and the network fetch unless it waits for the
\* disk's cursor (open_fetch_plan).  The pane keeps the session it showed.
Misses(p, t) ==
    LET waiting == DiskOn /\ disk[t] # NoSession
    IN /\ ~Held(t)
       /\ state' = [state EXCEPT ![p] = "loading"]
       /\ waits' = [waits EXCEPT ![p] = waiting]
       /\ fetch' = [fetch EXCEPT ![p] = IF waiting THEN NoLoad ELSE Load(t, 0)]
       /\ reading' = [reading EXCEPT ![p] =
              IF DiskOn THEN Read(t, epoch, FALSE, NoSession) ELSE NoRead]
       /\ UNCHANGED <<open, cache>>

\* open_session_in_tab, switch_to_tab, retarget_split_pane, "Try again".  A
\* thread has one tab, so it is in one pane.
Opens(p, t) ==
    /\ \A q \in Panes \ {p} : ~Showing(q, t)
    /\ Selects(p, t)
    /\ Hits(p, t) \/ Misses(p, t)
    /\ kept' = kept \cup {t}
    /\ UNCHANGED <<journal, disk, epoch, live>>

Drops(p) ==
    /\ open' = [open EXCEPT ![p] = NoSession]
    /\ waits' = [waits EXCEPT ![p] = FALSE]
    /\ fetch' = [fetch EXCEPT ![p] = NoLoad]
    /\ reading' = [reading EXCEPT ![p] = NoRead]

\* The Settings tab: the session and the reads go, transcriptState stays.
ShowsSettings(p) ==
    /\ \A q \in Panes : ~Showing(q, Surface)
    /\ Selects(p, Surface) /\ Drops(p)
    /\ UNCHANGED <<journal, state, copies, epoch, kept, live>>

\* request_close of the last tab of a pane: reset_pane_to.  With another tab
\* left the pane opens that one.
ClosesLast(p) ==
    /\ selected[p] # NoThread
    /\ Selects(p, NoThread) /\ Drops(p)
    /\ state' = [state EXCEPT ![p] = "idle"]
    /\ kept' = kept \ {selected[p]}
    /\ UNCHANGED <<journal, copies, epoch, live>>

ClosesHidden(t) ==
    /\ t \in kept /\ ~Shown(t)
    /\ kept' = kept \ {t}
    /\ UNCHANGED <<journal, pane, copies, epoch, live>>

\* Near the top of what is shown: requestLoadOlder, taken by drive_load_older.
AsksOlder(p) ==
    /\ MayReadOlder
    /\ selected[p] \in Threads /\ open[p].id = selected[p] /\ state[p] # "error"
    /\ open[p].more /\ ~Pending(older[p])
    /\ older' = [older EXCEPT ![p] = Load(selected[p], 0)]
    /\ UNCHANGED <<journal, selected, open, state, waits, fetch, reading, copies, epoch, kept, live>>

\* "Clear" in Settings: clear_transcript_cache drops every pane's disk read,
\* wipe_all_report the files.
ClearsCache ==
    /\ Shown(Surface) /\ epoch < MaxClears
    /\ cache' = [t \in Threads |-> Absent]
    /\ disk' = [t \in Threads |-> NoSession]
    /\ epoch' = epoch + 1
    /\ reading' = [p \in Panes |-> NoRead]
    /\ UNCHANGED <<journal, selected, open, state, waits, fetch, older, kept, live>>

(***************************************************************************)
(* service_pane: the disk read and the fetch of an open.                   *)
(***************************************************************************)
DiskAnswers(p) ==
    /\ Reading(p) /\ ~reading[p].done
    /\ reading' = [reading EXCEPT ![p] = Read(@.to, @.epoch, TRUE, disk[@.to])]
    /\ UNCHANGED <<journal, selected, open, state, waits, fetch, older, copies, epoch, kept, live>>

\* accepts_disk_read, and a read that found the thread.
AcceptsDisk(p) ==
    LET r == reading[p]
    IN r.copy # NoSession /\ selected[p] = r.to /\ r.epoch = epoch /\ state[p] # "loaded"

\* The fetch that waited starts now, from the copy's cursor if it was accepted.
StartsFromCopy(p) == waits[p] /\ AcceptsDisk(p)
Starts(p) == waits[p] /\ selected[p] = reading[p].to

DiskLands(p) ==
    LET r == reading[p]
        since == IF AcceptsDisk(p) THEN Cursor(r.copy.rows) ELSE 0
    IN /\ r.done
       /\ reading' = [reading EXCEPT ![p] = NoRead]
       /\ waits' = [waits EXCEPT ![p] = waits[p] /\ ~Starts(p)]
       /\ fetch' = [fetch EXCEPT ![p] = IF Starts(p) THEN Load(r.to, since) ELSE @]
       /\ IF AcceptsDisk(p)
          THEN /\ cache' = Put(cache, r.copy)
               /\ open' = [open EXCEPT ![p] = r.copy]
               /\ state' = [state EXCEPT ![p] = "loaded"]
          ELSE UNCHANGED <<cache, open, state>>
       /\ UNCHANGED <<journal, selected, older, disk, epoch, kept, live>>

FetchAnswered(p) ==
    /\ fetch[p].at = "sent"
    /\ \E l \in Outcomes(fetch[p], Answers(fetch[p].to, fetch[p].since)) :
           fetch' = [fetch EXCEPT ![p] = l]
    /\ UNCHANGED <<journal, selected, open, state, waits, reading, older, copies, epoch, kept, live>>

\* A full answer replaces the kept copies, a delta is folded into them: into
\* the pane's session when it lands there, else into the cached copy.
FetchLands(p) ==
    LET f == fetch[p]
        here == selected[p] = f.to
        shown == Landed(open[p], f.reply)
    IN /\ f.at = "answered"
       /\ fetch' = [fetch EXCEPT ![p] = NoLoad]
       /\ IF f.since = 0 THEN Keep(f.reply)
          ELSE IF here THEN Keep(shown)
          ELSE IF Held(f.to) THEN Keep(Fold(cache[f.to].copy, f.reply))
          ELSE UNCHANGED copies
       /\ open' = [open EXCEPT ![p] = IF here THEN shown ELSE @]
       /\ state' = [state EXCEPT ![p] = IF here THEN "loaded" ELSE @]
       /\ UNCHANGED <<journal, selected, waits, reading, older, epoch, kept, live>>

\* A thread that is shown already stays shown.
FailedAsLoaded(keeps) == "loaded"
FailedState(keeps) == IF keeps THEN "loaded" ELSE "error"

FetchFails(p) ==
    LET f == fetch[p]
        keeps == open[p].id = f.to
    IN /\ f.at = "failed"
       /\ fetch' = [fetch EXCEPT ![p] = NoLoad]
       /\ IF selected[p] = f.to
          THEN /\ state' = [state EXCEPT ![p] = FailedState(keeps)]
               /\ open' = [open EXCEPT ![p] = IF keeps THEN @ ELSE NoSession]
          ELSE UNCHANGED <<state, open>>
       /\ UNCHANGED <<journal, selected, waits, reading, older, copies, epoch, kept, live>>

(***************************************************************************)
(* drive_load_older: the whole thread, over what the pane shows.           *)
(***************************************************************************)
OlderAnswered(p) ==
    /\ older[p].at = "sent"
    /\ \E l \in Outcomes(older[p], {WholeReply(older[p].to)}) :
           older' = [older EXCEPT ![p] = l]
    /\ UNCHANGED <<journal, selected, open, state, waits, fetch, reading, copies, epoch, kept, live>>

OlderLands(p) ==
    /\ older[p].at = "answered"
    /\ older' = [older EXCEPT ![p] = NoLoad]
    /\ IF selected[p] = older[p].to
       THEN /\ Keep(older[p].reply)
            /\ open' = [open EXCEPT ![p] = older[p].reply]
            /\ state' = [state EXCEPT ![p] = "loaded"]
       ELSE UNCHANGED <<copies, open, state>>
    /\ UNCHANGED <<journal, selected, waits, fetch, reading, epoch, kept, live>>

OlderFails(p) ==
    /\ older[p].at = "failed"
    /\ older' = [older EXCEPT ![p] = NoLoad]
    /\ UNCHANGED <<journal, selected, open, state, waits, fetch, reading, copies, epoch, kept, live>>

(***************************************************************************)
(* Live events.  drive_live_events debounces a refetch by a second, and by *)
(* fifteen behind another tab: here it takes any time.                     *)
(***************************************************************************)
\* live_hot_set: kept threads, those on screen first, then by recency.
Hot(t) ==
    /\ t \in kept
    /\ \/ Shown(t)
       \/ /\ Held(t)
          /\ Cardinality({u \in kept : Shown(u) \/ (Held(u) /\ cache[u].rank < cache[t].rank)})
                < CacheThreads

\* sync_subscriptions.  A subscription that is reaped takes its refetch along.
Syncs ==
    /\ Events
    /\ live' = [t \in Threads |-> IF ~Hot(t) THEN NoSub
                                  ELSE IF live[t].on THEN live[t]
                                  ELSE Sub(TRUE, FALSE, NoLoad)]
    /\ live' # live
    /\ UNCHANGED <<journal, pane, copies, epoch, kept>>

\* The newest row held: the pane's, else the cached copy's.
LiveSince(t) ==
    LET showing == {p \in Panes : Showing(p, t) /\ open[p].id = t}
        shown == IF showing = {} THEN 0 ELSE Cursor(open[CHOOSE p \in showing : TRUE].rows)
    IN IF shown = 0 /\ Held(t) THEN Cursor(cache[t].copy.rows) ELSE shown

\* The flag is cleared before the refetch is sent.
LiveStarts(t) ==
    /\ live[t].dirty /\ ~Pending(live[t].load)
    /\ live' = [live EXCEPT ![t] = Sub(@.on, FALSE, Load(t, LiveSince(t)))]
    /\ UNCHANGED <<journal, pane, copies, epoch, kept>>

LiveAnswered(t) ==
    /\ live[t].load.at = "sent"
    /\ \E l \in Outcomes(live[t].load, Answers(t, live[t].load.since)) :
           live' = [live EXCEPT ![t] = Sub(@.on, @.dirty, l)]
    /\ UNCHANGED <<journal, pane, copies, epoch, kept>>

\* Events heard since the refetch was sent keep the flag raised.
LandsQuiet(s) == Sub(s.on, FALSE, NoLoad)
Lands(s) == Sub(s.on, s.dirty, NoLoad)

\* On the pane that shows the thread, unless it is loading its older rows.
LiveLandsShown(t, p) ==
    LET shown == Landed(open[p], live[t].load.reply)
    IN /\ live[t].load.at = "answered"
       /\ Showing(p, t) /\ ~Pending(older[p])
       /\ live' = [live EXCEPT ![t] = Lands(@)]
       /\ open' = [open EXCEPT ![p] = shown]
       /\ state' = [state EXCEPT ![p] = "loaded"]
       /\ Keep(shown)
       /\ UNCHANGED <<journal, selected, waits, fetch, reading, older, epoch, kept>>

\* Else folded into the cached copy, or kept as it is.
LiveLandsHidden(t) ==
    LET reply == live[t].load.reply
    IN /\ live[t].load.at = "answered"
       /\ ~\E p \in Panes : Showing(p, t) /\ ~Pending(older[p])
       /\ live' = [live EXCEPT ![t] = Lands(@)]
       /\ Keep(IF Held(t) THEN Fold(cache[t].copy, reply) ELSE reply)
       /\ UNCHANGED <<journal, pane, epoch, kept>>

LiveFails(t) ==
    /\ live[t].load.at = "failed"
    /\ live' = [live EXCEPT ![t] = Lands(@)]
    /\ UNCHANGED <<journal, pane, copies, epoch, kept>>

(***************************************************************************)
(* The server, and the disk's own bound.                                   *)
(***************************************************************************)
\* A frame is appended; the sink of a live subscription only raises a flag.
Appends(t) ==
    /\ journal[t] < MaxSeq
    /\ journal' = [journal EXCEPT ![t] = @ + 1]
    /\ live' = [live EXCEPT ![t] = Sub(@.on, @.dirty \/ @.on, @.load)]
    /\ UNCHANGED <<pane, copies, epoch, kept>>

\* trim_to_cap: a file is cut to its last rows, or goes when that is all it has.
Trims(t) ==
    /\ disk[t] # NoSession
    /\ disk' = [disk EXCEPT ![t] = IF Len(@.rows) > KeepTail THEN LastRows(@, KeepTail)
                                    ELSE NoSession]
    /\ UNCHANGED <<journal, pane, cache, epoch, kept, live>>

Loading(p) == \/ DiskAnswers(p) \/ DiskLands(p)
              \/ FetchAnswered(p) \/ FetchLands(p) \/ FetchFails(p)
              \/ OlderAnswered(p) \/ OlderLands(p) \/ OlderFails(p)

Following(t) == \/ LiveStarts(t) \/ LiveAnswered(t) \/ LiveLandsHidden(t) \/ LiveFails(t)
                \/ \E p \in Panes : LiveLandsShown(t, p)

Reader == \/ \E p \in Panes, t \in Threads : Opens(p, t)
          \/ \E p \in Panes : ShowsSettings(p) \/ ClosesLast(p) \/ AsksOlder(p)
          \/ \E t \in Threads : ClosesHidden(t)
          \/ ClearsCache

Next == \/ Reader
        \/ \E p \in Panes : Loading(p)
        \/ \E t \in Threads : Following(t) \/ Appends(t) \/ Trims(t)
        \/ Syncs

Spec == Init /\ [][Next]_vars

\* Workers answer (the sockets have timeouts) and the frame loop takes every
\* answer; nothing obliges the reader, the server or the cap.
FairSpec ==
    /\ Spec
    /\ \A p \in Panes : /\ WF_vars(DiskAnswers(p)) /\ WF_vars(DiskLands(p))
                        /\ WF_vars(FetchAnswered(p))
                        /\ WF_vars(FetchLands(p) \/ FetchFails(p))
                        /\ WF_vars(OlderAnswered(p))
                        /\ WF_vars(OlderLands(p) \/ OlderFails(p))
    /\ \A t \in Threads : /\ WF_vars(LiveStarts(t)) /\ WF_vars(LiveAnswered(t))
                          /\ WF_vars(LiveLandsHidden(t) \/ LiveFails(t)
                                     \/ \E p \in Panes : LiveLandsShown(t, p))
    /\ WF_vars(Syncs)

(***************************************************************************)
(* Properties.                                                             *)
(***************************************************************************)
Loads == [to : Threads \cup {NoThread}, since : 0 .. MaxSeq,
          at : {"none", "sent", "answered", "failed"}, reply : Sessions \cup {NoSession}]

\* Every variable has its type.
TypeOK ==
    /\ journal \in [Threads -> 0 .. MaxSeq]
    /\ selected \in [Panes -> Threads \cup {NoThread, Surface}]
    /\ open \in [Panes -> Sessions \cup {NoSession}]
    /\ state \in [Panes -> {"idle", "loading", "loaded", "error"}]
    /\ waits \in [Panes -> BOOLEAN]
    /\ fetch \in [Panes -> Loads] /\ older \in [Panes -> Loads]
    /\ reading \in [Panes -> [to : Threads \cup {NoThread}, epoch : 0 .. MaxClears,
                              done : BOOLEAN, copy : Sessions \cup {NoSession}]]
    /\ cache \in [Threads -> [copy : Sessions \cup {NoSession}, rank : 0 .. CacheThreads]]
    /\ disk \in [Threads -> Sessions \cup {NoSession}]
    /\ epoch \in 0 .. MaxClears /\ kept \subseteq Threads
    /\ live \in [Threads -> [on : BOOLEAN, dirty : BOOLEAN, load : Loads]]

\* Every read in flight for a pane is for the thread the pane has selected:
\* switching tabs leaves no read behind that could paint the wrong thread.
LoadsAreForTheSelected ==
    \A p \in Panes : {fetch[p].to, reading[p].to, older[p].to} \subseteq {selected[p], NoThread}

\* A pane that says it is loaded holds the thread it has selected.
LoadedShowsSelected ==
    \A p \in Panes : state[p] = "loaded" /\ selected[p] \in Threads => open[p].id = selected[p]

\* "Loading..." always has a read behind it (loader_system.h: a failed fetch
\* used to be "a permanent Loading...").
NotStranded ==
    \A p \in Panes : state[p] = "loading" /\ selected[p] \in Threads
                        => Pending(fetch[p]) \/ Reading(p)

Copies(t) == {cache[t].copy, disk[t]} \cup {open[p] : p \in {p \in Panes : open[p].id = t}}

\* However a transcript was put together - a window, pages of a resume, a cut
\* copy with a tail - it shows no row twice and misses none between two it shows,
\* unless rows that were not oldest first have been cut.
NoHole ==
    \A t \in Threads : \A s \in Copies(t) :
        LET shown == RowSet(s.rows)
        IN /\ \A i, j \in DOMAIN s.rows : s.rows[i] = s.rows[j] => i = j
           /\ ~s.torn => \A n \in RowSeqs \ shown :
                             (\A m \in shown : n < m) \/ (\A m \in shown : m < n)

LosesNewest(p) ==
    /\ selected[p] \in Threads /\ selected'[p] = selected[p]
    /\ state[p] = "loaded" /\ open'[p].rows # <<>>
    /\ \E m \in RowSet(open[p].rows) : \A n \in RowSet(open'[p].rows) : n < m

\* No fetch, disk copy or refetch takes away the newest row a pane shows.  The
\* older rows, read before it, may, and opening the thread again; and a resume
\* that broke off in pages without a row blanks the pane.
KeepsNewest ==
    [][\A p \in Panes : LosesNewest(p) => older'[p] # older[p] \/ Opens(p, selected[p])]_vars

\* disk_cache.cpp:1570: messages are stored oldest to newest, so the last ones are
\* the newest.
FileIsOldestFirst == \A t \in Threads : OldestFirst(disk[t].rows)

\* A pane that shows a thread and has all its rows read can reach every older
\* row: it shows the first, or offers to load older ones.
OlderReachable ==
    \A p \in Panes : state[p] = "loaded" /\ selected[p] \in Threads /\ ~open[p].more
                        => \A n \in RowSeqs : n <= Newest(open[p].rows) => n \in RowSet(open[p].rows)

\* An event heard about a thread on screen is followed by its row, unless the
\* refetch for it fails: the flag is gone by then, and nothing asks again.
HeardIsShown ==
    \A p \in Panes, t \in Threads, n \in RowSeqs :
        (selected[p] = t /\ live[t].dirty /\ journal[t] = n)
            ~> \/ selected[p] # t \/ live[t].load.at = "failed"
               \/ \E m \in RowSet(open[p].rows) : m >= n
=============================================================================
