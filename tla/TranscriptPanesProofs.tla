------------------------ MODULE TranscriptPanesProofs ------------------------
(***************************************************************************)
(* Which thread a pane paints, for any number of panes, threads and sizes. *)
(* The rows themselves do not matter here: the invariant follows the ids   *)
(* of copies, reads and replies from the server and the files to the pane. *)
(***************************************************************************)
EXTENDS TranscriptPanes, TLAPS

Ids == Threads \cup {NoThread, Surface}
States == {"idle", "loading", "loaded", "error"}

\* The variables are functions of the right domain.
Shape ==
    /\ selected \in [Panes -> Ids]
    /\ state \in [Panes -> States]
    /\ waits \in [Panes -> BOOLEAN]
    /\ DOMAIN open = Panes /\ DOMAIN fetch = Panes
    /\ DOMAIN reading = Panes /\ DOMAIN older = Panes
    /\ DOMAIN disk = Threads /\ DOMAIN live = Threads

\* A load that is under way is for some thread; an answered one holds a
\* session of that thread.
LoadIsFor(l, t) ==
    /\ l.to \in {t, NoThread}
    /\ l.at # "none" => l.to = t
    /\ l.at = "answered" => l.reply.id = t

ReadIsFor(r, t) ==
    /\ r.to \in {t, NoThread} /\ r.to \in Threads \cup {NoThread}
    /\ r.done => r.to = t
    /\ r.done /\ r.copy # NoSession => r.copy.id = t

LoadsInv == \A p \in Panes : /\ LoadIsFor(fetch[p], selected[p])
                             /\ LoadIsFor(older[p], selected[p])
                             /\ ReadIsFor(reading[p], selected[p])

\* The copies are filed under their own thread.
CopiesInv == \A t \in Threads : /\ cache[t].rank # 0 => cache[t].copy.id = t
                                /\ disk[t] # NoSession => disk[t].id = t
                                /\ LoadIsFor(live[t].load, t)

Inv == Shape /\ LoadsInv /\ CopiesInv /\ LoadedShowsSelected

LEMMA InitInv == Init => Inv
<1> SUFFICES ASSUME Init PROVE Inv  OBVIOUS
<1> USE DEF Init, NoLoad, NoRead, NoSub, NoSession, LoadAt, Read, Sub, Session, Absent
<1>1. Shape  BY DEF Shape, Ids, States
<1>2. LoadsInv  BY DEF LoadsInv, LoadIsFor, ReadIsFor
<1>3. CopiesInv  BY DEF CopiesInv, LoadIsFor
<1>4. LoadedShowsSelected  BY DEF LoadedShowsSelected
<1> QED  BY <1>1, <1>2, <1>3, <1>4 DEF Inv

\* A reply is a session of the thread it was asked about.
LEMMA AnswersId == ASSUME NEW t, NEW since, NEW r \in Answers(t, since) PROVE r.id = t
BY DEF Answers, ResumeReplies, FullReply, Reply, Session

LEMMA OutcomeIsFor ==
    ASSUME NEW l, NEW t, NEW replies, LoadIsFor(l, t), l.at = "sent",
           \A r \in replies : r.id = t, NEW o \in Outcomes(l, replies)
    PROVE LoadIsFor(o, t)
BY DEF LoadIsFor, Outcomes, LoadAt

LEMMA LandedId == ASSUME NEW mine, NEW fresh PROVE Landed(mine, fresh).id = fresh.id
BY DEF Landed, Spliced, Session

\* Keeping a session never files it under another thread.
LEMMA PutCopies ==
    ASSUME NEW s, \A t \in Threads : cache[t].rank # 0 => cache[t].copy.id = t
    PROVE  \A t \in Threads : Put(cache, s)[t].rank # 0 => Put(cache, s)[t].copy.id = t
BY DEF Put, Moved, Cut, LastRows, Session, Absent

LEMMA KeepCopies ==
    ASSUME Shape, NEW s, Keep(s),
           \A t \in Threads : /\ cache[t].rank # 0 => cache[t].copy.id = t
                              /\ disk[t] # NoSession => disk[t].id = t
    PROVE  /\ DOMAIN disk' = Threads
           /\ \A t \in Threads : /\ cache'[t].rank # 0 => cache'[t].copy.id = t
                                 /\ disk'[t] # NoSession => disk'[t].id = t
<1>1. \A t \in Threads : cache'[t].rank # 0 => cache'[t].copy.id = t
  BY PutCopies DEF Keep
<1>2. \A t \in Threads : disk'[t] # NoSession => disk'[t].id = t
  BY DEF Keep, Save, Shape
<1>3. DOMAIN disk' = Threads  BY DEF Keep, Save, Shape
<1> QED  BY <1>1, <1>2, <1>3

LEMMA OpensInv ==
    ASSUME Inv, NEW p \in Panes, NEW t \in Threads, Opens(p, t) PROVE Inv'
<1> USE DEF Inv, Opens, Selects, LoadAt, Load, NoLoad, Read, NoRead
<1>1. CASE Hits(p, t)
  <2> USE <1>1 DEF Hits
  <2>1. Shape'  BY DEF Shape, Ids, States
  <2>2. LoadsInv'  BY DEF LoadsInv, LoadIsFor, ReadIsFor, Shape
  <2>3. CopiesInv'  BY DEF CopiesInv, LoadIsFor, Held, Touch, Moved
  <2>4. LoadedShowsSelected'  BY DEF LoadedShowsSelected, CopiesInv, Held, Shape
  <2> QED  BY <2>1, <2>2, <2>3, <2>4
<1>2. CASE Misses(p, t)
  <2> USE <1>2 DEF Misses
  <2>1. Shape'  BY DEF Shape, Ids, States
  <2>2. LoadsInv'  BY DEF LoadsInv, LoadIsFor, ReadIsFor, Shape
  <2>3. CopiesInv'  BY DEF CopiesInv, LoadIsFor
  <2>4. LoadedShowsSelected'  BY DEF LoadedShowsSelected, Shape
  <2> QED  BY <2>1, <2>2, <2>3, <2>4
<1> QED  BY <1>1, <1>2

LEMMA LeavesInv ==
    ASSUME Inv, NEW p \in Panes, ShowsSettings(p) \/ ClosesLast(p) PROVE Inv'
<1> USE ThreadsAssumption DEF Inv, ShowsSettings, ClosesLast, Selects, Drops,
        LoadAt, NoLoad, Read, NoRead, copies
<1>1. Shape'
  <2>1. CASE ShowsSettings(p)  BY <2>1 DEF Shape, Ids
  <2>2. CASE ClosesLast(p)  BY <2>2 DEF Shape, Ids, States
  <2> QED  BY <2>1, <2>2
<1>2. LoadsInv'
  <2>1. \A q \in Panes \ {p} : /\ fetch'[q] = fetch[q] /\ older'[q] = older[q]
                              /\ reading'[q] = reading[q] /\ selected'[q] = selected[q]
    BY DEF Shape
  <2>2. fetch'[p] = NoLoad /\ older'[p] = NoLoad /\ reading'[p] = NoRead  BY DEF Shape
  <2> QED  BY <2>1, <2>2 DEF LoadsInv, LoadIsFor, ReadIsFor
<1>3. CopiesInv'  BY DEF CopiesInv, LoadIsFor
<1>4. LoadedShowsSelected'  BY DEF LoadedShowsSelected, Shape
<1> QED  BY <1>1, <1>2, <1>3, <1>4

LEMMA ReaderInv ==
    ASSUME Inv, (\E p \in Panes : AsksOlder(p)) \/ (\E t \in Threads : ClosesHidden(t))
                \/ ClearsCache
    PROVE  Inv'
<1> USE ThreadsAssumption DEF Inv, LoadAt, NoLoad, Load, Read, NoRead, copies, pane
<1>1. CASE \E p \in Panes : AsksOlder(p)
  <2> PICK p \in Panes : AsksOlder(p)  BY <1>1
  <2> USE DEF AsksOlder
  <2>1. Shape'  BY DEF Shape
  <2>2. LoadsInv'  BY DEF LoadsInv, LoadIsFor, ReadIsFor, Shape
  <2>3. CopiesInv' /\ LoadedShowsSelected'  BY DEF CopiesInv, LoadIsFor, LoadedShowsSelected
  <2> QED  BY <2>1, <2>2, <2>3
<1>2. CASE \E t \in Threads : ClosesHidden(t)
  BY <1>2 DEF ClosesHidden, Shape, LoadsInv, LoadIsFor, ReadIsFor, CopiesInv, LoadedShowsSelected
<1>3. CASE ClearsCache
  <2> USE <1>3 DEF ClearsCache
  <2>1. Shape'  BY DEF Shape
  <2>2. LoadsInv'  BY DEF LoadsInv, LoadIsFor, ReadIsFor
  <2>3. CopiesInv' /\ LoadedShowsSelected'
    BY DEF CopiesInv, LoadIsFor, LoadedShowsSelected, Absent
  <2> QED  BY <2>1, <2>2, <2>3
<1> QED  BY <1>1, <1>2, <1>3

LEMMA DiskInv ==
    ASSUME Inv, NEW p \in Panes, DiskAnswers(p) \/ DiskLands(p) PROVE Inv'
<1> USE ThreadsAssumption DEF Inv, LoadAt, NoLoad, Load, Read, NoRead, copies
<1>1. CASE DiskAnswers(p)
  <2> USE <1>1 DEF DiskAnswers, Reading
  <2>1. Shape'  BY DEF Shape
  <2>2. reading[p].to \in {selected[p], NoThread} /\ reading[p].to # NoThread
    BY DEF LoadsInv, ReadIsFor
  <2>3. ReadIsFor(reading'[p], selected[p])
    BY <2>2 DEF ReadIsFor, Shape, CopiesInv, LoadsInv
  <2>4. LoadsInv'  BY <2>3 DEF LoadsInv, LoadIsFor, ReadIsFor, Shape
  <2>5. CopiesInv' /\ LoadedShowsSelected'  BY DEF CopiesInv, LoadIsFor, LoadedShowsSelected
  <2> QED  BY <2>1, <2>4, <2>5
<1>2. CASE DiskLands(p)
  <2> USE <1>2 DEF DiskLands, Starts
  <2>1. Shape'  BY DEF Shape, States
  <2>2. LoadsInv'  BY DEF LoadsInv, LoadIsFor, ReadIsFor, Shape
  <2>3. cache' \in {cache, Put(cache, reading[p].copy)}  OBVIOUS
  <2>4. \A t \in Threads : cache'[t].rank # 0 => cache'[t].copy.id = t
    BY <2>3, PutCopies DEF CopiesInv
  <2>5. CopiesInv'  BY <2>4 DEF CopiesInv
  <2>6. LoadedShowsSelected'  BY DEF LoadedShowsSelected, AcceptsDisk, LoadsInv, ReadIsFor, Shape
  <2> QED  BY <2>1, <2>2, <2>5, <2>6
<1> QED  BY <1>1, <1>2

LEMMA FetchInv ==
    ASSUME Inv, NEW p \in Panes, FetchAnswered(p) \/ FetchLands(p) \/ FetchFails(p) PROVE Inv'
<1> USE ThreadsAssumption DEF Inv, copies
<1>1. CASE FetchAnswered(p)
  <2> USE <1>1 DEF FetchAnswered
  <2> PICK l \in Outcomes(fetch[p], Answers(fetch[p].to, fetch[p].since)) :
           fetch' = [fetch EXCEPT ![p] = l]
    OBVIOUS
  <2>1. fetch[p].at = "sent" /\ LoadIsFor(fetch[p], selected[p]) /\ fetch[p].to = selected[p]
    BY DEF LoadsInv, LoadIsFor
  <2>2. LoadIsFor(l, selected[p])  BY <2>1, AnswersId, OutcomeIsFor
  <2>3. Shape'  BY DEF Shape
  <2>4. LoadsInv'  BY <2>2 DEF LoadsInv, Shape
  <2>5. CopiesInv' /\ LoadedShowsSelected'  BY DEF CopiesInv, LoadedShowsSelected
  <2> QED  BY <2>3, <2>4, <2>5
<1>2. CASE FetchLands(p)
  <2> USE <1>2 DEF FetchLands
  <2> DEFINE shown == Landed(open[p], fetch[p].reply)
  <2>1. fetch[p].to = selected[p] /\ shown.id = selected[p]
    BY LandedId DEF LoadsInv, LoadIsFor
  <2> HIDE DEF shown
  <2>2. open' = [open EXCEPT ![p] = shown] /\ state' = [state EXCEPT ![p] = "loaded"]
    BY <2>1 DEF shown
  <2>3. Shape' /\ \A t \in Threads : /\ cache'[t].rank # 0 => cache'[t].copy.id = t
                                     /\ disk'[t] # NoSession => disk'[t].id = t
    <3>1. Keep(fetch[p].reply) \/ Keep(shown)  BY <2>1 DEF shown
    <3>2. /\ DOMAIN disk' = Threads
          /\ \A t \in Threads : /\ cache'[t].rank # 0 => cache'[t].copy.id = t
                                /\ disk'[t] # NoSession => disk'[t].id = t
      BY <3>1, KeepCopies DEF CopiesInv
    <3> QED  BY <2>2, <3>2 DEF Shape, States
  <2>4. LoadsInv'  BY DEF LoadsInv, LoadIsFor, NoLoad, LoadAt, Shape
  <2>5. CopiesInv'  BY <2>3 DEF CopiesInv
  <2>6. LoadedShowsSelected'  BY <2>1, <2>2 DEF LoadedShowsSelected, Shape
  <2> QED  BY <2>3, <2>4, <2>5, <2>6
<1>3. CASE FetchFails(p)
  <2> USE <1>3 DEF FetchFails
  <2>1. Shape'  BY DEF Shape, States, FailedState
  <2>2. LoadsInv'  BY DEF LoadsInv, LoadIsFor, NoLoad, LoadAt, Shape
  <2>3. CopiesInv'  BY DEF CopiesInv
  <2>4. LoadedShowsSelected'  BY DEF LoadedShowsSelected, FailedState, LoadsInv, LoadIsFor, Shape
  <2> QED  BY <2>1, <2>2, <2>3, <2>4
<1> QED  BY <1>1, <1>2, <1>3

LEMMA OlderInv ==
    ASSUME Inv, NEW p \in Panes, OlderAnswered(p) \/ OlderLands(p) \/ OlderFails(p) PROVE Inv'
<1> USE ThreadsAssumption DEF Inv, copies
<1>1. CASE OlderAnswered(p)
  <2> USE <1>1 DEF OlderAnswered
  <2> PICK l \in Outcomes(older[p], {WholeReply(older[p].to)}) :
           older' = [older EXCEPT ![p] = l]
    OBVIOUS
  <2>1. older[p].at = "sent" /\ LoadIsFor(older[p], selected[p]) /\ older[p].to = selected[p]
    BY DEF LoadsInv, LoadIsFor
  <2>2. WholeReply(older[p].to).id = older[p].to  BY DEF WholeReply, Reply, Session
  <2>3. LoadIsFor(l, selected[p])  BY <2>1, <2>2, OutcomeIsFor
  <2>4. Shape'  BY DEF Shape
  <2>5. LoadsInv'  BY <2>3 DEF LoadsInv, Shape
  <2>6. CopiesInv' /\ LoadedShowsSelected'  BY DEF CopiesInv, LoadedShowsSelected
  <2> QED  BY <2>4, <2>5, <2>6
<1>2. CASE OlderLands(p)
  <2> USE <1>2 DEF OlderLands
  <2>1. older[p].to = selected[p] /\ older[p].reply.id = selected[p]
    BY DEF LoadsInv, LoadIsFor
  <2>2. /\ DOMAIN disk' = Threads
        /\ \A t \in Threads : /\ cache'[t].rank # 0 => cache'[t].copy.id = t
                              /\ disk'[t] # NoSession => disk'[t].id = t
    BY <2>1, KeepCopies DEF CopiesInv
  <2>3. Shape'  BY <2>2 DEF Shape, States
  <2>4. LoadsInv'  BY DEF LoadsInv, LoadIsFor, NoLoad, LoadAt, Shape
  <2>5. CopiesInv'  BY <2>2 DEF CopiesInv
  <2>6. LoadedShowsSelected'  BY <2>1 DEF LoadedShowsSelected, Shape
  <2> QED  BY <2>3, <2>4, <2>5, <2>6
<1>3. CASE OlderFails(p)
  BY <1>3 DEF OlderFails, Shape, LoadsInv, LoadIsFor, NoLoad, LoadAt, CopiesInv, LoadedShowsSelected
<1> QED  BY <1>1, <1>2, <1>3

\* Steps that change only the subscriptions.
LEMMA SubscriptionInv ==
    ASSUME Inv, UNCHANGED <<pane, copies>>, DOMAIN live' = Threads,
           \A t \in Threads : LoadIsFor(live'[t].load, t)
    PROVE  Inv'
BY DEF Inv, pane, copies, Shape, LoadsInv, CopiesInv, LoadedShowsSelected, LoadIsFor, ReadIsFor

LEMMA LiveInv == ASSUME Inv, NEW t \in Threads, Following(t) PROVE Inv'
<1> USE DEF Inv, Sub, NoLoad, Load, LoadAt, Lands
<1>1. CASE LiveStarts(t)
  <2>1. UNCHANGED <<pane, copies>> /\ DOMAIN live' = Threads  BY <1>1 DEF LiveStarts, Shape
  <2>2. \A u \in Threads : LoadIsFor(live'[u].load, u)
    BY <1>1 DEF LiveStarts, Shape, CopiesInv, LoadIsFor
  <2> QED  BY <2>1, <2>2, SubscriptionInv
<1>2. CASE LiveAnswered(t)
  <2> PICK l \in Outcomes(live[t].load, Answers(t, live[t].load.since)) :
           live' = [live EXCEPT ![t] = Sub(@.on, @.dirty, l)]
    BY <1>2 DEF LiveAnswered
  <2>1. LoadIsFor(l, t)  BY <1>2, AnswersId, OutcomeIsFor DEF LiveAnswered, CopiesInv
  <2>2. UNCHANGED <<pane, copies>> /\ DOMAIN live' = Threads  BY <1>2 DEF LiveAnswered, Shape
  <2>3. \A u \in Threads : LoadIsFor(live'[u].load, u)  BY <2>1 DEF Shape, CopiesInv
  <2> QED  BY <2>2, <2>3, SubscriptionInv
<1>3. CASE LiveFails(t)
  <2>1. UNCHANGED <<pane, copies>> /\ DOMAIN live' = Threads  BY <1>3 DEF LiveFails, Shape
  <2>2. \A u \in Threads : LoadIsFor(live'[u].load, u)
    BY <1>3 DEF LiveFails, Shape, CopiesInv, LoadIsFor
  <2> QED  BY <2>1, <2>2, SubscriptionInv
<1>4. CASE LiveLandsHidden(t)
  <2> DEFINE s == IF Held(t) THEN Fold(cache[t].copy, live[t].load.reply) ELSE live[t].load.reply
  <2>1. Keep(s)  BY <1>4 DEF LiveLandsHidden
  <2> HIDE DEF s
  <2>2. /\ DOMAIN disk' = Threads
        /\ \A u \in Threads : /\ cache'[u].rank # 0 => cache'[u].copy.id = u
                              /\ disk'[u] # NoSession => disk'[u].id = u
    BY <2>1, KeepCopies DEF CopiesInv
  <2>3. UNCHANGED pane /\ DOMAIN live' = Threads  BY <1>4 DEF LiveLandsHidden, Shape
  <2>4. \A u \in Threads : LoadIsFor(live'[u].load, u)
    BY <1>4 DEF LiveLandsHidden, Shape, CopiesInv, LoadIsFor
  <2> QED  BY <2>2, <2>3, <2>4
             DEF pane, Shape, LoadsInv, CopiesInv, LoadedShowsSelected, LoadIsFor, ReadIsFor
<1>5. CASE \E p \in Panes : LiveLandsShown(t, p)
  <2> PICK p \in Panes : LiveLandsShown(t, p)  BY <1>5
  <2> DEFINE shown == Landed(open[p], live[t].load.reply)
  <2>1. shown.id = t /\ selected[p] = t
    BY LandedId DEF LiveLandsShown, Showing, CopiesInv, LoadIsFor
  <2>2. /\ Keep(shown)
        /\ open' = [open EXCEPT ![p] = shown] /\ state' = [state EXCEPT ![p] = "loaded"]
        /\ UNCHANGED <<selected, waits, fetch, reading, older>>
    BY DEF LiveLandsShown
  <2> HIDE DEF shown
  <2>3. /\ DOMAIN disk' = Threads
        /\ \A u \in Threads : /\ cache'[u].rank # 0 => cache'[u].copy.id = u
                              /\ disk'[u] # NoSession => disk'[u].id = u
    BY <2>2, KeepCopies DEF CopiesInv
  <2>4. DOMAIN live' = Threads /\ \A u \in Threads : LoadIsFor(live'[u].load, u)
    BY DEF LiveLandsShown, Shape, CopiesInv, LoadIsFor
  <2>5. Shape'  BY <2>2, <2>3, <2>4 DEF Shape, States
  <2>6. LoadsInv'  BY <2>2 DEF LoadsInv, LoadIsFor, ReadIsFor
  <2>7. CopiesInv'  BY <2>3, <2>4 DEF CopiesInv
  <2>8. LoadedShowsSelected'  BY <2>1, <2>2 DEF LoadedShowsSelected, Shape
  <2> QED  BY <2>5, <2>6, <2>7, <2>8
<1> QED  BY <1>1, <1>2, <1>3, <1>4, <1>5 DEF Following

LEMMA ServerInv ==
    ASSUME Inv, Syncs \/ \E t \in Threads : Appends(t) \/ Trims(t)
    PROVE  Inv'
<1> USE DEF Inv, Sub, NoSub, NoLoad, LoadAt
<1>1. CASE Syncs
  <2>1. UNCHANGED <<pane, copies>> /\ DOMAIN live' = Threads  BY <1>1 DEF Syncs
  <2>2. \A u \in Threads : LoadIsFor(live'[u].load, u)
    BY <1>1, ThreadsAssumption DEF Syncs, CopiesInv, LoadIsFor
  <2> QED  BY <2>1, <2>2, SubscriptionInv
<1>2. CASE \E t \in Threads : Appends(t)
  <2> PICK t \in Threads : Appends(t)  BY <1>2
  <2>1. UNCHANGED <<pane, copies>> /\ DOMAIN live' = Threads  BY DEF Appends, Shape, copies
  <2>2. \A u \in Threads : LoadIsFor(live'[u].load, u)
    BY DEF Appends, Shape, CopiesInv, LoadIsFor
  <2> QED  BY <2>1, <2>2, SubscriptionInv
<1>3. CASE \E t \in Threads : Trims(t)
  BY <1>3 DEF Trims, LastRows, Session, pane, Shape, LoadsInv, CopiesInv, LoadedShowsSelected, LoadIsFor, ReadIsFor
<1> QED  BY <1>1, <1>2, <1>3

LEMMA NextInv == ASSUME Inv, [Next]_vars PROVE Inv'
<1>1. CASE Reader
  BY <1>1, OpensInv, LeavesInv, ReaderInv DEF Reader
<1>2. CASE \E p \in Panes : Loading(p)
  BY <1>2, DiskInv, FetchInv, OlderInv DEF Loading
<1>3. CASE \E t \in Threads : Following(t)
  BY <1>3, LiveInv
<1>4. CASE Syncs \/ \E t \in Threads : Appends(t) \/ Trims(t)
  BY <1>4, ServerInv
<1>5. CASE UNCHANGED vars
  BY <1>5 DEF vars, pane, copies, Inv, Shape, LoadsInv, CopiesInv, LoadedShowsSelected,
              LoadIsFor, ReadIsFor
<1> QED  BY <1>1, <1>2, <1>3, <1>4, <1>5 DEF Next

THEOREM Invariance == Spec => []Inv
<1>1. Init => Inv  BY InitInv
<1>2. Inv /\ [Next]_vars => Inv'  BY NextInv
<1> QED  BY <1>1, <1>2, PTL DEF Spec

\* Whatever tab switches, answers and failures come in whatever order, every
\* read in flight for a pane is for the thread it has selected: the tests of
\* the landings for another thread never fail, their other branches never run.
THEOREM NoForeignLoad == Spec => []LoadsAreForTheSelected
<1>1. Inv => LoadsAreForTheSelected
  BY DEF Inv, LoadsInv, LoadIsFor, ReadIsFor, LoadsAreForTheSelected
<1> QED  BY <1>1, Invariance, PTL

\* A loaded pane paints the thread it has selected.
THEOREM PaintsTheSelected == Spec => []LoadedShowsSelected
<1>1. Inv => LoadedShowsSelected  BY DEF Inv
<1> QED  BY <1>1, Invariance, PTL

-----------------------------------------------------------------------------
(***************************************************************************)
(* No pane is left loading, as long as nobody clears the cache.            *)
(***************************************************************************)
StrandedInv ==
    \A p \in Panes : /\ waits[p] => Reading(p)
                     /\ state[p] = "loading" /\ selected[p] \in Threads
                          => Pending(fetch[p]) \/ waits[p]

LEMMA NextStrandedInv ==
    ASSUME MaxClears = 0, epoch \in Nat, Inv, StrandedInv, [Next]_vars
    PROVE  StrandedInv' /\ epoch' \in Nat
<1> USE ThreadsAssumption DEF Inv, Shape, Reading, Pending, Load, NoLoad, LoadAt, Read, NoRead
<1> DEFINE Quietly == UNCHANGED <<selected, state, waits, fetch, reading>>
<1>1. CASE Quietly /\ epoch' = epoch  BY <1>1 DEF StrandedInv
<1>2. ASSUME NEW p \in Panes, NEW t \in Threads, Opens(p, t) PROVE StrandedInv' /\ epoch' = epoch
  <2>1. CASE Hits(p, t)  BY <1>2, <2>1 DEF Opens, Selects, Hits, StrandedInv
  <2>2. CASE Misses(p, t)
    <3>1. UNCHANGED epoch  BY <1>2 DEF Opens
    <3>2. waits'[p] => Reading(p)'  BY <2>2 DEF Misses
    <3>3. Pending(fetch[p])' \/ waits'[p]  BY <2>2 DEF Misses
    <3>4. \A q \in Panes \ {p} : UNCHANGED <<selected[q], state[q], waits[q], fetch[q], reading[q]>>
      BY <1>2, <2>2 DEF Opens, Selects, Misses
    <3> QED  BY <3>1, <3>2, <3>3, <3>4 DEF StrandedInv
  <2> QED  BY <1>2, <2>1, <2>2 DEF Opens
<1>3. ASSUME NEW p \in Panes, ShowsSettings(p) \/ ClosesLast(p)
      PROVE  StrandedInv' /\ epoch' = epoch
  <2>1. selected'[p] \notin Threads /\ ~waits'[p] /\ UNCHANGED epoch
    BY <1>3 DEF ShowsSettings, ClosesLast, Selects, Drops
  <2>2. \A q \in Panes \ {p} : UNCHANGED <<selected[q], state[q], waits[q], fetch[q], reading[q]>>
    BY <1>3 DEF ShowsSettings, ClosesLast, Selects, Drops
  <2> QED  BY <2>1, <2>2 DEF StrandedInv
<1>4. CASE ClearsCache  BY <1>4 DEF ClearsCache
<1>5. ASSUME NEW p \in Panes, Loading(p) PROVE StrandedInv' /\ epoch' = epoch
  <2>1. CASE DiskAnswers(p)  BY <2>1 DEF DiskAnswers, StrandedInv
  <2>2. CASE DiskLands(p)
    <3>1. waits[p] => Starts(p)  BY <2>2 DEF DiskLands, Starts, LoadsInv, ReadIsFor
    <3>2. reading[p].to # NoThread => reading[p].to = selected[p]  BY DEF LoadsInv, ReadIsFor
    <3>3. ~waits'[p] /\ (Pending(fetch[p]) \/ waits[p] => Pending(fetch[p])')
      BY <2>2, <3>1, <3>2 DEF DiskLands, Starts, StrandedInv
    <3>4. state'[p] \in {state[p], "loaded"} /\ UNCHANGED <<epoch, selected>>
      BY <2>2 DEF DiskLands
    <3>5. \A q \in Panes \ {p} : UNCHANGED <<state[q], waits[q], fetch[q], reading[q]>>
      BY <2>2 DEF DiskLands
    <3> QED  BY <3>3, <3>4, <3>5 DEF StrandedInv
  <2>3. CASE FetchAnswered(p)
    <3> PICK l \in Outcomes(fetch[p], Answers(fetch[p].to, fetch[p].since)) :
             fetch' = [fetch EXCEPT ![p] = l]
      BY <2>3 DEF FetchAnswered
    <3>1. l.to = fetch[p].to  BY DEF Outcomes
    <3> QED  BY <2>3, <3>1 DEF FetchAnswered, StrandedInv
  <2>4. CASE FetchLands(p) \/ FetchFails(p)
    <3>1. fetch[p].to = selected[p]  BY <2>4 DEF FetchLands, FetchFails, LoadsInv, LoadIsFor
    <3>2. state'[p] \in {"loaded", "error"} /\ UNCHANGED <<waits, reading, selected, epoch>>
      BY <2>4, <3>1 DEF FetchLands, FetchFails, FailedState
    <3>3. \A q \in Panes \ {p} : UNCHANGED <<state[q], fetch[q]>>
      BY <2>4 DEF FetchLands, FetchFails
    <3> QED  BY <3>2, <3>3 DEF StrandedInv
  <2>5. CASE OlderAnswered(p) \/ OlderFails(p)
    BY <1>1, <2>5 DEF OlderAnswered, OlderFails, StrandedInv
  <2>6. CASE OlderLands(p)  BY <2>6 DEF OlderLands, StrandedInv
  <2> QED  BY <1>5, <2>1, <2>2, <2>3, <2>4, <2>5, <2>6 DEF Loading
<1>6. ASSUME NEW t \in Threads, NEW p \in Panes, LiveLandsShown(t, p)
      PROVE  StrandedInv' /\ epoch' = epoch
  BY <1>6 DEF LiveLandsShown, StrandedInv
<1>7. CASE Quietly /\ epoch' = epoch  BY <1>7 DEF StrandedInv
<1>8. ASSUME NEW p \in Panes, AsksOlder(p) PROVE Quietly /\ epoch' = epoch  BY <1>8 DEF AsksOlder
<1>9. ASSUME NEW t \in Threads,
             ClosesHidden(t) \/ Appends(t) \/ Trims(t) \/ LiveStarts(t) \/ LiveAnswered(t)
             \/ LiveLandsHidden(t) \/ LiveFails(t)
      PROVE  Quietly /\ epoch' = epoch
  BY <1>9 DEF ClosesHidden, Appends, Trims, LiveStarts, LiveAnswered, LiveLandsHidden, LiveFails, pane
<1>10. CASE Syncs  BY <1>1, <1>10 DEF Syncs, pane
<1>11. CASE UNCHANGED vars  BY <1>1, <1>11 DEF vars, pane
<1> QED  BY <1>1, <1>2, <1>3, <1>4, <1>5, <1>6, <1>8, <1>9, <1>10, <1>11
            DEF Next, Reader, Following

\* A pane that says "Loading..." has a read behind it, unless the disk cache is
\* cleared meanwhile.
THEOREM NeverStranded == MaxClears = 0 /\ Spec => []NotStranded
<1>1. Init => StrandedInv /\ epoch \in Nat  BY DEF Init, StrandedInv
<1>2. ASSUME MaxClears = 0, Inv, StrandedInv /\ epoch \in Nat, [Next]_vars
      PROVE  (StrandedInv /\ epoch \in Nat)'
  BY <1>2, NextStrandedInv
<1>3. StrandedInv => NotStranded  BY DEF StrandedInv, NotStranded
<1>4. (MaxClears = 0) => (Inv /\ StrandedInv /\ epoch \in Nat /\ [Next]_vars
                             => (StrandedInv /\ epoch \in Nat)')
  BY <1>2
<1>5. ASSUME MaxClears = 0 PROVE Spec => []NotStranded
  <2>1. Inv /\ StrandedInv /\ epoch \in Nat /\ [Next]_vars => (StrandedInv /\ epoch \in Nat)'
    BY <1>5, <1>4
  <2> QED  BY <1>1, <1>3, <2>1, Invariance, PTL DEF Spec
<1> QED  BY <1>5
=============================================================================
