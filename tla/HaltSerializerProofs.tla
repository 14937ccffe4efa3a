------------------------ MODULE HaltSerializerProofs ------------------------
(***************************************************************************)
(* Proofs about HaltSerializer: no thread ever has two writes, no intent   *)
(* that is kept back is forgotten, the gate and its caption agree, and the *)
(* queue, the worker and the serializers together implement BrakeControl.  *)
(***************************************************************************)
EXTENDS HaltSerializer, TLAPS, SequenceTheorems

(***************************************************************************)
(* The methods of the serializer.                                          *)
(***************************************************************************)
LEMMA StartFacts ==
    ASSUME NEW s \in Serializers, NEW i \in Intents
    PROVE  /\ Start(s, i) \in Serializers
           /\ Start(s, i).doing = i /\ Start(s, i).ticket = s.ticket + 1
           /\ Start(s, i).queued = s.queued /\ Start(s, i).last = s.last
           /\ Start(s, i).needs = s.needs
<1>1. \A n \in Nat : [s EXCEPT !.doing = i, !.ticket = n] \in Serializers
  BY DEF Serializers
<1>2. s.ticket + 1 \in Nat
  BY DEF Serializers
<1>3. Start(s, i) \in Serializers
  BY <1>1, <1>2 DEF Start
<1>4. /\ Start(s, i).doing = i /\ Start(s, i).ticket = s.ticket + 1
      /\ Start(s, i).queued = s.queued /\ Start(s, i).last = s.last
  BY DEF Start, Serializers
<1>5. Start(s, i).needs = s.needs
  BY DEF Start, Serializers
<1> QED  BY <1>3, <1>4, <1>5

\* drain hands out what was kept, or drops it because it is there already.
LEMMA DrainFacts ==
    ASSUME NEW s \in Serializers, s.doing = NoIntent
    PROVE  /\ Drain(s) \in Serializers
           /\ Drain(s).queued = NoIntent /\ Drain(s).needs = s.needs
           /\ Drain(s).last = s.last
           /\ \/ /\ Drain(s).ticket = s.ticket /\ Drain(s).doing = NoIntent
                 /\ s.queued = NoIntent \/ (s.last # Unseen /\ Satisfied(s.queued, s.last))
              \/ /\ Drain(s).ticket = s.ticket + 1 /\ Drain(s).doing = s.queued
                 /\ s.queued \in Intents
<1> DEFINE taken == [s EXCEPT !.queued = NoIntent]
<1>1. /\ taken \in Serializers /\ taken.queued = NoIntent /\ taken.needs = s.needs
      /\ taken.last = s.last /\ taken.ticket = s.ticket /\ taken.doing = s.doing
  BY DEF Serializers
<1>2. CASE s.queued = NoIntent \/ (s.last # Unseen /\ Satisfied(s.queued, s.last))
  <2>1. Drain(s) = taken
    BY <1>2 DEF Drain
  <2> HIDE DEF taken
  <2> QED  BY <1>1, <1>2, <2>1
<1>3. CASE ~(s.queued = NoIntent \/ (s.last # Unseen /\ Satisfied(s.queued, s.last)))
  <2>1. s.queued \in Intents
    BY <1>3 DEF Serializers
  <2>2. Drain(s) = Start(taken, s.queued)
    BY <1>3 DEF Drain
  <2>3. LET r == Start(taken, s.queued)
        IN /\ r \in Serializers /\ r.queued = taken.queued /\ r.needs = taken.needs
           /\ r.last = taken.last /\ r.ticket = taken.ticket + 1 /\ r.doing = s.queued
    <3> HIDE DEF taken
    <3> QED  BY <1>1, <2>1, StartFacts
  <2> HIDE DEF taken
  <2> QED  BY <1>1, <2>1, <2>2, <2>3
<1> QED  BY <1>2, <1>3

LEMMA RaiseFacts ==
    ASSUME NEW s \in Serializers, NEW i \in Intents
    PROVE  /\ Raise(s, i) \in Serializers
           /\ Raise(s, i).needs = s.needs /\ Raise(s, i).last = s.last
           /\ (s.doing # NoIntent \/ s.needs) =>
                 /\ Raise(s, i).doing = s.doing /\ Raise(s, i).ticket = s.ticket
                 /\ Raise(s, i).queued = i
           /\ ~(s.doing # NoIntent \/ s.needs) =>
                 /\ Raise(s, i).doing = i /\ Raise(s, i).ticket = s.ticket + 1
                 /\ Raise(s, i).queued = s.queued
<1> DEFINE counted == [s EXCEPT !.raised = @ + 1]
<1>1. counted \in Serializers
  <2>1. s.raised + 1 \in Nat /\ \A n \in Nat : [s EXCEPT !.raised = n] \in Serializers
    BY DEF Serializers
  <2> QED  BY <2>1
<1>2. /\ counted.needs = s.needs /\ counted.last = s.last /\ counted.doing = s.doing
      /\ counted.ticket = s.ticket /\ counted.queued = s.queued
  BY DEF Serializers
<1>3. CASE s.doing # NoIntent \/ s.needs
  <2>1. Raise(s, i) = [counted EXCEPT !.queued = i]
    BY <1>3 DEF Raise
  <2> HIDE DEF counted
  <2> QED  BY <1>1, <1>2, <1>3, <2>1 DEF Serializers
<1>4. CASE ~(s.doing # NoIntent \/ s.needs)
  <2>1. Raise(s, i) = Start(counted, i)
    BY <1>4 DEF Raise
  <2> HIDE DEF counted
  <2> QED  BY <1>1, <1>2, <1>4, <2>1, StartFacts
<1> QED  BY <1>3, <1>4

\* settled, with an answer of the write that is in flight.
LEMMA SettledFacts ==
    ASSUME NEW s \in Serializers, s.doing # NoIntent, NEW status \in Statuses,
           NEW now \in Observations \cup {Unseen}
    PROVE  LET r == Settled(s, s.ticket, status, now)
           IN /\ r \in Serializers
              /\ r.last = IF now = Unseen THEN s.last ELSE now
              /\ status = "unconfirmed" =>
                    r.needs /\ r.doing = NoIntent /\ r.ticket = s.ticket /\ r.queued = s.queued
              /\ status # "unconfirmed" =>
                    /\ r.needs = s.needs /\ r.queued = NoIntent
                    /\ \/ /\ r.ticket = s.ticket /\ r.doing = NoIntent
                          /\ s.queued = NoIntent \/ (r.last # Unseen /\ Satisfied(s.queued, r.last))
                       \/ /\ r.ticket = s.ticket + 1 /\ r.doing = s.queued
                          /\ s.queued \in Intents
<1> DEFINE freed == [s EXCEPT !.doing = NoIntent, !.last = IF now = Unseen THEN @ ELSE now]
<1>1. /\ freed \in Serializers /\ freed.doing = NoIntent /\ freed.needs = s.needs
      /\ freed.queued = s.queued /\ freed.ticket = s.ticket
      /\ freed.last = IF now = Unseen THEN s.last ELSE now
  BY DEF Serializers
<1>2. Settled(s, s.ticket, status, now) =
          IF status = "unconfirmed" THEN [freed EXCEPT !.needs = TRUE] ELSE Drain(freed)
  BY DEF Settled
<1>3. CASE status = "unconfirmed"
  BY <1>1, <1>2, <1>3 DEF Serializers
<1>4. CASE status # "unconfirmed"
  <2> HIDE DEF freed
  <2> QED  BY <1>1, <1>2, <1>4, DrainFacts
<1> QED  BY <1>3, <1>4

\* observed, from an attach.
LEMMA ObservedFacts ==
    ASSUME NEW s \in Serializers, NEW o \in Observations
    PROVE  LET r == Observed(s, o)
           IN /\ r \in Serializers /\ ~r.needs /\ r.last = o
              /\ s.doing # NoIntent =>
                    r.doing = s.doing /\ r.ticket = s.ticket /\ r.queued = s.queued
              /\ s.doing = NoIntent =>
                    /\ r.queued = NoIntent
                    /\ \/ /\ r.ticket = s.ticket /\ r.doing = NoIntent
                          /\ s.queued = NoIntent \/ Satisfied(s.queued, o)
                       \/ /\ r.ticket = s.ticket + 1 /\ r.doing = s.queued
                          /\ s.queued \in Intents
<1> DEFINE told == [s EXCEPT !.last = o, !.needs = FALSE]
<1>1. /\ told \in Serializers /\ ~told.needs /\ told.last = o /\ told.doing = s.doing
      /\ told.queued = s.queued /\ told.ticket = s.ticket
  BY DEF Serializers
<1>2. Observed(s, o) = IF s.doing # NoIntent THEN told ELSE Drain(told)
  BY DEF Observed
<1> HIDE DEF told
<1>3. CASE s.doing # NoIntent
  BY <1>1, <1>2, <1>3
<1>4. CASE s.doing = NoIntent
  BY <1>1, <1>2, <1>4, DrainFacts
<1> QED  BY <1>3, <1>4

(***************************************************************************)
(* The invariant.                                                          *)
(***************************************************************************)
\* Each write is the one its serializer handed out, and a thread has one.
Claimed(w) == sz[w.to].doing = w.intent /\ sz[w.to].ticket = w.ticket

QueueOK ==
    /\ \A n \in 1 .. Len(writes) : Claimed(writes[n])
    /\ inFlight # NoWrite => Claimed(inFlight)
    /\ \A m, n \in 1 .. Len(writes) : writes[m].to = writes[n].to => m = n
    /\ \A n \in 1 .. Len(writes) : writes[n].to # inFlight.to
    /\ \A t \in Threads : sz[t].doing # NoIntent =>
          inFlight.to = t \/ \E n \in 1 .. Len(writes) : writes[n].to = t

WorkerOK ==
    /\ worker.at = "none" <=> inFlight = NoWrite
    /\ worker.at = "waiting" => worker.seen # Unseen
    /\ worker.at = "done" /\ worker.status \in {"satisfied", "confirmed"} => worker.seen # Unseen

SerializersOK ==
    \A t \in Threads : /\ ~(sz[t].doing # NoIntent /\ sz[t].needs)
                       /\ sz[t].ticket = 0 => sz[t].doing = NoIntent /\ ~sz[t].needs
                       /\ sz[t].queued # NoIntent => sz[t].doing # NoIntent \/ sz[t].needs

ReadsOK == \A t \in Threads : read[t].at = "said" => read[t].seen # Unseen

Inv == TypeOK /\ QueueOK /\ WorkerOK /\ SerializersOK /\ GateIsShown /\ ReadsOK

LEMMA WriteFields ==
    ASSUME writes \in Seq(Writes)
    PROVE  \A n \in 1 .. Len(writes) :
              /\ writes[n] \in Writes /\ writes[n].to \in Threads
              /\ writes[n].intent \in Intents /\ writes[n].intent # NoIntent
<1>1. \A n \in 1 .. Len(writes) : writes[n] \in Writes
  BY ElementOfSeq
<1>2. \A w \in Writes : w.to \in Threads /\ w.intent \in Intents /\ w.intent # NoIntent
  BY NullsAssumption DEF Writes
<1> QED  BY <1>1, <1>2

\* A thread whose serializer is idle has no write anywhere.
LEMMA IdleHasNoPlace ==
    ASSUME TypeOK, QueueOK, NEW t \in Threads, sz[t].doing = NoIntent
    PROVE  inFlight.to # t /\ \A n \in 1 .. Len(writes) : writes[n].to # t
<1>1. \A n \in 1 .. Len(writes) : writes[n].intent # NoIntent
  BY WriteFields DEF TypeOK
<1>2. CASE inFlight = NoWrite
  BY <1>1, <1>2, ThreadsAssumption DEF QueueOK, Claimed, NoWrite, Write
<1>3. CASE inFlight # NoWrite
  <2>1. inFlight.intent # NoIntent
    BY <1>3, NullsAssumption DEF TypeOK, Writes
  <2> QED  BY <1>1, <1>3, <2>1 DEF QueueOK, Claimed
<1> QED  BY <1>2, <1>3

\* A write joins the queue, or nothing does, for a thread without a place in it.
LEMMA FreeThreadMoves ==
    ASSUME TypeOK, QueueOK, NEW t \in Threads, NEW s \in Serializers,
           \A n \in 1 .. Len(writes) : writes[n].to # t,
           inFlight' = IF inFlight.to = t THEN NoWrite ELSE inFlight,
           sz' = [sz EXCEPT ![t] = s], writes' = Pushed(sz[t], s, t),
           \/ s.ticket = sz[t].ticket /\ s.doing = NoIntent
           \/ s.ticket = sz[t].ticket + 1 /\ s.doing \in Intents
    PROVE  QueueOK' /\ writes' \in Seq(Writes) /\ inFlight' \in Writes \cup {NoWrite}
<1>1. sz \in [Threads -> Serializers] /\ writes \in Seq(Writes) /\ inFlight \in Writes \cup {NoWrite}
  BY DEF TypeOK
<1>2. sz[t].ticket \in Nat
  BY <1>1 DEF Serializers
<1>3. \A n \in 1 .. Len(writes) : writes[n] \in Writes /\ writes[n].to \in Threads
  BY <1>1, WriteFields
<1>4. CASE s.ticket = sz[t].ticket /\ s.doing = NoIntent
  <2>1. writes' = writes
    BY <1>4 DEF Pushed
  <2>2. \A u \in Threads : u # t => sz'[u] = sz[u]
    BY <1>1
  <2>3. sz'[t] = s
    BY <1>1
  <2>4. NoWrite.to = NoThread /\ NoThread \notin Threads
    BY ThreadsAssumption DEF NoWrite, Write
  <2>5. inFlight # NoWrite => inFlight.to \in Threads
    BY <1>1 DEF Writes
  <2> QED  BY <1>1, <1>3, <1>4, <2>1, <2>2, <2>3, <2>4, <2>5 DEF QueueOK, Claimed
<1>5. CASE s.ticket = sz[t].ticket + 1 /\ s.doing \in Intents
  <2> DEFINE w == Write(t, s.doing, s.ticket)
  <2>1. w \in Writes /\ w.to = t /\ w.intent = s.doing /\ w.ticket = s.ticket
    BY <1>2, <1>5 DEF Write, Writes
  <2>2. writes' = Append(writes, w)
    BY <1>2, <1>5 DEF Pushed
  <2> HIDE DEF w
  <2>3. /\ writes' \in Seq(Writes) /\ Len(writes') = Len(writes) + 1
        /\ \A n \in 1 .. Len(writes) : writes'[n] = writes[n]
        /\ writes'[Len(writes) + 1] = w
        /\ Len(writes) \in Nat
    BY <1>1, <2>1, <2>2
  <2>4. \A u \in Threads : u # t => sz'[u] = sz[u]
    BY <1>1
  <2>5. sz'[t] = s
    BY <1>1
  <2>6. NoWrite.to = NoThread /\ NoThread \notin Threads
    BY ThreadsAssumption DEF NoWrite, Write
  <2>7. inFlight # NoWrite => inFlight.to \in Threads
    BY <1>1 DEF Writes
  <2>8. \A n \in 1 .. Len(writes') : n \in 1 .. Len(writes) \/ n = Len(writes) + 1
    BY <2>3
  <2>9. \A n \in 1 .. Len(writes') : Claimed(writes[n])' 
    <3>1. \A n \in 1 .. Len(writes) : Claimed(writes[n])'
      BY <1>3, <2>3, <2>4 DEF QueueOK, Claimed
    <3>2. \A n \in 1 .. Len(writes') : n = Len(writes) + 1 => Claimed(writes[n])'
      BY <2>1, <2>3, <2>5 DEF Claimed
    <3> QED  BY <3>1, <3>2, <2>8
  <2>10. inFlight' # NoWrite => Claimed(inFlight)'
    BY <2>4, <2>7 DEF QueueOK, Claimed
  <2>11. \A m, n \in 1 .. Len(writes') : writes'[m].to = writes'[n].to => m = n
    BY <2>1, <2>3, <2>8 DEF QueueOK
  <2>12. \A n \in 1 .. Len(writes') : writes'[n].to # inFlight'.to
    BY <1>3, <2>1, <2>3, <2>6, <2>7, <2>8 DEF QueueOK
  <2>13. \A u \in Threads : sz'[u].doing # NoIntent =>
            inFlight'.to = u \/ \E n \in 1 .. Len(writes') : writes'[n].to = u
    <3> SUFFICES ASSUME NEW u \in Threads, sz'[u].doing # NoIntent
                 PROVE  inFlight'.to = u \/ \E n \in 1 .. Len(writes') : writes'[n].to = u
      OBVIOUS
    <3>1. CASE u = t
      BY <3>1, <2>1, <2>3
    <3>2. CASE u # t
      BY <3>2, <2>3, <2>4 DEF QueueOK
    <3> QED  BY <3>1, <3>2
  <2> QED  BY <2>3, <2>9, <2>10, <2>11, <2>12, <2>13, <1>1 DEF QueueOK
<1> QED  BY <1>4, <1>5

\* Nothing the queue is about changed.
LEMMA QueueUntouched ==
    ASSUME TypeOK, QueueOK, UNCHANGED <<writes, inFlight>>, sz' \in [Threads -> Serializers],
           \A t \in Threads : sz'[t].doing = sz[t].doing /\ sz'[t].ticket = sz[t].ticket
    PROVE  QueueOK'
<1>1. \A n \in 1 .. Len(writes) : writes[n].to \in Threads
  BY WriteFields DEF TypeOK
<1>2. inFlight # NoWrite => inFlight.to \in Threads
  BY DEF TypeOK, Writes
<1> QED  BY <1>1, <1>2 DEF QueueOK, Claimed

(***************************************************************************)
(* One lemma for each group of actions.                                    *)
(***************************************************************************)
LEMMA InitInv == Init => Inv
<1> SUFFICES ASSUME Init PROVE Inv
  OBVIOUS
<1>1. TypeOK
  <2>1. NewSerializer \in Serializers
    BY DEF NewSerializer, Serializers
  <2>2. Seen(FALSE, "nobody") \in Observations
    BY DEF Seen, Observations
  <2>3. writes = <<>> /\ <<>> \in Seq(Writes)
    BY DEF Init
  <2>4. Idle \in [at : {"none", "opening", "waiting", "done"},
                seen : Observations \cup {Unseen}, echo : BOOLEAN, status : Statuses]
    BY DEF Idle, Job, Statuses
  <2>5. NoAsk \in [at : {"none", "sent", "said"}, seen : Observations \cup {Unseen}]
    BY DEF NoAsk, Ask
  <2>6. 0 \in 0 .. MaxOthers
    BY BoundsAssumption
  <2> QED  BY <2>1, <2>2, <2>3, <2>4, <2>5, <2>6 DEF Init, TypeOK
<1>2. QueueOK /\ SerializersOK /\ GateIsShown
  BY DEF Init, QueueOK, SerializersOK, GateIsShown, NewSerializer
<1>3. WorkerOK /\ ReadsOK
  BY DEF Init, WorkerOK, ReadsOK, Idle, Job, NoAsk, Ask
<1> QED  BY <1>1, <1>2, <1>3 DEF Inv

\* The serializers, the queue and the gate stay as they are.
Still == UNCHANGED <<sz, writes, inFlight, awaiting, unproven>>

LEMMA StillInv ==
    ASSUME Inv, Still
    PROVE  QueueOK' /\ SerializersOK' /\ GateIsShown'
BY DEF Inv, Still, QueueOK, Claimed, SerializersOK, GateIsShown

\* What the panes do before anything lands.
LEMMA PanesInv ==
    ASSUME Inv, NEW t \in Threads,
           (\E gone \in SUBSET Threads : Shows(t, gone)) \/ Rereads(t) \/ Hello(t) \/ ReadFails(t)
    PROVE  Inv'
<1>1. Still /\ UNCHANGED <<net, worker>>
  BY DEF Shows, Rereads, Hello, ReadFails, Still, app
<1>2. NoAsk = Ask("none", Unseen) /\ Sent = Ask("sent", Unseen)
  BY DEF NoAsk, Sent
<1>3. /\ screen' \subseteq Threads
      /\ read' \in [Threads -> [at : {"none", "sent", "said"}, seen : Observations \cup {Unseen}]]
      /\ ReadsOK'
  <2>1. CASE \E gone \in SUBSET Threads : Shows(t, gone)
    <3>1. PICK gone \in SUBSET Threads : Shows(t, gone)
      BY <2>1
    <3>2. screen' \subseteq Threads
      BY <3>1 DEF Shows, Inv, TypeOK
    <3>3. PICK r \in {NoAsk, Sent} :
              read' = [u \in Threads |-> IF u = t THEN r ELSE IF u \in gone THEN NoAsk ELSE read[u]]
      BY <3>1 DEF Shows
    <3> QED  BY <3>2, <3>3, <1>2 DEF Inv, TypeOK, ReadsOK, Ask
  <2>2. CASE Rereads(t)
    BY <2>2, <1>2 DEF Rereads, Inv, TypeOK, ReadsOK, Ask
  <2>3. CASE Hello(t)
    <3>1. server[t] \in Observations /\ server[t] # Unseen
      BY NullsAssumption DEF Inv, TypeOK
    <3> QED  BY <2>3, <3>1 DEF Hello, Inv, TypeOK, ReadsOK, Ask
  <2>4. CASE ReadFails(t)
    BY <2>4, <1>2 DEF ReadFails, Inv, TypeOK, ReadsOK, Ask
  <2> QED  BY <2>1, <2>2, <2>3, <2>4
<1>4. TypeOK' /\ WorkerOK'
  BY <1>1, <1>3 DEF Inv, TypeOK, WorkerOK, Still, net
<1> QED  BY <1>1, <1>3, <1>4, StillInv DEF Inv

\* The worker, up to its outcome.
LEMMA WorkerInv ==
    ASSUME Inv, Worker
    PROVE  Inv'
<1>1. Still /\ UNCHANGED <<server, others, panes>>
  BY DEF Worker, Attaches, AttachFails, Confirms, RunsDry, Still, net
<1>2. worker.at # "none"
  BY DEF Worker, Attaches, AttachFails, Confirms, RunsDry
<1>3. inFlight \in Writes /\ inFlight.to \in Threads /\ inFlight.intent \in Intents
  BY <1>2 DEF Inv, TypeOK, WorkerOK, Writes
<1>4. /\ wire' \in [Threads -> SUBSET Intents]
      /\ worker' \in [at : {"none", "opening", "waiting", "done"},
                      seen : Observations \cup {Unseen}, echo : BOOLEAN, status : Statuses]
      /\ worker'.at # "none"
      /\ worker'.at = "waiting" => worker'.seen # Unseen
      /\ worker'.at = "done" /\ worker'.status \in {"satisfied", "confirmed"}
            => worker'.seen # Unseen
  <2>1. CASE Attaches
    <3> DEFINE o == server[inFlight.to]
    <3>1. o \in Observations /\ o # Unseen
      BY <1>3, NullsAssumption DEF Inv, TypeOK
    <3>2. wire' = wire \/ wire' = [wire EXCEPT ![inFlight.to] = @ \cup {inFlight.intent}]
      BY <2>1 DEF Attaches
    <3>3. wire' \in [Threads -> SUBSET Intents]
      BY <3>2, <1>3 DEF Inv, TypeOK
    <3>4. worker' \in {Waiting(o), Done(o, "satisfied"), Done(o, "contained"), Done(o, "failed")}
      BY <2>1 DEF Attaches
    <3>5. CASE worker' = Waiting(o)
      <4> HIDE DEF o
      <4> QED  BY <3>1, <3>3, <3>5 DEF Waiting, Job, Statuses
    <3>6. CASE \E status \in {"satisfied", "contained", "failed"} : worker' = Done(o, status)
      <4> HIDE DEF o
      <4> QED  BY <3>1, <3>3, <3>6 DEF Done, Job, Statuses
    <3> QED  BY <3>4, <3>5, <3>6
  <2>2. CASE AttachFails
    BY <2>2 DEF AttachFails, Done, Job, Statuses, Inv, TypeOK, net
  <2>3. CASE Confirms
    BY <2>3 DEF Confirms, Done, Job, Statuses, Inv, TypeOK, WorkerOK, net
  <2>4. CASE RunsDry
    BY <2>4 DEF RunsDry, Done, Job, Statuses, Inv, TypeOK, WorkerOK, net
  <2> QED  BY <2>1, <2>2, <2>3, <2>4 DEF Worker
<1>5. TypeOK' /\ ReadsOK'
  BY <1>1, <1>4 DEF Inv, TypeOK, ReadsOK, Still, panes
<1>6. WorkerOK'
  BY <1>1, <1>2, <1>4 DEF Inv, WorkerOK, Still
<1> QED  BY <1>1, <1>5, <1>6, StillInv DEF Inv

\* The server; an echo changes the worker's note of it and nothing else.
LEMMA ServerInv ==
    ASSUME Inv, Server
    PROVE  Inv'
<1>1. PICK t \in Threads : \/ \E i \in Intents : Serves(t, i) \/ Refuses(t, i)
                           \/ \E o \in OthersMake[t] : OthersAct(t, o)
  BY DEF Server
<1>2. Still /\ UNCHANGED panes
  BY <1>1 DEF Serves, Refuses, OthersAct, Still
<1>3. OthersMake[t] \subseteq Observations
  BY BoundsAssumption
<1>4. worker' = worker \/ worker' = [worker EXCEPT !.echo = TRUE]
      \/ (worker.at = "waiting" /\ worker' = Done(worker.seen, "refused"))
  BY <1>1 DEF Serves, Refuses, OthersAct, Hears
<1>5. /\ worker' \in [at : {"none", "opening", "waiting", "done"},
                      seen : Observations \cup {Unseen}, echo : BOOLEAN, status : Statuses]
      /\ WorkerOK'
  <2> DEFINE Jobs == [at : {"none", "opening", "waiting", "done"},
                      seen : Observations \cup {Unseen}, echo : BOOLEAN, status : Statuses]
  <2>1. worker \in Jobs /\ WorkerOK /\ inFlight' = inFlight
    BY <1>2 DEF Inv, TypeOK, Still
  <2>2. CASE worker' = worker
    BY <2>1, <2>2 DEF WorkerOK
  <2>3. CASE worker' = [worker EXCEPT !.echo = TRUE]
    <3>1. /\ worker' \in Jobs /\ worker'.at = worker.at /\ worker'.seen = worker.seen
          /\ worker'.status = worker.status
      BY <2>1, <2>3
    <3> QED  BY <2>1, <3>1 DEF WorkerOK
  <2>4. CASE worker.at = "waiting" /\ worker' = Done(worker.seen, "refused")
    <3>1. worker' \in Jobs /\ worker'.at = "done" /\ worker'.status = "refused"
      BY <2>1, <2>4 DEF Done, Job, Statuses
    <3> QED  BY <2>1, <2>4, <3>1 DEF WorkerOK
  <2> QED  BY <1>4, <2>2, <2>3, <2>4
<1>6. /\ server' \in [Threads -> Observations] /\ wire' \in [Threads -> SUBSET Intents]
      /\ others' \in 0 .. MaxOthers
  <2>1. CASE \E i \in Intents : Serves(t, i)
    <3>1. PICK i \in Intents : Serves(t, i)
      BY <2>1
    <3>2. server[t].by \in {"nobody", "self", "ancestor"}
      BY DEF Inv, TypeOK, Observations
    <3>3. Obeyed(i, server[t]) \in Observations
      BY <3>2 DEF Obeyed, Seen, Observations, WantsHalted
    <3>4. server' = [server EXCEPT ![t] = Obeyed(i, server[t])]
          /\ wire' = [wire EXCEPT ![t] = @ \ {i}] /\ UNCHANGED others
      BY <3>1 DEF Serves
    <3> QED  BY <3>3, <3>4 DEF Inv, TypeOK
  <2>2. CASE \E i \in Intents : Refuses(t, i)
    BY <2>2 DEF Refuses, Inv, TypeOK
  <2>3. CASE \E o \in OthersMake[t] : OthersAct(t, o)
    <3>1. others + 1 \in 0 .. MaxOthers
      BY <2>3, BoundsAssumption DEF OthersAct, Inv, TypeOK
    <3> QED  BY <2>3, <3>1, <1>3 DEF OthersAct, Inv, TypeOK
  <2> QED  BY <1>1, <2>1, <2>2, <2>3
<1>7. TypeOK' /\ ReadsOK'
  BY <1>2, <1>5, <1>6 DEF Inv, TypeOK, ReadsOK, Still, panes
<1> QED  BY <1>2, <1>5, <1>7, StillInv DEF Inv

\* The oldest write moves from the queue to the worker.
LEMMA LaunchesInv ==
    ASSUME Inv, Launches
    PROVE  Inv'
<1>1. /\ inFlight = NoWrite /\ inFlight' = writes[1] /\ writes' = Tail(writes)
      /\ UNCHANGED <<net, sz, awaiting, unproven, panes>> /\ worker' = Opening
      /\ writes # <<>> /\ writes \in Seq(Writes)
  BY DEF Launches, Inv, TypeOK
<1>2. /\ 1 \in 1 .. Len(writes) /\ writes' \in Seq(Writes)
      /\ Len(writes') = Len(writes) - 1 /\ Len(writes) \in Nat
      /\ \A n \in 1 .. Len(writes') : n + 1 \in 1 .. Len(writes) /\ writes'[n] = writes[n + 1]
  BY <1>1
<1>3. inFlight' \in Writes /\ inFlight'.to \in Threads
  BY <1>1, <1>2, WriteFields
<1>4. QueueOK'
  <2>1. \A n \in 1 .. Len(writes') : Claimed(writes[n])' /\ writes'[n].to # inFlight'.to
    <3> SUFFICES ASSUME NEW n \in 1 .. Len(writes')
                 PROVE  Claimed(writes[n])' /\ writes'[n].to # inFlight'.to
      OBVIOUS
    <3>1. n + 1 \in 1 .. Len(writes) /\ writes'[n] = writes[n + 1] /\ n + 1 # 1
      BY <1>2
    <3>2. Claimed(writes[n + 1]) /\ writes[n + 1].to # writes[1].to
      BY <1>2, <3>1 DEF Inv, QueueOK
    <3> QED  BY <1>1, <3>1, <3>2 DEF Claimed
  <2>2. Claimed(inFlight)'
    BY <1>1, <1>2 DEF Inv, QueueOK, Claimed
  <2>3. \A m, n \in 1 .. Len(writes') : writes'[m].to = writes'[n].to => m = n
    <3> SUFFICES ASSUME NEW m \in 1 .. Len(writes'), NEW n \in 1 .. Len(writes'),
                        writes'[m].to = writes'[n].to
                 PROVE  m = n
      OBVIOUS
    <3>1. /\ m + 1 \in 1 .. Len(writes) /\ n + 1 \in 1 .. Len(writes)
          /\ writes[m + 1].to = writes[n + 1].to
      BY <1>2
    <3>2. \A a, b \in 1 .. Len(writes) : writes[a].to = writes[b].to => a = b
      BY DEF Inv, QueueOK
    <3>3. m + 1 = n + 1
      BY <3>1, <3>2, Zenon
    <3> QED  BY <3>3, <1>2
  <2>4. ASSUME NEW t \in Threads, sz'[t].doing # NoIntent
        PROVE  inFlight'.to = t \/ \E n \in 1 .. Len(writes') : writes'[n].to = t
    <3>1. inFlight.to # t
      BY <1>1, ThreadsAssumption DEF NoWrite, Write
    <3>2. PICK n \in 1 .. Len(writes) : writes[n].to = t
      BY <1>1, <2>4, <3>1 DEF Inv, QueueOK
    <3>3. CASE n = 1
      BY <1>1, <3>2, <3>3
    <3>4. CASE n # 1
      <4>1. n - 1 \in 1 .. Len(writes') /\ (n - 1) + 1 = n
        BY <1>2, <3>4
      <4>2. writes'[n - 1] = writes[(n - 1) + 1]
        BY <1>2, <4>1
      <4> QED  BY <3>2, <4>1, <4>2
    <3> QED  BY <3>3, <3>4
  <2> QED  BY <2>1, <2>2, <2>3, <2>4 DEF QueueOK
<1>5. worker' \in [at : {"none", "opening", "waiting", "done"},
                  seen : Observations \cup {Unseen}, echo : BOOLEAN, status : Statuses]
      /\ worker'.at = "opening"
  BY <1>1 DEF Opening, Job, Statuses
<1>6. TypeOK'
  BY <1>1, <1>2, <1>3, <1>5 DEF Inv, TypeOK, net, panes
<1>7. inFlight' # NoWrite
  BY <1>3, ThreadsAssumption DEF NoWrite, Write
<1>8. WorkerOK' /\ SerializersOK' /\ GateIsShown' /\ ReadsOK'
  BY <1>1, <1>5, <1>7 DEF Inv, WorkerOK, SerializersOK, GateIsShown, ReadsOK, panes
<1> QED  BY <1>4, <1>6, <1>8 DEF Inv

LEMMA RequestsInv ==
    ASSUME Inv, NEW t \in Threads, NEW i \in Intents, RequestsHalt(t, i)
    PROVE  Inv'
<1> DEFINE s == Raise(sz[t], i)
<1>1. /\ sz' = [sz EXCEPT ![t] = s] /\ writes' = Pushed(sz[t], s, t)
      /\ UNCHANGED <<net, inFlight, worker, awaiting, unproven, panes>>
  BY DEF RequestsHalt
<1>2. sz \in [Threads -> Serializers] /\ sz[t] \in Serializers
  BY DEF Inv, TypeOK
<1>3. /\ s \in Serializers /\ s.needs = sz[t].needs
      /\ (sz[t].doing # NoIntent \/ sz[t].needs) =>
            s.doing = sz[t].doing /\ s.ticket = sz[t].ticket /\ s.queued = i
      /\ ~(sz[t].doing # NoIntent \/ sz[t].needs) =>
            s.doing = i /\ s.ticket = sz[t].ticket + 1 /\ s.queued = sz[t].queued
  BY <1>2, RaiseFacts
<1> HIDE DEF s
<1>4. sz' \in [Threads -> Serializers] /\ sz'[t] = s /\ \A u \in Threads : u # t => sz'[u] = sz[u]
  BY <1>1, <1>2, <1>3
<1>5. sz[t].ticket \in Nat /\ i # NoIntent
  BY <1>2, NullsAssumption DEF Serializers
<1>6. QueueOK' /\ writes' \in Seq(Writes) /\ inFlight' \in Writes \cup {NoWrite}
  <2>1. CASE sz[t].doing # NoIntent \/ sz[t].needs
    <3>1. writes' = writes
      BY <1>1, <1>3, <2>1 DEF Pushed
    <3> QED  BY <1>1, <1>3, <1>4, <2>1, <3>1, QueueUntouched DEF Inv, TypeOK
  <2>2. CASE ~(sz[t].doing # NoIntent \/ sz[t].needs)
    <3>1. inFlight.to # t /\ \A n \in 1 .. Len(writes) : writes[n].to # t
      BY <2>2, IdleHasNoPlace DEF Inv
    <3>2. TypeOK /\ QueueOK
      BY DEF Inv
    <3> QED  BY <1>1, <1>3, <2>2, <3>1, <3>2, FreeThreadMoves
  <2> QED  BY <2>1, <2>2
<1>7. TypeOK' /\ WorkerOK' /\ ReadsOK'
  BY <1>1, <1>4, <1>6 DEF Inv, TypeOK, WorkerOK, ReadsOK, net, panes
<1>8. SerializersOK' /\ GateIsShown'
  <2>1. sz'[t].needs = sz[t].needs
    BY <1>3, <1>4
  <2>2. GateIsShown'
    BY <1>1, <1>4, <2>1 DEF Inv, GateIsShown
  <2>3. ASSUME NEW u \in Threads
        PROVE  /\ ~(sz'[u].doing # NoIntent /\ sz'[u].needs)
               /\ sz'[u].ticket = 0 => sz'[u].doing = NoIntent /\ ~sz'[u].needs
               /\ sz'[u].queued # NoIntent => sz'[u].doing # NoIntent \/ sz'[u].needs
    <3>1. CASE u # t
      BY <1>4, <3>1 DEF Inv, SerializersOK
    <3>2. CASE u = t
      BY <1>3, <1>4, <1>5, <3>2 DEF Inv, SerializersOK
    <3> QED  BY <3>1, <3>2
  <2> QED  BY <2>2, <2>3 DEF SerializersOK
<1> QED  BY <1>6, <1>7, <1>8 DEF Inv

\* What the loader knows of a write whose outcome is there.
LEMMA OutcomeFacts ==
    ASSUME Inv, OutcomeLands
    PROVE  LET t == inFlight.to
               st == IF MarkPending(inFlight.intent) THEN "unconfirmed" ELSE worker.status
               now == Now
           IN /\ t \in Threads /\ inFlight.intent \in Intents
              /\ sz[t] \in Serializers /\ sz[t].doing = inFlight.intent
              /\ sz[t].ticket = inFlight.ticket /\ sz[t].doing # NoIntent /\ ~sz[t].needs
              /\ now \in Observations \cup {Unseen}
              /\ \A n \in 1 .. Len(writes) : writes[n].to # t
              /\ sz' = [sz EXCEPT ![t] = Settled(sz[t], sz[t].ticket, st, now)]
              /\ writes' = Pushed(sz[t], Settled(sz[t], sz[t].ticket, st, now), t)
<1>1. inFlight # NoWrite
  BY DEF OutcomeLands, Inv, WorkerOK
<1>2. inFlight \in Writes
  BY <1>1 DEF Inv, TypeOK
<1>3. inFlight.to \in Threads /\ inFlight.intent \in Intents /\ inFlight.intent # NoIntent
  BY <1>2, NullsAssumption DEF Writes
<1>4. Claimed(inFlight) /\ \A n \in 1 .. Len(writes) : writes[n].to # inFlight.to
  BY <1>1 DEF Inv, QueueOK
<1>5. sz[inFlight.to] \in Serializers /\ ~sz[inFlight.to].needs
  BY <1>3, <1>4 DEF Inv, TypeOK, SerializersOK, Claimed
<1>6. Now \in Observations \cup {Unseen}
  BY DEF Now, Inv, TypeOK
<1>7. /\ sz' = [sz EXCEPT ![inFlight.to] = Settled(sz[inFlight.to], inFlight.ticket,
                    IF MarkPending(inFlight.intent) THEN "unconfirmed" ELSE worker.status,
                    Now)]
      /\ writes' = Pushed(sz[inFlight.to], Settled(sz[inFlight.to], inFlight.ticket,
                    IF MarkPending(inFlight.intent) THEN "unconfirmed" ELSE worker.status,
                    Now), inFlight.to)
  BY DEF OutcomeLands
<1> QED  BY <1>3, <1>4, <1>5, <1>6, <1>7 DEF Claimed

LEMMA OutcomeInv ==
    ASSUME Inv, OutcomeLands
    PROVE  Inv'
<1> DEFINE t == inFlight.to
           st == IF MarkPending(inFlight.intent) THEN "unconfirmed" ELSE worker.status
           now == Now
           s == Settled(sz[t], sz[t].ticket, st, now)
<1>1. /\ t \in Threads /\ sz[t] \in Serializers /\ sz[t].doing # NoIntent /\ ~sz[t].needs
      /\ now \in Observations \cup {Unseen}
      /\ \A n \in 1 .. Len(writes) : writes[n].to # t
      /\ sz' = [sz EXCEPT ![t] = s] /\ writes' = Pushed(sz[t], s, t)
  BY OutcomeFacts
<1>2. /\ inFlight' = NoWrite /\ worker' = Idle /\ UNCHANGED <<net, screen>>
      /\ awaiting' = IF worker.status = "unconfirmed" THEN awaiting \cup {t} ELSE awaiting
      /\ unproven' = IF MarkPending(inFlight.intent) THEN unproven \cup {t} ELSE unproven
      /\ read' = read \/ read' = [read EXCEPT ![t] = Sent]
  BY DEF OutcomeLands, Reobserves
<1>3. /\ s \in Serializers
      /\ st = "unconfirmed" =>
            s.needs /\ s.doing = NoIntent /\ s.ticket = sz[t].ticket
      /\ st # "unconfirmed" =>
            /\ ~s.needs /\ s.queued = NoIntent
            /\ \/ s.ticket = sz[t].ticket /\ s.doing = NoIntent
               \/ s.ticket = sz[t].ticket + 1 /\ s.doing \in Intents
  <2> HIDE DEF st, now
  <2>1. /\ s \in Serializers
        /\ st = "unconfirmed" =>
              s.needs /\ s.doing = NoIntent /\ s.ticket = sz[t].ticket
        /\ st # "unconfirmed" =>
              /\ s.needs = sz[t].needs /\ s.queued = NoIntent
              /\ \/ s.ticket = sz[t].ticket /\ s.doing = NoIntent
                 \/ s.ticket = sz[t].ticket + 1 /\ s.doing = sz[t].queued /\ sz[t].queued \in Intents
    <3>1. st \in Statuses
      BY DEF st, Statuses, Inv, TypeOK
    <3> HIDE DEF t
    <3> QED  BY <1>1, <3>1, SettledFacts
  <2> HIDE DEF s
  <2> QED  BY <1>1, <2>1
<1>4. st = "unconfirmed" <=> worker.status = "unconfirmed" \/ MarkPending(inFlight.intent)
  OBVIOUS
<1> HIDE DEF s, st, now
<1>5. sz \in [Threads -> Serializers] /\ sz[t].ticket \in Nat /\ TypeOK /\ QueueOK
  BY <1>1 DEF Inv, TypeOK, Serializers
<1>6. sz' \in [Threads -> Serializers] /\ sz'[t] = s /\ \A u \in Threads : u # t => sz'[u] = sz[u]
  BY <1>1, <1>3, <1>5
<1>7. QueueOK' /\ writes' \in Seq(Writes) /\ inFlight' \in Writes \cup {NoWrite}
  <2>1. inFlight' = IF inFlight.to = t THEN NoWrite ELSE inFlight
    BY <1>2
  <2>2. \/ s.ticket = sz[t].ticket /\ s.doing = NoIntent
        \/ s.ticket = sz[t].ticket + 1 /\ s.doing \in Intents
    BY <1>3
  <2>3. /\ t \in Threads /\ \A n \in 1 .. Len(writes) : writes[n].to # t
        /\ sz' = [sz EXCEPT ![t] = s] /\ writes' = Pushed(sz[t], s, t)
    BY <1>1
  <2> HIDE DEF t
  <2> QED  BY <1>3, <1>5, <2>1, <2>2, <2>3, FreeThreadMoves
<1>8. TypeOK'
  <2>1. Idle \in [at : {"none", "opening", "waiting", "done"},
                  seen : Observations \cup {Unseen}, echo : BOOLEAN, status : Statuses]
    BY DEF Idle, Job, Statuses
  <2>2. read' \in [Threads -> [at : {"none", "sent", "said"}, seen : Observations \cup {Unseen}]]
    <3>1. Sent \in [at : {"none", "sent", "said"}, seen : Observations \cup {Unseen}]
      BY DEF Sent, Ask
    <3>2. read \in [Threads -> [at : {"none", "sent", "said"}, seen : Observations \cup {Unseen}]]
      BY <1>5 DEF TypeOK
    <3> QED  BY <1>2, <3>1, <3>2
  <2>3. worker' \in [at : {"none", "opening", "waiting", "done"},
                     seen : Observations \cup {Unseen}, echo : BOOLEAN, status : Statuses]
    BY <1>2, <2>1
  <2>4. awaiting' \subseteq Threads /\ unproven' \subseteq Threads /\ screen' \subseteq Threads
    BY <1>1, <1>2, <1>5 DEF TypeOK
  <2>5. /\ server' \in [Threads -> Observations] /\ wire' \in [Threads -> SUBSET Intents]
        /\ others' \in 0 .. MaxOthers
    BY <1>2, <1>5 DEF TypeOK, net
  <2> QED  BY <1>6, <1>7, <2>2, <2>3, <2>4, <2>5 DEF TypeOK
<1>9. WorkerOK' /\ ReadsOK'
  <2>1. WorkerOK'
    BY <1>2 DEF WorkerOK, Idle, Job
  <2>2. ReadsOK'
    <3>1. Sent.at # "said"
      BY DEF Sent, Ask
    <3> HIDE DEF t
    <3> QED  BY <1>1, <1>2, <3>1 DEF Inv, TypeOK, ReadsOK
  <2> QED  BY <2>1, <2>2
<1>10. GateIsShown'
  <2>1. t \notin awaiting /\ t \notin unproven
    BY <1>1 DEF Inv, GateIsShown
  <2>2. s.needs <=> t \in awaiting' \cup unproven'
    BY <1>2, <1>3, <1>4, <2>1
  <2>3. \A u \in Threads : u # t => (u \in awaiting' \cup unproven' <=> u \in awaiting \cup unproven)
    BY <1>2
  <2> QED  BY <1>6, <2>2, <2>3 DEF Inv, GateIsShown
<1>11. SerializersOK'
  <2>1. ASSUME NEW u \in Threads
        PROVE  /\ ~(sz'[u].doing # NoIntent /\ sz'[u].needs)
               /\ sz'[u].ticket = 0 => sz'[u].doing = NoIntent /\ ~sz'[u].needs
               /\ sz'[u].queued # NoIntent => sz'[u].doing # NoIntent \/ sz'[u].needs
    <3>1. CASE u # t
      BY <1>6, <3>1 DEF Inv, SerializersOK
    <3>2. CASE u = t
      <4>1. sz[t].ticket # 0
        BY <1>1 DEF Inv, SerializersOK
      <4> QED  BY <1>3, <1>5, <1>6, <3>2, <4>1
    <3> QED  BY <3>1, <3>2
  <2> QED  BY <2>1 DEF SerializersOK
<1> QED  BY <1>7, <1>8, <1>9, <1>10, <1>11 DEF Inv

LEMMA ReadLandsInv ==
    ASSUME Inv, NEW t \in Threads, ReadLands(t)
    PROVE  Inv'
<1> DEFINE s == IF sz[t].ticket = 0 THEN sz[t] ELSE Observed(sz[t], read[t].seen)
<1>1. /\ sz' = [sz EXCEPT ![t] = s] /\ writes' = Pushed(sz[t], s, t)
      /\ awaiting' = awaiting \ {t} /\ unproven' = unproven \ {t}
      /\ read' = [read EXCEPT ![t] = NoAsk]
      /\ UNCHANGED <<net, inFlight, worker, screen>>
  BY DEF ReadLands
<1>2. read[t].seen \in Observations
  BY DEF ReadLands, Inv, TypeOK, ReadsOK
<1>3. sz \in [Threads -> Serializers] /\ sz[t] \in Serializers /\ TypeOK /\ QueueOK
  BY DEF Inv, TypeOK
<1>4. sz[t].ticket \in Nat
  BY <1>3 DEF Serializers
<1>5. /\ s \in Serializers /\ ~s.needs
      /\ sz[t].doing # NoIntent => s.doing = sz[t].doing /\ s.ticket = sz[t].ticket
      /\ sz[t].doing = NoIntent =>
            /\ s.queued = NoIntent
            /\ \/ s.ticket = sz[t].ticket /\ s.doing = NoIntent
               \/ s.ticket = sz[t].ticket + 1 /\ s.doing \in Intents
  <2>1. CASE sz[t].ticket = 0
    BY <1>3, <2>1 DEF Inv, SerializersOK
  <2>2. CASE sz[t].ticket # 0
    BY <1>2, <1>3, <2>2, ObservedFacts
  <2> QED  BY <2>1, <2>2
<1> HIDE DEF s
<1>6. sz' \in [Threads -> Serializers] /\ sz'[t] = s /\ \A u \in Threads : u # t => sz'[u] = sz[u]
  BY <1>1, <1>3, <1>5
<1>7. QueueOK' /\ writes' \in Seq(Writes) /\ inFlight' \in Writes \cup {NoWrite}
  <2>1. CASE sz[t].doing # NoIntent
    <3>1. writes' = writes
      BY <1>1, <1>5, <2>1 DEF Pushed
    <3> QED  BY <1>1, <1>3, <1>5, <1>6, <2>1, <3>1, QueueUntouched DEF TypeOK
  <2>2. CASE sz[t].doing = NoIntent
    <3>1. inFlight.to # t /\ \A n \in 1 .. Len(writes) : writes[n].to # t
      BY <1>3, <2>2, IdleHasNoPlace
    <3>2. inFlight' = IF inFlight.to = t THEN NoWrite ELSE inFlight
      BY <1>1, <3>1
    <3> QED  BY <1>1, <1>3, <1>5, <2>2, <3>1, <3>2, FreeThreadMoves
  <2> QED  BY <2>1, <2>2
<1>8. TypeOK' /\ WorkerOK' /\ ReadsOK'
  BY <1>1, <1>3, <1>6, <1>7 DEF Inv, TypeOK, WorkerOK, ReadsOK, net, NoAsk, Ask
<1>9. GateIsShown'
  BY <1>1, <1>5, <1>6 DEF Inv, GateIsShown
<1>10. SerializersOK'
  <2>1. ASSUME NEW u \in Threads
        PROVE  /\ ~(sz'[u].doing # NoIntent /\ sz'[u].needs)
               /\ sz'[u].ticket = 0 => sz'[u].doing = NoIntent /\ ~sz'[u].needs
               /\ sz'[u].queued # NoIntent => sz'[u].doing # NoIntent \/ sz'[u].needs
    <3>1. CASE u # t
      BY <1>6, <3>1 DEF Inv, SerializersOK
    <3>2. CASE u = t
      <4>1. sz[t].ticket = 0 => sz[t].doing = NoIntent /\ s.doing = NoIntent
        BY DEF s, Inv, SerializersOK
      <4>2. sz[t].ticket # 0 => s.ticket # 0
        BY <1>4, <1>5
      <4>3. s.ticket = 0 => s.doing = NoIntent
        BY <4>1, <4>2
      <4>4. s.queued # NoIntent => s.doing # NoIntent
        BY <1>5
      <4> QED  BY <1>5, <1>6, <3>2, <4>3, <4>4
    <3> QED  BY <3>1, <3>2
  <2> QED  BY <2>1 DEF SerializersOK
<1> QED  BY <1>7, <1>8, <1>9, <1>10 DEF Inv

LEMMA FrameSays ==
    ASSUME Inv, NEW t \in Threads, FrameHeard(t)
    PROVE  \E by \in {"nobody", "self", "ancestor"} :
              sz' = [sz EXCEPT ![t].last = Seen(server[t].own, by)]
<1>1. server[t].by \in {"nobody", "self", "ancestor"}
  BY DEF Inv, TypeOK, Observations
<1>2. sz[t].last # Unseen => sz[t].last.by \in {"nobody", "self", "ancestor"}
  BY DEF Inv, TypeOK, Serializers, Observations
<1> QED  BY <1>1, <1>2 DEF FrameHeard

LEMMA FrameInv ==
    ASSUME Inv, NEW t \in Threads, FrameHeard(t)
    PROVE  Inv'
<1>1. PICK by \in {"nobody", "self", "ancestor"} :
          sz' = [sz EXCEPT ![t].last = Seen(server[t].own, by)]
  BY FrameSays
<1>2. UNCHANGED <<net, writes, inFlight, worker, awaiting, unproven, panes>>
  BY DEF FrameHeard
<1>3. sz \in [Threads -> Serializers] /\ sz[t] \in Serializers /\ TypeOK /\ QueueOK
  BY DEF Inv, TypeOK
<1>4. Seen(server[t].own, by) \in Observations
  BY DEF Seen, Inv, TypeOK, Observations
<1>5. /\ sz' \in [Threads -> Serializers]
      /\ \A u \in Threads : /\ sz'[u].doing = sz[u].doing /\ sz'[u].ticket = sz[u].ticket
                            /\ sz'[u].queued = sz[u].queued /\ sz'[u].needs = sz[u].needs
  <2> DEFINE o == Seen(server[t].own, by)
             s == [sz[t] EXCEPT !.last = o]
  <2>1. /\ s \in Serializers /\ s.doing = sz[t].doing /\ s.ticket = sz[t].ticket
        /\ s.queued = sz[t].queued /\ s.needs = sz[t].needs
    <3> HIDE DEF o
    <3> QED  BY <1>3, <1>4 DEF o, Serializers
  <2>2. sz' = [sz EXCEPT ![t] = s]
    BY <1>1
  <2> HIDE DEF s
  <2> QED  BY <1>3, <2>1, <2>2
<1>6. QueueOK'
  BY <1>2, <1>3, <1>5, QueueUntouched
<1>7. SerializersOK' /\ GateIsShown'
  BY <1>2, <1>5 DEF Inv, SerializersOK, GateIsShown
<1>8. TypeOK' /\ WorkerOK' /\ ReadsOK'
  BY <1>2, <1>3, <1>5 DEF Inv, TypeOK, WorkerOK, ReadsOK, net, panes
<1> QED  BY <1>6, <1>7, <1>8 DEF Inv

(***************************************************************************)
(* The invariant holds, and what follows from it.                          *)
(***************************************************************************)
LEMMA NextInv ==
    ASSUME Inv, [Next]_vars
    PROVE  Inv'
<1>1. ASSUME NEW t \in Threads, NEW i \in Raised[t], RequestsHalt(t, i)
      PROVE  Inv'
  <2>1. i \in Intents
    BY BoundsAssumption
  <2> QED  BY <1>1, <2>1, RequestsInv
<1>2. ASSUME NEW t \in Threads, NEW gone \in SUBSET Threads, Shows(t, gone)
      PROVE  Inv'
  BY <1>2, PanesInv
<1>3. ASSUME NEW t \in Threads, Rereads(t) \/ Hello(t) \/ ReadFails(t)
      PROVE  Inv'
  BY <1>3, PanesInv
<1>4. ASSUME NEW t \in Threads, ReadLands(t)
      PROVE  Inv'
  BY <1>4, ReadLandsInv
<1>5. ASSUME NEW t \in Threads, FrameHeard(t)
      PROVE  Inv'
  BY <1>5, FrameInv
<1>6. CASE Launches \/ Worker \/ OutcomeLands \/ Server
  BY <1>6, LaunchesInv, WorkerInv, OutcomeInv, ServerInv
<1>7. CASE UNCHANGED vars
  <2>1. Still /\ UNCHANGED <<net, worker, panes>>
    BY <1>7 DEF vars, app, Still
  <2>2. TypeOK'
    BY <2>1 DEF Inv, TypeOK, Still, net, panes
  <2>3. WorkerOK' /\ ReadsOK'
    BY <2>1 DEF Inv, WorkerOK, ReadsOK, Still, panes
  <2> QED  BY <2>1, <2>2, <2>3, StillInv DEF Inv
<1> QED  BY <1>1, <1>2, <1>3, <1>4, <1>5, <1>6, <1>7 DEF Next

THEOREM Invariance == Spec => []Inv
  BY InitInv, NextInv, PTL DEF Spec

\* Every variable of the serializers, the queue and the worker keeps its type.
THEOREM TypeCorrect == Spec => []TypeOK
<1>1. Inv => TypeOK
  BY DEF Inv
<1> QED  BY <1>1, Invariance, PTL

\* A thread has the one write its serializer believes in, or none.
THEOREM OneWritePerThread == Spec => []OneWrite
<1>1. Inv => OneWrite
  <2> SUFFICES ASSUME Inv, NEW t \in Threads
               PROVE  /\ sz[t].doing = NoIntent => Places(t) = {}
                      /\ sz[t].doing # NoIntent =>
                            \E n \in Places(t) : /\ Places(t) = {n}
                                                 /\ At(n) = Write(t, sz[t].doing, sz[t].ticket)
    BY DEF OneWrite
  <2>1. ASSUME sz[t].doing = NoIntent
        PROVE  Places(t) = {}
    BY <2>1, IdleHasNoPlace DEF Inv, Places
  <2>2. \A w \in Writes : w = Write(w.to, w.intent, w.ticket)
    BY DEF Write, Writes
  <2>3. CASE inFlight.to = t
    <3>1. inFlight # NoWrite /\ inFlight \in Writes
      BY <2>3, ThreadsAssumption DEF Inv, TypeOK, NoWrite, Write
    <3>2. Places(t) = {0}
      BY <2>3 DEF Places, Inv, QueueOK
    <3>3. At(0) = Write(t, sz[t].doing, sz[t].ticket)
      BY <2>2, <2>3, <3>1 DEF At, Inv, QueueOK, Claimed
    <3> QED  BY <2>1, <3>2, <3>3
  <2>4. CASE inFlight.to # t /\ sz[t].doing # NoIntent
    <3>1. PICK n \in 1 .. Len(writes) : writes[n].to = t
      BY <2>4 DEF Inv, QueueOK
    <3>2. n # 0 /\ writes[n] \in Writes
      BY WriteFields DEF Inv, TypeOK
    <3>3. \A m \in 1 .. Len(writes) : writes[m].to = t => m = n
      BY <3>1 DEF Inv, QueueOK
    <3>4. Places(t) = {n}
      BY <2>4, <3>1, <3>3 DEF Places
    <3>5. At(n) = Write(t, sz[t].doing, sz[t].ticket)
      BY <2>2, <3>1, <3>2 DEF At, Inv, QueueOK, Claimed
    <3> QED  BY <2>4, <3>4, <3>5
  <2> QED  BY <2>1, <2>3, <2>4
<1> QED  BY <1>1, Invariance, PTL

\* An intent that is kept back has a write or a closed gate before it.
THEOREM NothingForgotten == Spec => []QueuedHasReason
<1>1. Inv => QueuedHasReason
  BY DEF Inv, SerializersOK, QueuedHasReason
<1> QED  BY <1>1, Invariance, PTL

\* The gate and the caption that explains it agree.
THEOREM GateAndCaption == Spec => []GateIsShown
<1>1. Inv => GateIsShown
  BY DEF Inv
<1> QED  BY <1>1, Invariance, PTL

\* Only the end of a write closes a gate: an intent, an attach and a frame leave
\* it as it is or open it.
LEMMA OutcomesClose ==
    ASSUME Inv, [Next]_vars, NEW t \in Threads, ~sz[t].needs, sz'[t].needs
    PROVE  OutcomeLands /\ t = inFlight.to
<1>1. sz \in [Threads -> Serializers]
  BY DEF Inv, TypeOK
<1>2. ASSUME NEW u \in Threads, NEW s \in Serializers, sz' = [sz EXCEPT ![u] = s]
      PROVE  u = t /\ s.needs
  BY <1>1, <1>2
<1>3. ASSUME NEW u \in Threads, NEW i \in Raised[u], RequestsHalt(u, i)
      PROVE  FALSE
  <2> DEFINE s == Raise(sz[u], i)
  <2>1. i \in Intents
    BY BoundsAssumption
  <2>2. s \in Serializers /\ s.needs = sz[u].needs /\ sz' = [sz EXCEPT ![u] = s]
    BY <1>1, <1>3, <2>1, RaiseFacts DEF RequestsHalt
  <2> HIDE DEF s
  <2> QED  BY <1>2, <2>2
<1>4. ASSUME NEW u \in Threads, ReadLands(u)
      PROVE  FALSE
  <2> DEFINE s == IF sz[u].ticket = 0 THEN sz[u] ELSE Observed(sz[u], read[u].seen)
  <2>1. sz' = [sz EXCEPT ![u] = s] /\ read[u].seen \in Observations
    BY <1>4 DEF ReadLands, Inv, TypeOK, ReadsOK
  <2>2. s = sz[u] \/ (s \in Serializers /\ ~s.needs)
    BY <1>1, <2>1, ObservedFacts
  <2> HIDE DEF s
  <2> QED  BY <1>1, <1>2, <2>1, <2>2
<1>5. ASSUME NEW u \in Threads, FrameHeard(u)
      PROVE  FALSE
  <2>1. PICK by \in {"nobody", "self", "ancestor"} :
            sz' = [sz EXCEPT ![u].last = Seen(server[u].own, by)]
    BY <1>5, FrameSays
  <2> DEFINE o == Seen(server[u].own, by)
             s == [sz[u] EXCEPT !.last = o]
  <2>2. s.needs = sz[u].needs
    <3> HIDE DEF o
    <3> QED  BY <1>1 DEF Serializers
  <2>3. sz' = [sz EXCEPT ![u] = s]
    BY <2>1
  <2> HIDE DEF s
  <2> QED  BY <1>1, <2>2, <2>3
<1>6. CASE OutcomeLands
  <2>1. inFlight.to \in Threads /\ \A u \in Threads : u # inFlight.to => sz'[u] = sz[u]
    BY <1>1, <1>6, OutcomeFacts
  <2> QED  BY <1>6, <2>1
<1>7. ASSUME UNCHANGED sz
      PROVE  FALSE
  BY <1>7
<1> QED
  BY <1>3, <1>4, <1>5, <1>6, <1>7
  DEF Next, Launches, Worker, Attaches, AttachFails, Confirms, RunsDry, Server, Serves,
      Refuses, OthersAct, Shows, Rereads, Hello, ReadFails, vars, app

\* When the gate of a thread on screen closes, an attach is under way that will
\* open it.
THEOREM ClosedGateIsWatched == Spec => GateIsWatched
<1>1. ASSUME Inv, [Next]_vars
      PROVE  \A t \in Threads : ~sz[t].needs /\ sz'[t].needs /\ t \in screen => read'[t] # NoAsk
  <2> SUFFICES ASSUME NEW t \in Threads, ~sz[t].needs, sz'[t].needs, t \in screen
               PROVE  read'[t] # NoAsk
    OBVIOUS
  <2> DEFINE st == IF MarkPending(inFlight.intent) THEN "unconfirmed" ELSE worker.status
             now == Now
             s == Settled(sz[t], sz[t].ticket, st, now)
  <2>1. OutcomeLands /\ t = inFlight.to
    BY <1>1, OutcomesClose
  <2>2. /\ sz[t] \in Serializers /\ sz[t].doing # NoIntent /\ now \in Observations \cup {Unseen}
        /\ sz' = [sz EXCEPT ![t] = s]
    BY <1>1, <2>1, OutcomeFacts
  <2>3. st \in Statuses
    BY <1>1 DEF Inv, TypeOK, Statuses
  <2>4. s.needs
    BY <1>1, <2>2 DEF Inv, TypeOK
  <2>5. st = "unconfirmed"
    <3> HIDE DEF st, now
    <3> QED  BY <2>2, <2>3, <2>4, SettledFacts
  <2>6. Reobserves(t)
    BY <2>1, <2>5 DEF OutcomeLands
  <2> QED  BY <1>1, <2>6 DEF Reobserves, Inv, TypeOK, Sent, NoAsk, Ask
<1> QED  BY <1>1, Invariance, PTL DEF Spec, GateIsWatched

(***************************************************************************)
(* HaltSerializer implements BrakeControl.                                 *)
(***************************************************************************)
\* What the queue is writing is what the serializer believes.
LEMMA DoingIsClaimed ==
    ASSUME Inv, NEW t \in Threads
    PROVE  Doing(t) = sz[t].doing
<1>1. CASE inFlight.to = t
  <2>1. inFlight # NoWrite
    BY <1>1, ThreadsAssumption DEF NoWrite, Write
  <2> QED  BY <1>1, <2>1 DEF Doing, Inv, QueueOK, Claimed
<1>2. CASE inFlight.to # t /\ \E n \in DOMAIN writes : writes[n].to = t
  <2> DEFINE n == CHOOSE n \in DOMAIN writes : writes[n].to = t
  <2>1. n \in 1 .. Len(writes) /\ writes[n].to = t
    BY <1>2 DEF Inv, TypeOK
  <2>2. Doing(t) = writes[n].intent
    BY <1>2 DEF Doing
  <2> HIDE DEF n
  <2> QED  BY <2>1, <2>2 DEF Inv, QueueOK, Claimed
<1>3. CASE inFlight.to # t /\ ~\E n \in DOMAIN writes : writes[n].to = t
  <2>1. DOMAIN writes = 1 .. Len(writes)
    BY DEF Inv, TypeOK
  <2> QED  BY <1>3, <2>1 DEF Doing, Inv, QueueOK
<1> QED  BY <1>1, <1>2, <1>3

QueueAgrees == \A u \in Threads : Doing(u) = sz[u].doing

LEMMA QueueAgreement == Inv => QueueAgrees
  BY DoingIsClaimed DEF QueueAgrees

\* A step of one serializer, seen through the mapping.
LEMMA BarsMove ==
    ASSUME Inv, Inv', NEW t \in Threads, NEW s \in Serializers,
           sz' = [sz EXCEPT ![t] = s]
    PROVE  /\ DoingBar[t] = sz[t].doing /\ WantedBar[t] = sz[t].queued
           /\ UnknownBar[t] = sz[t].needs /\ SeenBar[t] = sz[t].last
           /\ DoingBar' = [DoingBar EXCEPT ![t] = s.doing]
           /\ WantedBar' = [WantedBar EXCEPT ![t] = s.queued]
           /\ UnknownBar' = [UnknownBar EXCEPT ![t] = s.needs]
           /\ SeenBar' = [SeenBar EXCEPT ![t] = s.last]
<1>1. sz \in [Threads -> Serializers]
  BY DEF Inv, TypeOK
<1>2. sz'[t] = s /\ \A u \in Threads : u # t => sz'[u] = sz[u]
  BY <1>1
<1>3. QueueAgrees /\ QueueAgrees'
  BY QueueAgreement, PTL
<1>4. \A u \in Threads : Doing(u) = sz[u].doing /\ Doing(u)' = sz'[u].doing
  BY <1>3 DEF QueueAgrees
<1>5. /\ DoingBar[t] = sz[t].doing /\ WantedBar[t] = sz[t].queued
      /\ UnknownBar[t] = sz[t].needs /\ SeenBar[t] = sz[t].last
  BY <1>4 DEF DoingBar, WantedBar, UnknownBar, SeenBar
<1>6. DoingBar' = [DoingBar EXCEPT ![t] = s.doing]
  <2>1. \A u \in Threads : Doing(u)' = IF u = t THEN s.doing ELSE Doing(u)
    BY <1>2, <1>4
  <2> QED  BY <2>1 DEF DoingBar
<1>7. WantedBar' = [WantedBar EXCEPT ![t] = s.queued]
  <2>1. \A u \in Threads : sz'[u].queued = IF u = t THEN s.queued ELSE sz[u].queued
    BY <1>2
  <2> QED  BY <2>1 DEF WantedBar
<1>8. UnknownBar' = [UnknownBar EXCEPT ![t] = s.needs]
  <2>1. \A u \in Threads : sz'[u].needs = IF u = t THEN s.needs ELSE sz[u].needs
    BY <1>2
  <2> QED  BY <2>1 DEF UnknownBar
<1>9. SeenBar' = [SeenBar EXCEPT ![t] = s.last]
  <2>1. \A u \in Threads : sz'[u].last = IF u = t THEN s.last ELSE sz[u].last
    BY <1>2
  <2> QED  BY <2>1 DEF SeenBar
<1> QED  BY <1>5, <1>6, <1>7, <1>8, <1>9

\* No serializer moved.
LEMMA BarsStay ==
    ASSUME Inv, Inv', UNCHANGED sz
    PROVE  UNCHANGED <<DoingBar, WantedBar, UnknownBar, SeenBar>>
<1>1. QueueAgrees /\ QueueAgrees'
  BY QueueAgreement, PTL
<1>2. \A u \in Threads : Doing(u) = sz[u].doing /\ Doing(u)' = sz'[u].doing
  BY <1>1 DEF QueueAgrees
<1> QED  BY <1>2 DEF DoingBar, WantedBar, UnknownBar, SeenBar

\* The steps that move no serializer stutter.
LEMMA OthersStutter ==
    ASSUME Inv, Inv', UNCHANGED sz
    PROVE  UNCHANGED Brake!brake
  BY BarsStay DEF Brake!brake

\* request_halt asks.
LEMMA RequestAsks ==
    ASSUME Inv, Inv', NEW t \in Threads, NEW i \in Intents, RequestsHalt(t, i)
    PROVE  Brake!Next
<1> DEFINE s == Raise(sz[t], i)
<1>1. sz' = [sz EXCEPT ![t] = s] /\ sz[t] \in Serializers
  BY DEF RequestsHalt, Inv, TypeOK
<1>2. /\ s \in Serializers
      /\ s.needs = sz[t].needs /\ s.last = sz[t].last
      /\ (sz[t].doing # NoIntent \/ sz[t].needs) => s.doing = sz[t].doing /\ s.queued = i
      /\ ~(sz[t].doing # NoIntent \/ sz[t].needs) => s.doing = i /\ s.queued = sz[t].queued
  BY <1>1, RaiseFacts
<1> HIDE DEF s
<1>3. /\ DoingBar[t] = sz[t].doing /\ WantedBar[t] = sz[t].queued
      /\ UnknownBar[t] = sz[t].needs /\ SeenBar[t] = sz[t].last
      /\ DoingBar' = [DoingBar EXCEPT ![t] = s.doing]
      /\ WantedBar' = [WantedBar EXCEPT ![t] = s.queued]
      /\ UnknownBar' = [UnknownBar EXCEPT ![t] = s.needs]
      /\ SeenBar' = [SeenBar EXCEPT ![t] = s.last]
  BY <1>1, <1>2, BarsMove
<1>4. UNCHANGED <<UnknownBar, SeenBar>>
  BY <1>2, <1>3 DEF UnknownBar, SeenBar
<1>5. CASE sz[t].doing # NoIntent \/ sz[t].needs
  <2>1. UNCHANGED DoingBar
    BY <1>2, <1>3, <1>5 DEF DoingBar
  <2> QED  BY <1>2, <1>3, <1>4, <1>5, <2>1 DEF Brake!Next, Brake!Asks, Brake!Idle, Brake!Intents, Intents
<1>6. CASE ~(sz[t].doing # NoIntent \/ sz[t].needs)
  <2>1. UNCHANGED WantedBar
    BY <1>2, <1>3, <1>6 DEF WantedBar
  <2> QED  BY <1>2, <1>3, <1>4, <1>6, <2>1 DEF Brake!Next, Brake!Asks, Brake!Idle, Brake!Intents, Intents
<1> QED  BY <1>5, <1>6

\* The outcome of a write ends it, confirmed or not.
LEMMA OutcomeEnds ==
    ASSUME Inv, Inv', OutcomeLands
    PROVE  Brake!Next
<1> DEFINE t == inFlight.to
           st == IF MarkPending(inFlight.intent) THEN "unconfirmed" ELSE worker.status
           now == Now
           s == Settled(sz[t], sz[t].ticket, st, now)
<1>1. /\ t \in Threads /\ sz[t] \in Serializers /\ sz[t].doing # NoIntent /\ ~sz[t].needs
      /\ now \in Observations \cup {Unseen} /\ sz' = [sz EXCEPT ![t] = s]
  BY OutcomeFacts
<1>2. st \in Statuses
  BY DEF Statuses, Inv, TypeOK
<1>3. st = "unconfirmed" => now = Unseen
  BY DEF Now, Fresh, MarkPending
<1> HIDE DEF t, st, now
<1>4. /\ s \in Serializers
      /\ s.last = IF now = Unseen THEN sz[t].last ELSE now
      /\ st = "unconfirmed" => s.needs /\ s.doing = NoIntent /\ s.queued = sz[t].queued
      /\ st # "unconfirmed" =>
            /\ s.needs = sz[t].needs /\ s.queued = NoIntent
            /\ \/ /\ s.doing = NoIntent
                  /\ sz[t].queued = NoIntent \/ (s.last # Unseen /\ Satisfied(sz[t].queued, s.last))
               \/ s.doing = sz[t].queued
  BY <1>1, <1>2, SettledFacts
<1> HIDE DEF s
<1>5. /\ DoingBar[t] = sz[t].doing /\ WantedBar[t] = sz[t].queued
      /\ UnknownBar[t] = sz[t].needs /\ SeenBar[t] = sz[t].last
      /\ DoingBar' = [DoingBar EXCEPT ![t] = s.doing]
      /\ WantedBar' = [WantedBar EXCEPT ![t] = s.queued]
      /\ UnknownBar' = [UnknownBar EXCEPT ![t] = s.needs]
      /\ SeenBar' = [SeenBar EXCEPT ![t] = s.last]
  BY <1>1, <1>4, BarsMove
<1>6. Brake!Sees(t) \/ UNCHANGED SeenBar
  <2>1. CASE now = Unseen
    BY <1>4, <1>5, <2>1 DEF SeenBar
  <2>2. CASE now # Unseen
    <3>1. s.last \in Observations /\ SeenBar' = [SeenBar EXCEPT ![t] = s.last]
      BY <1>1, <1>4, <1>5, <2>2
    <3>2. SeenBar'[t] = s.last
      BY <1>1, <3>1 DEF SeenBar
    <3> QED  BY <3>1, <3>2 DEF Brake!Sees, Brake!Observations, Observations
  <2> QED  BY <2>1, <2>2
<1>7. CASE st = "unconfirmed"
  <2>1. UNCHANGED <<WantedBar, SeenBar>>
    BY <1>3, <1>4, <1>5, <1>7 DEF WantedBar, SeenBar
  <2>2. Brake!EndsUnconfirmed(t)
    BY <1>1, <1>4, <1>5, <1>7, <2>1 DEF Brake!EndsUnconfirmed
  <2> QED  BY <1>1, <2>2 DEF Brake!Next
<1>8. CASE st # "unconfirmed"
  <2>1. UNCHANGED UnknownBar
    BY <1>4, <1>5, <1>8 DEF UnknownBar
  <2>2. SeenBar'[t] = s.last
    BY <1>1, <1>5 DEF SeenBar
  <2>3. Brake!Continues(t)
    BY <1>4, <1>5, <1>8, <2>2 DEF Brake!Continues, Brake!Satisfied, Satisfied
  <2>4. Brake!Ends(t)
    BY <1>1, <1>5, <1>6, <2>1, <2>3 DEF Brake!Ends
  <2> QED  BY <1>1, <2>4 DEF Brake!Next
<1> QED  BY <1>7, <1>8

\* An attach observes; for a thread nobody halted it says nothing.
LEMMA ReadObserves ==
    ASSUME Inv, Inv', NEW t \in Threads, ReadLands(t)
    PROVE  Brake!Next \/ UNCHANGED Brake!brake
<1>1. CASE sz[t].ticket = 0
  <2>1. sz' = sz
    BY <1>1 DEF ReadLands, Inv, TypeOK
  <2> QED  BY <2>1, OthersStutter
<1>2. CASE sz[t].ticket # 0
  <2> DEFINE o == read[t].seen
             s == Observed(sz[t], o)
  <2>1. o \in Observations /\ sz[t] \in Serializers /\ sz' = [sz EXCEPT ![t] = s]
    BY <1>2 DEF ReadLands, Inv, TypeOK, ReadsOK
  <2> HIDE DEF o
  <2>2. /\ s \in Serializers /\ ~s.needs /\ s.last = o
        /\ sz[t].doing # NoIntent => s.doing = sz[t].doing /\ s.queued = sz[t].queued
        /\ sz[t].doing = NoIntent =>
              /\ s.queued = NoIntent
              /\ \/ s.doing = NoIntent /\ (sz[t].queued = NoIntent \/ Satisfied(sz[t].queued, o))
                 \/ s.doing = sz[t].queued
    BY <2>1, ObservedFacts
  <2>3. o # Unseen
    BY <2>1, NullsAssumption
  <2> HIDE DEF s
  <2>4. /\ DoingBar[t] = sz[t].doing /\ WantedBar[t] = sz[t].queued
        /\ UnknownBar[t] = sz[t].needs /\ SeenBar[t] = sz[t].last
        /\ DoingBar' = [DoingBar EXCEPT ![t] = s.doing]
        /\ WantedBar' = [WantedBar EXCEPT ![t] = s.queued]
        /\ UnknownBar' = [UnknownBar EXCEPT ![t] = s.needs]
        /\ SeenBar' = [SeenBar EXCEPT ![t] = s.last]
    BY <2>1, <2>2, BarsMove
  <2>5. SeenBar'[t] = o
    BY <2>2, <2>4 DEF SeenBar
  <2>6. Brake!Sees(t)
    BY <2>1, <2>2, <2>4, <2>5 DEF Brake!Sees, Brake!Observations, Observations
  <2>7. UnknownBar' = [UnknownBar EXCEPT ![t] = FALSE]
    <3>1. s.needs = FALSE
      BY <2>2 DEF Serializers
    <3> QED  BY <2>4, <3>1
  <2>8. IF DoingBar[t] = NoIntent THEN Brake!Continues(t) ELSE UNCHANGED <<DoingBar, WantedBar>>
    <3>1. CASE sz[t].doing = NoIntent
      <4>1. SeenBar'[t] # Unseen /\ \A i : Brake!Satisfied(i, SeenBar'[t]) <=> Satisfied(i, o)
        BY <2>3, <2>5 DEF Brake!Satisfied, Satisfied
      <4>2. /\ s.queued = NoIntent
            /\ \/ s.doing = NoIntent /\ (sz[t].queued = NoIntent \/ Satisfied(sz[t].queued, o))
               \/ s.doing = sz[t].queued
        BY <2>2, <3>1
      <4> QED  BY <2>4, <3>1, <4>1, <4>2 DEF Brake!Continues
    <3>2. CASE sz[t].doing # NoIntent
      <4>1. s.doing = sz[t].doing /\ s.queued = sz[t].queued
        BY <2>2, <3>2
      <4>2. DoingBar' = DoingBar
        BY <2>4, <4>1 DEF DoingBar
      <4>3. WantedBar' = WantedBar
        BY <2>4, <4>1 DEF WantedBar
      <4> QED  BY <2>4, <3>2, <4>2, <4>3
    <3> QED  BY <2>4, <3>1, <3>2
  <2> QED  BY <2>6, <2>7, <2>8 DEF Brake!Next, Brake!Observes
<1> QED  BY <1>1, <1>2

LEMMA FrameGlimpses ==
    ASSUME Inv, Inv', NEW t \in Threads, FrameHeard(t)
    PROVE  Brake!Next
<1>1. PICK by \in {"nobody", "self", "ancestor"} :
          sz' = [sz EXCEPT ![t].last = Seen(server[t].own, by)]
  BY FrameSays
<1> DEFINE o == Seen(server[t].own, by)
           s == [sz[t] EXCEPT !.last = o]
<1>2. sz' = [sz EXCEPT ![t] = s] /\ sz[t] \in Serializers /\ sz'[t] \in Serializers
  BY <1>1 DEF Inv, TypeOK
<1>3. sz'[t] = s /\ s \in Serializers
  BY <1>2 DEF Inv, TypeOK
<1>4. /\ s.doing = sz[t].doing /\ s.queued = sz[t].queued /\ s.needs = sz[t].needs
      /\ s.last = o
  <2> HIDE DEF o
  <2> QED  BY <1>2 DEF Serializers
<1>5. o \in Observations
  <2>1. server[t].own \in BOOLEAN
    BY DEF Inv, TypeOK, Observations
  <2> QED  BY <2>1 DEF Seen, Observations
<1> HIDE DEF s, o
<1>6. /\ DoingBar[t] = sz[t].doing /\ WantedBar[t] = sz[t].queued
      /\ UnknownBar[t] = sz[t].needs
      /\ DoingBar' = [DoingBar EXCEPT ![t] = s.doing]
      /\ WantedBar' = [WantedBar EXCEPT ![t] = s.queued]
      /\ UnknownBar' = [UnknownBar EXCEPT ![t] = s.needs]
      /\ SeenBar' = [SeenBar EXCEPT ![t] = s.last]
  BY <1>2, <1>3, BarsMove
<1>7. UNCHANGED <<DoingBar, WantedBar, UnknownBar>>
  <2>1. DoingBar' = DoingBar
    BY <1>4, <1>6 DEF DoingBar
  <2>2. WantedBar' = WantedBar
    BY <1>4, <1>6 DEF WantedBar
  <2>3. UnknownBar' = UnknownBar
    BY <1>4, <1>6 DEF UnknownBar
  <2> QED  BY <2>1, <2>2, <2>3
<1>8. SeenBar'[t] = o
  BY <1>4, <1>6 DEF SeenBar
<1>9. Brake!Sees(t)
  BY <1>4, <1>5, <1>6, <1>8 DEF Brake!Sees, Brake!Observations, Observations
<1> QED
  BY <1>7, <1>9 DEF Brake!Next, Brake!Glimpses

\* The detailed specification implements the abstract one.
THEOREM Implements == Spec => KeepsPromise
<1>1. ASSUME Init
      PROVE  Brake!Init
  <2>1. Inv
    BY <1>1, InitInv
  <2>2. \A t \in Threads : Doing(t) = NoIntent
    BY <1>1, <2>1, DoingIsClaimed DEF Init, NewSerializer
  <2> QED
    BY <1>1, <2>2
    DEF Init, NewSerializer, Brake!Init, DoingBar, WantedBar, UnknownBar, SeenBar
<1>2. ASSUME Inv, Inv', [Next]_vars
      PROVE  [Brake!Next]_(Brake!brake)
  <2>1. ASSUME NEW t \in Threads, NEW i \in Raised[t], RequestsHalt(t, i)
        PROVE  Brake!Next
    <3>1. i \in Intents
      BY BoundsAssumption
    <3> QED  BY <1>2, <2>1, <3>1, RequestAsks
  <2>2. CASE OutcomeLands
    BY <1>2, <2>2, OutcomeEnds
  <2>3. ASSUME NEW t \in Threads, ReadLands(t)
        PROVE  Brake!Next \/ UNCHANGED Brake!brake
    BY <1>2, <2>3, ReadObserves
  <2>4. ASSUME NEW t \in Threads, FrameHeard(t)
        PROVE  Brake!Next
    BY <1>2, <2>4, FrameGlimpses
  <2>5. CASE \/ Launches \/ Worker \/ Server \/ UNCHANGED vars
             \/ \E t \in Threads : \/ \E gone \in SUBSET Threads : Shows(t, gone)
                                   \/ Rereads(t) \/ Hello(t) \/ ReadFails(t)
    <3>1. UNCHANGED sz
      BY <2>5 DEF Launches, Worker, Attaches, AttachFails, Confirms, RunsDry, Server, Serves,
                  Refuses, OthersAct, Shows, Rereads, Hello, ReadFails, vars, app
    <3> QED  BY <1>2, <3>1, OthersStutter
  <2> QED  BY <1>2, <2>1, <2>2, <2>3, <2>4, <2>5 DEF Next
<1> QED  BY <1>1, <1>2, Invariance, PTL DEF Spec, KeepsPromise, Brake!Spec
=============================================================================
