--------------------- MODULE OperationsProjectionProofs ---------------------
(***************************************************************************)
(* The operations projection never runs backwards, answers with a fresh    *)
(* snapshot and streams its changes in order, for any number of workers    *)
(* and pages and any capacity.                                             *)
(*                                                                         *)
(* Four lemmas say what a step may do to the world, to what was polled, to *)
(* the projection and to a page; the invariants follow from them.          *)
(***************************************************************************)
EXTENDS OperationsProjection, NumberInduction

WorkerView == [status : {"pending", "unreachable", "stopped", "running"}, change : Nat]

State == [workers : [Workers -> WorkerView], records : Nat]

Event == [seq : Nat, state : State]

PageState ==
    [at : {"closed", "asking", "lost", "streaming"}, cursor : Nat, life : Nat,
     shown : State, pending : Seq(Event), asked : State]

\* Every variable has its type, but for the two that nothing below depends on.
TypeOK ==
    /\ status \in [Workers -> {"stopped", "running"}] /\ changes \in [Workers -> Nat]
    /\ records \in Nat
    /\ server \in {"starting", "up", "stopping", "down"} /\ life \in Nat
    /\ line \in Seq(Refreshers)
    /\ polled \in [Refreshers -> [Workers -> WorkerView]]
    /\ eventSeq \in Nat /\ snapshot \in State /\ events \in Seq(Event)
    /\ page \in [Pages -> PageState] /\ asleep \subseteq Pages

\* Nobody is in line twice.
Distinct(s) == \A i, j \in 1 .. Len(s) : s[i] = s[j] => i = j

In(h, s) == \E i \in 1 .. Len(s) : s[i] = h

\* Who waits for the lock waits once, and a page that waits has asked.  Only the one at
\* the head has begun to poll, and a process that is not up yet serves nobody.
LineInv ==
    /\ Distinct(line)
    /\ \A p \in Pages : In(p, line) => page[p].at = "asking"
    /\ \A h \in Refreshers : ~Refreshing(h) => polled[h] = NothingPolled
    /\ server = "down" => line = << >>
    /\ server \in {"down", "starting"} =>
          \A p \in Pages : page[p].at \notin {"asking", "streaming"}

NotSeen == {Unreachable, NotPolled}

\* View v of a worker is not newer than its change number n.
UpTo(v, n) == v \in NotSeen \/ v.change <= n

\* All states that the projection shows.
Shown == {events[i].state : i \in 1 .. Len(events)} \cup {snapshot}

\* Nothing is shown that has not happened yet.
ShownIsPast ==
    \A state \in Shown : /\ state.records <= records
                         /\ \A w \in Workers : UpTo(state.workers[w], changes[w])

\* What is being polled is not older than what is shown, and has happened.
PolledIsNewer ==
    \A h \in Refreshers, w \in Workers :
        polled[h][w] \notin NotSeen =>
            /\ polled[h][w].change <= changes[w]
            /\ \A state \in Shown : UpTo(state.workers[w], polled[h][w].change)

HistoryInv == ShownIsPast /\ PolledIsNewer /\ NeverOlder

\* What a page asked about lies before what is polled for it.
AskedIsPast ==
    \A p \in Pages : page[p].at = "asking" =>
        /\ page[p].asked.records <= records
        /\ \A w \in Workers :
              /\ UpTo(page[p].asked.workers[w], changes[w])
              /\ polled[p][w] \notin NotSeen =>
                    UpTo(page[p].asked.workers[w], polled[p][w].change)

\* The kept events are the last ones, up to the capacity.
EventsAreTheLast ==
    /\ Len(events) <= EventCapacity
    /\ \A i \in 1 .. Len(events) : events[i].seq = eventSeq - Len(events) + i
    /\ Len(events) < EventCapacity => eventSeq = Len(events)

\* What a page leaves out when it goes from one number to another, it leaves out because
\* it is too far behind the last.
InReach(from, to, last) == to > from /\ (to > from + 1 => last > from + EventCapacity)

\* Numbers that follow each other.
Consecutive(s) == \A i \in 1 .. Len(s) - 1 : s[i + 1].seq = s[i].seq + 1

PendingInOrder ==
    \A p \in Pages :
        /\ page[p].at # "streaming" => page[p].pending = << >>
        /\ page[p].life <= life
        /\ Consecutive(page[p].pending)
        /\ page[p].pending # << >> /\ page[p].life = life =>
              InReach(page[p].cursor, page[p].pending[1].seq, eventSeq)

\* Who sleeps has a stream and has written all it had collected.
AsleepIsListening ==
    \A p \in asleep : page[p].at = "streaming" /\ page[p].pending = << >>

SleepInv == AsleepIsListening /\ NoWakeUpLost

OperationsInv ==
    /\ TypeOK /\ LineInv /\ HistoryInv /\ AskedIsPast /\ EventsAreTheLast /\ PendingInOrder
    /\ SleepInv

-----------------------------------------------------------------------------
(* What a step may do. *)

\* The world moves on.
WorldStep ==
    records <= records' /\ \A w \in Workers : changes[w] <= changes'[w]

\* A poll gets a worker as it is, or nothing.
PolledStep ==
    \A h \in Refreshers, w \in Workers :
        polled'[h][w] \in {polled[h][w], NotPolled, Unreachable, World.workers[w]}

\* The projection changes at the end of a refresh, and starts again with a process.
ProjectionStep ==
    \/ UNCHANGED <<eventSeq, snapshot, events, life>>
    \/ \E h \in Refreshers : Publish(h)
    \/ Boot

\* The life of a page.
PageStep(p) ==
    \/ page'[p] = page[p]
    \/ /\ page[p].at = "closed" /\ polled'[p] = NothingPolled
       /\ page'[p] = [page[p] EXCEPT !.at = "asking", !.asked = World]
    \/ /\ Refreshing(p) /\ life' = life
       /\ page'[p] = [page[p] EXCEPT !.at = "lost", !.cursor = eventSeq', !.life = life,
                                     !.shown = BuildState(p), !.asked = Nothing]
    \/ /\ UNCHANGED <<eventSeq, life>>
       /\ \/ /\ page[p].at = "lost"
             /\ page'[p] = [page[p] EXCEPT !.at = "streaming", !.pending = << >>]
          \/ /\ Streaming(p) /\ Newer(page[p].cursor) # << >>
             /\ page'[p] = [page[p] EXCEPT !.pending = Newer(page[p].cursor)]
          \/ /\ Streaming(p) /\ page[p].pending # << >>
             /\ page'[p] = [page[p] EXCEPT !.pending = Tail(page[p].pending),
                               !.cursor = Head(page[p].pending).seq, !.life = life,
                               !.shown = Head(page[p].pending).state]
          \/ /\ Streaming(p)
             /\ page'[p] = [page[p] EXCEPT !.at = "lost", !.pending = << >>]
          \/ /\ page[p].at = "asking"
             /\ page'[p] = [page[p] EXCEPT !.at = "closed", !.asked = Nothing]

\* Time does not go back.
LEMMA WorldSteps == TypeOK /\ [Next]_vars => WorldStep
<1> SUFFICES ASSUME TypeOK, [Next]_vars PROVE WorldStep
  OBVIOUS
<1>0. records \in Nat /\ \A w \in Workers : changes[w] \in Nat
  BY DEF TypeOK
<1>1. ASSUME UNCHANGED worldVars PROVE WorldStep
  BY <1>0, <1>1 DEF worldVars, WorldStep
<1>2. ASSUME NEW w \in Workers, WorkerChanges(w) PROVE WorldStep
  BY <1>0, <1>2 DEF WorkerChanges, WorldStep, TypeOK
<1>3. CASE RecordsChange
  BY <1>0, <1>3 DEF RecordsChange, WorldStep
<1>4. CASE PollAgain \/ Stop \/ Halt \/ Boot
  BY <1>1, <1>4 DEF PollAgain, Stop, Halt, Boot
<1>5. ASSUME NEW h \in Refreshers, Refresh(h) PROVE WorldStep
  BY <1>1, <1>5 DEF Refresh, Publish, PollWorker
<1>6. ASSUME NEW p \in Pages, Ask(p) \/ Subscribe(p) \/ Page(p) \/ Disconnect(p) PROVE WorldStep
  BY <1>1, <1>6 DEF Ask, Subscribe, Page, Collect, Wait, Deliver, Disconnect
<1>7. CASE UNCHANGED vars
  BY <1>1, <1>7 DEF vars
<1> QED
  BY <1>2, <1>3, <1>4, <1>5, <1>6, <1>7 DEF Next

\* Only a refresh polls.
LEMMA PolledSteps == TypeOK /\ [Next]_vars => PolledStep
<1> SUFFICES ASSUME TypeOK, [Next]_vars PROVE PolledStep
  OBVIOUS
<1>0. polled \in [Refreshers -> [Workers -> WorkerView]] /\ Poller \in Refreshers
  BY DEF TypeOK, Refreshers
<1>1. ASSUME UNCHANGED polled PROVE PolledStep
  BY <1>1 DEF PolledStep
<1>2. ASSUME NEW h \in Refreshers, polled' = [polled EXCEPT ![h] = NothingPolled]
      PROVE  PolledStep
  <2> SUFFICES ASSUME NEW g \in Refreshers, NEW w \in Workers
               PROVE  polled'[g][w] \in {polled[g][w], NotPolled, Unreachable, World.workers[w]}
    BY DEF PolledStep
  <2>1. CASE g = h
    <3>1. polled'[g] = NothingPolled
      BY <1>0, <1>2, <2>1
    <3> QED
      BY <3>1 DEF NothingPolled
  <2>2. CASE g # h
    <3>1. polled'[g] = polled[g]
      BY <1>0, <1>2, <2>2
    <3> QED
      BY <3>1
  <2> QED
    BY <2>1, <2>2
<1>3. ASSUME NEW h \in Refreshers, NEW w \in Workers, PollWorker(h, w) PROVE PolledStep
  <2>1. PICK v \in {Unreachable, World.workers[w]} : polled' = [polled EXCEPT ![h][w] = v]
    BY <1>3 DEF PollWorker
  <2> SUFFICES ASSUME NEW g \in Refreshers, NEW x \in Workers
               PROVE  polled'[g][x] \in {polled[g][x], NotPolled, Unreachable, World.workers[x]}
    BY DEF PolledStep
  <2>2. polled'[g][x] = IF g = h /\ x = w THEN v ELSE polled[g][x]
    BY <1>0, <2>1
  <2> QED
    BY <2>2
<1>4. CASE PollAgain \/ Stop \/ Boot
  BY <1>0, <1>2, <1>4 DEF PollAgain, Enter, Stop, Boot
<1>5. CASE Halt
  <2>1. polled' = [h \in Refreshers |-> NothingPolled]
    BY <1>5 DEF Halt
  <2> QED
    BY <2>1 DEF PolledStep, NothingPolled
<1>6. ASSUME NEW h \in Refreshers, Refresh(h) PROVE PolledStep
  BY <1>2, <1>3, <1>6 DEF Refresh, Publish
<1>7. ASSUME NEW p \in Pages, Ask(p) PROVE PolledStep
  BY <1>2, <1>7 DEF Ask, Enter, Refreshers
<1>8. ASSUME NEW p \in Pages, Subscribe(p) \/ Page(p) \/ Disconnect(p) PROVE PolledStep
  BY <1>1, <1>8 DEF Subscribe, Page, Collect, Wait, Deliver, Disconnect
<1>9. ASSUME NEW w \in Workers, WorkerChanges(w) PROVE PolledStep
  BY <1>1, <1>9 DEF WorkerChanges
<1>10. CASE RecordsChange \/ UNCHANGED vars
  BY <1>1, <1>10 DEF RecordsChange, vars
<1> QED
  BY <1>4, <1>5, <1>6, <1>7, <1>8, <1>9, <1>10 DEF Next

\* Only refresh and the constructor write the projection.
LEMMA ProjectionSteps == [Next]_vars => ProjectionStep
<1> SUFFICES ASSUME [Next]_vars PROVE ProjectionStep
  OBVIOUS
<1> USE DEF projectionVars
<1>1. ASSUME UNCHANGED <<life, projectionVars>> PROVE ProjectionStep
  BY <1>1 DEF ProjectionStep
<1>2. ASSUME NEW h \in Refreshers, Refresh(h) PROVE ProjectionStep
  BY <1>1, <1>2 DEF Refresh, PollWorker, ProjectionStep
<1>3. ASSUME NEW p \in Pages, Ask(p) \/ Subscribe(p) \/ Page(p) \/ Disconnect(p)
      PROVE  ProjectionStep
  BY <1>1, <1>3 DEF Ask, Subscribe, Page, Collect, Wait, Deliver, Disconnect
<1>4. ASSUME NEW w \in Workers, WorkerChanges(w) PROVE ProjectionStep
  BY <1>1, <1>4 DEF WorkerChanges
<1>5. CASE RecordsChange \/ PollAgain \/ Stop \/ Halt \/ UNCHANGED vars
  BY <1>1, <1>5 DEF RecordsChange, PollAgain, Stop, Halt, vars
<1>6. CASE Boot
  BY <1>6 DEF ProjectionStep
<1> QED
  BY <1>2, <1>3, <1>4, <1>5, <1>6 DEF Next

\* And every page goes through its life.
LEMMA PageSteps ==
    ASSUME TypeOK, [Next]_vars, NEW q \in Pages
    PROVE  PageStep(q)
<1> USE DEF projectionVars
<1>0. page \in [Pages -> PageState]
  BY DEF TypeOK
<1>1. ASSUME UNCHANGED page PROVE PageStep(q)
  BY <1>1 DEF PageStep
<1>2. ASSUME NEW p \in Pages, Ask(p) PROVE PageStep(q)
  <2>1. CASE p = q
    <3>1. polled'[p] = NothingPolled
      BY <1>2 DEF Ask, Enter, TypeOK, Refreshers
    <3>2. page'[p] = [page[p] EXCEPT !.at = "asking", !.asked = World]
      BY <1>0, <1>2 DEF Ask, PageState
    <3> QED
      BY <1>2, <2>1, <3>1, <3>2 DEF Ask, PageStep
  <2>2. CASE p # q
    BY <1>0, <1>2, <2>2 DEF Ask, PageStep
  <2> QED
    BY <2>1, <2>2
<1>3. ASSUME NEW h \in Refreshers, Publish(h) PROVE PageStep(q)
  <2>1. Refreshing(h) /\ life' = life /\ Answer(h, eventSeq', BuildState(h))
    BY <1>3 DEF Publish
  <2>2. CASE h = Poller
    BY <1>1, <2>1, <2>2 DEF Answer
  <2>3. CASE h # Poller
    <3>1. page' = [page EXCEPT ![h].at = "lost", ![h].cursor = eventSeq', ![h].life = life,
                               ![h].shown = BuildState(h), ![h].asked = Nothing]
      BY <2>1, <2>3 DEF Answer
    <3>2. CASE h = q
      BY <1>0, <2>1, <3>1, <3>2 DEF PageStep, PageState
    <3>3. CASE h # q
      BY <1>0, <3>1, <3>3 DEF PageStep
    <3> QED
      BY <3>2, <3>3
  <2> QED
    BY <2>2, <2>3
<1>4. ASSUME NEW p \in Pages, Subscribe(p) PROVE PageStep(q)
  <2>1. CASE p = q
    BY <1>0, <1>4, <2>1 DEF Subscribe, PageStep, PageState
  <2>2. CASE p # q
    BY <1>0, <1>4, <2>2 DEF Subscribe, PageStep
  <2> QED
    BY <2>1, <2>2
<1>5. ASSUME NEW p \in Pages, Collect(p) PROVE PageStep(q)
  <2>1. CASE p = q
    BY <1>0, <1>5, <2>1 DEF Collect, PageStep, PageState
  <2>2. CASE p # q
    BY <1>0, <1>5, <2>2 DEF Collect, PageStep
  <2> QED
    BY <2>1, <2>2
<1>6. ASSUME NEW p \in Pages, Deliver(p) PROVE PageStep(q)
  <2>1. CASE p = q
    BY <1>0, <1>6, <2>1 DEF Deliver, PageStep, PageState
  <2>2. CASE p # q
    BY <1>0, <1>6, <2>2 DEF Deliver, PageStep
  <2> QED
    BY <2>1, <2>2
<1>7. ASSUME NEW p \in Pages, Disconnect(p) PROVE PageStep(q)
  <2>1. CASE p = q
    BY <1>0, <1>7, <2>1 DEF Disconnect, PageStep, PageState
  <2>2. CASE p # q
    BY <1>0, <1>7, <2>2 DEF Disconnect, PageStep
  <2> QED
    BY <2>1, <2>2
<1>8. CASE Halt
  <2>1. /\ UNCHANGED <<eventSeq, life>>
        /\ page'[q] = CASE page[q].at = "asking" ->
                              [page[q] EXCEPT !.at = "closed", !.asked = Nothing]
                        [] page[q].at = "streaming" ->
                              [page[q] EXCEPT !.at = "lost", !.pending = << >>]
                        [] OTHER -> page[q]
    BY <1>8 DEF Halt
  <2> QED
    BY <2>1 DEF PageStep, Streaming
<1>9. ASSUME NEW h \in Refreshers, NEW w \in Workers, PollWorker(h, w) PROVE PageStep(q)
  BY <1>1, <1>9 DEF PollWorker
<1>10. ASSUME NEW w \in Workers, WorkerChanges(w) PROVE PageStep(q)
  BY <1>1, <1>10 DEF WorkerChanges
<1>11. CASE RecordsChange \/ PollAgain \/ Stop \/ Boot \/ UNCHANGED vars
  BY <1>1, <1>11 DEF RecordsChange, PollAgain, Stop, Boot, vars
<1>12. ASSUME NEW p \in Pages, Wait(p) PROVE PageStep(q)
  BY <1>1, <1>12 DEF Wait
<1> QED
  BY <1>2, <1>3, <1>4, <1>5, <1>6, <1>7, <1>8, <1>9, <1>10, <1>11, <1>12
     DEF Next, Refresh, Page

-----------------------------------------------------------------------------
(* What subscribe collects. *)

\* One turn of its loop.
Pick(found, e, c) == IF e.seq > c THEN Append(found, e) ELSE found

\* The loop has lists to go through, however many events are kept.
LEMMA PicksExist ==
    ASSUME NEW s \in Seq(Event), NEW c
    PROVE  \E T \in [0 .. Len(s) -> Seq(Event)] :
              T[0] = << >> /\ \A n \in 1 .. Len(s) : T[n] = Pick(T[n - 1], s[n], c)
<1> DEFINE Good(m, T) == T[0] = << >> /\ \A n \in 1 .. m : T[n] = Pick(T[n - 1], s[n], c)
           S == {m \in 0 .. Len(s) : \E T \in [0 .. m -> Seq(Event)] : Good(m, T)}
<1>1. Len(s) \in Nat /\ 0 \in Nat
  OBVIOUS
<1>2. 0 \in S
  <2>1. << >> \in Seq(Event)
    OBVIOUS
  <2>2. PICK T \in [0 .. 0 -> Seq(Event)] : T = [i \in 0 .. 0 |-> << >>]
    BY <2>1
  <2>3. Good(0, T) /\ 0 \in 0 .. Len(s)
    BY <1>1, <2>2
  <2> QED
    BY <2>3
<1>3. ASSUME NEW m \in 0 .. Len(s) - 1, m \in S PROVE m + 1 \in S
  <2>1. PICK T \in [0 .. m -> Seq(Event)] : Good(m, T)
    BY <1>3
  <2>2. m \in Nat /\ m + 1 \in 1 .. Len(s) /\ s[m + 1] \in Event /\ T[m] \in Seq(Event)
    BY <1>1
  <2> DEFINE U == [n \in 0 .. m + 1 |-> IF n = m + 1 THEN Pick(T[m], s[m + 1], c) ELSE T[n]]
  <2>3. Pick(T[m], s[m + 1], c) \in Seq(Event)
    BY <2>2 DEF Pick
  <2>4. U \in [0 .. m + 1 -> Seq(Event)]
    BY <2>2, <2>3
  <2>5. ASSUME NEW n \in 1 .. m + 1 PROVE U[n] = Pick(U[n - 1], s[n], c)
    <3>1. CASE n = m + 1
      BY <2>2, <3>1
    <3>2. CASE n \in 1 .. m
      BY <2>1, <2>2, <3>2
    <3> QED
      BY <2>2, <3>1, <3>2
  <2>6. U[0] = << >>
    BY <2>1, <2>2
  <2> HIDE DEF U
  <2>7. Good(m + 1, U)
    BY <2>5, <2>6
  <2> HIDE DEF Good
  <2>8. \E V \in [0 .. m + 1 -> Seq(Event)] : Good(m + 1, V)
    BY <2>4, <2>7
  <2>9. m + 1 \in 0 .. Len(s)
    BY <2>2
  <2> QED
    BY <2>8, <2>9
<1> HIDE DEF S
<1>4. \A i \in 0 .. Len(s) : i \in S
  BY <1>1, <1>2, <1>3, IntervalInduction
<1>5. Len(s) \in S
  BY <1>1, <1>4
<1> QED
  BY <1>5 DEF S

\* What has been found after n events: nothing, and none is newer; or an unbroken row that
\* ends with the last of them and begins right after c or with the first that is kept.
Found(found, s, n, c) ==
    \/ found = << >> /\ \A i \in 1 .. n : ~(s[i].seq > c)
    \/ /\ found # << >> /\ n > 0
       /\ Consecutive(found) /\ found[Len(found)] = s[n] /\ s[n].seq > c
       /\ found[1].seq > c /\ (found[1].seq = c + 1 \/ found[1].seq = s[1].seq)

\* An event more keeps the row unbroken.
LEMMA PickFinds ==
    ASSUME NEW s \in Seq(Event), NEW c \in Nat, NEW m \in 0 .. Len(s) - 1,
           NEW found \in Seq(Event), Found(found, s, m, c), Consecutive(s)
    PROVE  Found(Pick(found, s[m + 1], c), s, m + 1, c)
<1> DEFINE e == s[m + 1]
<1>1. Len(s) \in Nat /\ m \in Nat /\ m + 1 \in 1 .. Len(s) /\ m + 1 > 0
  OBVIOUS
<1>2. ASSUME NEW i \in 1 .. Len(s) PROVE s[i] \in Event /\ s[i].seq \in Nat
  <2>1. s[i] \in Event
    OBVIOUS
  <2> QED
    BY <2>1 DEF Event
<1>3. e \in Event /\ e.seq \in Nat
  BY <1>1, <1>2
<1>4. m > 0 => m \in 1 .. Len(s) /\ m \in 1 .. Len(s) - 1 /\ e.seq = s[m].seq + 1 /\ s[m].seq \in Nat
  BY <1>1, <1>2 DEF Consecutive
<1> HIDE DEF e
<1>5. CASE found = << >> /\ (\A i \in 1 .. m : ~(s[i].seq > c)) /\ ~(e.seq > c)
  <2>1. Pick(found, e, c) = << >>
    BY <1>5 DEF Pick
  <2>2. \A i \in 1 .. m + 1 : ~(s[i].seq > c)
    BY <1>1, <1>5 DEF e
  <2> QED
    BY <2>1, <2>2 DEF Found, e
<1>6. CASE found = << >> /\ (\A i \in 1 .. m : ~(s[i].seq > c)) /\ e.seq > c
  <2> DEFINE new == Append(found, e)
  <2>1. Pick(found, e, c) = new
    BY <1>6 DEF Pick
  <2>2. new # << >> /\ Len(new) = 1 /\ new[1] = e /\ Consecutive(new)
    BY <1>6, <1>3 DEF Consecutive
  <2>3. m > 0 => e.seq = c + 1
    BY <1>1, <1>3, <1>4, <1>6
  <2>4. m = 0 => e.seq = s[1].seq
    BY DEF e
  <2>5. e.seq = c + 1 \/ e.seq = s[1].seq
    BY <1>1, <2>3, <2>4
  <2> HIDE DEF new
  <2>6. Found(new, s, m + 1, c)
    BY <1>1, <1>6, <2>2, <2>5 DEF Found, e
  <2> QED
    BY <2>1, <2>6 DEF e
<1>7. CASE /\ found # << >> /\ m > 0
           /\ Consecutive(found) /\ found[Len(found)] = s[m] /\ s[m].seq > c
           /\ found[1].seq > c /\ (found[1].seq = c + 1 \/ found[1].seq = s[1].seq)
  <2> DEFINE new == Append(found, e)
             n == Len(found)
  <2>1. e.seq > c
    BY <1>3, <1>4, <1>7
  <2>2. Pick(found, e, c) = new
    BY <2>1 DEF Pick
  <2>3. /\ n \in Nat /\ n > 0 /\ Len(new) = n + 1 /\ new # << >> /\ new[n + 1] = e
        /\ \A i \in 1 .. n : new[i] = found[i]
    BY <1>3, <1>7
  <2>4. ASSUME NEW i \in 1 .. Len(new) - 1 PROVE new[i + 1].seq = new[i].seq + 1
    <3>1. CASE i = n
      BY <1>4, <1>7, <2>3, <3>1
    <3>2. CASE i \in 1 .. n - 1
      <4>1. new[i] = found[i] /\ new[i + 1] = found[i + 1]
        BY <2>3, <3>2
      <4> QED
        BY <1>7, <3>2, <4>1 DEF Consecutive
    <3> QED
      BY <2>3, <3>1, <3>2
  <2>5. Consecutive(new)
    BY <2>4 DEF Consecutive
  <2>6. new[1] = found[1] /\ new[Len(new)] = e
    BY <2>3
  <2> HIDE DEF new
  <2>7. Found(new, s, m + 1, c)
    BY <1>1, <1>7, <2>1, <2>3, <2>5, <2>6 DEF Found, e
  <2> QED
    BY <2>2, <2>7 DEF e
<1> QED
  BY <1>5, <1>6, <1>7 DEF Found

\* So subscribe finds an unbroken row of events.
LEMMA NewerFinds ==
    ASSUME events \in Seq(Event), NEW c \in Nat, Consecutive(events)
    PROVE  Newer(c) \in Seq(Event) /\ Found(Newer(c), events, Len(events), c)
<1> DEFINE s == events
           Loop(T) == [n \in 0 .. Len(s) |-> IF n = 0 THEN << >> ELSE Pick(T[n - 1], s[n], c)]
           C == CHOOSE T : T = Loop(T)
<1>1. PICK T \in [0 .. Len(s) -> Seq(Event)] :
              T[0] = << >> /\ \A n \in 1 .. Len(s) : T[n] = Pick(T[n - 1], s[n], c)
  BY PicksExist
<1>2. T = Loop(T)
  BY <1>1
<1>3. C = Loop(C)
  BY <1>2
<1>4. Newer(c) = C[Len(s)]
  BY DEF Newer, Pick
<1>5. \A U : Loop(U)[0] = << >> /\ \A n \in 1 .. Len(s) : Loop(U)[n] = Pick(U[n - 1], s[n], c)
  OBVIOUS
<1> HIDE DEF C, Loop
<1>6. C[0] = << >> /\ \A n \in 1 .. Len(s) : C[n] = Pick(C[n - 1], s[n], c)
  BY <1>3, <1>5
<1> DEFINE S == {n \in 0 .. Len(s) : C[n] \in Seq(Event) /\ Found(C[n], s, n, c)}
<1>7. Len(s) \in Nat /\ 0 \in Nat
  OBVIOUS
<1>8. 0 \in S
  <2>1. << >> \in Seq(Event) /\ Found(<< >>, s, 0, c)
    BY DEF Found
  <2>2. C[0] \in Seq(Event) /\ Found(C[0], s, 0, c) /\ 0 \in 0 .. Len(s)
    BY <1>6, <1>7, <2>1
  <2> QED
    BY <2>2
<1>9. ASSUME NEW m \in 0 .. Len(s) - 1, m \in S PROVE m + 1 \in S
  <2>1. /\ m + 1 \in 1 .. Len(s) /\ (m + 1) - 1 = m /\ m + 1 \in 0 .. Len(s)
        /\ s[m + 1] \in Event /\ C[m] \in Seq(Event) /\ Found(C[m], s, m, c)
    BY <1>7, <1>9
  <2>2. C[m + 1] = Pick(C[m], s[m + 1], c)
    BY <1>6, <2>1
  <2>3. Pick(C[m], s[m + 1], c) \in Seq(Event)
    BY <2>1 DEF Pick
  <2>4. Found(Pick(C[m], s[m + 1], c), s, m + 1, c)
    BY <2>1, PickFinds
  <2> QED
    BY <2>1, <2>2, <2>3, <2>4
<1> HIDE DEF S
<1>10. \A i \in 0 .. Len(s) : i \in S
  BY <1>7, <1>8, <1>9, IntervalInduction
<1>11. Len(s) \in S
  BY <1>7, <1>10
<1> QED
  BY <1>4, <1>11 DEF S

-----------------------------------------------------------------------------
(* Waiting for the lock. *)

\* Somebody who is not in line joins it at the end.
LEMMA LineGrows ==
    ASSUME NEW s \in Seq(Refreshers), NEW h \in Refreshers, Distinct(s), ~In(h, s)
    PROVE  /\ Distinct(Append(s, h))
           /\ \A g : In(g, Append(s, h)) => g = h \/ In(g, s)
           /\ s # << >> => Append(s, h) # << >> /\ Head(Append(s, h)) = Head(s)
<1> DEFINE t == Append(s, h)
           n == Len(s)
<1>1. n \in Nat /\ Len(t) = n + 1 /\ t[n + 1] = h /\ \A i \in 1 .. n : t[i] = s[i]
  OBVIOUS
<1>2. s # << >> => t # << >> /\ Head(t) = Head(s)
  OBVIOUS
<1> HIDE DEF t, n
<1>3. ASSUME NEW i \in 1 .. Len(t), NEW j \in 1 .. Len(t), t[i] = t[j] PROVE i = j
  <2>1. (i = n + 1 \/ i \in 1 .. n) /\ (j = n + 1 \/ j \in 1 .. n)
    BY <1>1
  <2> QED
    BY <1>1, <1>3, <2>1 DEF Distinct, In, n
<1>4. ASSUME NEW g, In(g, t) PROVE g = h \/ In(g, s)
  <2>1. PICK i \in 1 .. Len(t) : t[i] = g
    BY <1>4 DEF In
  <2>2. i = n + 1 \/ i \in 1 .. n
    BY <1>1
  <2> QED
    BY <1>1, <2>1, <2>2 DEF In, n
<1>5. Distinct(t)
  BY <1>3 DEF Distinct
<1> QED
  BY <1>2, <1>4, <1>5 DEF t

\* Who leaves the line is no longer in it, whoever that is.
LEMMA LineRemoves ==
    ASSUME NEW s \in Seq(Refreshers), NEW k \in DOMAIN s
    PROVE  /\ RemoveAt(s, k) \in Seq(Refreshers)
           /\ Len(RemoveAt(s, k)) = Len(s) - 1
           /\ \A i \in 1 .. Len(s) - 1 :
                 RemoveAt(s, k)[i] = IF i < k THEN s[i] ELSE s[i + 1]
<1> DEFINE a == SubSeq(s, 1, k - 1)
           b == SubSeq(s, k + 1, Len(s))
<1>1. Len(s) \in Nat /\ k \in 1 .. Len(s) /\ \A i \in 1 .. Len(s) : s[i] \in Refreshers
  OBVIOUS
<1>2. a \in Seq(Refreshers) /\ Len(a) = k - 1 /\ \A i \in 1 .. k - 1 : a[i] = s[i]
  BY <1>1
<1>3. /\ b \in Seq(Refreshers) /\ Len(b) = Len(s) - k
      /\ \A i \in 1 .. Len(s) - k : b[i] = s[i + k]
  BY <1>1
<1>4. RemoveAt(s, k) = a \o b
  BY DEF RemoveAt
<1> HIDE DEF a, b
<1>5. a \o b \in Seq(Refreshers) /\ Len(a \o b) = Len(s) - 1
  BY <1>1, <1>2, <1>3
<1>6. ASSUME NEW i \in 1 .. Len(s) - 1
      PROVE  (a \o b)[i] = IF i < k THEN s[i] ELSE s[i + 1]
  <2>1. CASE i < k
    BY <1>1, <1>2, <1>3, <2>1
  <2>2. CASE ~(i < k)
    <3>0. i \in Len(a) + 1 .. Len(a) + Len(b) /\ ~(i <= Len(a)) /\ i \in 1 .. Len(a) + Len(b)
      BY <1>1, <1>2, <1>3, <2>2, SMTT(30)
    <3>a. (a \o b)[i] = b[i - Len(a)]
      <4>1. a \in Seq(Refreshers) /\ b \in Seq(Refreshers)
        BY <1>2, <1>3
      <4> QED
        BY <3>0, <4>1
    <3>1. (a \o b)[i] = b[i - (k - 1)]
      BY <1>2, <3>a
    <3>2. i - (k - 1) \in 1 .. Len(s) - k /\ (i - (k - 1)) + k = i + 1
      BY <1>1, <2>2
    <3> QED
      BY <1>3, <2>2, <3>1, <3>2
  <2> QED
    BY <2>1, <2>2
<1> QED
  BY <1>4, <1>5, <1>6

-----------------------------------------------------------------------------
(* Types. *)

\* The states that are built have their type.
LEMMA StatesAreTyped ==
    ASSUME TypeOK
    PROVE  /\ World \in State /\ Nothing \in State
           /\ NothingPolled \in [Workers -> WorkerView]
           /\ NotPolled \in WorkerView /\ Unreachable \in WorkerView
           /\ \A h \in Refreshers : BuildState(h) \in State
<1>1. NotPolled \in WorkerView /\ Unreachable \in WorkerView
  BY DEF NotPolled, Unreachable, WorkerView
<1>2. NothingPolled \in [Workers -> WorkerView]
  BY <1>1 DEF NothingPolled
<1>3. Nothing \in State
  BY <1>2 DEF Nothing, State
<1>4. \A w \in Workers : [status |-> status[w], change |-> changes[w]] \in WorkerView
  <2> SUFFICES ASSUME NEW w \in Workers
               PROVE  [status |-> status[w], change |-> changes[w]] \in WorkerView
    OBVIOUS
  <2>1. status[w] \in {"stopped", "running"} /\ changes[w] \in Nat
    BY DEF TypeOK
  <2> QED
    BY <2>1 DEF WorkerView
<1>5. World \in State
  BY <1>4 DEF World, State, TypeOK
<1>6. \A h \in Refreshers : BuildState(h) \in State
  BY DEF BuildState, State, TypeOK
<1> QED
  BY <1>1, <1>2, <1>3, <1>5, <1>6

\* What a refresh leaves in the projection.
LEMMA PublishEffect ==
    ASSUME TypeOK, NEW h \in Refreshers, Publish(h)
    PROVE  /\ snapshot' = BuildState(h)
           /\ \/ UNCHANGED <<events, eventSeq>>
              \/ /\ eventSeq' = eventSeq + 1
                 /\ events' = Keep(Append(events, [seq |-> eventSeq + 1,
                                                   state |-> BuildState(h)]))
BY DEF Publish

\* Append and the limit of the deque: the last events stay, in order.
LEMMA KeepTheLast ==
    ASSUME NEW s \in Seq(Event), NEW e \in Event, Len(s) <= EventCapacity
    PROVE  /\ Keep(Append(s, e)) \in Seq(Event)
           /\ \/ /\ Len(s) < EventCapacity /\ Keep(Append(s, e)) = Append(s, e)
              \/ /\ Len(s) = EventCapacity /\ Keep(Append(s, e)) = Tail(Append(s, e))
<1>1. Append(s, e) \in Seq(Event) /\ Len(Append(s, e)) = Len(s) + 1 /\ Len(s) \in Nat
  OBVIOUS
<1>2. EventCapacity \in Nat
  BY OperationsAssumption
<1>3. CASE Len(s) < EventCapacity
  BY <1>1, <1>2, <1>3 DEF Keep
<1>4. CASE Len(s) = EventCapacity
  BY <1>1, <1>2, <1>4 DEF Keep
<1> QED
  BY <1>1, <1>2, <1>3, <1>4

\* The pages stay the same pages.
LEMMA PagesStay == TypeOK /\ [Next]_vars => page' = [q \in Pages |-> page'[q]]
<1> SUFFICES ASSUME TypeOK, [Next]_vars PROVE page' = [q \in Pages |-> page'[q]]
  OBVIOUS
<1>0. page \in [Pages -> PageState]
  BY DEF TypeOK
<1>1. CASE UNCHANGED page
  BY <1>0, <1>1
<1>2. ASSUME NEW p \in Pages, Ask(p) \/ Subscribe(p) \/ Disconnect(p)
      PROVE  page' = [q \in Pages |-> page'[q]]
  BY <1>0, <1>2 DEF Ask, Subscribe, Disconnect
<1>3. ASSUME NEW p \in Pages, Page(p) PROVE page' = [q \in Pages |-> page'[q]]
  BY <1>0, <1>3 DEF Page, Collect, Wait, Deliver
<1>4. ASSUME NEW h \in Refreshers, Refresh(h) PROVE page' = [q \in Pages |-> page'[q]]
  <2>1. CASE Publish(h)
    BY <1>0, <2>1 DEF Publish, Answer
  <2>2. ASSUME NEW w \in Workers, PollWorker(h, w) PROVE page' = [q \in Pages |-> page'[q]]
    BY <1>1, <2>2 DEF PollWorker
  <2> QED
    BY <1>4, <2>1, <2>2 DEF Refresh
<1>5. CASE Halt
  BY <1>5 DEF Halt
<1>6. ASSUME NEW w \in Workers, WorkerChanges(w) PROVE page' = [q \in Pages |-> page'[q]]
  BY <1>1, <1>6 DEF WorkerChanges
<1>7. CASE RecordsChange \/ PollAgain \/ Stop \/ Boot \/ UNCHANGED vars
  BY <1>1, <1>7 DEF RecordsChange, PollAgain, Stop, Boot, vars
<1> QED
  BY <1>2, <1>3, <1>4, <1>5, <1>6, <1>7 DEF Next

\* The numbers of the kept events follow each other.
LEMMA EventsFollow == TypeOK /\ EventsAreTheLast => Consecutive(events)
<1> SUFFICES ASSUME TypeOK, EventsAreTheLast, NEW i \in 1 .. Len(events) - 1
             PROVE  events[i + 1].seq = events[i].seq + 1
  BY DEF Consecutive
<1>1. Len(events) \in Nat /\ eventSeq \in Nat
  BY DEF TypeOK
<1>2. i \in 1 .. Len(events) /\ i + 1 \in 1 .. Len(events)
  BY <1>1
<1>3. /\ events[i].seq = eventSeq - Len(events) + i
      /\ events[i + 1].seq = eventSeq - Len(events) + (i + 1)
  BY <1>2 DEF EventsAreTheLast
<1> QED
  BY <1>1, <1>2, <1>3

\* A page keeps its type.
LEMMA PageTypes ==
    ASSUME TypeOK, EventsAreTheLast, [Next]_vars, eventSeq' \in Nat, NEW p \in Pages
    PROVE  page'[p] \in PageState
<1> DEFINE g == page[p]
<1>0. World \in State /\ Nothing \in State
  BY StatesAreTyped
<1>a. p \in Refreshers
  BY DEF Refreshers
<1>b. BuildState(p) \in State
  BY <1>a, StatesAreTyped
<1>1. g \in PageState
  BY DEF TypeOK
<1>2. /\ g.at \in {"closed", "asking", "lost", "streaming"} /\ g.cursor \in Nat /\ g.life \in Nat
      /\ g.shown \in State /\ g.pending \in Seq(Event) /\ g.asked \in State
  BY <1>1 DEF PageState
<1>3. PageStep(p)
  BY PageSteps
<1>4. life \in Nat /\ events \in Seq(Event) /\ << >> \in Seq(Event)
  BY DEF TypeOK
<1>5. Newer(g.cursor) \in Seq(Event)
  <2>1. Consecutive(events)
    BY EventsFollow
  <2> QED
    BY <1>2, <1>4, <2>1, NewerFinds
<1>6. ASSUME g.pending # << >>
      PROVE  /\ Tail(g.pending) \in Seq(Event) /\ Head(g.pending).seq \in Nat
             /\ Head(g.pending).state \in State
  <2>1. Tail(g.pending) \in Seq(Event) /\ Head(g.pending) \in Event
    BY <1>2, <1>6
  <2> QED
    BY <2>1 DEF Event
<1>7. CASE page'[p] = g
  BY <1>1, <1>7
<1>8. CASE page'[p] = [g EXCEPT !.at = "asking", !.asked = World]
  BY <1>0, <1>1, <1>8 DEF PageState
<1>9. CASE page'[p] = [g EXCEPT !.at = "lost", !.cursor = eventSeq', !.life = life,
                                 !.shown = BuildState(p), !.asked = Nothing]
  BY <1>0, <1>b, <1>1, <1>4, <1>9 DEF PageState
<1>10. CASE page'[p] = [g EXCEPT !.at = "streaming", !.pending = << >>]
  BY <1>1, <1>4, <1>10 DEF PageState
<1>11. CASE page'[p] = [g EXCEPT !.pending = Newer(g.cursor)]
  BY <1>1, <1>5, <1>11 DEF PageState
<1>12. CASE /\ g.pending # << >>
            /\ page'[p] = [g EXCEPT !.pending = Tail(g.pending), !.cursor = Head(g.pending).seq,
                                    !.life = life, !.shown = Head(g.pending).state]
  BY <1>1, <1>4, <1>6, <1>12 DEF PageState
<1>13. CASE page'[p] = [g EXCEPT !.at = "lost", !.pending = << >>]
  BY <1>1, <1>4, <1>13 DEF PageState
<1>14. CASE page'[p] = [g EXCEPT !.at = "closed", !.asked = Nothing]
  BY <1>0, <1>1, <1>14 DEF PageState
<1> QED
  BY <1>3, <1>7, <1>8, <1>9, <1>10, <1>11, <1>12, <1>13, <1>14 DEF PageStep

\* A subscription falls asleep only in Wait.
SleepersChangeTo(sleepers) ==
    sleepers \subseteq asleep \/ \E p \in Pages : Wait(p) /\ sleepers = asleep \cup {p}

\* Every other step leaves the sleepers asleep or wakes some of them.
LEMMA SleepersChange == [Next]_vars => SleepersChangeTo(asleep')
<1> SUFFICES ASSUME [Next]_vars PROVE SleepersChangeTo(asleep')
  OBVIOUS
<1>1. CASE asleep' \subseteq asleep
  BY <1>1 DEF SleepersChangeTo
<1>2. ASSUME NEW w \in Workers, WorkerChanges(w) PROVE SleepersChangeTo(asleep')
  BY <1>1, <1>2 DEF WorkerChanges
<1>3. CASE RecordsChange \/ PollAgain \/ Stop \/ Boot \/ UNCHANGED vars
  BY <1>1, <1>3 DEF RecordsChange, PollAgain, Stop, Boot, vars
<1>4. ASSUME NEW h \in Refreshers, Refresh(h) PROVE SleepersChangeTo(asleep')
  BY <1>1, <1>4 DEF Refresh, Publish, PollWorker, Notified
<1>5. ASSUME NEW p \in Pages, Ask(p) \/ Subscribe(p) \/ Collect(p) \/ Deliver(p) \/ Disconnect(p)
      PROVE  SleepersChangeTo(asleep')
  BY <1>1, <1>5 DEF Ask, Subscribe, Collect, Deliver, Disconnect
<1>6. ASSUME NEW p \in Pages, Wait(p) PROVE SleepersChangeTo(asleep')
  BY <1>6 DEF Wait, SleepersChangeTo
<1>7. CASE Halt
  BY <1>1, <1>7 DEF Halt, CloseProjection
<1> QED
  BY <1>2, <1>3, <1>4, <1>5, <1>6, <1>7 DEF Next, Page

\* Every step keeps the types.
LEMMA TypeNext == TypeOK /\ EventsAreTheLast /\ [Next]_vars => TypeOK'
<1> SUFFICES ASSUME TypeOK, EventsAreTheLast, [Next]_vars PROVE TypeOK'
  OBVIOUS
<1> USE DEF worldVars, projectionVars
<1>0. Poller \in Refreshers /\ Pages \subseteq Refreshers
  BY DEF Refreshers
<1>1. /\ status' \in [Workers -> {"stopped", "running"}] /\ changes' \in [Workers -> Nat]
      /\ records' \in Nat
  <2>1. CASE UNCHANGED worldVars
    BY <2>1 DEF TypeOK
  <2>2. ASSUME NEW w \in Workers, WorkerChanges(w)
        PROVE  /\ status' \in [Workers -> {"stopped", "running"}] /\ changes' \in [Workers -> Nat]
               /\ records' \in Nat
    BY <2>2 DEF WorkerChanges, TypeOK
  <2>3. CASE RecordsChange
    BY <2>3 DEF RecordsChange, TypeOK
  <2>4. ASSUME NEW h \in Refreshers, Refresh(h) PROVE UNCHANGED worldVars
    BY <2>4 DEF Refresh, Publish, PollWorker
  <2>5. ASSUME NEW p \in Pages, Ask(p) \/ Subscribe(p) \/ Page(p) \/ Disconnect(p)
        PROVE  UNCHANGED worldVars
    BY <2>5 DEF Ask, Subscribe, Page, Collect, Wait, Deliver, Disconnect
  <2>6. ASSUME PollAgain \/ Stop \/ Halt \/ Boot \/ UNCHANGED vars PROVE UNCHANGED worldVars
    BY <2>6 DEF PollAgain, Stop, Halt, Boot, vars
  <2> QED
    BY <2>1, <2>2, <2>3, <2>4, <2>5, <2>6 DEF Next
<1>2. eventSeq' \in Nat /\ snapshot' \in State /\ events' \in Seq(Event) /\ life' \in Nat
  <2>1. CASE UNCHANGED <<eventSeq, snapshot, events, life>>
    BY <2>1 DEF TypeOK
  <2>2. ASSUME NEW h \in Refreshers, Publish(h)
        PROVE  eventSeq' \in Nat /\ snapshot' \in State /\ events' \in Seq(Event) /\ life' \in Nat
    <3>1. BuildState(h) \in State
      BY StatesAreTyped
    <3>2. /\ snapshot' = BuildState(h)
          /\ \/ UNCHANGED <<events, eventSeq>>
             \/ /\ eventSeq' = eventSeq + 1
                /\ events' = Keep(Append(events, [seq |-> eventSeq + 1, state |-> BuildState(h)]))
      BY <2>2, PublishEffect
    <3> DEFINE e == [seq |-> eventSeq + 1, state |-> BuildState(h)]
    <3>3. e \in Event /\ eventSeq + 1 \in Nat
      BY <3>1 DEF Event, TypeOK
    <3> HIDE DEF e
    <3>4. Keep(Append(events, e)) \in Seq(Event)
      BY <3>3, KeepTheLast DEF TypeOK, EventsAreTheLast
    <3> QED
      BY <2>2, <3>1, <3>2, <3>3, <3>4 DEF e, TypeOK, Publish
  <2>3. CASE Boot
    <3>1. << >> \in Seq(Event) /\ life + 1 \in Nat /\ Nothing \in State
      BY StatesAreTyped DEF TypeOK
    <3> QED
      BY <2>3, <3>1 DEF Boot
  <2> QED
    BY <2>1, <2>2, <2>3, ProjectionSteps DEF ProjectionStep
<1>3. page' \in [Pages -> PageState]
  <2>1. \A p \in Pages : page'[p] \in PageState
    BY <1>2, PageTypes
  <2>2. page' = [q \in Pages |-> page'[q]]
    BY PagesStay
  <2> QED
    BY <2>1, <2>2
<1>4. polled' \in [Refreshers -> [Workers -> WorkerView]]
  <2>0. /\ polled \in [Refreshers -> [Workers -> WorkerView]]
        /\ NothingPolled \in [Workers -> WorkerView] /\ Unreachable \in WorkerView
        /\ \A w \in Workers : World.workers[w] \in WorkerView
    <3>1. World \in State
      BY StatesAreTyped
    <3> QED
      BY <3>1, StatesAreTyped DEF TypeOK, State
  <2>1. ASSUME NEW h \in Refreshers, polled' = [polled EXCEPT ![h] = NothingPolled]
        PROVE  polled' \in [Refreshers -> [Workers -> WorkerView]]
    BY <2>0, <2>1
  <2>2. CASE UNCHANGED polled
    BY <2>0, <2>2
  <2>3. ASSUME NEW h \in Refreshers, Refresh(h)
        PROVE  polled' \in [Refreshers -> [Workers -> WorkerView]]
    <3>1. CASE Publish(h)
      BY <2>1, <3>1 DEF Publish
    <3>2. ASSUME NEW w \in Workers, PollWorker(h, w)
          PROVE  polled' \in [Refreshers -> [Workers -> WorkerView]]
      <4>1. PICK v \in WorkerView : polled' = [polled EXCEPT ![h][w] = v]
        BY <2>0, <3>2 DEF PollWorker
      <4> QED
        BY <2>0, <4>1
    <3> QED
      BY <2>3, <3>1, <3>2 DEF Refresh
  <2>4. CASE PollAgain \/ Stop \/ Boot
    BY <1>0, <2>1, <2>4 DEF PollAgain, Enter, Stop, Boot
  <2>5. CASE Halt
    BY <2>0, <2>5 DEF Halt
  <2>6. ASSUME NEW p \in Pages, Ask(p) PROVE polled' \in [Refreshers -> [Workers -> WorkerView]]
    BY <1>0, <2>1, <2>6 DEF Ask, Enter
  <2>7. ASSUME NEW p \in Pages, Subscribe(p) \/ Page(p) \/ Disconnect(p) PROVE UNCHANGED polled
    BY <2>7 DEF Subscribe, Page, Collect, Wait, Deliver, Disconnect
  <2>8. ASSUME NEW w \in Workers, WorkerChanges(w) PROVE UNCHANGED polled
    BY <2>8 DEF WorkerChanges
  <2>9. ASSUME RecordsChange \/ UNCHANGED vars PROVE UNCHANGED polled
    BY <2>9 DEF RecordsChange, vars
  <2> QED
    BY <2>2, <2>3, <2>4, <2>5, <2>6, <2>7, <2>8, <2>9 DEF Next
<1>5. server' \in {"starting", "up", "stopping", "down"} /\ line' \in Seq(Refreshers)
  <2>0. /\ server \in {"starting", "up", "stopping", "down"} /\ line \in Seq(Refreshers)
        /\ << >> \in Seq(Refreshers)
    BY DEF TypeOK
  <2>1. CASE UNCHANGED <<server, line>>
    BY <2>0, <2>1
  <2>2. ASSUME NEW h \in Refreshers PROVE Append(line, h) \in Seq(Refreshers)
    BY <2>0
  <2>3. ASSUME NEW h \in Refreshers, Publish(h)
        PROVE  server' \in {"starting", "up", "stopping", "down"} /\ line' \in Seq(Refreshers)
    <3>1. line # << >> /\ line' = Tail(line)
      BY <2>3 DEF Publish, Refreshing
    <3>2. Tail(line) \in Seq(Refreshers)
      BY <2>0, <3>1
    <3>3. server' \in {server, "up"}
      BY <2>3 DEF Publish, Answer
    <3> QED
      BY <2>0, <3>1, <3>2, <3>3
  <2>4. ASSUME NEW h \in Refreshers, NEW w \in Workers, PollWorker(h, w)
        PROVE  UNCHANGED <<server, line>>
    BY <2>4 DEF PollWorker
  <2>5. ASSUME NEW p \in Pages, Ask(p)
        PROVE  server' \in {"starting", "up", "stopping", "down"} /\ line' \in Seq(Refreshers)
    BY <1>0, <2>0, <2>2, <2>5 DEF Ask, Enter
  <2>6. ASSUME NEW p \in Pages, Subscribe(p) \/ Page(p) \/ Disconnect(p)
        PROVE  UNCHANGED <<server, line>>
    BY <2>6 DEF Subscribe, Page, Collect, Wait, Deliver, Disconnect
  <2>7. ASSUME NEW w \in Workers, WorkerChanges(w) PROVE UNCHANGED <<server, line>>
    BY <2>7 DEF WorkerChanges
  <2>8. ASSUME RecordsChange \/ UNCHANGED vars PROVE UNCHANGED <<server, line>>
    BY <2>8 DEF RecordsChange, vars
  <2>9. CASE PollAgain \/ Boot
    BY <1>0, <2>0, <2>2, <2>9 DEF PollAgain, Boot, Enter
  <2>10. CASE Halt
    BY <2>0, <2>10 DEF Halt
  <2>11. CASE Stop
    <3>1. ASSUME NEW i \in DOMAIN line PROVE RemoveAt(line, i) \in Seq(Refreshers)
      BY <2>0, LineRemoves
    <3> QED
      BY <2>0, <2>11, <3>1 DEF Stop
  <2> QED
    BY <2>1, <2>3, <2>4, <2>5, <2>6, <2>7, <2>8, <2>9, <2>10, <2>11 DEF Next, Refresh
<1>6. asleep' \subseteq Pages
  BY SleepersChange DEF TypeOK, SleepersChangeTo
<1> QED
  BY <1>1, <1>2, <1>3, <1>4, <1>5, <1>6 DEF TypeOK

-----------------------------------------------------------------------------
(* The line keeps its order. *)

\* A page stays where it is, or goes somewhere but to "asking".
StaysAsking(p) == page[p].at = "asking" => page'[p].at = "asking"

\* A step that leaves the line alone keeps its invariant if it polls only for the head.
LEMMA LineStays ==
    ASSUME LineInv, UNCHANGED <<line, server>>,
           \A h \in Refreshers : polled'[h] = polled[h] \/ Refreshing(h),
           \A p \in Pages : page'[p].at = page[p].at \/ (server \notin {"down", "starting"} /\ StaysAsking(p))
    PROVE  LineInv'
<1>1. Distinct(line') /\ \A p \in Pages : In(p, line') => page'[p].at = "asking"
  BY DEF LineInv, StaysAsking
<1>2. \A h \in Refreshers : Refreshing(h)' <=> Refreshing(h)
  BY DEF Refreshing
<1>3. \A h \in Refreshers : ~Refreshing(h)' => polled'[h] = NothingPolled
  BY <1>2 DEF LineInv
<1>4. server' = "down" => line' = << >>
  BY DEF LineInv
<1>5. server' \in {"down", "starting"} =>
          \A p \in Pages : page'[p].at \notin {"asking", "streaming"}
  BY DEF LineInv
<1> QED
  BY <1>1, <1>3, <1>4, <1>5 DEF LineInv

\* Whoever enters has the line before him, and has polled nothing.
LEMMA LineEnters ==
    ASSUME TypeOK, LineInv, NEW h \in Refreshers, Enter(h), ~In(h, line)
    PROVE  /\ Distinct(line') /\ \A g : In(g, line') => g = h \/ In(g, line)
           /\ \A g \in Refreshers : ~Refreshing(g)' => polled'[g] = NothingPolled
<1>1. line \in Seq(Refreshers) /\ polled \in [Refreshers -> [Workers -> WorkerView]]
  BY DEF TypeOK
<1>2. /\ Distinct(line') /\ (\A g : In(g, line') => g = h \/ In(g, line))
      /\ line # << >> => line' # << >> /\ Head(line') = Head(line)
  BY <1>1, LineGrows DEF LineInv, Enter
<1>3. ASSUME NEW g \in Refreshers, ~Refreshing(g)' PROVE polled'[g] = NothingPolled
  <2>1. polled'[g] = IF g = h THEN NothingPolled ELSE polled[g]
    BY <1>1 DEF Enter
  <2>2. ~Refreshing(g)
    BY <1>2, <1>3 DEF Refreshing
  <2> QED
    BY <2>1, <2>2 DEF LineInv
<1> QED
  BY <1>2, <1>3

\* When the head has gone, nothing is polled for anybody.
LEMMA HeadLeaves ==
    ASSUME TypeOK, LineInv, NEW h \in Refreshers, Refreshing(h),
           polled' = [polled EXCEPT ![h] = NothingPolled]
    PROVE  \A g \in Refreshers : polled'[g] = NothingPolled
<1> SUFFICES ASSUME NEW g \in Refreshers PROVE polled'[g] = NothingPolled
  OBVIOUS
<1>1. polled'[g] = IF g = h THEN NothingPolled ELSE polled[g]
  BY DEF TypeOK
<1>2. g # h => ~Refreshing(g)
  BY DEF Refreshing
<1> QED
  BY <1>1, <1>2 DEF LineInv

\* Every step keeps the order of the line.
LEMMA LineNext == TypeOK /\ LineInv /\ [Next]_vars => LineInv'
<1> SUFFICES ASSUME TypeOK, LineInv, [Next]_vars PROVE LineInv'
  OBVIOUS
<1> USE DEF worldVars, projectionVars
<1>0. /\ Poller \in Refreshers /\ Pages \subseteq Refreshers /\ Poller \notin Pages
      /\ line \in Seq(Refreshers) /\ page \in [Pages -> PageState]
      /\ polled \in [Refreshers -> [Workers -> WorkerView]]
  BY OperationsAssumption DEF Refreshers, TypeOK
<1>a. \A g : In(g, line) <=> g \in ToSet(line)
  BY <1>0 DEF In, ToSet
<1>1. CASE UNCHANGED <<line, server, polled, page>>
  BY <1>1, LineStays
<1>2. ASSUME NEW w \in Workers, WorkerChanges(w) PROVE LineInv'
  BY <1>1, <1>2 DEF WorkerChanges
<1>3. CASE RecordsChange \/ UNCHANGED vars
  BY <1>1, <1>3 DEF RecordsChange, vars
<1>4. ASSUME NEW h \in Refreshers, NEW w \in Workers, PollWorker(h, w) PROVE LineInv'
  <2>1. /\ UNCHANGED <<line, server, page>> /\ Refreshing(h)
        /\ \E v : polled' = [polled EXCEPT ![h][w] = v]
    BY <1>4 DEF PollWorker
  <2>2. \A g \in Refreshers : polled'[g] = polled[g] \/ Refreshing(g)
    BY <1>0, <2>1
  <2> QED
    BY <2>1, <2>2, LineStays
<1>5. ASSUME NEW p \in Pages, Subscribe(p) \/ Page(p) \/ Disconnect(p) PROVE LineInv'
  <2>1. UNCHANGED <<line, server, polled>>
    BY <1>5 DEF Subscribe, Page, Collect, Wait, Deliver, Disconnect
  <2>2. ASSUME NEW q \in Pages
        PROVE  page'[q].at = page[q].at \/ (server \notin {"down", "starting"} /\ StaysAsking(q))
    <3>1. CASE q # p
      BY <1>0, <1>5, <3>1 DEF Subscribe, Page, Collect, Wait, Deliver, Disconnect
    <3>2. CASE q = p /\ Subscribe(p)
      BY <1>0, <3>2 DEF Subscribe, StaysAsking
    <3>3. CASE q = p /\ Page(p)
      BY <1>0, <3>3 DEF Page, Collect, Wait, Deliver, PageState
    <3>4. CASE q = p /\ Disconnect(p)
      BY <1>0, <3>4 DEF Disconnect, Streaming, StaysAsking, LineInv
    <3> QED
      BY <1>5, <3>1, <3>2, <3>3, <3>4
  <2> QED
    BY <2>1, <2>2, LineStays
<1>6. ASSUME NEW p \in Pages, Ask(p) PROVE LineInv'
  <2>1. ~In(p, line) /\ Enter(p) /\ server = "up" /\ server' = "up"
    BY <1>6 DEF Ask, LineInv
  <2>2. /\ Distinct(line') /\ \A g : In(g, line') => g = p \/ In(g, line)
        /\ \A g \in Refreshers : ~Refreshing(g)' => polled'[g] = NothingPolled
    BY <1>0, <2>1, LineEnters
  <2>3. \A q \in Pages : page'[q].at = IF q = p THEN "asking" ELSE page[q].at
    BY <1>0, <1>6 DEF Ask, PageState
  <2> QED
    BY <2>1, <2>2, <2>3 DEF LineInv
<1>7. CASE PollAgain \/ Boot
  <2>1. ~In(Poller, line)
    BY <1>0, <1>7, <1>a DEF PollAgain, Boot, LineInv, In
  <2>2. Enter(Poller) /\ UNCHANGED page /\ server' # "down"
    BY <1>7 DEF PollAgain, Boot
  <2>3. /\ Distinct(line') /\ \A g : In(g, line') => g = Poller \/ In(g, line)
        /\ \A g \in Refreshers : ~Refreshing(g)' => polled'[g] = NothingPolled
    BY <1>0, <2>1, <2>2, LineEnters
  <2>4. server' \in {"down", "starting"} => server \in {"down", "starting"}
    BY <1>7 DEF PollAgain, Boot
  <2> QED
    BY <1>0, <2>2, <2>3, <2>4 DEF LineInv
<1>8. ASSUME NEW h \in Refreshers, Publish(h) PROVE LineInv'
  <2>1. /\ line # << >> /\ h = line[1] /\ line' = Tail(line) /\ Refreshing(h)
        /\ polled' = [polled EXCEPT ![h] = NothingPolled]
    BY <1>0, <1>8 DEF Publish, Refreshing
  <2>2. /\ Len(line) \in Nat /\ Len(line) > 0 /\ Len(line') = Len(line) - 1
        /\ \A i \in 1 .. Len(line) - 1 : line'[i] = line[i + 1]
    BY <1>0, <2>1
  <2>3. Distinct(line')
    BY <2>2, SMTT(30) DEF LineInv, Distinct
  <2>4. ASSUME NEW g, In(g, line') PROVE In(g, line) /\ g # h
    <3>1. PICK i \in 1 .. Len(line) - 1 : g = line[i + 1]
      BY <2>2, <2>4 DEF In
    <3>2. i + 1 \in 1 .. Len(line) /\ 1 \in 1 .. Len(line) /\ i + 1 # 1
      BY <2>2
    <3> QED
      BY <2>1, <3>1, <3>2 DEF In, LineInv, Distinct
  <2>5. \A g \in Refreshers : polled'[g] = NothingPolled
    BY <2>1, HeadLeaves
  <2>6. Answer(h, eventSeq', BuildState(h))
    BY <1>8 DEF Publish
  <2>7. ASSUME NEW p \in Pages, p # h PROVE page'[p] = page[p]
    BY <1>0, <2>6, <2>7 DEF Answer
  <2>8. ASSUME NEW p \in Pages PROVE page'[p].at \in {page[p].at, "lost"}
    <3>1. CASE p # h
      BY <2>7, <3>1
    <3>2. CASE p = h
      <4>1. page' = [page EXCEPT ![p].at = "lost", ![p].cursor = eventSeq', ![p].life = life,
                                 ![p].shown = BuildState(p), ![p].asked = Nothing]
        BY <1>0, <2>6, <3>2 DEF Answer
      <4> QED
        BY <1>0, <4>1 DEF PageState
    <3> QED
      BY <3>1, <3>2
  <2>9. server # "down" /\ server' # "down" /\ (server' = "starting" => server = "starting")
    BY <2>1, <2>6 DEF Answer, LineInv
  <2> QED
    BY <2>3, <2>4, <2>5, <2>7, <2>8, <2>9 DEF LineInv
<1>9. CASE Halt
  <2>1. /\ server' = "down" /\ line' = << >> /\ \A h \in Refreshers : polled'[h] = NothingPolled
    BY <1>9 DEF Halt
  <2>2. Distinct(line') /\ \A g : ~In(g, line')
    BY <2>1 DEF Distinct, In
  <2>3. ASSUME NEW p \in Pages PROVE page'[p].at \notin {"asking", "streaming"}
    <3>1. page'[p] = CASE page[p].at = "asking" ->
                              [page[p] EXCEPT !.at = "closed", !.asked = Nothing]
                        [] page[p].at = "streaming" ->
                              [page[p] EXCEPT !.at = "lost", !.pending = << >>]
                        [] OTHER -> page[p]
      BY <1>9 DEF Halt
    <3>2. page[p] \in PageState
      BY <1>0
    <3> QED
      BY <3>1, <3>2 DEF PageState
  <2> QED
    BY <2>1, <2>2, <2>3 DEF LineInv
<1>10. CASE Stop
  <2>1. /\ server = "up" /\ server' = "stopping" /\ UNCHANGED page
        /\ polled' = [polled EXCEPT ![Poller] = NothingPolled]
    BY <1>10 DEF Stop
  <2>2. \A g \in Refreshers : polled'[g] = IF g = Poller THEN NothingPolled ELSE polled[g]
    BY <1>0, <2>1
  <2>3. CASE UNCHANGED line
    <3>1. \A g \in Refreshers : Refreshing(g)' <=> Refreshing(g)
      BY <2>3 DEF Refreshing
    <3> QED
      BY <2>1, <2>2, <2>3, <3>1 DEF LineInv
  <2>4. ASSUME NEW k \in DOMAIN line, line[k] = Poller, line' = RemoveAt(line, k)
        PROVE  LineInv'
    <3>1. /\ line' \in Seq(Refreshers) /\ Len(line') = Len(line) - 1
          /\ \A i \in 1 .. Len(line) - 1 : line'[i] = IF i < k THEN line[i] ELSE line[i + 1]
      BY <1>0, <2>4, LineRemoves
    <3>2. Len(line) \in Nat /\ k \in 1 .. Len(line) /\ Len(line) > 0 /\ Head(line) = line[1]
      BY <1>0
    <3>3. Distinct(line')
      BY <3>1, <3>2, SMTT(30) DEF LineInv, Distinct
    <3>4. ASSUME NEW g, In(g, line') PROVE In(g, line)
      <4>1. PICK i \in 1 .. Len(line) - 1 : g = IF i < k THEN line[i] ELSE line[i + 1]
        BY <3>1, <3>4 DEF In
      <4>2. i \in 1 .. Len(line) /\ i + 1 \in 1 .. Len(line)
        BY <3>2
      <4> QED
        BY <4>1, <4>2 DEF In
    <3>5. ASSUME NEW g \in Refreshers, ~Refreshing(g)' PROVE polled'[g] = NothingPolled
      <4>1. CASE k = 1
        <5>1. Refreshing(Poller)
          BY <2>4, <3>2, <4>1 DEF Refreshing
        <5> QED
          BY <1>0, <2>1, <5>1, HeadLeaves
      <4>2. CASE k # 1
        <5>1. line' # << >> /\ Head(line') = line'[1] /\ line'[1] = line[1]
          BY <3>1, <3>2, <4>2
        <5>2. ~Refreshing(g)
          BY <3>2, <3>5, <5>1 DEF Refreshing
        <5> QED
          BY <2>2, <5>2 DEF LineInv
      <4> QED
        BY <4>1, <4>2
    <3> QED
      BY <2>1, <3>3, <3>4, <3>5 DEF LineInv
  <2> QED
    BY <1>10, <2>3, <2>4 DEF Stop
<1> QED
  BY <1>2, <1>3, <1>4, <1>5, <1>6, <1>7, <1>8, <1>9, <1>10 DEF Next, Refresh

-----------------------------------------------------------------------------
(* The history does not run back. *)

\* What is not older, put the way the invariants put it.
LEMMA NotOlderMeans ==
    ASSUME NEW a, NEW b
    PROVE  NotOlder(a, b) <=>
              /\ a.records <= b.records
              /\ \A w \in Workers :
                    b.workers[w] \notin NotSeen => UpTo(a.workers[w], b.workers[w].change)
<1>1. ASSUME NEW w \in Workers
      PROVE  {a.workers[w], b.workers[w]} \cap {Unreachable, NotPolled} = {} <=>
                 a.workers[w] \notin NotSeen /\ b.workers[w] \notin NotSeen
  BY DEF NotSeen
<1> QED
  BY <1>1 DEF NotOlder, UpTo

\* A worker's view that has happened still has when time has passed.
LEMMA UpToLater ==
    ASSUME NEW v \in WorkerView, NEW m \in Nat, NEW n \in Nat, UpTo(v, m), m <= n
    PROVE  UpTo(v, n)
<1>1. v.change \in Nat
  BY DEF WorkerView
<1> QED
  BY <1>1 DEF UpTo

\* The types of what is shown.
LEMMA ShownTypes ==
    ASSUME TypeOK, NEW state \in Shown
    PROVE  state \in State /\ state.records \in Nat
           /\ \A w \in Workers : state.workers[w] \in WorkerView
<1>1. ASSUME NEW i \in 1 .. Len(events) PROVE events[i].state \in State
  <2>1. events[i] \in Event
    BY DEF TypeOK
  <2> QED
    BY <2>1 DEF Event
<1>2. state \in State
  BY <1>1 DEF Shown, TypeOK
<1> QED
  BY <1>2 DEF State

\* A refresh shows nothing but what it has built and what was shown; and what it has built
\* comes last.
LEMMA PublishShows ==
    ASSUME TypeOK, EventsAreTheLast, NEW h \in Refreshers, Publish(h)
    PROVE  /\ Shown' \subseteq Shown \cup {BuildState(h)} /\ snapshot' = BuildState(h)
           /\ \A i, j \in 1 .. Len(events') : i < j =>
                 \/ \E k, l \in 1 .. Len(events) : k < l /\ events'[i].state = events[k].state
                                                        /\ events'[j].state = events[l].state
                 \/ events'[i].state \in Shown /\ events'[j].state = BuildState(h)
<1> DEFINE e == [seq |-> eventSeq + 1, state |-> BuildState(h)]
           n == Len(events)
<1>1. /\ snapshot' = BuildState(h)
      /\ \/ UNCHANGED <<events, eventSeq>>
         \/ eventSeq' = eventSeq + 1 /\ events' = Keep(Append(events, e))
  BY PublishEffect
<1>2. e \in Event /\ e.state = BuildState(h) /\ events \in Seq(Event) /\ n \in Nat
  BY StatesAreTyped DEF Event, TypeOK
<1> HIDE DEF e
<1>3. CASE UNCHANGED events
  BY <1>1, <1>3 DEF Shown
<1>4. CASE events' = Append(events, e)
  <2>1. /\ Len(events') = n + 1 /\ events'[n + 1] = e
        /\ \A i \in 1 .. n : events'[i] = events[i]
    BY <1>2, <1>4
  <2>2. ASSUME NEW i \in 1 .. Len(events') PROVE i = n + 1 \/ i \in 1 .. n
    BY <1>2, <2>1
  <2>3. Shown' \subseteq Shown \cup {BuildState(h)}
    BY <1>1, <1>2, <2>1, <2>2 DEF Shown
  <2>4. ASSUME NEW i \in 1 .. Len(events'), NEW j \in 1 .. Len(events'), i < j
        PROVE  \/ i \in 1 .. n /\ j \in 1 .. n
               \/ i \in 1 .. n /\ j = n + 1
    BY <1>2, <2>1, <2>4
  <2> QED
    BY <1>1, <1>2, <2>1, <2>3, <2>4 DEF Shown
<1>5. CASE events' = Tail(Append(events, e))
  <2>1. /\ Len(events') = n /\ (n > 0 => events'[n] = e)
        /\ \A i \in 1 .. n - 1 : events'[i] = events[i + 1] /\ i + 1 \in 1 .. n
    <3>1. Append(events, e) \in Seq(Event) /\ Len(Append(events, e)) = n + 1
      BY <1>2
    <3>2. Append(events, e) # << >>
      BY <1>2, <3>1
    <3>3. Len(events') = n /\ \A i \in 1 .. n : events'[i] = Append(events, e)[i + 1]
      BY <1>2, <1>5, <3>1, <3>2
    <3> QED
      BY <1>2, <3>3
  <2>2. ASSUME NEW i \in 1 .. Len(events') PROVE i = n \/ i \in 1 .. n - 1
    BY <1>2, <2>1
  <2>3. Shown' \subseteq Shown \cup {BuildState(h)}
    <3>1. ASSUME NEW i \in 1 .. Len(events')
          PROVE  events'[i].state \in Shown \cup {BuildState(h)}
      <4>1. CASE i = n
        BY <1>2, <2>1, <4>1
      <4>2. CASE i \in 1 .. n - 1
        BY <2>1, <4>2 DEF Shown
      <4> QED
        BY <2>2, <4>1, <4>2
    <3> QED
      BY <1>1, <3>1 DEF Shown
  <2>4. ASSUME NEW i \in 1 .. Len(events'), NEW j \in 1 .. Len(events'), i < j
        PROVE  \/ i \in 1 .. n - 1 /\ j \in 1 .. n - 1 /\ i + 1 < j + 1
               \/ i \in 1 .. n - 1 /\ j = n /\ n > 0
    BY <1>2, <2>1, <2>4
  <2> QED
    BY <1>1, <1>2, <2>1, <2>3, <2>4 DEF Shown
<1>6. Len(events) <= EventCapacity
  BY DEF EventsAreTheLast
<1>7. Keep(Append(events, e)) \in {Append(events, e), Tail(Append(events, e))}
  BY <1>2, <1>6, KeepTheLast
<1> QED
  BY <1>1, <1>3, <1>4, <1>5, <1>7

\* A refresh and a new process leave nothing polled behind.
LEMMA NothingIsLeft ==
    ASSUME TypeOK, LineInv, Boot \/ \E h \in Refreshers : Publish(h)
    PROVE  \A g \in Refreshers, w \in Workers : polled'[g][w] = NotPolled
<1>1. \A g \in Refreshers : polled'[g] = NothingPolled
  <2>1. ASSUME NEW h \in Refreshers, Publish(h)
        PROVE  \A g \in Refreshers : polled'[g] = NothingPolled
    <3>1. Refreshing(h) /\ polled' = [polled EXCEPT ![h] = NothingPolled]
      BY <2>1 DEF Publish
    <3> QED
      BY <3>1, HeadLeaves
  <2>2. CASE Boot
    <3>1. line = << >> /\ polled' = [polled EXCEPT ![Poller] = NothingPolled]
      BY <2>2 DEF Boot, Enter, LineInv
    <3>2. \A g \in Refreshers : polled[g] = NothingPolled
      BY <3>1 DEF LineInv, Refreshing
    <3> QED
      BY <3>1, <3>2 DEF TypeOK
  <2> QED
    BY <2>1, <2>2
<1> QED
  BY <1>1 DEF NothingPolled

\* What a refresh has built has happened, and is not older than anything shown.
LEMMA BuiltIsNewer ==
    ASSUME TypeOK, HistoryInv, NEW h \in Refreshers, NEW state \in Shown \cup {BuildState(h)}
    PROVE  /\ NotOlder(state, BuildState(h))
           /\ state.records <= records
           /\ \A w \in Workers : UpTo(state.workers[w], changes[w])
<1> DEFINE b == BuildState(h)
<1>1. b.records = records /\ \A w \in Workers : b.workers[w] = polled[h][w]
  BY DEF BuildState
<1>2. b \in State /\ records \in Nat /\ \A w \in Workers : polled[h][w] \in WorkerView
  BY StatesAreTyped DEF TypeOK
<1>3. \A w \in Workers : polled[h][w].change \in Nat
  BY <1>2 DEF WorkerView
<1> HIDE DEF b
<1>4. CASE state \in Shown
  <2>1. state.records <= records /\ \A w \in Workers : UpTo(state.workers[w], changes[w])
    BY <1>4 DEF HistoryInv, ShownIsPast
  <2>2. \A w \in Workers : b.workers[w] \notin NotSeen =>
            UpTo(state.workers[w], b.workers[w].change)
    BY <1>1, <1>4 DEF HistoryInv, PolledIsNewer
  <2>3. NotOlder(state, b)
    BY <1>1, <2>1, <2>2, NotOlderMeans
  <2> QED
    BY <2>1, <2>3 DEF b
<1>5. CASE state = b
  <2>1. state.records <= b.records /\ state.records <= records
    BY <1>1, <1>2, <1>5
  <2>2. \A w \in Workers : UpTo(b.workers[w], b.workers[w].change)
    BY <1>1, <1>3 DEF UpTo
  <2>3. NotOlder(state, b)
    BY <1>5, <2>1, <2>2, NotOlderMeans
  <2>4. \A w \in Workers : UpTo(b.workers[w], changes[w])
    BY <1>1 DEF UpTo, HistoryInv, PolledIsNewer
  <2> QED
    BY <1>5, <2>1, <2>3, <2>4 DEF b
<1> QED
  BY <1>4, <1>5 DEF b

\* Every step keeps the history in order.
LEMMA HistoryNext ==
    TypeOK /\ LineInv /\ EventsAreTheLast /\ HistoryInv /\ [Next]_vars => HistoryInv'
<1> SUFFICES ASSUME TypeOK, LineInv, EventsAreTheLast, HistoryInv, [Next]_vars
             PROVE  HistoryInv'
  OBVIOUS
<1>0. TypeOK'
  BY TypeNext
<1>1. /\ records \in Nat /\ records' \in Nat /\ records <= records'
      /\ \A w \in Workers : changes[w] \in Nat /\ changes'[w] \in Nat /\ changes[w] <= changes'[w]
  BY <1>0, WorldSteps DEF WorldStep, TypeOK
<1>2. ASSUME NEW state, state \in Shown \/ \E h \in Refreshers : state = BuildState(h),
             state.records <= records, \A w \in Workers : UpTo(state.workers[w], changes[w])
      PROVE  state.records <= records' /\ \A w \in Workers : UpTo(state.workers[w], changes'[w])
  <2>1. state.records \in Nat /\ \A w \in Workers : state.workers[w] \in WorkerView
    BY <1>2, ShownTypes, StatesAreTyped DEF State
  <2>2. state.records <= records'
    BY <1>1, <1>2, <2>1
  <2>3. \A w \in Workers : UpTo(state.workers[w], changes'[w])
    BY <1>1, <1>2, <2>1, UpToLater
  <2> QED
    BY <2>2, <2>3
<1>3. CASE UNCHANGED <<snapshot, events>>
  <2>1. Shown' = Shown
    BY <1>3 DEF Shown
  <2>2. ShownIsPast'
    BY <1>2, <2>1 DEF HistoryInv, ShownIsPast
  <2>3. ASSUME NEW h \in Refreshers, NEW w \in Workers, polled'[h][w] \notin NotSeen
        PROVE  /\ polled'[h][w].change <= changes'[w]
               /\ \A state \in Shown' : UpTo(state.workers[w], polled'[h][w].change)
    <3>1. polled'[h][w] \in {polled[h][w], World.workers[w]}
      BY <2>3, PolledSteps DEF PolledStep, NotSeen
    <3>2. CASE polled'[h][w] = polled[h][w]
      <4>1. polled[h][w] \in WorkerView
        BY DEF TypeOK
      <4>2. polled[h][w].change \in Nat
        BY <4>1 DEF WorkerView
      <4>3. /\ polled[h][w].change <= changes[w]
            /\ \A state \in Shown : UpTo(state.workers[w], polled[h][w].change)
        BY <2>3, <3>2 DEF HistoryInv, PolledIsNewer
      <4> QED
        BY <1>1, <2>1, <3>2, <4>2, <4>3
    <3>3. CASE polled'[h][w] = World.workers[w]
      <4>1. polled'[h][w].change = changes[w]
        BY <3>3 DEF World
      <4> QED
        BY <1>1, <2>1, <4>1 DEF HistoryInv, ShownIsPast
    <3> QED
      BY <3>1, <3>2, <3>3
  <2>4. PolledIsNewer'
    BY <2>3 DEF PolledIsNewer, NotSeen, Unreachable, NotPolled
  <2>5. NeverOlder'
    BY <1>3 DEF HistoryInv, NeverOlder, NotOlder, Unreachable, NotPolled
  <2> QED
    BY <2>2, <2>4, <2>5 DEF HistoryInv
<1>4. ASSUME NEW h \in Refreshers, Publish(h) PROVE HistoryInv'
  <2> DEFINE b == BuildState(h)
  <2>1. /\ Shown' \subseteq Shown \cup {b} /\ snapshot' = b
        /\ \A i, j \in 1 .. Len(events') : i < j =>
              \/ \E k, l \in 1 .. Len(events) : k < l /\ events'[i].state = events[k].state
                                                     /\ events'[j].state = events[l].state
              \/ events'[i].state \in Shown /\ events'[j].state = b
    BY <1>4, PublishShows
  <2>2. \A state \in Shown \cup {b} :
            /\ NotOlder(state, b) /\ state.records <= records
            /\ \A w \in Workers : UpTo(state.workers[w], changes[w])
    BY BuiltIsNewer
  <2>3. ASSUME NEW state \in Shown \cup {b}
        PROVE  state \in Shown \/ \E g \in Refreshers : state = BuildState(g)
    BY <2>3
  <2> HIDE DEF b
  <2>4. \A state \in Shown \cup {b} :
            state.records <= records' /\ \A w \in Workers : UpTo(state.workers[w], changes'[w])
    BY <1>2, <2>2, <2>3
  <2>5. ShownIsPast'
    BY <2>1, <2>4 DEF ShownIsPast
  <2>6. PolledIsNewer'
    <3>1. \A g \in Refreshers, w \in Workers : polled'[g][w] = NotPolled
      BY <1>4, NothingIsLeft
    <3> QED
      BY <3>1 DEF PolledIsNewer, NotSeen, NotPolled
  <2>7. NeverOlder'
    <3>1. DOMAIN events = 1 .. Len(events) /\ DOMAIN events' = 1 .. Len(events')
      BY <1>0 DEF TypeOK
    <3>2. ASSUME NEW i \in 1 .. Len(events'), NEW j \in 1 .. Len(events'), i < j
          PROVE  NotOlder(events'[i].state, events'[j].state)
      <4>1. CASE \E k, l \in 1 .. Len(events) : k < l /\ events'[i].state = events[k].state
                                                    /\ events'[j].state = events[l].state
        BY <3>1, <4>1 DEF HistoryInv, NeverOlder
      <4>2. CASE events'[i].state \in Shown /\ events'[j].state = b
        BY <2>2, <4>2
      <4> QED
        BY <2>1, <3>2, <4>1, <4>2
    <3>3. \A i \in 1 .. Len(events') : NotOlder(events'[i].state, snapshot')
      BY <2>1, <2>2 DEF Shown
    <3> QED
      BY <3>1, <3>2, <3>3 DEF NeverOlder, NotOlder, Unreachable, NotPolled
  <2> QED
    BY <2>5, <2>6, <2>7 DEF HistoryInv
<1>5. CASE Boot
  <2>1. events' = << >> /\ snapshot' = Nothing
    BY <1>5 DEF Boot
  <2>2. Shown' = {Nothing}
    BY <2>1 DEF Shown
  <2>3. Nothing.records = 0 /\ \A w \in Workers : Nothing.workers[w] = NotPolled
    BY DEF Nothing, NothingPolled
  <2>4. ShownIsPast'
    <3>1. \A w \in Workers : UpTo(Nothing.workers[w], changes'[w])
      BY <2>3 DEF UpTo, NotSeen
    <3> QED
      BY <1>1, <2>2, <2>3, <3>1 DEF ShownIsPast
  <2>5. PolledIsNewer'
    <3>1. \A g \in Refreshers, w \in Workers : polled'[g][w] = NotPolled
      BY <1>5, NothingIsLeft
    <3> QED
      BY <3>1 DEF PolledIsNewer, NotSeen, NotPolled
  <2>6. NeverOlder'
    BY <2>1 DEF NeverOlder
  <2> QED
    BY <2>4, <2>5, <2>6 DEF HistoryInv
<1> QED
  BY <1>3, <1>4, <1>5, ProjectionSteps DEF ProjectionStep

\* Every step keeps the questions older than their answers.
LEMMA AskedNext == TypeOK /\ EventsAreTheLast /\ AskedIsPast /\ [Next]_vars => AskedIsPast'
<1> SUFFICES ASSUME TypeOK, EventsAreTheLast, AskedIsPast, [Next]_vars,
                    NEW p \in Pages, page'[p].at = "asking"
             PROVE  /\ page'[p].asked.records <= records'
                    /\ \A w \in Workers :
                          /\ UpTo(page'[p].asked.workers[w], changes'[w])
                          /\ polled'[p][w] \notin NotSeen =>
                                UpTo(page'[p].asked.workers[w], polled'[p][w].change)
  BY DEF AskedIsPast, UpTo, NotSeen, Unreachable, NotPolled
<1>0. TypeOK'
  BY TypeNext
<1>1. /\ records \in Nat /\ records' \in Nat /\ records <= records'
      /\ \A w \in Workers : changes[w] \in Nat /\ changes'[w] \in Nat /\ changes[w] <= changes'[w]
  BY <1>0, WorldSteps DEF WorldStep, TypeOK
<1>2. page[p] \in PageState /\ World \in State /\ page[p].asked \in State
  BY StatesAreTyped DEF TypeOK, PageState
<1>3. CASE page[p].at = "asking" /\ page'[p] = page[p]
  <2> DEFINE a == page[p].asked
  <2>1. a.records \in Nat /\ \A w \in Workers : a.workers[w] \in WorkerView
    BY <1>2 DEF State
  <2>2. /\ a.records <= records
        /\ \A w \in Workers :
              /\ UpTo(a.workers[w], changes[w])
              /\ polled[p][w] \notin NotSeen => UpTo(a.workers[w], polled[p][w].change)
    BY <1>3 DEF AskedIsPast
  <2>3. a.records <= records' /\ page'[p].asked = a
    BY <1>1, <1>3, <2>1, <2>2
  <2> HIDE DEF a
  <2>4. ASSUME NEW w \in Workers
        PROVE  /\ UpTo(a.workers[w], changes'[w])
               /\ polled'[p][w] \notin NotSeen => UpTo(a.workers[w], polled'[p][w].change)
    <3>1. UpTo(a.workers[w], changes'[w])
      BY <1>1, <2>1, <2>2, UpToLater
    <3>2. polled'[p][w] \in {polled[p][w], World.workers[w]} \cup NotSeen
      BY PolledSteps DEF PolledStep, NotSeen, Refreshers
    <3>3. World.workers[w].change = changes[w]
      BY DEF World
    <3> QED
      BY <2>2, <3>1, <3>2, <3>3
  <2> QED
    BY <2>3, <2>4
<1>4. CASE /\ polled'[p] = NothingPolled
           /\ page'[p] = [page[p] EXCEPT !.at = "asking", !.asked = World]
  <2>1. page'[p].asked = World
    BY <1>2, <1>4 DEF PageState
  <2>2. \A w \in Workers : polled'[p][w] \in NotSeen
    BY <1>4 DEF NothingPolled, NotSeen
  <2>3. World.records = records /\ \A w \in Workers : World.workers[w].change = changes[w]
    BY DEF World
  <2>4. \A w \in Workers : UpTo(World.workers[w], changes'[w])
    BY <1>1, <2>3 DEF UpTo
  <2> QED
    BY <1>1, <2>1, <2>2, <2>3, <2>4
<1> QED
  BY <1>2, <1>3, <1>4, PageSteps DEF PageStep, PageState, Streaming

-----------------------------------------------------------------------------
(* The stream is in order. *)

\* Every step keeps the last events, as many as there is room for.
LEMMA EventsNext == TypeOK /\ EventsAreTheLast /\ [Next]_vars => EventsAreTheLast'
<1> SUFFICES ASSUME TypeOK, EventsAreTheLast, [Next]_vars PROVE EventsAreTheLast'
  OBVIOUS
<1>0. events \in Seq(Event) /\ Len(events) \in Nat /\ eventSeq \in Nat
  BY DEF TypeOK
<1>a. EventCapacity \in Nat /\ EventCapacity > 0
  BY OperationsAssumption
<1>1. CASE UNCHANGED <<events, eventSeq>>
  BY <1>1 DEF EventsAreTheLast
<1>2. ASSUME NEW h \in Refreshers, Publish(h) PROVE EventsAreTheLast'
  <2> DEFINE e == [seq |-> eventSeq + 1, state |-> BuildState(h)]
             n == Len(events)
  <2>1. \/ UNCHANGED <<events, eventSeq>>
        \/ eventSeq' = eventSeq + 1 /\ events' = Keep(Append(events, e))
    BY <1>2, PublishEffect
  <2>2. e \in Event /\ e.seq = eventSeq + 1
    BY <1>0, StatesAreTyped DEF Event
  <2> HIDE DEF e
  <2>3. /\ n <= EventCapacity /\ (n < EventCapacity => eventSeq = n)
        /\ \A i \in 1 .. n : events[i].seq = eventSeq - n + i
    BY DEF EventsAreTheLast
  <2>4. CASE n < EventCapacity /\ events' = Append(events, e) /\ eventSeq' = eventSeq + 1
    <3>1. /\ Len(events') = n + 1 /\ events'[n + 1] = e
          /\ \A i \in 1 .. n : events'[i] = events[i]
      BY <1>0, <2>2, <2>4
    <3>2. \A i \in 1 .. n + 1 : i = n + 1 \/ i \in 1 .. n
      BY <1>0
    <3>3. \A i \in 1 .. n + 1 : events'[i].seq = eventSeq' - (n + 1) + i
      BY <1>0, <2>2, <2>3, <2>4, <3>1, <3>2
    <3> QED
      BY <1>0, <1>a, <2>3, <2>4, <3>1, <3>3 DEF EventsAreTheLast
  <2>5. CASE n = EventCapacity /\ events' = Tail(Append(events, e)) /\ eventSeq' = eventSeq + 1
    <3>1. /\ Len(events') = n /\ events'[n] = e
          /\ \A i \in 1 .. n - 1 : events'[i] = events[i + 1] /\ i + 1 \in 1 .. n
      <4>1. Append(events, e) \in Seq(Event) /\ Len(Append(events, e)) = n + 1
        BY <1>0, <2>2
      <4>2. Append(events, e) # << >>
        BY <1>0, <4>1
      <4>3. Len(events') = n /\ \A i \in 1 .. n : events'[i] = Append(events, e)[i + 1]
        BY <1>0, <2>5, <4>1, <4>2
      <4> QED
        BY <1>0, <1>a, <2>2, <2>5, <4>3
    <3>2. \A i \in 1 .. n : i = n \/ i \in 1 .. n - 1
      BY <1>0
    <3>3. ASSUME NEW i \in 1 .. n PROVE events'[i].seq = eventSeq' - n + i
      <4>1. CASE i = n
        BY <1>0, <2>2, <2>5, <3>1, <4>1
      <4>2. CASE i \in 1 .. n - 1
        BY <1>0, <2>3, <2>5, <3>1, <4>2
      <4> QED
        BY <3>2, <4>1, <4>2
    <3>4. Len(events') <= EventCapacity /\ ~(Len(events') < EventCapacity)
      BY <1>0, <1>a, <2>5, <3>1
    <3> QED
      BY <3>1, <3>3, <3>4 DEF EventsAreTheLast
  <2>6. \/ n < EventCapacity /\ Keep(Append(events, e)) = Append(events, e)
        \/ n = EventCapacity /\ Keep(Append(events, e)) = Tail(Append(events, e))
    BY <1>0, <2>2, <2>3, KeepTheLast
  <2> QED
    BY <1>1, <2>1, <2>4, <2>5, <2>6
<1>3. CASE Boot
  <2>1. events' = << >> /\ eventSeq' = 0
    BY <1>3 DEF Boot
  <2> QED
    BY <1>a, <2>1 DEF EventsAreTheLast
<1> QED
  BY <1>1, <1>2, <1>3, ProjectionSteps DEF ProjectionStep

\* What subscribe finds begins within reach.
LEMMA NewerIsInReach ==
    ASSUME TypeOK, EventsAreTheLast, NEW c \in Nat, Newer(c) # << >>
    PROVE  Consecutive(Newer(c)) /\ InReach(c, Newer(c)[1].seq, eventSeq)
<1> DEFINE f == Newer(c)
           n == Len(events)
<1>0. events \in Seq(Event) /\ n \in Nat /\ eventSeq \in Nat
  BY DEF TypeOK
<1>1. Consecutive(events)
  BY EventsFollow
<1>2. f \in Seq(Event) /\ Found(f, events, n, c)
  BY <1>0, <1>1, NewerFinds
<1>3. /\ n > 0 /\ Consecutive(f)
      /\ f[1].seq > c /\ (f[1].seq = c + 1 \/ f[1].seq = events[1].seq)
  BY <1>2 DEF Found
<1> HIDE DEF f
<1>4. f # << >> /\ f[1] \in Event
  BY <1>2 DEF f
<1>5. f[1].seq \in Nat
  BY <1>4 DEF Event
<1>6. events[1].seq = eventSeq - n + 1 /\ (n < EventCapacity => eventSeq = n) /\ n <= EventCapacity
  BY <1>0, <1>3 DEF EventsAreTheLast
<1>7. EventCapacity \in Nat
  BY OperationsAssumption
<1>8. f[1].seq > c + 1 => eventSeq > c + EventCapacity
  BY <1>0, <1>3, <1>5, <1>6, <1>7
<1> QED
  BY <1>3, <1>8 DEF InReach, f

\* Every step keeps the pages' streams in order.
LEMMA PendingNext ==
    TypeOK /\ LineInv /\ EventsAreTheLast /\ PendingInOrder /\ [Next]_vars => PendingInOrder'
<1> SUFFICES ASSUME TypeOK, LineInv, EventsAreTheLast, PendingInOrder, [Next]_vars,
                    NEW p \in Pages
             PROVE  /\ page'[p].at # "streaming" => page'[p].pending = << >>
                    /\ page'[p].life <= life'
                    /\ Consecutive(page'[p].pending)
                    /\ page'[p].pending # << >> /\ page'[p].life = life' =>
                          InReach(page'[p].cursor, page'[p].pending[1].seq, eventSeq')
  BY DEF PendingInOrder, Consecutive
<1> DEFINE g == page[p]
<1>0. g \in PageState /\ life \in Nat /\ eventSeq \in Nat /\ EventCapacity \in Nat
  BY OperationsAssumption DEF TypeOK
<1>1. /\ g.cursor \in Nat /\ g.life \in Nat /\ g.pending \in Seq(Event)
      /\ g.at \in {"closed", "asking", "lost", "streaming"}
  BY <1>0 DEF PageState
<1>2. /\ g.at # "streaming" => g.pending = << >>
      /\ g.life <= life /\ Consecutive(g.pending)
      /\ g.pending # << >> /\ g.life = life => InReach(g.cursor, g.pending[1].seq, eventSeq)
  BY DEF PendingInOrder
<1>3. Consecutive(<< >>)
  BY DEF Consecutive
<1>4. (life' = life /\ eventSeq' \in Nat /\ eventSeq <= eventSeq') \/ life' = life + 1
  <2>1. ASSUME NEW h \in Refreshers, Publish(h)
        PROVE  life' = life /\ eventSeq' \in Nat /\ eventSeq <= eventSeq'
    BY <1>0, <2>1, PublishEffect DEF Publish
  <2> QED
    BY <1>0, <2>1, ProjectionSteps DEF ProjectionStep, Boot
<1>5. CASE page'[p] = g
  <2>1. CASE life' = life + 1
    BY <1>0, <1>1, <1>2, <1>5, <2>1
  <2>2. CASE life' = life /\ eventSeq' \in Nat /\ eventSeq <= eventSeq'
    <3>1. ASSUME g.pending # << >>, g.life = life
          PROVE  InReach(g.cursor, g.pending[1].seq, eventSeq')
      <4>1. InReach(g.cursor, g.pending[1].seq, eventSeq)
        BY <1>2, <3>1
      <4> QED
        BY <1>0, <1>1, <1>5, <2>2, <4>1 DEF InReach
    <3> QED
      BY <1>2, <1>5, <2>2, <3>1
  <2> QED
    BY <1>4, <2>1, <2>2
<1>6. CASE g.at = "closed" /\ page'[p] = [g EXCEPT !.at = "asking", !.asked = World]
  <2>1. page'[p].pending = << >> /\ page'[p].life = g.life
    BY <1>0, <1>2, <1>6 DEF PageState
  <2> QED
    BY <1>0, <1>1, <1>2, <1>3, <1>4, <2>1
<1>7. CASE /\ Refreshing(p) /\ life' = life
           /\ page'[p] = [g EXCEPT !.at = "lost", !.cursor = eventSeq', !.life = life,
                                   !.shown = BuildState(p), !.asked = Nothing]
  <2>1. In(p, line)
    BY <1>7 DEF Refreshing, In, TypeOK
  <2>2. g.at = "asking"
    BY <2>1 DEF LineInv
  <2>3. page'[p].pending = << >> /\ page'[p].life = life
    BY <1>0, <1>2, <1>7, <2>2 DEF PageState
  <2> QED
    BY <1>0, <1>3, <1>7, <2>3
<1>8. CASE UNCHANGED <<eventSeq, life>>
  <2>1. CASE g.at = "lost" /\ page'[p] = [g EXCEPT !.at = "streaming", !.pending = << >>]
    <3>1. page'[p].pending = << >> /\ page'[p].life = g.life
      BY <1>0, <2>1 DEF PageState
    <3> QED
      BY <1>2, <1>3, <1>8, <3>1
  <2>2. CASE /\ g.at = "streaming" /\ Newer(g.cursor) # << >>
             /\ page'[p] = [g EXCEPT !.pending = Newer(g.cursor)]
    <3>1. /\ page'[p].pending = Newer(g.cursor) /\ page'[p].life = g.life
          /\ page'[p].cursor = g.cursor /\ page'[p].at = "streaming"
      BY <1>0, <2>2 DEF PageState
    <3>2. Consecutive(Newer(g.cursor)) /\ InReach(g.cursor, Newer(g.cursor)[1].seq, eventSeq)
      BY <1>1, <2>2, NewerIsInReach
    <3> QED
      BY <1>2, <1>8, <3>1, <3>2
  <2>3. CASE /\ g.at = "streaming" /\ g.pending # << >>
             /\ page'[p] = [g EXCEPT !.pending = Tail(g.pending), !.cursor = Head(g.pending).seq,
                                     !.life = life, !.shown = Head(g.pending).state]
    <3> DEFINE s == g.pending
               t == Tail(s)
    <3>1. /\ page'[p].pending = t /\ page'[p].life = life
          /\ page'[p].cursor = s[1].seq /\ page'[p].at = "streaming"
      BY <1>0, <1>1, <2>3 DEF PageState
    <3>2. /\ Len(s) \in Nat /\ Len(s) > 0 /\ Len(t) = Len(s) - 1
          /\ \A i \in 1 .. Len(s) - 1 : t[i] = s[i + 1]
      BY <1>1, <2>3
    <3>3. Consecutive(s) /\ s[1] \in Event /\ t \in Seq(Event)
      BY <1>1, <1>2, <2>3, <3>2
    <3>4. s[1].seq \in Nat
      BY <3>3 DEF Event
    <3> HIDE DEF t, s
    <3>5. Consecutive(t)
      <4> SUFFICES ASSUME NEW i \in 1 .. Len(t) - 1 PROVE t[i + 1].seq = t[i].seq + 1
        BY DEF Consecutive
      <4>1. /\ i \in 1 .. Len(s) - 1 /\ i + 1 \in 1 .. Len(s) - 1
            /\ t[i] = s[i + 1] /\ t[i + 1] = s[(i + 1) + 1]
        BY <3>2
      <4> QED
        BY <3>3, <4>1 DEF Consecutive
    <3>6. t # << >> => t[1].seq = s[1].seq + 1
      <4>1. ASSUME t # << >> PROVE Len(s) - 1 >= 1
        BY <3>2, <3>3, <4>1
      <4> QED
        BY <3>2, <3>3, <4>1 DEF Consecutive
    <3>7. t # << >> => InReach(s[1].seq, t[1].seq, eventSeq')
      BY <3>4, <3>6 DEF InReach
    <3> QED
      BY <1>0, <1>8, <3>1, <3>5, <3>7
  <2>4. CASE g.at = "streaming" /\ page'[p] = [g EXCEPT !.at = "lost", !.pending = << >>]
    <3>1. page'[p].pending = << >> /\ page'[p].life = g.life
      BY <1>0, <2>4 DEF PageState
    <3> QED
      BY <1>2, <1>3, <1>8, <3>1
  <2>5. CASE g.at = "asking" /\ page'[p] = [g EXCEPT !.at = "closed", !.asked = Nothing]
    <3>1. page'[p].pending = << >> /\ page'[p].life = g.life
      BY <1>0, <1>2, <2>5 DEF PageState
    <3> QED
      BY <1>2, <1>3, <1>8, <3>1
  <2> QED
    BY <1>5, <1>6, <1>7, <2>1, <2>2, <2>3, <2>4, <2>5, PageSteps DEF PageStep, Streaming
<1> QED
  BY <1>5, <1>6, <1>7, <1>8, PageSteps DEF PageStep

-----------------------------------------------------------------------------
(* No wake-up is lost. *)

\* Who stays asleep over a step that adds no event has missed nothing.
LEMMA SleepersStay ==
    ASSUME SleepInv, asleep' \subseteq asleep, events' = events \/ events' = << >>,
           \A q \in asleep' : page'[q] = page[q]
    PROVE  SleepInv'
<1>1. AsleepIsListening'
  BY DEF SleepInv, AsleepIsListening
<1>2. ASSUME NEW q \in asleep', NEW i \in DOMAIN events'
      PROVE  events'[i].seq <= page'[q].cursor
  <2>1. events' = events
    BY <1>2
  <2> QED
    BY <1>2, <2>1 DEF SleepInv, NoWakeUpLost
<1> QED
  BY <1>1, <1>2 DEF SleepInv, NoWakeUpLost

\* A refresh that numbers a change wakes everybody; one that does not adds no event, and
\* the page it answers was asking, not asleep.
LEMMA PublishWakes ==
    ASSUME TypeOK, LineInv, SleepInv, NEW h \in Refreshers, Publish(h)
    PROVE  SleepInv'
<1>1. asleep' = {} \/ (asleep' = asleep /\ events' = events)
  BY DEF Publish, Notified
<1>2. CASE asleep' = {}
  BY <1>2 DEF SleepInv, AsleepIsListening, NoWakeUpLost
<1>3. CASE asleep' = asleep /\ events' = events
  <2>1. Refreshing(h) /\ Answer(h, eventSeq', BuildState(h))
    BY DEF Publish
  <2>2. page \in [Pages -> PageState] /\ asleep \subseteq Pages /\ line \in Seq(Refreshers)
    BY DEF TypeOK
  <2>3. h \in Pages => h \notin asleep
    <3>1. In(h, line)
      BY <2>1, <2>2 DEF In, Refreshing
    <3> QED
      BY <3>1 DEF LineInv, SleepInv, AsleepIsListening
  <2>4. \A q \in asleep : page'[q] = page[q]
    BY <2>1, <2>2, <2>3 DEF Answer, Refreshers
  <2> QED
    BY <1>3, <2>4, SleepersStay
<1> QED
  BY <1>1, <1>2, <1>3

\* A subscription that waits has seen every event that is kept.
LEMMA WaitHasLooked ==
    ASSUME TypeOK, EventsAreTheLast, SleepInv, NEW p \in Pages, Wait(p)
    PROVE  SleepInv'
<1>1. /\ page[p].at = "streaming" /\ page[p].pending = << >> /\ Newer(page[p].cursor) = << >>
      /\ asleep' = asleep \cup {p} /\ page' = page /\ events' = events
  BY DEF Wait, Streaming, projectionVars
<1>2. AsleepIsListening'
  BY <1>1 DEF SleepInv, AsleepIsListening
<1>3. page[p].cursor \in Nat /\ events \in Seq(Event) /\ Consecutive(events)
  BY EventsFollow DEF TypeOK, PageState
<1> DEFINE c == page[p].cursor
<1>4. Found(Newer(c), events, Len(events), c)
  <2> HIDE DEF c
  <2>1. c \in Nat
    BY <1>3 DEF c
  <2> QED
    BY <1>3, <2>1, NewerFinds
<1>5. \A i \in 1 .. Len(events) : ~(events[i].seq > c)
  BY <1>1, <1>4 DEF Found
<1>6. ASSUME NEW i \in DOMAIN events PROVE events[i].seq <= c
  <2>1. i \in 1 .. Len(events) /\ events[i] \in Event
    BY <1>3
  <2>2. events[i].seq \in Nat
    BY <2>1 DEF Event
  <2> QED
    BY <1>3, <1>5, <2>1, <2>2
<1>7. NoWakeUpLost'
  BY <1>1, <1>6 DEF SleepInv, NoWakeUpLost
<1> QED
  BY <1>2, <1>7 DEF SleepInv

\* Every step keeps the sleepers up to date.
LEMMA SleepNext ==
    TypeOK /\ LineInv /\ EventsAreTheLast /\ SleepInv /\ [Next]_vars => SleepInv'
<1> SUFFICES ASSUME TypeOK, LineInv, EventsAreTheLast, SleepInv, [Next]_vars PROVE SleepInv'
  OBVIOUS
<1> USE DEF worldVars, projectionVars
<1>0. page \in [Pages -> PageState] /\ asleep \subseteq Pages
  BY DEF TypeOK
<1>1. ASSUME UNCHANGED <<page, asleep>>, events' = events \/ events' = << >> PROVE SleepInv'
  BY <1>1, SleepersStay
<1>2. ASSUME NEW w \in Workers, WorkerChanges(w) PROVE SleepInv'
  BY <1>1, <1>2 DEF WorkerChanges
<1>3. CASE RecordsChange \/ PollAgain \/ Stop \/ Boot \/ UNCHANGED vars
  BY <1>1, <1>3 DEF RecordsChange, PollAgain, Stop, Boot, vars
<1>4. ASSUME NEW h \in Refreshers, Refresh(h) PROVE SleepInv'
  <2>1. ASSUME NEW w \in Workers, PollWorker(h, w) PROVE SleepInv'
    BY <1>1, <2>1 DEF PollWorker
  <2> QED
    BY <1>4, <2>1, PublishWakes DEF Refresh
<1>5. ASSUME NEW p \in Pages, Ask(p) \/ Subscribe(p) \/ Collect(p) \/ Deliver(p) PROVE SleepInv'
  <2>1. UNCHANGED <<asleep, events>> /\ p \notin asleep
    BY <1>5 DEF Ask, Subscribe, Collect, Deliver, SleepInv, AsleepIsListening
  <2>2. \A q \in Pages : q # p => page'[q] = page[q]
    BY <1>0, <1>5 DEF Ask, Subscribe, Collect, Deliver
  <2> QED
    BY <1>0, <2>1, <2>2, SleepersStay
<1>6. ASSUME NEW p \in Pages, Disconnect(p) PROVE SleepInv'
  <2>1. asleep' = asleep \ {p} /\ UNCHANGED events
    BY <1>6 DEF Disconnect
  <2>2. \A q \in Pages : q # p => page'[q] = page[q]
    BY <1>0, <1>6 DEF Disconnect
  <2> QED
    BY <1>0, <2>1, <2>2, SleepersStay
<1>7. ASSUME NEW p \in Pages, Wait(p) PROVE SleepInv'
  BY <1>7, WaitHasLooked
<1>8. CASE Halt
  BY <1>8 DEF Halt, CloseProjection, SleepInv, AsleepIsListening, NoWakeUpLost
<1> QED
  BY <1>2, <1>3, <1>4, <1>5, <1>6, <1>7, <1>8 DEF Next, Page

-----------------------------------------------------------------------------
(* Results. *)

\* The first process has not been started.
LEMMA OperationsInit == Init => OperationsInv
<1> SUFFICES ASSUME Init PROVE OperationsInv
  OBVIOUS
<1>0. NotPolled \in WorkerView /\ NothingPolled \in [Workers -> WorkerView]
  BY DEF NotPolled, WorkerView, NothingPolled
<1>1. Nothing \in State
  BY <1>0 DEF Nothing, State
<1>2. NewPage \in PageState
  <2>1. << >> \in Seq(Event) /\ 0 \in Nat
    OBVIOUS
  <2> QED
    BY <1>1, <2>1 DEF NewPage, PageState
<1>3. \A p \in Pages : page[p] = NewPage
  BY DEF Init
<1>4. \A h \in Refreshers : polled[h] = NothingPolled
  BY DEF Init
<1>5. TypeOK
  <2>1. line \in Seq(Refreshers) /\ events \in Seq(Event)
    BY DEF Init
  <2>2. status \in [Workers -> {"stopped", "running"}] /\ changes \in [Workers -> Nat]
    BY DEF Init
  <2>3. polled \in [Refreshers -> [Workers -> WorkerView]] /\ page \in [Pages -> PageState]
    BY <1>0, <1>2 DEF Init
  <2> QED
    BY <1>1, <2>1, <2>2, <2>3 DEF Init, TypeOK
<1>6. LineInv
  <2>1. Distinct(line) /\ \A p \in Pages : ~In(p, line)
    BY DEF Init, Distinct, In
  <2>2. \A p \in Pages : page[p].at \notin {"asking", "streaming"}
    BY <1>3 DEF NewPage
  <2> QED
    BY <1>4, <2>1, <2>2 DEF Init, LineInv
<1>7. HistoryInv
  <2>1. Shown = {Nothing}
    BY DEF Init, Shown
  <2>2. Nothing.records = 0 /\ \A w \in Workers : Nothing.workers[w] = NotPolled
    BY DEF Nothing, NothingPolled
  <2>3. ShownIsPast
    BY <2>1, <2>2 DEF Init, ShownIsPast, UpTo, NotSeen
  <2>4. PolledIsNewer
    BY <1>4 DEF PolledIsNewer, NothingPolled, NotSeen
  <2>5. NeverOlder
    BY DEF Init, NeverOlder
  <2> QED
    BY <2>3, <2>4, <2>5 DEF HistoryInv
<1>8. AskedIsPast
  BY <1>3 DEF AskedIsPast, NewPage
<1>9. EventsAreTheLast
  BY OperationsAssumption DEF Init, EventsAreTheLast
<1>10. PendingInOrder
  <2>1. Consecutive(<< >>)
    BY DEF Consecutive
  <2>2. \A p \in Pages : page[p].pending = << >> /\ page[p].life = 0
    BY <1>3 DEF NewPage
  <2> QED
    BY <2>1, <2>2 DEF Init, PendingInOrder
<1>11. SleepInv
  BY DEF Init, SleepInv, AsleepIsListening, NoWakeUpLost
<1> QED
  BY <1>5, <1>6, <1>7, <1>8, <1>9, <1>10, <1>11 DEF OperationsInv

\* Types, the order of the line and of the history, the questions, the kept events and the
\* streams keep each other right: the invariant of dashboard and projection.
THEOREM OperationsInvariant == Spec => []OperationsInv
<1>1. OperationsInv /\ [Next]_vars => OperationsInv'
  BY TypeNext, LineNext, HistoryNext, AskedNext, EventsNext, PendingNext, SleepNext
     DEF OperationsInv
<1> QED
  BY <1>1, OperationsInit, PTL DEF Spec

\* The history of a server process does not run backwards, however the refreshes of the
\* poll task and of the pages overlap, with any number of workers and pages.
THEOREM HistoryNeverRunsBack == Spec => []NeverOlder
<1>1. OperationsInv => NeverOlder
  BY DEF OperationsInv, HistoryInv
<1> QED
  BY <1>1, OperationsInvariant, PTL

\* No wake-up is lost between a refresh and a subscriber: whatever is kept and unseen, its
\* page is not waiting for the condition.
THEOREM NoSubscriberSleepsOnNews == Spec => []NoWakeUpLost
<1>1. OperationsInv => NoWakeUpLost
  BY DEF OperationsInv, SleepInv
<1> QED
  BY <1>1, OperationsInvariant, PTL

\* An answer to GET /api/snapshot is not older than the question.
THEOREM AnswersAreFresh == Spec => AnswerIsFresh
<1> DEFINE Fresh(p) ==
      page[p].at \in {"closed", "asking"} /\ page'[p].at = "lost" =>
          NotOlder(IF page[p].at = "asking" THEN page[p].asked ELSE World, page'[p].shown)
<1>1. ASSUME OperationsInv, [Next]_vars, NEW p \in Pages PROVE Fresh(p)
  <2> SUFFICES ASSUME page[p].at \in {"closed", "asking"}, page'[p].at = "lost"
               PROVE  NotOlder(IF page[p].at = "asking" THEN page[p].asked ELSE World,
                               page'[p].shown)
    OBVIOUS
  <2>0. TypeOK /\ LineInv /\ AskedIsPast
    BY <1>1 DEF OperationsInv
  <2>1. page[p] \in PageState
    BY <2>0 DEF TypeOK
  <2>2. PageStep(p)
    BY <1>1, <2>0, PageSteps
  <2>3. /\ Refreshing(p)
        /\ page'[p] = [page[p] EXCEPT !.at = "lost", !.cursor = eventSeq', !.life = life,
                                      !.shown = BuildState(p), !.asked = Nothing]
    BY <2>1, <2>2 DEF PageStep, PageState, Streaming
  <2>4. In(p, line)
    BY <2>0, <2>3, SMTT(30) DEF Refreshing, In, TypeOK
  <2>5. page[p].at = "asking"
    BY <2>0, <2>4 DEF LineInv
  <2>6. page'[p].shown = BuildState(p)
    BY <2>1, <2>3 DEF PageState
  <2>7. BuildState(p).records = records /\ BuildState(p).workers = polled[p]
    BY DEF BuildState
  <2>8. /\ page[p].asked.records <= records
        /\ \A w \in Workers :
              polled[p][w] \notin NotSeen => UpTo(page[p].asked.workers[w], polled[p][w].change)
    BY <2>0, <2>5 DEF AskedIsPast
  <2>9. NotOlder(page[p].asked, BuildState(p))
    BY <2>7, <2>8, NotOlderMeans
  <2> QED
    BY <2>5, <2>6, <2>9
<1>2. OperationsInv /\ [Next]_vars => [\A p \in Pages : Fresh(p)]_vars
  BY <1>1
<1> QED
  BY <1>2, OperationsInvariant, PTL DEF Spec, AnswerIsFresh

\* A page sees the changes of a server process in the order of their numbers, and misses
\* one only if it has fallen behind by more than the capacity, after losses of its
\* connection as well as within a stream, for every capacity.
THEOREM StreamsAreInOrder == Spec => StreamInOrder
<1> DEFINE Ordered(p) ==
      Streaming(p) /\ page'[p].cursor # page[p].cursor /\ page[p].life = life =>
          /\ page'[p].cursor > page[p].cursor
          /\ page'[p].cursor > page[p].cursor + 1 => eventSeq > page[p].cursor + EventCapacity
<1>1. ASSUME OperationsInv, [Next]_vars, NEW p \in Pages PROVE Ordered(p)
  <2> SUFFICES ASSUME Streaming(p), page'[p].cursor # page[p].cursor, page[p].life = life
               PROVE  /\ page'[p].cursor > page[p].cursor
                      /\ page'[p].cursor > page[p].cursor + 1 =>
                            eventSeq > page[p].cursor + EventCapacity
    OBVIOUS
  <2>0. TypeOK /\ LineInv /\ PendingInOrder
    BY <1>1 DEF OperationsInv
  <2>1. page[p] \in PageState
    BY <2>0 DEF TypeOK
  <2>2. ~Refreshing(p)
    <3>1. Refreshing(p) => In(p, line)
      BY <2>0 DEF Refreshing, In, TypeOK
    <3> QED
      BY <2>0, <3>1 DEF LineInv, Streaming
  <2>3. PageStep(p)
    BY <1>1, <2>0, PageSteps
  <2>4. /\ page[p].pending # << >>
        /\ page'[p] = [page[p] EXCEPT !.pending = Tail(page[p].pending),
                               !.cursor = Head(page[p].pending).seq, !.life = life,
                               !.shown = Head(page[p].pending).state]
    BY <2>1, <2>2, <2>3 DEF PageStep, PageState, Streaming
  <2>5. page[p].pending \in Seq(Event)
    BY <2>1 DEF PageState
  <2>6. page'[p].cursor = page[p].pending[1].seq
    BY <2>1, <2>4, <2>5 DEF PageState
  <2>7. InReach(page[p].cursor, page[p].pending[1].seq, eventSeq)
    BY <2>0, <2>4 DEF PendingInOrder
  <2> QED
    BY <2>6, <2>7 DEF InReach
<1>2. OperationsInv /\ [Next]_vars => [\A p \in Pages : Ordered(p)]_vars
  BY <1>1
<1> QED
  BY <1>2, OperationsInvariant, PTL DEF Spec, StreamInOrder
=============================================================================
