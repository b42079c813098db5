------------------------ MODULE OperationsProjection ------------------------
(***************************************************************************)
(* remote_robot/operations.py behind remote_robot/dashboard.py: a          *)
(* projection polls the workers, reads leases and journal, numbers every   *)
(* change and keeps the last ones for its subscribers; the dashboard polls *)
(* it, answers with snapshots and streams the changes to browser pages,    *)
(* which come back with the number of the last one they saw.               *)
(*                                                                         *)
(* Refreshes are cut at their awaits: the lock, and the poll of each       *)
(* worker.  The condition of the projection is never held across an await, *)
(* so taking it does not suspend.  What the run-time shows is reduced to   *)
(* what can change: the status of every worker, and leases and journal as  *)
(* one number that grows with every change to them.                        *)
(***************************************************************************)
EXTENDS Naturals, SequencesExt

CONSTANTS
    Workers,        \* worker ids
    Pages,          \* browser pages
    Poller,         \* the poll task of the dashboard
    EventCapacity,  \* event_capacity (256)
    MaxChanges,     \* changes of workers, leases and journal, at most
    MaxTrouble      \* timeouts, lost connections, stops and crashes, at most

ASSUME OperationsAssumption ==
    /\ Poller \notin Pages
    /\ EventCapacity \in Nat \ {0}

Refreshers == Pages \cup {Poller}

VARIABLES
    status, changes,    \* every worker's status, and how often it has changed
    records,            \* changes of leases and journal
    server, life,       \* "starting", "up", "stopping" or "down"; number of the process
    line,               \* who holds _refresh_lock, and who waits for it, in order
    polled,             \* what each refresher has got from each worker
    eventSeq, fingerprint, snapshot, events,    \* the projection
    page,               \* the pages and their subscriptions
    asleep,             \* pages whose subscription is in _condition.wait()
    trouble             \* how much has gone wrong

worldVars == <<status, changes, records>>
projectionVars == <<eventSeq, fingerprint, snapshot, events>>
vars == <<worldVars, server, life, line, polled, projectionVars, page, asleep,
          trouble>>

-----------------------------------------------------------------------------
NotPolled == [status |-> "pending", change |-> 0]
Unreachable == [status |-> "unreachable", change |-> 0]
NothingPolled == [w \in Workers |-> NotPolled]
Nothing == [workers |-> NothingPolled, records |-> 0]

\* What a change is measured by: everything shown but the times.
Fingerprint(state) ==
    [workers |-> [w \in Workers |-> state.workers[w].status], records |-> state.records]

\* A page: where it stands, the last number it saw and the process that gave it, what
\* it shows, the events handed to its stream, and what was true when it asked.
NewPage ==
    [at |-> "closed", cursor |-> 0, life |-> 0, shown |-> Nothing, pending |-> << >>,
     asked |-> Nothing]

Streaming(p) == page[p].at = "streaming"

Trouble == trouble < MaxTrouble /\ trouble' = trouble + 1

World == [workers |-> [w \in Workers |-> [status |-> status[w], change |-> changes[w]]],
          records |-> records]

-----------------------------------------------------------------------------
(* What is observed: workers, leases and journal change by themselves. *)

MoreChanges == records + MapThenSumSet(LAMBDA w : changes[w], Workers) < MaxChanges

WorkerChanges(w) ==
    /\ MoreChanges
    /\ changes' = [changes EXCEPT ![w] = @ + 1]
    /\ status' = [status EXCEPT ![w] = IF @ = "stopped" THEN "running" ELSE "stopped"]
    /\ UNCHANGED <<records, server, life, line, polled, projectionVars, page, asleep,
                   trouble>>

RecordsChange ==
    /\ MoreChanges
    /\ records' = records + 1
    /\ UNCHANGED <<status, changes, server, life, line, polled, projectionVars, page,
                   asleep, trouble>>

-----------------------------------------------------------------------------
(* refresh *)

Enter(h) ==
    /\ line' = Append(line, h)
    /\ polled' = [polled EXCEPT ![h] = NothingPolled]

\* Faulty variant of Refreshing: the lock is not taken.
RefreshingTogether(h) == h \in ToSet(line)

\* The lock goes to the refreshers in the order in which they came.
Refreshing(h) == line # << >> /\ Head(line) = h

\* _poll_workers: an answer, or an error or the end of the second it had.
PollWorker(h, w) ==
    /\ Refreshing(h)
    /\ polled[h][w] = NotPolled
    /\ \/ /\ polled' = [polled EXCEPT ![h][w] = World.workers[w]]
          /\ UNCHANGED trouble
       \/ /\ polled' = [polled EXCEPT ![h][w] = Unreachable]
          /\ Trouble
    /\ UNCHANGED <<worldVars, server, life, line, projectionVars, page, asleep>>

\* Faulty variant of Keep: one event less than the capacity survives.
KeepFewer(seq) == IF Len(seq) >= EventCapacity THEN Tail(seq) ELSE seq

\* deque(maxlen=event_capacity)
Keep(seq) == IF Len(seq) > EventCapacity THEN Tail(seq) ELSE seq

\* _build_state on the workers as polled and on leases and journal as they are now.
BuildState(h) == [workers |-> polled[h], records |-> records]

\* The page that asked gets the snapshot and its number; start() goes on to listen.
Answer(h, seq, state) ==
    IF h = Poller
    THEN /\ server' = IF server = "starting" THEN "up" ELSE server
         /\ UNCHANGED page
    ELSE /\ page' = [page EXCEPT ![h].at = "lost", ![h].cursor = seq, ![h].life = life,
                                 ![h].shown = state, ![h].asked = Nothing]
         /\ UNCHANGED server

\* Faulty variant of Notified: the event is kept, but notify_all is forgotten.
NotifiedNever(changed) == asleep

\* notify_all, after the event was appended: everybody who waits is woken.
Notified(changed) == IF changed THEN {} ELSE asleep

\* The rest of refresh, which does not suspend: a changed state gets the next number and
\* an event and wakes the subscribers, and the snapshot is replaced in any case.
Publish(h) ==
    /\ Refreshing(h)
    /\ \A w \in Workers : polled[h][w] # NotPolled
    /\ LET state == BuildState(h)
           changed == snapshot = Nothing \/ Fingerprint(state) # fingerprint
           seq == IF changed THEN eventSeq + 1 ELSE eventSeq
       IN  /\ eventSeq' = seq
           /\ snapshot' = state
           /\ fingerprint' = Fingerprint(state)
           /\ events' = IF changed THEN Keep(Append(events, [seq |-> seq, state |-> state]))
                        ELSE events
           /\ asleep' = Notified(changed)
           /\ Answer(h, seq, state)
    /\ line' = Tail(line)
    /\ polled' = [polled EXCEPT ![h] = NothingPolled]
    /\ UNCHANGED <<worldVars, life, trouble>>

-----------------------------------------------------------------------------
(* The dashboard and its pages. *)

\* _poll: the interval has passed.
PollAgain ==
    /\ server = "up" /\ Poller \notin ToSet(line)
    /\ Enter(Poller)
    /\ UNCHANGED <<worldVars, server, life, projectionVars, page, asleep, trouble>>

\* Faulty variant of Ask: with a refresh under way, the last snapshot is good enough.
AskCached(p) ==
    /\ server = "up" /\ page[p].at = "closed"
    /\ IF line = << >>
       THEN Enter(p) /\ page' = [page EXCEPT ![p].at = "asking", ![p].asked = World]
       ELSE /\ page' = [page EXCEPT ![p].at = "lost", ![p].cursor = eventSeq,
                          ![p].life = life, ![p].shown = snapshot]
            /\ UNCHANGED <<line, polled>>
    /\ UNCHANGED <<worldVars, server, life, projectionVars, asleep, trouble>>

\* boot of the page: GET /api/snapshot, which refreshes first.
Ask(p) ==
    /\ server = "up" /\ page[p].at = "closed"
    /\ Enter(p)
    /\ page' = [page EXCEPT ![p].at = "asking", ![p].asked = World]
    /\ UNCHANGED <<worldVars, server, life, projectionVars, asleep, trouble>>

\* GET /api/events with the last number seen, at first and after every loss.
Subscribe(p) ==
    /\ server = "up" /\ page[p].at = "lost"
    /\ page' = [page EXCEPT ![p].at = "streaming", ![p].pending = << >>]
    /\ UNCHANGED <<worldVars, server, life, line, polled, projectionVars, asleep, trouble>>

\* The kept events after the given number, collected from the first to the last.
Newer(cursor) ==
    LET pending[n \in 0 .. Len(events)] ==
            IF n = 0 THEN << >>
            ELSE IF events[n].seq > cursor THEN Append(pending[n - 1], events[n])
            ELSE pending[n - 1]
    IN  pending[Len(events)]

\* subscribe, at its start, after a batch or woken up, looks for newer events that are
\* still kept, and goes off with all of them.
Collect(p) ==
    /\ Streaming(p) /\ page[p].pending = << >> /\ p \notin asleep
    /\ Newer(page[p].cursor) # << >>
    /\ page' = [page EXCEPT ![p].pending = Newer(page[p].cursor)]
    /\ UNCHANGED <<worldVars, server, life, line, polled, projectionVars, asleep, trouble>>

\* Faulty variant of Wait: the subscription waits before it has looked.
WaitUnseen(p) ==
    /\ Streaming(p) /\ page[p].pending = << >> /\ p \notin asleep
    /\ asleep' = asleep \cup {p}
    /\ UNCHANGED <<worldVars, server, life, line, polled, projectionVars, page, trouble>>

\* It finds none and waits for the condition, which it has held since it looked.
Wait(p) ==
    /\ Streaming(p) /\ page[p].pending = << >> /\ p \notin asleep
    /\ Newer(page[p].cursor) = << >>
    /\ asleep' = asleep \cup {p}
    /\ UNCHANGED <<worldVars, server, life, line, polled, projectionVars, page, trouble>>

\* _events writes the next of them to the page.
Deliver(p) ==
    /\ Streaming(p) /\ page[p].pending # << >>
    /\ LET event == Head(page[p].pending)
       IN  page' = [page EXCEPT ![p].pending = Tail(@), ![p].cursor = event.seq,
                                ![p].life = life, ![p].shown = event.state]
    /\ UNCHANGED <<worldVars, server, life, line, polled, projectionVars, asleep, trouble>>

\* The connection of a page breaks: the wait is cancelled, what was not written is gone.
Disconnect(p) ==
    /\ Streaming(p)
    /\ Trouble
    /\ page' = [page EXCEPT ![p].at = "lost", ![p].pending = << >>]
    /\ asleep' = asleep \ {p}
    /\ UNCHANGED <<worldVars, server, life, line, polled, projectionVars>>

-----------------------------------------------------------------------------
(* Start and stop. *)

\* DashboardServer.close begins with the poll task, in whatever await it is.
Stop ==
    /\ server = "up"
    /\ Trouble
    /\ server' = "stopping"
    /\ \/ Poller \notin ToSet(line) /\ UNCHANGED line
       \/ \E i \in DOMAIN line : line[i] = Poller /\ line' = RemoveAt(line, i)
    /\ polled' = [polled EXCEPT ![Poller] = NothingPolled]
    /\ UNCHANGED <<worldVars, life, projectionVars, page, asleep>>

\* close of the projection: every subscriber is woken and finds it closed.
CloseProjection == asleep' = {}

\* The end of the process, by way of a stop or of a crash: every request ends with it.
\* In a stop the requests end first and the projection is closed after them.
Halt ==
    /\ \/ server = "stopping" /\ UNCHANGED trouble
       \/ server = "up" /\ Trouble
    /\ server' = "down"
    /\ line' = << >>
    /\ polled' = [h \in Refreshers |-> NothingPolled]
    /\ page' = [p \in Pages |->
                  CASE page[p].at = "asking" -> [page[p] EXCEPT !.at = "closed", !.asked = Nothing]
                    [] page[p].at = "streaming" ->
                          [page[p] EXCEPT !.at = "lost", !.pending = << >>]
                    [] OTHER -> page[p]]
    /\ CloseProjection
    /\ UNCHANGED <<worldVars, life, projectionVars>>

\* A new process with a new projection; start refreshes before it listens.
Boot ==
    /\ server = "down"
    /\ server' = "starting"
    /\ life' = life + 1
    /\ eventSeq' = 0 /\ events' = << >>
    /\ snapshot' = Nothing /\ fingerprint' = Fingerprint(Nothing)
    /\ Enter(Poller)
    /\ UNCHANGED <<worldVars, page, asleep, trouble>>

Init ==
    /\ status = [w \in Workers |-> "stopped"]
    /\ changes = [w \in Workers |-> 0]
    /\ records = 0
    /\ server = "down" /\ life = 0
    /\ line = << >>
    /\ polled = [h \in Refreshers |-> NothingPolled]
    /\ eventSeq = 0 /\ events = << >>
    /\ snapshot = Nothing /\ fingerprint = Fingerprint(Nothing)
    /\ page = [p \in Pages |-> NewPage]
    /\ asleep = {}
    /\ trouble = 0

Refresh(h) == Publish(h) \/ \E w \in Workers : PollWorker(h, w)

Page(p) == Collect(p) \/ Wait(p) \/ Deliver(p)

Next ==
    \/ \E w \in Workers : WorkerChanges(w)
    \/ RecordsChange
    \/ PollAgain
    \/ \E h \in Refreshers : Refresh(h)
    \/ \E p \in Pages : Ask(p) \/ Subscribe(p) \/ Page(p) \/ Disconnect(p)
    \/ Stop \/ Halt \/ Boot

\* The loop runs what is ready and the interval of the poll task passes; a page that
\* has a stream reads it.  Nobody has to open a page or to start a server.
Spec ==
    /\ Init /\ [][Next]_vars
    /\ WF_vars(PollAgain)
    /\ \A h \in Refreshers : WF_vars(Refresh(h))
    /\ \A p \in Pages : WF_vars(Page(p))

-----------------------------------------------------------------------------
(* Properties. *)

\* State b was not gathered before state a, worker by worker.
NotOlder(a, b) ==
    /\ a.records <= b.records
    /\ \A w \in Workers :
          {a.workers[w], b.workers[w]} \cap {Unreachable, NotPolled} = {} =>
              a.workers[w].change <= b.workers[w].change

\* The history of one server process does not run backwards: refreshes of the poll
\* task and of callers overlap, yet no event and no snapshot shows a worker, a lease
\* or a journal as it was before the one ahead of it.
NeverOlder ==
    /\ \A i, j \in DOMAIN events : i < j => NotOlder(events[i].state, events[j].state)
    /\ \A i \in DOMAIN events : NotOlder(events[i].state, snapshot)

\* snapshot: "Return a fresh, self-consistent snapshot".  It is fresh: the answer is
\* not older than the question, even with another refresh half done at that time.
AnswerIsFresh ==
    [][\A p \in Pages : page[p].at \in {"closed", "asking"} /\ page'[p].at = "lost" =>
          NotOlder(IF page[p].at = "asking" THEN page[p].asked ELSE World,
                   page'[p].shown)]_vars

\* A stream shows the changes in the order of their numbers and leaves one out only
\* if the page has fallen behind by more than the capacity.
StreamInOrder ==
    [][\A p \in Pages :
          Streaming(p) /\ page'[p].cursor # page[p].cursor /\ page[p].life = life =>
              /\ page'[p].cursor > page[p].cursor
              /\ page'[p].cursor > page[p].cursor + 1 =>
                    eventSeq > page[p].cursor + EventCapacity]_vars

\* No wake-up is lost: while a subscription waits for the condition, no event that its
\* page has not seen is kept.  refresh appends before it notifies, and subscribe holds the
\* condition from its look to its wait, so neither can slip in between.
NoWakeUpLost ==
    \A p \in asleep : \A i \in DOMAIN events : events[i].seq <= page[p].cursor

Current(p) ==
    /\ page[p].shown.records = records
    /\ \A w \in Workers : page[p].shown.workers[w].status = status[w]

\* A page that came back with the number of an earlier process and is not yet behind.
OutOfStep(p) == page[p].life # life /\ page[p].cursor >= eventSeq

\* When things settle, every page with a stream shows how they are: whatever a refresh
\* publishes between a subscriber's look, its wait and its next batch, the subscriber is
\* awake for it or woken by notify_all and looks again.  The exception is a page whose last number
\* is that of an earlier server process: it waits for the new one to count past it.
PagesCatchUp ==
    \A p \in Pages :
        <>[](server = "up" /\ Streaming(p) => Current(p) \/ OutOfStep(p))
=============================================================================
