# A TLA+ model of RemoteRobot

RemoteRobot drives SO-101 arms over a network. The repository holds two
generations. The first (`robot_server.py`, `robot_client.py`,
`robot_protocol.py`) is the one that moves a real arm: a WebSocket server that
validates a trajectory, buffers it and plays it on the servos. The second
(`remote_robot/`) is the foundation of a multi-robot system: a capability
registry, a program compiler, an orchestrator with leases and a journal, worker
processes, and a read-only dashboard.

## Inventory

| part | state | operations | interaction |
|---|---|---|---|
| `ProgramRun` (v1) | buffer of points, receipts, final flag, state, cursor, stop event, last heartbeat, measured origin | append_chunk, start, heartbeat, request_stop, connection_lost, the execution thread | event loop and thread share it under a lock; the stop event is read without it |
| `ProgramController` (v1) | the active run | open_run, emergency_stop, wait_for_idle | every connection, the signal handler |
| `SO101Backend` (v1) | serial port, torque, goal registers | prepare_disabled, enable_at_current, read_q, send_q, close | called by the execution thread only |
| connection handler, server process (v1) | one run per connection | messages, disconnect, SIGINT/SIGTERM | asyncio |
| `robot_client` (v1) | cursor, receipts | open, upload, stream ahead, heartbeat, cancel | one connection |
| `RunOrchestrator` (v2) | active run ids, phase | execute: lease, disable, per phase prepare/start/wait/wait, stop | calls leases, journal, workers |
| `LeaseManager` (v2) | owner of every target, grant of every run | acquire, release | orchestrator, dashboard |
| `RunJournal` (v2) | events of every run, closed flag, recovered runs | append, replay, load | orchestrator, dashboard |
| `InMemoryWorker` (v2) | status, phase plan, event queue, phase task | prepare_disabled, prepare_phase, start_phase, stop, next_event, close | orchestrator |
| `SubprocessWorker`, `worker_process`, `ipc` (v2) | pending calls, event queue, process | the same over length-prefixed frames | pipe |
| `OperationsProjection`, `DashboardServer` (v2) | last snapshot and its fingerprint, event number, last events; the poll task | refresh, snapshot, subscribe, start, close | reads leases, journal, workers; browser pages |
| `CapabilityRegistry`, `model` (v2) | static node graph | load, resolve, describe, authorize | everything |
| `program` (v2) | none; programs are files that outlive a server | compile, validate_for_current_registry | registry, orchestrator, cli |
| `network`, `server_v2`, `client_v2`, `migrate`, `cli` (v2) | connection | request/response over WebSocket | registry |

### How the parts interact

*First generation.* A client opens a WebSocket, opens a run, uploads chunks of
timestamped points and starts it. `connection_handler` runs on the asyncio loop
and calls into `ProgramRun` under the run's lock. `start` creates the execution
thread, which connects to the motors with torque off, measures the pose, checks
the start, switches torque on and plays the points in a timed loop; its finally
clause holds the pose, closes the bus and only then makes the run terminal.
`ProgramController` admits a new run when the last one is terminal. Any
connection may ask for an emergency stop; a signal does so too and then waits
for the thread, where the loop takes signal handlers; elsewhere Ctrl+C ends the
process without either.

*Second generation.* `RunOrchestrator.execute` leases every target of a sealed
program, writes each step to the journal, and drives the workers of each phase
through prepare, start, "started" and "completed" by gathering calls and waiting
for events. Every failure path leads to one except clause: stop all workers,
write `run.faulted`, release the lease. The dashboard reads the same leases,
journal and workers: a poll task and every request for a snapshot refresh one
projection, which numbers each change and keeps the last ones for pages that
stream them. Before a run gets its lease, `execute` validates the program against
the registry the server has loaded, checks the scopes of the identity and derives
the lock set from the manifest of the root.

### What is hard, and what makes each part correct

| part | hard behaviour | properties |
|---|---|---|
| v1 runs | thread against loop, a stop or a dead client at any moment, failures of each bus call, shutdown with a daemon thread | one run on the bus; a terminal run has let go; no target outside the limits; at most one target after a stop; a clean exit switches torque off; an abandoned run ends |
| v1 buffer | chunks validated before and after the origin is known, digests that fail at the end, resends | one valid trajectory; receipts tile the buffer; completed means the declared program was played; bounded lookahead |
| v1 client | pacing by an old cursor, loss of the connection while several tasks wait | nothing it sends is refused; short chunks never underrun; it ends |
| leases | two tables, all-or-nothing grants | tables agree; exclusive leases implemented |
| registry | graphs of composites with shared nodes, cycles, aliases; edits between two starts of a server | exactly the proper graphs load; a program is stale exactly when something below its root changed |
| compiler, admission | programs changed after compilation, several roots and aliases over one robot | a running program fits the robots; concurrent runs keep apart |
| projection, dashboard | overlapping refreshes, a full event buffer, a change between look and wait, reconnection to a later process | the history does not run backwards; answers are fresh; streams are in order; no wake-up is lost; pages catch up |
| orchestrator | partial failure of a gather, left-over events, cancellation at any await, failing journal | the journal tells one run; phase barrier; completed means played; safe idle; plans undisturbed; every run ends |
| subprocess worker | a process that is slow, hangs or dies, late answers, a full queue, close and time-out together | own answer; nothing after a time-out; events without a gap; a closed worker is dead; a written call returns |
| file journal | failing flush and sync, crash or loss of power at any byte, restart | what was acknowledged is replayed; a restart resumes no run |

The hazards, each at its line, are listed in `PROJECT.json`.

## Modules

| module | models | extends / uses |
|---|---|---|
| `ProgramRun` | `robot_server.py`: controller, runs, execution thread, motor bus, shutdown; the checks of `robot_protocol.py` | |
| `ProgramRunProofs` | theorems about its types, the bus and shutdown, and about what a run buffers and plays | `ProgramRun`, `NumberInduction` |
| `StreamSession` | `robot_client.py` and the server as the client sees it | |
| `StreamSessionProofs` | theorems about what the client sends and when | `StreamSession`, `NumberInduction` |
| `ExclusiveLeases` | what leases promise: disjoint sets, taken and given back whole | |
| `LeaseManager` | `remote_robot/lease.py` | refines `ExclusiveLeases` |
| `Worker` | `InMemoryWorker` of `remote_robot/worker.py` | |
| `RunOrchestrator` | `remote_robot/orchestrator.py` and the journal it writes | composes `Worker` and `LeaseManager` |
| `RunOrchestratorProofs` | theorems about runs, leases and workers together | `RunOrchestrator` |
| `SubprocessWorker` | `SubprocessWorker` of `remote_robot/worker.py`, `worker_process.py`, the pipes | |
| `SubprocessWorkerProofs` | theorems about it | `SubprocessWorker` |
| `RunJournal` | `FileRunJournal` of `remote_robot/journal.py` and its file | |
| `RunJournalProofs` | theorems about it | `RunJournal`, `NumberInduction` |
| `CapabilityRegistry` | `remote_robot/registry.py`, `model.py`: node graph, aliases, scopes, role paths, manifests | operators only |
| `ProgramCompiler` | `remote_robot/program.py`: compile and validate | `CapabilityRegistry`; operators only |
| `RunAdmission` | `execute` up to its lease, over servers that restart with edited registries | composes `LeaseManager` and `ProgramCompiler` |
| `RunAdmissionProofs` | theorems about leases, the registry's walks, stale programs and admitted runs | `RunAdmission`, `NumberInduction` |
| `OperationsProjection` | `remote_robot/operations.py`, `dashboard.py`, the pages' protocol | |
| `OperationsProjectionProofs` | theorems about it | `OperationsProjection`, `NumberInduction` |
| `NumberInduction` | induction over the natural numbers, stated with sets | |
| `MC...` | instances for TLC | the module of that name |

### Correspondence with the code

*ProgramRun.* A message handler holds the run's lock for all it does, so it is
one action: `OpenRun`, `AppendChunk`, `StartRun`, `Heartbeat`, `Cancel`,
`ConnectionLost`, `EmergencyStop`. Refused messages change nothing and are not
actions. The thread is cut at every lock acquisition, read of the stop event and
call into the backend; `pc[r]` names the place: `connect`, `origin`, `validate`,
`gate`, `enable`, `run`, then the loop `check`, `drive`, `publish`, then `hold`,
`close`, `settle`. Each backend call may raise, before or after its effect.
`SO101Backend.close` (`GiveBack`) tries to switch torque off and then to close the
port, and swallows a failure of either: `stuck` is the run whose torque it left on,
`leaked` are the runs whose port it left open. A backend is `Bound` from the opening of
its port to its close, whatever close achieved; that is what `self.robot` says. A
joint vector is one integer; time is an integer; the exact peak rates of the
quintic are kept as integer inequalities; a digest is equality with the program
it was computed from. The history variable `late` counts targets written after
a stop or a dead heartbeat; `stale` stands for the age of the last heartbeat.

`SignalPaths` says how a signal reaches the process. With a handler
(`RequestShutdown`) the active run is stopped, the connections are closed, and
`wait_for_idle` waits (`Exit`). `run_server` passes over a loop that supports no
handlers, as on Windows: Ctrl+C then cancels the main task (`Interrupt`), the
connections are closed, and the process ends without a stop or a wait
(`InterruptedExit`); a second Ctrl+C ends it at once. SIGTERM on such a platform kills
the process outright, which no code of the server can see.

*StreamSession.* Every await of `run_program`, of the producer and of the
receiver is a cut. Messages travel in two FIFO channels with any delay. The link
can be lost (a prefix arrives, the receiver's iterator raises) or closed by the
server (the iterator ends without an exception, so `_receive` posts no event).
The unit of time is the telemetry period. `lag` counts the periods since
nothing was under way: it is how the properties speak of a punctual network.

*RunOrchestrator and Worker.* One asyncio loop: a step is what lies between two
awaits. A gather is one step per worker call and one for the join; a wait is one
step per event taken. A worker call may fail for reasons of its own; a journal
write may fail. A task can be cancelled at the awaits in `CancelAwaits`. Worker
queues are bounded by `EventLimit`; `done` is a history variable.

*SubprocessWorker.* The supervisor is cut at its awaits. A call takes a request
id and, when the write lock is free, hands its frame to the pipe at once; it then
drains, waits for its future, or waits for the process to end after a time-out.
Frames are atomic, but a dying process may leave a bad one. A pipe holds
`PipeLimit` frames in either direction before its writer waits. The process takes
one request at a time; between reading and answering it may stay for ever.
`executed` records the requests that were dispatched: an error may come before or
after the effect, so it counts as one.

*RunJournal.* A frame is a record; the last one on disk may be cut off. A failing
flush writes any prefix and leaves the rest in the buffer; a failing sync leaves
all of it in the file. `synced` is what a loss of power cannot take away; the file
system is assumed to keep a synced new file in its directory. `acked` is a history
variable.

*CapabilityRegistry, ProgramCompiler and RunAdmission.* The registry and the compiler
are pure code and are operators. `Visit` is the inner function of `_validate_graph`: a
recursive function from a walk (the stack, the visited nodes, whether a cycle was raised)
and a node to the walk after it, with `VisitEach` as the loop over the children.
`LeafPaths` recurses as `_leaf_paths` does, `Walk` is the loop of `resolve_group`, and
`Below` are the nodes that `_manifest` descends to. `Compiles` and `Compiled` are
the checks and the result of `compile`. A digest is the value it is
taken of, so the outline and the digests inside a program, which follow from its
phases, are left out; a node's resources and safety domains are one set of lease
targets. `RunAdmission` gives them a history: a server loads the registry on disk or
refuses to start; clients compile and keep programs; programs are changed on disk with
digests computed anew; `Execute` is the part of `execute` before its first await of a
leased run, so one action; the server restarts with edited files. `used` are the run
ids with a journal, which survive a restart as in `FileRunJournal`. The restart
happens when no run is under way: a crash leaves the same empty lease manager.
`LoadIsExact`, `StaleIffChanged` and `RunsKeepApart` compare the code's walks with
definitions that do not walk: a graph is acyclic if every set of nodes has one without
children in it, the paths of a registry are enumerated over all sequences of roles.

*OperationsProjection.* A refresh is cut at its awaits: the lock, and the answer of
each worker. `line` is the asyncio lock with its waiters, which it serves in order.
The rest of a refresh takes a condition that is never held across an await, so it is
one action, `Publish`. What a snapshot shows is reduced to the status of each worker,
with how often it has changed as a history, and one number that grows with every change
of leases and journal. A page asks for a snapshot, subscribes with its number, gets the
events its generator collected one by one, loses its connection and comes back, as
`dashboard.js` and the browser's EventSource do. A subscription looks for events newer than
its number; if there are any it goes off with them (`Collect`), else it waits for the
condition (`Wait`) and is in `asleep` until the `notify_all` of a refresh (`Notified`), the
end of its connection or the close of the projection (`CloseProjection`). Looking and
waiting are one step because the condition is held from one to the other.
In `server_v2.py` the projection is closed after the dashboard has ended every request, so
its close finds nobody asleep that is not ended with it.

## Runs

| run | checks | instance |
|---|---|---|
| `v1_one_run` | limits, late targets, trajectory, receipts, completion, underrun, lookahead, monotony, end of abandoned runs | one run, three configurations, six chunks (valid ones, a jump, a step back in time, out of the limits once resolved), two poses; shutdown by handler and by interrupt |
| `v1_two_runs` | bus exclusion, release, clean exit | two symmetric runs that compete, stop, fail and outlive a shutdown by a handled signal |
| `v1_interrupted` | violation: a clean exit switches torque off | one run, no signal handlers |
| `stream_session` | no refused message, no underrun, end of the session | four programs in both modes, two points a chunk |
| `stream_defaults` | violation: the client stays ahead | chunk span 6, lookahead 5 |
| `orchestrator_phases` | journal, barrier, completion, safe idle, plans undisturbed, termination | a two-phase run on two workers and a run on one of them, cancelled at any await |
| `orchestrator_cancelled_stop` | violation: motion is leased | as `orchestrator_phases` |
| `subprocess` | own answer, nothing after a time-out, events, close, return of calls | two callers and a close, two events, queue and pipes of one |
| `journal` | acknowledged is replayed, one process per run | two runs, four appends, three processes |
| `journal_failed_write` | violation: evidence can be replayed | as `journal` |
| `admission` | exact loading, staleness, running programs fit, runs keep apart, lease tables and their refinement | two runs, two robots, two composites in 1296 arrangements, a restart |
| `operations` | history, fresh answers, order of streams, no lost wake-up, pages catch up | two workers, the poll task and a page, three changes, one failure |

Why the bounds are enough. The v1 thread meets every border with three points:
first point, chunk border, end of program; cycles of one or two units make the
cursor hit points and skip them. Two runs give every overlap of one run's ending
with another's beginning; the third is a repetition, and the theorems cover any
number. Two workers and two phases give a barrier that one worker can reach
before the other, a worker that takes part in one phase only, and left-over
events from an earlier phase and an earlier run; an event limit of 3 or 4 is
reached, so refused emissions occur. In `stream_session` the pre-buffer takes one
or more chunks, the lookahead is met exactly, missed by one and exceeded, and
the first chunk of one program is refused for being beyond the horizon.

In `subprocess` the queue overflows with the second event, the third request finds
the pipe full and the write lock taken, and each of three calls can be cancelled
(callers only), time out or fail in any order. In `journal` a failed append is
followed by others of the same and of another run, and a file is opened by two
later processes.

In `admission` each of two composites has one or two children out of the robots, the
other composite, itself or a node that does not exist, the second child perhaps an
alias: loops, diamonds, missing nodes and doubly reached leaves all occur, and most
registries are refused. Three of the edits change a robot two levels down, a child and
a domain; the fourth changes nothing. Two runs of the five templates meet on a leaf, a
resource or a domain through different roots; a third run would meet each of them in
the same way. In `operations` two workers are enough for a refresh that has one answer
from before and one from after a change; with a capacity of two, three changes and the
first snapshot overflow the event buffer while a page is behind; one failure is a
worker that does not answer, a broken connection, a stop or a crash, each followed by
recovery.

`SafeIdle` speaks of runs that have given their lease back and whose journal ends in a
terminal event: a cancellation during the safe stop leaves no such event, which is
the first finding below.

`CHECK_DEADLOCK FALSE` is set where the system really stops: a finished session, a
worker that was closed and whose callers are done, a journal whose bounded
processes have ended, a server that refused its registry.

### Fairness

`ProgramRun`: weak fairness of each thread (the operating system schedules it and
its bus calls return or raise), of closing connections once the server stops or is
interrupted, of the end of the bounded shutdown wait and of the interrupted main task. Clients and their heartbeats owe nothing.
`RunOrchestrator`: weak fairness of what the loop does for a run; the loop runs
ready callbacks and its clock advances, so a time-out fires when no answer comes.
Workers owe nothing: a phase task that never ends is caught by the time-out.
`StreamSession`: weak fairness of each task of the client, of the handler and of
the server's thread; no fairness for the network's failures.
`SubprocessWorker`: weak fairness of the time-out of a written call, of the return
of the call that aborted, and of the end of a process that somebody waits to kill
(`_terminate` sends SIGKILL after two seconds). The process owes nothing.
`OperationsProjection`: weak fairness of the poll task (its sleep ends), of each
refresh (the lock is served in order and every poll of a worker ends after a second)
and of a page's stream, unless it sleeps: only a notify wakes it. Nobody has to open a page, reconnect or start a server.

## Findings

1. `orchestrator_cancelled_stop`. `execute` documents that all failure paths
   stop the workers before the lease is released. A cancellation that arrives
   while the except clause awaits the stops is itself not caught: the lease is
   released, no `run.faulted` is written, and a worker whose stop had not run yet
   plays its phase to the end.
2. `stream_defaults`. The README says that in streaming mode the client stays
   about five seconds ahead. The producer sends a chunk when its last point is
   within the lookahead; a default chunk of 64 points spans at least 6.4 s, and
   the buffer runs dry before the second chunk is sent. `stream_session` shows the
   condition under which the pacing works: chunk span plus network delay no more
   than the lookahead.
3. `journal_failed_write`. The journal's documentation says that the evidence of
   recovered runs can be replayed. An append whose flush or sync raises leaves its
   frame to the file but not to the event list. The next append of that run (the
   orchestrator's `run.faulted`) gets the same sequence number, and the next
   process refuses the file, with the evidence of all runs.
4. `v1_interrupted`. A comment in `run_server` says that the process blocks until the
   execution thread has finished its hold-then-disable path, because the thread is a
   daemon. Where the loop has no signal handlers (Windows, on which the repository's
   README runs the server) Ctrl+C cancels the wait for `stop`, and the exception passes
   by `wait_for_idle`: the process ends with the run in mid motion and torque on. TLC's
   shortest trace has a second Ctrl+C; with one, the loss of the connections at the end
   of `async with serve` leads to the same state.

Observed while modelling, where the repository promises nothing, or the promise is
loose:

- Two programs on disjoint groups of one robot that declares no shared resource and no
  safety domain get disjoint lock sets, and both drive that robot's one worker: the plan of
  one replaces that of the other. `orchestrator_phases` gives each robot a safety domain;
  with two runs of one phase on one worker and disjoint `Need`, TLC finds
  `PlansUndisturbed` violated.
- A page that reconnects to a restarted server with the event number of the earlier
  process gets nothing until the new numbering has passed it. `PagesCatchUp` leaves this
  case out by name (`OutOfStep`).
- `snapshot` calls its result self-consistent. Workers are polled first and leases and
  journal read afterwards, so a snapshot can show a worker as it was before a run and
  the lease of that run; what holds is `NeverOlder` and `AnswerIsFresh`.
- A run locks the resources and domains from its own root down. A run that starts at a
  nested composite or a robot does not lock the domains of the composites above it.
- A run of an earlier process whose last event is `phase.started` is shown as running.
- The compiler checks an acceleration limit that no axis of the registry can declare.

`SessionEnds` leaves out two cases in which the client waits for ever, as nothing
in the repository promises otherwise: a connection that ends while the client
waits for `run_opened` (`wait_for` ignores `connection_closed`), and an orderly
close by the server while the client has nothing to send. `WrittenCallReturns`
starts when the request is written, as `drain` has no time-out; `ClosedIsDead`
leaves out a close that finds another call aborting, or one that was cancelled
while it did: the code returns at once.

## Theorems

Each theorem holds for every value of the constants that satisfies the named
assumptions of its module. The table gives the theorem for each property; the
paragraphs below it give the inductive invariants and why they are needed.

| module | theorem | property |
|---|---|---|
| `ProgramRunProofs` | `TypeCorrect` | `TypeOK` |
| | `BusIsExclusive` | `OneRunOnTheBus` |
| | `TerminalReleases` | `TerminalHasReleased` |
| | `CleanExitDisables` | `CleanExitIsDisabled`, if signals have handlers |
| | `TrajectoryIsValid` | `TrajectoryValid` |
| | `ReceiptsTile` | `ReceiptsTileTheBuffer` |
| | `BufferAndCursorOnlyAdvance` | `BufferAndCursorAdvance` |
| | `LookaheadIsBounded` | `LookaheadBounded` |
| | `SealedIsNeverStarved` | `SealedNeverUnderruns` |
| | `CompletedIsDeclared` | `CompletedPlayedDeclaredProgram` |
| | `OneLateTarget` | `AtMostOneLateTarget` |
| | `TargetsStayWithinLimits` | `TargetsWithinLimits` |
| `StreamSessionProofs` | `ClientIsNeverRefused` | `NoMessageRefused` |
| | `ClientKeepsAhead` | `KeepsAhead` |
| `RunOrchestratorProofs` | `OrchestratorTypes` | `TypeOK` |
| | `JournalsTellOneRun` | `JournalTellsOneRun` |
| | `BarrierHolds` | `PhaseBarrier` |
| | `CompletedRunsWerePlayed` | `CompletedMeansPlayed` |
| | `ClosedRunsLeaveSafeIdle` | `SafeIdle` |
| | `PlansAreUndisturbed` | `PlansUndisturbed`, if `SharedIsLeased` |
| | `MotionStaysLeased` | `MotionIsLeased`, if `StopIsLeftAlone` |
| `SubprocessWorkerProofs` | `CloseEndsTheProcess` | `ClosedIsDead` |
| | `TimeoutIsTerminal` | `NothingAfterTimeout` |
| | `AnswersAreOwn`, `AnswersAreNotShared` | `OwnAnswer` |
| | `EventsAreComplete` | `EventsWithoutGap` |
| `RunJournalProofs` | `JournalKeepsItsWord` | `AcknowledgedIsReplayed` |
| | `RunsAreNotResumed` | `OneProcessPerRun` |
| `OperationsProjectionProofs` | `HistoryNeverRunsBack` | `NeverOlder` |
| | `AnswersAreFresh` | `AnswerIsFresh` |
| | `StreamsAreInOrder` | `StreamInOrder` |
| | `NoSubscriberSleepsOnNews` | `NoWakeUpLost` |
| `RunAdmissionProofs` | `TablesAgree`, `AdmittedTablesAgree` | `OwnersMatchGrants`, of the manager alone and under admission |
| | `LeaseManagerImplementsExclusiveLeases`, `AdmissionImplementsExclusiveLeases` | `ImplementsExclusiveLeases` |
| | `GraphValidationIsExact` | `ValidateGraph` accepts exactly the acyclic graphs without missing children |
| | `LoadingIsExact` | `LoadIsExact` |
| | `ProgramsGoStaleExactly` | `StaleIffChanged` |
| | `RunningProgramsFit` | `RunningProgramFits` |
| | `RunsAreKeptApart` | `RunsKeepApart` |

*Bus and shutdown of v1.* The types alone are not inductive: the last command of a
run reads its last point, so a started thread must have points (`ThreadHasPoints`).
`OwnershipInv` says where the thread of a run can be in each of its states
(`StateMatchesThread`), that a run that is not terminal is the controller's active
one (`LiveRunIsActive`), that a backend is bound exactly between connecting and closing
(`PortMatchesThread`), that torque belongs to a run on the bus or to one whose close
failed (`TorqueIsOwned`), and that, where signals have handlers, a clean exit finds no
live run (`CleanExitIsIdle`). A run with a bound backend is then not terminal, hence
active, and there is one active run. What a terminal run has still open is in `leaked`.

*Trajectory of v1.* A valid buffer stays valid because a chunk is checked from the
last point before it; the receipts tile the buffer because each one ends where the
buffer ended when it was written (`Tiles`). `CursorInv` keeps the cursor
behind the thread's clock and within the buffer; a final buffer is the declared program (`FinalIsDeclared`),
and a sealed run that has started is final (`SealedIsFinal`). `EndInv` adds that a
thread on its way to "completed" has played to the last point (`PlayedToTheEnd`).
`LateIsSeen` ties the history variable `late` to the place of the thread: after a late
target the thread stands between that cycle and its next check, with the stop or the
dead heartbeat still standing, or it has left the loop. `ArmedIsResolved` carries the check of
relative points from the gate to the loop: once validated, the points of the buffer,
and with them every interpolated target, lie within the limits.

*Client session.* The assumption `SessionAssumption` keeps the order of three numbers of
the code: the server's start buffer (2 s, `robot_protocol.py:167`) is at most the lookahead,
which `main` of `robot_client.py` bounds to 2 to 25 s, and that is at most the server's
horizon (30 s). `SessionInv` holds for any delay of the two channels and any loss of the
link. Its parts: which tasks are alive together (`Tasks`), how many chunks each position
implies (`Progress`), that one chunk is under way at a time and both ends agree on its
number (`StopAndWait`), which messages can still be under way in each state of the server
(`Order`), and that cursors arrive in order and are never ahead of the server's
(`CursorsInOrder`). The last part is why an old cursor is safe: it makes the client send
later, so a chunk it sends fits the horizon when it arrives. `KeepsAhead` is about the other direction and needs
`PunctualInv`: a pending receipt has its chunk or its answer under way (`Answered`), a
refusal means that the run is over (`Refusals`), the server's cursor is known to the client
or under way to it (`CursorKnown`), and what is left in the buffer is at least the delay not
yet used up (`Reserve`).

*Leases.* "Types and agreement of the tables" is inductive, and with it each acquire
and release is a step of `ExclusiveLeases`, the grants being the abstract holdings.

*Orchestrator.* Four kinds of steps cover the next-state relation (`StepKinds`): a run
moves from one await to another, a call reaches a worker, a phase task goes on, or an
event is dropped. `RunInv` is inductive:

- `TablesInv`: the types and the agreement of the lease tables.
- `LeaseInv`: a run has its lease exactly while it is not idle.
- `GroupInv`: where the phase index can be at each await, and whose answers count.
- `ScriptInv`: the journal of a run under way is a prefix of the script, and its length
  is given by the await (`Recorded`) unless the run is failing. The arithmetic of
  four events for each phase is in `ScriptFacts`.
- `BarrierInv`: no plan is ahead of its run, a completion in a queue is one that
  happened, an answer to the second wait is a completion of this phase of this run, and
  all phases before the current one have been played. Without the plans an event of a
  later phase could be in a queue; without the queues an old event could be an answer.
- `SafeInv`: for each worker that is not in safe idle there is a run that still owes it a
  stop (`Owes`): one under way that has not stopped it, or one that was left without a
  terminal event. This holds although runs may share workers and stops may fail.

Three theorems have a hypothesis on the constants. `PlansAreUndisturbed` asks that runs
with a common worker have a common lease target (`SharedIsLeased`): then no two of them
are under way together (`LeasedApart`). `MotionStaysLeased` asks that the safe stop is
not cancelled (`StopIsLeftAlone`). `CleanExitDisables` asks that no signal arrives as an
interrupt. Findings 1 and 4 and the first observation below them are what happens without,
so the hypotheses say what would repair it: a common target for all that drive one robot, a
safe stop that is shielded from cancellation, and an interrupt that takes the way of
`request_shutdown`.

*Subprocess worker.* Three lemmas say what a step may do to a call, to the process and
to the pipes. `TimeoutIsDead` and `ClosedIsEnding` give close and time-out. `AnswerInv`
(request ids differ, results under way are of executed requests) gives the callers their
own answers. `EventInv`: those taken and queued are the first events
in order (`EventsAreNumbered`), and while somebody reads, the pipe holds all the others
(`PipeHasTheRest`).

*File journal.* `JournalInv` says what the frames of file and buffer have to do with the
acknowledged events: numbers reach at most one beyond what was acknowledged
(`NumbersInReach`), every acknowledged event is kept in the file, with fsync in its synced
part (`AcknowledgedIsKept`), and this process writes only runs it has
begun (`RunsOfThisProcess`). What a load collects from a file is the recursive function
`Collected`; that it reflects the frames (`Reflects`) is proved by induction over the
length of the file.

*Projection.* `LineInv` is the order of the lock's waiters, `HistoryInv` says that what is
shown is past and that what was polled is not older than what is shown,
`AskedIsPast` that a page's request lies behind the poll that answers it,
`EventsAreTheLast` that the kept events are the last ones without a gap, and
`PendingInOrder` that what a stream still has to deliver follows on what it delivered.
`SleepInv` says that a page whose subscription sleeps is streaming with nothing to deliver and
has seen every kept event: it had when it went to sleep, and an event is only kept in a step
that wakes everybody.

*Registry and admission.* `AdmissionAssumption` asks that registries are finite and that
every leaf and every lock of a node can be leased. `AdmissionInv` says that a server that is
up has loaded the registry on disk, and that every run under way has a program that is
valid for it and a lease of exactly the lock set of that program; from it follow
`RunningProgramFits` and, with the exclusive grants, `RunsKeepApart`. Both need the lemma that
the branch from the root to a leaf is the walk of `resolve_group` along the role path, so
that the lock set names every node on the way.

`ProvenanceInv` says that each kept program was compiled for a registry that some server had
loaded. `StaleIffChanged` then comes down to two manifests being equal if and only if the
nodes below the root are; `Under`, which the property enumerates over role paths, is shown to
be the set `Below` that the code collects. This needs that the graph is well founded, hence
`GraphValidationIsExact`. Its proof is the correctness of a depth-first search: a visit
that raises nothing leaves the stack as it was and keeps the visited nodes well founded
(`Visited`); a visit raises only if the node leads back to one on the stack (`LedTo`). Both
are by induction on the number of nodes that are not on the stack, which also shows that the
recursion of `Visit` defines a function.

For `LoadingIsExact` the paths that `_leaf_paths` collects are shown to be the role paths
that resolve, each with its leaf and its alias mark (`LeafPathsAreRoutes`): both solve the
equation of the recursion, and in a well-founded graph it has one solution.

*Induction.* The library's induction rules take a predicate as a parameter, which the
installed provers cannot instantiate. `NumberInduction` states induction with sets
instead (a set that contains 0 and is closed under successor contains every number), and
derives it from the well-foundedness of the order; a recursive function is introduced by
proving that a function with its equation exists. This is how the proofs deal with
`Collected`, with the events that a subscription picks out (`Newer`) and with `Walk`, `Visit`
and `LeafPaths` of the registry. The models have no RECURSIVE operators, which the prover
does not support.

Every inductive invariant was checked by TLC on the instances of the runs before it was
proved.

Only model-checked: the liveness properties (`AbandonedRunEnds`, `EveryRunEnds`,
`SessionEnds`, `WrittenCallReturns`, `PagesCatchUp`), because fairness is out of the prover's
reach. Every safety property that a passing run checks is also a theorem,
`PlansUndisturbed` and `CleanExitIsDisabled` under their hypotheses. The four
violations are counterexamples and stay with TLC.

## Not modelled

Serial protocol, calibration, argument parsing, logging, the wire encoding of v1
messages, hashing (a digest stands for what it was computed from), the one-shot
commands of the client, TOML and JSON parsing, the names, units and rates of the
registry and the scopes that do not grant control, the words and layout of the
dashboard, the migration tool. The management connection (`network.py`) is left out:
its server answers each request from the immutable registry and shares no state
between requests; its client matches answers to calls by number with a time-out, as
`SubprocessWorker` does, and commands no robot.

## Plan

1. Done: v1 server, v1 client session, leases, worker, orchestrator, subprocess
   worker, file journal, registry, compiler, admission, projection and dashboard.
2. Done: theorems about v1 runs, the client session, leases, orchestrator, subprocess
   worker, file journal, registry, admission and projection.
3. Open: the two hazards of the subprocess worker without a property (`PROJECT.json`); a
   refinement that puts `SubprocessWorker` in the place of `Worker` under the orchestrator.
