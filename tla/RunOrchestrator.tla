-------------------------- MODULE RunOrchestrator --------------------------
(***************************************************************************)
(* remote_robot/orchestrator.py: runs of sealed programs, each a sequence  *)
(* of phases on sets of workers, under one lease, with a journal.          *)
(*                                                                         *)
(* Everything is one asyncio loop, so a run's coroutine is cut at its      *)
(* awaits: the gathers over workers (one step per worker call, one for the *)
(* join) and the waits for worker events.  What lies between two awaits,   *)
(* journal writes included, is one step.                                   *)
(***************************************************************************)
EXTENDS Worker

CONSTANTS
    Targets,    \* lease targets
    NoGrant,    \* a run without lease
    Phases,     \* Phases[r]: the sets of workers of r's phases, in order
    Need,       \* lock_requirements of r's program
    CancelAwaits\* awaits at which callers may cancel the task of a run

VARIABLES
    owners, grants, \* the lease manager
    journal,        \* event types of every run's journal
    pc,             \* the await at which the run's coroutine stands
    phase,          \* index of the current phase, 0 before the first
    answered,       \* workers that answered in the current gather or wait
    failed          \* one of the answers was an error

runVars == <<journal, pc, phase, answered, failed>>
vars == <<runVars, owners, grants, workerVars>>

Lease == INSTANCE LeaseManager WITH Requests <- {Need[r] : r \in Runs}

\* _participant_worker_ids: the workers of all phases.
Participants(r) == UNION {Phases[r][k] : k \in 1 .. Len(Phases[r])}

ASSUME ProgramAssumption ==
    /\ Phases \in [Runs -> Seq((SUBSET Workers) \ {{}})]
    /\ \A r \in Runs : Len(Phases[r]) >= 1
    /\ Need \in [Runs -> SUBSET Targets]
    /\ \A r \in Runs : Need[r] # NoGrant

Gathering == {"disabling", "preparing", "starting", "stopping", "failing"}
Waiting == {"await_started", "await_completed"}

\* phase_execution_id, with its run.
Id(r) == [run |-> r, phase |-> phase[r]]

\* The workers that the current gather or wait is about.
Group(r) ==
    IF pc[r] \in {"disabling", "stopping", "failing"}
    THEN Participants(r) ELSE Phases[r][phase[r]]

\* Faulty variant of AllAnswered: the first answer ends the wait.
SomeAnswered(r) == answered[r] \cap Group(r) # {}

AllAnswered(r) == Group(r) \subseteq answered[r]

-----------------------------------------------------------------------------
(* Moving from one await to the next. *)

Await(r, at) ==
    /\ pc' = [pc EXCEPT ![r] = at]
    /\ answered' = [answered EXCEPT ![r] = {}]
    /\ failed' = [failed EXCEPT ![r] = FALSE]

\* An exception reaches the except clause, which begins with _stop_all.
Fail(r) == Await(r, "failing") /\ UNCHANGED <<journal, phase>>

\* journal.append succeeds.
Record(r, type) == journal' = [journal EXCEPT ![r] = Append(@, type)]

\* The next await after a journal record, or a failing journal.
Proceed(r, type, at, k) ==
    \/ /\ Record(r, type)
       /\ Await(r, at)
       /\ phase' = [phase EXCEPT ![r] = k]
    \/ Fail(r)

\* Faulty variant of Execute: the journal is not asked about the run id.
ExecuteAgain(r) ==
    /\ pc[r] = "idle"
    /\ Lease!Acquire(r, Need[r])
    /\ Record(r, "run.opened")
    /\ Await(r, "disabling")
    /\ phase' = [phase EXCEPT ![r] = 0]
    /\ UNCHANGED workerVars

\* execute, up to the first await.  A refused lease, or a journal that cannot
\* record run.opened, leaves everything as it was.
Execute(r) ==
    /\ pc[r] = "idle"
    /\ journal[r] = << >>
    /\ Lease!Acquire(r, Need[r])
    /\ Record(r, "run.opened")
    /\ Await(r, "disabling")
    /\ UNCHANGED <<phase, workerVars>>

-----------------------------------------------------------------------------
(* The gathers: one call per worker, with return_exceptions. *)

Answer(r, w, ok) ==
    /\ answered' = [answered EXCEPT ![r] = @ \cup {w}]
    /\ failed' = [failed EXCEPT ![r] = @ \/ ~ok]
    /\ UNCHANGED <<journal, pc, phase, owners, grants>>

Call(r, w) ==
    /\ pc[r] \in Gathering
    /\ w \in Group(r) \ answered[r]
    /\ \E ok \in BOOLEAN :
          /\ Answer(r, w, ok)
          /\ \/ pc[r] = "disabling" /\ PrepareDisabled(w, ok)
             \/ pc[r] = "preparing" /\ PreparePhase(w, Id(r), ok)
             \/ pc[r] = "starting" /\ StartPhase(w, Id(r), ok)
             \/ pc[r] \in {"disabling", "preparing", "starting"} /\ Refuse(ok)
             \/ pc[r] \in {"stopping", "failing"} /\ Stop(w, ok)

\* The joins of prepare_disabled, prepare_phase and start_phase.
Disabled(r) ==
    /\ pc[r] = "disabling" /\ AllAnswered(r)
    /\ IF failed[r] THEN Fail(r) ELSE Proceed(r, "workers.disabled", "preparing", 1)
    /\ UNCHANGED <<owners, grants, workerVars>>

Prepared(r) ==
    /\ pc[r] = "preparing" /\ AllAnswered(r)
    /\ IF failed[r] THEN Fail(r)
       ELSE Proceed(r, "phase.prepared", "starting", phase[r])
    /\ UNCHANGED <<owners, grants, workerVars>>

Scheduled(r) ==
    /\ pc[r] = "starting" /\ AllAnswered(r)
    /\ IF failed[r] THEN Fail(r)
       ELSE Proceed(r, "phase.scheduled", "await_started", phase[r])
    /\ UNCHANGED <<owners, grants, workerVars>>

-----------------------------------------------------------------------------
(* The waits for worker events. *)

Expected(r) ==
    IF pc[r] = "await_started" THEN "phase_started" ELSE "phase_completed"

\* Faulty variant of Matches: the type of an event is enough.
MatchesAny(r, event) == TRUE

Matches(r, event) == event.id = Id(r)

\* A stopped worker, or a phase that ends before it was seen to start.
Fatal(r, event) ==
    \/ event.type = "worker_stopped"
    \/ pc[r] = "await_started" /\ event.type = "phase_completed"

\* wait_one takes the next event of worker w: the expected one, a fatal one, or
\* one to ignore.
TakeEvent(r, w) ==
    /\ pc[r] \in Waiting
    /\ w \in Group(r) \ answered[r]
    /\ queue[w] # << >>
    /\ queue' = [queue EXCEPT ![w] = Tail(@)]
    /\ LET event == Head(queue[w])
       IN  \/ /\ Matches(r, event) /\ event.type = Expected(r)
              /\ answered' = [answered EXCEPT ![r] = @ \cup {w}]
              /\ UNCHANGED <<journal, pc, phase, failed>>
           \/ /\ Matches(r, event) /\ event.type # Expected(r) /\ Fatal(r, event)
              /\ Fail(r)
           \/ /\ Matches(r, event) => event.type # Expected(r) /\ ~Fatal(r, event)
              /\ UNCHANGED <<journal, pc, phase, answered, failed>>
    /\ UNCHANGED <<owners, grants, status, plan, task, done>>

\* Faulty variant of Timeout: only the wait for the start is bounded.
TimeoutOfStart(r) ==
    /\ pc[r] = "await_started" /\ ~AllAnswered(r)
    /\ Fail(r)
    /\ UNCHANGED <<owners, grants, workerVars>>

\* asyncio.timeout in one of the waits.
Timeout(r) ==
    /\ pc[r] \in Waiting /\ ~AllAnswered(r)
    /\ Fail(r)
    /\ UNCHANGED <<owners, grants, workerVars>>

\* All have started; the observed skew may exceed the limit of the root.
Started(r) ==
    /\ pc[r] = "await_started" /\ AllAnswered(r)
    /\ \/ Proceed(r, "phase.started", "await_completed", phase[r])
       \/ /\ Record(r, "phase.started")
          /\ Await(r, "failing")
          /\ UNCHANGED phase
    /\ UNCHANGED <<owners, grants, workerVars>>

\* All have completed: the next phase, or the final stop.
Completed(r) ==
    /\ pc[r] = "await_completed" /\ AllAnswered(r)
    /\ IF phase[r] < Len(Phases[r])
       THEN Proceed(r, "phase.completed", "preparing", phase[r] + 1)
       ELSE Proceed(r, "phase.completed", "stopping", phase[r])
    /\ UNCHANGED <<owners, grants, workerVars>>

-----------------------------------------------------------------------------
(* The end of a run. *)

\* The lease is released and the run id leaves the active set.
Return(r) == Await(r, "idle") /\ Lease!Release(r) /\ UNCHANGED phase

\* RUN_COMPLETED: every worker must have entered safe idle.
Stopped(r) ==
    /\ pc[r] = "stopping" /\ AllAnswered(r)
    /\ \/ ~failed[r] /\ Record(r, "run.completed") /\ Return(r)
       \/ Fail(r) /\ UNCHANGED <<owners, grants>>
    /\ UNCHANGED workerVars

\* Faulty variant of Faulted: the stops are sent and not awaited.
FaultedAtOnce(r) ==
    /\ pc[r] = "failing"
    /\ Record(r, "run.faulted") \/ UNCHANGED journal
    /\ Return(r)
    /\ UNCHANGED workerVars

\* ORCHESTRATION_FAILURE: errors of a stop or of the journal are swallowed.
Faulted(r) ==
    /\ pc[r] = "failing" /\ AllAnswered(r)
    /\ Record(r, "run.faulted") \/ UNCHANGED journal
    /\ Return(r)
    /\ UNCHANGED workerVars

\* The task of the run is cancelled at an await.
Cancel(r) ==
    /\ pc[r] \in (Gathering \cup Waiting) \ {"failing"}
    /\ pc[r] \in CancelAwaits
    /\ Fail(r)
    /\ UNCHANGED <<owners, grants, workerVars>>

\* Cancelled in the except clause: the stop calls are cancelled with it, some
\* before they ran, some after they cancelled the phase task.  Nothing catches
\* this cancellation.
CancelAgain(r) ==
    /\ pc[r] = "failing"
    /\ pc[r] \in CancelAwaits
    /\ \E cut \in SUBSET (Participants(r) \ answered[r]) :
          task' = [w \in Workers |-> task[w] /\ w \notin cut]
    /\ Return(r)
    /\ UNCHANGED <<journal, status, plan, queue, done>>

-----------------------------------------------------------------------------
Init ==
    /\ Lease!Init
    /\ WorkerInit
    /\ journal = [r \in Runs |-> << >>]
    /\ pc = [r \in Runs |-> "idle"]
    /\ phase = [r \in Runs |-> 0]
    /\ answered = [r \in Runs |-> {}]
    /\ failed = [r \in Runs |-> FALSE]

\* What the loop does for a run without anybody's help.
RunStep(r) ==
    \/ \E w \in Workers : Call(r, w) \/ TakeEvent(r, w)
    \/ Disabled(r) \/ Prepared(r) \/ Scheduled(r)
    \/ Started(r) \/ Completed(r) \/ Timeout(r)
    \/ Stopped(r) \/ Faulted(r)

PhaseTask(w) ==
    /\ BeginPhase(w) \/ CompletePhase(w)
    /\ UNCHANGED <<runVars, owners, grants>>

Terminated ==
    /\ \A r \in Runs : pc[r] = "idle" /\ journal[r] # << >>
    /\ UNCHANGED vars

Next ==
    \/ \E r \in Runs : Execute(r) \/ RunStep(r) \/ Cancel(r) \/ CancelAgain(r)
    \/ \E w \in Workers : PhaseTask(w)
    \/ Terminated

Spec == Init /\ [][Next]_vars

\* The loop runs what is ready, and time passes.
FairSpec == Spec /\ \A r \in Runs : WF_vars(RunStep(r))

-----------------------------------------------------------------------------
(* Properties. *)

Terminal == {"run.completed", "run.faulted"}

JournalTypes ==
    {"run.opened", "workers.disabled", "phase.prepared", "phase.scheduled",
     "phase.started", "phase.completed"} \cup Terminal

\* Every variable has its type; a queue stays within its limit.
TypeOK ==
    /\ Lease!TypeOK
    /\ WorkerTypeOK
    /\ journal \in [Runs -> Seq(JournalTypes)]
    /\ pc \in [Runs -> {"idle"} \cup Gathering \cup Waiting]
    /\ phase \in [Runs -> Nat]
    /\ answered \in [Runs -> SUBSET Workers]
    /\ failed \in [Runs -> BOOLEAN]

\* The i-th event of the journal of a run that goes well.
Scripted(r, i) ==
    IF i = 1 THEN "run.opened"
    ELSE IF i = 2 THEN "workers.disabled"
    ELSE IF i = 4 * Len(Phases[r]) + 3 THEN "run.completed"
    ELSE <<"phase.prepared", "phase.scheduled", "phase.started",
           "phase.completed">>[((i - 3) % 4) + 1]

\* A journal tells one run: every event in its place, the four events of a phase
\* before those of the next, nothing after a terminal event, and run.completed
\* only behind the last phase.
JournalTellsOneRun ==
    \A r \in Runs : \A i \in 1 .. Len(journal[r]) :
        /\ i <= 4 * Len(Phases[r]) + 3
        /\ journal[r][i] # Scripted(r, i) =>
              journal[r][i] = "run.faulted" /\ i = Len(journal[r])

\* The phase barrier: a worker is scheduled for or plays a phase only when every
\* worker of every earlier phase of the run has played that one to its end.
PhaseBarrier ==
    \A w \in Workers : status[w] \in {"scheduled", "running"} =>
        LET r == plan[w].run
        IN  \A k \in 1 .. plan[w].phase - 1 : \A v \in Phases[r][k] :
               [run |-> r, phase |-> k] \in done[v]

\* run.completed is on record only if every worker of every phase has played its
\* part; no event of an earlier run or phase can stand in for it.
CompletedMeansPlayed ==
    \A r \in Runs : \A i \in 1 .. Len(journal[r]) :
        journal[r][i] = "run.completed" =>
            \A k \in 1 .. Len(Phases[r]) : \A w \in Phases[r][k] :
                [run |-> r, phase |-> k] \in done[w]

\* Run r is over and on record: its lease is back, its journal is closed.
Closed(r) ==
    /\ grants[r] = NoGrant
    /\ journal[r] # << >> => journal[r][Len(journal[r])] \in Terminal

\* Safe idle: once every run that needs a worker is closed, the worker is not
\* prepared for motion, let alone moving, so execute returns only after safe idle.
SafeIdle ==
    \A w \in Workers :
        (\A r \in Runs : w \in Participants(r) => Closed(r))
            => status[w] \in {"created", "stopped"}

\* Motion is leased: a worker plays a phase only for a run that holds its lease.
\* execute: "Once leased, all failure paths coordinate a stop and release the
\* complete lock union before raising".
MotionIsLeased ==
    \A w \in Workers : task[w] =>
        plan[w].run \in Runs /\ grants[plan[w].run] # NoGrant

\* From the preparation of a phase to its end the workers keep the plan they were
\* given: runs that hold leases at the same time do not meet on a worker.
PlansUndisturbed ==
    \A r \in Runs : pc[r] \in {"starting"} \cup Waiting =>
        \A w \in Group(r) : plan[w] = Id(r)

\* A run that was begun ends, whatever its workers, the journal and its callers
\* do: every wait of it is bounded.
EveryRunEnds == \A r \in Runs : pc[r] # "idle" ~> pc[r] = "idle"
=============================================================================
