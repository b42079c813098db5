------------------------------- MODULE Worker -------------------------------
(***************************************************************************)
(* remote_robot/worker.py, InMemoryWorker: the state machine behind the    *)
(* WorkerPort that the orchestrator drives.  Every command is one action   *)
(* on worker w and tells in ok whether it returned or raised; the phase    *)
(* task that start_phase creates runs by itself.                           *)
(*                                                                         *)
(* A plan is the identity of a phase execution: the run and the index of   *)
(* the phase.  The tracks it carries are left out.                         *)
(***************************************************************************)
EXTENDS Naturals, Sequences

CONSTANTS
    Runs,       \* run ids
    NoRun,      \* no run id
    Workers,    \* physical nodes, one worker each
    EventLimit  \* capacity of a worker's event queue (256)

ASSUME WorkerAssumption == NoRun \notin Runs /\ EventLimit \in Nat \ {0}

VARIABLES
    status,     \* InMemoryWorker._status
    plan,       \* InMemoryWorker._phase_plan
    task,       \* InMemoryWorker._phase_task is not None
    queue,      \* InMemoryWorker.events
    done        \* phase executions each worker has played to their end

workerVars == <<status, plan, task, queue, done>>

Identity == [run : Runs \cup {NoRun}, phase : Nat]
NoPlan == [run |-> NoRun, phase |-> 0]

Statuses == {"created", "disabled", "prepared", "scheduled", "running",
             "completed", "stopped"}
EventTypes == {"worker_disabled", "phase_prepared", "phase_started",
               "phase_completed", "worker_stopped"}

WorkerInit ==
    /\ status = [w \in Workers |-> "created"]
    /\ plan = [w \in Workers |-> NoPlan]
    /\ task = [w \in Workers |-> FALSE]
    /\ queue = [w \in Workers |-> << >>]
    /\ done = [w \in Workers |-> {}]

WorkerTypeOK ==
    /\ status \in [Workers -> Statuses]
    /\ plan \in [Workers -> Identity]
    /\ task \in [Workers -> BOOLEAN]
    /\ queue \in [Workers -> Seq([type : EventTypes, id : Identity])]
    /\ \A w \in Workers : Len(queue[w]) <= EventLimit
    /\ done \in [Workers -> SUBSET Identity]

-----------------------------------------------------------------------------
Full(w) == Len(queue[w]) >= EventLimit

\* Faulty variant of Emit: the queue has no bound.
EmitUnbounded(w, ok, type, id) ==
    /\ ok
    /\ queue' = [queue EXCEPT ![w] = Append(@, [type |-> type, id |-> id])]

\* _emit: put_nowait raises on a full queue, after the status has changed.
Emit(w, ok, type, id) ==
    /\ ok = ~Full(w)
    /\ queue' = IF ok THEN [queue EXCEPT ![w] = Append(@, [type |-> type, id |-> id])]
                ELSE queue

\* A command raises WorkerStateError, or the hardware adapter behind the worker
\* refuses it: nothing changes.
Refuse(ok) == ~ok /\ UNCHANGED workerVars

PrepareDisabled(w, ok) ==
    /\ status[w] \notin {"scheduled", "running"}
    /\ status' = [status EXCEPT ![w] = "disabled"]
    /\ plan' = [plan EXCEPT ![w] = NoPlan]
    /\ Emit(w, ok, "worker_disabled", NoPlan)
    /\ UNCHANGED <<task, done>>

PreparePhase(w, id, ok) ==
    /\ status[w] \in {"disabled", "stopped", "prepared", "completed"}
    /\ status' = [status EXCEPT ![w] = "prepared"]
    /\ plan' = [plan EXCEPT ![w] = id]
    /\ Emit(w, ok, "phase_prepared", id)
    /\ UNCHANGED <<task, done>>

\* The acknowledgement carries the identity of the plan that was scheduled.
StartPhase(w, id, ok) ==
    /\ status[w] = "prepared"
    /\ status' = [status EXCEPT ![w] = "scheduled"]
    /\ task' = [task EXCEPT ![w] = TRUE]
    /\ ok = (plan[w] = id)
    /\ UNCHANGED <<plan, queue, done>>

\* stop cancels the phase task and waits for it first.
Stop(w, ok) ==
    /\ task' = [task EXCEPT ![w] = FALSE]
    /\ status' = [status EXCEPT ![w] = "stopped"]
    /\ Emit(w, ok, "worker_stopped", plan[w])
    /\ UNCHANGED <<plan, done>>

-----------------------------------------------------------------------------
(* The phase task. *)

\* The deadline comes; a full queue ends the task with the status "running".
BeginPhase(w) ==
    /\ task[w] /\ status[w] = "scheduled"
    /\ status' = [status EXCEPT ![w] = "running"]
    /\ \E ok \in BOOLEAN :
          /\ Emit(w, ok, "phase_started", plan[w])
          /\ task' = [task EXCEPT ![w] = ok]
    /\ UNCHANGED <<plan, done>>

\* The duration has passed.
CompletePhase(w) ==
    /\ task[w] /\ status[w] = "running"
    /\ status' = [status EXCEPT ![w] = "completed"]
    /\ task' = [task EXCEPT ![w] = FALSE]
    /\ done' = [done EXCEPT ![w] = @ \cup {plan[w]}]
    /\ \E ok \in BOOLEAN : Emit(w, ok, "phase_completed", plan[w])
    /\ UNCHANGED plan
=============================================================================
