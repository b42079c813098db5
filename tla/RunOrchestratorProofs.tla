----------------------- MODULE RunOrchestratorProofs -----------------------
(***************************************************************************)
(* Proofs about the orchestrator, its leases and its workers, for any      *)
(* number of runs, phases and workers and any event limit: the journal     *)
(* tells one run, the phase barrier holds, completed means played, a       *)
(* closed run leaves its workers in safe idle.  Two more results hold      *)
(* under a condition, without which the runs of this project find them     *)
(* violated: plans stay undisturbed if runs that share a worker share a    *)
(* lease target, and motion is leased if nobody cancels the safe stop.     *)
(*                                                                         *)
(* Four kinds of steps cover the next-state relation: a run moves from one *)
(* await to another, a call reaches a worker, a phase task goes on, or     *)
(* nothing but an event to ignore is taken.                                *)
(***************************************************************************)
EXTENDS RunOrchestrator, TLAPS

Event == [type : EventTypes, id : Identity]

-----------------------------------------------------------------------------
(* Invariants. *)

\* The tables of the lease manager.
TablesInv == Lease!TypeOK /\ Lease!OwnersMatchGrants

\* A run holds its lease from its first await to its return.
LeaseInv ==
    /\ TablesInv
    /\ \A r \in Runs : grants[r] = IF pc[r] = "idle" THEN NoGrant ELSE Need[r]

\* What the phase index and the answers are about.
GroupInv ==
    \A r \in Runs :
        /\ journal[r] = << >> \/ pc[r] = "disabling" => phase[r] = 0
        /\ pc[r] \in {"preparing", "starting"} \cup Waiting => phase[r] \in 1 .. Len(Phases[r])
        /\ pc[r] = "stopping" => phase[r] = Len(Phases[r])
        /\ phase[r] <= Len(Phases[r])
        /\ answered[r] \subseteq IF pc[r] = "idle" THEN {} ELSE Group(r)

\* How far the journal of a run is that goes well.
Recorded(r) ==
    CASE pc[r] = "disabling" -> 1
      [] pc[r] = "preparing" -> 4 * phase[r] - 2
      [] pc[r] = "starting" -> 4 * phase[r] - 1
      [] pc[r] = "await_started" -> 4 * phase[r]
      [] pc[r] = "await_completed" -> 4 * phase[r] + 1
      [] OTHER -> 4 * phase[r] + 2

\* Journal j of run r keeps to the script, and is not at its end.
OnScript(r, j) ==
    /\ Len(j) \in 1 .. 4 * Len(Phases[r]) + 2
    /\ \A i \in 1 .. Len(j) : j[i] = Scripted(r, i)

\* Until a run returns its journal keeps to the script, and stands where the run stands
\* unless that has failed.
ScriptInv ==
    /\ \A r \in Runs : pc[r] # "idle" => OnScript(r, journal[r])
    /\ \A r \in Runs : pc[r] \notin {"idle", "failing"} => Len(journal[r]) = Recorded(r)
    /\ JournalTellsOneRun

\* By the record d of what was played, every worker of phase k of run r has played it.
Played(r, k, d) == \A w \in Phases[r][k] : [run |-> r, phase |-> k] \in d[w]

\* No plan is ahead of its run, a completion on its way is one that happened, and a run
\* goes from one phase to the next when all have played.
BarrierInv ==
    /\ \A w \in Workers : /\ plan[w].run = NoRun => plan[w].phase = 0
                          /\ plan[w].run \in Runs => plan[w].phase <= phase[plan[w].run]
    /\ \A w \in Workers : \A i \in 1 .. Len(queue[w]) :
          queue[w][i].type = "phase_completed" => queue[w][i].id \in done[w]
    /\ \A r \in Runs : \A k \in 1 .. phase[r] - 1 : Played(r, k, done)
    /\ \A r \in Runs : pc[r] = "await_completed" => \A w \in answered[r] : Id(r) \in done[w]
    /\ \A r \in Runs : pc[r] = "stopping" => Played(r, phase[r], done)
    /\ CompletedMeansPlayed

\* Run r owes worker w a stop: it is under way and has not stopped the worker, or it was
\* left without a terminal event.
Owes(r, w) ==
    /\ w \in Participants(r) /\ journal[r] # << >>
    /\ IF pc[r] = "idle" THEN journal[r][Len(journal[r])] \notin Terminal
       ELSE ~(pc[r] \in {"stopping", "failing"} /\ w \in answered[r])

SafeInv ==
    \A w \in Workers : status[w] \notin {"created", "stopped"} => \E r \in Runs : Owes(r, w)

\* Runs that share a worker share a lease target.
SharedIsLeased ==
    \A r, s \in Runs : r # s /\ Participants(r) \cap Participants(s) # {} =>
                          Need[r] \cap Need[s] # {}

PlanInv ==
    /\ \A r \in Runs : pc[r] = "preparing" /\ ~failed[r] => \A w \in answered[r] : plan[w] = Id(r)
    /\ PlansUndisturbed

\* Nobody cancels the safe stop of a failed run.
StopIsLeftAlone == "failing" \notin CancelAwaits

\* A worker that is prepared or moving is so for a run that is under way and has not
\* stopped it yet.
MotionInv ==
    \A w \in Workers :
        /\ task[w] => status[w] \in {"scheduled", "running"}
        /\ status[w] \in {"prepared", "scheduled", "running"} =>
              /\ plan[w].run \in Runs /\ pc[plan[w].run] # "idle"
              /\ w \in Participants(plan[w].run)
              /\ ~(pc[plan[w].run] \in {"stopping", "failing"} /\ w \in answered[plan[w].run])

-----------------------------------------------------------------------------
(* What a step may do. *)

\* Run r goes to another await, with that journal, phase and answers; no other run does.
Goes(r, j, at, k, a, f) ==
    \A s \in Runs :
        /\ journal'[s] = IF s = r THEN j ELSE journal[s]
        /\ pc'[s] = IF s = r THEN at ELSE pc[s]
        /\ phase'[s] = IF s = r THEN k ELSE phase[s]
        /\ answered'[s] = IF s = r THEN a ELSE answered[s]
        /\ failed'[s] = IF s = r THEN f ELSE failed[s]

\* The workers go on as they were, but for a phase task that is cut off or an event taken.
Quiet ==
    /\ UNCHANGED <<status, plan, done>>
    /\ \A w \in Workers : task'[w] => task[w]
    /\ \A w \in Workers : queue'[w] = queue[w] \/ (queue[w] # << >> /\ queue'[w] = Tail(queue[w]))

\* The events that a run records on its way, with the awaits before and after.
Leg(r, type, at, k) ==
    \/ pc[r] = "disabling" /\ type = "workers.disabled" /\ at = "preparing" /\ k = 1
    \/ pc[r] = "preparing" /\ ~failed[r] /\ type = "phase.prepared" /\ at = "starting"
       /\ k = phase[r]
    \/ pc[r] = "starting" /\ ~failed[r] /\ type = "phase.scheduled" /\ at = "await_started"
       /\ k = phase[r]
    \/ pc[r] = "await_started" /\ type = "phase.started" /\ at = "await_completed" /\ k = phase[r]
    \/ pc[r] = "await_completed" /\ type = "phase.completed" /\ phase[r] < Len(Phases[r])
       /\ at = "preparing" /\ k = phase[r] + 1
    \/ pc[r] = "await_completed" /\ type = "phase.completed" /\ ~(phase[r] < Len(Phases[r]))
       /\ at = "stopping" /\ k = phase[r]

Opens(r) ==
    /\ pc[r] = "idle" /\ journal[r] = << >>
    /\ Lease!Acquire(r, Need[r])
    /\ Goes(r, Append(journal[r], "run.opened"), "disabling", phase[r], {}, FALSE)

Advances(r) ==
    /\ AllAnswered(r)
    /\ \E type, at, k : Leg(r, type, at, k) /\ Goes(r, Append(journal[r], type), at, k, {}, FALSE)
    /\ UNCHANGED <<owners, grants>>

Fails(r) ==
    /\ pc[r] \in (Gathering \cup Waiting) \ {"failing"}
    /\ \E j : /\ j = journal[r] \/ (pc[r] = "await_started" /\ j = Append(journal[r], "phase.started"))
              /\ Goes(r, j, "failing", phase[r], {}, FALSE)
    /\ UNCHANGED <<owners, grants>>

\* The three ways to return; the last is a cancelled safe stop.
EndsWith(r, j) ==
    \/ pc[r] = "stopping" /\ AllAnswered(r) /\ j = Append(journal[r], "run.completed")
    \/ /\ pc[r] = "failing" /\ AllAnswered(r)
       /\ j = journal[r] \/ j = Append(journal[r], "run.faulted")
    \/ pc[r] = "failing" /\ "failing" \in CancelAwaits /\ j = journal[r]

Ends(r) ==
    /\ \E j : EndsWith(r, j) /\ Goes(r, j, "idle", phase[r], {}, FALSE)
    /\ Lease!Release(r)

\* The expected event of worker w.
Hears(r) ==
    /\ pc[r] \in Waiting
    /\ \E w \in Workers :
          /\ w \in Group(r) /\ queue[w] # << >>
          /\ Head(queue[w]).id = Id(r) /\ Head(queue[w]).type = Expected(r)
          /\ Goes(r, journal[r], pc[r], phase[r], answered[r] \cup {w}, failed[r])
    /\ UNCHANGED <<owners, grants>>

Moves(r) == Quiet /\ (Opens(r) \/ Advances(r) \/ Fails(r) \/ Ends(r) \/ Hears(r))

\* An event is put into the queue of worker w; one that tells of a completion tells the truth.
Tells(w) ==
    /\ \A v \in Workers \ {w} : queue'[v] = queue[v]
    /\ \/ queue'[w] = queue[w]
       \/ \E e \in Event : /\ queue'[w] = Append(queue[w], e)
                           /\ e.type = "phase_completed" => e.id \in done'[w]

\* Worker w gets this status, plan and task; no other does.
Becomes(w, st, p, t) ==
    \A v \in Workers : /\ status'[v] = IF v = w THEN st ELSE status[v]
                       /\ plan'[v] = IF v = w THEN p ELSE plan[v]
                       /\ task'[v] = IF v = w THEN t ELSE task[v]

\* What a call does to its worker, and whether it returned.
Effect(r, w, ok) ==
    \/ /\ pc[r] = "disabling" /\ status[w] \notin {"scheduled", "running"}
       /\ Becomes(w, "disabled", NoPlan, task[w])
    \/ /\ pc[r] = "preparing" /\ status[w] \in {"disabled", "stopped", "prepared", "completed"}
       /\ Becomes(w, "prepared", Id(r), task[w])
    \/ /\ pc[r] = "starting" /\ status[w] = "prepared"
       /\ Becomes(w, "scheduled", plan[w], TRUE)
    \/ /\ pc[r] \in {"disabling", "preparing", "starting"} /\ ~ok
       /\ Becomes(w, status[w], plan[w], task[w])
    \/ /\ pc[r] \in {"stopping", "failing"}
       /\ Becomes(w, "stopped", plan[w], FALSE)

Calls(r, w) ==
    /\ pc[r] \in Gathering /\ w \in Group(r) \ answered[r]
    /\ \E ok \in BOOLEAN :
          /\ Goes(r, journal[r], pc[r], phase[r], answered[r] \cup {w}, failed[r] \/ ~ok)
          /\ Effect(r, w, ok)
    /\ Tells(w)
    /\ UNCHANGED <<done, owners, grants>>

\* A phase task goes on.
Plays(w) ==
    /\ task[w] /\ status[w] \in {"scheduled", "running"}
    /\ \E st \in {"running", "completed"}, t \in BOOLEAN :
          Becomes(w, st, plan[w], t) /\ (t => st = "running")
    /\ \A v \in Workers : done'[v] = done[v] \/ (v = w /\ done'[v] = done[v] \cup {plan[v]})
    /\ Tells(w)
    /\ UNCHANGED <<runVars, owners, grants>>

\* Nothing happens to the runs.
Rests == Quiet /\ UNCHANGED <<runVars, owners, grants>>

StepKind ==
    \/ \E r \in Runs : Moves(r)
    \/ \E r \in Runs, w \in Workers : Calls(r, w)
    \/ \E w \in Workers : Plays(w)
    \/ Rests

\* Facts about the phases.
LEMMA PhaseFacts ==
    ASSUME NEW r \in Runs
    PROVE  /\ Len(Phases[r]) \in Nat /\ Len(Phases[r]) >= 1
           /\ \A k \in 1 .. Len(Phases[r]) :
                 /\ Phases[r][k] # {} /\ Phases[r][k] \subseteq Workers
                 /\ Phases[r][k] \subseteq Participants(r)
           /\ Participants(r) \subseteq Workers
<1>1. Phases[r] \in Seq((SUBSET Workers) \ {{}}) /\ Len(Phases[r]) >= 1
  BY ProgramAssumption
<1>2. Len(Phases[r]) \in Nat
  BY <1>1
<1>3. \A k \in 1 .. Len(Phases[r]) : Phases[r][k] \in (SUBSET Workers) \ {{}}
  BY <1>1
<1> QED
  BY <1>1, <1>2, <1>3 DEF Participants

\* await and record, seen run by run.
LEMMA AwaitGoes ==
    ASSUME TypeOK, NEW r \in Runs, NEW at, NEW j, NEW k, Await(r, at),
           journal' = [journal EXCEPT ![r] = j], phase' = [phase EXCEPT ![r] = k]
    PROVE  Goes(r, j, at, k, {}, FALSE)
<1>1. /\ journal \in [Runs -> Seq(JournalTypes)] /\ phase \in [Runs -> Nat]
      /\ DOMAIN pc = Runs /\ answered \in [Runs -> SUBSET Workers] /\ failed \in [Runs -> BOOLEAN]
  BY DEF TypeOK
<1> QED
  BY <1>1 DEF Await, Goes

\* The same for functions that stay as they are.
LEMMA StayingIsGoing ==
    ASSUME TypeOK, NEW r \in Runs
    PROVE  /\ journal = [journal EXCEPT ![r] = journal[r]]
           /\ phase = [phase EXCEPT ![r] = phase[r]]
BY DEF TypeOK

\* The except clause.
LEMMA FailGoes ==
    ASSUME TypeOK, NEW r \in Runs, Fail(r)
    PROVE  Goes(r, journal[r], "failing", phase[r], {}, FALSE)
<1>1. Await(r, "failing") /\ journal' = journal /\ phase' = phase
  BY DEF Fail
<1> QED
  BY <1>1, AwaitGoes, StayingIsGoing

\* A record and the next await, or the except clause.
LEMMA ProceedGoes ==
    ASSUME TypeOK, NEW r \in Runs, NEW type, NEW at, NEW k, Proceed(r, type, at, k)
    PROVE  \/ Goes(r, Append(journal[r], type), at, k, {}, FALSE)
           \/ Goes(r, journal[r], "failing", phase[r], {}, FALSE)
<1>1. CASE Record(r, type) /\ Await(r, at) /\ phase' = [phase EXCEPT ![r] = k]
  <2>1. journal' = [journal EXCEPT ![r] = Append(journal[r], type)]
    BY <1>1 DEF Record
  <2> QED
    BY <1>1, <2>1, AwaitGoes
<1> QED
  BY <1>1, FailGoes DEF Proceed

\* Workers that are left alone are quiet.
LEMMA UnchangedIsQuiet == UNCHANGED workerVars => Quiet
BY DEF workerVars, Quiet

\* What a call returns goes to its run.
LEMMA AnswerGoes ==
    ASSUME TypeOK, NEW r \in Runs, NEW w, NEW ok \in BOOLEAN, Answer(r, w, ok)
    PROVE  Goes(r, journal[r], pc[r], phase[r], answered[r] \cup {w}, failed[r] \/ ~ok)
<1>1. answered \in [Runs -> SUBSET Workers] /\ failed \in [Runs -> BOOLEAN]
  BY DEF TypeOK
<1> QED
  BY <1>1 DEF Answer, Goes

\* Emission, as it is seen on the queues.
LEMMA EmitTells ==
    ASSUME TypeOK, NEW w \in Workers, NEW ok \in BOOLEAN, NEW type \in EventTypes,
           NEW id \in Identity, Emit(w, ok, type, id),
           type = "phase_completed" => id \in done'[w]
    PROVE  Tells(w)
<1>1. queue \in [Workers -> Seq(Event)]
  BY DEF TypeOK, WorkerTypeOK, Event
<1> DEFINE e == [type |-> type, id |-> id]
<1>2. e \in Event /\ (e.type = "phase_completed" => e.id \in done'[w])
  BY DEF Event
<1>3. \/ queue' = [queue EXCEPT ![w] = Append(queue[w], e)]
      \/ queue' = queue
  BY DEF Emit
<1> HIDE DEF e
<1> QED
  BY <1>1, <1>2, <1>3 DEF Tells

\* The commands of a worker, one by one.
LEMMA CallKind ==
    ASSUME TypeOK, NEW r \in Runs, NEW w \in Workers, Call(r, w)
    PROVE  Calls(r, w)
<1>0. /\ status \in [Workers -> Statuses] /\ plan \in [Workers -> Identity]
      /\ task \in [Workers -> BOOLEAN] /\ phase[r] \in Nat /\ plan[w] \in Identity
  BY DEF TypeOK, WorkerTypeOK
<1>1. NoPlan \in Identity /\ Id(r) \in Identity
  BY <1>0 DEF NoPlan, Identity, Id
<1>2. PICK ok \in BOOLEAN :
        /\ Answer(r, w, ok)
        /\ \/ pc[r] = "disabling" /\ PrepareDisabled(w, ok)
           \/ pc[r] = "preparing" /\ PreparePhase(w, Id(r), ok)
           \/ pc[r] = "starting" /\ StartPhase(w, Id(r), ok)
           \/ pc[r] \in {"disabling", "preparing", "starting"} /\ Refuse(ok)
           \/ pc[r] \in {"stopping", "failing"} /\ Stop(w, ok)
  BY DEF Call
<1>3. pc[r] \in Gathering /\ w \in Group(r) \ answered[r] /\ UNCHANGED <<owners, grants>>
  BY <1>2 DEF Call, Answer
<1>4. Goes(r, journal[r], pc[r], phase[r], answered[r] \cup {w}, failed[r] \/ ~ok)
  BY <1>2, AnswerGoes
<1>5. Effect(r, w, ok) /\ Tells(w) /\ UNCHANGED done
  <2>1. CASE pc[r] = "disabling" /\ PrepareDisabled(w, ok)
    <3>1. Becomes(w, "disabled", NoPlan, task[w])
      BY <1>0, <2>1 DEF PrepareDisabled, Becomes
    <3>2. Tells(w)
      BY <1>1, <2>1, EmitTells DEF PrepareDisabled, EventTypes
    <3> QED
      BY <2>1, <3>1, <3>2 DEF Effect, PrepareDisabled
  <2>2. CASE pc[r] = "preparing" /\ PreparePhase(w, Id(r), ok)
    <3>1. Becomes(w, "prepared", Id(r), task[w])
      BY <1>0, <2>2 DEF PreparePhase, Becomes
    <3>2. Tells(w)
      BY <1>1, <2>2, EmitTells DEF PreparePhase, EventTypes
    <3> QED
      BY <2>2, <3>1, <3>2 DEF Effect, PreparePhase
  <2>3. CASE pc[r] = "starting" /\ StartPhase(w, Id(r), ok)
    <3>1. Becomes(w, "scheduled", plan[w], TRUE)
      BY <1>0, <2>3 DEF StartPhase, Becomes
    <3> QED
      BY <2>3, <3>1 DEF Effect, StartPhase, Tells
  <2>4. CASE pc[r] \in {"disabling", "preparing", "starting"} /\ Refuse(ok)
    <3>1. Becomes(w, status[w], plan[w], task[w])
      BY <2>4 DEF Refuse, workerVars, Becomes
    <3> QED
      BY <2>4, <3>1 DEF Effect, Refuse, workerVars, Tells
  <2>5. CASE pc[r] \in {"stopping", "failing"} /\ Stop(w, ok)
    <3>1. Becomes(w, "stopped", plan[w], FALSE)
      BY <1>0, <2>5 DEF Stop, Becomes
    <3>2. Tells(w)
      BY <1>0, <2>5, EmitTells DEF Stop, EventTypes
    <3> QED
      BY <2>5, <3>1, <3>2 DEF Effect, Stop
  <2> QED
    BY <1>2, <2>1, <2>2, <2>3, <2>4, <2>5
<1> QED
  BY <1>3, <1>4, <1>5 DEF Calls

\* The phase task, step by step.
LEMMA PlayKind ==
    ASSUME TypeOK, NEW w \in Workers, PhaseTask(w)
    PROVE  Plays(w)
<1>0. /\ status \in [Workers -> Statuses] /\ plan \in [Workers -> Identity]
      /\ task \in [Workers -> BOOLEAN] /\ plan[w] \in Identity
      /\ done \in [Workers -> SUBSET Identity]
  BY DEF TypeOK, WorkerTypeOK
<1>1. UNCHANGED <<runVars, owners, grants>>
  BY DEF PhaseTask
<1>2. CASE BeginPhase(w)
  <2>1. PICK ok \in BOOLEAN :
            Emit(w, ok, "phase_started", plan[w]) /\ task' = [task EXCEPT ![w] = ok]
    BY <1>2 DEF BeginPhase
  <2>2. Becomes(w, "running", plan[w], ok)
    BY <1>0, <1>2, <2>1 DEF BeginPhase, Becomes
  <2>3. Tells(w)
    BY <1>0, <2>1, EmitTells DEF EventTypes
  <2> QED
    BY <1>1, <1>2, <2>2, <2>3 DEF BeginPhase, Plays
<1>3. CASE CompletePhase(w)
  <2>1. PICK ok \in BOOLEAN : Emit(w, ok, "phase_completed", plan[w])
    BY <1>3 DEF CompletePhase
  <2>2. Becomes(w, "completed", plan[w], FALSE)
    BY <1>0, <1>3 DEF CompletePhase, Becomes
  <2>3. \A v \in Workers : done'[v] = IF v = w THEN done[v] \cup {plan[v]} ELSE done[v]
    BY <1>0, <1>3 DEF CompletePhase
  <2>4. Tells(w)
    BY <1>0, <2>1, <2>3, EmitTells DEF EventTypes
  <2> QED
    BY <1>1, <1>3, <2>2, <2>3, <2>4 DEF CompletePhase, Plays
<1> QED
  BY <1>2, <1>3 DEF PhaseTask

\* An event is taken: it is the expected one, a fatal one, or one to ignore.
LEMMA EventKind ==
    ASSUME TypeOK, NEW r \in Runs, NEW w \in Workers, TakeEvent(r, w)
    PROVE  Moves(r) \/ Rests
<1>0. queue \in [Workers -> Seq(Event)] /\ answered \in [Runs -> SUBSET Workers]
  BY DEF TypeOK, WorkerTypeOK, Event
<1>1. /\ queue[w] # << >> /\ queue' = [queue EXCEPT ![w] = Tail(queue[w])]
      /\ UNCHANGED <<owners, grants, status, plan, task, done>>
      /\ pc[r] \in Waiting /\ w \in Group(r)
  BY DEF TakeEvent
<1>2. Quiet
  BY <1>0, <1>1 DEF Quiet
<1>3. CASE /\ Matches(r, Head(queue[w])) /\ Head(queue[w]).type = Expected(r)
           /\ answered' = [answered EXCEPT ![r] = @ \cup {w}]
           /\ UNCHANGED <<journal, pc, phase, failed>>
  <2>1. Goes(r, journal[r], pc[r], phase[r], answered[r] \cup {w}, failed[r])
    BY <1>0, <1>3 DEF Goes
  <2>2. Hears(r)
    BY <1>1, <1>3, <2>1 DEF Hears, Matches
  <2> QED
    BY <1>2, <2>2 DEF Moves
<1>4. CASE Fail(r)
  <2>1. Goes(r, journal[r], "failing", phase[r], {}, FALSE)
    BY <1>4, FailGoes
  <2>2. Fails(r)
    BY <1>1, <2>1 DEF Fails, Waiting, Gathering
  <2> QED
    BY <1>2, <2>2 DEF Moves
<1>5. CASE UNCHANGED <<journal, pc, phase, answered, failed>>
  BY <1>1, <1>2, <1>5 DEF Rests, runVars
<1> QED
  BY <1>3, <1>4, <1>5 DEF TakeEvent

\* The steps of a run's coroutine between two awaits.
LEMMA MoveKind ==
    ASSUME TypeOK, NEW r \in Runs,
           \/ Execute(r) \/ Disabled(r) \/ Prepared(r) \/ Scheduled(r) \/ Started(r)
           \/ Completed(r) \/ Timeout(r) \/ Stopped(r) \/ Faulted(r) \/ Cancel(r)
           \/ CancelAgain(r)
    PROVE  Moves(r)
<1>1. ASSUME NEW type, NEW at, NEW k, Leg(r, type, at, k), AllAnswered(r),
             Proceed(r, type, at, k), UNCHANGED <<owners, grants>>
      PROVE  Advances(r) \/ Fails(r)
  <2>1. pc[r] \in (Gathering \cup Waiting) \ {"failing"}
    BY <1>1 DEF Leg, Gathering, Waiting
  <2>2. \/ Goes(r, Append(journal[r], type), at, k, {}, FALSE)
        \/ Goes(r, journal[r], "failing", phase[r], {}, FALSE)
    BY <1>1, ProceedGoes
  <2>3. CASE Goes(r, Append(journal[r], type), at, k, {}, FALSE)
    BY <1>1, <2>3 DEF Advances
  <2>4. CASE Goes(r, journal[r], "failing", phase[r], {}, FALSE)
    BY <1>1, <2>1, <2>4 DEF Fails
  <2> QED
    BY <2>2, <2>3, <2>4
<1>2. ASSUME pc[r] \in (Gathering \cup Waiting) \ {"failing"}, Fail(r), UNCHANGED <<owners, grants>>
      PROVE  Fails(r)
  BY <1>2, FailGoes DEF Fails
<1>3. ASSUME Return(r), NEW j, EndsWith(r, j), journal' = [journal EXCEPT ![r] = j]
      PROVE  Ends(r)
  <2>1. Goes(r, j, "idle", phase[r], {}, FALSE)
    BY <1>3, AwaitGoes, StayingIsGoing DEF Return
  <2> QED
    BY <1>3, <2>1 DEF Ends, Return
<1>4. CASE Execute(r)
  <2>1. /\ pc[r] = "idle" /\ journal[r] = << >> /\ Lease!Acquire(r, Need[r])
        /\ journal' = [journal EXCEPT ![r] = Append(journal[r], "run.opened")]
        /\ Await(r, "disabling") /\ phase' = phase /\ UNCHANGED workerVars
    BY <1>4 DEF Execute, Record
  <2>2. Goes(r, Append(journal[r], "run.opened"), "disabling", phase[r], {}, FALSE)
    BY <2>1, AwaitGoes, StayingIsGoing
  <2> QED
    BY <2>1, <2>2, UnchangedIsQuiet DEF Opens, Moves
<1>5. CASE Disabled(r)
  <2>1. pc[r] = "disabling" /\ AllAnswered(r) /\ UNCHANGED <<owners, grants, workerVars>>
    BY <1>5 DEF Disabled
  <2>2. Leg(r, "workers.disabled", "preparing", 1)
    BY <2>1 DEF Leg
  <2>3. Fail(r) \/ Proceed(r, "workers.disabled", "preparing", 1)
    BY <1>5 DEF Disabled
  <2>4. Advances(r) \/ Fails(r)
    BY <1>1, <1>2, <2>1, <2>2, <2>3 DEF Gathering
  <2> QED
    BY <2>1, <2>4, UnchangedIsQuiet DEF Moves
<1>6. CASE Prepared(r)
  <2>1. pc[r] = "preparing" /\ AllAnswered(r) /\ UNCHANGED <<owners, grants, workerVars>>
    BY <1>6 DEF Prepared
  <2>2. ~failed[r] => Leg(r, "phase.prepared", "starting", phase[r])
    BY <2>1 DEF Leg
  <2>3. Fail(r) \/ (~failed[r] /\ Proceed(r, "phase.prepared", "starting", phase[r]))
    BY <1>6 DEF Prepared
  <2>4. Advances(r) \/ Fails(r)
    BY <1>1, <1>2, <2>1, <2>2, <2>3 DEF Gathering
  <2> QED
    BY <2>1, <2>4, UnchangedIsQuiet DEF Moves
<1>7. CASE Scheduled(r)
  <2>1. pc[r] = "starting" /\ AllAnswered(r) /\ UNCHANGED <<owners, grants, workerVars>>
    BY <1>7 DEF Scheduled
  <2>2. ~failed[r] => Leg(r, "phase.scheduled", "await_started", phase[r])
    BY <2>1 DEF Leg
  <2>3. Fail(r) \/ (~failed[r] /\ Proceed(r, "phase.scheduled", "await_started", phase[r]))
    BY <1>7 DEF Scheduled
  <2>4. Advances(r) \/ Fails(r)
    BY <1>1, <1>2, <2>1, <2>2, <2>3 DEF Gathering
  <2> QED
    BY <2>1, <2>4, UnchangedIsQuiet DEF Moves
<1>8. CASE Started(r)
  <2>1. pc[r] = "await_started" /\ AllAnswered(r) /\ UNCHANGED <<owners, grants, workerVars>>
    BY <1>8 DEF Started
  <2>2. Leg(r, "phase.started", "await_completed", phase[r])
    BY <2>1 DEF Leg
  <2>3. CASE Proceed(r, "phase.started", "await_completed", phase[r])
    <3>1. Advances(r) \/ Fails(r)
      BY <1>1, <2>1, <2>2, <2>3
    <3> QED
      BY <2>1, <3>1, UnchangedIsQuiet DEF Moves
  <2>4. CASE Record(r, "phase.started") /\ Await(r, "failing") /\ UNCHANGED phase
    <3>1. journal' = [journal EXCEPT ![r] = Append(journal[r], "phase.started")]
      BY <2>4 DEF Record
    <3>2. Goes(r, Append(journal[r], "phase.started"), "failing", phase[r], {}, FALSE)
      BY <2>4, <3>1, AwaitGoes, StayingIsGoing
    <3>3. Fails(r)
      BY <2>1, <3>2 DEF Fails, Waiting
    <3> QED
      BY <2>1, <3>3, UnchangedIsQuiet DEF Moves
  <2> QED
    BY <1>8, <2>3, <2>4 DEF Started
<1>9. CASE Completed(r)
  <2>1. pc[r] = "await_completed" /\ AllAnswered(r) /\ UNCHANGED <<owners, grants, workerVars>>
    BY <1>9 DEF Completed
  <2>2. CASE phase[r] < Len(Phases[r])
    <3>1. Leg(r, "phase.completed", "preparing", phase[r] + 1)
      BY <2>1, <2>2 DEF Leg
    <3>2. Proceed(r, "phase.completed", "preparing", phase[r] + 1)
      BY <1>9, <2>2 DEF Completed
    <3>3. Advances(r) \/ Fails(r)
      BY <1>1, <2>1, <3>1, <3>2
    <3> QED
      BY <2>1, <3>3, UnchangedIsQuiet DEF Moves
  <2>3. CASE ~(phase[r] < Len(Phases[r]))
    <3>1. Leg(r, "phase.completed", "stopping", phase[r])
      BY <2>1, <2>3 DEF Leg
    <3>2. Proceed(r, "phase.completed", "stopping", phase[r])
      BY <1>9, <2>3 DEF Completed
    <3>3. Advances(r) \/ Fails(r)
      BY <1>1, <2>1, <3>1, <3>2
    <3> QED
      BY <2>1, <3>3, UnchangedIsQuiet DEF Moves
  <2> QED
    BY <2>2, <2>3
<1>10. CASE Timeout(r) \/ Cancel(r)
  <2>1. /\ pc[r] \in (Gathering \cup Waiting) \ {"failing"} /\ Fail(r)
        /\ UNCHANGED <<owners, grants, workerVars>>
    BY <1>10 DEF Timeout, Cancel, Waiting
  <2> QED
    BY <1>2, <2>1, UnchangedIsQuiet DEF Moves
<1>11. CASE Stopped(r)
  <2>1. pc[r] = "stopping" /\ AllAnswered(r) /\ UNCHANGED workerVars
    BY <1>11 DEF Stopped
  <2>2. CASE Record(r, "run.completed") /\ Return(r)
    <3>1. journal' = [journal EXCEPT ![r] = Append(journal[r], "run.completed")]
      BY <2>2 DEF Record
    <3>2. EndsWith(r, Append(journal[r], "run.completed"))
      BY <2>1 DEF EndsWith
    <3>3. Ends(r)
      BY <1>3, <2>2, <3>1, <3>2
    <3> QED
      BY <2>1, <3>3, UnchangedIsQuiet DEF Moves
  <2>3. CASE Fail(r) /\ UNCHANGED <<owners, grants>>
    <3>1. Fails(r)
      BY <1>2, <2>1, <2>3 DEF Gathering
    <3> QED
      BY <2>1, <3>1, UnchangedIsQuiet DEF Moves
  <2> QED
    BY <1>11, <2>2, <2>3 DEF Stopped
<1>12. CASE Faulted(r)
  <2>1. pc[r] = "failing" /\ AllAnswered(r) /\ Return(r) /\ UNCHANGED workerVars
    BY <1>12 DEF Faulted
  <2>2. PICK j \in {journal[r], Append(journal[r], "run.faulted")} :
            journal' = [journal EXCEPT ![r] = j]
    BY <1>12, StayingIsGoing DEF Faulted, Record
  <2>3. EndsWith(r, j)
    BY <2>1 DEF EndsWith
  <2>4. Ends(r)
    BY <1>3, <2>1, <2>2, <2>3
  <2> QED
    BY <2>1, <2>4, UnchangedIsQuiet DEF Moves
<1>13. CASE CancelAgain(r)
  <2>1. /\ pc[r] = "failing" /\ "failing" \in CancelAwaits /\ Return(r)
        /\ UNCHANGED <<journal, status, plan, queue, done>>
        /\ \E cut : task' = [w \in Workers |-> task[w] /\ w \notin cut]
    BY <1>13 DEF CancelAgain
  <2>2. Quiet
    BY <2>1 DEF Quiet
  <2>3. EndsWith(r, journal[r]) /\ journal' = [journal EXCEPT ![r] = journal[r]]
    BY <2>1, StayingIsGoing DEF EndsWith
  <2>4. Ends(r)
    BY <1>3, <2>1, <2>3
  <2> QED
    BY <2>2, <2>4 DEF Moves
<1> QED
  BY <1>4, <1>5, <1>6, <1>7, <1>8, <1>9, <1>10, <1>11, <1>12, <1>13

\* There are no other steps.
LEMMA StepKinds == TypeOK /\ [Next]_vars => StepKind
<1> SUFFICES ASSUME TypeOK, [Next]_vars PROVE StepKind
  OBVIOUS
<1>1. ASSUME NEW r \in Runs, Execute(r) \/ RunStep(r) \/ Cancel(r) \/ CancelAgain(r)
      PROVE  StepKind
  <2>1. ASSUME NEW w \in Workers, Call(r, w) PROVE StepKind
    BY <2>1, CallKind DEF StepKind
  <2>2. ASSUME NEW w \in Workers, TakeEvent(r, w) PROVE StepKind
    BY <2>2, EventKind DEF StepKind
  <2>3. CASE \/ Execute(r) \/ Disabled(r) \/ Prepared(r) \/ Scheduled(r) \/ Started(r)
             \/ Completed(r) \/ Timeout(r) \/ Stopped(r) \/ Faulted(r) \/ Cancel(r)
             \/ CancelAgain(r)
    BY <2>3, MoveKind DEF StepKind
  <2> QED
    BY <1>1, <2>1, <2>2, <2>3 DEF RunStep
<1>2. ASSUME NEW w \in Workers, PhaseTask(w) PROVE StepKind
  BY <1>2, PlayKind DEF StepKind
<1>3. CASE UNCHANGED vars
  BY <1>3, UnchangedIsQuiet DEF vars, StepKind, Rests
<1>4. CASE Terminated
  BY <1>3, <1>4 DEF Terminated
<1> QED
  BY <1>1, <1>2, <1>3, <1>4 DEF Next

-----------------------------------------------------------------------------
(* Leases and types. *)

\* acquire writes an owner only where the target was free.
LEMMA AcquireKeepsTables ==
    ASSUME TablesInv, NEW r \in Runs, Lease!Acquire(r, Need[r]) PROVE TablesInv'
<1>1. /\ grants[r] = NoGrant
      /\ \A t \in Need[r] : owners[t] \in {NoRun, r}
      /\ owners' = [t \in Targets |-> IF t \in Need[r] THEN r ELSE owners[t]]
      /\ grants' = [grants EXCEPT ![r] = Need[r]]
  BY DEF Lease!Acquire, Lease!Conflicts
<1>2. /\ owners \in [Targets -> Runs \cup {NoRun}]
      /\ grants \in [Runs -> {Need[s] : s \in Runs} \cup {NoGrant}]
  BY DEF TablesInv, Lease!TypeOK
<1>3. Lease!TypeOK'
  BY <1>1, <1>2 DEF Lease!TypeOK
<1>4. ASSUME NEW s \in Runs, NEW t \in Targets
      PROVE  owners'[t] = s <=> grants'[s] # NoGrant /\ t \in grants'[s]
  <2>1. owners[t] = s <=> grants[s] # NoGrant /\ t \in grants[s]
    BY DEF TablesInv, Lease!OwnersMatchGrants
  <2>2. owners'[t] = IF t \in Need[r] THEN r ELSE owners[t]
    BY <1>1
  <2>3. grants'[s] = IF s = r THEN Need[r] ELSE grants[s]
    BY <1>1, <1>2
  <2>4. Need[r] # NoGrant /\ NoRun \notin Runs
    BY ProgramAssumption, WorkerAssumption
  <2> QED
    BY <1>1, <2>1, <2>2, <2>3, <2>4
<1> QED
  BY <1>3, <1>4 DEF TablesInv, Lease!OwnersMatchGrants

\* release clears an owner only where the run is it.
LEMMA ReleaseKeepsTables ==
    ASSUME TablesInv, NEW r \in Runs, Lease!Release(r) PROVE TablesInv'
<1>1. /\ grants[r] # NoGrant
      /\ owners' = [t \in Targets |->
                       IF t \in grants[r] /\ owners[t] = r THEN NoRun ELSE owners[t]]
      /\ grants' = [grants EXCEPT ![r] = NoGrant]
  BY DEF Lease!Release
<1>2. /\ owners \in [Targets -> Runs \cup {NoRun}]
      /\ grants \in [Runs -> {Need[s] : s \in Runs} \cup {NoGrant}]
  BY DEF TablesInv, Lease!TypeOK
<1>3. Lease!TypeOK'
  BY <1>1, <1>2 DEF Lease!TypeOK
<1>4. ASSUME NEW s \in Runs, NEW t \in Targets
      PROVE  owners'[t] = s <=> grants'[s] # NoGrant /\ t \in grants'[s]
  <2>1. /\ owners[t] = s <=> (grants[s] # NoGrant /\ t \in grants[s])
        /\ owners[t] = r <=> (grants[r] # NoGrant /\ t \in grants[r])
    BY DEF TablesInv, Lease!OwnersMatchGrants
  <2>2. owners'[t] = IF t \in grants[r] /\ owners[t] = r THEN NoRun ELSE owners[t]
    BY <1>1
  <2>3. grants'[s] = IF s = r THEN NoGrant ELSE grants[s]
    BY <1>1, <1>2
  <2> QED
    BY <1>1, <2>1, <2>2, <2>3, WorkerAssumption
<1> QED
  BY <1>3, <1>4 DEF TablesInv, Lease!OwnersMatchGrants

\* Every step keeps the tables of the lease manager.
LEMMA TablesNext == TypeOK /\ TablesInv /\ [Next]_vars => TablesInv'
<1> SUFFICES ASSUME TypeOK, TablesInv, [Next]_vars PROVE TablesInv'
  OBVIOUS
<1>1. ASSUME NEW r \in Runs, Lease!Acquire(r, Need[r]) PROVE TablesInv'
  BY <1>1, AcquireKeepsTables
<1>2. ASSUME NEW r \in Runs, Lease!Release(r) PROVE TablesInv'
  BY <1>2, ReleaseKeepsTables
<1>3. CASE UNCHANGED <<owners, grants>>
  BY <1>3 DEF TablesInv, Lease!TypeOK, Lease!OwnersMatchGrants
<1>4. StepKind
  BY StepKinds
<1>5. ASSUME NEW r \in Runs, Moves(r) PROVE TablesInv'
  BY <1>1, <1>2, <1>3, <1>5 DEF Moves, Opens, Advances, Fails, Ends, Hears
<1>6. ASSUME NEW w \in Workers, Plays(w) \/ Rests \/ \E r \in Runs : Calls(r, w)
      PROVE  TablesInv'
  BY <1>3, <1>6 DEF Plays, Rests, Calls
<1>7. CASE Rests
  BY <1>3, <1>7 DEF Rests
<1> QED
  BY <1>4, <1>5, <1>6, <1>7 DEF StepKind

\* The types of the run's part.
RunTypeOK ==
    /\ journal \in [Runs -> Seq(JournalTypes)]
    /\ pc \in [Runs -> {"idle"} \cup Gathering \cup Waiting]
    /\ phase \in [Runs -> Nat]
    /\ answered \in [Runs -> SUBSET Workers]
    /\ failed \in [Runs -> BOOLEAN]

\* Between two awaits of a run.
LEMMA AwaitTypes ==
    ASSUME RunTypeOK, NEW r \in Runs, NEW at \in {"idle"} \cup Gathering \cup Waiting, Await(r, at)
    PROVE  /\ pc' \in [Runs -> {"idle"} \cup Gathering \cup Waiting]
           /\ answered' \in [Runs -> SUBSET Workers] /\ failed' \in [Runs -> BOOLEAN]
BY DEF RunTypeOK, Await

\* A record.
LEMMA RecordTypes ==
    ASSUME RunTypeOK, NEW r \in Runs, NEW type \in JournalTypes, Record(r, type)
    PROVE  journal' \in [Runs -> Seq(JournalTypes)]
<1>1. journal \in [Runs -> Seq(JournalTypes)] /\ journal[r] \in Seq(JournalTypes)
  BY DEF RunTypeOK
<1>2. Append(journal[r], type) \in Seq(JournalTypes)
  BY <1>1
<1> QED
  BY <1>1, <1>2 DEF Record

\* Every step of a run keeps the types of its part.
LEMMA RunTypes == TypeOK /\ [Next]_vars => RunTypeOK'
<1> SUFFICES ASSUME TypeOK, [Next]_vars PROVE RunTypeOK'
  OBVIOUS
<1>0. RunTypeOK
  BY DEF TypeOK, RunTypeOK
<1>a. \A at \in {"failing", "disabling", "preparing", "starting", "stopping",
                 "await_started", "await_completed", "idle"} :
          at \in {"idle"} \cup Gathering \cup Waiting
  BY DEF Gathering, Waiting
<1>b. \A type \in {"run.opened", "workers.disabled", "phase.prepared", "phase.scheduled",
                   "phase.started", "phase.completed", "run.completed", "run.faulted"} :
          type \in JournalTypes
  BY DEF JournalTypes, Terminal
<1>1. CASE UNCHANGED runVars
  BY <1>0, <1>1 DEF runVars, RunTypeOK
<1>2. ASSUME NEW r \in Runs, Fail(r) PROVE RunTypeOK'
  BY <1>0, <1>a, <1>b, <1>2, AwaitTypes DEF Fail, RunTypeOK
<1>3. ASSUME NEW r \in Runs, NEW type \in JournalTypes, NEW k \in Nat,
             NEW at \in {"idle"} \cup Gathering \cup Waiting, Proceed(r, type, at, k)
      PROVE  RunTypeOK'
  <2>1. CASE Record(r, type) /\ Await(r, at) /\ phase' = [phase EXCEPT ![r] = k]
    <3>1. phase' \in [Runs -> Nat]
      BY <1>0, <2>1 DEF RunTypeOK
    <3> QED
      BY <1>0, <2>1, <3>1, AwaitTypes, RecordTypes DEF RunTypeOK
  <2> QED
    BY <1>2, <1>3, <2>1 DEF Proceed
<1>4. ASSUME NEW r \in Runs, NEW type \in JournalTypes, NEW at \in {"idle"} \cup Gathering \cup Waiting,
             Record(r, type) \/ UNCHANGED journal, Await(r, at), UNCHANGED phase
      PROVE  RunTypeOK'
  BY <1>0, <1>4, AwaitTypes, RecordTypes DEF RunTypeOK
<1>5. ASSUME NEW r \in Runs, Execute(r) \/ Stopped(r) \/ Faulted(r) \/ Started(r)
      PROVE  RunTypeOK'
  <2>1. CASE Execute(r)
    BY <1>4, <1>a, <1>b, <2>1 DEF Execute
  <2>2. CASE Stopped(r)
    BY <1>2, <1>4, <1>a, <1>b, <2>2 DEF Stopped, Return
  <2>3. CASE Faulted(r)
    BY <1>4, <1>a, <1>b, <2>3 DEF Faulted, Return
  <2>4. CASE Started(r)
    BY <1>0, <1>3, <1>4, <1>a, <1>b, <2>4 DEF Started, RunTypeOK
  <2> QED
    BY <1>5, <2>1, <2>2, <2>3, <2>4
<1>6. ASSUME NEW r \in Runs, Disabled(r) \/ Prepared(r) \/ Scheduled(r) \/ Completed(r)
      PROVE  RunTypeOK'
  <2>0. phase[r] \in Nat /\ phase[r] + 1 \in Nat /\ 1 \in Nat
    BY <1>0 DEF RunTypeOK
  <2>1. CASE Disabled(r)
    BY <1>2, <1>3, <1>a, <1>b, <2>0, <2>1 DEF Disabled
  <2>2. CASE Prepared(r)
    BY <1>2, <1>3, <1>a, <1>b, <2>0, <2>2 DEF Prepared
  <2>3. CASE Scheduled(r)
    BY <1>2, <1>3, <1>a, <1>b, <2>0, <2>3 DEF Scheduled
  <2>4. CASE Completed(r)
    BY <1>3, <1>a, <1>b, <2>0, <2>4 DEF Completed
  <2> QED
    BY <1>6, <2>1, <2>2, <2>3, <2>4
<1>7. ASSUME NEW r \in Runs, Timeout(r) \/ Cancel(r) \/ CancelAgain(r) PROVE RunTypeOK'
  BY <1>2, <1>4, <1>a, <1>b, <1>7 DEF Timeout, Cancel, CancelAgain, Return
<1>8. ASSUME NEW r \in Runs, NEW w \in Workers, Call(r, w) PROVE RunTypeOK'
  BY <1>0, <1>8 DEF Call, Answer, RunTypeOK
<1>9. ASSUME NEW r \in Runs, NEW w \in Workers, TakeEvent(r, w) PROVE RunTypeOK'
  <2>1. CASE answered' = [answered EXCEPT ![r] = @ \cup {w}] /\ UNCHANGED <<journal, pc, phase, failed>>
    BY <1>0, <2>1 DEF RunTypeOK
  <2> QED
    BY <1>1, <1>2, <1>9, <2>1 DEF TakeEvent, runVars
<1>10. ASSUME NEW w \in Workers, PhaseTask(w) PROVE RunTypeOK'
  BY <1>1, <1>10 DEF PhaseTask
<1>11. CASE Terminated \/ UNCHANGED vars
  BY <1>1, <1>11 DEF Terminated, vars
<1> QED
  BY <1>5, <1>6, <1>7, <1>8, <1>9, <1>10, <1>11 DEF Next, RunStep

\* A queue takes an event only below its limit.
LEMMA EmitTypes ==
    ASSUME WorkerTypeOK, NEW w \in Workers, NEW ok \in BOOLEAN, NEW type \in EventTypes,
           NEW id \in Identity, Emit(w, ok, type, id)
    PROVE  queue' \in [Workers -> Seq(Event)] /\ \A v \in Workers : Len(queue'[v]) <= EventLimit
<1> DEFINE e == [type |-> type, id |-> id]
<1>1. /\ queue \in [Workers -> Seq(Event)] /\ queue[w] \in Seq(Event)
      /\ \A v \in Workers : Len(queue[v]) <= EventLimit
  BY DEF WorkerTypeOK, Event
<1>2. e \in Event /\ EventLimit \in Nat /\ Len(queue[w]) \in Nat
  BY <1>1, WorkerAssumption DEF Event
<1>3. CASE ok
  <2>1. queue' = [queue EXCEPT ![w] = Append(queue[w], e)] /\ ~(Len(queue[w]) >= EventLimit)
    BY <1>3 DEF Emit, Full
  <2> HIDE DEF e
  <2>2. Append(queue[w], e) \in Seq(Event) /\ Len(Append(queue[w], e)) = Len(queue[w]) + 1
    BY <1>1, <1>2
  <2>3. Len(Append(queue[w], e)) <= EventLimit
    BY <1>2, <2>1, <2>2
  <2> QED
    BY <1>1, <2>1, <2>2, <2>3
<1>4. CASE ~ok
  BY <1>1, <1>4 DEF Emit
<1> QED
  BY <1>3, <1>4

\* Every step keeps the types of the workers.
LEMMA WorkerTypes == TypeOK /\ [Next]_vars => WorkerTypeOK'
<1> SUFFICES ASSUME TypeOK, [Next]_vars PROVE WorkerTypeOK'
  OBVIOUS
<1>0. WorkerTypeOK
  BY DEF TypeOK
<1>a. /\ status \in [Workers -> Statuses] /\ plan \in [Workers -> Identity]
      /\ task \in [Workers -> BOOLEAN] /\ queue \in [Workers -> Seq(Event)]
      /\ done \in [Workers -> SUBSET Identity] /\ \A w \in Workers : plan[w] \in Identity
      /\ \A w \in Workers : Len(queue[w]) <= EventLimit
  BY <1>0 DEF WorkerTypeOK, Event
<1>b. NoPlan \in Identity /\ \A r \in Runs : Id(r) \in Identity
  BY DEF NoPlan, Identity, Id, TypeOK
<1>c. \A type \in {"worker_disabled", "phase_prepared", "phase_started", "phase_completed",
                   "worker_stopped"} : type \in EventTypes
  BY DEF EventTypes
<1>d. \A st \in {"disabled", "prepared", "scheduled", "running", "completed", "stopped"} :
          st \in Statuses
  BY DEF Statuses
<1>1. CASE UNCHANGED workerVars
  BY <1>0, <1>1 DEF workerVars, WorkerTypeOK
<1>2. ASSUME NEW w \in Workers, NEW ok \in BOOLEAN, NEW type \in EventTypes, NEW id \in Identity,
             Emit(w, ok, type, id), status' \in [Workers -> Statuses],
             plan' \in [Workers -> Identity], task' \in [Workers -> BOOLEAN],
             done' \in [Workers -> SUBSET Identity]
      PROVE  WorkerTypeOK'
  BY <1>0, <1>2, EmitTypes DEF WorkerTypeOK, Event
<1>3. ASSUME NEW r \in Runs, NEW w \in Workers, Call(r, w) PROVE WorkerTypeOK'
  <2>1. PICK ok \in BOOLEAN :
           \/ PrepareDisabled(w, ok) \/ PreparePhase(w, Id(r), ok) \/ StartPhase(w, Id(r), ok)
           \/ Refuse(ok) \/ Stop(w, ok)
    BY <1>3 DEF Call
  <2>2. CASE PrepareDisabled(w, ok)
    <3>1. /\ status' \in [Workers -> Statuses] /\ plan' \in [Workers -> Identity]
          /\ task' = task /\ done' = done
      BY <1>a, <1>b, <1>d, <2>2 DEF PrepareDisabled
    <3> QED
      BY <1>2, <1>a, <1>b, <1>c, <2>2, <3>1 DEF PrepareDisabled
  <2>3. CASE PreparePhase(w, Id(r), ok)
    <3>1. /\ status' \in [Workers -> Statuses] /\ plan' \in [Workers -> Identity]
          /\ task' = task /\ done' = done
      BY <1>a, <1>b, <1>d, <2>3 DEF PreparePhase
    <3> QED
      BY <1>2, <1>a, <1>b, <1>c, <2>3, <3>1 DEF PreparePhase
  <2>4. CASE StartPhase(w, Id(r), ok)
    BY <1>0, <1>d, <2>4 DEF StartPhase, WorkerTypeOK
  <2>5. CASE Refuse(ok)
    BY <1>1, <2>5 DEF Refuse
  <2>6. CASE Stop(w, ok)
    <3>1. /\ status' \in [Workers -> Statuses] /\ task' \in [Workers -> BOOLEAN]
          /\ plan' = plan /\ done' = done
      BY <1>a, <1>d, <2>6 DEF Stop
    <3> QED
      BY <1>2, <1>a, <1>c, <2>6, <3>1 DEF Stop
  <2> QED
    BY <2>1, <2>2, <2>3, <2>4, <2>5, <2>6
<1>4. ASSUME NEW r \in Runs, NEW w \in Workers, TakeEvent(r, w) PROVE WorkerTypeOK'
  <2>1. /\ queue[w] # << >> /\ queue' = [queue EXCEPT ![w] = Tail(queue[w])]
        /\ UNCHANGED <<status, plan, task, done>>
    BY <1>4 DEF TakeEvent
  <2>2. queue[w] \in Seq(Event)
    BY <1>a
  <2>3. Tail(queue[w]) \in Seq(Event) /\ Len(Tail(queue[w])) = Len(queue[w]) - 1
    BY <2>1, <2>2
  <2>4. Len(Tail(queue[w])) <= EventLimit
    BY <1>a, <2>2, <2>3, WorkerAssumption
  <2>5. queue' \in [Workers -> Seq(Event)] /\ \A v \in Workers : Len(queue'[v]) <= EventLimit
    BY <1>a, <2>1, <2>3, <2>4
  <2> QED
    BY <1>a, <2>1, <2>5 DEF WorkerTypeOK, Event
<1>5. ASSUME NEW w \in Workers, PhaseTask(w) PROVE WorkerTypeOK'
  <2>1. CASE BeginPhase(w)
    <3>1. PICK ok \in BOOLEAN :
              Emit(w, ok, "phase_started", plan[w]) /\ task' = [task EXCEPT ![w] = ok]
      BY <2>1 DEF BeginPhase
    <3>2. /\ status' \in [Workers -> Statuses] /\ task' \in [Workers -> BOOLEAN]
          /\ plan' = plan /\ done' = done
      BY <1>a, <1>d, <2>1, <3>1 DEF BeginPhase
    <3> QED
      BY <1>2, <1>a, <1>c, <3>1, <3>2
  <2>2. CASE CompletePhase(w)
    <3>1. PICK ok \in BOOLEAN : Emit(w, ok, "phase_completed", plan[w])
      BY <2>2 DEF CompletePhase
    <3>2. /\ status' \in [Workers -> Statuses] /\ task' \in [Workers -> BOOLEAN]
          /\ plan' = plan
      BY <1>a, <1>d, <2>2 DEF CompletePhase
    <3>3. done' \in [Workers -> SUBSET Identity]
      BY <1>a, <2>2 DEF CompletePhase
    <3> QED
      BY <1>2, <1>a, <1>c, <3>1, <3>2, <3>3
  <2> QED
    BY <1>5, <2>1, <2>2 DEF PhaseTask
<1>6. ASSUME NEW r \in Runs, CancelAgain(r) PROVE WorkerTypeOK'
  <2>1. /\ UNCHANGED <<status, plan, queue, done>>
        /\ \E cut : task' = [w \in Workers |-> task[w] /\ w \notin cut]
    BY <1>6 DEF CancelAgain
  <2>2. task' \in [Workers -> BOOLEAN]
    BY <1>a, <2>1
  <2> QED
    BY <1>0, <2>1, <2>2 DEF WorkerTypeOK
<1>7. ASSUME NEW r \in Runs,
             \/ Execute(r) \/ Disabled(r) \/ Prepared(r) \/ Scheduled(r) \/ Started(r)
             \/ Completed(r) \/ Timeout(r) \/ Stopped(r) \/ Faulted(r) \/ Cancel(r)
      PROVE  UNCHANGED workerVars
  BY <1>7 DEF Execute, Disabled, Prepared, Scheduled, Started, Completed, Timeout, Stopped,
              Faulted, Cancel
<1>8. CASE Terminated \/ UNCHANGED vars
  BY <1>1, <1>8 DEF Terminated, vars
<1> QED
  BY <1>1, <1>3, <1>4, <1>5, <1>6, <1>7, <1>8 DEF Next, RunStep

\* Every step keeps the types.
LEMMA TypeNext ==
    TypeOK /\ TablesInv /\ [Next]_vars => TypeOK' /\ TablesInv'
<1> SUFFICES ASSUME TypeOK, TablesInv, [Next]_vars
             PROVE  TypeOK' /\ TablesInv'
  OBVIOUS
<1>1. RunTypeOK' /\ WorkerTypeOK' /\ TablesInv'
  BY RunTypes, WorkerTypes, TablesNext
<1>2. Lease!TypeOK'
  BY <1>1 DEF TablesInv
<1> QED
  BY <1>1, <1>2 DEF RunTypeOK, TypeOK

-----------------------------------------------------------------------------
(* Where a run stands. *)

\* Every step leaves the leases with the runs that are under way.
LEMMA LeaseNext == TypeOK /\ LeaseInv /\ [Next]_vars => LeaseInv'
<1> SUFFICES ASSUME TypeOK, LeaseInv, [Next]_vars PROVE LeaseInv'
  OBVIOUS
<1>1. TablesInv'
  BY TablesNext DEF LeaseInv
<1>2. grants \in [Runs -> {Need[r] : r \in Runs} \cup {NoGrant}]
  BY DEF TypeOK, Lease!TypeOK
<1>3. ASSUME NEW s \in Runs PROVE grants'[s] = IF pc'[s] = "idle" THEN NoGrant ELSE Need[s]
  <2>0. grants[s] = IF pc[s] = "idle" THEN NoGrant ELSE Need[s]
    BY DEF LeaseInv
  <2>1. ASSUME NEW r \in Runs, Opens(r) PROVE <1>3!2
    <3>1. grants'[s] = IF s = r THEN Need[r] ELSE grants[s]
      BY <1>2, <2>1 DEF Opens, Lease!Acquire
    <3>2. pc'[s] = IF s = r THEN "disabling" ELSE pc[s]
      BY <2>1 DEF Opens, Goes
    <3> QED
      BY <2>0, <3>1, <3>2
  <2>2. ASSUME NEW r \in Runs, Ends(r) PROVE <1>3!2
    <3>1. grants'[s] = IF s = r THEN NoGrant ELSE grants[s]
      BY <1>2, <2>2 DEF Ends, Lease!Release
    <3>2. pc'[s] = IF s = r THEN "idle" ELSE pc[s]
      BY <2>2 DEF Ends, Goes
    <3> QED
      BY <2>0, <3>1, <3>2
  <2>3. ASSUME grants' = grants, pc'[s] = "idle" <=> pc[s] = "idle" PROVE <1>3!2
    BY <2>0, <2>3
  <2>4. ASSUME NEW r \in Runs, Advances(r) PROVE <1>3!2
    <3>1. PICK type, at, k : Leg(r, type, at, k) /\ Goes(r, Append(journal[r], type), at, k, {}, FALSE)
      BY <2>4 DEF Advances
    <3>2. pc[r] # "idle" /\ at # "idle"
      BY <3>1 DEF Leg
    <3>3. pc'[s] = IF s = r THEN at ELSE pc[s]
      BY <3>1 DEF Goes
    <3> QED
      BY <2>3, <2>4, <3>2, <3>3 DEF Advances
  <2>5. ASSUME NEW r \in Runs, Fails(r) PROVE <1>3!2
    <3>1. pc'[s] = IF s = r THEN "failing" ELSE pc[s]
      BY <2>5 DEF Fails, Goes
    <3>2. pc[r] # "idle"
      BY <2>5 DEF Fails, Gathering, Waiting
    <3> QED
      BY <2>3, <2>5, <3>1, <3>2 DEF Fails
  <2>6. ASSUME NEW r \in Runs, Hears(r) \/ \E w \in Workers : Calls(r, w) PROVE <1>3!2
    <3>1. pc'[s] = pc[s]
      BY <2>6 DEF Hears, Calls, Goes
    <3> QED
      BY <2>3, <2>6, <3>1 DEF Hears, Calls
  <2>7. ASSUME Rests \/ \E w \in Workers : Plays(w) PROVE <1>3!2
    BY <2>3, <2>7 DEF Rests, Plays, runVars
  <2> QED
    BY <2>1, <2>2, <2>4, <2>5, <2>6, <2>7, StepKinds DEF StepKind, Moves
<1> QED
  BY <1>1, <1>3 DEF LeaseInv

\* The next event of worker w is the one that run s waits for.
Told(s, w) ==
    /\ w \in Workers /\ queue[w] # << >>
    /\ Head(queue[w]).id = Id(s) /\ Head(queue[w]).type = Expected(s)

\* What a step may do to the run s, whoever takes it.
RunChange(s) ==
    \/ /\ UNCHANGED <<journal[s], pc[s], phase[s], answered[s], failed[s]>>
    \/ Opens(s) \/ Advances(s) \/ Fails(s) \/ Ends(s)
    \/ /\ pc[s] \in Gathering \cup Waiting /\ UNCHANGED <<journal[s], pc[s], phase[s]>>
       /\ \E w \in Group(s) : /\ answered'[s] = answered[s] \cup {w}
                              /\ pc[s] \in Waiting => Told(s, w)

\* And it does nothing else.
LEMMA RunChanges ==
    ASSUME TypeOK, [Next]_vars, NEW s \in Runs
    PROVE  RunChange(s)
<1>1. ASSUME NEW r \in Runs, Moves(r) PROVE RunChange(s)
  <2>1. CASE r = s
    <3>1. CASE Hears(r)
      <4>1. PICK w \in Group(r) :
                /\ Goes(r, journal[r], pc[r], phase[r], answered[r] \cup {w}, failed[r])
                /\ Told(r, w)
        BY <3>1 DEF Hears, Told
      <4>2. /\ UNCHANGED <<journal[s], pc[s], phase[s]>> /\ answered'[s] = answered[s] \cup {w}
        BY <2>1, <4>1 DEF Goes
      <4> QED
        BY <2>1, <3>1, <4>1, <4>2 DEF RunChange, Hears
    <3> QED
      BY <1>1, <2>1, <3>1 DEF Moves, RunChange
  <2>2. CASE r # s
    BY <1>1, <2>2 DEF Moves, Opens, Advances, Fails, Ends, Hears, Goes, RunChange
  <2> QED
    BY <2>1, <2>2
<1>2. ASSUME NEW r \in Runs, NEW w \in Workers, Calls(r, w) PROVE RunChange(s)
  <2>1. /\ pc[r] \in Gathering /\ w \in Group(r)
        /\ \E f : Goes(r, journal[r], pc[r], phase[r], answered[r] \cup {w}, f)
    BY <1>2 DEF Calls
  <2>2. CASE r = s
    <3>1. /\ UNCHANGED <<journal[s], pc[s], phase[s]>> /\ answered'[s] = answered[s] \cup {w}
      BY <2>1, <2>2 DEF Goes
    <3>2. pc[s] \notin Waiting
      BY <2>1, <2>2 DEF Gathering, Waiting
    <3> QED
      BY <2>1, <2>2, <3>1, <3>2 DEF RunChange
  <2>3. CASE r # s
    BY <2>1, <2>3 DEF Goes, RunChange
  <2> QED
    BY <2>2, <2>3
<1>3. ASSUME NEW w \in Workers, Plays(w) PROVE RunChange(s)
  BY <1>3 DEF Plays, runVars, RunChange
<1>4. CASE Rests
  BY <1>4 DEF Rests, runVars, RunChange
<1> QED
  BY <1>1, <1>2, <1>3, <1>4, StepKinds DEF StepKind

\* A journal that grows is not empty, and is one event longer.
LEMMA Appended ==
    ASSUME TypeOK, NEW r \in Runs, NEW type \in JournalTypes
    PROVE  LET j == Append(journal[r], type)
           IN  /\ j # << >> /\ Len(j) = Len(journal[r]) + 1 /\ Len(journal[r]) \in Nat
               /\ \A i \in 1 .. Len(journal[r]) : j[i] = journal[r][i]
               /\ j[Len(journal[r]) + 1] = type
<1>1. journal[r] \in Seq(JournalTypes)
  BY DEF TypeOK
<1> QED
  BY <1>1

\* The events of the legs are events.
LEMMA LegTypes ==
    ASSUME NEW r, NEW type, NEW at, NEW k, Leg(r, type, at, k)
    PROVE  type \in JournalTypes \ Terminal
BY DEF Leg, JournalTypes, Terminal

\* Every step keeps the phase index and the answers where they belong.
LEMMA GroupNext == TypeOK /\ GroupInv /\ ScriptInv /\ [Next]_vars => GroupInv'
<1> SUFFICES ASSUME TypeOK, GroupInv, ScriptInv, [Next]_vars, NEW s \in Runs
             PROVE  /\ journal'[s] = << >> \/ pc'[s] = "disabling" => phase'[s] = 0
                    /\ pc'[s] \in {"preparing", "starting"} \cup Waiting =>
                          phase'[s] \in 1 .. Len(Phases[s])
                    /\ pc'[s] = "stopping" => phase'[s] = Len(Phases[s])
                    /\ phase'[s] <= Len(Phases[s])
                    /\ answered'[s] \subseteq IF pc'[s] = "idle" THEN {} ELSE Group(s)'
  BY DEF GroupInv
<1>0. /\ journal[s] = << >> \/ pc[s] = "disabling" => phase[s] = 0
      /\ pc[s] \in {"preparing", "starting"} \cup Waiting => phase[s] \in 1 .. Len(Phases[s])
      /\ pc[s] = "stopping" => phase[s] = Len(Phases[s])
      /\ phase[s] <= Len(Phases[s])
      /\ answered[s] \subseteq IF pc[s] = "idle" THEN {} ELSE Group(s)
  BY DEF GroupInv
<1>1. pc[s] # "idle" => journal[s] # << >>
  BY DEF ScriptInv, OnScript, TypeOK
<1>2. phase[s] \in Nat /\ Len(Phases[s]) \in Nat /\ Len(Phases[s]) >= 1
  BY PhaseFacts DEF TypeOK
<1>3. CASE UNCHANGED <<journal[s], pc[s], phase[s], answered[s], failed[s]>>
  BY <1>0, <1>3 DEF Group
<1>4. CASE Opens(s)
  BY <1>0, <1>4 DEF Opens, Goes, Waiting
<1>5. CASE Advances(s)
  <2>1. PICK type, at, k : Leg(s, type, at, k) /\ Goes(s, Append(journal[s], type), at, k, {}, FALSE)
    BY <1>5 DEF Advances
  <2>2. /\ journal'[s] = Append(journal[s], type) /\ pc'[s] = at /\ phase'[s] = k
        /\ answered'[s] = {}
    BY <2>1 DEF Goes
  <2>3. journal'[s] # << >>
    BY <2>1, <2>2, Appended, LegTypes
  <2>4. /\ at \in {"preparing", "starting"} \cup Waiting => k \in 1 .. Len(Phases[s])
        /\ at = "stopping" => k = Len(Phases[s])
        /\ at # "disabling" /\ k <= Len(Phases[s])
    BY <1>0, <1>2, <2>1 DEF Leg, Waiting
  <2> QED
    BY <2>2, <2>3, <2>4
<1>6. CASE Fails(s)
  <2>1. PICK j : /\ j = journal[s] \/ (pc[s] = "await_started" /\ j = Append(journal[s], "phase.started"))
                 /\ Goes(s, j, "failing", phase[s], {}, FALSE)
    BY <1>6 DEF Fails
  <2>2. journal'[s] = j /\ pc'[s] = "failing" /\ phase'[s] = phase[s] /\ answered'[s] = {}
    BY <2>1 DEF Goes
  <2>3. j # << >>
    BY <1>1, <1>6, <2>1, Appended DEF Fails, Gathering, Waiting, JournalTypes
  <2> QED
    BY <1>0, <2>2, <2>3 DEF Waiting
<1>7. CASE Ends(s)
  <2>1. PICK j : EndsWith(s, j) /\ Goes(s, j, "idle", phase[s], {}, FALSE)
    BY <1>7 DEF Ends
  <2>2. journal'[s] = j /\ pc'[s] = "idle" /\ phase'[s] = phase[s] /\ answered'[s] = {}
    BY <2>1 DEF Goes
  <2>3. j # << >>
    BY <1>1, <2>1, Appended DEF EndsWith, JournalTypes, Terminal
  <2> QED
    BY <1>0, <2>2, <2>3 DEF Waiting
<1>8. CASE /\ pc[s] \in Gathering \cup Waiting /\ UNCHANGED <<journal[s], pc[s], phase[s]>>
           /\ \E w \in Group(s) : answered'[s] = answered[s] \cup {w}
  <2>1. pc[s] # "idle" /\ Group(s)' = Group(s)
    BY <1>8 DEF Gathering, Waiting, Group
  <2> QED
    BY <1>0, <1>8, <2>1
<1> QED
  BY <1>3, <1>4, <1>5, <1>6, <1>7, <1>8, RunChanges DEF RunChange

\* The script of a run: an opening, four events for each phase, a closing.
LEMMA ScriptFacts ==
    ASSUME NEW r \in Runs
    PROVE  /\ Scripted(r, 1) = "run.opened" /\ Scripted(r, 2) = "workers.disabled"
           /\ \A k \in 1 .. Len(Phases[r]) :
                 /\ Scripted(r, 4 * k - 1) = "phase.prepared"
                 /\ Scripted(r, 4 * k) = "phase.scheduled"
                 /\ Scripted(r, 4 * k + 1) = "phase.started"
                 /\ Scripted(r, 4 * k + 2) = "phase.completed"
           /\ Scripted(r, 4 * Len(Phases[r]) + 3) = "run.completed"
<1>0. Len(Phases[r]) \in Nat /\ Len(Phases[r]) >= 1
  BY PhaseFacts
<1>1. ASSUME NEW k \in 1 .. Len(Phases[r])
      PROVE  /\ Scripted(r, 4 * k - 1) = "phase.prepared"
             /\ Scripted(r, 4 * k) = "phase.scheduled"
             /\ Scripted(r, 4 * k + 1) = "phase.started"
             /\ Scripted(r, 4 * k + 2) = "phase.completed"
  <2> DEFINE n == k - 1
             L == Len(Phases[r])
  <2>0. n \in Nat /\ k = n + 1 /\ L \in Nat /\ k <= L
    BY <1>0
  <2>1. ASSUME NEW m \in 0 .. 3
        PROVE  /\ 4 * k - 1 + m # 1 /\ 4 * k - 1 + m # 2 /\ 4 * k - 1 + m # 4 * L + 3
               /\ ((4 * k - 1 + m) - 3) % 4 = m
    <3> HIDE DEF n, L
    <3>1. 4 * k - 1 + m # 1 /\ 4 * k - 1 + m # 2 /\ 4 * k - 1 + m # 4 * L + 3
      BY <2>0
    <3>2. (4 * k - 1 + m) - 3 = 4 * n + m
      BY <2>0
    <3>3. (4 * n + m) % 4 = m
      BY <2>0
    <3> QED
      BY <3>1, <3>2, <3>3
  <2>2. Scripted(r, 4 * k - 1 + 0) = "phase.prepared"
    BY <2>1 DEF Scripted
  <2>3. Scripted(r, 4 * k - 1 + 1) = "phase.scheduled"
    BY <2>1 DEF Scripted
  <2>4. Scripted(r, 4 * k - 1 + 2) = "phase.started"
    BY <2>1 DEF Scripted
  <2>5. Scripted(r, 4 * k - 1 + 3) = "phase.completed"
    BY <2>1 DEF Scripted
  <2>6. 4 * k - 1 + 0 = 4 * k - 1 /\ 4 * k - 1 + 1 = 4 * k /\ 4 * k - 1 + 2 = 4 * k + 1
        /\ 4 * k - 1 + 3 = 4 * k + 2
    OBVIOUS
  <2> QED
    BY <2>2, <2>3, <2>4, <2>5, <2>6
<1>2. Scripted(r, 1) = "run.opened" /\ Scripted(r, 2) = "workers.disabled"
  BY DEF Scripted
<1>3. Scripted(r, 4 * Len(Phases[r]) + 3) = "run.completed"
  BY <1>0 DEF Scripted
<1> QED
  BY <1>1, <1>2, <1>3

\* What JournalTellsOneRun says of the journal j of run r.
TellsRun(r, j) ==
    \A i \in 1 .. Len(j) :
        /\ i <= 4 * Len(Phases[r]) + 3
        /\ j[i] # Scripted(r, i) => j[i] = "run.faulted" /\ i = Len(j)

\* A journal on script tells one run, and so does one that a fault or the last event ends.
LEMMA ScriptTells ==
    ASSUME TypeOK, NEW r \in Runs, OnScript(r, journal[r])
    PROVE  /\ TellsRun(r, journal[r])
           /\ TellsRun(r, Append(journal[r], "run.faulted"))
           /\ Len(journal[r]) = 4 * Len(Phases[r]) + 2 =>
                 TellsRun(r, Append(journal[r], "run.completed"))
<1>1. Len(Phases[r]) \in Nat /\ {"run.faulted", "run.completed"} \subseteq JournalTypes
  BY PhaseFacts DEF JournalTypes, Terminal
<1>2. /\ Len(journal[r]) \in 1 .. 4 * Len(Phases[r]) + 2
      /\ \A i \in 1 .. Len(journal[r]) : journal[r][i] = Scripted(r, i)
  BY DEF OnScript
<1>3. TellsRun(r, journal[r])
  BY <1>1, <1>2 DEF TellsRun
<1>4. ASSUME NEW type \in JournalTypes,
             type = "run.faulted" \/ type = Scripted(r, Len(journal[r]) + 1)
      PROVE  TellsRun(r, Append(journal[r], type))
  <2> DEFINE j == Append(journal[r], type)
  <2>1. /\ Len(j) = Len(journal[r]) + 1 /\ Len(journal[r]) \in Nat
        /\ \A i \in 1 .. Len(journal[r]) : j[i] = journal[r][i]
        /\ j[Len(journal[r]) + 1] = type
    BY Appended
  <2> HIDE DEF j
  <2>2. ASSUME NEW i \in 1 .. Len(j)
        PROVE  /\ i <= 4 * Len(Phases[r]) + 3
               /\ j[i] # Scripted(r, i) => j[i] = "run.faulted" /\ i = Len(j)
    <3>1. CASE i = Len(journal[r]) + 1
      BY <1>1, <1>2, <1>4, <2>1, <3>1
    <3>2. CASE i # Len(journal[r]) + 1
      <4>1. i \in 1 .. Len(journal[r])
        BY <2>1, <3>2
      <4>2. j[i] = Scripted(r, i)
        BY <1>2, <2>1, <4>1
      <4>3. i <= 4 * Len(Phases[r]) + 3
        BY <1>1, <1>2, <4>1
      <4> QED
        BY <4>2, <4>3
    <3> QED
      BY <3>1, <3>2
  <2>3. TellsRun(r, j)
    BY <2>2 DEF TellsRun
  <2> QED
    BY <2>3 DEF j
<1>5. Len(journal[r]) = 4 * Len(Phases[r]) + 2 => "run.completed" = Scripted(r, Len(journal[r]) + 1)
  BY <1>1, ScriptFacts
<1> QED
  BY <1>1, <1>3, <1>4, <1>5

\* The next event of the script keeps a journal on it.
LEMMA ScriptGrows ==
    ASSUME TypeOK, NEW r \in Runs, OnScript(r, journal[r]), NEW type \in JournalTypes,
           type = Scripted(r, Len(journal[r]) + 1), Len(journal[r]) + 1 <= 4 * Len(Phases[r]) + 2
    PROVE  OnScript(r, Append(journal[r], type))
<1> DEFINE j == Append(journal[r], type)
<1>1. /\ Len(j) = Len(journal[r]) + 1 /\ Len(journal[r]) \in Nat
      /\ \A i \in 1 .. Len(journal[r]) : j[i] = journal[r][i]
      /\ j[Len(journal[r]) + 1] = type
  BY Appended
<1>2. Len(Phases[r]) \in Nat
  BY PhaseFacts
<1> HIDE DEF j
<1>3. ASSUME NEW i \in 1 .. Len(j) PROVE j[i] = Scripted(r, i)
  <2>1. CASE i = Len(journal[r]) + 1
    BY <1>1, <2>1
  <2>2. CASE i # Len(journal[r]) + 1
    <3>1. i \in 1 .. Len(journal[r])
      BY <1>1, <2>2
    <3> QED
      BY <1>1, <3>1 DEF OnScript
  <2> QED
    BY <2>1, <2>2
<1>4. Len(j) \in 1 .. 4 * Len(Phases[r]) + 2
  BY <1>1, <1>2
<1>5. OnScript(r, j)
  BY <1>3, <1>4 DEF OnScript
<1> QED
  BY <1>5 DEF j

\* On its way a run writes the next event of its script.
LEMMA LegIsScripted ==
    ASSUME TypeOK, GroupInv, ScriptInv, NEW r \in Runs, NEW type, NEW at, NEW k,
           Leg(r, type, at, k)
    PROVE  /\ type \in JournalTypes /\ type = Scripted(r, Len(journal[r]) + 1)
           /\ Len(journal[r]) + 1 <= 4 * Len(Phases[r]) + 2
           /\ OnScript(r, journal[r])
           /\ at \in {"preparing", "starting", "await_started", "await_completed", "stopping"}
           /\ Len(journal[r]) + 1 =
                 CASE at = "preparing" -> 4 * k - 2
                   [] at = "starting" -> 4 * k - 1
                   [] at = "await_started" -> 4 * k
                   [] at = "await_completed" -> 4 * k + 1
                   [] OTHER -> 4 * k + 2
<1>0. phase[r] \in Nat /\ Len(Phases[r]) \in Nat /\ Len(Phases[r]) >= 1
  BY PhaseFacts DEF TypeOK
<1>1. /\ pc[r] \in {"preparing", "starting", "await_started", "await_completed"} =>
            phase[r] \in 1 .. Len(Phases[r])
      /\ pc[r] = "disabling" => phase[r] = 0
  BY DEF GroupInv, Waiting
<1>2. pc[r] \notin {"idle", "failing"} => Len(journal[r]) = Recorded(r) /\ OnScript(r, journal[r])
  BY DEF ScriptInv
<1>3. type \in JournalTypes
  BY LegTypes
<1>4. CASE pc[r] = "disabling"
  <2>1. Len(journal[r]) = 1 /\ type = "workers.disabled" /\ at = "preparing" /\ k = 1
    BY <1>2, <1>4 DEF Recorded, Leg
  <2> QED
    BY <1>0, <1>2, <1>3, <1>4, <2>1, ScriptFacts
<1>5. CASE pc[r] = "preparing"
  <2>1. /\ Len(journal[r]) = 4 * phase[r] - 2 /\ type = "phase.prepared" /\ at = "starting"
        /\ k = phase[r]
    BY <1>2, <1>5 DEF Recorded, Leg
  <2>2. Len(journal[r]) + 1 = 4 * phase[r] - 1
    BY <1>0, <2>1
  <2> QED
    BY <1>0, <1>1, <1>2, <1>3, <1>5, <2>1, <2>2, ScriptFacts
<1>6. CASE pc[r] = "starting"
  <2>1. /\ Len(journal[r]) = 4 * phase[r] - 1 /\ type = "phase.scheduled" /\ at = "await_started"
        /\ k = phase[r]
    BY <1>2, <1>6 DEF Recorded, Leg
  <2>2. Len(journal[r]) + 1 = 4 * phase[r]
    BY <1>0, <2>1
  <2> QED
    BY <1>0, <1>1, <1>2, <1>3, <1>6, <2>1, <2>2, ScriptFacts
<1>7. CASE pc[r] = "await_started"
  <2>1. /\ Len(journal[r]) = 4 * phase[r] /\ type = "phase.started" /\ at = "await_completed"
        /\ k = phase[r]
    BY <1>2, <1>7 DEF Recorded, Leg
  <2> QED
    BY <1>0, <1>1, <1>2, <1>3, <1>7, <2>1, ScriptFacts
<1>8. CASE pc[r] = "await_completed"
  <2>1. /\ Len(journal[r]) = 4 * phase[r] + 1 /\ type = "phase.completed"
        /\ (at = "preparing" /\ k = phase[r] + 1) \/ (at = "stopping" /\ k = phase[r])
    BY <1>2, <1>8 DEF Recorded, Leg
  <2>2. Len(journal[r]) + 1 = 4 * phase[r] + 2
    BY <1>0, <2>1
  <2>3. at = "preparing" => 4 * k - 2 = 4 * phase[r] + 2
    BY <1>0, <2>1
  <2>4. type = Scripted(r, Len(journal[r]) + 1) /\ 4 * phase[r] + 2 <= 4 * Len(Phases[r]) + 2
    BY <1>0, <1>1, <1>8, <2>1, <2>2, ScriptFacts
  <2> QED
    BY <1>2, <1>3, <1>8, <2>1, <2>2, <2>3, <2>4
<1> QED
  BY <1>4, <1>5, <1>6, <1>7, <1>8 DEF Leg

\* Every step keeps the journal on the script, until the run ends.
LEMMA ScriptNext == TypeOK /\ GroupInv /\ ScriptInv /\ [Next]_vars => ScriptInv'
<1> SUFFICES ASSUME TypeOK, GroupInv, ScriptInv, [Next]_vars PROVE ScriptInv'
  OBVIOUS
<1>1. ASSUME NEW s \in Runs
      PROVE  /\ pc'[s] # "idle" => OnScript(s, journal'[s])
             /\ pc'[s] \notin {"idle", "failing"} => Len(journal'[s]) = Recorded(s)'
             /\ TellsRun(s, journal'[s])
  <2>0. /\ pc[s] # "idle" => OnScript(s, journal[s])
        /\ pc[s] \notin {"idle", "failing"} => Len(journal[s]) = Recorded(s)
        /\ TellsRun(s, journal[s])
    BY DEF ScriptInv, JournalTellsOneRun, TellsRun
  <2>1. ASSUME OnScript(s, journal'[s]) PROVE TellsRun(s, journal'[s])
    <3>1. Len(Phases[s]) \in Nat
      BY PhaseFacts
    <3> QED
      BY <2>1, <3>1 DEF OnScript, TellsRun
  <2>2. CASE UNCHANGED <<journal[s], pc[s], phase[s]>>
    BY <2>0, <2>2 DEF Recorded
  <2>3. CASE Opens(s)
    <3>1. journal'[s] = Append(<< >>, "run.opened") /\ pc'[s] = "disabling"
      BY <2>3 DEF Opens, Goes
    <3>2. Len(journal'[s]) = 1 /\ journal'[s][1] = "run.opened"
      BY <3>1
    <3>3. OnScript(s, journal'[s])
      BY <3>2, ScriptFacts, PhaseFacts DEF OnScript
    <3> QED
      BY <2>1, <3>1, <3>2, <3>3 DEF Recorded
  <2>4. CASE Advances(s)
    <3>1. PICK type, at, k : Leg(s, type, at, k) /\ Goes(s, Append(journal[s], type), at, k, {}, FALSE)
      BY <2>4 DEF Advances
    <3>2. journal'[s] = Append(journal[s], type) /\ pc'[s] = at /\ phase'[s] = k
      BY <3>1 DEF Goes
    <3>3. OnScript(s, journal'[s])
      BY <3>1, <3>2, LegIsScripted, ScriptGrows
    <3>4. Len(journal'[s]) = Len(journal[s]) + 1
      BY <3>1, <3>2, LegIsScripted, Appended
    <3>5. Len(journal'[s]) = Recorded(s)'
      BY <3>1, <3>2, <3>4, LegIsScripted DEF Recorded
    <3> QED
      BY <2>1, <3>3, <3>5
  <2>5. CASE Fails(s)
    <3>1. PICK j : /\ j = journal[s] \/ (pc[s] = "await_started" /\ j = Append(journal[s], "phase.started"))
                   /\ Goes(s, j, "failing", phase[s], {}, FALSE)
      BY <2>5 DEF Fails
    <3>2. journal'[s] = j /\ pc'[s] = "failing" /\ pc[s] # "idle"
      BY <2>5, <3>1 DEF Goes, Fails, Gathering, Waiting
    <3>3. pc[s] = "await_started" => Leg(s, "phase.started", "await_completed", phase[s])
      BY DEF Leg
    <3>4. OnScript(s, j)
      BY <2>0, <3>1, <3>2, <3>3, LegIsScripted, ScriptGrows
    <3> QED
      BY <2>1, <3>2, <3>4
  <2>6. CASE Ends(s)
    <3>1. PICK j : EndsWith(s, j) /\ Goes(s, j, "idle", phase[s], {}, FALSE)
      BY <2>6 DEF Ends
    <3>2. journal'[s] = j /\ pc'[s] = "idle"
      BY <3>1 DEF Goes
    <3>3. OnScript(s, journal[s])
      BY <2>0, <3>1 DEF EndsWith
    <3>4. pc[s] = "stopping" => Len(journal[s]) = 4 * Len(Phases[s]) + 2
      BY <2>0 DEF Recorded, GroupInv
    <3> QED
      BY <3>1, <3>2, <3>3, <3>4, ScriptTells DEF EndsWith
  <2> QED
    BY <2>2, <2>3, <2>4, <2>5, <2>6, RunChanges DEF RunChange
<1>2. JournalTellsOneRun'
  BY <1>1 DEF JournalTellsOneRun, TellsRun
<1> QED
  BY <1>1, <1>2 DEF ScriptInv

-----------------------------------------------------------------------------
(* The phase barrier. *)

\* What has been played stays played, and a run goes forward only.
LEMMA Forward ==
    ASSUME TypeOK, GroupInv, [Next]_vars
    PROVE  /\ \A w \in Workers : done[w] \subseteq done'[w]
           /\ \A r \in Runs : phase[r] \in Nat /\ phase'[r] \in Nat /\ phase[r] <= phase'[r]
<1>1. \A w \in Workers : done[w] \subseteq done'[w]
  <2>1. StepKind
    BY StepKinds
  <2>2. ASSUME NEW w \in Workers, Plays(w) PROVE <1>1
    BY <2>2 DEF Plays
  <2>3. CASE UNCHANGED done
    BY <2>3
  <2> QED
    BY <2>1, <2>2, <2>3 DEF StepKind, Moves, Quiet, Calls, Rests
<1>2. ASSUME NEW r \in Runs PROVE phase[r] \in Nat /\ phase'[r] \in Nat /\ phase[r] <= phase'[r]
  <2>1. phase[r] \in Nat
    BY DEF TypeOK
  <2>2. CASE phase'[r] = phase[r]
    BY <2>1, <2>2
  <2>3. CASE Advances(r)
    <3>1. PICK type, at, k : Leg(r, type, at, k) /\ Goes(r, Append(journal[r], type), at, k, {}, FALSE)
      BY <2>3 DEF Advances
    <3>2. phase'[r] = k
      BY <3>1 DEF Goes
    <3>3. k \in Nat /\ phase[r] <= k
      BY <2>1, <3>1 DEF Leg, GroupInv
    <3> QED
      BY <2>1, <3>2, <3>3
  <2>4. RunChange(r)
    BY RunChanges
  <2> QED
    BY <2>2, <2>3, <2>4 DEF RunChange, Opens, Fails, Ends, Goes
<1> QED
  BY <1>1, <1>2

\* The queues keep telling of completions that happened.
LEMMA QueueNext ==
    ASSUME TypeOK, GroupInv, [Next]_vars, NEW w \in Workers,
           \A i \in 1 .. Len(queue[w]) :
               queue[w][i].type = "phase_completed" => queue[w][i].id \in done[w]
    PROVE  \A i \in 1 .. Len(queue'[w]) :
               queue'[w][i].type = "phase_completed" => queue'[w][i].id \in done'[w]
<1>0. queue[w] \in Seq(Event) /\ done[w] \subseteq done'[w]
  BY Forward DEF TypeOK, WorkerTypeOK, Event
<1>1. CASE queue'[w] = queue[w]
  BY <1>0, <1>1
<1>2. CASE queue[w] # << >> /\ queue'[w] = Tail(queue[w])
  <2>1. /\ Len(queue'[w]) = Len(queue[w]) - 1
        /\ \A i \in 1 .. Len(queue'[w]) : queue'[w][i] = queue[w][i + 1] /\ i + 1 \in 1 .. Len(queue[w])
    BY <1>0, <1>2
  <2> QED
    BY <1>0, <2>1
<1>3. ASSUME NEW e \in Event, queue'[w] = Append(queue[w], e), e.type = "phase_completed" => e.id \in done'[w]
      PROVE  \A i \in 1 .. Len(queue'[w]) :
                 queue'[w][i].type = "phase_completed" => queue'[w][i].id \in done'[w]
  <2>1. \A i \in 1 .. Len(queue'[w]) :
            queue'[w][i] = e \/ (i \in 1 .. Len(queue[w]) /\ queue'[w][i] = queue[w][i])
    BY <1>0, <1>3
  <2> QED
    BY <1>0, <1>3, <2>1
<1>4. ASSUME NEW v \in Workers, Tells(v)
      PROVE  queue'[w] = queue[w] \/ \E e \in Event : /\ queue'[w] = Append(queue[w], e)
                                                      /\ e.type = "phase_completed" => e.id \in done'[w]
  BY <1>4 DEF Tells
<1>5. CASE Quiet
  BY <1>1, <1>2, <1>5 DEF Quiet
<1>6. StepKind
  BY StepKinds
<1> QED
  BY <1>1, <1>3, <1>4, <1>5, <1>6 DEF StepKind, Moves, Calls, Plays, Rests

\* No step puts a plan ahead of its run.
LEMMA PlanBehindNext ==
    ASSUME TypeOK, GroupInv, BarrierInv, [Next]_vars, NEW w \in Workers
    PROVE  /\ plan'[w].run = NoRun => plan'[w].phase = 0
           /\ plan'[w].run \in Runs => plan'[w].phase <= phase'[plan'[w].run]
<1>0. /\ plan[w].run = NoRun => plan[w].phase = 0
      /\ plan[w].run \in Runs => plan[w].phase <= phase[plan[w].run]
      /\ plan[w] \in Identity /\ plan[w].phase \in Nat
  BY DEF BarrierInv, TypeOK, WorkerTypeOK, Identity
<1>1. \A r \in Runs : phase[r] \in Nat /\ phase'[r] \in Nat /\ phase[r] <= phase'[r]
  BY Forward
<1>2. CASE plan'[w] = plan[w]
  BY <1>0, <1>1, <1>2
<1>3. CASE plan'[w] = NoPlan
  BY <1>3, WorkerAssumption DEF NoPlan
<1>4. ASSUME NEW r \in Runs, plan'[w] = Id(r)
      PROVE  /\ plan'[w].run = NoRun => plan'[w].phase = 0
             /\ plan'[w].run \in Runs => plan'[w].phase <= phase'[plan'[w].run]
  BY <1>1, <1>4, WorkerAssumption DEF Id
<1>5. ASSUME NEW r \in Runs, NEW v \in Workers, Calls(r, v)
      PROVE  plan'[w] \in {plan[w], NoPlan, Id(r)}
  BY <1>5 DEF Calls, Effect, Becomes
<1>6. ASSUME NEW v \in Workers, Plays(v) PROVE plan'[w] = plan[w]
  BY <1>6 DEF Plays, Becomes
<1>7. StepKind
  BY StepKinds
<1> QED
  BY <1>2, <1>3, <1>4, <1>5, <1>6, <1>7 DEF StepKind, Moves, Quiet, Rests

\* When all have answered a wait for the end, the phase has been played.
LEMMA AnsweredIsPlayed ==
    ASSUME BarrierInv, NEW r \in Runs, pc[r] = "await_completed", AllAnswered(r)
    PROVE  Played(r, phase[r], done)
<1>1. Phases[r][phase[r]] \subseteq answered[r]
  BY DEF AllAnswered, Group
<1>2. \A w \in answered[r] : Id(r) \in done[w]
  BY DEF BarrierInv
<1> QED
  BY <1>1, <1>2 DEF Played, Id

\* What the barrier means for one run.
BarrierOf(r) ==
    /\ \A k \in 1 .. phase[r] - 1 : Played(r, k, done)
    /\ pc[r] = "await_completed" => \A w \in answered[r] : Id(r) \in done[w]
    /\ pc[r] = "stopping" => Played(r, phase[r], done)
    /\ (\E i \in 1 .. Len(journal[r]) : journal[r][i] = "run.completed")
          => \A k \in 1 .. Len(Phases[r]) : Played(r, k, done)

\* Every step keeps it.
LEMMA BarrierOfNext ==
    ASSUME TypeOK, GroupInv, BarrierInv, [Next]_vars, NEW s \in Runs
    PROVE  BarrierOf(s)'
<1>0. BarrierOf(s)
  BY DEF BarrierInv, BarrierOf, CompletedMeansPlayed, Played
<1>1. /\ phase[s] \in Nat /\ Len(Phases[s]) \in Nat /\ answered[s] \subseteq Workers
      /\ answered[s] \subseteq IF pc[s] = "idle" THEN {} ELSE Group(s)
  BY PhaseFacts DEF TypeOK, GroupInv
<1>2. \A w \in Workers : done[w] \subseteq done'[w]
  BY Forward
<1>3. \A k \in 1 .. Len(Phases[s]) : Phases[s][k] \subseteq Workers
  BY PhaseFacts
<1>4. ASSUME NEW k \in 1 .. Len(Phases[s]), Played(s, k, done) PROVE Played(s, k, done')
  BY <1>2, <1>3, <1>4 DEF Played
<1>5. phase[s] <= Len(Phases[s])
  BY DEF GroupInv
<1>a. pc[s] = "stopping" => phase[s] \in 1 .. Len(Phases[s])
  BY <1>1, PhaseFacts DEF GroupInv
<1>b. pc[s] = "stopping" => Played(s, phase[s], done')
  BY <1>0, <1>4, <1>a DEF BarrierOf
<1>6. \A k \in 1 .. phase[s] - 1 : Played(s, k, done')
  BY <1>0, <1>1, <1>4, <1>5 DEF BarrierOf
<1>7. ASSUME \A i \in 1 .. Len(journal'[s]) : journal'[s][i] = "run.completed" =>
                 i \in 1 .. Len(journal[s]) /\ journal[s][i] = "run.completed"
      PROVE  (\E i \in 1 .. Len(journal'[s]) : journal'[s][i] = "run.completed")
                => \A k \in 1 .. Len(Phases[s]) : Played(s, k, done')
  BY <1>0, <1>4, <1>7 DEF BarrierOf
<1>8. CASE UNCHANGED <<journal[s], pc[s], phase[s], answered[s], failed[s]>>
  <2>1. pc'[s] = "stopping" => Played(s, phase'[s], done')
    BY <1>8, <1>b
  <2>2. pc'[s] = "await_completed" => \A w \in answered'[s] : Id(s)' \in done'[w]
    BY <1>0, <1>1, <1>2, <1>8 DEF BarrierOf, Id
  <2> QED
    BY <1>6, <1>7, <1>8, <2>1, <2>2 DEF BarrierOf
<1>9. CASE Opens(s)
  <2>1. journal'[s] = Append(<< >>, "run.opened") /\ pc'[s] = "disabling" /\ phase'[s] = phase[s]
    BY <1>9 DEF Opens, Goes
  <2>2. \A i \in 1 .. Len(journal'[s]) : journal'[s][i] # "run.completed"
    BY <2>1
  <2> QED
    BY <1>6, <1>7, <2>1, <2>2 DEF BarrierOf
<1>10. ASSUME NEW type \in JournalTypes \ {"run.completed"}, NEW j,
              j = journal[s] \/ j = Append(journal[s], type), journal'[s] = j
       PROVE  \A i \in 1 .. Len(journal'[s]) : journal'[s][i] = "run.completed" =>
                 i \in 1 .. Len(journal[s]) /\ journal[s][i] = "run.completed"
  <2>1. CASE j = journal[s]
    BY <1>10, <2>1
  <2>2. CASE j = Append(journal[s], type)
    <3>1. /\ Len(j) = Len(journal[s]) + 1 /\ Len(journal[s]) \in Nat
          /\ \A i \in 1 .. Len(journal[s]) : j[i] = journal[s][i]
          /\ j[Len(journal[s]) + 1] # "run.completed"
      BY <1>10, <2>2, Appended
    <3>2. \A i \in 1 .. Len(j) : i = Len(journal[s]) + 1 \/ i \in 1 .. Len(journal[s])
      BY <3>1
    <3> QED
      BY <1>10, <3>1, <3>2
  <2> QED
    BY <1>10, <2>1, <2>2
<1>11. CASE Advances(s)
  <2>1. PICK type, at, k : Leg(s, type, at, k) /\ Goes(s, Append(journal[s], type), at, k, {}, FALSE)
    BY <1>11 DEF Advances
  <2>2. /\ journal'[s] = Append(journal[s], type) /\ pc'[s] = at /\ phase'[s] = k
        /\ answered'[s] = {}
    BY <2>1 DEF Goes
  <2>3. type \in JournalTypes \ {"run.completed"}
    BY <2>1, LegTypes DEF Terminal
  <2>4. k = phase[s] \/ (phase[s] = 0 /\ k = 1) \/ (pc[s] = "await_completed" /\ k = phase[s] + 1)
    BY <2>1 DEF Leg, GroupInv
  <2>5. pc[s] = "await_completed" => phase[s] \in 1 .. Len(Phases[s]) /\ Played(s, phase[s], done)
    BY <1>11, AnsweredIsPlayed DEF Advances, GroupInv, Waiting
  <2>6. pc[s] = "await_completed" => Played(s, phase[s], done')
    BY <1>4, <2>5
  <2>7. \A i \in 1 .. k - 1 : Played(s, i, done')
    <3>1. CASE k = phase[s]
      BY <1>6, <3>1
    <3>2. CASE phase[s] = 0 /\ k = 1
      BY <3>2
    <3>3. CASE pc[s] = "await_completed" /\ k = phase[s] + 1
      <4>1. \A i \in 1 .. k - 1 : i = phase[s] \/ i \in 1 .. phase[s] - 1
        BY <1>1, <3>3
      <4>2. SUFFICES ASSUME NEW i \in 1 .. k - 1 PROVE Played(s, i, done')
        OBVIOUS
      <4>3. CASE i = phase[s]
        BY <1>4, <2>5, <3>3, <4>3
      <4> QED
        BY <1>6, <4>1, <4>3
    <3> QED
      BY <2>4, <3>1, <3>2, <3>3
  <2>8. at = "stopping" => pc[s] = "await_completed" /\ k = phase[s]
    BY <2>1 DEF Leg
  <2>9. at = "stopping" => Played(s, k, done')
    BY <1>4, <2>5, <2>8
  <2>10. \A i \in 1 .. Len(journal'[s]) : journal'[s][i] = "run.completed" =>
            i \in 1 .. Len(journal[s]) /\ journal[s][i] = "run.completed"
    BY <1>10, <2>2, <2>3
  <2> QED
    BY <1>7, <2>2, <2>7, <2>9, <2>10 DEF BarrierOf
<1>12. CASE Fails(s)
  <2>1. PICK j : /\ j = journal[s] \/ j = Append(journal[s], "phase.started")
                 /\ Goes(s, j, "failing", phase[s], {}, FALSE)
    BY <1>12 DEF Fails
  <2>2. journal'[s] = j /\ pc'[s] = "failing" /\ phase'[s] = phase[s]
    BY <2>1 DEF Goes
  <2>3. "phase.started" \in JournalTypes \ {"run.completed"}
    BY DEF JournalTypes
  <2> QED
    BY <1>6, <1>7, <1>10, <2>1, <2>2, <2>3 DEF BarrierOf
<1>13. CASE Ends(s)
  <2>1. PICK j : EndsWith(s, j) /\ Goes(s, j, "idle", phase[s], {}, FALSE)
    BY <1>13 DEF Ends
  <2>2. journal'[s] = j /\ pc'[s] = "idle" /\ phase'[s] = phase[s]
    BY <2>1 DEF Goes
  <2>3. "run.faulted" \in JournalTypes \ {"run.completed"}
    BY DEF JournalTypes, Terminal
  <2>4. CASE pc[s] = "stopping"
    <3>1. phase[s] = Len(Phases[s]) /\ Played(s, phase[s], done) /\ phase[s] >= 1
      BY <1>0, <2>4, PhaseFacts DEF BarrierOf, GroupInv
    <3>2. \A k \in 1 .. Len(Phases[s]) : k = phase[s] \/ k \in 1 .. phase[s] - 1
      BY <1>1, <3>1
    <3>3. Played(s, phase[s], done')
      BY <1>1, <1>4, <3>1
    <3>4. \A k \in 1 .. Len(Phases[s]) : Played(s, k, done')
      BY <1>1, <1>4, <1>0, <3>1, <3>2 DEF BarrierOf
    <3> QED
      BY <1>6, <2>2, <3>4 DEF BarrierOf
  <2>5. CASE pc[s] # "stopping"
    <3>1. j = journal[s] \/ j = Append(journal[s], "run.faulted")
      BY <2>1, <2>5 DEF EndsWith
    <3> QED
      BY <1>6, <1>7, <1>10, <2>2, <2>3, <3>1 DEF BarrierOf
  <2> QED
    BY <2>4, <2>5
<1>14. CASE /\ pc[s] \in Gathering \cup Waiting /\ UNCHANGED <<journal[s], pc[s], phase[s]>>
            /\ \E w \in Group(s) : /\ answered'[s] = answered[s] \cup {w}
                                   /\ pc[s] \in Waiting => Told(s, w)
  <2>1. PICK w \in Group(s) : answered'[s] = answered[s] \cup {w} /\ (pc[s] \in Waiting => Told(s, w))
    BY <1>14
  <2>2. pc[s] = "await_completed" => Id(s) \in done[w] /\ w \in Workers
    <3>1. SUFFICES ASSUME pc[s] = "await_completed" PROVE Id(s) \in done[w] /\ w \in Workers
      OBVIOUS
    <3>2. /\ w \in Workers /\ queue[w] # << >> /\ Head(queue[w]).id = Id(s)
          /\ Head(queue[w]).type = "phase_completed"
      BY <2>1, <3>1 DEF Told, Expected, Waiting
    <3>3. queue[w] \in Seq(Event)
      BY <3>2 DEF TypeOK, WorkerTypeOK, Event
    <3>4. Head(queue[w]) = queue[w][1] /\ 1 \in 1 .. Len(queue[w])
      BY <3>2, <3>3
    <3> QED
      BY <3>2, <3>4 DEF BarrierInv
  <2>3. pc'[s] = "await_completed" => \A v \in answered'[s] : Id(s)' \in done'[v]
    BY <1>0, <1>1, <1>2, <1>14, <2>1, <2>2 DEF BarrierOf, Id
  <2>4. pc'[s] = "stopping" => Played(s, phase'[s], done')
    BY <1>14, <1>b
  <2> QED
    BY <1>6, <1>7, <1>14, <2>3, <2>4 DEF BarrierOf
<1> QED
  BY <1>8, <1>9, <1>11, <1>12, <1>13, <1>14, RunChanges DEF RunChange

\* Every step keeps the barrier.
LEMMA BarrierNext == TypeOK /\ GroupInv /\ BarrierInv /\ [Next]_vars => BarrierInv'
<1> SUFFICES ASSUME TypeOK, GroupInv, BarrierInv, [Next]_vars PROVE BarrierInv'
  OBVIOUS
<1>1. \A w \in Workers : /\ plan'[w].run = NoRun => plan'[w].phase = 0
                         /\ plan'[w].run \in Runs => plan'[w].phase <= phase'[plan'[w].run]
  BY PlanBehindNext
<1>2. ASSUME NEW w \in Workers
      PROVE  \A i \in 1 .. Len(queue'[w]) :
                 queue'[w][i].type = "phase_completed" => queue'[w][i].id \in done'[w]
  BY QueueNext DEF BarrierInv
<1>3. \A r \in Runs : BarrierOf(r)'
  BY BarrierOfNext
<1>4. CompletedMeansPlayed'
  BY <1>3 DEF BarrierOf, CompletedMeansPlayed, Played
<1> QED
  BY <1>1, <1>2, <1>3, <1>4 DEF BarrierInv, BarrierOf

-----------------------------------------------------------------------------
(* Safe idle. *)

\* A journal on script is not closed.
LEMMA OnScriptIsOpen ==
    ASSUME NEW r \in Runs, NEW j, OnScript(r, j)
    PROVE  j # << >> /\ j[Len(j)] \notin Terminal
<1>1. Len(Phases[r]) \in Nat /\ Len(j) \in 1 .. 4 * Len(Phases[r]) + 2
  BY PhaseFacts DEF OnScript
<1> DEFINE i == Len(j)
<1>2. i \in Nat /\ i >= 1 /\ i # 4 * Len(Phases[r]) + 3 /\ j[i] = Scripted(r, i) /\ i \in 1 .. i
  BY <1>1 DEF OnScript
<1> HIDE DEF i
<1>3. ASSUME i = 1 \/ i = 2 PROVE j[i] \notin Terminal
  BY <1>2, <1>3 DEF Scripted, Terminal
<1>4. ASSUME i # 1 /\ i # 2 PROVE j[i] \notin Terminal
  <2>1. i - 3 \in Nat
    BY <1>2, <1>4
  <2>2. ((i - 3) % 4) + 1 \in 1 .. 4
    BY <2>1
  <2>3. <<"phase.prepared", "phase.scheduled", "phase.started",
          "phase.completed">>[((i - 3) % 4) + 1] \notin Terminal
    BY <2>2 DEF Terminal
  <2> QED
    BY <1>2, <1>4, <2>3 DEF Scripted
<1>5. j # << >>
  BY <1>1
<1> QED
  BY <1>3, <1>4, <1>5 DEF i

\* A run under way concerns its participants.
LEMMA GroupTakesPart ==
    ASSUME TypeOK, GroupInv, NEW r \in Runs, pc[r] \in Gathering \cup Waiting
    PROVE  Group(r) \subseteq Participants(r)
<1>1. CASE pc[r] \in {"disabling", "stopping", "failing"}
  BY <1>1 DEF Group
<1>2. CASE pc[r] \notin {"disabling", "stopping", "failing"}
  <2>1. phase[r] \in 1 .. Len(Phases[r])
    BY <1>2 DEF GroupInv, Gathering, Waiting
  <2> QED
    BY <1>2, <2>1, PhaseFacts DEF Group
<1> QED
  BY <1>1, <1>2

\* A run that moves still owes the stops that it owed, unless it ends; and it ends when it owes
\* none, or leaves its journal open.
LEMMA StillOwes ==
    ASSUME TypeOK, GroupInv, ScriptInv, [Next]_vars, NEW r \in Runs, NEW w \in Workers, Owes(r, w),
           Moves(r)
    PROVE  Owes(r, w)'
<1>1. /\ w \in Participants(r) /\ journal[r] # << >>
      /\ IF pc[r] = "idle" THEN journal[r][Len(journal[r])] \notin Terminal
         ELSE ~(pc[r] \in {"stopping", "failing"} /\ w \in answered[r])
  BY DEF Owes
<1>2. CASE Opens(r)
  BY <1>1, <1>2 DEF Opens
<1>3. CASE Advances(r)
  <2>1. PICK type, at, k : Leg(r, type, at, k) /\ Goes(r, Append(journal[r], type), at, k, {}, FALSE)
    BY <1>3 DEF Advances
  <2>2. journal'[r] = Append(journal[r], type) /\ pc'[r] = at /\ answered'[r] = {}
    BY <2>1 DEF Goes
  <2>3. Append(journal[r], type) # << >>
    BY <2>1, Appended, LegTypes
  <2>4. at # "idle"
    BY <2>1 DEF Leg
  <2> QED
    BY <1>1, <2>2, <2>3, <2>4 DEF Owes
<1>4. CASE Fails(r)
  <2>1. PICK j : /\ j = journal[r] \/ j = Append(journal[r], "phase.started")
                 /\ Goes(r, j, "failing", phase[r], {}, FALSE)
    BY <1>4 DEF Fails
  <2>2. journal'[r] = j /\ pc'[r] = "failing" /\ answered'[r] = {}
    BY <2>1 DEF Goes
  <2>3. j # << >>
    BY <1>1, <2>1, Appended DEF JournalTypes
  <2> QED
    BY <1>1, <2>2, <2>3 DEF Owes
<1>5. CASE Ends(r)
  <2>1. PICK j : EndsWith(r, j) /\ Goes(r, j, "idle", phase[r], {}, FALSE)
    BY <1>5 DEF Ends
  <2>2. journal'[r] = j /\ pc'[r] = "idle"
    BY <2>1 DEF Goes
  <2>3. pc[r] \in {"stopping", "failing"} /\ ~AllAnswered(r)
    BY <1>1, <2>1 DEF EndsWith, AllAnswered, Group
  <2>4. j = journal[r] /\ OnScript(r, journal[r])
    BY <2>1, <2>3 DEF EndsWith, ScriptInv
  <2> QED
    BY <1>1, <2>2, <2>4, OnScriptIsOpen DEF Owes
<1>6. CASE Hears(r)
  <2>1. UNCHANGED <<journal[r], pc[r]>> /\ pc[r] \in Waiting
    BY <1>6 DEF Hears, Goes
  <2> QED
    BY <1>1, <2>1 DEF Owes, Waiting
<1> QED
  BY <1>2, <1>3, <1>4, <1>5, <1>6 DEF Moves

\* What another run does changes nothing of what this one owes.
LEMMA OwesAlone ==
    ASSUME NEW q, NEW w, UNCHANGED <<journal[q], pc[q], answered[q]>>, Owes(q, w)
    PROVE  Owes(q, w)'
BY DEF Owes

\* Every step leaves somebody to stop the workers that are not in safe idle.
LEMMA SafeNext == TypeOK /\ GroupInv /\ ScriptInv /\ SafeInv /\ [Next]_vars => SafeInv'
<1> SUFFICES ASSUME TypeOK, GroupInv, ScriptInv, SafeInv, [Next]_vars, NEW w \in Workers,
                    status'[w] \notin {"created", "stopped"}
             PROVE  \E r \in Runs : Owes(r, w)'
  BY DEF SafeInv
<1>1. ASSUME status[w] \notin {"created", "stopped"} PROVE \E q \in Runs : Owes(q, w)
  BY <1>1 DEF SafeInv
<1>2. ASSUME NEW r \in Runs, Moves(r) PROVE \E q \in Runs : Owes(q, w)'
  <2>1. status'[w] = status[w]
    BY <1>2 DEF Moves, Quiet
  <2>2. PICK q \in Runs : Owes(q, w)
    BY <1>1, <2>1
  <2>3. CASE q = r
    BY <1>2, <2>2, <2>3, StillOwes
  <2>4. CASE q # r
    <3>1. UNCHANGED <<journal[q], pc[q], answered[q]>>
      BY <1>2, <2>4 DEF Moves, Opens, Advances, Fails, Ends, Hears, Goes
    <3> QED
      BY <2>2, <3>1, OwesAlone
  <2> QED
    BY <2>3, <2>4
<1>3. ASSUME NEW r \in Runs, NEW v \in Workers, Calls(r, v) PROVE \E q \in Runs : Owes(q, w)'
  <2>1. PICK ok \in BOOLEAN :
          /\ Goes(r, journal[r], pc[r], phase[r], answered[r] \cup {v}, failed[r] \/ ~ok)
          /\ Effect(r, v, ok)
    BY <1>3 DEF Calls
  <2>2. \A q \in Runs : /\ UNCHANGED <<journal[q], pc[q]>>
                        /\ answered'[q] = IF q = r THEN answered[r] \cup {v} ELSE answered[q]
    BY <2>1 DEF Goes
  <2>3. CASE v # w
    <3>1. status'[w] = status[w]
      BY <2>1, <2>3 DEF Effect, Becomes
    <3>2. PICK q \in Runs : Owes(q, w)
      BY <1>1, <3>1
    <3>3. Owes(q, w)'
      BY <2>2, <2>3, <3>2 DEF Owes
    <3> QED
      BY <3>3
  <2>4. CASE v = w
    <3>1. pc[r] \in {"disabling", "preparing", "starting"}
      BY <2>1, <2>4 DEF Effect, Becomes
    <3>2. w \in Participants(r)
      BY <1>3, <2>4, <3>1, GroupTakesPart DEF Calls, Gathering
    <3>3. journal[r] # << >>
      BY <3>1, OnScriptIsOpen DEF ScriptInv
    <3>4. Owes(r, w)'
      BY <2>2, <3>1, <3>2, <3>3 DEF Owes
    <3> QED
      BY <3>4
  <2> QED
    BY <2>3, <2>4
<1>4. ASSUME UNCHANGED runVars, status[w] \notin {"created", "stopped"}
      PROVE  \E q \in Runs : Owes(q, w)'
  <2>1. PICK q \in Runs : Owes(q, w)
    BY <1>1, <1>4
  <2>2. Owes(q, w)'
    BY <1>4, <2>1, OwesAlone DEF runVars
  <2> QED
    BY <2>2
<1>5. ASSUME NEW v \in Workers, Plays(v) PROVE status[w] \notin {"created", "stopped"}
  BY <1>5 DEF Plays, Becomes
<1>6. StepKind
  BY StepKinds
<1>7. CASE Rests
  BY <1>4, <1>7 DEF Rests, Quiet
<1> QED
  BY <1>2, <1>3, <1>4, <1>5, <1>6, <1>7 DEF StepKind, Plays

-----------------------------------------------------------------------------
(* Plans and leases. *)

\* If runs that share a worker share a lease target, no two of them are under way together.
LEMMA LeasedApart ==
    ASSUME SharedIsLeased, LeaseInv, NEW r \in Runs, NEW s \in Runs, r # s,
           pc[r] # "idle", pc[s] # "idle"
    PROVE  Participants(r) \cap Participants(s) = {}
<1>1. grants[r] = Need[r] /\ grants[s] = Need[s] /\ Need[r] # NoGrant /\ Need[s] # NoGrant
  BY ProgramAssumption DEF LeaseInv
<1>2. Need[r] \subseteq Targets /\ Need[s] \subseteq Targets
  BY ProgramAssumption
<1>3. \A t \in Targets : /\ t \in Need[r] => owners[t] = r
                         /\ t \in Need[s] => owners[t] = s
  BY <1>1 DEF LeaseInv, TablesInv, Lease!OwnersMatchGrants
<1>4. Need[r] \cap Need[s] = {}
  BY <1>2, <1>3
<1> QED
  BY <1>4 DEF SharedIsLeased

\* What PlanInv says of one run.
PlansOf(r) ==
    /\ pc[r] = "preparing" /\ ~failed[r] => \A w \in answered[r] : plan[w] = Id(r)
    /\ pc[r] \in {"starting"} \cup Waiting => \A w \in Group(r) : plan[w] = Id(r)

\* A run that moves to the start of a phase has prepared all its workers.
LEMMA PlansOfMoves ==
    ASSUME TypeOK, NEW s \in Runs, PlansOf(s), Moves(s)
    PROVE  PlansOf(s)'
<1>0. UNCHANGED plan
  BY DEF Moves, Quiet
<1>1. CASE Opens(s) \/ Fails(s) \/ Ends(s)
  <2>1. pc'[s] \in {"disabling", "failing", "idle"}
    BY <1>1 DEF Opens, Fails, Ends, Goes
  <2> QED
    BY <2>1 DEF PlansOf, Waiting
<1>2. CASE Hears(s)
  <2>1. UNCHANGED <<pc[s], phase[s]>> /\ pc[s] \in Waiting
    BY <1>2 DEF Hears, Goes
  <2> QED
    BY <1>0, <2>1 DEF PlansOf, Group, Id, Waiting
<1>3. CASE Advances(s)
  <2>1. PICK type, at, k : Leg(s, type, at, k) /\ Goes(s, Append(journal[s], type), at, k, {}, FALSE)
    BY <1>3 DEF Advances
  <2>2. pc'[s] = at /\ phase'[s] = k /\ answered'[s] = {}
    BY <2>1 DEF Goes
  <2>3. CASE at = "starting"
    <3>1. pc[s] = "preparing" /\ ~failed[s] /\ k = phase[s]
      BY <2>1, <2>3 DEF Leg
    <3>2. \A w \in Phases[s][phase[s]] : plan[w] = Id(s)
      BY <1>3, <3>1 DEF Advances, AllAnswered, Group, PlansOf
    <3> QED
      BY <1>0, <2>2, <2>3, <3>1, <3>2 DEF PlansOf, Group, Id
  <2>4. CASE at \in Waiting
    <3>1. pc[s] \in {"starting", "await_started"} /\ k = phase[s]
      BY <2>1, <2>4 DEF Leg, Waiting
    <3>2. \A w \in Phases[s][phase[s]] : plan[w] = Id(s)
      BY <3>1 DEF Group, PlansOf, Waiting
    <3> QED
      BY <1>0, <2>2, <2>4, <3>1, <3>2 DEF PlansOf, Group, Id, Waiting
  <2>5. CASE at \notin {"starting"} \cup Waiting
    BY <2>2, <2>5 DEF PlansOf
  <2> QED
    BY <2>3, <2>4, <2>5
<1> QED
  BY <1>1, <1>2, <1>3 DEF Moves

\* A call keeps the plans of its own run and of the others.
LEMMA PlansOfCalls ==
    ASSUME SharedIsLeased, TypeOK, LeaseInv, GroupInv, NEW s \in Runs, PlansOf(s),
           NEW r \in Runs, NEW v \in Workers, Calls(r, v)
    PROVE  PlansOf(s)'
<1>1. PICK ok \in BOOLEAN :
        /\ Goes(r, journal[r], pc[r], phase[r], answered[r] \cup {v}, failed[r] \/ ~ok)
        /\ Effect(r, v, ok)
  BY DEF Calls
<1>2. /\ UNCHANGED <<pc[s], phase[s]>>
      /\ answered'[s] = IF s = r THEN answered[s] \cup {v} ELSE answered[s]
      /\ failed'[s] = IF s = r THEN failed[s] \/ ~ok ELSE failed[s]
  BY <1>1 DEF Goes
<1>3. \A w \in Workers \ {v} : plan'[w] = plan[w]
  BY <1>1 DEF Effect, Becomes
<1>4. /\ answered[s] \subseteq Workers /\ failed[s] \in BOOLEAN
      /\ pc[s] # "idle" => answered[s] \subseteq Group(s)
  BY DEF TypeOK, GroupInv
<1>5. pc[s] \in {"preparing", "starting"} \cup Waiting => Group(s) \subseteq Participants(s)
  BY GroupTakesPart DEF Gathering, Waiting
<1>6. Participants(s) \subseteq Workers
  BY PhaseFacts
<1>7. pc[r] \in Gathering /\ v \in Group(r) \ answered[r]
  BY DEF Calls
<1>8. CASE r # s /\ pc[s] \in {"preparing", "starting"} \cup Waiting
  <2>1. v \in Participants(r) /\ pc[r] # "idle" /\ pc[s] # "idle"
    BY <1>7, <1>8, GroupTakesPart DEF Gathering, Waiting
  <2>2. v \notin Participants(s)
    BY <1>8, <2>1, LeasedApart
  <2>3. \A w \in Group(s) : plan'[w] = plan[w]
    BY <1>3, <1>5, <1>6, <1>8, <2>2
  <2> QED
    BY <1>2, <1>4, <1>8, <2>1, <2>3 DEF PlansOf, Group, Id
<1>9. CASE r = s /\ pc[s] = "preparing"
  <2>1. ok => plan'[v] = Id(s)
    BY <1>1, <1>9 DEF Effect, Becomes
  <2>2. ~failed[s] => \A w \in answered[s] : plan'[w] = Id(s)
    BY <1>3, <1>4, <1>7, <1>9 DEF PlansOf
  <2>3. Id(s)' = Id(s)
    BY <1>2 DEF Id
  <2> QED
    BY <1>2, <1>4, <1>9, <2>1, <2>2, <2>3 DEF PlansOf, Waiting
<1>10. CASE r = s /\ pc[s] = "starting"
  <2>1. \A w \in Workers : plan'[w] = plan[w]
    BY <1>1, <1>10 DEF Effect, Becomes
  <2>2. \A w \in Group(s) : plan'[w] = Id(s)
    BY <1>5, <1>6, <1>10, <2>1 DEF PlansOf
  <2> QED
    BY <1>2, <1>10, <2>2 DEF PlansOf, Group, Id
<1>11. CASE pc[s] \notin {"preparing", "starting"} \cup Waiting
  BY <1>2, <1>11 DEF PlansOf
<1>12. r = s => pc[s] \notin Waiting
  BY <1>7 DEF Gathering, Waiting
<1> QED
  BY <1>8, <1>9, <1>10, <1>11, <1>12

\* Every step keeps the plans of the runs under way.
LEMMA PlanNext ==
    ASSUME SharedIsLeased
    PROVE  TypeOK /\ LeaseInv /\ GroupInv /\ PlanInv /\ [Next]_vars => PlanInv'
<1> SUFFICES ASSUME TypeOK, LeaseInv, GroupInv, PlanInv, [Next]_vars PROVE PlanInv'
  OBVIOUS
<1>1. ASSUME NEW s \in Runs PROVE PlansOf(s)'
  <2>0. PlansOf(s)
    BY DEF PlanInv, PlansOf, PlansUndisturbed
  <2>1. CASE UNCHANGED <<pc[s], phase[s], answered[s], failed[s], plan>>
    BY <2>0, <2>1 DEF PlansOf, Group, Id
  <2>2. ASSUME NEW r \in Runs, Moves(r), r # s
        PROVE  UNCHANGED <<pc[s], phase[s], answered[s], failed[s], plan>>
    BY <2>2 DEF Moves, Quiet, Opens, Advances, Fails, Ends, Hears, Goes
  <2>3. ASSUME NEW v \in Workers, Plays(v) PROVE PlansOf(s)'
    <3>1. \A w \in Workers : plan'[w] = plan[w]
      BY <2>3 DEF Plays, Becomes
    <3>2. UNCHANGED <<pc[s], phase[s], answered[s], failed[s]>>
      BY <2>3 DEF Plays, runVars
    <3>3. /\ answered[s] \subseteq Workers
          /\ pc[s] \in {"starting"} \cup Waiting => Group(s) \subseteq Workers
      BY GroupTakesPart, PhaseFacts DEF TypeOK, Gathering, Waiting
    <3> QED
      BY <2>0, <3>1, <3>2, <3>3 DEF PlansOf, Group, Id
  <2>4. CASE Rests
    BY <2>1, <2>4 DEF Rests, Quiet, runVars
  <2>5. StepKind
    BY StepKinds
  <2> QED
    BY <2>0, <2>1, <2>2, <2>3, <2>4, <2>5, PlansOfMoves, PlansOfCalls DEF StepKind
<1> QED
  BY <1>1 DEF PlanInv, PlansOf, PlansUndisturbed

-----------------------------------------------------------------------------
(* Motion. *)

\* Run q is under way and has not stopped worker w.
Drives(q, w) ==
    /\ q \in Runs /\ pc[q] # "idle" /\ w \in Participants(q)
    /\ ~(pc[q] \in {"stopping", "failing"} /\ w \in answered[q])

\* It stays so, whatever run moves, unless a safe stop is cancelled.
LEMMA DrivesMoves ==
    ASSUME StopIsLeftAlone, NEW r \in Runs, Moves(r), NEW q, NEW w, Drives(q, w)
    PROVE  Drives(q, w)'
<1>1. CASE q # r
  <2>1. UNCHANGED <<pc[q], answered[q]>>
    BY <1>1 DEF Moves, Opens, Advances, Fails, Ends, Hears, Goes, Drives
  <2> QED
    BY <2>1 DEF Drives
<1>2. CASE q = r
  <2>1. ~Opens(r)
    BY <1>2 DEF Opens, Drives
  <2>2. ~Ends(r)
    BY <1>2 DEF Ends, EndsWith, AllAnswered, Group, Drives, StopIsLeftAlone
  <2>3. CASE Advances(r)
    <3>1. PICK type, at, k : Leg(r, type, at, k) /\ Goes(r, Append(journal[r], type), at, k, {}, FALSE)
      BY <2>3 DEF Advances
    <3>2. pc'[r] = at /\ answered'[r] = {}
      BY <3>1 DEF Goes
    <3>3. at # "idle"
      BY <3>1 DEF Leg
    <3> QED
      BY <1>2, <3>2, <3>3 DEF Drives
  <2>4. CASE Fails(r)
    <3>1. pc'[r] = "failing" /\ answered'[r] = {}
      BY <2>4 DEF Fails, Goes
    <3> QED
      BY <1>2, <3>1 DEF Drives
  <2>5. CASE Hears(r)
    <3>1. UNCHANGED pc[r] /\ pc[r] \in Waiting
      BY <2>5 DEF Hears, Goes
    <3> QED
      BY <1>2, <3>1 DEF Drives, Waiting
  <2> QED
    BY <2>1, <2>2, <2>3, <2>4, <2>5 DEF Moves
<1> QED
  BY <1>1, <1>2

\* What MotionInv says of one worker.
MotionOf(w) ==
    /\ task[w] => status[w] \in {"scheduled", "running"}
    /\ status[w] \in {"prepared", "scheduled", "running"} => Drives(plan[w].run, w)

\* A call keeps it.
LEMMA MotionOfCalls ==
    ASSUME TypeOK, GroupInv, NEW r \in Runs, NEW v \in Workers, Calls(r, v),
           NEW w \in Workers, MotionOf(w)
    PROVE  MotionOf(w)'
<1>1. PICK ok \in BOOLEAN :
        /\ Goes(r, journal[r], pc[r], phase[r], answered[r] \cup {v}, failed[r] \/ ~ok)
        /\ Effect(r, v, ok)
  BY DEF Calls
<1>2. \A q \in Runs : /\ UNCHANGED pc[q]
                      /\ answered'[q] = IF q = r THEN answered[q] \cup {v} ELSE answered[q]
  BY <1>1 DEF Goes
<1>3. pc[r] # "idle" /\ v \in Participants(r)
  BY GroupTakesPart DEF Calls, Gathering
<1>4. ASSUME NEW q, Drives(q, w), v # w \/ pc[r] \notin {"stopping", "failing"}
      PROVE  Drives(q, w)'
  BY <1>2, <1>4 DEF Drives
<1>5. CASE v # w
  <2>1. UNCHANGED <<status[w], plan[w], task[w]>>
    BY <1>1, <1>5 DEF Effect, Becomes
  <2> QED
    BY <1>4, <1>5, <2>1 DEF MotionOf
<1>6. CASE v = w
  <2>1. CASE status[w] \notin {"scheduled", "running"} /\ Becomes(w, "disabled", NoPlan, task[w])
    BY <2>1 DEF Becomes, MotionOf
  <2>2. CASE /\ pc[r] = "preparing" /\ Becomes(w, "prepared", Id(r), task[w])
             /\ status[w] \in {"disabled", "stopped", "prepared", "completed"}
    <3>1. status'[w] = "prepared" /\ plan'[w].run = r /\ task'[w] = task[w]
      BY <2>2 DEF Becomes, Id
    <3>2. ~task[w]
      BY <2>2 DEF MotionOf
    <3>3. Drives(r, w)
      BY <1>3, <1>6, <2>2 DEF Drives
    <3> QED
      BY <1>4, <2>2, <3>1, <3>2, <3>3 DEF MotionOf
  <2>3. CASE pc[r] = "starting" /\ status[w] = "prepared" /\ Becomes(w, "scheduled", plan[w], TRUE)
    <3>1. status'[w] = "scheduled" /\ plan'[w] = plan[w]
      BY <2>3 DEF Becomes
    <3>2. Drives(plan[w].run, w)
      BY <2>3 DEF MotionOf
    <3> QED
      BY <1>4, <2>3, <3>1, <3>2 DEF MotionOf
  <2>4. CASE /\ pc[r] \in {"disabling", "preparing", "starting"}
             /\ Becomes(w, status[w], plan[w], task[w])
    <3>1. UNCHANGED <<status[w], plan[w], task[w]>>
      BY <2>4 DEF Becomes
    <3> QED
      BY <1>4, <2>4, <3>1 DEF MotionOf
  <2>5. CASE Becomes(w, "stopped", plan[w], FALSE)
    BY <2>5 DEF Becomes, MotionOf
  <2> QED
    BY <1>1, <1>6, <2>1, <2>2, <2>3, <2>4, <2>5 DEF Effect
<1> QED
  BY <1>5, <1>6

\* Every step leaves motion with the runs that are under way.
LEMMA MotionNext ==
    ASSUME StopIsLeftAlone
    PROVE  TypeOK /\ GroupInv /\ MotionInv /\ [Next]_vars => MotionInv'
<1> SUFFICES ASSUME TypeOK, GroupInv, MotionInv, [Next]_vars PROVE MotionInv'
  OBVIOUS
<1>1. ASSUME NEW w \in Workers PROVE MotionOf(w)'
  <2>0. MotionOf(w)
    BY DEF MotionInv, MotionOf, Drives
  <2>1. ASSUME NEW r \in Runs, Moves(r) PROVE MotionOf(w)'
    <3>1. UNCHANGED <<status, plan>> /\ (task'[w] => task[w])
      BY <2>1 DEF Moves, Quiet
    <3> QED
      BY <2>0, <2>1, <3>1, DrivesMoves DEF MotionOf
  <2>2. ASSUME NEW q, UNCHANGED runVars, Drives(q, w) PROVE Drives(q, w)'
    BY <2>2 DEF runVars, Drives
  <2>3. ASSUME NEW v \in Workers, Plays(v) PROVE MotionOf(w)'
    <3>1. PICK st \in {"running", "completed"}, t \in BOOLEAN :
              Becomes(v, st, plan[v], t) /\ (t => st = "running")
      BY <2>3 DEF Plays
    <3>2. /\ status'[w] = IF w = v THEN st ELSE status[w]
          /\ plan'[w] = plan[w]
          /\ task'[w] = IF w = v THEN t ELSE task[w]
      BY <3>1 DEF Becomes
    <3>3. w = v => status[w] \in {"scheduled", "running"}
      BY <2>3 DEF Plays
    <3>4. UNCHANGED runVars
      BY <2>3 DEF Plays
    <3> QED
      BY <2>0, <2>2, <3>1, <3>2, <3>3, <3>4 DEF MotionOf
  <2>4. CASE Rests
    <3>1. UNCHANGED <<status, plan, runVars>> /\ (task'[w] => task[w])
      BY <2>4 DEF Rests, Quiet
    <3> QED
      BY <2>0, <2>2, <3>1 DEF MotionOf
  <2>5. StepKind
    BY StepKinds
  <2> QED
    BY <2>0, <2>1, <2>3, <2>4, <2>5, MotionOfCalls DEF StepKind
<1> QED
  BY <1>1 DEF MotionInv, MotionOf, Drives

-----------------------------------------------------------------------------
(* Theorems. *)

RunInv == TypeOK /\ LeaseInv /\ GroupInv /\ ScriptInv /\ BarrierInv /\ SafeInv

\* At the beginning no run is under way and every worker is in safe idle.
LEMMA RunInvInit == Init => RunInv /\ PlanInv /\ MotionInv
<1> SUFFICES ASSUME Init PROVE RunInv /\ PlanInv /\ MotionInv
  OBVIOUS
<1>0. /\ status = [w \in Workers |-> "created"] /\ plan = [w \in Workers |-> NoPlan]
      /\ task = [w \in Workers |-> FALSE] /\ queue = [w \in Workers |-> << >>]
      /\ done = [w \in Workers |-> {}] /\ journal = [r \in Runs |-> << >>]
      /\ pc = [r \in Runs |-> "idle"] /\ phase = [r \in Runs |-> 0]
      /\ answered = [r \in Runs |-> {}] /\ failed = [r \in Runs |-> FALSE]
  BY DEF Init, WorkerInit
<1>1. TablesInv /\ grants = [r \in Runs |-> NoGrant]
  BY ProgramAssumption, WorkerAssumption
     DEF Init, Lease!Init, TablesInv, Lease!TypeOK, Lease!OwnersMatchGrants
<1>2. TypeOK
  <2>1. Lease!TypeOK
    BY <1>1 DEF TablesInv
  <2>2. << >> \in Seq(JournalTypes) /\ << >> \in Seq(Event) /\ Len(<< >>) = 0 /\ NoPlan \in Identity
    BY DEF NoPlan, Identity
  <2>3. WorkerTypeOK
    BY <1>0, <2>2, WorkerAssumption DEF WorkerTypeOK, Event, Statuses
  <2>4. RunTypeOK
    BY <1>0, <2>2 DEF RunTypeOK
  <2> QED
    BY <2>1, <2>3, <2>4 DEF TypeOK, RunTypeOK
<1>3. LeaseInv
  BY <1>0, <1>1 DEF LeaseInv
<1>4. GroupInv
  <2>1. \A r \in Runs : phase[r] = 0 /\ pc[r] = "idle" /\ answered[r] = {}
    BY <1>0
  <2>2. ASSUME NEW r \in Runs PROVE 0 <= Len(Phases[r])
    <3>1. Len(Phases[r]) \in Nat
      BY PhaseFacts
    <3> QED
      BY <3>1
  <2> QED
    BY <2>1, <2>2 DEF GroupInv, Waiting
<1>5. ScriptInv
  BY <1>0 DEF ScriptInv, JournalTellsOneRun
<1>6. BarrierInv
  <2>1. Len(<< >>) = 0 /\ NoPlan.run = NoRun /\ NoPlan.phase = 0
    BY DEF NoPlan
  <2>2. \A w \in Workers : plan[w] = NoPlan /\ queue[w] = << >>
    BY <1>0
  <2>3. \A w \in Workers : plan[w].run = NoRun /\ plan[w].phase = 0 /\ Len(queue[w]) = 0
    BY <2>1, <2>2
  <2>4. \A r \in Runs : phase[r] = 0 /\ pc[r] = "idle" /\ journal[r] = << >>
    BY <1>0
  <2>5. \A r \in Runs : Len(journal[r]) = 0
    BY <2>1, <2>4, Zenon
  <2>6. CompletedMeansPlayed
    BY <2>5 DEF CompletedMeansPlayed
  <2> QED
    BY <2>3, <2>4, <2>6, WorkerAssumption DEF BarrierInv
<1>7. SafeInv /\ PlanInv /\ MotionInv
  BY <1>0 DEF SafeInv, PlanInv, PlansUndisturbed, MotionInv, Waiting
<1> QED
  BY <1>2, <1>3, <1>4, <1>5, <1>6, <1>7 DEF RunInv

\* The inductive invariant of the orchestrator: leases are with the runs under way, journals on
\* script, plans not ahead of their runs, and whoever is not in safe idle is still to be stopped.
THEOREM OrchestratorInvariant == Spec => []RunInv
<1>1. RunInv /\ [Next]_vars => RunInv'
  BY TypeNext, LeaseNext, GroupNext, ScriptNext, BarrierNext, SafeNext DEF RunInv, LeaseInv
<1> QED
  BY <1>1, RunInvInit, PTL DEF Spec

\* Every variable of the orchestrator and its workers has its type, and an event queue never
\* grows beyond its limit.
THEOREM OrchestratorTypes == Spec => []TypeOK
<1>1. RunInv => TypeOK
  BY DEF RunInv
<1> QED
  BY <1>1, OrchestratorInvariant, PTL

\* _record writes the events of a run in the order of the protocol, whatever fails and whoever
\* cancels: a terminal event is the last one and run.completed stands behind the last phase.
THEOREM JournalsTellOneRun == Spec => []JournalTellsOneRun
<1>1. RunInv => JournalTellsOneRun
  BY DEF RunInv, ScriptInv
<1> QED
  BY <1>1, OrchestratorInvariant, PTL

\* No worker is scheduled for a phase before all workers of the earlier phases have played
\* theirs: late, lost and foreign events cannot let a run pass the barrier.
THEOREM BarrierHolds == Spec => []PhaseBarrier
<1>1. RunInv => PhaseBarrier
  <2> SUFFICES ASSUME RunInv, NEW w \in Workers, NEW k \in 1 .. plan[w].phase - 1,
                      NEW v \in Phases[plan[w].run][k]
               PROVE  [run |-> plan[w].run, phase |-> k] \in done[v]
    BY DEF PhaseBarrier
  <2>1. plan[w].run \in Runs \cup {NoRun} /\ plan[w].phase \in Nat
    BY DEF RunInv, TypeOK, WorkerTypeOK, Identity
  <2>2. plan[w].run \in Runs /\ plan[w].phase <= phase[plan[w].run]
    BY <2>1 DEF RunInv, BarrierInv
  <2>3. phase[plan[w].run] \in Nat
    BY <2>2 DEF RunInv, TypeOK
  <2>4. k \in 1 .. phase[plan[w].run] - 1
    BY <2>1, <2>2, <2>3
  <2>5. Played(plan[w].run, k, done)
    BY <2>2, <2>4 DEF RunInv, BarrierInv
  <2> QED
    BY <2>5 DEF Played
<1> QED
  BY <1>1, OrchestratorInvariant, PTL

\* run.completed is recorded only for a program that every worker has played in full.
THEOREM CompletedRunsWerePlayed == Spec => []CompletedMeansPlayed
<1>1. RunInv => CompletedMeansPlayed
  BY DEF RunInv, BarrierInv
<1> QED
  BY <1>1, OrchestratorInvariant, PTL

\* Once all runs of a worker are closed it is in safe idle, whatever calls failed, whatever was
\* cancelled and whether or not runs shared the worker.
THEOREM ClosedRunsLeaveSafeIdle == Spec => []SafeIdle
<1>1. RunInv => SafeIdle
  <2> SUFFICES ASSUME RunInv, NEW w \in Workers, status[w] \notin {"created", "stopped"}
               PROVE  \E r \in Runs : w \in Participants(r) /\ ~Closed(r)
    BY DEF SafeIdle, RunInv, TypeOK, WorkerTypeOK
  <2>1. PICK r \in Runs : Owes(r, w)
    BY DEF RunInv, SafeInv
  <2>2. grants[r] = NoGrant => pc[r] = "idle"
    BY ProgramAssumption DEF RunInv, LeaseInv
  <2> QED
    BY <2>1, <2>2 DEF Owes, Closed
<1> QED
  BY <1>1, OrchestratorInvariant, PTL

\* If the lock requirements of runs that share a worker meet, a worker keeps the plan it was
\* prepared with until the end of the phase.
THEOREM PlansAreUndisturbed ==
    ASSUME SharedIsLeased
    PROVE  Spec => []PlansUndisturbed
<1>1. RunInv /\ PlanInv /\ [Next]_vars => PlanInv'
  BY PlanNext DEF RunInv
<1>2. PlanInv => PlansUndisturbed
  BY DEF PlanInv
<1> QED
  BY <1>1, <1>2, RunInvInit, OrchestratorInvariant, PTL DEF Spec

\* If nobody cancels the safe stop of a failed run, a worker moves only for a run that holds its
\* lease.
THEOREM MotionStaysLeased ==
    ASSUME StopIsLeftAlone
    PROVE  Spec => []MotionIsLeased
<1>1. RunInv /\ MotionInv /\ [Next]_vars => MotionInv'
  BY MotionNext DEF RunInv
<1>2. RunInv /\ MotionInv => MotionIsLeased
  <2> SUFFICES ASSUME RunInv, MotionInv, NEW w \in Workers, task[w]
               PROVE  plan[w].run \in Runs /\ grants[plan[w].run] # NoGrant
    BY DEF MotionIsLeased
  <2>1. plan[w].run \in Runs /\ pc[plan[w].run] # "idle"
    BY DEF MotionInv
  <2> QED
    BY <2>1, ProgramAssumption DEF RunInv, LeaseInv
<1> QED
  BY <1>1, <1>2, RunInvInit, OrchestratorInvariant, PTL DEF Spec
=============================================================================
