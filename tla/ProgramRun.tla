----------------------------- MODULE ProgramRun -----------------------------
(***************************************************************************)
(* The v1 robot server (robot_server.py): one ProgramController, the runs  *)
(* its connections open, the execution thread of each run, the watchdog,   *)
(* stop requests from any connection, and the shutdown of the process.     *)
(*                                                                         *)
(* The event loop handles one message at a time and every handler takes    *)
(* the run's lock, so a handler is one action.  The execution thread is    *)
(* cut where another thread can be seen by it or can see it: at each       *)
(* acquisition of the lock, each read of stop_event and each call into the *)
(* motor backend.  pc[r] names its position.                               *)
(*                                                                         *)
(* Joint vectors are one integer, times are integers in arbitrary units.   *)
(***************************************************************************)
EXTENDS Integers, Sequences

CONSTANTS
    Runs,           \* the runs clients may open, one connection each
    NoRun,          \* "no run": the controller's None
    Chunks,         \* chunk payloads clients may send: sequences of points
    RunConfigs,     \* open_run parameters that pass its validation
    Poses,          \* poses the encoders may report
    JointMin,       \* SafetyPolicy.joint_min_deg
    JointMax,       \* SafetyPolicy.joint_max_deg
    MaxRelative,    \* SafetyPolicy.max_relative_deg
    MaxVelocity,    \* SafetyPolicy.max_velocity_deg_s
    MaxAcceleration,\* SafetyPolicy.max_acceleration_deg_s2
    MinSegment,     \* SafetyPolicy.min_segment_us
    MaxChunkPoints, \* SafetyPolicy.max_chunk_points
    MaxPoints,      \* SafetyPolicy.max_points
    MaxDuration,    \* SafetyPolicy.max_duration_us
    MaxHorizon,     \* SafetyPolicy.max_horizon_us
    StartBuffer,    \* SafetyPolicy.start_buffer_us
    StartTolerance, \* SafetyPolicy.start_tolerance_deg
    TrackingLimit,  \* consecutive tracking violations that fault (5)
    MaxCycle,       \* longest time between two control cycles
    SignalPaths     \* how a signal arrives: by the handler of run_server, or, where
                    \* add_signal_handler is not supported, as an interrupt

Point == [t : Nat, q : Int]

RunConfig == [mode : {"sealed", "streaming"},
              policy : {"stop_after_timeout", "complete_if_sealed"},
              coord : {"relative_deg", "absolute_deg"},
              declared : Seq(Point)]

ASSUME RunAssumption == NoRun \notin Runs
ASSUME InputAssumption ==
    /\ Chunks \subseteq Seq(Point)
    /\ RunConfigs \subseteq RunConfig
    /\ \A c \in RunConfigs :
          c.policy = "complete_if_sealed" => c.mode = "sealed"
    /\ Poses \subseteq Int
ASSUME PolicyAssumption ==
    /\ JointMin \in Int /\ JointMax \in Int
    /\ MaxRelative \in Nat /\ MaxVelocity \in Nat /\ MaxAcceleration \in Nat
    /\ MaxChunkPoints \in Nat /\ MaxPoints \in Nat /\ MaxDuration \in Nat
    /\ MaxHorizon \in Nat /\ StartBuffer \in Nat /\ StartTolerance \in Nat
    /\ MinSegment \in Nat \ {0} /\ TrackingLimit \in Nat \ {0}
    /\ MaxCycle \in Nat \ {0}
ASSUME PlatformAssumption == SignalPaths \subseteq {"handler", "interrupt"}

VARIABLES
    active,     \* ProgramController.active
    config,     \* what the run was (or will be) opened with
    conn,       \* conn[r]: the connection that opened r is still open
    state,      \* ProgramRun.state, "unopened" before open_run
    points,     \* ProgramRun.points
    receipts,   \* ProgramRun.chunk_receipts, in sequence order
    final,      \* ProgramRun.final_received
    cursor,     \* ProgramRun.cursor_us, as published under the lock
    stop,       \* ProgramRun.stop_event
    stale,      \* last_heartbeat is older than heartbeat_timeout_s
    origin,     \* ProgramRun.origin_q
    pc,         \* position of the execution thread
    now,        \* the thread's now - started
    viol,       \* the thread's tracking_violations
    code,       \* the thread's pending outcome and code
    held,       \* ProgramRun.torque_enabled, the thread's own flag
    ports,      \* runs whose backend holds the serial port
    energized,  \* the run that last switched motor torque on, or NoRun
    goal,       \* Goal_Position registers: a trajectory target or a pose
    stuck,      \* the run whose torque is on because close() failed
    leaked,     \* runs whose port close() failed to close
    late,       \* trajectory targets sent since a stop or a dead heartbeat
    server,     \* life of the process
    gaveUp      \* wait_for_idle timed out at shutdown

runVars    == <<config, conn, state, points, receipts, final, cursor, stop,
                stale, origin>>
threadVars == <<pc, now, viol, code, held, late>>
motorVars  == <<ports, energized, goal, stuck, leaked>>
serverVars == <<active, server, gaveUp>>
vars       == <<runVars, threadVars, motorVars, serverVars>>

-----------------------------------------------------------------------------
(* States and small predicates. *)

TerminalStates == {"completed", "stopped", "faulted"}
RunStates == {"unopened", "buffering", "arming", "running"} \cup TerminalStates
Codes == {"NONE", "CANCELLED", "HEARTBEAT_LOST", "BUFFER_UNDERRUN",
          "TRACKING_ERROR", "OTHER"}
ThreadPositions == {"none", "connect", "origin", "validate", "gate", "enable",
                    "run", "check", "drive", "publish", "hold", "close",
                    "settle", "ended"}

Alive == server # "exited"
Listening == server \in {"serving", "stopping", "interrupted"}

\* No run owns the robot.
Idle == active # NoRun => state[active] \in TerminalStates

Last(s) == s[Len(s)]
LastT(s) == IF s = << >> THEN 0 ELSE Last(s).t
Distance(a, b) == IF a < b THEN b - a ELSE a - b

Pose == [traj |-> FALSE, q |-> 0]
Target(q) == [traj |-> TRUE, q |-> q]

\* The finally clause's outcome: what _execute stores in state.
Outcome(c) == IF c = "NONE" THEN "completed"
              ELSE IF c = "CANCELLED" THEN "stopped" ELSE "faulted"

\* The watchdog is off for a sealed program that opted in to finish alone.
IgnoreHeartbeat(r) == final[r] /\ config[r].policy = "complete_if_sealed"

\* The backend of r has its robot: it has opened the port and not been closed.
Bound(r) == r \in ports \ leaked

\* A target sent now is one that the operator or the watchdog has revoked.
Revoked(r) == stop[r] \/ (stale[r] /\ ~IgnoreHeartbeat(r))

-----------------------------------------------------------------------------
(* Validation of a point: SafetyPolicy and _validate_resolved_position. *)

ValidatePosition(p, coord) ==
    IF coord = "relative_deg"
    THEN Distance(p.q, 0) <= MaxRelative
    ELSE JointMin <= p.q /\ p.q <= JointMax

\* 15/8 and 5.773503 are the peak rates of the quintic profile.
ValidateSegment(a, b) ==
    LET dt == b.t - a.t
        distance == Distance(a.q, b.q)
    IN  /\ dt >= MinSegment
        /\ 15 * distance <= 8 * MaxVelocity * dt
        /\ 5773503 * distance <= 1000000 * MaxAcceleration * dt * dt

\* Without a measured origin a relative point cannot be resolved yet.
ValidateResolved(r, p) ==
    config[r].coord = "relative_deg" /\ origin[r].known =>
        /\ JointMin <= origin[r].q + p.q
        /\ origin[r].q + p.q <= JointMax

Resolve(r, q) ==
    IF config[r].coord = "relative_deg" THEN origin[r].q + q ELSE q

ValidFirst(p, coord) ==
    p.t = 0 /\ (coord = "relative_deg" => p.q = 0)

\* Faulty variant of ValidExtension: previous starts as None in every chunk.
ValidWithinChunk(r, chunk) ==
    \A i \in 1 .. Len(chunk) :
        /\ IF i = 1 THEN points[r] = << >> => ValidFirst(chunk[i], config[r].coord)
                    ELSE ValidateSegment(chunk[i - 1], chunk[i])
        /\ ValidatePosition(chunk[i], config[r].coord)
        /\ ValidateResolved(r, chunk[i])

\* The loop of append_chunk over the new points, previous point included.
ValidExtension(r, chunk) ==
    LET all == points[r] \o chunk
    IN  \A i \in Len(points[r]) + 1 .. Len(all) :
            /\ IF i = 1 THEN ValidFirst(all[i], config[r].coord)
                        ELSE ValidateSegment(all[i - 1], all[i])
            /\ ValidatePosition(all[i], config[r].coord)
            /\ ValidateResolved(r, all[i])

\* Positions interpolate_quintic may return between a and b at time t.
Interpolate(a, b, t) ==
    IF t <= a.t THEN {a.q}
    ELSE IF t >= b.t THEN {b.q} ELSE (a.q .. b.q) \cup (b.q .. a.q)

-----------------------------------------------------------------------------
(* Messages of a connection. *)

\* open_run: one run per connection, one non-terminal run per robot.
OpenRun(r) ==
    /\ Listening
    /\ state[r] = "unopened"
    /\ Idle
    /\ active' = r
    /\ conn' = [conn EXCEPT ![r] = TRUE]
    /\ state' = [state EXCEPT ![r] = "buffering"]
    /\ UNCHANGED <<config, points, receipts, final, cursor, stop, stale, origin,
                   threadVars, motorVars, server, gaveUp>>

\* Faulty variant of WithinHorizon: the chunk alone is measured.
ChunkWithinHorizon(r, chunk) ==
    config[r].mode = "streaming" => LastT(chunk) - LastT(points[r]) <= MaxHorizon

\* The bounded lookahead of a streaming run (QUEUE_FULL, retryable).
WithinHorizon(r, chunk) ==
    config[r].mode = "streaming" => LastT(chunk) - cursor[r] <= MaxHorizon

\* Faulty variant of DigestMatches: the final chunk is taken on faith.
DigestUnchecked(r, chunk) == TRUE

\* program_digest over the accepted points against the one given to open_run.
DigestMatches(r, chunk) == points[r] \o chunk = config[r].declared

\* What append_chunk requires of a chunk, up to the program digest.
Appendable(r, seq, chunk, last) ==
    /\ Listening /\ conn[r]
    /\ seq = Len(receipts[r])
    /\ state[r] \in {"buffering", "running"} /\ ~final[r]
    /\ Len(chunk) \in 1 .. MaxChunkPoints
    /\ ValidExtension(r, chunk)
    /\ Len(points[r]) + Len(chunk) <= MaxPoints
    /\ LastT(chunk) <= MaxDuration
    /\ last => Len(points[r]) + Len(chunk) >= 2
    /\ WithinHorizon(r, chunk)

\* Faulty variant of AppendChunk: no roll-back after a wrong program digest.
AppendChunkNoRollback(r, seq, chunk, last) ==
    /\ Appendable(r, seq, chunk, last)
    /\ points' = [points EXCEPT ![r] = @ \o chunk]
    /\ IF last /\ ~DigestMatches(r, chunk)
       THEN UNCHANGED <<final, receipts>>
       ELSE /\ final' = [final EXCEPT ![r] = last]
            /\ receipts' = [receipts EXCEPT ![r] =
                              Append(@, [chunk |-> chunk, final |-> last,
                                         upto |-> Len(points[r]) + Len(chunk)])]
    /\ UNCHANGED <<config, conn, state, cursor, stop, stale, origin,
                   threadVars, motorVars, serverVars>>

\* append_chunk accepting a new chunk.  Every refusal, the roll-back after a
\* wrong program digest included, and every resend of an accepted chunk leave
\* the run as it was.
AppendChunk(r, seq, chunk, last) ==
    /\ Appendable(r, seq, chunk, last)
    /\ last => DigestMatches(r, chunk)
    /\ points' = [points EXCEPT ![r] = @ \o chunk]
    /\ final' = [final EXCEPT ![r] = last]
    /\ receipts' = [receipts EXCEPT ![r] =
                      Append(@, [chunk |-> chunk, final |-> last,
                                 upto |-> Len(points[r]) + Len(chunk)])]
    /\ UNCHANGED <<config, conn, state, cursor, stop, stale, origin,
                   threadVars, motorVars, serverVars>>

\* Faulty variant of ReadyToStart: the rule of streaming serves both modes.
ReadyWhenBuffered(r) ==
    /\ Len(points[r]) >= 2
    /\ ~final[r] => LastT(points[r]) >= StartBuffer

ReadyToStart(r) ==
    /\ Len(points[r]) >= 2
    /\ config[r].mode = "sealed" => final[r]
    /\ config[r].mode = "streaming" /\ ~final[r] => LastT(points[r]) >= StartBuffer

\* start: the thread begins under the run's lock.
StartRun(r) ==
    /\ Listening /\ conn[r]
    /\ state[r] = "buffering"
    /\ ReadyToStart(r)
    /\ state' = [state EXCEPT ![r] = "arming"]
    /\ pc' = [pc EXCEPT ![r] = "connect"]
    /\ UNCHANGED <<config, conn, points, receipts, final, cursor, stop, stale,
                   origin, now, viol, code, held, late, motorVars, serverVars>>

Heartbeat(r) ==
    /\ Listening /\ conn[r]
    /\ stale' = [stale EXCEPT ![r] = FALSE]
    /\ late' = [late EXCEPT ![r] = IF stop[r] THEN @ ELSE 0]
    /\ UNCHANGED <<config, conn, state, points, receipts, final, cursor, stop,
                   origin, pc, now, viol, code, held, motorVars, serverVars>>

\* Time passes without a heartbeat: the age passes heartbeat_timeout_s (nobody
\* looks at the age of a terminal run).
HeartbeatExpires(r) ==
    /\ Alive
    /\ state[r] \in {"buffering", "arming", "running"}
    /\ ~stale[r]
    /\ stale' = [stale EXCEPT ![r] = TRUE]
    /\ UNCHANGED <<config, conn, state, points, receipts, final, cursor, stop,
                   origin, threadVars, motorVars, serverVars>>

\* request_stop: the event is set whatever the state.
RequestStop(r) == stop' = [stop EXCEPT ![r] = TRUE]

Cancel(r) ==
    /\ Listening /\ conn[r]
    /\ RequestStop(r)
    /\ UNCHANGED <<config, conn, state, points, receipts, final, cursor, stale,
                   origin, threadVars, motorVars, serverVars>>

\* emergency_stop, from any authenticated connection.
EmergencyStop ==
    /\ Listening
    /\ active # NoRun
    /\ RequestStop(active)
    /\ UNCHANGED <<config, conn, state, points, receipts, final, cursor, stale,
                   origin, threadVars, motorVars, serverVars>>

\* Faulty variant of ConnectionLost: only a run with a thread is told to stop.
ConnectionLostKeepsBuffer(r) ==
    /\ Listening /\ conn[r]
    /\ conn' = [conn EXCEPT ![r] = FALSE]
    /\ stop' = [stop EXCEPT ![r] = @ \/ state[r] = "arming"]
    /\ UNCHANGED <<config, state, points, receipts, final, cursor, stale, origin,
                   threadVars, motorVars, serverVars>>

\* The connection ends: connection_handler's finally runs connection_lost.
ConnectionLost(r) ==
    /\ Listening /\ conn[r]
    /\ conn' = [conn EXCEPT ![r] = FALSE]
    /\ state' = [state EXCEPT ![r] = IF @ = "buffering" THEN "stopped" ELSE @]
    /\ stop' = [stop EXCEPT ![r] = @ \/ state[r] = "arming"]
    /\ UNCHANGED <<config, points, receipts, final, cursor, stale, origin,
                   threadVars, motorVars, serverVars>>

-----------------------------------------------------------------------------
(* The execution thread: arming. *)

\* The thread moves from one position to the next.
Step(r, from, to) ==
    /\ Alive
    /\ pc[r] = from
    /\ pc' = [pc EXCEPT ![r] = to]

\* A break or an exception: the code is recorded, the finally clause is next.
Leave(r, from, c) ==
    /\ Step(r, from, "hold")
    /\ code' = [code EXCEPT ![r] = c]

\* SO101Backend.close: disable_torque, then disconnect.  Either may fail without
\* effect, which is logged, and the other is tried all the same.
GiveBack(r, opened) ==
    \E disabled, disconnected \in BOOLEAN :
        /\ energized' = IF disabled THEN NoRun ELSE energized
        /\ stuck' = IF disabled THEN {} ELSE {energized} \ {NoRun}
        /\ ports' = IF disconnected THEN opened \ {r} ELSE opened
        /\ leaked' = IF disconnected THEN leaked ELSE leaked \cup {r}

\* backend_factory and prepare_disabled: the port is opened, torque switched
\* off and the stale goal overwritten, though the measured pose may be no pose;
\* or one of these calls raises, and prepare_disabled closes what it opened.
Connect(r) ==
    /\ \/ /\ \/ Step(r, "connect", "origin") /\ UNCHANGED code
             \/ Leave(r, "connect", "OTHER")
          /\ ports' = ports \cup {r}
          /\ energized' = NoRun
          /\ goal' = Pose
          /\ stuck' = {}
          /\ UNCHANGED leaked
       \/ /\ Leave(r, "connect", "OTHER")
          /\ GiveBack(r, ports \cup {r}) \/ UNCHANGED <<ports, energized, stuck, leaked>>
          /\ goal' \in {goal, Pose}
    /\ UNCHANGED <<runVars, now, viol, held, late, serverVars>>

\* Under the lock: the origin is published and the points are copied.
SetOrigin(r, pose) ==
    /\ Step(r, "origin", "validate")
    /\ origin' = [origin EXCEPT ![r] = [known |-> TRUE, q |-> pose]]
    /\ UNCHANGED <<config, conn, state, points, receipts, final, cursor, stop,
                   stale, now, viol, code, held, late, motorVars, serverVars>>

\* Faulty variant of StartPoseValid: relative points are not resolved again.
StartPoseOnly(r) ==
    config[r].coord = "absolute_deg" =>
        Distance(points[r][1].q, origin[r].q) <= StartTolerance

\* The start pose (absolute) or every resolved point (relative) is checked.
StartPoseValid(r) ==
    IF config[r].coord = "absolute_deg"
    THEN Distance(points[r][1].q, origin[r].q) <= StartTolerance
    ELSE \A i \in 1 .. Len(points[r]) : ValidateResolved(r, points[r][i])

Validate(r) ==
    /\ pc[r] = "validate"
    /\ IF StartPoseValid(r)
       THEN Step(r, "validate", "gate") /\ UNCHANGED code
       ELSE Leave(r, "validate", "OTHER")
    /\ UNCHANGED <<runVars, now, viol, held, late, motorVars, serverVars>>

\* The last look at stop_event before torque.
Gate(r) ==
    /\ IF stop[r]
       THEN Leave(r, "gate", "CANCELLED")
       ELSE Step(r, "gate", "enable") /\ UNCHANGED code
    /\ UNCHANGED <<runVars, now, viol, held, late, motorVars, serverVars>>

\* enable_at_current: write the measured pose as goal, then switch torque on.
Enable(r) ==
    \/ /\ Step(r, "enable", "run")
       /\ energized' = r
       /\ goal' = Pose
       /\ UNCHANGED <<runVars, now, viol, code, held, late, ports, stuck, leaked, serverVars>>
    \/ /\ Leave(r, "enable", "OTHER")
       /\ energized' \in {energized, r}
       /\ goal' \in {goal, Pose}
       /\ UNCHANGED <<runVars, now, viol, held, late, ports, stuck, leaked, serverVars>>

BeginRunning(r) ==
    /\ Step(r, "run", "check")
    /\ held' = [held EXCEPT ![r] = TRUE]
    /\ state' = [state EXCEPT ![r] = "running"]
    /\ UNCHANGED <<config, conn, points, receipts, final, cursor, stop, stale,
                   origin, now, viol, code, late, motorVars, serverVars>>

-----------------------------------------------------------------------------
(* The execution thread: the control loop. *)

\* Faulty variant of Check: the watchdog is not consulted.
CheckStopOnly(r) ==
    /\ \/ stop[r] /\ Leave(r, "check", "CANCELLED")
       \/ ~stop[r] /\ Step(r, "check", "drive") /\ UNCHANGED code
    /\ UNCHANGED <<runVars, now, viol, held, late, motorVars, serverVars>>

\* Top of a cycle: stop_event, then the watchdog under the lock.
Check(r) ==
    /\ \/ stop[r] /\ Leave(r, "check", "CANCELLED")
       \/ /\ ~stop[r] /\ Revoked(r)
          /\ Leave(r, "check", "HEARTBEAT_LOST")
       \/ /\ ~Revoked(r)
          /\ Step(r, "check", "drive")
          /\ UNCHANGED code
    /\ UNCHANGED <<runVars, now, viol, held, late, motorVars, serverVars>>

\* send_q writes a trajectory target to the goal registers.
Command(r, q) ==
    /\ late' = [late EXCEPT ![r] = IF Revoked(r) THEN @ + 1 ELSE @]
    /\ goal' = Target(Resolve(r, q))

\* The copied buffer has run out: the last point ends a complete program, and
\* an incomplete one faults.
PlayedOut(r) == now[r] > LastT(points[r])

Finish(r) ==
    /\ PlayedOut(r) /\ final[r]
    /\ Command(r, Last(points[r]).q)
    /\ \/ /\ Leave(r, "drive", "NONE")
          /\ cursor' = [cursor EXCEPT ![r] = LastT(points[r])]
       \/ /\ Leave(r, "drive", "OTHER")
          /\ UNCHANGED cursor
    /\ UNCHANGED <<config, conn, state, points, receipts, final, stop, stale,
                   origin, now, viol, held, ports, energized, stuck, leaked, serverVars>>

Underrun(r) ==
    /\ PlayedOut(r) /\ ~final[r]
    /\ Leave(r, "drive", "BUFFER_UNDERRUN")
    /\ UNCHANGED <<runVars, now, viol, held, late, motorVars, serverVars>>

\* The segment of the cursor: segment_index after its while loop.
InSegment(pts, i, t) == (i = 1 \/ pts[i].t < t) /\ t <= pts[i + 1].t

\* One cycle: read_q, the tracking check, send_q, which may write the registers
\* and still raise.
Drive(r, exceeded) ==
    /\ ~PlayedOut(r)
    /\ exceeded => viol[r] + 1 < TrackingLimit
    /\ viol' = [viol EXCEPT ![r] = IF exceeded THEN @ + 1 ELSE 0]
    /\ \/ Step(r, "drive", "publish") /\ UNCHANGED code
       \/ Leave(r, "drive", "OTHER")
    /\ \E i \in 1 .. Len(points[r]) - 1 :
          /\ InSegment(points[r], i, now[r])
          /\ \E q \in Interpolate(points[r][i], points[r][i + 1], now[r]) :
                Command(r, q)
    /\ UNCHANGED <<runVars, now, held, ports, energized, stuck, leaked, serverVars>>

\* One violation too many in a row.
TrackingFault(r) ==
    /\ ~PlayedOut(r)
    /\ viol[r] + 1 >= TrackingLimit
    /\ viol' = [viol EXCEPT ![r] = @ + 1]
    /\ Leave(r, "drive", "TRACKING_ERROR")
    /\ UNCHANGED <<runVars, now, held, late, motorVars, serverVars>>

\* A backend call of the cycle raises before the registers are written.
BackendFault(r) ==
    /\ ~PlayedOut(r) \/ final[r]
    /\ Leave(r, "drive", "OTHER")
    /\ UNCHANGED <<runVars, now, viol, held, late, motorVars, serverVars>>

\* Faulty variant of Publish: the cycle's own duration is published.
PublishElapsed(r, elapsed) ==
    /\ Step(r, "publish", "check")
    /\ cursor' = [cursor EXCEPT ![r] = elapsed]
    /\ now' = [now EXCEPT ![r] = @ + elapsed]
    /\ UNCHANGED <<config, conn, state, points, receipts, final, stop, stale, code,
                   origin, viol, held, late, motorVars, serverVars>>

\* The cursor is published under the lock; the cycle sleeps, or overran.
Publish(r, elapsed) ==
    /\ \/ Step(r, "publish", "check") /\ UNCHANGED code
       \/ Leave(r, "publish", "OTHER")
    /\ cursor' = [cursor EXCEPT ![r] = now[r]]
    /\ now' = [now EXCEPT ![r] = @ + elapsed]
    /\ UNCHANGED <<config, conn, state, points, receipts, final, stop, stale,
                   origin, viol, held, late, motorVars, serverVars>>

-----------------------------------------------------------------------------
(* The execution thread: the finally clause, hold then disable. *)

\* Faulty variant of Hold: the outcome is announced before the hold.
HoldAfterSettling(r) ==
    /\ Step(r, "hold", "close")
    /\ state' = [state EXCEPT ![r] = Outcome(code[r])]
    /\ UNCHANGED <<config, conn, points, receipts, final, cursor, stop, stale,
                   origin, now, viol, code, held, late, motorVars, serverVars>>

\* _hold_then_close commands the measured pose if torque was enabled; a failure
\* to do so is only logged.
Hold(r) ==
    /\ Step(r, "hold", "close")
    /\ goal' \in IF held[r] THEN {goal, Pose} ELSE {goal}
    /\ UNCHANGED <<runVars, now, viol, code, held, late, ports, energized, stuck,
                   leaked, serverVars>>

\* Faulty variant of Close: only a run that enabled torque closes its backend.
CloseIfHeld(r) ==
    /\ Step(r, "close", "settle")
    /\ held' = [held EXCEPT ![r] = FALSE]
    /\ IF held[r] THEN GiveBack(r, ports) ELSE UNCHANGED <<ports, energized, stuck, leaked>>
    /\ UNCHANGED <<runVars, now, viol, code, late, goal, serverVars>>

\* backend.close, which has nothing to do if the robot was never connected.
Close(r) ==
    /\ Step(r, "close", "settle")
    /\ held' = [held EXCEPT ![r] = FALSE]
    /\ IF Bound(r) THEN GiveBack(r, ports) ELSE UNCHANGED <<ports, energized, stuck, leaked>>
    /\ UNCHANGED <<runVars, now, viol, code, late, goal, serverVars>>

\* Only now is the run terminal, and the robot free for the next one.
Settle(r) ==
    /\ Step(r, "settle", "ended")
    /\ state' = [state EXCEPT ![r] = Outcome(code[r])]
    /\ UNCHANGED <<config, conn, points, receipts, final, cursor, stop, stale,
                   origin, now, viol, code, held, late, motorVars, serverVars>>

-----------------------------------------------------------------------------
(* Shutdown of the process. *)

\* SIGINT or SIGTERM, possibly again: stop what is active, stop serving.
RequestShutdown ==
    /\ "handler" \in SignalPaths
    /\ Alive
    /\ server' = IF server = "serving" THEN "stopping" ELSE server
    /\ stop' = IF active = NoRun THEN stop ELSE [stop EXCEPT ![active] = TRUE]
    /\ UNCHANGED <<config, conn, state, points, receipts, final, cursor, stale,
                   origin, threadVars, motorVars, active, gaveUp>>

\* Without a handler, Ctrl+C cancels "await stop"; a second one ends asyncio.run.
Interrupt ==
    /\ "interrupt" \in SignalPaths
    /\ \/ server = "serving" /\ server' = "interrupted"
       \/ server = "interrupted" /\ server' = "exited"
    /\ UNCHANGED <<runVars, threadVars, motorVars, active, gaveUp>>

\* The cancellation leaves "async with serve" once every handler has ended and skips
\* wait_for_idle; main passes over the KeyboardInterrupt and returns.
InterruptedExit ==
    /\ server = "interrupted"
    /\ \A r \in Runs : ~conn[r]
    /\ server' = "exited"
    /\ UNCHANGED <<runVars, threadVars, motorVars, active, gaveUp>>

\* Leaving "async with serve" waits until every handler has ended.
StopListening ==
    /\ server = "stopping"
    /\ \A r \in Runs : ~conn[r]
    /\ server' = "waiting"
    /\ UNCHANGED <<runVars, threadVars, motorVars, active, gaveUp>>

\* Faulty variant of Exit: the process does not wait for the daemon thread.
ExitAtOnce ==
    /\ server = "waiting"
    /\ server' = "exited"
    /\ UNCHANGED <<runVars, threadVars, motorVars, active, gaveUp>>

\* wait_for_idle returns True, or its time-out passes; the process exits and
\* takes the daemon threads with it.
Exit ==
    /\ server = "waiting"
    /\ server' = "exited"
    /\ \/ Idle /\ UNCHANGED gaveUp
       \/ ~Idle /\ gaveUp' = TRUE
    /\ UNCHANGED <<runVars, threadVars, motorVars, active>>

Terminated == server = "exited" /\ UNCHANGED vars

-----------------------------------------------------------------------------
(* The specification. *)

Init ==
    /\ active = NoRun
    /\ config \in [Runs -> RunConfigs]
    /\ conn = [r \in Runs |-> FALSE]
    /\ state = [r \in Runs |-> "unopened"]
    /\ points = [r \in Runs |-> << >>]
    /\ receipts = [r \in Runs |-> << >>]
    /\ final = [r \in Runs |-> FALSE]
    /\ cursor = [r \in Runs |-> 0]
    /\ stop = [r \in Runs |-> FALSE]
    /\ stale = [r \in Runs |-> FALSE]
    /\ origin = [r \in Runs |-> [known |-> FALSE, q |-> 0]]
    /\ pc = [r \in Runs |-> "none"]
    /\ now = [r \in Runs |-> 0]
    /\ viol = [r \in Runs |-> 0]
    /\ code = [r \in Runs |-> "NONE"]
    /\ held = [r \in Runs |-> FALSE]
    /\ late = [r \in Runs |-> 0]
    /\ ports = {}
    /\ energized = NoRun
    /\ goal = Pose
    /\ stuck = {}
    /\ leaked = {}
    /\ server = "serving"
    /\ gaveUp = FALSE

Message(r) ==
    \/ OpenRun(r)
    \/ \E seq \in 0 .. Len(receipts[r]) + 1, chunk \in Chunks, last \in BOOLEAN :
          AppendChunk(r, seq, chunk, last)
    \/ StartRun(r)
    \/ Heartbeat(r)
    \/ Cancel(r)

Thread(r) ==
    \/ Connect(r)
    \/ \E pose \in Poses : SetOrigin(r, pose)
    \/ Validate(r)
    \/ Gate(r)
    \/ Enable(r)
    \/ BeginRunning(r)
    \/ Check(r)
    \/ Finish(r)
    \/ Underrun(r)
    \/ \E exceeded \in BOOLEAN : Drive(r, exceeded)
    \/ TrackingFault(r)
    \/ BackendFault(r)
    \/ \E elapsed \in 1 .. MaxCycle : Publish(r, elapsed)
    \/ Hold(r)
    \/ Close(r)
    \/ Settle(r)

Next ==
    \/ \E r \in Runs : Message(r)
    \/ \E r \in Runs : ConnectionLost(r)
    \/ \E r \in Runs : HeartbeatExpires(r)
    \/ \E r \in Runs : Thread(r)
    \/ EmergencyStop
    \/ RequestShutdown
    \/ Interrupt
    \/ InterruptedExit
    \/ StopListening
    \/ Exit
    \/ Terminated

Spec == Init /\ [][Next]_vars

\* Threads are scheduled, a closing server closes its connections, and time
\* passes: the wait of a shutdown ends.  Clients owe nothing.
Fairness ==
    /\ \A r \in Runs : WF_vars(Thread(r))
    /\ \A r \in Runs :
          WF_vars(server \in {"stopping", "interrupted"} /\ ConnectionLost(r))
    /\ WF_vars(StopListening)
    /\ WF_vars(InterruptedExit)
    /\ WF_vars(Exit)

FairSpec == Spec /\ Fairness

-----------------------------------------------------------------------------
(* Properties. *)

\* Every variable has its type.
TypeOK ==
    /\ active \in Runs \cup {NoRun}
    /\ config \in [Runs -> RunConfigs]
    /\ conn \in [Runs -> BOOLEAN]
    /\ state \in [Runs -> RunStates]
    /\ points \in [Runs -> Seq(Point)]
    /\ receipts \in [Runs -> Seq([chunk : Seq(Point), final : BOOLEAN, upto : Nat])]
    /\ final \in [Runs -> BOOLEAN]
    /\ cursor \in [Runs -> Nat]
    /\ stop \in [Runs -> BOOLEAN]
    /\ stale \in [Runs -> BOOLEAN]
    /\ origin \in [Runs -> [known : BOOLEAN, q : Int]]
    /\ pc \in [Runs -> ThreadPositions]
    /\ now \in [Runs -> Nat]
    /\ viol \in [Runs -> Nat]
    /\ code \in [Runs -> Codes]
    /\ held \in [Runs -> BOOLEAN]
    /\ late \in [Runs -> Nat]
    /\ ports \subseteq Runs
    /\ energized \in Runs \cup {NoRun}
    /\ goal \in [traj : BOOLEAN, q : Int]
    /\ stuck \subseteq Runs
    /\ leaked \subseteq Runs
    /\ server \in {"serving", "stopping", "waiting", "interrupted", "exited"}
    /\ gaveUp \in BOOLEAN

\* One run at a time owns the arm: two execution threads are never between
\* opening the port and closing it, whatever clients open, drop and reopen.
OneRunOnTheBus == \A r, s \in Runs : Bound(r) /\ Bound(s) => r = s

\* A terminal run has let go of the arm: close was called on whatever it had
\* opened, so a port that is still open and torque that is still on are what the
\* bus itself refused to give back (close logs that).  _execute settles the state
\* only after _hold_then_close.
TerminalHasReleased ==
    \A r \in Runs : state[r] \in TerminalStates =>
        /\ r \in ports => r \in leaked
        /\ ~held[r]
        /\ energized = r => r \in stuck

\* No trajectory target outside the joint limits is ever written to the servos:
\* a relative point is resolved against the measured origin when the run arms,
\* or when it is appended to a running stream, and interpolation stays between
\* two such points.
TargetsWithinLimits == goal.traj => JointMin <= goal.q /\ goal.q <= JointMax

\* Once a stop is latched or the heartbeat is dead, at most the target already
\* on its way is written; the loop re-checks both at the top of every cycle.
AtMostOneLateTarget == \A r \in Runs : late[r] <= 1

\* The accepted points form one valid trajectory, across chunk borders too.
TrajectoryValid ==
    \A r \in Runs : \A i \in 1 .. Len(points[r]) :
        /\ IF i = 1 THEN ValidFirst(points[r][i], config[r].coord)
                    ELSE ValidateSegment(points[r][i - 1], points[r][i])
        /\ ValidatePosition(points[r][i], config[r].coord)

\* The receipts a client holds tile the buffer exactly: what was acknowledged
\* as chunk k is what lies between the two marks of its receipt.
ReceiptsTileTheBuffer ==
    \A r \in Runs :
        /\ (IF receipts[r] = << >> THEN 0 ELSE Last(receipts[r]).upto) = Len(points[r])
        /\ \A k \in 1 .. Len(receipts[r]) :
              LET from == IF k = 1 THEN 0 ELSE receipts[r][k - 1].upto
              IN  /\ receipts[r][k].upto = from + Len(receipts[r][k].chunk)
                  /\ SubSeq(points[r], from + 1, receipts[r][k].upto)
                        = receipts[r][k].chunk
                  /\ receipts[r][k].final = (final[r] /\ k = Len(receipts[r]))

\* A run reported completed has played the whole program whose digest was
\* declared in open_run, to its last point.
CompletedPlayedDeclaredProgram ==
    \A r \in Runs : state[r] = "completed" =>
        /\ points[r] = config[r].declared
        /\ cursor[r] = LastT(config[r].declared)

\* A sealed program needs no data during execution: it never underruns.
SealedNeverUnderruns ==
    \A r \in Runs : code[r] = "BUFFER_UNDERRUN" => config[r].mode = "streaming"

\* A streaming client never gets further ahead than the bounded horizon.
LookaheadBounded ==
    \A r \in Runs : config[r].mode = "streaming" =>
        LastT(points[r]) - cursor[r] <= MaxHorizon

\* run_server: "returning here would let interpreter shutdown kill it mid-motion and
\* leave the motors energized".  A process that ends without giving up its wait has
\* switched torque off, although runs may be opened and started after the signal:
\* torque that is still on is what the bus refused to switch off.
CleanExitIsDisabled ==
    server = "exited" /\ ~gaveUp =>
        (energized # NoRun => energized \in stuck)

\* An abandoned run, in whatever state its client left it, eventually gives the
\* robot back (or the process is gone).
AbandonedRunEnds ==
    \A r \in Runs :
        state[r] # "unopened" /\ ~conn[r]
            ~> state[r] \in TerminalStates \/ server = "exited"

\* Points are never retracted or replaced, and the cursor never goes back.
BufferAndCursorAdvance ==
    [][\A r \in Runs :
          /\ Len(points[r]) <= Len(points'[r])
          /\ SubSeq(points'[r], 1, Len(points[r])) = points[r]
          /\ cursor[r] <= cursor'[r]]_vars

=============================================================================
