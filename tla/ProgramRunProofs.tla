-------------------------- MODULE ProgramRunProofs --------------------------
(***************************************************************************)
(* Proofs about the v1 robot server, for any number of runs, any chunks,   *)
(* programs and policies: first its types, the bus and its shutdown, then  *)
(* what a run plays: its buffer, its cursor, its watchdog and the targets  *)
(* it writes.                                                              *)
(***************************************************************************)
EXTENDS ProgramRun, SequenceTheorems, NumberInduction

-----------------------------------------------------------------------------
(* Facts about the operators. *)

\* The time of the last point of a buffer is a natural number.
LEMMA LastTType ==
    ASSUME NEW s \in Seq(Point)
    PROVE  LastT(s) \in Nat
<1>1. CASE s = << >>
  BY <1>1 DEF LastT
<1>2. CASE s # << >>
  <2>1. Len(s) \in 1 .. Len(s)
    BY <1>2
  <2>2. s[Len(s)] \in Point
    BY <2>1
  <2> QED
    BY <1>2, <2>2 DEF LastT, Last, Point
<1> QED
  BY <1>1, <1>2

\* Interpolation stays between its two points.
LEMMA InterpolateBetween ==
    ASSUME NEW a \in Point, NEW b \in Point, NEW t \in Nat,
           NEW q \in Interpolate(a, b, t), NEW lo \in Int, NEW hi \in Int,
           lo <= a.q, a.q <= hi, lo <= b.q, b.q <= hi
    PROVE  q \in Int /\ lo <= q /\ q <= hi
BY DEF Interpolate, Point

\* The registers hold a typed value after a pose is written.
LEMMA PoseType == Pose \in [traj : BOOLEAN, q : Int]
BY DEF Pose

-----------------------------------------------------------------------------
(* Type correctness.  The last command of a run writes its last point, so the *)
(* types alone are not inductive: a started thread must have points.          *)

ThreadHasPoints == \A r \in Runs : pc[r] # "none" => Len(points[r]) >= 2

TypeInv == TypeOK /\ ThreadHasPoints

\* append_chunk extends the buffer by typed points and never shortens it.
LEMMA AppendType ==
    ASSUME TypeOK, NEW r \in Runs, NEW seq, NEW chunk \in Chunks, NEW last \in BOOLEAN,
           AppendChunk(r, seq, chunk, last)
    PROVE  /\ points' \in [Runs -> Seq(Point)]
           /\ receipts' \in [Runs -> Seq([chunk : Seq(Point), final : BOOLEAN,
                                          upto : Nat])]
           /\ \A s \in Runs : Len(points[s]) <= Len(points'[s])
           /\ Len(points'[r]) = Len(points[r]) + Len(chunk)
<1> DEFINE Receipt == [chunk : Seq(Point), final : BOOLEAN, upto : Nat]
<1> DEFINE receipt == [chunk |-> chunk, final |-> last,
                       upto |-> Len(points[r]) + Len(chunk)]
<1>1. chunk \in Seq(Point) /\ points[r] \in Seq(Point) /\ receipts[r] \in Seq(Receipt)
  BY InputAssumption DEF TypeOK
<1>2. points[r] \o chunk \in Seq(Point)
  BY <1>1
<1>3. Len(points[r] \o chunk) = Len(points[r]) + Len(chunk)
  BY <1>1
<1>4. receipt \in Receipt
  BY <1>1
<1>5. Append(receipts[r], receipt) \in Seq(Receipt)
  BY <1>1, <1>4
<1>6. points' = [points EXCEPT ![r] = points[r] \o chunk]
  BY DEF AppendChunk
<1>7. receipts' = [receipts EXCEPT ![r] = Append(receipts[r], receipt)]
  BY DEF AppendChunk
<1>8. Len(points[r]) <= Len(points[r]) + Len(chunk)
  BY <1>1
<1>9. \A s \in Runs : Len(points[s]) \in Nat
  BY DEF TypeOK
<1>10. points \in [Runs -> Seq(Point)] /\ receipts \in [Runs -> Seq(Receipt)]
  BY DEF TypeOK
<1>11. points' \in [Runs -> Seq(Point)]
  BY <1>2, <1>6, <1>10
<1>12. receipts' \in [Runs -> Seq(Receipt)]
  BY <1>5, <1>7, <1>10
<1>13. points'[r] = points[r] \o chunk
  BY <1>6, <1>10
<1>14. \A s \in Runs : Len(points[s]) <= Len(points'[s])
  <2> TAKE s \in Runs
  <2>1. CASE s = r
    BY <2>1, <1>3, <1>8, <1>13
  <2>2. CASE s # r
    BY <2>2, <1>6, <1>9, <1>10
  <2> QED
    BY <2>1, <2>2
<1> QED
  BY <1>3, <1>11, <1>12, <1>13, <1>14

\* A command of the loop writes an integer position.
LEMMA CommandType ==
    ASSUME TypeOK, NEW r \in Runs, NEW q \in Int
    PROVE  Target(Resolve(r, q)) \in [traj : BOOLEAN, q : Int]
BY DEF TypeOK, Target, Resolve

\* A step of a started thread keeps the types of its position and its code.
LEMMA MoveType ==
    ASSUME TypeInv, NEW r \in Runs, NEW to \in ThreadPositions, NEW c \in Codes,
           pc[r] # "none", pc' = [pc EXCEPT ![r] = to],
           code' = code \/ code' = [code EXCEPT ![r] = c],
           UNCHANGED points
    PROVE  /\ pc' \in [Runs -> ThreadPositions]
           /\ code' \in [Runs -> Codes]
           /\ ThreadHasPoints'
<1>1. pc \in [Runs -> ThreadPositions] /\ code \in [Runs -> Codes]
  BY DEF TypeInv, TypeOK
<1>2. ThreadHasPoints'
  BY <1>1 DEF TypeInv, ThreadHasPoints
<1> QED
  BY <1>1, <1>2

\* Whatever close gives back, ports and torque keep their types.
LEMMA GiveBackType ==
    ASSUME TypeOK, NEW r \in Runs, NEW opened, opened \subseteq Runs, GiveBack(r, opened)
    PROVE  /\ ports' \subseteq Runs /\ energized' \in Runs \cup {NoRun}
           /\ stuck' \subseteq Runs /\ leaked' \subseteq Runs
BY DEF TypeOK, GiveBack

\* How the process ends.
Ending == Interrupt \/ InterruptedExit \/ StopListening \/ Exit

\* A server without runs has its types.
LEMMA TypeInvInit == Init => TypeInv
<1> SUFFICES ASSUME Init PROVE TypeInv
  OBVIOUS
<1>1. points \in [Runs -> Seq(Point)]
  BY DEF Init
<1>2. receipts \in [Runs -> Seq([chunk : Seq(Point), final : BOOLEAN, upto : Nat])]
  BY DEF Init
<1>3. origin \in [Runs -> [known : BOOLEAN, q : Int]]
  BY DEF Init
<1>4. TypeOK
  BY <1>1, <1>2, <1>3, PoseType
     DEF Init, TypeOK, RunStates, ThreadPositions, Codes
<1> QED
  BY <1>4 DEF Init, TypeInv, ThreadHasPoints

\* Every message and every step of a thread keeps the types, and starts no thread without points.
LEMMA TypeInvNext == TypeInv /\ [Next]_vars => TypeInv'
<1> SUFFICES ASSUME TypeInv, [Next]_vars
             PROVE  TypeInv'
  OBVIOUS
<1> USE DEF runVars, threadVars, motorVars, serverVars, TypeInv, ThreadHasPoints
<1>1. ASSUME NEW r \in Runs, OpenRun(r) PROVE TypeInv'
  BY <1>1 DEF TypeOK, OpenRun, RunStates
<1>2. ASSUME NEW r \in Runs, NEW seq, NEW chunk \in Chunks, NEW last \in BOOLEAN,
             AppendChunk(r, seq, chunk, last)
      PROVE  TypeInv'
  <2>1. TypeOK'
    <3>1. final' \in [Runs -> BOOLEAN]
      BY <1>2 DEF AppendChunk, TypeOK
    <3>2. UNCHANGED <<config, conn, state, cursor, stop, stale, origin, threadVars,
                      motorVars, serverVars>>
      BY <1>2 DEF AppendChunk
    <3>3. /\ points' \in [Runs -> Seq(Point)]
          /\ receipts' \in [Runs -> Seq([chunk : Seq(Point), final : BOOLEAN,
                                         upto : Nat])]
      BY <1>2, AppendType
    <3> QED
      BY <3>1, <3>2, <3>3 DEF TypeOK
  <2>2. ThreadHasPoints'
    <3>1. pc' = pc
      BY <1>2 DEF AppendChunk
    <3>2. \A s \in Runs : Len(points[s]) <= Len(points'[s])
                          /\ Len(points[s]) \in Nat /\ Len(points'[s]) \in Nat
      <4>1. \A s \in Runs : Len(points[s]) <= Len(points'[s])
        BY <1>2, AppendType
      <4>2. points \in [Runs -> Seq(Point)] /\ points' \in [Runs -> Seq(Point)]
        BY <2>1 DEF TypeOK
      <4> QED
        BY <4>1, <4>2
    <3> QED
      BY <3>1, <3>2
  <2> QED
    BY <2>1, <2>2
<1>3. ASSUME NEW r \in Runs, StartRun(r) PROVE TypeInv'
  BY <1>3 DEF TypeOK, StartRun, ReadyToStart, RunStates, ThreadPositions
<1>4. ASSUME NEW r \in Runs, Heartbeat(r) PROVE TypeInv'
  BY <1>4 DEF TypeOK, Heartbeat
<1>5. ASSUME NEW r \in Runs, Cancel(r) PROVE TypeInv'
  BY <1>5 DEF TypeOK, Cancel, RequestStop
<1>6. ASSUME NEW r \in Runs, ConnectionLost(r) PROVE TypeInv'
  BY <1>6 DEF TypeOK, ConnectionLost, RunStates, TerminalStates
<1>7. ASSUME NEW r \in Runs, HeartbeatExpires(r) PROVE TypeInv'
  BY <1>7 DEF TypeOK, HeartbeatExpires
<1>8. ASSUME NEW r \in Runs, Connect(r) PROVE TypeInv'
  <2>1. /\ pc[r] = "connect"
        /\ pc' = [pc EXCEPT ![r] = "origin"] \/ pc' = [pc EXCEPT ![r] = "hold"]
        /\ code' = code \/ code' = [code EXCEPT ![r] = "OTHER"]
        /\ goal' \in {goal, Pose}
        /\ UNCHANGED <<runVars, now, viol, held, late, serverVars>>
    BY <1>8 DEF Connect, Step, Leave
  <2>a. /\ ports' \subseteq Runs /\ energized' \in Runs \cup {NoRun}
        /\ stuck' \subseteq Runs /\ leaked' \subseteq Runs
    <3>1. ports \cup {r} \subseteq Runs
      BY DEF TypeOK
    <3> QED
      BY <1>8, <3>1, GiveBackType DEF Connect, TypeOK
  <2>2. /\ pc' \in [Runs -> ThreadPositions]
        /\ code' \in [Runs -> Codes]
        /\ ThreadHasPoints'
    BY <2>1, MoveType DEF ThreadPositions, Codes
  <2> QED
    BY <2>1, <2>a, <2>2, PoseType DEF TypeOK
<1>9. ASSUME NEW r \in Runs, NEW pose \in Poses, SetOrigin(r, pose) PROVE TypeInv'
  BY <1>9, InputAssumption DEF TypeOK, SetOrigin, Step, ThreadPositions
<1>10. ASSUME NEW r \in Runs, Validate(r) PROVE TypeInv'
  <2>1. /\ pc[r] = "validate"
        /\ pc' = [pc EXCEPT ![r] = "gate"] \/ pc' = [pc EXCEPT ![r] = "hold"]
        /\ code' = code \/ code' = [code EXCEPT ![r] = "OTHER"]
        /\ UNCHANGED <<runVars, now, viol, held, late, motorVars, serverVars>>
    BY <1>10 DEF Validate, Step, Leave
  <2>2. /\ pc' \in [Runs -> ThreadPositions]
        /\ code' \in [Runs -> Codes]
        /\ ThreadHasPoints'
    BY <2>1, MoveType DEF ThreadPositions, Codes
  <2> QED
    BY <2>1, <2>2 DEF TypeOK
<1>11. ASSUME NEW r \in Runs, Gate(r) PROVE TypeInv'
  <2>1. /\ pc[r] = "gate"
        /\ pc' = [pc EXCEPT ![r] = "enable"] \/ pc' = [pc EXCEPT ![r] = "hold"]
        /\ code' = code \/ code' = [code EXCEPT ![r] = "CANCELLED"]
        /\ UNCHANGED <<runVars, now, viol, held, late, motorVars, serverVars>>
    BY <1>11 DEF Gate, Step, Leave
  <2>2. /\ pc' \in [Runs -> ThreadPositions]
        /\ code' \in [Runs -> Codes]
        /\ ThreadHasPoints'
    BY <2>1, MoveType DEF ThreadPositions, Codes
  <2> QED
    BY <2>1, <2>2 DEF TypeOK
<1>12. ASSUME NEW r \in Runs, Enable(r) PROVE TypeInv'
  <2>1. /\ pc[r] = "enable"
        /\ pc' = [pc EXCEPT ![r] = "run"] \/ pc' = [pc EXCEPT ![r] = "hold"]
        /\ code' = code \/ code' = [code EXCEPT ![r] = "OTHER"]
        /\ energized' \in {energized, r} /\ goal' \in {goal, Pose}
        /\ UNCHANGED <<runVars, now, viol, held, late, ports, stuck, leaked, serverVars>>
    BY <1>12 DEF Enable, Step, Leave
  <2>2. /\ pc' \in [Runs -> ThreadPositions]
        /\ code' \in [Runs -> Codes]
        /\ ThreadHasPoints'
    BY <2>1, MoveType DEF ThreadPositions, Codes
  <2> QED
    BY <2>1, <2>2, PoseType DEF TypeOK
<1>13. ASSUME NEW r \in Runs, BeginRunning(r) PROVE TypeInv'
  BY <1>13 DEF TypeOK, BeginRunning, Step, ThreadPositions, RunStates
<1>14. ASSUME NEW r \in Runs, Check(r) PROVE TypeInv'
  <2>1. /\ pc[r] = "check"
        /\ pc' = [pc EXCEPT ![r] = "drive"] \/ pc' = [pc EXCEPT ![r] = "hold"]
        /\ \/ code' = code
           \/ code' = [code EXCEPT ![r] = "CANCELLED"]
           \/ code' = [code EXCEPT ![r] = "HEARTBEAT_LOST"]
        /\ UNCHANGED <<runVars, now, viol, held, late, motorVars, serverVars>>
    BY <1>14 DEF Check, Step, Leave
  <2>2. /\ pc' \in [Runs -> ThreadPositions]
        /\ code' \in [Runs -> Codes]
        /\ ThreadHasPoints'
    BY <2>1, MoveType DEF ThreadPositions, Codes
  <2> QED
    BY <2>1, <2>2 DEF TypeOK
<1>15. ASSUME NEW r \in Runs, Finish(r) PROVE TypeInv'
  <2>1. LastT(points[r]) \in Nat
    BY LastTType DEF TypeOK
  <2>2. pc[r] = "drive"
    BY <1>15 DEF Finish, Leave, Step
  <2>3. Last(points[r]).q \in Int
    <3>1. points[r] \in Seq(Point) /\ Len(points[r]) >= 2
      BY <2>2 DEF TypeOK
    <3>2. points[r][Len(points[r])] \in Point
      BY <3>1
    <3> QED
      BY <3>2 DEF Last, Point
  <2>4. goal' \in [traj : BOOLEAN, q : Int]
    BY <1>15, <2>3, CommandType DEF Finish, Command
  <2>5. late' \in [Runs -> Nat]
    <3>1. late \in [Runs -> Nat]
      BY DEF TypeOK
    <3>2. late' = [late EXCEPT ![r] = IF Revoked(r) THEN @ + 1 ELSE @]
      BY <1>15 DEF Finish, Command
    <3> QED
      BY <3>1, <3>2
  <2>6. cursor' \in [Runs -> Nat]
    BY <1>15, <2>1 DEF Finish, TypeOK
  <2> QED
    <3>1. /\ pc' = [pc EXCEPT ![r] = "hold"]
          /\ \E c \in Codes : code' = [code EXCEPT ![r] = c]
          /\ UNCHANGED <<config, conn, state, points, receipts, final, stop, stale,
                         origin, now, viol, held, ports, energized, stuck, leaked, serverVars>>
      BY <1>15 DEF Finish, Leave, Step, Codes
    <3>2. /\ pc' \in [Runs -> ThreadPositions]
          /\ code' \in [Runs -> Codes]
          /\ ThreadHasPoints'
      BY <3>1, <2>2, MoveType DEF ThreadPositions
    <3> QED
      BY <2>4, <2>5, <2>6, <3>1, <3>2 DEF TypeOK
<1>16. ASSUME NEW r \in Runs, Underrun(r) PROVE TypeInv'
  <2>1. /\ pc[r] = "drive"
        /\ pc' = [pc EXCEPT ![r] = "hold"]
        /\ code' = code \/ code' = [code EXCEPT ![r] = "BUFFER_UNDERRUN"]
        /\ UNCHANGED <<runVars, now, viol, held, late, motorVars, serverVars>>
    BY <1>16 DEF Underrun, Step, Leave
  <2>2. /\ pc' \in [Runs -> ThreadPositions]
        /\ code' \in [Runs -> Codes]
        /\ ThreadHasPoints'
    BY <2>1, MoveType DEF ThreadPositions, Codes
  <2> QED
    BY <2>1, <2>2 DEF TypeOK
<1>17. ASSUME NEW r \in Runs, NEW exceeded \in BOOLEAN, Drive(r, exceeded)
       PROVE  TypeInv'
  <2>1. PICK i \in 1 .. Len(points[r]) - 1 :
          \E q \in Interpolate(points[r][i], points[r][i + 1], now[r]) : Command(r, q)
    BY <1>17 DEF Drive
  <2>2. PICK q \in Interpolate(points[r][i], points[r][i + 1], now[r]) : Command(r, q)
    BY <2>1
  <2>3. points[r][i] \in Point /\ points[r][i + 1] \in Point /\ now[r] \in Nat
    <3>1. points[r] \in Seq(Point) /\ now[r] \in Nat
      BY DEF TypeOK
    <3> QED
      BY <3>1, <2>1
  <2>4. q \in Int
    BY <2>2, <2>3 DEF Interpolate, Point
  <2>5. goal' \in [traj : BOOLEAN, q : Int]
    BY <2>2, <2>4, CommandType DEF Command
  <2>6. late' \in [Runs -> Nat]
    <3>1. late \in [Runs -> Nat]
      BY DEF TypeOK
    <3>2. late' = [late EXCEPT ![r] = IF Revoked(r) THEN @ + 1 ELSE @]
      BY <2>2 DEF Command
    <3> QED
      BY <3>1, <3>2
  <2>7. viol' \in [Runs -> Nat]
    <3>1. viol \in [Runs -> Nat]
      BY DEF TypeOK
    <3>2. viol' = [viol EXCEPT ![r] = IF exceeded THEN @ + 1 ELSE 0]
      BY <1>17 DEF Drive
    <3> QED
      BY <3>1, <3>2
  <2> QED
    <3>1. /\ pc[r] = "drive"
          /\ pc' = [pc EXCEPT ![r] = "publish"] \/ pc' = [pc EXCEPT ![r] = "hold"]
          /\ code' = code \/ code' = [code EXCEPT ![r] = "OTHER"]
          /\ UNCHANGED <<runVars, now, held, ports, energized, stuck, leaked, serverVars>>
      BY <1>17 DEF Drive, Leave, Step
    <3>2. /\ pc' \in [Runs -> ThreadPositions]
          /\ code' \in [Runs -> Codes]
          /\ ThreadHasPoints'
      BY <3>1, MoveType DEF ThreadPositions, Codes
    <3> QED
      BY <2>5, <2>6, <2>7, <3>1, <3>2 DEF TypeOK
<1>18. ASSUME NEW r \in Runs, TrackingFault(r) PROVE TypeInv'
  <2>1. viol' \in [Runs -> Nat]
    <3>1. viol \in [Runs -> Nat]
      BY DEF TypeOK
    <3>2. viol' = [viol EXCEPT ![r] = @ + 1]
      BY <1>18 DEF TrackingFault
    <3> QED
      BY <3>1, <3>2
  <2> QED
    <3>1. /\ pc[r] = "drive" /\ pc' = [pc EXCEPT ![r] = "hold"]
          /\ code' = [code EXCEPT ![r] = "TRACKING_ERROR"]
          /\ UNCHANGED <<runVars, now, held, late, motorVars, serverVars>>
      BY <1>18 DEF TrackingFault, Leave, Step
    <3>2. /\ pc' \in [Runs -> ThreadPositions]
          /\ code' \in [Runs -> Codes]
          /\ ThreadHasPoints'
      BY <3>1, MoveType DEF ThreadPositions, Codes
    <3> QED
      BY <2>1, <3>1, <3>2 DEF TypeOK
<1>19. ASSUME NEW r \in Runs, BackendFault(r) PROVE TypeInv'
  <2>1. /\ pc[r] = "drive"
        /\ pc' = [pc EXCEPT ![r] = "hold"]
        /\ code' = code \/ code' = [code EXCEPT ![r] = "OTHER"]
        /\ UNCHANGED <<runVars, now, viol, held, late, motorVars, serverVars>>
    BY <1>19 DEF BackendFault, Step, Leave
  <2>2. /\ pc' \in [Runs -> ThreadPositions]
        /\ code' \in [Runs -> Codes]
        /\ ThreadHasPoints'
    BY <2>1, MoveType DEF ThreadPositions, Codes
  <2> QED
    BY <2>1, <2>2 DEF TypeOK
<1>20. ASSUME NEW r \in Runs, NEW elapsed \in 1 .. MaxCycle, Publish(r, elapsed)
       PROVE  TypeInv'
  <2>1. elapsed \in Nat
    BY PolicyAssumption
  <2>2. now' \in [Runs -> Nat]
    <3>1. now \in [Runs -> Nat]
      BY DEF TypeOK
    <3>2. now' = [now EXCEPT ![r] = @ + elapsed]
      BY <1>20 DEF Publish
    <3> QED
      BY <2>1, <3>1, <3>2
  <2> QED
    <3>1. /\ pc[r] = "publish"
          /\ pc' = [pc EXCEPT ![r] = "check"] \/ pc' = [pc EXCEPT ![r] = "hold"]
          /\ code' = code \/ code' = [code EXCEPT ![r] = "OTHER"]
          /\ cursor' = [cursor EXCEPT ![r] = now[r]]
          /\ UNCHANGED <<config, conn, state, points, receipts, final, stop, stale,
                         origin, viol, held, late, motorVars, serverVars>>
      BY <1>20 DEF Publish, Leave, Step
    <3>2. /\ pc' \in [Runs -> ThreadPositions]
          /\ code' \in [Runs -> Codes]
          /\ ThreadHasPoints'
      BY <3>1, MoveType DEF ThreadPositions, Codes
    <3> QED
      BY <2>2, <3>1, <3>2 DEF TypeOK
<1>21. ASSUME NEW r \in Runs, Hold(r) PROVE TypeInv'
  BY <1>21, PoseType DEF TypeOK, Hold, Step, ThreadPositions
<1>22. ASSUME NEW r \in Runs, Close(r) PROVE TypeInv'
  <2>1. /\ ports' \subseteq Runs /\ energized' \in Runs \cup {NoRun}
        /\ stuck' \subseteq Runs /\ leaked' \subseteq Runs
    BY <1>22, GiveBackType DEF Close, TypeOK
  <2> QED
    BY <1>22, <2>1 DEF TypeOK, Close, Step, ThreadPositions
<1>23. ASSUME NEW r \in Runs, Settle(r) PROVE TypeInv'
  BY <1>23 DEF TypeOK, Settle, Step, Outcome, ThreadPositions, RunStates,
               TerminalStates
<1>24. CASE EmergencyStop
  BY <1>24 DEF TypeOK, EmergencyStop, RequestStop
<1>25. CASE RequestShutdown
  BY <1>25 DEF TypeOK, RequestShutdown
<1>26. CASE Interrupt \/ InterruptedExit \/ StopListening
  BY <1>26 DEF TypeOK, Interrupt, InterruptedExit, StopListening
<1>27. CASE Exit
  BY <1>27 DEF TypeOK, Exit
<1>28. CASE UNCHANGED vars
  BY <1>28 DEF TypeOK, vars
<1> QED
  BY <1>1, <1>2, <1>3, <1>4, <1>5, <1>6, <1>7, <1>8, <1>9, <1>10, <1>11, <1>12,
     <1>13, <1>14, <1>15, <1>16, <1>17, <1>18, <1>19, <1>20, <1>21, <1>22, <1>23,
     <1>24, <1>25, <1>26, <1>27, <1>28
     DEF Next, Message, Thread, Terminated, Ending

\* Every variable keeps its type, whatever messages, faults and signals come.
THEOREM TypeCorrect == Spec => []TypeOK
BY TypeInvInit, TypeInvNext, PTL DEF Spec, TypeInv
-----------------------------------------------------------------------------
(* Who owns the arm.  A thread has its backend exactly while it is between    *)
(* the successful Connect and its Close; its run is then arming or running,   *)
(* and the controller knows only one such run, the active one.                *)

HoldsPort == {"origin", "validate", "gate", "enable", "run", "check", "drive",
              "publish"}
ownVars == <<state, pc, active, ports, held, energized, stuck, leaked, server, gaveUp>>

StateMatchesThread ==
    \A r \in Runs :
        /\ state[r] \in {"unopened", "buffering"} => pc[r] = "none"
        /\ state[r] \in {"arming", "running"} => pc[r] \notin {"none", "ended"}
        /\ state[r] \in TerminalStates => pc[r] \in {"none", "ended"}

LiveRunIsActive ==
    \A r \in Runs : state[r] \in {"buffering", "arming", "running"} => active = r

PortMatchesThread ==
    \A r \in Runs :
        /\ Bound(r) => pc[r] \in HoldsPort \cup {"hold", "close"}
        /\ pc[r] \in HoldsPort => Bound(r)
        /\ r \in leaked => pc[r] \in {"hold", "close", "settle", "ended"}
        /\ held[r] => pc[r] \in {"check", "drive", "publish", "hold", "close"}

TorqueIsOwned == energized # NoRun => energized \in stuck \/ Bound(energized)

\* Where signals have their handlers.
CleanExitIsIdle ==
    "interrupt" \notin SignalPaths =>
        server # "interrupted" /\ (server = "exited" /\ ~gaveUp => Idle)

OwnershipInv ==
    /\ StateMatchesThread
    /\ LiveRunIsActive
    /\ PortMatchesThread
    /\ TorqueIsOwned
    /\ CleanExitIsIdle

\* At the beginning nobody has the bus.
LEMMA OwnershipInit == Init => OwnershipInv
BY DEF Init, OwnershipInv, StateMatchesThread, LiveRunIsActive, PortMatchesThread,
       TorqueIsOwned, CleanExitIsIdle, TerminalStates, HoldsPort, Bound

\* A step of a thread on the bus that only moves the thread, without leaving the
\* bus, keeps the invariant.
LEMMA MoveOnTheBus ==
    ASSUME TypeOK, OwnershipInv, NEW r \in Runs, NEW to \in HoldsPort \cup {"hold"},
           pc[r] \in HoldsPort,
           pc[r] \in {"check", "drive", "publish"} =>
               to \in {"check", "drive", "publish", "hold"},
           pc' = [pc EXCEPT ![r] = to],
           UNCHANGED <<state, active, ports, held, energized, stuck, leaked, server, gaveUp>>
    PROVE  OwnershipInv'
<1> USE DEF OwnershipInv, HoldsPort, Bound
<1>1. pc \in [Runs -> ThreadPositions]
  BY DEF TypeOK
<1>2. StateMatchesThread'
  BY <1>1 DEF StateMatchesThread, TerminalStates
<1>3. PortMatchesThread'
  BY <1>1 DEF PortMatchesThread
<1>4. LiveRunIsActive' /\ TorqueIsOwned' /\ CleanExitIsIdle'
  BY DEF LiveRunIsActive, TorqueIsOwned, CleanExitIsIdle, Idle
<1> QED
  BY <1>2, <1>3, <1>4

\* Every message and every step of a thread keeps the ownership of bus and torque.
LEMMA OwnershipNext == TypeOK /\ OwnershipInv /\ [Next]_vars => OwnershipInv'
<1> SUFFICES ASSUME TypeOK, OwnershipInv, [Next]_vars
             PROVE  OwnershipInv'
  OBVIOUS
<1> DEFINE Moves(r, to) ==
      /\ pc' = [pc EXCEPT ![r] = to]
      /\ UNCHANGED <<state, active, ports, held, energized, stuck, leaked, server, gaveUp>>
<1> USE DEF runVars, threadVars, motorVars, serverVars, Bound
<1>1. CASE UNCHANGED ownVars
  BY <1>1 DEF ownVars, OwnershipInv, StateMatchesThread, LiveRunIsActive,
              PortMatchesThread, TorqueIsOwned, CleanExitIsIdle, Idle
<1>2. ASSUME NEW r \in Runs, OpenRun(r) PROVE OwnershipInv'
  <2>1. /\ server # "exited"
        /\ state[r] = "unopened" /\ state' = [state EXCEPT ![r] = "buffering"]
        /\ active # NoRun => state[active] \in TerminalStates
        /\ active' = r
        /\ UNCHANGED <<pc, ports, held, energized, stuck, leaked, server, gaveUp>>
    BY <1>2 DEF OpenRun, Idle, Listening
  <2>2. /\ state \in [Runs -> RunStates]
        /\ active \in Runs \cup {NoRun}
    BY DEF TypeOK
  <2>3. StateMatchesThread'
    BY <2>1, <2>2 DEF OwnershipInv, StateMatchesThread, TerminalStates
  <2>4. LiveRunIsActive'
    BY <2>1, <2>2, RunAssumption DEF OwnershipInv, LiveRunIsActive, TerminalStates
  <2>5. PortMatchesThread'
    BY <2>1, <2>2 DEF OwnershipInv, PortMatchesThread, StateMatchesThread, HoldsPort
  <2>6. TorqueIsOwned'
    BY <2>1 DEF OwnershipInv, TorqueIsOwned
  <2>7. CleanExitIsIdle'
    BY <2>1 DEF OwnershipInv, CleanExitIsIdle
  <2> QED
    BY <2>3, <2>4, <2>5, <2>6, <2>7 DEF OwnershipInv
<1>3. ASSUME NEW r \in Runs, StartRun(r) PROVE OwnershipInv'
  <2>1. /\ server # "exited"
        /\ state[r] = "buffering" /\ state' = [state EXCEPT ![r] = "arming"]
        /\ pc' = [pc EXCEPT ![r] = "connect"]
        /\ UNCHANGED <<active, ports, held, energized, stuck, leaked, server, gaveUp>>
    BY <1>3 DEF StartRun, Listening
  <2>2. state \in [Runs -> RunStates] /\ pc \in [Runs -> ThreadPositions]
    BY DEF TypeOK
  <2>3. StateMatchesThread'
    BY <2>1, <2>2 DEF OwnershipInv, StateMatchesThread, TerminalStates
  <2>4. LiveRunIsActive'
    BY <2>1, <2>2 DEF OwnershipInv, LiveRunIsActive
  <2>5. PortMatchesThread'
    BY <2>1, <2>2 DEF OwnershipInv, PortMatchesThread, StateMatchesThread, HoldsPort
  <2>6. TorqueIsOwned'
    BY <2>1 DEF OwnershipInv, TorqueIsOwned
  <2>7. CleanExitIsIdle'
    BY <2>1 DEF OwnershipInv, CleanExitIsIdle
  <2> QED
    BY <2>3, <2>4, <2>5, <2>6, <2>7 DEF OwnershipInv
<1>4. ASSUME NEW r \in Runs, ConnectionLost(r) PROVE OwnershipInv'
  <2>1. /\ server # "exited"
        /\ state' = [state EXCEPT ![r] = IF @ = "buffering" THEN "stopped" ELSE @]
        /\ UNCHANGED <<pc, active, ports, held, energized, stuck, leaked, server, gaveUp>>
    BY <1>4 DEF ConnectionLost, Listening
  <2>2. state \in [Runs -> RunStates] /\ pc \in [Runs -> ThreadPositions]
    BY DEF TypeOK
  <2>3. StateMatchesThread'
    BY <2>1, <2>2 DEF OwnershipInv, StateMatchesThread, TerminalStates
  <2>4. LiveRunIsActive'
    BY <2>1, <2>2 DEF OwnershipInv, LiveRunIsActive
  <2>5. PortMatchesThread'
    BY <2>1, <2>2 DEF OwnershipInv, PortMatchesThread, StateMatchesThread, HoldsPort
  <2>6. TorqueIsOwned'
    BY <2>1 DEF OwnershipInv, TorqueIsOwned
  <2>7. CleanExitIsIdle'
    BY <2>1 DEF OwnershipInv, CleanExitIsIdle
  <2> QED
    BY <2>3, <2>4, <2>5, <2>6, <2>7 DEF OwnershipInv
<1>5. ASSUME NEW r \in Runs, Connect(r) PROVE OwnershipInv'
  <2>1. /\ pc[r] = "connect"
        /\ pc' = [pc EXCEPT ![r] = "origin"] \/ pc' = [pc EXCEPT ![r] = "hold"]
        /\ UNCHANGED <<state, active, held, server, gaveUp>>
    BY <1>5 DEF Connect, Step, Leave
  <2>2. pc \in [Runs -> ThreadPositions] /\ ports \subseteq Runs /\ leaked \subseteq Runs
    BY DEF TypeOK
  <2>3. StateMatchesThread'
    BY <2>1, <2>2 DEF OwnershipInv, StateMatchesThread, TerminalStates
  <2>4. LiveRunIsActive' /\ CleanExitIsIdle'
    BY <2>1 DEF OwnershipInv, LiveRunIsActive, CleanExitIsIdle, Idle
  <2>5. CASE ports' = ports \cup {r} /\ leaked' = leaked /\ energized' = NoRun
    <3>1. r \notin leaked
      BY <2>1 DEF OwnershipInv, PortMatchesThread
    <3>2. PortMatchesThread'
      BY <2>1, <2>2, <2>5, <3>1 DEF OwnershipInv, PortMatchesThread, HoldsPort
    <3>3. TorqueIsOwned'
      BY <2>5 DEF TorqueIsOwned
    <3> QED
      BY <2>3, <2>4, <3>2, <3>3 DEF OwnershipInv
  <2>6. CASE /\ pc' = [pc EXCEPT ![r] = "hold"]
             /\ GiveBack(r, ports \cup {r}) \/ UNCHANGED <<ports, energized, stuck, leaked>>
    <3>1. ~Bound(r)
      BY <2>1 DEF OwnershipInv, PortMatchesThread, HoldsPort
    <3>2. \/ ports' = ports \ {r} /\ leaked' = leaked
          \/ ports' = ports \cup {r} /\ leaked' = leaked \cup {r}
          \/ ports' = ports /\ leaked' = leaked
      BY <2>6 DEF GiveBack
    <3>3. PortMatchesThread'
      BY <2>1, <2>2, <2>6, <3>1, <3>2 DEF OwnershipInv, PortMatchesThread, HoldsPort
    <3>4. TorqueIsOwned'
      BY <2>6 DEF OwnershipInv, TorqueIsOwned, GiveBack
    <3> QED
      BY <2>3, <2>4, <3>3, <3>4 DEF OwnershipInv
  <2> QED
    BY <1>5, <2>5, <2>6 DEF Connect, Leave, Step
<1>6. ASSUME NEW r \in Runs, NEW pose \in Poses, SetOrigin(r, pose)
      PROVE  OwnershipInv'
  <2>1. pc[r] = "origin" /\ Moves(r, "validate")
    BY <1>6 DEF SetOrigin, Step
  <2> QED
    BY <2>1, MoveOnTheBus DEF HoldsPort
<1>7. ASSUME NEW r \in Runs, Validate(r) PROVE OwnershipInv'
  <2>1. pc[r] = "validate" /\ (Moves(r, "gate") \/ Moves(r, "hold"))
    BY <1>7 DEF Validate, Step, Leave
  <2> QED
    BY <2>1, MoveOnTheBus DEF HoldsPort
<1>8. ASSUME NEW r \in Runs, Gate(r) PROVE OwnershipInv'
  <2>1. pc[r] = "gate" /\ (Moves(r, "enable") \/ Moves(r, "hold"))
    BY <1>8 DEF Gate, Step, Leave
  <2> QED
    BY <2>1, MoveOnTheBus DEF HoldsPort
<1>9. ASSUME NEW r \in Runs, Enable(r) PROVE OwnershipInv'
  <2>1. /\ pc[r] = "enable"
        /\ \E to \in {"run", "hold"} : pc' = [pc EXCEPT ![r] = to]
        /\ energized' \in {energized, r}
        /\ UNCHANGED <<state, active, ports, held, stuck, leaked, server, gaveUp>>
    BY <1>9 DEF Enable, Step, Leave
  <2>2. pc \in [Runs -> ThreadPositions]
    BY DEF TypeOK
  <2>3. Bound(r)
    BY <2>1 DEF OwnershipInv, PortMatchesThread, HoldsPort
  <2>4. StateMatchesThread'
    BY <2>1, <2>2 DEF OwnershipInv, StateMatchesThread, TerminalStates
  <2>5. LiveRunIsActive' /\ CleanExitIsIdle'
    BY <2>1 DEF OwnershipInv, LiveRunIsActive, CleanExitIsIdle, Idle
  <2>6. PortMatchesThread'
    BY <2>1, <2>2 DEF OwnershipInv, PortMatchesThread, HoldsPort
  <2>7. TorqueIsOwned'
    BY <2>1, <2>3 DEF OwnershipInv, TorqueIsOwned
  <2> QED
    BY <2>4, <2>5, <2>6, <2>7 DEF OwnershipInv
<1>10. ASSUME NEW r \in Runs, BeginRunning(r) PROVE OwnershipInv'
  <2>1. /\ server # "exited"
        /\ pc[r] = "run" /\ pc' = [pc EXCEPT ![r] = "check"]
        /\ held' = [held EXCEPT ![r] = TRUE]
        /\ state' = [state EXCEPT ![r] = "running"]
        /\ UNCHANGED <<active, ports, energized, stuck, leaked, server, gaveUp>>
    BY <1>10 DEF BeginRunning, Step, Alive
  <2>2. /\ state \in [Runs -> RunStates] /\ pc \in [Runs -> ThreadPositions]
        /\ held \in [Runs -> BOOLEAN]
    BY DEF TypeOK
  <2>3. StateMatchesThread'
    BY <2>1, <2>2 DEF OwnershipInv, StateMatchesThread, TerminalStates, RunStates
  <2>4. LiveRunIsActive'
    BY <2>1, <2>2 DEF OwnershipInv, LiveRunIsActive, StateMatchesThread, RunStates,
                      TerminalStates
  <2>5. PortMatchesThread'
    BY <2>1, <2>2 DEF OwnershipInv, PortMatchesThread, StateMatchesThread, HoldsPort
  <2>6. TorqueIsOwned'
    BY <2>1 DEF OwnershipInv, TorqueIsOwned
  <2>7. CleanExitIsIdle'
    BY <2>1 DEF OwnershipInv, CleanExitIsIdle
  <2> QED
    BY <2>3, <2>4, <2>5, <2>6, <2>7 DEF OwnershipInv
<1>11. ASSUME NEW r \in Runs, Check(r) PROVE OwnershipInv'
  <2>1. pc[r] = "check" /\ (Moves(r, "drive") \/ Moves(r, "hold"))
    BY <1>11 DEF Check, Step, Leave
  <2> QED
    BY <2>1, MoveOnTheBus DEF HoldsPort
<1>12. ASSUME NEW r \in Runs,
              \/ Finish(r) \/ Underrun(r) \/ TrackingFault(r) \/ BackendFault(r)
       PROVE  OwnershipInv'
  <2>1. pc[r] = "drive" /\ Moves(r, "hold")
    BY <1>12 DEF Finish, Underrun, TrackingFault, BackendFault, Step, Leave
  <2> QED
    BY <2>1, MoveOnTheBus DEF HoldsPort
<1>13. ASSUME NEW r \in Runs, NEW exceeded \in BOOLEAN, Drive(r, exceeded)
       PROVE  OwnershipInv'
  <2>1. pc[r] = "drive" /\ (Moves(r, "publish") \/ Moves(r, "hold"))
    BY <1>13 DEF Drive, Step, Leave
  <2> QED
    BY <2>1, MoveOnTheBus DEF HoldsPort
<1>14. ASSUME NEW r \in Runs, NEW elapsed \in 1 .. MaxCycle, Publish(r, elapsed)
       PROVE  OwnershipInv'
  <2>1. pc[r] = "publish" /\ (Moves(r, "check") \/ Moves(r, "hold"))
    BY <1>14 DEF Publish, Step, Leave
  <2> QED
    BY <2>1, MoveOnTheBus DEF HoldsPort
<1>15. ASSUME NEW r \in Runs, Hold(r) PROVE OwnershipInv'
  <2>1. /\ server # "exited"
        /\ pc[r] = "hold" /\ pc' = [pc EXCEPT ![r] = "close"]
        /\ UNCHANGED <<state, active, ports, held, energized, stuck, leaked, server, gaveUp>>
    BY <1>15 DEF Hold, Step, Alive
  <2>2. state \in [Runs -> RunStates] /\ pc \in [Runs -> ThreadPositions]
    BY DEF TypeOK
  <2>3. StateMatchesThread'
    BY <2>1, <2>2 DEF OwnershipInv, StateMatchesThread, TerminalStates
  <2>4. LiveRunIsActive'
    BY <2>1, <2>2 DEF OwnershipInv, LiveRunIsActive
  <2>5. PortMatchesThread'
    BY <2>1, <2>2 DEF OwnershipInv, PortMatchesThread, StateMatchesThread, HoldsPort
  <2>6. TorqueIsOwned'
    BY <2>1 DEF OwnershipInv, TorqueIsOwned
  <2>7. CleanExitIsIdle'
    BY <2>1 DEF OwnershipInv, CleanExitIsIdle, Idle
  <2> QED
    BY <2>3, <2>4, <2>5, <2>6, <2>7 DEF OwnershipInv
<1>16. ASSUME NEW r \in Runs, Close(r) PROVE OwnershipInv'
  <2>1. /\ Alive /\ pc[r] = "close" /\ pc' = [pc EXCEPT ![r] = "settle"]
        /\ held' = [held EXCEPT ![r] = FALSE]
        /\ UNCHANGED <<state, active, server, gaveUp>>
    BY <1>16 DEF Close, Step
  <2>2. /\ pc \in [Runs -> ThreadPositions] /\ held \in [Runs -> BOOLEAN]
        /\ energized \in Runs \cup {NoRun}
    BY DEF TypeOK
  <2>3. StateMatchesThread'
    BY <2>1, <2>2 DEF OwnershipInv, StateMatchesThread, TerminalStates
  <2>4. LiveRunIsActive' /\ CleanExitIsIdle'
    BY <2>1 DEF OwnershipInv, LiveRunIsActive, CleanExitIsIdle, Idle, Alive
  <2>5. \/ ports' = ports \ {r} /\ leaked' = leaked
        \/ ports' = ports /\ leaked' = leaked \cup {r}
        \/ ~Bound(r) /\ ports' = ports /\ leaked' = leaked
    BY <1>16 DEF Close, GiveBack
  <2>6. PortMatchesThread'
    BY <2>1, <2>2, <2>5 DEF OwnershipInv, PortMatchesThread, HoldsPort
  <2>7. TorqueIsOwned'
    BY <1>16 DEF Close, GiveBack, OwnershipInv, TorqueIsOwned
  <2> QED
    BY <2>3, <2>4, <2>6, <2>7 DEF OwnershipInv
<1>17. ASSUME NEW r \in Runs, Settle(r) PROVE OwnershipInv'
  <2>1. /\ server # "exited"
        /\ pc[r] = "settle" /\ pc' = [pc EXCEPT ![r] = "ended"]
        /\ \E s \in TerminalStates : state' = [state EXCEPT ![r] = s]
        /\ UNCHANGED <<active, ports, held, energized, stuck, leaked, server, gaveUp>>
    BY <1>17 DEF Settle, Step, Alive, Outcome, TerminalStates
  <2>2. state \in [Runs -> RunStates] /\ pc \in [Runs -> ThreadPositions]
    BY DEF TypeOK
  <2>3. StateMatchesThread'
    BY <2>1, <2>2 DEF OwnershipInv, StateMatchesThread, TerminalStates
  <2>4. LiveRunIsActive'
    BY <2>1, <2>2 DEF OwnershipInv, LiveRunIsActive, TerminalStates
  <2>5. PortMatchesThread'
    BY <2>1, <2>2 DEF OwnershipInv, PortMatchesThread, StateMatchesThread, HoldsPort
  <2>6. TorqueIsOwned'
    BY <2>1 DEF OwnershipInv, TorqueIsOwned
  <2>7. CleanExitIsIdle'
    BY <2>1 DEF OwnershipInv, CleanExitIsIdle
  <2> QED
    BY <2>3, <2>4, <2>5, <2>6, <2>7 DEF OwnershipInv
<1>18. CASE RequestShutdown \/ Ending
  BY <1>18 DEF RequestShutdown, Ending, Interrupt, InterruptedExit, StopListening, Exit,
               OwnershipInv, StateMatchesThread,
               LiveRunIsActive, PortMatchesThread, TorqueIsOwned, CleanExitIsIdle,
               Idle, Alive
<1>19. ASSUME NEW r \in Runs, NEW seq, NEW chunk \in Chunks, NEW last \in BOOLEAN,
              AppendChunk(r, seq, chunk, last)
       PROVE  UNCHANGED ownVars
  BY <1>19 DEF AppendChunk, ownVars
<1>20. ASSUME NEW r \in Runs, Heartbeat(r) \/ Cancel(r) \/ HeartbeatExpires(r)
       PROVE  UNCHANGED ownVars
  BY <1>20 DEF Heartbeat, Cancel, HeartbeatExpires, ownVars
<1>21. EmergencyStop \/ Terminated \/ UNCHANGED vars => UNCHANGED ownVars
  BY DEF EmergencyStop, Terminated, vars, ownVars
<1> QED
  BY <1>1, <1>2, <1>3, <1>4, <1>5, <1>6, <1>7, <1>8, <1>9, <1>10, <1>11, <1>12,
     <1>13, <1>14, <1>15, <1>16, <1>17, <1>18, <1>19, <1>20, <1>21
     DEF Next, Message, Thread, Ending

\* The ownership invariant holds in every reachable state.
THEOREM OwnershipInvariant == Spec => []OwnershipInv
BY TypeCorrect, OwnershipInit, OwnershipNext, PTL DEF Spec

\* The run on the bus is the controller's active run, arming or running.
LEMMA PortImpliesActive ==
    ASSUME TypeOK, OwnershipInv, NEW r \in Runs, Bound(r)
    PROVE  active = r /\ state[r] \in {"arming", "running"}
<1>1. pc[r] \notin {"none", "ended"}
  BY DEF OwnershipInv, PortMatchesThread, HoldsPort
<1>2. state[r] \in RunStates
  BY DEF TypeOK
<1>3. state[r] \in {"arming", "running"}
  BY <1>1, <1>2 DEF OwnershipInv, StateMatchesThread, RunStates, TerminalStates
<1> QED
  BY <1>3 DEF OwnershipInv, LiveRunIsActive

\* One run at a time is on the bus, for any number of runs and connections.
THEOREM BusIsExclusive == Spec => []OneRunOnTheBus
<1>1. TypeOK /\ OwnershipInv => OneRunOnTheBus
  BY PortImpliesActive DEF OneRunOnTheBus
<1> QED
  BY <1>1, TypeCorrect, OwnershipInvariant, PTL

\* A run is terminal only after its backend was closed: what is still open or on is what
\* the bus refused to give back.
THEOREM TerminalReleases == Spec => []TerminalHasReleased
<1>1. TypeOK /\ OwnershipInv => TerminalHasReleased
  BY RunAssumption
     DEF TypeOK, OwnershipInv, StateMatchesThread, PortMatchesThread, TorqueIsOwned,
         TerminalHasReleased, HoldsPort, Bound
<1> QED
  BY <1>1, TypeCorrect, OwnershipInvariant, PTL

\* Where the event loop supports signal handlers, a process that ends without giving up
\* its wait leaves no torque on that the bus agreed to switch off.
THEOREM CleanExitDisables ==
    ASSUME "interrupt" \notin SignalPaths
    PROVE  Spec => []CleanExitIsDisabled
<1>1. TypeOK /\ OwnershipInv => CleanExitIsDisabled
  <2> SUFFICES ASSUME TypeOK, OwnershipInv, server = "exited", ~gaveUp, energized # NoRun,
                      Bound(energized)
               PROVE  FALSE
    BY DEF CleanExitIsDisabled, OwnershipInv, TorqueIsOwned
  <2>1. active # NoRun => state[active] \in TerminalStates
    BY DEF OwnershipInv, CleanExitIsIdle, Idle
  <2>2. energized \in Runs
    BY DEF TypeOK
  <2>3. active = energized /\ state[energized] \in {"arming", "running"}
    BY <2>2, PortImpliesActive
  <2> QED
    BY <2>1, <2>3 DEF TerminalStates
<1> QED
  BY <1>1, TypeCorrect, OwnershipInvariant, PTL

-----------------------------------------------------------------------------
(* Facts about the operators on points. *)

\* A point of a buffer has a time and a position.
LEMMA PointOfBuffer ==
    ASSUME NEW s \in Seq(Point), NEW i \in 1 .. Len(s)
    PROVE  s[i] \in Point /\ s[i].t \in Nat /\ s[i].q \in Int
<1>1. s[i] \in Point
  OBVIOUS
<1> QED
  BY <1>1 DEF Point

\* In a trajectory whose segments are valid, times grow with the index.
LEMMA TimesGrow ==
    ASSUME NEW s \in Seq(Point), NEW m \in 1 .. Len(s),
           \A i \in m + 1 .. Len(s) : ValidateSegment(s[i - 1], s[i])
    PROVE  \A i \in m .. Len(s) : s[m].t <= s[i].t
<1> DEFINE S == {i \in m .. Len(s) : s[m].t <= s[i].t}
<1>1. Len(s) \in Nat /\ m \in Nat
  OBVIOUS
<1>2. ASSUME NEW i \in 1 .. Len(s) PROVE s[i].t \in Nat
  BY PointOfBuffer
<1>3. m \in S
  BY <1>2
<1>4. ASSUME NEW i \in m .. Len(s) - 1, i \in S
      PROVE  i + 1 \in S
  <2>1. /\ i \in 1 .. Len(s) /\ i + 1 \in 1 .. Len(s)
        /\ i + 1 \in m + 1 .. Len(s) /\ (i + 1) - 1 = i
    BY <1>1
  <2>2. ValidateSegment(s[i], s[i + 1])
    BY <2>1
  <2>3. s[i + 1].t - s[i].t >= MinSegment
    BY <2>2 DEF ValidateSegment
  <2>4. s[i].t \in Nat /\ s[i + 1].t \in Nat /\ s[m].t \in Nat /\ MinSegment \in Nat
    BY <1>2, <2>1, PolicyAssumption
  <2>5. s[m].t <= s[i].t
    BY <1>4
  <2>6. s[m].t <= s[i + 1].t
    <3>1. \A a, b, c, d \in Nat : b - c >= d /\ a <= c => a <= b
      OBVIOUS
    <3> QED
      BY <2>3, <2>4, <2>5, <3>1
  <2> QED
    BY <2>1, <2>6
<1> HIDE DEF S
<1>5. \A i \in m .. Len(s) : i \in S
  BY <1>1, <1>3, <1>4, IntervalInduction
<1> QED
  BY <1>5 DEF S

\* Time does not go back when a valid chunk is appended, and the buffer then
\* ends where the chunk ends.
LEMMA LastTGrows ==
    ASSUME NEW s \in Seq(Point), NEW c \in Seq(Point), Len(c) >= 1,
           \A i \in Len(s) + 1 .. Len(s \o c) :
               i # 1 => ValidateSegment((s \o c)[i - 1], (s \o c)[i])
    PROVE  LastT(s \o c) = LastT(c) /\ LastT(s) <= LastT(s \o c)
<1> DEFINE a == s \o c
<1>1. a \in Seq(Point) /\ Len(a) = Len(s) + Len(c) /\ Len(s) \in Nat /\ Len(c) \in Nat
  OBVIOUS
<1>2. \A i \in 1 .. Len(s) + Len(c) :
        a[i] = IF i <= Len(s) THEN s[i] ELSE c[i - Len(s)]
  BY ConcatProperties
<1>3. a[Len(a)] = c[Len(c)]
  BY <1>1, <1>2
<1>4. a # << >> /\ c # << >>
  BY <1>1
<1>5. LastT(a) = a[Len(a)].t /\ LastT(c) = c[Len(c)].t
  BY <1>4 DEF LastT, Last
<1>6. LastT(s) <= LastT(a)
  <2>1. CASE s = << >>
    BY <2>1, <1>1, LastTType DEF LastT
  <2>2. CASE s # << >>
    <3>1. Len(s) \in 1 .. Len(a)
      BY <2>2, <1>1
    <3>2. \A i \in Len(s) + 1 .. Len(a) : ValidateSegment(a[i - 1], a[i])
      BY <3>1, <1>1
    <3> HIDE DEF a
    <3>3. a[Len(s)].t <= a[Len(a)].t
      <4>1. \A i \in Len(s) .. Len(a) : a[Len(s)].t <= a[i].t
        BY <3>1, <3>2, <1>1, TimesGrow
      <4> QED
        BY <4>1, <3>1, <1>1
    <3>4. a[Len(s)] = s[Len(s)]
      BY <3>1, <1>1, <1>2
    <3> QED
      BY <2>2, <3>3, <3>4, <1>5 DEF LastT, Last
  <2> QED
    BY <2>1, <2>2
<1> QED
  BY <1>3, <1>5, <1>6

-----------------------------------------------------------------------------
(* Frames: which steps touch the buffer, and how. *)

bufferVars == <<points, receipts, final>>

\* Only append_chunk touches the buffer of a run; nothing changes its config.
LEMMA BufferFrame ==
    [Next]_vars =>
        /\ config' = config
        /\ \/ UNCHANGED bufferVars
           \/ \E r \in Runs, chunk \in Chunks, last \in BOOLEAN : \E seq :
                 AppendChunk(r, seq, chunk, last)
<1> SUFFICES ASSUME [Next]_vars
             PROVE  /\ config' = config
                    /\ \/ UNCHANGED bufferVars
                       \/ \E r \in Runs, chunk \in Chunks, last \in BOOLEAN : \E seq :
                             AppendChunk(r, seq, chunk, last)
  OBVIOUS
<1> USE DEF runVars, bufferVars
<1>1. ASSUME NEW r \in Runs, OpenRun(r) \/ StartRun(r) \/ Heartbeat(r) \/ Cancel(r)
      PROVE  config' = config /\ UNCHANGED bufferVars
  BY <1>1 DEF OpenRun, StartRun, Heartbeat, Cancel
<1>2. ASSUME NEW r \in Runs, NEW seq, NEW chunk \in Chunks, NEW last \in BOOLEAN,
             AppendChunk(r, seq, chunk, last)
      PROVE  config' = config
  BY <1>2 DEF AppendChunk
<1>3. ASSUME NEW r \in Runs, Thread(r)
      PROVE  config' = config /\ UNCHANGED bufferVars
  BY <1>3 DEF Thread, Connect, SetOrigin, Validate, Gate, Enable, BeginRunning, Check,
              Finish, Underrun, Drive, TrackingFault, BackendFault, Publish, Hold,
              Close, Settle
<1>4. ASSUME NEW r \in Runs, ConnectionLost(r) \/ HeartbeatExpires(r)
      PROVE  config' = config /\ UNCHANGED bufferVars
  BY <1>4 DEF ConnectionLost, HeartbeatExpires
<1>5. CASE EmergencyStop \/ RequestShutdown \/ Ending \/ Terminated
           \/ UNCHANGED vars
  BY <1>5 DEF EmergencyStop, RequestShutdown, Ending, Interrupt,
         InterruptedExit, StopListening, Exit, Terminated, vars
<1> QED
  BY <1>1, <1>2, <1>3, <1>4, <1>5 DEF Next, Message, Ending

\* An accepted chunk extends the buffer of its run and no other.
LEMMA AppendPoints ==
    ASSUME TypeOK, NEW r \in Runs, NEW seq, NEW chunk \in Chunks, NEW last \in BOOLEAN,
           AppendChunk(r, seq, chunk, last)
    PROVE  /\ Len(points[r]) \in Nat /\ Len(chunk) \in Nat \ {0}
           /\ points'[r] = points[r] \o chunk
           /\ \A i \in 1 .. Len(points[r]) : points'[r][i] = points[r][i]
           /\ \A s \in Runs \ {r} : points'[s] = points[s]
<1>1. chunk \in Seq(Point) /\ points[r] \in Seq(Point)
  BY InputAssumption DEF TypeOK
<1>2. points' = [points EXCEPT ![r] = points[r] \o chunk]
  BY DEF AppendChunk
<1>3. points'[r] = points[r] \o chunk
  BY <1>2 DEF TypeOK
<1>4. \A s \in Runs \ {r} : points'[s] = points[s]
  BY <1>2 DEF TypeOK
<1>5. /\ points[r] \o chunk \in Seq(Point)
      /\ Len(points[r] \o chunk) = Len(points[r]) + Len(chunk)
      /\ \A i \in 1 .. Len(points[r]) : (points[r] \o chunk)[i] = points[r][i]
  BY <1>1
<1>6. Len(chunk) >= 1
  BY DEF AppendChunk, Appendable
<1>7. Len(points[r]) \in Nat /\ Len(chunk) \in Nat
  BY <1>1
<1> QED
  BY <1>1, <1>3, <1>4, <1>5, <1>6, <1>7

\* The checks an accepted chunk has passed.
LEMMA AppendGuard ==
    ASSUME TypeOK, NEW r \in Runs, NEW seq, NEW chunk \in Chunks, NEW last \in BOOLEAN,
           AppendChunk(r, seq, chunk, last)
    PROVE  /\ ~final[r]
           /\ state[r] \in {"buffering", "running"}
           /\ ValidExtension(r, chunk)
           /\ WithinHorizon(r, chunk)
BY DEF AppendChunk, Appendable

\* Everything but the buffer is left alone.
LEMMA AppendFrame ==
    ASSUME TypeOK, NEW r \in Runs, NEW seq, NEW chunk \in Chunks, NEW last \in BOOLEAN,
           AppendChunk(r, seq, chunk, last)
    PROVE  /\ config' = config /\ state' = state /\ cursor' = cursor
           /\ origin' = origin /\ stop' = stop /\ stale' = stale
           /\ UNCHANGED threadVars /\ UNCHANGED motorVars
BY DEF AppendChunk

-----------------------------------------------------------------------------
(* The buffer: the accepted points, their receipts, the declared program. *)

\* Appending a chunk keeps the trajectory valid across the chunk border.
LEMMA TrajectoryValidNext ==
    TypeOK /\ TypeOK' /\ TrajectoryValid /\ [Next]_vars => TrajectoryValid'
<1> SUFFICES ASSUME TypeOK, TypeOK', TrajectoryValid, [Next]_vars
             PROVE  TrajectoryValid'
  OBVIOUS
<1>1. CASE config' = config /\ UNCHANGED bufferVars
  BY <1>1 DEF TrajectoryValid, bufferVars
<1>2. ASSUME NEW r \in Runs, NEW chunk \in Chunks, NEW last \in BOOLEAN, NEW seq,
             AppendChunk(r, seq, chunk, last)
      PROVE  TrajectoryValid'
  <2> DEFINE OK(s, i, c) == /\ IF i = 1 THEN ValidFirst(s[i], c)
                                        ELSE ValidateSegment(s[i - 1], s[i])
                            /\ ValidatePosition(s[i], c)
  <2>1. ASSUME NEW i \in 1 .. Len(points'[r])
        PROVE  OK(points'[r], i, config[r].coord)
    <3>1. /\ Len(points[r]) \in Nat
          /\ points'[r] = points[r] \o chunk
          /\ \A j \in 1 .. Len(points[r]) : points'[r][j] = points[r][j]
      <4>1. points'[r] = points[r] \o chunk
        BY <1>2, AppendPoints, ZenonT(30)
      <4>2. Len(points[r]) \in Nat
        BY DEF TypeOK
      <4>3. \A j \in 1 .. Len(points[r]) : points'[r][j] = points[r][j]
        BY <1>2, AppendPoints, ZenonT(30)
      <4> QED
        BY <4>1, <4>2, <4>3
    <3>2. CASE i \in Len(points[r]) + 1 .. Len(points'[r])
      <4>1. ValidExtension(r, chunk)
        BY <1>2, AppendGuard
      <4> QED
        BY <3>1, <3>2, <4>1 DEF ValidExtension
    <3>3. CASE i <= Len(points[r])
      <4>1. /\ i \in 1 .. Len(points[r])
            /\ i # 1 => i - 1 \in 1 .. Len(points[r])
        BY <3>1, <3>3
      <4>2. points'[r][i] = points[r][i] /\ (i # 1 => points'[r][i - 1] = points[r][i - 1])
        BY <3>1, <4>1
      <4>3. OK(points[r], i, config[r].coord)
        BY <4>1 DEF TrajectoryValid
      <4> QED
        BY <4>2, <4>3
    <3>4. Len(points'[r]) \in Nat
      BY DEF TypeOK
    <3> HIDE DEF OK
    <3> QED
      BY <3>1, <3>2, <3>3, <3>4
  <2>2. /\ config' = config
        /\ \A s \in Runs \ {r} : points'[s] = points[s]
    BY <1>2, AppendPoints, AppendFrame
  <2> QED
    BY <2>1, <2>2 DEF TrajectoryValid
<1> QED
  BY <1>1, <1>2, BufferFrame

\* The accepted points of every run form one valid trajectory.
THEOREM TrajectoryIsValid == Spec => []TrajectoryValid
<1>1. Init => TrajectoryValid
  BY DEF Init, TrajectoryValid
<1> QED
  BY <1>1, TrajectoryValidNext, TypeCorrect, PTL DEF Spec

\* A receipt: the chunk, whether it was the final one, where it ends.
Receipt == [chunk : Seq(Point), final : BOOLEAN, upto : Nat]

\* No mark of a receipt lies beyond the marks of later ones.
LEMMA MarksGrow ==
    ASSUME NEW R \in Seq(Receipt),
           NEW m \in 1 .. Len(R),
           \A k \in 2 .. Len(R) : R[k].upto = R[k - 1].upto + Len(R[k].chunk)
    PROVE  \A i \in m .. Len(R) : R[m].upto <= R[i].upto
<1> DEFINE S == {i \in m .. Len(R) : R[m].upto <= R[i].upto}
<1>1. Len(R) \in Nat /\ m \in Nat
  OBVIOUS
<1>2. ASSUME NEW i \in 1 .. Len(R) PROVE R[i].upto \in Nat /\ Len(R[i].chunk) \in Nat
  <2>1. R[i] \in Receipt
    OBVIOUS
  <2> QED
    BY <2>1 DEF Receipt
<1>3. m \in S
  BY <1>2
<1>4. ASSUME NEW i \in m .. Len(R) - 1, i \in S
      PROVE  i + 1 \in S
  <2>1. /\ i \in 1 .. Len(R) /\ i + 1 \in 1 .. Len(R)
        /\ i + 1 \in 2 .. Len(R) /\ (i + 1) - 1 = i
    BY <1>1
  <2>2. R[i + 1].upto = R[i].upto + Len(R[i + 1].chunk)
    BY <2>1
  <2>3. /\ R[i].upto \in Nat /\ R[i + 1].upto \in Nat /\ R[m].upto \in Nat
        /\ Len(R[i + 1].chunk) \in Nat
    BY <1>2, <2>1
  <2>4. R[m].upto <= R[i].upto
    BY <1>4
  <2>5. R[m].upto <= R[i + 1].upto
    BY <2>2, <2>3, <2>4, SMTT(30)
  <2> QED
    BY <2>1, <2>5
<1> HIDE DEF S
<1>5. \A i \in m .. Len(R) : i \in S
  BY <1>1, <1>3, <1>4, IntervalInduction
<1> QED
  BY <1>5 DEF S

\* What a run's receipts R, its buffer P and its final flag f have to agree on.
Tiles(R, P, f) ==
    /\ (IF R = << >> THEN 0 ELSE Last(R).upto) = Len(P)
    /\ \A k \in 1 .. Len(R) :
          LET from == IF k = 1 THEN 0 ELSE R[k - 1].upto
          IN  /\ R[k].upto = from + Len(R[k].chunk)
              /\ SubSeq(P, from + 1, R[k].upto) = R[k].chunk
              /\ R[k].final = (f /\ k = Len(R))

\* A buffer that is tiled by its receipts still is after both were extended.
LEMMA TilesExtended ==
    ASSUME NEW R \in Seq(Receipt), NEW P \in Seq(Point), NEW c \in Seq(Point),
           NEW last \in BOOLEAN, Len(c) \in Nat \ {0}, Tiles(R, P, FALSE)
    PROVE  Tiles(Append(R, [chunk |-> c, final |-> last, upto |-> Len(P) + Len(c)]),
                 P \o c, last)
<1> DEFINE rec == [chunk |-> c, final |-> last, upto |-> Len(P) + Len(c)]
<1> DEFINE A == Append(R, rec)
<1> DEFINE n == Len(R)
<1>1. n \in Nat /\ Len(P) \in Nat /\ Len(P \o c) = Len(P) + Len(c)
  OBVIOUS
<1>2. rec \in Receipt
  BY <1>1 DEF Receipt
<1> HIDE DEF rec
<1>3. Len(A) = n + 1 /\ A[n + 1] = rec /\ A # << >> /\ \A k \in 1 .. n : A[k] = R[k]
  BY <1>2, AppendProperties
<1>4. rec.chunk = c /\ rec.final = last /\ rec.upto = Len(P) + Len(c)
  BY DEF rec
<1>5. n = 0 => Len(P) = 0
  BY <1>1 DEF Tiles
<1>6. n # 0 => R[n].upto = Len(P)
  BY <1>1 DEF Tiles, Last
<1> HIDE DEF A
<1>7. (IF A = << >> THEN 0 ELSE Last(A).upto) = Len(P \o c)
  BY <1>1, <1>3, <1>4 DEF Last
<1> DEFINE from(k) == IF k = 1 THEN 0 ELSE A[k - 1].upto
<1> DEFINE Tile(k) == /\ A[k].upto = from(k) + Len(A[k].chunk)
                      /\ SubSeq(P \o c, from(k) + 1, A[k].upto) = A[k].chunk
                      /\ A[k].final = (last /\ k = Len(A))
<1>8. Tile(n + 1)
  <2>1. from(n + 1) = Len(P)
    BY <1>1, <1>3, <1>5, <1>6
  <2>2. SubSeq(P \o c, Len(P) + 1, Len(P) + Len(c)) = c
    <3>1. /\ Len(P) + 1 \in Len(P) + 1 .. Len(P) + Len(c)
          /\ Len(P) + Len(c) \in Len(P) + 1 .. Len(P) + Len(c)
          /\ (Len(P) + 1) - Len(P) = 1 /\ (Len(P) + Len(c)) - Len(P) = Len(c)
      BY <1>1
    <3>2. SubSeq(P \o c, Len(P) + 1, Len(P) + Len(c)) = SubSeq(c, 1, Len(c))
      BY <3>1, SubSeqOfConcat2
    <3> QED
      BY <3>2, SubSeqFull
  <2>3. A[n + 1].upto = Len(P) + Len(c) /\ A[n + 1].chunk = c
    BY <1>3, <1>4
  <2>4. A[n + 1].final = (last /\ n + 1 = Len(A))
    BY <1>3, <1>4
  <2> HIDE DEF from
  <2> QED
    BY <2>1, <2>2, <2>3, <2>4
<1>9. ASSUME NEW k \in 1 .. n PROVE Tile(k)
  <2> DEFINE old == IF k = 1 THEN 0 ELSE R[k - 1].upto
  <2>1. from(k) = old /\ A[k] = R[k]
    BY <1>1, <1>3
  <2>2. /\ R[k].upto = old + Len(R[k].chunk)
        /\ SubSeq(P, old + 1, R[k].upto) = R[k].chunk
        /\ R[k].final = FALSE
    BY DEF Tiles
  <2>3. old \in Nat /\ R[k].upto \in Nat /\ Len(R[k].chunk) \in Nat
    <3>1. R[k] \in Receipt /\ (k # 1 => R[k - 1] \in Receipt)
      BY <1>1
    <3> QED
      BY <3>1 DEF Receipt
  <2>4. R[k].upto <= Len(P)
    <3>1. \A j \in 2 .. Len(R) : R[j].upto = R[j - 1].upto + Len(R[j].chunk)
      BY <1>1 DEF Tiles
    <3>2. \A i \in k .. n : R[k].upto <= R[i].upto
      BY <3>1, MarksGrow
    <3>3. n \in k .. n /\ n # 0
      BY <1>1
    <3> QED
      BY <3>2, <3>3, <1>6
  <2>5. SubSeq(P \o c, old + 1, R[k].upto) = SubSeq(P, old + 1, R[k].upto)
    <3>1. CASE R[k].upto < old + 1
      <4>1. old + 1 \in Int /\ R[k].upto \in Int
        BY <2>3
      <4> HIDE DEF old
      <4> QED
        BY <3>1, <4>1, SubSeqEmpty
    <3>2. CASE R[k].upto >= old + 1
      <4>1. old + 1 \in 1 .. Len(P) /\ R[k].upto \in 1 .. Len(P)
        BY <1>1, <2>3, <2>4, <3>2
      <4> HIDE DEF old
      <4> QED
        BY <4>1, SubSeqOfConcat1
    <3>3. R[k].upto < old + 1 \/ R[k].upto >= old + 1
      BY <2>3
    <3> QED
      BY <3>1, <3>2, <3>3
  <2>6. k # Len(A)
    BY <1>1, <1>3
  <2> HIDE DEF old, from
  <2> QED
    BY <2>1, <2>2, <2>5, <2>6
<1>10. \A k \in 1 .. Len(A) : Tile(k)
  <2> HIDE DEF Tile
  <2>1. ASSUME NEW k \in 1 .. n + 1 PROVE Tile(k)
    BY <1>1, <1>8, <1>9
  <2> QED
    BY <2>1, <1>3
<1>11. Tiles(A, P \o c, last)
  BY <1>7, <1>10 DEF Tiles
<1> QED
  BY <1>11 DEF A, rec

\* A step keeps the receipts in step with the buffer: only append_chunk writes either.
LEMMA ReceiptsNext ==
    TypeOK /\ ReceiptsTileTheBuffer /\ [Next]_vars => ReceiptsTileTheBuffer'
<1> SUFFICES ASSUME TypeOK, ReceiptsTileTheBuffer, [Next]_vars
             PROVE  ReceiptsTileTheBuffer'
  OBVIOUS
<1>1. \A r \in Runs : Tiles(receipts[r], points[r], final[r])
  BY DEF ReceiptsTileTheBuffer, Tiles
<1>2. (\A r \in Runs : Tiles(receipts'[r], points'[r], final'[r]))
        => ReceiptsTileTheBuffer'
  BY DEF ReceiptsTileTheBuffer, Tiles
<1>3. CASE UNCHANGED bufferVars
  BY <1>1, <1>2, <1>3 DEF bufferVars
<1>4. ASSUME NEW r \in Runs, NEW chunk \in Chunks, NEW last \in BOOLEAN, NEW seq,
             AppendChunk(r, seq, chunk, last)
      PROVE  \A s \in Runs : Tiles(receipts'[s], points'[s], final'[s])
  <2> DEFINE rec == [chunk |-> chunk, final |-> last, upto |-> Len(points[r]) + Len(chunk)]
  <2>1. /\ points' = [points EXCEPT ![r] = points[r] \o chunk]
        /\ receipts' = [receipts EXCEPT ![r] = Append(receipts[r], rec)]
        /\ final' = [final EXCEPT ![r] = last]
    BY <1>4 DEF AppendChunk
  <2>2. /\ points \in [Runs -> Seq(Point)] /\ final \in [Runs -> BOOLEAN]
        /\ receipts \in [Runs -> Seq(Receipt)] /\ chunk \in Seq(Point)
    BY InputAssumption DEF TypeOK, Receipt
  <2>3. final[r] = FALSE /\ Len(chunk) \in Nat \ {0}
    <3>1. ~final[r] /\ Len(chunk) \in 1 .. MaxChunkPoints
      BY <1>4 DEF AppendChunk, Appendable
    <3>2. final[r] \in BOOLEAN
      BY <2>2
    <3> QED
      BY <3>1, <3>2, PolicyAssumption
  <2>4. Tiles(receipts[r], points[r], FALSE)
    BY <1>1, <2>3
  <2>5. receipts[r] \in Seq(Receipt) /\ points[r] \in Seq(Point)
    BY <2>2
  <2>6. Tiles(Append(receipts[r], rec), points[r] \o chunk, last)
    BY <2>2, <2>3, <2>4, <2>5, TilesExtended
  <2> HIDE DEF rec
  <2>7. /\ receipts'[r] = Append(receipts[r], rec) /\ points'[r] = points[r] \o chunk
        /\ final'[r] = last
        /\ \A s \in Runs \ {r} : /\ receipts'[s] = receipts[s]
                                 /\ points'[s] = points[s] /\ final'[s] = final[s]
    BY <2>1, <2>2
  <2> QED
    BY <1>1, <2>6, <2>7
<1> QED
  BY <1>2, <1>3, <1>4, BufferFrame

\* The receipts of a run tile its buffer, whatever was sent, resent or refused.
THEOREM ReceiptsTile == Spec => []ReceiptsTileTheBuffer
<1>1. ASSUME Init PROVE ReceiptsTileTheBuffer
  <2>1. Tiles(<< >>, << >>, FALSE)
    BY DEF Tiles
  <2>2. \A r \in Runs : receipts[r] = << >> /\ points[r] = << >> /\ final[r] = FALSE
    BY <1>1 DEF Init
  <2>3. \A r \in Runs : Tiles(receipts[r], points[r], final[r])
    BY <2>1, <2>2
  <2> QED
    BY <2>3 DEF ReceiptsTileTheBuffer, Tiles
<1> QED
  BY <1>1, ReceiptsNext, TypeCorrect, PTL DEF Spec

\* A buffer that got its final chunk holds the declared program.
FinalIsDeclared == \A r \in Runs : final[r] => points[r] = config[r].declared

\* A sealed program starts only when it is complete.
SealedIsFinal ==
    \A r \in Runs : config[r].mode = "sealed" /\ pc[r] # "none" => final[r]

\* A step keeps it: only a chunk marked final sets the final time, and none follows it.
LEMMA DeclaredNext == TypeOK /\ FinalIsDeclared /\ [Next]_vars => FinalIsDeclared'
<1> SUFFICES ASSUME TypeOK, FinalIsDeclared, [Next]_vars
             PROVE  FinalIsDeclared'
  OBVIOUS
<1>1. CASE config' = config /\ UNCHANGED bufferVars
  BY <1>1 DEF FinalIsDeclared, bufferVars
<1>2. ASSUME NEW r \in Runs, NEW chunk \in Chunks, NEW last \in BOOLEAN, NEW seq,
             AppendChunk(r, seq, chunk, last)
      PROVE  FinalIsDeclared'
  <2>1. /\ points' = [points EXCEPT ![r] = points[r] \o chunk]
        /\ final' = [final EXCEPT ![r] = last]
        /\ last => points[r] \o chunk = config[r].declared
        /\ config' = config
    BY <1>2 DEF AppendChunk, DigestMatches
  <2>2. points \in [Runs -> Seq(Point)] /\ final \in [Runs -> BOOLEAN]
    BY DEF TypeOK
  <2> QED
    BY <2>1, <2>2 DEF FinalIsDeclared
<1> QED
  BY <1>1, <1>2, BufferFrame

-----------------------------------------------------------------------------
(* The cursor.  It trails the thread's clock, and never passes the buffer: the *)
(* clock is published only by a cycle that found it inside the buffer, and the *)
(* buffer only grows.                                                          *)

CursorInv ==
    \A r \in Runs :
        /\ cursor[r] <= now[r]
        /\ cursor[r] <= LastT(points[r])
        /\ pc[r] = "publish" => now[r] <= LastT(points[r])

\* The last time in a buffer never goes back.
LEMMA LastTMonotone ==
    ASSUME TypeOK, [Next]_vars, NEW r \in Runs
    PROVE  LastT(points[r]) <= LastT(points'[r])
<1>1. LastT(points[r]) \in Nat
  BY LastTType DEF TypeOK
<1>2. CASE UNCHANGED bufferVars
  BY <1>1, <1>2 DEF bufferVars
<1>3. ASSUME NEW s \in Runs, NEW chunk \in Chunks, NEW last \in BOOLEAN, NEW seq,
             AppendChunk(s, seq, chunk, last)
      PROVE  LastT(points[r]) <= LastT(points'[r])
  <2>1. CASE r # s
    <3>1. points'[r] = points[r]
      BY <1>3, <2>1, AppendPoints
    <3> QED
      BY <1>1, <3>1
  <2>2. CASE r = s
    <3>1. points'[r] = points[r] \o chunk
      BY <1>3, <2>2, AppendPoints
    <3>2. Len(chunk) \in Nat \ {0}
      BY <1>3, AppendPoints
    <3>3. points[r] \in Seq(Point) /\ chunk \in Seq(Point)
      BY InputAssumption DEF TypeOK
    <3>4. \A i \in Len(points[r]) + 1 .. Len(points[r] \o chunk) :
            i # 1 => ValidateSegment((points[r] \o chunk)[i - 1], (points[r] \o chunk)[i])
      <4>1. ValidExtension(r, chunk)
        BY <1>3, <2>2, AppendGuard
      <4> QED
        BY <4>1 DEF ValidExtension
    <3>5. Len(chunk) >= 1
      BY <3>2
    <3>6. LastT(points[r]) <= LastT(points[r] \o chunk)
      BY <3>3, <3>4, <3>5, LastTGrows
    <3> QED
      BY <3>1, <3>6
  <2> QED
    BY <2>1, <2>2
<1> QED
  BY <1>2, <1>3, BufferFrame

\* Only the end of a cycle and the end of a program move the cursor, and only a
\* cycle that drove the arm comes to publish it.
LEMMA CursorFrame ==
    TypeOK /\ [Next]_vars =>
        \/ /\ UNCHANGED <<cursor, now>>
           /\ \A r \in Runs : pc'[r] = "publish" => pc[r] = "publish"
        \/ \E r \in Runs : Finish(r)
        \/ \E r \in Runs, elapsed \in 1 .. MaxCycle : Publish(r, elapsed)
        \/ \E r \in Runs, exceeded \in BOOLEAN : Drive(r, exceeded)
<1> DEFINE Still == /\ UNCHANGED <<cursor, now>>
                    /\ \A r \in Runs : pc'[r] = "publish" => pc[r] = "publish"
<1> SUFFICES ASSUME TypeOK, [Next]_vars
             PROVE  \/ Still
                    \/ \E r \in Runs : Finish(r)
                    \/ \E r \in Runs, elapsed \in 1 .. MaxCycle : Publish(r, elapsed)
                    \/ \E r \in Runs, exceeded \in BOOLEAN : Drive(r, exceeded)
  OBVIOUS
<1> USE DEF threadVars, runVars
<1>1. pc \in [Runs -> ThreadPositions]
  BY DEF TypeOK
<1>2. ASSUME NEW r \in Runs, OpenRun(r) \/ Heartbeat(r) \/ Cancel(r)
                             \/ ConnectionLost(r) \/ HeartbeatExpires(r)
      PROVE  Still
  BY <1>2 DEF OpenRun, Heartbeat, Cancel, ConnectionLost, HeartbeatExpires
<1>3. ASSUME NEW r \in Runs, NEW seq, NEW chunk \in Chunks, NEW last \in BOOLEAN,
             AppendChunk(r, seq, chunk, last)
      PROVE  Still
  BY <1>3 DEF AppendChunk
<1>4. ASSUME NEW r \in Runs, NEW pose \in Poses, StartRun(r) \/ SetOrigin(r, pose)
      PROVE  Still
  BY <1>1, <1>4 DEF StartRun, SetOrigin, Step
<1>5. ASSUME NEW r \in Runs, StartRun(r) \/ Connect(r) \/ Validate(r) \/ Gate(r)
                             \/ Enable(r) \/ BeginRunning(r) \/ Check(r)
      PROVE  Still
  <2>1. /\ UNCHANGED <<cursor, now>>
        /\ \E to \in ThreadPositions \ {"publish"} : pc' = [pc EXCEPT ![r] = to]
    BY <1>5 DEF StartRun, Connect, Validate, Gate, Enable, BeginRunning, Check, Step,
                Leave, ThreadPositions
  <2> QED
    BY <1>1, <2>1
<1>6. ASSUME NEW r \in Runs, Underrun(r) \/ TrackingFault(r) \/ BackendFault(r)
                             \/ Hold(r) \/ Close(r) \/ Settle(r)
      PROVE  Still
  <2>1. /\ UNCHANGED <<cursor, now>>
        /\ \E to \in ThreadPositions \ {"publish"} : pc' = [pc EXCEPT ![r] = to]
    BY <1>6 DEF Underrun, TrackingFault, BackendFault, Hold, Close, Settle, Step,
                Leave, ThreadPositions
  <2> QED
    BY <1>1, <2>1
<1>7. CASE EmergencyStop \/ RequestShutdown \/ Ending \/ Terminated
           \/ UNCHANGED vars
  BY <1>7 DEF EmergencyStop, RequestShutdown, Ending, Interrupt,
         InterruptedExit, StopListening, Exit, Terminated, vars
<1> HIDE DEF Still
<1> QED
  BY <1>2, <1>3, <1>4, <1>5, <1>6, <1>7 DEF Next, Message, Thread, Ending

\* The cursor invariant is inductive, and no step moves a cursor back.
LEMMA CursorNext ==
    ASSUME TypeOK, TypeOK', CursorInv, [Next]_vars
    PROVE  CursorInv' /\ \A r \in Runs : cursor[r] <= cursor'[r]
<1> DEFINE Good(r) == /\ cursor'[r] <= now'[r]
                      /\ cursor'[r] <= LastT(points'[r])
                      /\ pc'[r] = "publish" => now'[r] <= LastT(points'[r])
                      /\ cursor[r] <= cursor'[r]
<1> SUFFICES \A r \in Runs : Good(r)
  BY DEF CursorInv
<1>1. \A r \in Runs : /\ cursor[r] \in Nat /\ now[r] \in Nat
                      /\ LastT(points[r]) \in Nat /\ LastT(points'[r]) \in Nat
                      /\ LastT(points[r]) <= LastT(points'[r])
  BY LastTType, LastTMonotone DEF TypeOK
<1>2. /\ cursor \in [Runs -> Nat] /\ now \in [Runs -> Nat]
      /\ pc \in [Runs -> ThreadPositions]
  BY DEF TypeOK
<1>3. \A s \in Runs : /\ cursor[s] <= now[s] /\ cursor[s] <= LastT(points[s])
                      /\ pc[s] = "publish" => now[s] <= LastT(points[s])
  BY DEF CursorInv
<1>4. CASE /\ UNCHANGED <<cursor, now>>
           /\ \A r \in Runs : pc'[r] = "publish" => pc[r] = "publish"
  BY <1>1, <1>3, <1>4
<1>5. ASSUME NEW r \in Runs, Finish(r) PROVE \A s \in Runs : Good(s)
  <2>1. /\ now[r] > LastT(points[r]) /\ now' = now /\ points' = points
        /\ pc' = [pc EXCEPT ![r] = "hold"]
        /\ cursor' = cursor \/ cursor' = [cursor EXCEPT ![r] = LastT(points[r])]
    BY <1>5 DEF Finish, PlayedOut, Leave, Step
  <2> QED
    BY <1>1, <1>2, <1>3, <2>1
<1>6. ASSUME NEW r \in Runs, NEW elapsed \in 1 .. MaxCycle, Publish(r, elapsed)
      PROVE  \A s \in Runs : Good(s)
  <2>1. /\ pc[r] = "publish" /\ points' = points
        /\ pc' = [pc EXCEPT ![r] = "check"] \/ pc' = [pc EXCEPT ![r] = "hold"]
        /\ cursor' = [cursor EXCEPT ![r] = now[r]]
        /\ now' = [now EXCEPT ![r] = now[r] + elapsed]
    BY <1>6 DEF Publish, Leave, Step
  <2>2. elapsed \in Nat
    BY PolicyAssumption
  <2> QED
    BY <1>1, <1>2, <1>3, <2>1, <2>2
<1>7. ASSUME NEW r \in Runs, NEW exceeded \in BOOLEAN, Drive(r, exceeded)
      PROVE  \A s \in Runs : Good(s)
  <2>1. /\ ~(now[r] > LastT(points[r])) /\ points' = points
        /\ pc' = [pc EXCEPT ![r] = "publish"] \/ pc' = [pc EXCEPT ![r] = "hold"]
        /\ UNCHANGED <<cursor, now>>
    BY <1>7 DEF Drive, PlayedOut, Leave, Step, runVars
  <2> QED
    BY <1>1, <1>2, <1>3, <2>1
<1> QED
  BY <1>4, <1>5, <1>6, <1>7, CursorFrame

\* So it always holds.
LEMMA CursorInvariant == Spec => []CursorInv
<1>1. Init => CursorInv
  <2> SUFFICES ASSUME Init PROVE CursorInv
    OBVIOUS
  <2>1. ASSUME NEW r \in Runs
        PROVE  cursor[r] = 0 /\ now[r] = 0 /\ LastT(points[r]) = 0 /\ pc[r] = "none"
    BY DEF Init, LastT
  <2>2. ASSUME NEW r \in Runs
        PROVE  cursor[r] <= now[r] /\ cursor[r] <= LastT(points[r]) /\ pc[r] # "publish"
    BY <2>1
  <2> QED
    BY <2>2 DEF CursorInv
<1>2. TypeOK /\ TypeOK' /\ CursorInv /\ [Next]_vars => CursorInv'
  BY CursorNext
<1> QED
  BY <1>1, <1>2, TypeCorrect, PTL DEF Spec

\* Points are never retracted or replaced, and no cursor ever goes back.
THEOREM BufferAndCursorOnlyAdvance == Spec => BufferAndCursorAdvance
<1> DEFINE A == \A r \in Runs :
                  /\ Len(points[r]) <= Len(points'[r])
                  /\ SubSeq(points'[r], 1, Len(points[r])) = points[r]
                  /\ cursor[r] <= cursor'[r]
<1>1. ASSUME TypeOK, TypeOK', CursorInv, [Next]_vars
      PROVE  A
  <2> SUFFICES ASSUME NEW r \in Runs
               PROVE  /\ Len(points[r]) <= Len(points'[r])
                      /\ SubSeq(points'[r], 1, Len(points[r])) = points[r]
                      /\ cursor[r] <= cursor'[r]
    OBVIOUS
  <2>1. cursor[r] <= cursor'[r]
    BY <1>1, CursorNext
  <2>2. points[r] \in Seq(Point) /\ Len(points[r]) \in Nat
    BY <1>1 DEF TypeOK
  <2>3. SubSeq(points[r], 1, Len(points[r])) = points[r]
    BY <2>2, SubSeqFull
  <2>4. CASE points'[r] = points[r]
    BY <2>1, <2>2, <2>3, <2>4
  <2>5. ASSUME NEW chunk \in Seq(Point), points'[r] = points[r] \o chunk
        PROVE  /\ Len(points[r]) <= Len(points'[r])
               /\ SubSeq(points'[r], 1, Len(points[r])) = points[r]
    <3>1. Len(points[r]) <= Len(points[r] \o chunk)
      BY <2>2
    <3>2. SubSeq(points[r] \o chunk, 1, Len(points[r])) = points[r]
      <4>1. CASE Len(points[r]) = 0
        <5>1. points[r] = << >>
          BY <2>2, <4>1
        <5>2. SubSeq(points[r] \o chunk, 1, 0) = << >>
          BY SubSeqEmpty
        <5> QED
          BY <4>1, <5>1, <5>2
      <4>2. CASE Len(points[r]) # 0
        <5>1. 1 \in 1 .. Len(points[r]) /\ Len(points[r]) \in 1 .. Len(points[r])
          BY <2>2, <4>2
        <5> QED
          BY <2>2, <2>3, <5>1, SubSeqOfConcat1
      <4> QED
        BY <4>1, <4>2
    <3> QED
      BY <2>5, <3>1, <3>2
  <2>6. points'[r] = points[r] \/ \E chunk \in Seq(Point) : points'[r] = points[r] \o chunk
    <3>1. CASE UNCHANGED bufferVars
      BY <3>1 DEF bufferVars
    <3>2. ASSUME NEW s \in Runs, NEW chunk \in Chunks, NEW last \in BOOLEAN, NEW seq,
                 AppendChunk(s, seq, chunk, last)
          PROVE  points'[r] = points[r] \/ \E c \in Seq(Point) : points'[r] = points[r] \o c
      <4>1. points'[s] = points[s] \o chunk /\ \A q \in Runs \ {s} : points'[q] = points[q]
        BY <1>1, <3>2, AppendPoints, ZenonT(30)
      <4>2. chunk \in Seq(Point)
        BY InputAssumption
      <4> QED
        BY <4>1, <4>2
    <3> QED
      BY <1>1, <3>1, <3>2, BufferFrame
  <2> QED
    BY <2>1, <2>4, <2>5, <2>6
<1>2. TypeOK /\ TypeOK' /\ CursorInv /\ [Next]_vars => [A]_vars
  BY <1>1
<1> HIDE DEF A
<1>3. Spec => [][A]_vars
  BY <1>2, TypeCorrect, CursorInvariant, PTL DEF Spec
<1> QED
  BY <1>3 DEF A, BufferAndCursorAdvance

\* A streaming client never gets further ahead than the horizon.
THEOREM LookaheadIsBounded == Spec => []LookaheadBounded
<1>1. Init => LookaheadBounded
  <2> SUFFICES ASSUME Init, NEW r \in Runs PROVE LastT(points[r]) - cursor[r] <= MaxHorizon
    BY DEF LookaheadBounded
  <2>1. cursor[r] = 0 /\ points[r] = << >>
    BY DEF Init
  <2> QED
    BY <2>1, PolicyAssumption DEF LastT
<1>2. ASSUME TypeOK, TypeOK', CursorInv, LookaheadBounded, [Next]_vars
      PROVE  LookaheadBounded'
  <2> SUFFICES ASSUME NEW r \in Runs, config'[r].mode = "streaming"
               PROVE  LastT(points'[r]) - cursor'[r] <= MaxHorizon
    BY DEF LookaheadBounded
  <2>1. /\ LastT(points[r]) \in Nat /\ LastT(points'[r]) \in Nat
        /\ cursor[r] \in Nat /\ cursor'[r] \in Nat
    BY <1>2, LastTType DEF TypeOK
  <2>2. cursor[r] <= cursor'[r]
    BY <1>2, CursorNext
  <2>3. config[r].mode = "streaming"
    BY <1>2, BufferFrame
  <2>4. CASE LastT(points'[r]) = LastT(points[r])
    <3>1. LastT(points[r]) - cursor[r] <= MaxHorizon
      BY <1>2, <2>3 DEF LookaheadBounded
    <3> QED
      BY <2>1, <2>2, <2>4, <3>1, PolicyAssumption
  <2>5. ASSUME NEW s \in Runs, NEW chunk \in Chunks, NEW last \in BOOLEAN, NEW seq,
               AppendChunk(s, seq, chunk, last), LastT(points'[r]) # LastT(points[r])
        PROVE  LastT(points'[r]) - cursor'[r] <= MaxHorizon
    <3>1. r = s
      BY <1>2, <2>5, AppendPoints
    <3>2. points'[r] = points[r] \o chunk /\ Len(chunk) \in Nat \ {0}
      BY <1>2, <2>5, <3>1, AppendPoints
    <3>3. points[r] \in Seq(Point) /\ chunk \in Seq(Point)
      BY <1>2, InputAssumption DEF TypeOK
    <3>4. WithinHorizon(r, chunk) /\ ValidExtension(r, chunk)
      BY <1>2, <2>5, <3>1, AppendGuard
    <3>5. \A i \in Len(points[r]) + 1 .. Len(points[r] \o chunk) :
            i # 1 => ValidateSegment((points[r] \o chunk)[i - 1], (points[r] \o chunk)[i])
      BY <3>4 DEF ValidExtension
    <3>6. Len(chunk) >= 1
      BY <3>2
    <3>7. LastT(points[r] \o chunk) = LastT(chunk)
      BY <3>3, <3>5, <3>6, LastTGrows
    <3>8. LastT(points'[r]) - cursor[r] <= MaxHorizon
      BY <2>3, <3>2, <3>4, <3>7 DEF WithinHorizon
    <3> QED
      BY <2>1, <2>2, <3>8, PolicyAssumption
  <2>6. CASE UNCHANGED bufferVars
    BY <2>4, <2>6 DEF bufferVars
  <2> QED
    BY <1>2, <2>4, <2>5, <2>6, BufferFrame
<1>3. TypeOK /\ TypeOK' /\ CursorInv /\ LookaheadBounded /\ [Next]_vars
        => LookaheadBounded'
  BY <1>2
<1> QED
  BY <1>1, <1>3, TypeCorrect, CursorInvariant, PTL DEF Spec

-----------------------------------------------------------------------------
(* How a program ends.  The outcome "completed" is decided when the thread     *)
(* leaves the loop, and announced when it settles: in between, the buffer must *)
(* stay the declared program and the cursor must stay at its end.              *)

\* The positions of the finally clause.
Leaving == {"hold", "close", "settle"}

\* A run that completed, or is about to, has played a complete buffer.
PlayedToTheEnd ==
    \A r \in Runs :
        state[r] = "completed" \/ (pc[r] \in Leaving /\ code[r] = "NONE") =>
            final[r] /\ cursor[r] = LastT(points[r])

\* What a step may do to run r: start its thread, give up for want of points,
\* finish, announce the outcome, move the cursor.
Effect(r) ==
    /\ pc'[r] # "none" => pc[r] # "none" \/ ReadyToStart(r)
    /\ code'[r] = "BUFFER_UNDERRUN" =>
          code[r] = "BUFFER_UNDERRUN" \/ (pc[r] = "drive" /\ ~final[r])
    /\ pc'[r] \in Leaving /\ code'[r] = "NONE" =>
          \/ pc[r] \in Leaving /\ code[r] = "NONE"
          \/ final[r] /\ cursor'[r] = LastT(points[r])
    /\ state'[r] = "completed" =>
          state[r] = "completed" \/ (pc[r] = "settle" /\ code[r] = "NONE")
    /\ cursor'[r] # cursor[r] => pc[r] \in {"drive", "publish"}

\* A step that leaves thread, code, state and cursor of r alone has no effect.
LEMMA NoEffect ==
    ASSUME NEW r \in Runs, pc'[r] = pc[r], code'[r] = code[r], cursor'[r] = cursor[r],
           state'[r] = "completed" => state[r] = "completed"
    PROVE  Effect(r)
BY DEF Effect

\* Every step has one of these effects on every run.
LEMMA StepEffect == TypeOK /\ [Next]_vars => \A r \in Runs : Effect(r)
<1> SUFFICES ASSUME TypeOK, [Next]_vars
             PROVE  \A r \in Runs : Effect(r)
  OBVIOUS
<1> USE DEF runVars, threadVars
<1>0. /\ pc \in [Runs -> ThreadPositions] /\ code \in [Runs -> Codes]
      /\ state \in [Runs -> RunStates] /\ cursor \in [Runs -> Nat]
  BY DEF TypeOK
<1>1. ASSUME NEW r \in Runs, OpenRun(r) \/ Heartbeat(r) \/ Cancel(r)
                             \/ ConnectionLost(r) \/ HeartbeatExpires(r)
      PROVE  \A s \in Runs : Effect(s)
  BY <1>0, <1>1, NoEffect
     DEF OpenRun, Heartbeat, Cancel, ConnectionLost, HeartbeatExpires
<1>2. ASSUME NEW r \in Runs, NEW seq, NEW chunk \in Chunks, NEW last \in BOOLEAN,
             AppendChunk(r, seq, chunk, last)
      PROVE  \A s \in Runs : Effect(s)
  BY <1>2, NoEffect DEF AppendChunk
<1>3. ASSUME NEW r \in Runs, StartRun(r)
      PROVE  \A s \in Runs : Effect(s)
  <2>1. /\ ReadyToStart(r)
        /\ pc' = [pc EXCEPT ![r] = "connect"] /\ state' = [state EXCEPT ![r] = "arming"]
        /\ UNCHANGED <<code, cursor>>
    BY <1>3 DEF StartRun
  <2> QED
    BY <1>0, <2>1 DEF Effect, Leaving
\* A thread on its way to the loop, or going round it.
<1>4. ASSUME NEW r \in Runs, NEW to \in ThreadPositions \ Leaving,
             pc[r] # "none", pc' = [pc EXCEPT ![r] = to], code' = code,
             cursor' # cursor => pc[r] = "publish" /\ \E t : cursor' = [cursor EXCEPT ![r] = t],
             state' = state \/ state' = [state EXCEPT ![r] = "running"]
      PROVE  \A s \in Runs : Effect(s)
  BY <1>0, <1>4 DEF Effect
\* A thread that leaves the loop, or never entered it.
<1>5. ASSUME NEW r \in Runs, NEW c \in Codes \ {"NONE"},
             pc[r] # "none", pc' = [pc EXCEPT ![r] = "hold"],
             code' = [code EXCEPT ![r] = c],
             c = "BUFFER_UNDERRUN" => pc[r] = "drive" /\ ~final[r],
             cursor' # cursor => pc[r] = "publish" /\ \E t : cursor' = [cursor EXCEPT ![r] = t],
             UNCHANGED state
      PROVE  \A s \in Runs : Effect(s)
  BY <1>0, <1>5 DEF Effect
<1>6. ASSUME NEW r \in Runs, Connect(r)
      PROVE  \A s \in Runs : Effect(s)
  <2>1. /\ pc[r] = "connect" /\ UNCHANGED <<cursor, state>>
        /\ \/ pc' = [pc EXCEPT ![r] = "origin"] /\ code' = code
           \/ pc' = [pc EXCEPT ![r] = "hold"] /\ code' = [code EXCEPT ![r] = "OTHER"]
    BY <1>6 DEF Connect, Step, Leave
  <2> QED
    BY <2>1, <1>4, <1>5 DEF ThreadPositions, Leaving, Codes
<1>7. ASSUME NEW r \in Runs, NEW pose \in Poses, SetOrigin(r, pose)
      PROVE  \A s \in Runs : Effect(s)
  <2>1. /\ pc[r] = "origin" /\ UNCHANGED <<cursor, state, code>>
        /\ pc' = [pc EXCEPT ![r] = "validate"]
    BY <1>7 DEF SetOrigin, Step
  <2> QED
    BY <2>1, <1>4 DEF ThreadPositions, Leaving
<1>8. ASSUME NEW r \in Runs, Validate(r) \/ Gate(r) \/ Enable(r) \/ Check(r)
      PROVE  \A s \in Runs : Effect(s)
  <2>1. /\ pc[r] # "none" /\ UNCHANGED <<cursor, state>>
        /\ \/ \E to \in {"gate", "enable", "run", "drive"} :
                 pc' = [pc EXCEPT ![r] = to] /\ code' = code
           \/ \E c \in {"OTHER", "CANCELLED", "HEARTBEAT_LOST"} :
                 pc' = [pc EXCEPT ![r] = "hold"] /\ code' = [code EXCEPT ![r] = c]
    BY <1>8 DEF Validate, Gate, Enable, Check, Step, Leave
  <2> QED
    BY <2>1, <1>4, <1>5 DEF ThreadPositions, Leaving, Codes
<1>9. ASSUME NEW r \in Runs, BeginRunning(r)
      PROVE  \A s \in Runs : Effect(s)
  <2>1. /\ pc[r] = "run" /\ UNCHANGED <<cursor, code>>
        /\ state' = [state EXCEPT ![r] = "running"]
        /\ pc' = [pc EXCEPT ![r] = "check"]
    BY <1>9 DEF BeginRunning, Step
  <2> QED
    BY <2>1, <1>4 DEF ThreadPositions, Leaving
<1>10. ASSUME NEW r \in Runs, Finish(r)
       PROVE  \A s \in Runs : Effect(s)
  <2>1. /\ pc[r] = "drive" /\ final[r] /\ pc' = [pc EXCEPT ![r] = "hold"]
        /\ \/ /\ code' = [code EXCEPT ![r] = "NONE"]
              /\ cursor' = [cursor EXCEPT ![r] = LastT(points[r])]
           \/ code' = [code EXCEPT ![r] = "OTHER"] /\ cursor' = cursor
        /\ UNCHANGED state
    BY <1>10 DEF Finish, Step, Leave
  <2> QED
    BY <1>0, <2>1 DEF Effect
<1>11. ASSUME NEW r \in Runs, Underrun(r)
       PROVE  \A s \in Runs : Effect(s)
  <2>1. /\ pc[r] = "drive" /\ ~final[r] /\ pc' = [pc EXCEPT ![r] = "hold"]
        /\ code' = [code EXCEPT ![r] = "BUFFER_UNDERRUN"] /\ UNCHANGED <<cursor, state>>
    BY <1>11 DEF Underrun, Step, Leave
  <2> QED
    BY <2>1, <1>5 DEF Codes
<1>12. ASSUME NEW r \in Runs, NEW exceeded \in BOOLEAN,
              Drive(r, exceeded) \/ TrackingFault(r) \/ BackendFault(r)
       PROVE  \A s \in Runs : Effect(s)
  <2>1. /\ pc[r] = "drive" /\ UNCHANGED <<cursor, state>>
        /\ \/ pc' = [pc EXCEPT ![r] = "publish"] /\ code' = code
           \/ \E c \in {"OTHER", "TRACKING_ERROR"} :
                 pc' = [pc EXCEPT ![r] = "hold"] /\ code' = [code EXCEPT ![r] = c]
    BY <1>12 DEF Drive, TrackingFault, BackendFault, Step, Leave
  <2> QED
    BY <2>1, <1>4, <1>5 DEF ThreadPositions, Leaving, Codes
<1>13. ASSUME NEW r \in Runs, NEW elapsed \in 1 .. MaxCycle, Publish(r, elapsed)
       PROVE  \A s \in Runs : Effect(s)
  <2>1. /\ pc[r] = "publish" /\ UNCHANGED state
        /\ cursor' = [cursor EXCEPT ![r] = now[r]]
        /\ \/ pc' = [pc EXCEPT ![r] = "check"] /\ code' = code
           \/ pc' = [pc EXCEPT ![r] = "hold"] /\ code' = [code EXCEPT ![r] = "OTHER"]
    BY <1>13 DEF Publish, Step, Leave
  <2> QED
    BY <2>1, <1>4, <1>5 DEF ThreadPositions, Leaving, Codes
<1>14. ASSUME NEW r \in Runs, Hold(r) \/ Close(r)
       PROVE  \A s \in Runs : Effect(s)
  <2>1. /\ pc[r] \in Leaving /\ UNCHANGED <<cursor, state, code>>
        /\ \E to \in Leaving : pc' = [pc EXCEPT ![r] = to]
    BY <1>14 DEF Hold, Close, Step, Leaving
  <2>2. "none" \notin Leaving
    BY DEF Leaving
  <2> QED
    BY <1>0, <2>1, <2>2 DEF Effect
<1>15. ASSUME NEW r \in Runs, Settle(r)
       PROVE  \A s \in Runs : Effect(s)
  <2>1. /\ pc[r] = "settle" /\ UNCHANGED <<cursor, code>>
        /\ pc' = [pc EXCEPT ![r] = "ended"]
        /\ state' = [state EXCEPT ![r] = Outcome(code[r])]
    BY <1>15 DEF Settle, Step
  <2>2. Outcome(code[r]) = "completed" => code[r] = "NONE"
    BY DEF Outcome
  <2> QED
    BY <1>0, <2>1, <2>2 DEF Effect, Leaving
<1>16. CASE EmergencyStop \/ RequestShutdown \/ Ending \/ Terminated
            \/ UNCHANGED vars
  BY <1>16, NoEffect
     DEF EmergencyStop, RequestShutdown, Ending, Interrupt,
         InterruptedExit, StopListening, Exit, Terminated, vars
<1> QED
  BY <1>1, <1>2, <1>3, <1>6, <1>7, <1>8, <1>9, <1>10, <1>11, <1>12, <1>13, <1>14,
     <1>15, <1>16
     DEF Next, Message, Thread, Ending

\* A complete buffer stays complete and does not change any more.
LEMMA FinalIsForever ==
    ASSUME TypeOK, [Next]_vars, NEW r \in Runs, final[r]
    PROVE  final'[r] /\ points'[r] = points[r]
<1>1. CASE UNCHANGED bufferVars
  BY <1>1 DEF bufferVars
<1>2. ASSUME NEW s \in Runs, NEW chunk \in Chunks, NEW last \in BOOLEAN, NEW seq,
             AppendChunk(s, seq, chunk, last)
      PROVE  final'[r] /\ points'[r] = points[r]
  <2>1. /\ ~final[s]
        /\ final' = [final EXCEPT ![s] = last]
        /\ points' = [points EXCEPT ![s] = points[s] \o chunk]
    BY <1>2 DEF AppendChunk, Appendable
  <2>2. points \in [Runs -> Seq(Point)] /\ final \in [Runs -> BOOLEAN]
    BY DEF TypeOK
  <2> QED
    BY <2>1, <2>2
<1> QED
  BY <1>1, <1>2, BufferFrame

\* The conjuncts of the invariant behind the outcome of a run.
EndInv ==
    /\ FinalIsDeclared
    /\ SealedIsFinal
    /\ SealedNeverUnderruns
    /\ PlayedToTheEnd

\* At the start nothing is final.
LEMMA EndInit == Init => EndInv
BY DEF Init, EndInv, FinalIsDeclared, SealedIsFinal, SealedNeverUnderruns,
       PlayedToTheEnd, Leaving

\* A step keeps it: by its effect on each run.
LEMMA EndNext ==
    TypeOK /\ OwnershipInv /\ EndInv /\ [Next]_vars => EndInv'
<1> SUFFICES ASSUME TypeOK, OwnershipInv, EndInv, [Next]_vars
             PROVE  EndInv'
  OBVIOUS
<1> USE DEF EndInv
<1>1. config' = config
  BY BufferFrame
<1>2. \A r \in Runs : Effect(r)
  BY StepEffect
<1>3. \A r \in Runs : final[r] => final'[r] /\ points'[r] = points[r]
  BY FinalIsForever
<1>4. FinalIsDeclared'
  BY DeclaredNext
<1>5. SealedIsFinal'
  <2> SUFFICES ASSUME NEW r \in Runs, config[r].mode = "sealed", pc'[r] # "none"
               PROVE  final[r]
    BY <1>1, <1>3 DEF SealedIsFinal
  <2>1. pc[r] # "none" \/ ReadyToStart(r)
    BY <1>2 DEF Effect
  <2> QED
    BY <2>1 DEF SealedIsFinal, ReadyToStart
<1>6. SealedNeverUnderruns'
  <2> SUFFICES ASSUME NEW r \in Runs, code'[r] = "BUFFER_UNDERRUN"
               PROVE  config[r].mode = "streaming"
    BY <1>1 DEF SealedNeverUnderruns
  <2>1. code[r] = "BUFFER_UNDERRUN" \/ (pc[r] = "drive" /\ ~final[r])
    BY <1>2 DEF Effect
  <2>2. config[r].mode \in {"sealed", "streaming"}
    <3>1. config[r] \in RunConfig
      BY InputAssumption DEF TypeOK
    <3> QED
      BY <3>1 DEF RunConfig
  <2> QED
    BY <2>1, <2>2 DEF SealedNeverUnderruns, SealedIsFinal
<1>7. PlayedToTheEnd'
  <2> SUFFICES ASSUME NEW r \in Runs,
                      \/ state'[r] = "completed"
                      \/ pc'[r] \in Leaving /\ code'[r] = "NONE"
               PROVE  final'[r] /\ cursor'[r] = LastT(points'[r])
    BY DEF PlayedToTheEnd
  <2>1. CASE final[r] /\ cursor'[r] = LastT(points[r])
    BY <1>3, <2>1
  <2>2. CASE state[r] = "completed" \/ (pc[r] \in Leaving /\ code[r] = "NONE")
    <3>1. final[r] /\ cursor[r] = LastT(points[r])
      BY <2>2 DEF PlayedToTheEnd
    <3>2. pc[r] \notin {"drive", "publish"}
      BY <2>2 DEF OwnershipInv, StateMatchesThread, TerminalStates, Leaving
    <3>3. cursor'[r] = cursor[r]
      BY <1>2, <3>2 DEF Effect
    <3> QED
      BY <1>3, <3>1, <3>3
  <2> QED
    BY <1>2, <2>1, <2>2 DEF Effect, Leaving
<1> QED
  BY <1>4, <1>5, <1>6, <1>7

\* The invariant behind the outcome of a run holds in every reachable state.
THEOREM EndInvariant == Spec => []EndInv
BY EndInit, EndNext, TypeCorrect, OwnershipInvariant, PTL DEF Spec

\* A sealed program never runs out of points.
THEOREM SealedIsNeverStarved == Spec => []SealedNeverUnderruns
BY EndInvariant, PTL DEF EndInv

\* A run reported completed has played the declared program to its last point.
THEOREM CompletedIsDeclared == Spec => []CompletedPlayedDeclaredProgram
<1>1. EndInv => CompletedPlayedDeclaredProgram
  BY DEF EndInv, FinalIsDeclared, PlayedToTheEnd, CompletedPlayedDeclaredProgram
<1> QED
  BY <1>1, EndInvariant, PTL

-----------------------------------------------------------------------------
(* The watchdog.  A target written after a revocation leaves a trace: the      *)
(* thread is then between that cycle and the next check, and the revocation    *)
(* stands until the check (a heartbeat that lifts it also starts a new count), *)
(* or the thread is out of the loop for good.                                  *)

LateOK(r) ==
    \/ late[r] = 0
    \/ /\ late[r] = 1
       /\ \/ pc[r] \in {"publish", "check"} /\ Revoked(r)
          \/ pc[r] \in Leaving \cup {"ended"}

LateIsSeen == \A r \in Runs : LateOK(r)

\* A step that leaves the thread and the count alone, and lifts no revocation.
LEMMA LateUntouched ==
    ASSUME LateIsSeen, NEW r \in Runs, pc'[r] = pc[r], late'[r] = late[r],
           stop[r] => stop'[r], stale[r] => stale'[r],
           IgnoreHeartbeat(r)' => IgnoreHeartbeat(r) \/ pc[r] = "none"
    PROVE  LateOK(r)'
BY DEF LateIsSeen, LateOK, Revoked, Leaving

\* A step of the thread that writes no target.
LEMMA LateMoves ==
    ASSUME TypeOK, LateIsSeen, NEW r \in Runs, NEW to,
           pc' = [pc EXCEPT ![r] = to], UNCHANGED <<late, stop, stale, final, config>>,
           pc[r] \in {"publish", "check"} /\ Revoked(r) => to \in {"check", "hold"},
           pc[r] \in Leaving => to \in Leaving \cup {"ended"},
           pc[r] # "ended"
    PROVE  LateIsSeen'
<1>1. pc \in [Runs -> ThreadPositions]
  BY DEF TypeOK
<1>2. pc'[r] = to /\ \A s \in Runs \ {r} : pc'[s] = pc[s]
  BY <1>1
<1>3. \A s \in Runs : Revoked(s)' = Revoked(s)
  BY DEF Revoked, IgnoreHeartbeat
<1> QED
  BY <1>2, <1>3 DEF LateIsSeen, LateOK, Leaving

\* A cycle, or the last command of a program, writes one target.
LEMMA LateCommand ==
    ASSUME TypeOK, LateIsSeen, NEW r \in Runs, NEW to \in {"publish", "hold"}, NEW q,
           pc[r] = "drive", pc' = [pc EXCEPT ![r] = to], Command(r, q),
           UNCHANGED <<stop, stale, final, config>>
    PROVE  LateIsSeen'
<1>1. pc \in [Runs -> ThreadPositions] /\ late \in [Runs -> Nat]
  BY DEF TypeOK
<1>2. pc'[r] = to /\ \A s \in Runs \ {r} : pc'[s] = pc[s]
  BY <1>1
<1>3. \A s \in Runs : Revoked(s)' = Revoked(s)
  BY DEF Revoked, IgnoreHeartbeat
<1>4. late[r] = 0
  BY DEF LateIsSeen, LateOK, Leaving
<1>5. late' = [late EXCEPT ![r] = IF Revoked(r) THEN late[r] + 1 ELSE late[r]]
  BY DEF Command
<1>6. late'[r] = (IF Revoked(r) THEN 1 ELSE 0) /\ \A s \in Runs \ {r} : late'[s] = late[s]
  BY <1>1, <1>4, <1>5
<1>7. LateOK(r)'
  BY <1>2, <1>3, <1>6 DEF LateOK, Leaving
<1>8. \A s \in Runs \ {r} : LateOK(s)'
  BY <1>2, <1>3, <1>6 DEF LateIsSeen, LateOK
<1> QED
  BY <1>7, <1>8 DEF LateIsSeen

\* A step keeps it: after a late target the thread finds the run revoked, and leaves.
LEMMA LateNext ==
    TypeOK /\ StateMatchesThread /\ SealedIsFinal /\ LateIsSeen /\ [Next]_vars
        => LateIsSeen'
<1> SUFFICES ASSUME TypeOK, StateMatchesThread, SealedIsFinal, LateIsSeen, [Next]_vars
             PROVE  LateIsSeen'
  OBVIOUS
<1> USE DEF runVars, threadVars, motorVars, serverVars
<1>0. /\ stop \in [Runs -> BOOLEAN] /\ stale \in [Runs -> BOOLEAN]
      /\ late \in [Runs -> Nat] /\ pc \in [Runs -> ThreadPositions]
      /\ final \in [Runs -> BOOLEAN]
  BY DEF TypeOK
<1>1. ASSUME NEW r \in Runs, OpenRun(r) \/ Cancel(r) \/ ConnectionLost(r)
                             \/ HeartbeatExpires(r)
      PROVE  LateIsSeen'
  <2>1. /\ UNCHANGED <<pc, late, final, config>>
        /\ \A s \in Runs : (stop[s] => stop'[s]) /\ (stale[s] => stale'[s])
    BY <1>0, <1>1 DEF OpenRun, Cancel, RequestStop, ConnectionLost, HeartbeatExpires
  <2>2. \A s \in Runs : IgnoreHeartbeat(s)' = IgnoreHeartbeat(s)
    BY <2>1 DEF IgnoreHeartbeat
  <2>3. \A s \in Runs : LateOK(s)'
    BY <2>1, <2>2, LateUntouched
  <2> QED
    BY <2>3 DEF LateIsSeen
<1>2. ASSUME NEW r \in Runs, Heartbeat(r) PROVE LateIsSeen'
  <2>1. /\ stale' = [stale EXCEPT ![r] = FALSE]
        /\ late' = [late EXCEPT ![r] = IF stop[r] THEN late[r] ELSE 0]
        /\ UNCHANGED <<pc, stop, final, config>>
    BY <1>2 DEF Heartbeat
  <2>2. LateOK(r)'
    <3>1. CASE stop[r]
      BY <1>0, <2>1, <3>1 DEF LateIsSeen, LateOK, Revoked
    <3>2. CASE ~stop[r]
      BY <1>0, <2>1, <3>2 DEF LateOK
    <3> QED
      BY <3>1, <3>2
  <2>3. \A s \in Runs \ {r} : LateOK(s)'
    BY <1>0, <2>1 DEF LateIsSeen, LateOK, Revoked, IgnoreHeartbeat
  <2> QED
    BY <2>2, <2>3 DEF LateIsSeen
<1>3. ASSUME NEW r \in Runs, NEW seq, NEW chunk \in Chunks, NEW last \in BOOLEAN,
             AppendChunk(r, seq, chunk, last)
      PROVE  LateIsSeen'
  <2>1. /\ UNCHANGED <<pc, late, stop, stale, config>>
        /\ final' = [final EXCEPT ![r] = last] /\ ~final[r]
    BY <1>3 DEF AppendChunk, Appendable
  <2>2. ASSUME NEW s \in Runs, IgnoreHeartbeat(s)'
        PROVE  IgnoreHeartbeat(s) \/ pc[s] = "none"
    <3>1. config[s].policy = "complete_if_sealed"
      BY <2>1, <2>2 DEF IgnoreHeartbeat
    <3>2. config[s].mode = "sealed"
      <4>1. config[s] \in RunConfigs
        BY DEF TypeOK
      <4> QED
        BY <3>1, <4>1, InputAssumption
    <3> QED
      BY <3>1, <3>2 DEF SealedIsFinal, IgnoreHeartbeat
  <2>3. \A s \in Runs : LateOK(s)'
    BY <2>1, <2>2, LateUntouched
  <2> QED
    BY <2>3 DEF LateIsSeen
<1>4. ASSUME NEW r \in Runs, StartRun(r) PROVE LateIsSeen'
  <2>1. /\ pc' = [pc EXCEPT ![r] = "connect"] /\ state[r] = "buffering"
        /\ UNCHANGED <<late, stop, stale, final, config>>
    BY <1>4 DEF StartRun
  <2>2. pc[r] = "none"
    BY <2>1 DEF StateMatchesThread
  <2> QED
    BY <2>1, <2>2, LateMoves DEF Leaving
<1>5. ASSUME NEW r \in Runs, NEW pose \in Poses, SetOrigin(r, pose)
      PROVE  LateIsSeen'
  <2>1. /\ pc[r] = "origin" /\ pc' = [pc EXCEPT ![r] = "validate"]
        /\ UNCHANGED <<late, stop, stale, final, config>>
    BY <1>5 DEF SetOrigin, Step
  <2> QED
    BY <2>1, LateMoves DEF Leaving
<1>6. ASSUME NEW r \in Runs, Connect(r) \/ Validate(r) \/ Gate(r) \/ Enable(r)
                             \/ BeginRunning(r)
      PROVE  LateIsSeen'
  <2>1. /\ pc[r] \in {"connect", "origin", "validate", "gate", "enable", "run"}
        /\ \E to : pc' = [pc EXCEPT ![r] = to]
        /\ UNCHANGED <<late, stop, stale, final, config>>
    BY <1>6 DEF Connect, Validate, Gate, Enable, BeginRunning, Step, Leave
  <2> QED
    BY <2>1, LateMoves DEF Leaving
<1>7. ASSUME NEW r \in Runs, Check(r) PROVE LateIsSeen'
  <2>1. /\ pc[r] = "check"
        /\ \E to : /\ pc' = [pc EXCEPT ![r] = to]
                   /\ Revoked(r) => to = "hold"
        /\ UNCHANGED <<late, stop, stale, final, config>>
    BY <1>7 DEF Check, Step, Leave, Revoked
  <2> QED
    BY <2>1, LateMoves DEF Leaving
<1>8. ASSUME NEW r \in Runs, Underrun(r) \/ TrackingFault(r) \/ BackendFault(r)
      PROVE  LateIsSeen'
  <2>1. /\ pc[r] = "drive" /\ pc' = [pc EXCEPT ![r] = "hold"]
        /\ UNCHANGED <<late, stop, stale, final, config>>
    BY <1>8 DEF Underrun, TrackingFault, BackendFault, Step, Leave
  <2> QED
    BY <2>1, LateMoves DEF Leaving
<1>9. ASSUME NEW r \in Runs, Finish(r) PROVE LateIsSeen'
  <2>1. /\ pc[r] = "drive" /\ pc' = [pc EXCEPT ![r] = "hold"]
        /\ Command(r, Last(points[r]).q)
        /\ UNCHANGED <<stop, stale, final, config>>
    BY <1>9 DEF Finish, Step, Leave
  <2> QED
    BY <2>1, LateCommand
<1>10. ASSUME NEW r \in Runs, NEW exceeded \in BOOLEAN, Drive(r, exceeded)
       PROVE  LateIsSeen'
  <2>1. /\ pc[r] = "drive"
        /\ \E to \in {"publish", "hold"} : pc' = [pc EXCEPT ![r] = to]
        /\ \E q : Command(r, q)
        /\ UNCHANGED <<stop, stale, final, config>>
    BY <1>10 DEF Drive, Step, Leave
  <2> QED
    BY <2>1, LateCommand
<1>11. ASSUME NEW r \in Runs, NEW elapsed \in 1 .. MaxCycle, Publish(r, elapsed)
       PROVE  LateIsSeen'
  <2>1. /\ pc[r] = "publish"
        /\ \E to \in {"check", "hold"} : pc' = [pc EXCEPT ![r] = to]
        /\ UNCHANGED <<late, stop, stale, final, config>>
    BY <1>11 DEF Publish, Step, Leave
  <2> QED
    BY <2>1, LateMoves DEF Leaving
<1>12. ASSUME NEW r \in Runs, Hold(r) \/ Close(r) \/ Settle(r)
       PROVE  LateIsSeen'
  <2>1. /\ pc[r] \in Leaving
        /\ \E to \in Leaving \cup {"ended"} : pc' = [pc EXCEPT ![r] = to]
        /\ UNCHANGED <<late, stop, stale, final, config>>
    BY <1>12 DEF Hold, Close, Settle, Step, Leaving
  <2>2. pc[r] \notin {"publish", "check", "ended"}
    BY <2>1 DEF Leaving
  <2> QED
    BY <2>1, <2>2, LateMoves
<1>13. CASE EmergencyStop \/ RequestShutdown
  <2>1. /\ UNCHANGED <<pc, late, stale, final, config>>
        /\ \A s \in Runs : stop[s] => stop'[s]
    BY <1>0, <1>13 DEF EmergencyStop, RequestStop, RequestShutdown
  <2>2. \A s \in Runs : IgnoreHeartbeat(s)' = IgnoreHeartbeat(s)
    BY <2>1 DEF IgnoreHeartbeat
  <2>3. \A s \in Runs : LateOK(s)'
    BY <2>1, <2>2, LateUntouched
  <2> QED
    BY <2>3 DEF LateIsSeen
<1>14. CASE Ending \/ Terminated \/ UNCHANGED vars
  BY <1>14 DEF Ending, Interrupt, InterruptedExit, StopListening, Exit, Terminated, vars, LateIsSeen, LateOK, Revoked,
               IgnoreHeartbeat
<1> QED
  BY <1>1, <1>2, <1>3, <1>4, <1>5, <1>6, <1>7, <1>8, <1>9, <1>10, <1>11, <1>12,
     <1>13, <1>14
     DEF Next, Message, Thread, Ending

\* Once a stop is latched or the heartbeat is dead, one target at most follows.
THEOREM OneLateTarget == Spec => []AtMostOneLateTarget
<1>1. Init => LateIsSeen
  BY DEF Init, LateIsSeen, LateOK
<1>2. TypeOK /\ OwnershipInv /\ EndInv /\ LateIsSeen /\ [Next]_vars => LateIsSeen'
  BY LateNext DEF OwnershipInv, EndInv
<1>3. LateIsSeen => AtMostOneLateTarget
  <2> SUFFICES ASSUME LateIsSeen, NEW r \in Runs PROVE late[r] <= 1
    BY DEF AtMostOneLateTarget
  <2>1. late[r] = 0 \/ late[r] = 1
    BY DEF LateIsSeen, LateOK
  <2> QED
    BY <2>1
<1> QED
  BY <1>1, <1>2, <1>3, TypeCorrect, OwnershipInvariant, EndInvariant, PTL DEF Spec

-----------------------------------------------------------------------------
(* The joint limits.  Past its validation a thread has a known origin, and     *)
(* every point in its buffer, whenever it came, resolves to a position within  *)
(* the limits.                                                                 *)

Validated == {"gate", "enable", "run", "check", "drive", "publish"}

InLimits(q) == JointMin <= q /\ q <= JointMax

\* Where point i of run r will send the arm.
PointInLimits(r, i) == InLimits(Resolve(r, points[r][i].q))

ArmedIsResolved ==
    \A r \in Runs :
        /\ pc[r] \in Validated \cup {"validate"} => origin[r].known
        /\ pc[r] \in Validated => \A i \in 1 .. Len(points[r]) : PointInLimits(r, i)

\* How a thread gets its origin and its validation.
Arming(r) ==
    /\ pc'[r] = "validate" => pc[r] = "validate" \/ origin'[r].known
    /\ pc'[r] \in Validated =>
          pc[r] \in Validated \/ (pc[r] = "validate" /\ StartPoseValid(r))
    /\ origin'[r] # origin[r] => pc[r] = "origin" /\ pc'[r] = "validate"

\* Every step arms a run only so.
LEMMA StepArming == TypeOK /\ [Next]_vars => \A r \in Runs : Arming(r)
<1> SUFFICES ASSUME TypeOK, [Next]_vars
             PROVE  \A r \in Runs : Arming(r)
  OBVIOUS
<1> USE DEF runVars, threadVars
<1>0. pc \in [Runs -> ThreadPositions]
      /\ origin \in [Runs -> [known : BOOLEAN, q : Int]]
  BY DEF TypeOK
<1>1. CASE UNCHANGED <<pc, origin>>
  BY <1>1 DEF Arming
\* A thread that moves without being validated by this step.
<1>2. ASSUME NEW r \in Runs, NEW to, pc' = [pc EXCEPT ![r] = to], origin' = origin,
             to # "validate", to \in Validated => pc[r] \in Validated
      PROVE  \A s \in Runs : Arming(s)
  BY <1>0, <1>2 DEF Arming
<1>3. ASSUME NEW r \in Runs, OpenRun(r) \/ Heartbeat(r) \/ Cancel(r)
                             \/ ConnectionLost(r) \/ HeartbeatExpires(r)
      PROVE  UNCHANGED <<pc, origin>>
  BY <1>3 DEF OpenRun, Heartbeat, Cancel, ConnectionLost, HeartbeatExpires
<1>4. ASSUME NEW r \in Runs, NEW seq, NEW chunk \in Chunks, NEW last \in BOOLEAN,
             AppendChunk(r, seq, chunk, last)
      PROVE  UNCHANGED <<pc, origin>>
  BY <1>4 DEF AppendChunk
<1>5. ASSUME NEW r \in Runs, StartRun(r) \/ Connect(r) \/ Hold(r) \/ Close(r) \/ Settle(r)
      PROVE  \A s \in Runs : Arming(s)
  <2>1. /\ \E to \in {"connect", "origin", "hold", "close", "settle", "ended"} :
              pc' = [pc EXCEPT ![r] = to]
        /\ origin' = origin
    BY <1>5 DEF StartRun, Connect, Hold, Close, Settle, Step, Leave
  <2> QED
    BY <2>1, <1>2 DEF Validated
<1>6. ASSUME NEW r \in Runs, NEW pose \in Poses, SetOrigin(r, pose)
      PROVE  \A s \in Runs : Arming(s)
  <2>1. /\ pc[r] = "origin" /\ pc' = [pc EXCEPT ![r] = "validate"]
        /\ origin' = [origin EXCEPT ![r] = [known |-> TRUE, q |-> pose]]
    BY <1>6 DEF SetOrigin, Step
  <2> QED
    BY <1>0, <2>1 DEF Arming, Validated
<1>7. ASSUME NEW r \in Runs, Validate(r)
      PROVE  \A s \in Runs : Arming(s)
  <2>1. /\ pc[r] = "validate" /\ origin' = origin
        /\ \/ pc' = [pc EXCEPT ![r] = "gate"] /\ StartPoseValid(r)
           \/ pc' = [pc EXCEPT ![r] = "hold"]
    BY <1>7 DEF Validate, Step, Leave
  <2> QED
    BY <1>0, <2>1 DEF Arming, Validated
<1>8. ASSUME NEW r \in Runs, Gate(r) \/ Enable(r) \/ BeginRunning(r) \/ Check(r)
                             \/ Finish(r) \/ Underrun(r)
      PROVE  \A s \in Runs : Arming(s)
  <2>1. /\ pc[r] \in Validated /\ origin' = origin
        /\ \E to \in Validated \cup {"hold"} : pc' = [pc EXCEPT ![r] = to]
    BY <1>8 DEF Gate, Enable, BeginRunning, Check, Finish, Underrun, Step, Leave,
                Validated
  <2>2. "validate" \notin Validated \cup {"hold"}
    BY DEF Validated
  <2> QED
    BY <2>1, <2>2, <1>2
<1>9. ASSUME NEW r \in Runs, NEW exceeded \in BOOLEAN,
             Drive(r, exceeded) \/ TrackingFault(r) \/ BackendFault(r)
      PROVE  \A s \in Runs : Arming(s)
  <2>1. /\ pc[r] = "drive" /\ origin' = origin
        /\ \E to \in {"publish", "hold"} : pc' = [pc EXCEPT ![r] = to]
    BY <1>9 DEF Drive, TrackingFault, BackendFault, Step, Leave
  <2> QED
    BY <2>1, <1>2 DEF Validated
<1>10. ASSUME NEW r \in Runs, NEW elapsed \in 1 .. MaxCycle, Publish(r, elapsed)
      PROVE  \A s \in Runs : Arming(s)
  <2>1. /\ pc[r] = "publish" /\ origin' = origin
        /\ \E to \in {"check", "hold"} : pc' = [pc EXCEPT ![r] = to]
    BY <1>10 DEF Publish, Step, Leave
  <2> QED
    BY <2>1, <1>2 DEF Validated
<1>11. EmergencyStop \/ RequestShutdown \/ Ending \/ Terminated
            \/ UNCHANGED vars => UNCHANGED <<pc, origin>>
  BY DEF EmergencyStop, RequestShutdown, Ending, Interrupt,
         InterruptedExit, StopListening, Exit, Terminated, vars
<1> QED
  BY <1>1, <1>3, <1>4, <1>5, <1>6, <1>7, <1>8, <1>9, <1>10, <1>11
     DEF Next, Message, Thread, Ending

\* A point that passed its checks against a known origin resolves within limits.
LEMMA CheckedPointInLimits ==
    ASSUME TypeOK, NEW r \in Runs, NEW p \in Point, origin[r].known,
           ValidatePosition(p, config[r].coord), ValidateResolved(r, p)
    PROVE  InLimits(Resolve(r, p.q))
<1>1. CASE config[r].coord = "relative_deg"
  BY <1>1 DEF ValidateResolved, Resolve, InLimits
<1>2. CASE config[r].coord # "relative_deg"
  BY <1>2 DEF ValidatePosition, Resolve, InLimits
<1> QED
  BY <1>1, <1>2

\* A step keeps it, also one that extends the buffer under an armed run.
LEMMA ArmedNext ==
    TypeOK /\ TypeOK' /\ TrajectoryValid /\ TrajectoryValid' /\ ArmedIsResolved
      /\ [Next]_vars => ArmedIsResolved'
<1> SUFFICES ASSUME TypeOK, TypeOK', TrajectoryValid, TrajectoryValid',
                    ArmedIsResolved, [Next]_vars, NEW r \in Runs
             PROVE  /\ pc'[r] \in Validated \cup {"validate"} => origin'[r].known
                    /\ pc'[r] \in Validated =>
                          \A i \in 1 .. Len(points'[r]) : PointInLimits(r, i)'
  BY DEF ArmedIsResolved
<1>1. Arming(r)
  BY StepArming
<1>2. pc'[r] \in Validated \cup {"validate"} => origin'[r].known
  BY <1>1 DEF Arming, ArmedIsResolved, Validated
<1>3. ASSUME pc'[r] \in Validated, NEW i \in 1 .. Len(points'[r])
      PROVE  PointInLimits(r, i)'
  <2>1. config' = config /\ origin'[r] = origin[r] /\ origin[r].known
    BY <1>1, <1>3, BufferFrame DEF Arming, ArmedIsResolved, Validated
  <2>2. points'[r] \in Seq(Point) /\ Len(points[r]) \in Nat /\ Len(points'[r]) \in Nat
    <3>1. points[r] \in Seq(Point) /\ points'[r] \in Seq(Point)
      BY DEF TypeOK
    <3> QED
      BY <3>1
  <2>3. points'[r][i] \in Point
    BY <2>2, PointOfBuffer
  <2>4. ValidatePosition(points'[r][i], config[r].coord)
    BY <2>1 DEF TrajectoryValid
  <2>5. CASE i <= Len(points[r]) /\ points'[r][i] = points[r][i]
    <3>1. i \in 1 .. Len(points[r])
      BY <2>2, <2>5
    <3>2. CASE pc[r] \in Validated
      <4>1. InLimits(Resolve(r, points[r][i].q))
        BY <3>1, <3>2 DEF ArmedIsResolved, PointInLimits
      <4> QED
        BY <2>1, <2>5, <4>1 DEF Resolve, PointInLimits
    <3>3. CASE StartPoseValid(r)
      <4>1. ValidateResolved(r, points[r][i])
        BY <3>1, <3>3 DEF StartPoseValid, ValidateResolved
      <4>2. InLimits(Resolve(r, points'[r][i].q))
        BY <2>1, <2>3, <2>4, <2>5, <4>1, CheckedPointInLimits
      <4> QED
        BY <2>1, <4>2 DEF Resolve, PointInLimits
    <3> QED
      BY <1>1, <1>3, <3>2, <3>3 DEF Arming
  <2>6. CASE ValidateResolved(r, points'[r][i])
    <3>1. InLimits(Resolve(r, points'[r][i].q))
      BY <2>1, <2>3, <2>4, <2>6, CheckedPointInLimits
    <3> QED
      BY <2>1, <3>1 DEF Resolve, PointInLimits
  <2>7. CASE UNCHANGED bufferVars
    BY <2>2, <2>5, <2>7 DEF bufferVars
  <2>8. ASSUME NEW s \in Runs, NEW chunk \in Chunks, NEW last \in BOOLEAN, NEW seq,
               AppendChunk(s, seq, chunk, last)
        PROVE  \/ i <= Len(points[r]) /\ points'[r][i] = points[r][i]
               \/ ValidateResolved(r, points'[r][i])
    <3>1. CASE s # r
      <4>1. points'[r] = points[r]
        BY <2>8, <3>1, AppendPoints
      <4> QED
        BY <2>2, <4>1
    <3>2. CASE s = r
      <4>1. points'[r] = points[r] \o chunk
        BY <2>8, <3>2, AppendPoints
      <4>2. \A j \in 1 .. Len(points[r]) : points'[r][j] = points[r][j]
        BY <2>8, <3>2, AppendPoints
      <4>3. ValidExtension(r, chunk)
        BY <2>8, <3>2, AppendGuard
      <4>4. CASE i \in Len(points[r]) + 1 .. Len(points'[r])
        BY <4>1, <4>3, <4>4 DEF ValidExtension
      <4>5. CASE i \in 1 .. Len(points[r])
        BY <2>2, <4>2, <4>5
      <4>6. i \in 1 .. Len(points[r]) \/ i \in Len(points[r]) + 1 .. Len(points'[r])
        BY <2>2
      <4> QED
        BY <4>4, <4>5, <4>6
    <3> QED
      BY <3>1, <3>2
  <2> QED
    BY <2>5, <2>6, <2>7, <2>8, BufferFrame
<1> QED
  BY <1>2, <1>3

\* Only the loop writes a trajectory target; every other write is a pose.
LEMMA GoalFrame ==
    [Next]_vars =>
        \/ goal' \in {goal, Pose}
        \/ \E r \in Runs : Finish(r)
        \/ \E r \in Runs, exceeded \in BOOLEAN : Drive(r, exceeded)
<1> DEFINE Still == goal' \in {goal, Pose}
<1> SUFFICES ASSUME [Next]_vars
             PROVE  \/ Still
                    \/ \E r \in Runs : Finish(r)
                    \/ \E r \in Runs, exceeded \in BOOLEAN : Drive(r, exceeded)
  OBVIOUS
<1> USE DEF motorVars
<1>1. ASSUME NEW r \in Runs, OpenRun(r) \/ StartRun(r) \/ Heartbeat(r) \/ Cancel(r)
                             \/ ConnectionLost(r) \/ HeartbeatExpires(r)
      PROVE  Still
  BY <1>1 DEF OpenRun, StartRun, Heartbeat, Cancel, ConnectionLost, HeartbeatExpires
<1>2. ASSUME NEW r \in Runs, NEW seq, NEW chunk \in Chunks, NEW last \in BOOLEAN,
             AppendChunk(r, seq, chunk, last)
      PROVE  Still
  BY <1>2 DEF AppendChunk
<1>3. ASSUME NEW r \in Runs, NEW pose \in Poses, SetOrigin(r, pose)
      PROVE  Still
  BY <1>3 DEF SetOrigin
<1>4. ASSUME NEW r \in Runs, NEW elapsed \in 1 .. MaxCycle, Publish(r, elapsed)
      PROVE  Still
  BY <1>4 DEF Publish
<1>5. ASSUME NEW r \in Runs, Connect(r) \/ Validate(r) \/ Gate(r) \/ Enable(r)
                             \/ BeginRunning(r) \/ Check(r)
      PROVE  Still
  BY <1>5 DEF Connect, Validate, Gate, Enable, BeginRunning, Check
<1>6. ASSUME NEW r \in Runs, Underrun(r) \/ TrackingFault(r) \/ BackendFault(r)
                             \/ Hold(r) \/ Close(r) \/ Settle(r)
      PROVE  Still
  BY <1>6 DEF Underrun, TrackingFault, BackendFault, Hold, Close, Settle
<1>7. CASE EmergencyStop \/ RequestShutdown \/ Ending \/ Terminated
           \/ UNCHANGED vars
  BY <1>7 DEF EmergencyStop, RequestShutdown, Ending, Interrupt,
         InterruptedExit, StopListening, Exit, Terminated, vars
<1> HIDE DEF Still
<1> QED
  BY <1>1, <1>2, <1>3, <1>4, <1>5, <1>6, <1>7 DEF Next, Message, Thread, Ending

\* Between two points within the limits every interpolated target is, too.
LEMMA InterpolatedInLimits ==
    ASSUME TypeOK, NEW r \in Runs, NEW i \in 1 .. Len(points[r]) - 1,
           PointInLimits(r, i), PointInLimits(r, i + 1),
           NEW q \in Interpolate(points[r][i], points[r][i + 1], now[r])
    PROVE  InLimits(Resolve(r, q))
<1> DEFINE a == points[r][i]
<1> DEFINE b == points[r][i + 1]
<1>1. points[r] \in Seq(Point) /\ now[r] \in Nat /\ origin[r].q \in Int
  BY DEF TypeOK
<1>2. i \in 1 .. Len(points[r]) /\ i + 1 \in 1 .. Len(points[r])
  BY <1>1
<1>3. a \in Point /\ b \in Point /\ a.q \in Int /\ b.q \in Int
  BY <1>1, <1>2, PointOfBuffer
<1>4. JointMin \in Int /\ JointMax \in Int
  BY PolicyAssumption
<1>5. InLimits(Resolve(r, a.q)) /\ InLimits(Resolve(r, b.q))
  BY DEF PointInLimits
<1> HIDE DEF a, b
<1>6. CASE config[r].coord = "relative_deg"
  <2> DEFINE lo == JointMin - origin[r].q
  <2> DEFINE hi == JointMax - origin[r].q
  <2>1. lo \in Int /\ hi \in Int
    BY <1>1, <1>4
  <2>2. lo <= a.q /\ a.q <= hi /\ lo <= b.q /\ b.q <= hi
    BY <1>1, <1>3, <1>4, <1>5, <1>6, SMTT(30) DEF InLimits, Resolve
  <2>3. q \in Interpolate(a, b, now[r])
    BY DEF a, b
  <2> HIDE DEF lo, hi
  <2>4. q \in Int /\ lo <= q /\ q <= hi
    BY <1>1, <1>3, <2>1, <2>2, <2>3, InterpolateBetween
  <2> QED
    BY <1>1, <1>4, <1>6, <2>4, SMTT(30) DEF lo, hi, InLimits, Resolve
<1>7. CASE config[r].coord # "relative_deg"
  <2>1. JointMin <= a.q /\ a.q <= JointMax /\ JointMin <= b.q /\ b.q <= JointMax
    BY <1>5, <1>7 DEF InLimits, Resolve
  <2>2. q \in Interpolate(a, b, now[r])
    BY DEF a, b
  <2>3. q \in Int /\ JointMin <= q /\ q <= JointMax
    BY <1>1, <1>3, <1>4, <2>1, <2>2, InterpolateBetween
  <2> QED
    BY <1>7, <2>3 DEF InLimits, Resolve
<1> QED
  BY <1>6, <1>7

\* A step keeps the targets in their limits: what it writes was resolved before.
LEMMA TargetsNext ==
    TypeInv /\ ArmedIsResolved /\ TargetsWithinLimits /\ [Next]_vars
        => TargetsWithinLimits'
<1> SUFFICES ASSUME TypeInv, ArmedIsResolved, TargetsWithinLimits, [Next]_vars
             PROVE  TargetsWithinLimits'
  OBVIOUS
<1>0. TypeOK /\ ThreadHasPoints
  BY DEF TypeInv
\* A command that resolves within the limits.
<1>1. ASSUME NEW r \in Runs, NEW q, Command(r, q), InLimits(Resolve(r, q))
      PROVE  TargetsWithinLimits'
  BY <1>1 DEF Command, Target, TargetsWithinLimits, InLimits
<1>2. CASE goal' \in {goal, Pose}
  BY <1>2 DEF TargetsWithinLimits, Pose
<1>3. ASSUME NEW r \in Runs, Finish(r)
      PROVE  TargetsWithinLimits'
  <2>1. pc[r] = "drive" /\ Command(r, Last(points[r]).q)
    BY <1>3 DEF Finish, Leave, Step
  <2>2. points[r] \in Seq(Point) /\ Len(points[r]) >= 2
    BY <1>0, <2>1 DEF TypeOK, ThreadHasPoints
  <2>3. Len(points[r]) \in 1 .. Len(points[r])
    BY <2>2
  <2>4. PointInLimits(r, Len(points[r]))
    BY <2>1, <2>3 DEF ArmedIsResolved, Validated
  <2> QED
    BY <1>1, <2>1, <2>4 DEF PointInLimits, Last
<1>4. ASSUME NEW r \in Runs, NEW exceeded \in BOOLEAN, Drive(r, exceeded)
      PROVE  TargetsWithinLimits'
  <2>1. PICK i \in 1 .. Len(points[r]) - 1 :
          \E q \in Interpolate(points[r][i], points[r][i + 1], now[r]) : Command(r, q)
    BY <1>4 DEF Drive
  <2>2. PICK q \in Interpolate(points[r][i], points[r][i + 1], now[r]) : Command(r, q)
    BY <2>1
  <2>3. pc[r] = "drive"
    BY <1>4 DEF Drive, Leave, Step
  <2>4. i \in 1 .. Len(points[r]) /\ i + 1 \in 1 .. Len(points[r])
    <3>1. points[r] \in Seq(Point)
      BY <1>0 DEF TypeOK
    <3> QED
      BY <3>1
  <2>5. PointInLimits(r, i) /\ PointInLimits(r, i + 1)
    BY <2>3, <2>4 DEF ArmedIsResolved, Validated
  <2>6. InLimits(Resolve(r, q))
    BY <1>0, <2>5, InterpolatedInLimits
  <2> QED
    BY <1>1, <2>2, <2>6
<1> QED
  BY <1>2, <1>3, <1>4, GoalFrame

\* No target outside the joint limits is ever written to the servos.
THEOREM TargetsStayWithinLimits == Spec => []TargetsWithinLimits
<1>1. Init => ArmedIsResolved
  BY DEF Init, ArmedIsResolved, Validated
<1>2. Init => TargetsWithinLimits
  BY DEF Init, TargetsWithinLimits, Pose
<1>3. Spec => []TypeInv
  BY TypeInvInit, TypeInvNext, PTL DEF Spec
<1>4. Spec => []ArmedIsResolved
  BY <1>1, ArmedNext, TypeCorrect, TrajectoryIsValid, PTL DEF Spec
<1> QED
  BY <1>2, <1>3, <1>4, TargetsNext, PTL DEF Spec
=============================================================================
