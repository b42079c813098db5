----------------------- MODULE SubprocessWorkerProofs -----------------------
(***************************************************************************)
(* The supervisor of a worker process keeps its promises to its callers,   *)
(* for any number of calls and any size of the pipes and of the queue.     *)
(*                                                                         *)
(* Three lemmas say once what a step may do to a call, to the process and  *)
(* to the transport; the invariants follow from them.                      *)
(***************************************************************************)
EXTENDS SubprocessWorker, TLAPS

Outcomes == {"none", "queued", "draining", "pending", "aborting"} \cup Returned

Frame == [kind : {"hello", "result", "error", "event", "bad"}, n : Nat]

\* Every variable has its type.
TypeOK ==
    /\ outcome \in [AllCalls -> Outcomes]
    /\ id \in [AllCalls -> Nat] /\ nextId \in Nat \ {0}
    /\ hello \in {"waiting", "ok", "failed"}
    /\ broken \in BOOLEAN /\ closing \in BOOLEAN /\ closed \in BOOLEAN
    /\ closer \in {"no", "calling", "waiting", "terminating", "done"}
    /\ reader \in BOOLEAN /\ abandoned \in BOOLEAN
    /\ events \in Seq(Nat) /\ taken \in Seq(Nat)
    /\ stdin \in Seq(Nat) /\ stdinOpen \in BOOLEAN /\ stdout \in Seq(Frame)
    /\ proc \in {"running", "exited"} /\ greeted \in BOOLEAN /\ signalled \in BOOLEAN
    /\ job \in Nat /\ executed \in SUBSET Nat /\ emitted \in Nat

\* What write and drain leave behind are outcomes.
LEMMA OutcomesOfAWrite == WriteOutcomes \subseteq {"failed", "pending", "draining"}
BY DEF WriteOutcomes, Written

\* Begin assigns what _rpc assigns, with the right types.
LEMMA BeginTypes ==
    ASSUME TypeOK, NEW c \in AllCalls, Begin(c)
    PROVE  /\ outcome' \in [AllCalls -> Outcomes]
           /\ id' \in [AllCalls -> Nat] /\ nextId' \in Nat \ {0}
           /\ stdin' \in {stdin, Append(stdin, nextId)}
<1>1. CASE closed \/ broken
  BY <1>1 DEF Begin, TypeOK, Outcomes, Returned
<1>2. CASE ~(closed \/ broken)
  <2>1. id' = [id EXCEPT ![c] = nextId] /\ nextId' = nextId + 1
    BY <1>2 DEF Begin
  <2>2. PICK o \in Outcomes : outcome' = [outcome EXCEPT ![c] = o]
    BY <1>2, OutcomesOfAWrite DEF Begin, Outcomes, Returned
  <2>3. stdin' \in {stdin, Append(stdin, nextId)}
    BY <1>2 DEF Begin, WithFrame
  <2>4. outcome' \in [AllCalls -> Outcomes]
    BY <2>2 DEF TypeOK
  <2>5. id' \in [AllCalls -> Nat] /\ nextId' \in Nat \ {0}
    BY <2>1 DEF TypeOK
  <2> QED
    BY <2>3, <2>4, <2>5
<1> QED
  BY <1>1, <1>2

\* _fail_transport leaves every call with an outcome.
LEMMA FailPendingType == TypeOK => FailPending \in [AllCalls -> Outcomes]
BY DEF TypeOK, FailPending, Outcomes, Returned

\* Every step keeps the types.
LEMMA TypeNext == TypeOK /\ [Next]_vars => TypeOK'
<1> SUFFICES ASSUME TypeOK, [Next]_vars PROVE TypeOK'
  OBVIOUS
<1> USE DEF callVars, flagVars, eventVars, parentVars, childVars, vars
<1>a. FailPending \in [AllCalls -> Outcomes]
  BY FailPendingType
<1>b. ASSUME NEW n \in Nat PROVE Append(stdin, n) \in Seq(Nat)
  BY DEF TypeOK
<1>c. ASSUME NEW m \in Frame PROVE Append(stdout, m) \in Seq(Frame)
  BY DEF TypeOK
<1>d. nextId \in Nat /\ stdin \in Seq(Nat)
  BY DEF TypeOK
<1>1. ASSUME NEW c \in Calls, Call(c) PROVE TypeOK'
  <2>1. c \in AllCalls /\ Begin(c)
    BY <1>1 DEF Call, AllCalls
  <2>2. /\ outcome' \in [AllCalls -> Outcomes]
        /\ id' \in [AllCalls -> Nat] /\ nextId' \in Nat \ {0}
        /\ stdin' \in {stdin, Append(stdin, nextId)}
    BY <2>1, BeginTypes
  <2>3. stdin' \in Seq(Nat)
    BY <2>2, <1>b, <1>d
  <2> QED
    BY <1>1, <2>2, <2>3 DEF Call, TypeOK
<1>2. ASSUME NEW c \in Calls, Cancel(c) PROVE TypeOK'
  BY <1>2 DEF Cancel, TypeOK, AllCalls, Outcomes, Returned
<1>3. ASSUME NEW c \in AllCalls, Write(c) PROVE TypeOK'
  <2>1. PICK o \in Outcomes : outcome' = [outcome EXCEPT ![c] = o]
    BY <1>3, OutcomesOfAWrite DEF Write, Outcomes, Returned
  <2>2. stdin' = stdin \/ stdin' = Append(stdin, id[c])
    BY <1>3 DEF Write, WithFrame
  <2>3. stdin' \in Seq(Nat) /\ id[c] \in Nat
    BY <2>2, <1>b, <1>d DEF TypeOK
  <2> QED
    BY <1>3, <2>1, <2>3 DEF Write, TypeOK
<1>4. ASSUME NEW c \in AllCalls, Drained(c) PROVE TypeOK'
  <2>1. PICK o \in Outcomes : outcome' = [outcome EXCEPT ![c] = o]
    BY <1>4 DEF Drained, Written, Outcomes, Returned
  <2> QED
    BY <1>4, <2>1 DEF Drained, TypeOK
<1>5. ASSUME NEW c \in AllCalls, Timeout(c) PROVE TypeOK'
  <2>1. outcome' \in [AllCalls -> Outcomes]
    BY <1>5, <1>a DEF Timeout, Outcomes
  <2> QED
    BY <1>5, <2>1 DEF Timeout, TypeOK
<1>6. ASSUME NEW c \in AllCalls, AbortDone(c) PROVE TypeOK'
  BY <1>6, ZenonT(30) DEF AbortDone, TypeOK, Outcomes, Returned
<1>7. CASE ReadFrame
  <2>1. Head(stdout) \in Frame /\ stdout' \in Seq(Frame)
    BY <1>7 DEF ReadFrame, TypeOK
  <2>2. ASSUME FailTransport
        PROVE  /\ outcome' \in [AllCalls -> Outcomes]
               /\ hello' \in {"waiting", "ok", "failed"}
               /\ broken' \in BOOLEAN /\ closing' \in BOOLEAN /\ reader' \in BOOLEAN
               /\ signalled' \in BOOLEAN /\ events' \in Seq(Nat)
    BY <2>2, <1>a DEF FailTransport, TypeOK
  <2>3. /\ outcome' \in [AllCalls -> Outcomes]
        /\ hello' \in {"waiting", "ok", "failed"}
        /\ broken' \in BOOLEAN /\ closing' \in BOOLEAN /\ reader' \in BOOLEAN
        /\ signalled' \in BOOLEAN /\ events' \in Seq(Nat)
    <3>1. CASE Head(stdout).kind = "hello"
      BY <3>1, <1>7 DEF ReadFrame, TypeOK
    <3>2. CASE Head(stdout).kind \in {"result", "error"}
      BY <3>2, <1>7 DEF ReadFrame, Respond, TypeOK, Outcomes, Returned
    <3>3. CASE Head(stdout).kind = "event"
      <4>1. CASE Len(events) < EventLimit
        <5>1. /\ events' = Append(events, Head(stdout).n)
              /\ UNCHANGED <<outcome, hello, broken, closing, reader, signalled>>
          BY <3>3, <4>1, <1>7 DEF ReadFrame, Enqueue
        <5>2. events' \in Seq(Nat)
          BY <5>1, <2>1 DEF TypeOK, Frame
        <5> QED
          BY <5>1, <5>2 DEF TypeOK
      <4>2. CASE ~(Len(events) < EventLimit)
        BY <3>3, <4>2, <1>7, <2>2 DEF ReadFrame, Enqueue
      <4> QED
        BY <4>1, <4>2
    <3>4. CASE Head(stdout).kind = "bad"
      BY <3>4, <1>7, <2>2 DEF ReadFrame
    <3> QED
      BY <2>1, <3>1, <3>2, <3>3, <3>4 DEF Frame
  <2> QED
    BY <1>7, <2>1, <2>3 DEF ReadFrame, TypeOK
<1>8. CASE ReadEof
  BY <1>8, <1>a, ZenonT(30) DEF ReadEof, FailTransport, TypeOK
<1>9. CASE NextEvent
  BY <1>9 DEF NextEvent, TypeOK
<1>10. CASE SpawnTimeout
  BY <1>10 DEF SpawnTimeout, TypeOK
<1>11. CASE CloseBegin
  <2>1. CloseCall \in AllCalls
    BY DEF AllCalls
  <2>2. ASSUME Begin(CloseCall)
        PROVE  /\ outcome' \in [AllCalls -> Outcomes]
               /\ id' \in [AllCalls -> Nat] /\ nextId' \in Nat \ {0}
               /\ stdin' \in {stdin, Append(stdin, nextId)}
    BY <2>1, <2>2, BeginTypes
  <2>3. Begin(CloseCall) => stdin' \in Seq(Nat)
    BY <2>2, <1>b, <1>d
  <2> QED
    BY <1>11, <2>2, <2>3 DEF CloseBegin, TypeOK
<1>12. CASE CloseCalled
  BY <1>12 DEF CloseCalled, TypeOK
<1>13. CASE CloseTerminates
  BY <1>13 DEF CloseTerminates, TypeOK
<1>14. CASE CloseDone
  BY <1>14, <1>a DEF CloseDone, TypeOK
<1>15. CASE Hello
  BY <1>15 DEF Hello, Out, TypeOK, Frame
<1>16. CASE ReadRequest
  BY <1>16, SMTT(30) DEF ReadRequest, TypeOK
<1>17. ASSUME NEW kind \in {"result", "error"}, Reply(kind) PROVE TypeOK'
  BY <1>17 DEF Reply, Out, TypeOK, Frame
<1>18. CASE PumpEvent
  BY <1>18 DEF PumpEvent, Out, TypeOK, Frame
<1>19. CASE Exit
  BY <1>19 DEF Exit, TypeOK
<1>20. CASE Die
  <2>1. stdout' \in Seq(Frame)
    BY <1>20, <1>c DEF Die, TypeOK, Frame
  <2> QED
    BY <1>20, <2>1 DEF Die, TypeOK
<1>21. CASE Terminate
  BY <1>21 DEF Terminate, TypeOK
<1>22. CASE UNCHANGED vars
  BY <1>22 DEF TypeOK
<1> QED
  BY <1>1, <1>2, <1>3, <1>4, <1>5, <1>6, <1>7, <1>8, <1>9, <1>10, <1>11, <1>12, <1>13,
     <1>14, <1>15, <1>16, <1>17, <1>18, <1>19, <1>20, <1>21, <1>22 DEF Next

-----------------------------------------------------------------------------
(* What a step may do. *)

\* The life of a call, one step at a time: it starts once and with a fresh number, waits,
\* and returns once; a result comes only with the frame that names its number, a
\* time-out only from a process that is gone.
CallStep(c) ==
    \/ outcome'[c] = outcome[c] /\ id'[c] = id[c]
    \/ /\ outcome[c] = "none"
       /\ outcome'[c] \in {"failed", "queued", "draining", "pending"}
       /\ id'[c] \in {id[c], nextId}
    \/ /\ outcome[c] \in {"queued", "draining", "pending"}
       /\ outcome'[c] \in {"draining", "pending", "failed", "cancelled", "error"}
       /\ id'[c] = id[c]
    \/ outcome[c] = "pending" /\ outcome'[c] = "aborting" /\ id'[c] = id[c]
    \/ outcome[c] = "aborting" /\ outcome'[c] = "cancelled" /\ id'[c] = id[c] /\ abandoned'
    \/ outcome[c] = "aborting" /\ outcome'[c] = "timeout" /\ id'[c] = id[c] /\ proc = "exited"
    \/ /\ outcome[c] \in {"draining", "pending"} /\ outcome'[c] = "result"
       /\ id'[c] = id[c]
       /\ stdout # << >> /\ Head(stdout).kind = "result" /\ Head(stdout).n = id[c]

\* close() makes its call once.
CloseCallOnce == closer = "no" => outcome[CloseCall] = "none"

\* _fail_transport moves only calls that wait.
LEMMA FailPendingStep ==
    ASSUME TypeOK, NEW c \in AllCalls, outcome' = FailPending, UNCHANGED id
    PROVE  CallStep(c)
BY DEF FailPending, CallStep

\* A call that begins leaves every other call alone.
LEMMA BeginStep ==
    ASSUME TypeOK, NEW c \in AllCalls, NEW d \in AllCalls, outcome[c] = "none", Begin(c)
    PROVE  CallStep(d)
<1>1. CASE closed \/ broken
  BY <1>1 DEF Begin, TypeOK, CallStep
<1>2. CASE ~(closed \/ broken)
  <2>1. id' = [id EXCEPT ![c] = nextId]
    BY <1>2 DEF Begin
  <2>2. PICK o \in {"failed", "queued", "draining", "pending"} :
            outcome' = [outcome EXCEPT ![c] = o]
    BY <1>2, OutcomesOfAWrite DEF Begin
  <2> QED
    BY <2>1, <2>2 DEF TypeOK, CallStep
<1> QED
  BY <1>1, <1>2

\* Every step keeps every call in its life cycle.
LEMMA CallsStep ==
    ASSUME TypeOK, CloseCallOnce, [Next]_vars, NEW d \in AllCalls
    PROVE  CallStep(d)
<1> USE DEF callVars, flagVars, eventVars, parentVars, childVars, vars
<1>0. ASSUME UNCHANGED <<outcome, id>> PROVE CallStep(d)
  BY <1>0 DEF CallStep
<1>1. ASSUME NEW c \in Calls, Call(c) PROVE CallStep(d)
  <2>1. c \in AllCalls /\ outcome[c] = "none" /\ Begin(c)
    BY <1>1 DEF Call, AllCalls
  <2> QED
    BY <2>1, BeginStep
<1>2. ASSUME NEW c \in Calls, Cancel(c) PROVE CallStep(d)
  BY <1>2 DEF Cancel, TypeOK, AllCalls, CallStep
<1>3. ASSUME NEW c \in AllCalls, Write(c) PROVE CallStep(d)
  <2>1. PICK o \in {"failed", "draining", "pending"} : outcome' = [outcome EXCEPT ![c] = o]
    BY <1>3, OutcomesOfAWrite DEF Write
  <2> QED
    BY <1>3, <2>1 DEF Write, TypeOK, CallStep
<1>4. ASSUME NEW c \in AllCalls, Drained(c) PROVE CallStep(d)
  <2>1. PICK o \in {"failed", "pending"} : outcome' = [outcome EXCEPT ![c] = o]
    BY <1>4 DEF Drained, Written
  <2> QED
    BY <1>4, <2>1 DEF Drained, TypeOK, CallStep
<1>5. ASSUME NEW c \in AllCalls, Timeout(c) PROVE CallStep(d)
  BY <1>5 DEF Timeout, TypeOK, CallStep, FailPending
<1>6. ASSUME NEW c \in AllCalls, AbortDone(c) PROVE CallStep(d)
  BY <1>6 DEF AbortDone, TypeOK, CallStep
<1>7. CASE ReadFrame
  <2>0. stdout # << >> /\ UNCHANGED id /\ Head(stdout) \in Frame
    BY <1>7 DEF ReadFrame, TypeOK
  <2>1. CASE Head(stdout).kind = "hello"
    BY <2>1, <1>7, <1>0 DEF ReadFrame
  <2>2. CASE Head(stdout).kind \in {"result", "error"}
    <3>1. outcome'[d] = IF Answers(d, Head(stdout).n) THEN Head(stdout).kind ELSE outcome[d]
      BY <2>2, <1>7 DEF ReadFrame, Respond
    <3> QED
      BY <2>0, <2>2, <3>1 DEF CallStep, Answers
  <2>3. CASE FailTransport
    BY <2>0, <2>3, FailPendingStep DEF FailTransport
  <2>4. CASE Head(stdout).kind = "event" /\ ~FailTransport
    BY <2>4, <1>7, <1>0 DEF ReadFrame, Enqueue
  <2>5. CASE Head(stdout).kind = "bad"
    BY <2>5, <2>3, <1>7 DEF ReadFrame
  <2> QED
    BY <2>0, <2>1, <2>2, <2>3, <2>4, <2>5 DEF Frame
<1>8. CASE ReadEof
  BY <1>8, <1>0, FailPendingStep DEF ReadEof, FailTransport
<1>9. CASE NextEvent
  BY <1>9, <1>0 DEF NextEvent
<1>10. CASE SpawnTimeout
  BY <1>10, <1>0 DEF SpawnTimeout
<1>11. CASE CloseBegin
  <2>1. CloseCall \in AllCalls /\ outcome[CloseCall] = "none"
    BY <1>11 DEF AllCalls, CloseBegin, CloseCallOnce
  <2>2. Begin(CloseCall) \/ UNCHANGED <<outcome, id>>
    BY <1>11 DEF CloseBegin
  <2>3. CASE Begin(CloseCall)
    BY <2>1, <2>3, BeginStep
  <2> QED
    BY <2>2, <2>3, <1>0
<1>12. CASE CloseCalled
  BY <1>12, <1>0 DEF CloseCalled
<1>13. CASE CloseTerminates
  BY <1>13, <1>0 DEF CloseTerminates
<1>14. CASE CloseDone
  BY <1>14, FailPendingStep DEF CloseDone
<1>15. CASE Hello
  BY <1>15, <1>0 DEF Hello
<1>16. CASE ReadRequest
  BY <1>16, <1>0 DEF ReadRequest
<1>17. ASSUME NEW kind \in {"result", "error"}, Reply(kind) PROVE CallStep(d)
  BY <1>17, <1>0 DEF Reply
<1>18. CASE PumpEvent
  BY <1>18, <1>0 DEF PumpEvent
<1>19. CASE Exit \/ Die \/ Terminate \/ UNCHANGED vars
  BY <1>19, <1>0 DEF Exit, Die, Terminate
<1> QED
  BY <1>1, <1>2, <1>3, <1>4, <1>5, <1>6, <1>7, <1>8, <1>9, <1>10, <1>11, <1>12, <1>13,
     <1>14, <1>15, <1>16, <1>17, <1>18, <1>19 DEF Next

\* Once a process has ended it stays so, and only a process that runs takes commands.
\* A transport is closed only with a call that is ending the process, or after its end.
TransportStep ==
    /\ proc = "exited" => proc' = "exited" /\ executed' = executed
    /\ executed \subseteq executed'
    /\ abandoned => abandoned'
    /\ closed' = closed \/ proc = "exited" \/ \E c \in AllCalls : outcome'[c] = "aborting"
    /\ closed => closed'
    /\ closer' = "done" => closer = "done" \/ closed'
    /\ closer' = "no" => closer = "no" /\ outcome'[CloseCall] = "none"

\* Every step keeps to it.
LEMMA TransportSteps ==
    ASSUME TypeOK, CloseCallOnce, [Next]_vars
    PROVE  TransportStep
<1> USE DEF callVars, flagVars, eventVars, parentVars, childVars, vars
<1>0. CloseCall \in AllCalls /\ CloseCall \notin Calls
  BY WorkerAssumption DEF AllCalls
<1>a. ASSUME UNCHANGED <<abandoned, closed, closer>>,
             UNCHANGED outcome \/ outcome' = FailPending,
             proc' \in {proc, "exited"}, UNCHANGED executed
      PROVE  TransportStep
  BY <1>0, <1>a DEF TransportStep, FailPending, CloseCallOnce, TypeOK
<1>1. ASSUME NEW c \in Calls, Call(c) PROVE TransportStep
  <2>1. PICK o \in Outcomes : outcome' = [outcome EXCEPT ![c] = o]
    BY <1>1, OutcomesOfAWrite DEF Call, Begin, Outcomes, Returned
  <2> QED
    BY <1>0, <1>1, <2>1 DEF Call, TransportStep, CloseCallOnce, TypeOK
<1>2. ASSUME NEW c \in Calls, Cancel(c) PROVE TransportStep
  BY <1>0, <1>2 DEF Cancel, TransportStep, CloseCallOnce, TypeOK
<1>3. ASSUME NEW c \in AllCalls, Write(c) PROVE TransportStep
  <2>1. PICK o \in Outcomes : outcome' = [outcome EXCEPT ![c] = o]
    BY <1>3, OutcomesOfAWrite DEF Write, Outcomes, Returned
  <2> QED
    BY <1>0, <1>3, <2>1 DEF Write, TransportStep, CloseCallOnce, TypeOK
<1>4. ASSUME NEW c \in AllCalls, Drained(c) PROVE TransportStep
  <2>1. PICK o \in Outcomes : outcome' = [outcome EXCEPT ![c] = o]
    BY <1>4 DEF Drained, Written, Outcomes, Returned
  <2> QED
    BY <1>0, <1>4, <2>1 DEF Drained, TransportStep, CloseCallOnce, TypeOK
<1>5. ASSUME NEW c \in AllCalls, Timeout(c) PROVE TransportStep
  <2>1. \A e \in AllCalls :
            outcome'[e] = IF e = c THEN "aborting" ELSE FailPending[e]
    BY <1>5 DEF Timeout, FailPending
  <2> QED
    BY <1>0, <1>5, <2>1 DEF Timeout, TransportStep, CloseCallOnce, TypeOK, FailPending
<1>6. ASSUME NEW c \in AllCalls, AbortDone(c) PROVE TransportStep
  BY <1>0, <1>6 DEF AbortDone, TransportStep, CloseCallOnce, TypeOK
<1>7. CASE ReadFrame
  <2>1. UNCHANGED <<abandoned, closed, closer, proc, executed>> /\ Head(stdout) \in Frame
    BY <1>7 DEF ReadFrame, TypeOK
  <2>2. CASE Head(stdout).kind \in {"result", "error"}
    <3>1. \A e \in AllCalls :
             outcome'[e] = IF Answers(e, Head(stdout).n) THEN Head(stdout).kind ELSE outcome[e]
      BY <2>2, <1>7 DEF ReadFrame, Respond
    <3> QED
      BY <1>0, <2>1, <3>1 DEF TransportStep, CloseCallOnce, Answers
  <2>3. CASE ~(Head(stdout).kind \in {"result", "error"})
    <3>1. UNCHANGED outcome \/ outcome' = FailPending
      BY <2>3, <1>7 DEF ReadFrame, Enqueue, FailTransport
    <3> QED
      BY <1>a, <2>1, <3>1
  <2> QED
    BY <2>2, <2>3
<1>8. CASE ReadEof
  BY <1>8, <1>a DEF ReadEof, FailTransport
<1>9. CASE NextEvent \/ SpawnTimeout \/ Hello \/ ReadRequest \/ PumpEvent \/ Exit \/ Die
           \/ Terminate \/ UNCHANGED vars
  BY <1>9, <1>a
     DEF NextEvent, SpawnTimeout, Hello, ReadRequest, PumpEvent, Exit, Die, Terminate
<1>11. CASE CloseBegin
  BY <1>11 DEF CloseBegin, TransportStep
<1>12. CASE CloseCalled \/ CloseTerminates
  BY <1>12 DEF CloseCalled, CloseTerminates, TransportStep
<1>14. CASE CloseDone
  BY <1>14 DEF CloseDone, TransportStep
<1>17. ASSUME NEW kind \in {"result", "error"}, Reply(kind) PROVE TransportStep
  BY <1>17 DEF Reply, Out, TransportStep, CloseCallOnce
<1> QED
  BY <1>1, <1>2, <1>3, <1>4, <1>5, <1>6, <1>7, <1>8, <1>9, <1>11, <1>12, <1>14, <1>17
     DEF Next

-----------------------------------------------------------------------------
(* Time-outs and close. *)

\* A call has raised its time-out: the process is gone.
TimeoutIsDead == \A c \in AllCalls : outcome[c] = "timeout" => proc = "exited"

\* The transport is closed: the process is gone, unless a call is still ending it or was
\* cancelled while it did.
ClosedIsEnding ==
    closed => proc = "exited" \/ abandoned \/ \E c \in AllCalls : outcome[c] = "aborting"

EndInv == TypeOK /\ CloseCallOnce /\ TimeoutIsDead /\ ClosedIsEnding
          /\ (closer = "done" => closed)

\* The end of the process, at the start: nobody has closed anything.
LEMMA EndInit == Init => EndInv
<1> SUFFICES ASSUME Init PROVE EndInv
  OBVIOUS
<1>1. TypeOK
  <2>1. outcome \in [AllCalls -> Outcomes] /\ id \in [AllCalls -> Nat]
    BY DEF Init, Outcomes
  <2>2. events \in Seq(Nat) /\ taken \in Seq(Nat) /\ stdin \in Seq(Nat) /\ stdout \in Seq(Frame)
    BY DEF Init
  <2>3. nextId \in Nat \ {0} /\ job \in Nat /\ executed \in SUBSET Nat /\ emitted \in Nat
    BY DEF Init
  <2> QED
    BY <2>1, <2>2, <2>3 DEF Init, TypeOK
<1>2. \A c \in AllCalls : outcome[c] = "none"
  BY DEF Init
<1>3. CloseCall \in AllCalls
  BY DEF AllCalls
<1> QED
  BY <1>1, <1>2, <1>3 DEF Init, EndInv, CloseCallOnce, TimeoutIsDead, ClosedIsEnding

\* A step keeps it: by what it may do to a call and to the transport.
LEMMA EndNext == EndInv /\ [Next]_vars => EndInv'
<1> SUFFICES ASSUME EndInv, [Next]_vars PROVE EndInv'
  OBVIOUS
<1>1. TypeOK /\ CloseCallOnce /\ TimeoutIsDead /\ ClosedIsEnding /\ (closer = "done" => closed)
  BY DEF EndInv
<1>2. TypeOK'
  BY <1>1, TypeNext
<1>3. TransportStep
  BY <1>1, TransportSteps
<1>4. \A c \in AllCalls : CallStep(c)
  BY <1>1, CallsStep
<1>5. CloseCallOnce'
  BY <1>3 DEF CloseCallOnce, TransportStep
<1>6. TimeoutIsDead'
  BY <1>1, <1>3, <1>4 DEF TimeoutIsDead, TransportStep, CallStep
<1>7. ClosedIsEnding'
  <2> SUFFICES ASSUME closed' PROVE ClosedIsEnding'
    BY DEF ClosedIsEnding
  <2>1. CASE proc = "exited"
    BY <2>1, <1>3 DEF TransportStep, ClosedIsEnding
  <2>2. CASE ~closed
    BY <2>1, <2>2, <1>3 DEF TransportStep, ClosedIsEnding
  <2>3. CASE abandoned
    BY <2>3, <1>3 DEF TransportStep, ClosedIsEnding
  <2>4. ASSUME NEW c \in AllCalls, outcome[c] = "aborting" PROVE ClosedIsEnding'
    <3>1. CallStep(c)
      BY <1>4
    <3>2. outcome'[c] = "aborting" \/ abandoned' \/ proc = "exited"
      BY <2>4, <3>1 DEF CallStep
    <3> QED
      BY <3>2, <2>1 DEF ClosedIsEnding
  <2> QED
    BY <1>1, <2>1, <2>2, <2>3, <2>4 DEF ClosedIsEnding
<1>8. (closer = "done" => closed)'
  BY <1>1, <1>3 DEF TransportStep
<1> QED
  BY <1>2, <1>5, <1>6, <1>7, <1>8 DEF EndInv

\* So it always holds.
LEMMA EndInvariant == Spec => []EndInv
<1>1. Init => EndInv
  BY EndInit
<1>2. EndInv /\ [Next]_vars => EndInv'
  BY EndNext
<1> QED
  BY <1>1, <1>2, PTL DEF Spec

\* close returns only when the process has ended, unless another call is still ending it
\* or was cancelled while it did: close() of worker.py waits for the process, and returns
\* at once only on a transport that a time-out has closed.
THEOREM CloseEndsTheProcess == Spec => []ClosedIsDead
<1>1. EndInv => ClosedIsDead
  BY DEF EndInv, ClosedIsEnding, ClosedIsDead
<1> QED
  BY <1>1, EndInvariant, PTL

\* Once a call has raised a time-out, no command takes effect any more: _rpc raises only
\* after the process is gone, and an ended process stays ended.
THEOREM TimeoutIsTerminal == Spec => NothingAfterTimeout
<1>1. EndInv /\ [Next]_vars
        => [(\E c \in AllCalls : outcome[c] = "timeout") => executed' = executed]_vars
  <2> SUFFICES ASSUME EndInv, [Next]_vars, NEW c \in AllCalls, outcome[c] = "timeout"
               PROVE  executed' = executed
    OBVIOUS
  <2>1. TypeOK /\ CloseCallOnce /\ proc = "exited"
    BY DEF EndInv, TimeoutIsDead
  <2>2. TransportStep
    BY <2>1, TransportSteps
  <2> QED
    BY <2>1, <2>2 DEF TransportStep
<1> QED
  BY <1>1, EndInvariant, PTL DEF Spec, NothingAfterTimeout

-----------------------------------------------------------------------------
(* Answers. *)

\* Request numbers are used once.
IdsDiffer ==
    /\ \A c \in AllCalls : id[c] < nextId
    /\ \A c, d \in AllCalls : c # d /\ id[c] # 0 => id[c] # id[d]

\* A result that is still in the pipe belongs to a command that was dispatched.
ResultsAreExecuted ==
    \A i \in 1 .. Len(stdout) :
        stdout[i].kind = "result" => stdout[i].n # 0 /\ stdout[i].n \in executed

\* A call with a result has a request number.
ResultHasId == \A c \in AllCalls : outcome[c] = "result" => id[c] # 0

\* With OwnAnswer, the answer of a call is its alone.
AnswerInv ==
    EndInv /\ IdsDiffer /\ ResultsAreExecuted /\ OwnAnswer /\ ResultHasId

\* Numbers are given in order, each to a call that begins.
IdStep ==
    \/ UNCHANGED <<id, nextId>>
    \/ \E c \in AllCalls : id' = [id EXCEPT ![c] = nextId] /\ nextId' = nextId + 1

\* Every step keeps to it: only _rpc takes a number.
LEMMA IdSteps == [Next]_vars => IdStep
<1> SUFFICES ASSUME [Next]_vars PROVE IdStep
  OBVIOUS
<1> USE DEF callVars, flagVars, eventVars, parentVars, childVars, vars
<1>0. ASSUME UNCHANGED <<id, nextId>> PROVE IdStep
  BY <1>0 DEF IdStep
<1>1. ASSUME NEW c \in AllCalls, Begin(c) PROVE IdStep
  BY <1>1 DEF Begin, IdStep
<1>2. ASSUME NEW c \in Calls, Call(c) PROVE IdStep
  BY <1>1, <1>2 DEF Call, AllCalls
<1>3. ASSUME NEW c \in AllCalls, Write(c) \/ Drained(c) \/ Timeout(c) \/ AbortDone(c)
      PROVE  IdStep
  BY <1>0, <1>3 DEF Write, Drained, Timeout, AbortDone
<1>4. ASSUME NEW c \in Calls, Cancel(c) PROVE IdStep
  BY <1>0, <1>4 DEF Cancel
<1>5. CASE CloseBegin
  BY <1>0, <1>1, <1>5 DEF CloseBegin, AllCalls
<1>6. CASE ReadFrame \/ ReadEof \/ NextEvent \/ SpawnTimeout \/ CloseCalled \/ CloseTerminates
           \/ CloseDone
  BY <1>0, <1>6 DEF ReadFrame, ReadEof, NextEvent, SpawnTimeout, CloseCalled, CloseTerminates,
     CloseDone
<1>7. CASE Hello \/ ReadRequest \/ PumpEvent \/ Exit \/ Die \/ Terminate \/ UNCHANGED vars
  BY <1>0, <1>7 DEF Hello, ReadRequest, PumpEvent, Exit, Die, Terminate
<1>8. ASSUME NEW kind \in {"result", "error"}, Reply(kind) PROVE IdStep
  BY <1>0, <1>8 DEF Reply
<1> QED
  BY <1>2, <1>3, <1>4, <1>5, <1>6, <1>7, <1>8 DEF Next

\* The pipe from the process and the queue behind it: a frame is read, an event is
\* taken, or a frame is added; an answer names the request that was dispatched, an event
\* is numbered.
PipeStep ==
    \/ ReadFrame
    \/ NextEvent
    \/ UNCHANGED <<events, taken, stdout, emitted>> /\ (reader' => reader)
    \/ \E m \in Frame :
          /\ stdout' = Append(stdout, m)
          /\ UNCHANGED <<events, taken, reader>>
          /\ m.kind = "result" => m.n # 0 /\ m.n \in executed'
          /\ IF m.kind = "event" THEN m.n = emitted + 1 /\ emitted' = emitted + 1
             ELSE emitted' = emitted

\* Every step does one of these.
LEMMA PipeSteps == TypeOK /\ [Next]_vars => PipeStep
<1> SUFFICES ASSUME TypeOK, [Next]_vars PROVE PipeStep
  OBVIOUS
<1> USE DEF callVars, flagVars, eventVars, parentVars, childVars, vars
<1>0. ASSUME UNCHANGED <<events, taken, stdout, emitted>>, reader' => reader PROVE PipeStep
  BY <1>0 DEF PipeStep
<1>2. ASSUME NEW c \in Calls, Call(c) \/ Cancel(c) PROVE PipeStep
  BY <1>0, <1>2 DEF Call, Cancel
<1>3. ASSUME NEW c \in AllCalls, Write(c) \/ Drained(c) \/ Timeout(c) \/ AbortDone(c)
      PROVE  PipeStep
  BY <1>0, <1>3 DEF Write, Drained, Timeout, AbortDone
<1>4. CASE ReadFrame \/ NextEvent
  BY <1>4 DEF PipeStep
<1>6. CASE ReadEof \/ SpawnTimeout \/ CloseBegin \/ CloseCalled \/ CloseTerminates
           \/ CloseDone
  BY <1>0, <1>6 DEF ReadEof, FailTransport, SpawnTimeout, CloseBegin, CloseCalled,
     CloseTerminates, CloseDone
<1>7. CASE ReadRequest \/ Exit \/ Terminate \/ UNCHANGED vars
  BY <1>0, <1>7 DEF ReadRequest, Exit, Terminate
<1>8. ASSUME NEW kind \in {"result", "error"}, Reply(kind) PROVE PipeStep
  <2> DEFINE m == [kind |-> kind, n |-> job]
  <2>1. m \in Frame /\ m.kind = kind /\ m.n = job
    BY DEF TypeOK, Frame
  <2>2. /\ stdout' = Append(stdout, m) /\ job # 0 /\ job \in executed'
        /\ UNCHANGED <<events, taken, reader, emitted>>
    BY <1>8 DEF Reply, Out
  <2> QED
    BY <2>1, <2>2 DEF PipeStep
<1>9. CASE Hello
  <2> DEFINE m == [kind |-> "hello", n |-> 0]
  <2>1. m \in Frame /\ m.kind = "hello"
    BY DEF Frame
  <2>2. stdout' = Append(stdout, m) /\ UNCHANGED <<events, taken, reader, emitted>>
    BY <1>9 DEF Hello, Out
  <2> QED
    BY <2>1, <2>2 DEF PipeStep
<1>10. CASE Die
  <2> DEFINE m == [kind |-> "bad", n |-> 0]
  <2>1. m \in Frame /\ m.kind = "bad"
    BY DEF Frame
  <2>2. /\ stdout' = stdout \/ stdout' = Append(stdout, m)
        /\ UNCHANGED <<events, taken, reader, emitted>>
    BY <1>10 DEF Die
  <2> QED
    BY <2>1, <2>2 DEF PipeStep
<1>11. CASE PumpEvent
  <2> DEFINE m == [kind |-> "event", n |-> emitted + 1]
  <2>1. m \in Frame /\ m.kind = "event" /\ m.n = emitted + 1
    BY DEF Frame, TypeOK
  <2>2. /\ stdout' = Append(stdout, m) /\ emitted' = emitted + 1
        /\ UNCHANGED <<events, taken, reader>>
    BY <1>11 DEF PumpEvent, Out
  <2> QED
    BY <2>1, <2>2 DEF PipeStep
<1> QED
  BY <1>2, <1>3, <1>4, <1>6, <1>7, <1>8, <1>9, <1>10, <1>11 DEF Next

\* A step keeps it: a result is set only by the frame with its number.
LEMMA AnswerNext == AnswerInv /\ [Next]_vars => AnswerInv'
<1> SUFFICES ASSUME AnswerInv, [Next]_vars PROVE AnswerInv'
  OBVIOUS
<1>1. EndInv /\ IdsDiffer /\ ResultsAreExecuted /\ OwnAnswer /\ ResultHasId
  BY DEF AnswerInv
<1>2. EndInv'
  BY <1>1, EndNext
<1>3. TypeOK /\ TypeOK' /\ CloseCallOnce
  BY <1>1, <1>2 DEF EndInv
<1>4. TransportStep
  BY <1>3, TransportSteps
<1>5. \A c \in AllCalls : CallStep(c)
  BY <1>3, CallsStep
<1>6. IdsDiffer'
  <2>1. IdStep
    BY IdSteps
  <2>2. CASE UNCHANGED <<id, nextId>>
    BY <1>1, <2>2 DEF IdsDiffer
  <2>3. ASSUME NEW c \in AllCalls, id' = [id EXCEPT ![c] = nextId], nextId' = nextId + 1
        PROVE  IdsDiffer'
    <3>1. /\ nextId \in Nat /\ nextId' \in Nat /\ nextId < nextId'
          /\ \A e \in AllCalls : /\ id[e] \in Nat /\ id[e] < nextId
                                 /\ id'[e] = IF e = c THEN nextId ELSE id[e]
      BY <1>1, <1>3, <2>3 DEF TypeOK, IdsDiffer
    <3>2. \A e \in AllCalls : id'[e] < nextId'
      BY <3>1
    <3>3. \A e, f \in AllCalls : e # f /\ id'[e] # 0 => id'[e] # id'[f]
      BY <1>1, <3>1 DEF IdsDiffer
    <3> QED
      BY <3>2, <3>3 DEF IdsDiffer
  <2> QED
    BY <2>1, <2>2, <2>3 DEF IdStep
<1>7. ResultsAreExecuted'
  <2>1. PipeStep
    BY <1>3, PipeSteps
  <2>2. executed \subseteq executed'
    BY <1>4 DEF TransportStep
  <2>3. CASE stdout' = stdout
    BY <1>1, <2>2, <2>3 DEF ResultsAreExecuted
  <2>4. CASE stdout # << >> /\ stdout' = Tail(stdout)
    <3> SUFFICES ASSUME NEW i \in 1 .. Len(stdout'), stdout'[i].kind = "result"
                 PROVE  stdout'[i].n # 0 /\ stdout'[i].n \in executed'
      BY DEF ResultsAreExecuted
    <3>1. i + 1 \in 1 .. Len(stdout) /\ stdout'[i] = stdout[i + 1]
      BY <1>3, <2>4 DEF TypeOK
    <3> QED
      BY <1>1, <2>2, <3>1 DEF ResultsAreExecuted
  <2>5. ASSUME NEW m \in Frame, stdout' = Append(stdout, m),
               m.kind = "result" => m.n # 0 /\ m.n \in executed'
        PROVE  ResultsAreExecuted'
    <3> SUFFICES ASSUME NEW i \in 1 .. Len(stdout'), stdout'[i].kind = "result"
                 PROVE  stdout'[i].n # 0 /\ stdout'[i].n \in executed'
      BY DEF ResultsAreExecuted
    <3>1. (i \in 1 .. Len(stdout) /\ stdout'[i] = stdout[i]) \/ stdout'[i] = m
      BY <1>3, <2>5 DEF TypeOK
    <3> QED
      BY <1>1, <2>2, <2>5, <3>1 DEF ResultsAreExecuted
  <2> QED
    BY <2>1, <2>3, <2>4, <2>5 DEF PipeStep, ReadFrame, NextEvent
<1>8. ASSUME NEW c \in AllCalls, outcome'[c] = "result"
      PROVE  id'[c] # 0 /\ id'[c] \in executed'
  <2>1. executed \subseteq executed'
    BY <1>4 DEF TransportStep
  <2>2. CASE outcome'[c] = outcome[c] /\ id'[c] = id[c]
    BY <1>1, <1>8, <2>1, <2>2 DEF OwnAnswer, ResultHasId
  <2>3. CASE /\ id'[c] = id[c] /\ stdout # << >>
             /\ Head(stdout).kind = "result" /\ Head(stdout).n = id[c]
    <3>1. 1 \in 1 .. Len(stdout) /\ Head(stdout) = stdout[1]
      BY <1>3, <2>3 DEF TypeOK
    <3> QED
      BY <1>1, <2>1, <2>3, <3>1 DEF ResultsAreExecuted
  <2> QED
    BY <1>5, <1>8, <2>2, <2>3 DEF CallStep
<1> QED
  BY <1>2, <1>6, <1>7, <1>8 DEF AnswerInv, OwnAnswer, ResultHasId

\* So it always holds.
LEMMA AnswerInvariant == Spec => []AnswerInv
<1>1. Init => AnswerInv
  <2> SUFFICES ASSUME Init PROVE AnswerInv
    OBVIOUS
  <2>1. EndInv
    BY EndInit
  <2>2. Len(stdout) = 0
    BY DEF Init
  <2> QED
    BY <2>1, <2>2 DEF Init, AnswerInv, IdsDiffer, ResultsAreExecuted, OwnAnswer, ResultHasId
<1>2. AnswerInv /\ [Next]_vars => AnswerInv'
  BY AnswerNext
<1> QED
  BY <1>1, <1>2, PTL DEF Spec

\* A caller gets the answer to its own request: a result means that the command of this
\* call took effect, whatever answers to cancelled calls are still on their way.
THEOREM AnswersAreOwn == Spec => []OwnAnswer
<1>1. AnswerInv => OwnAnswer
  BY DEF AnswerInv
<1> QED
  BY <1>1, AnswerInvariant, PTL

\* And nobody else's: two calls with a result have two requests that took effect.
THEOREM AnswersAreNotShared ==
    Spec => [](\A c, d \in AllCalls :
                 outcome[c] = "result" /\ outcome[d] = "result" /\ c # d => id[c] # id[d])
<1>1. AnswerInv => \A c, d \in AllCalls :
                      outcome[c] = "result" /\ outcome[d] = "result" /\ c # d => id[c] # id[d]
  BY DEF AnswerInv, ResultHasId, IdsDiffer
<1> QED
  BY <1>1, AnswerInvariant, PTL

-----------------------------------------------------------------------------
(* Events. *)

\* The number of the last event that the supervisor has taken from the pipe.
Received == Len(taken) + Len(events)

\* What callers got and what is queued are the first events, in order.
EventsAreNumbered ==
    /\ Len(events) <= EventLimit
    /\ \A i \in 1 .. Len(taken) : taken[i] = i
    /\ \A i \in 1 .. Len(events) : events[i] = Len(taken) + i

EventAt(i) == i \in 1 .. Len(stdout) /\ stdout[i].kind = "event"

\* While somebody reads, the pipe holds the rest: every emitted event that was not
\* received, once and in order.
PipeHasTheRest ==
    reader =>
        /\ Received <= emitted
        /\ \A i \in 1 .. Len(stdout) :
              EventAt(i) => Received < stdout[i].n /\ stdout[i].n <= emitted
        /\ \A i, j \in 1 .. Len(stdout) :
              EventAt(i) /\ EventAt(j) /\ i < j => stdout[i].n < stdout[j].n
        /\ \A k \in 1 .. emitted :
              Received < k => \E i \in 1 .. Len(stdout) : EventAt(i) /\ stdout[i].n = k

EventInv == TypeOK /\ EventsAreNumbered /\ PipeHasTheRest

\* The first event in the pipe is the next one.
LEMMA NextInLine ==
    ASSUME EventInv, reader, stdout # << >>, stdout[1].kind = "event"
    PROVE  stdout[1].n = Received + 1
<1>1. 1 \in 1 .. Len(stdout) /\ stdout[1] \in Frame
  BY DEF EventInv, TypeOK
<1>2. /\ Received \in Nat /\ emitted \in Nat /\ stdout[1].n \in Nat
      /\ Received < stdout[1].n /\ stdout[1].n <= emitted
  BY <1>1 DEF EventInv, TypeOK, Received, PipeHasTheRest, EventAt, Frame
<1>3. Received + 1 \in 1 .. emitted /\ Received < Received + 1
  BY <1>2
<1>4. PICK i \in 1 .. Len(stdout) : EventAt(i) /\ stdout[i].n = Received + 1
  BY <1>3 DEF EventInv, PipeHasTheRest
<1>5. i # 1 => stdout[1].n < Received + 1
  BY <1>1, <1>4 DEF EventInv, PipeHasTheRest, EventAt
<1> QED
  BY <1>2, <1>4, <1>5

\* Reading a frame keeps the rest in the pipe.
LEMMA RestAfterRead ==
    ASSUME EventInv, TypeOK', reader, stdout # << >>, stdout' = Tail(stdout),
           UNCHANGED emitted,
           Received' = IF stdout[1].kind = "event" THEN Received + 1 ELSE Received
    PROVE  PipeHasTheRest'
<1> DEFINE n == Len(stdout)
<1>1. /\ n \in Nat \ {0} /\ Len(stdout') = n - 1 /\ Received \in Nat /\ Received' \in Nat
      /\ emitted \in Nat
      /\ \A i \in 1 .. n - 1 : stdout'[i] = stdout[i + 1]
      /\ \A i \in 1 .. n : stdout[i] \in Frame
  BY SMTT(30) DEF EventInv, TypeOK, Received
<1>2. /\ \A i \in 1 .. n :
             stdout[i].kind = "event" => Received < stdout[i].n /\ stdout[i].n <= emitted
      /\ \A i, j \in 1 .. n :
             stdout[i].kind = "event" /\ stdout[j].kind = "event" /\ i < j
                => stdout[i].n < stdout[j].n
      /\ \A k \in 1 .. emitted :
             Received < k => \E i \in 1 .. n : stdout[i].kind = "event" /\ stdout[i].n = k
  BY DEF EventInv, PipeHasTheRest, EventAt
<1>3. stdout[1].kind = "event" => stdout[1].n = Received + 1
  BY NextInLine
<1>4. \A i \in 1 .. n - 1 : i + 1 \in 1 .. n /\ 1 < i + 1 /\ 1 \in 1 .. n
  BY <1>1
<1>5. ASSUME NEW i \in 1 .. n - 1, stdout'[i].kind = "event"
      PROVE  Received' < stdout'[i].n /\ stdout'[i].n <= emitted
  <2>1. stdout'[i] = stdout[i + 1] /\ stdout[i + 1].n \in Nat
    BY <1>1, <1>4 DEF Frame
  <2>2. Received < stdout[i + 1].n /\ stdout[i + 1].n <= emitted
    BY <1>2, <1>4, <1>5, <2>1
  <2>3. stdout[1].kind = "event" => stdout[1].n < stdout[i + 1].n
    BY <1>2, <1>4, <1>5, <2>1
  <2> QED
    BY <1>1, <1>3, <2>1, <2>2, <2>3
<1>6. ASSUME NEW i \in 1 .. n - 1, NEW j \in 1 .. n - 1, i < j,
             stdout'[i].kind = "event", stdout'[j].kind = "event"
      PROVE  stdout'[i].n < stdout'[j].n
  <2>1. stdout'[i] = stdout[i + 1] /\ stdout'[j] = stdout[j + 1] /\ i + 1 < j + 1
    BY <1>1, <1>6
  <2> QED
    BY <1>2, <1>4, <1>6, <2>1
<1>7. Received' <= emitted'
  <2>1. Received <= emitted
    BY DEF EventInv, PipeHasTheRest
  <2>2. stdout[1].kind = "event" => stdout[1].n <= emitted
    BY <1>1, <1>2
  <2> QED
    BY <1>1, <1>3, <2>1, <2>2
<1>8. ASSUME NEW k \in 1 .. emitted, Received' < k
      PROVE  \E i \in 1 .. n - 1 : stdout'[i].kind = "event" /\ stdout'[i].n = k
  <2>1. Received < k
    BY <1>1, <1>8
  <2>2. PICK i \in 1 .. n : stdout[i].kind = "event" /\ stdout[i].n = k
    BY <1>2, <2>1
  <2>3. i # 1
    BY <1>1, <1>3, <1>8, <2>2
  <2>4. i - 1 \in 1 .. n - 1 /\ (i - 1) + 1 = i
    BY <1>1, <2>3
  <2> QED
    BY <1>1, <2>2, <2>4
<1> QED
  BY <1>1, <1>5, <1>6, <1>7, <1>8 DEF PipeHasTheRest, EventAt

\* Adding a frame keeps the rest in the pipe.
LEMMA RestAfterWrite ==
    ASSUME EventInv, TypeOK', NEW m \in Frame, stdout' = Append(stdout, m),
           UNCHANGED <<events, taken, reader>>,
           IF m.kind = "event" THEN m.n = emitted + 1 /\ emitted' = emitted + 1
           ELSE emitted' = emitted
    PROVE  PipeHasTheRest'
<1> DEFINE n == Len(stdout)
<1> SUFFICES ASSUME reader PROVE PipeHasTheRest'
  BY DEF PipeHasTheRest
<1>1. /\ n \in Nat /\ Len(stdout') = n + 1 /\ Received \in Nat /\ Received' = Received
      /\ emitted \in Nat /\ emitted' \in Nat
      /\ \A i \in 1 .. n : stdout'[i] = stdout[i]
      /\ stdout'[n + 1] = m
      /\ \A i \in 1 .. n : stdout[i] \in Frame
  BY DEF EventInv, TypeOK, Received
<1>2. /\ \A i \in 1 .. n :
             stdout[i].kind = "event" => Received < stdout[i].n /\ stdout[i].n <= emitted
      /\ \A i, j \in 1 .. n :
             stdout[i].kind = "event" /\ stdout[j].kind = "event" /\ i < j
                => stdout[i].n < stdout[j].n
      /\ \A k \in 1 .. emitted :
             Received < k => \E i \in 1 .. n : stdout[i].kind = "event" /\ stdout[i].n = k
  BY DEF EventInv, PipeHasTheRest, EventAt
<1>3. \A i \in 1 .. n : stdout[i].n \in Nat
  BY <1>1 DEF Frame
<1>4. Received <= emitted
  BY DEF EventInv, PipeHasTheRest
<1>5. ASSUME NEW i \in 1 .. n + 1, stdout'[i].kind = "event"
      PROVE  Received < stdout'[i].n /\ stdout'[i].n <= emitted'
  <2>1. CASE i = n + 1
    BY <1>1, <1>4, <1>5, <2>1
  <2>2. CASE i \in 1 .. n
    BY <1>1, <1>2, <1>3, <1>5, <2>2
  <2> QED
    BY <1>1, <2>1, <2>2
<1>6. ASSUME NEW i \in 1 .. n + 1, NEW j \in 1 .. n + 1, i < j,
             stdout'[i].kind = "event", stdout'[j].kind = "event"
      PROVE  stdout'[i].n < stdout'[j].n
  <2>1. i \in 1 .. n /\ stdout'[i] = stdout[i]
    BY <1>1, <1>6
  <2>2. CASE j = n + 1
    BY <1>1, <1>2, <1>3, <1>6, <2>1, <2>2
  <2>3. CASE j \in 1 .. n
    BY <1>1, <1>2, <1>6, <2>1, <2>3
  <2> QED
    BY <1>1, <2>2, <2>3
<1>7. ASSUME NEW k \in 1 .. emitted', Received < k
      PROVE  \E i \in 1 .. n + 1 : stdout'[i].kind = "event" /\ stdout'[i].n = k
  <2>1. CASE k \in 1 .. emitted
    <3>1. PICK i \in 1 .. n : stdout[i].kind = "event" /\ stdout[i].n = k
      BY <1>2, <1>7, <2>1
    <3>2. i \in 1 .. n + 1 /\ stdout'[i] = stdout[i]
      BY <1>1
    <3> QED
      BY <3>1, <3>2
  <2>2. CASE k = emitted + 1 /\ m.kind = "event"
    <3>1. n + 1 \in 1 .. n + 1 /\ stdout'[n + 1].n = k
      BY <1>1, <2>2
    <3> QED
      BY <1>1, <2>2, <3>1
  <2> QED
    BY <1>1, <2>1, <2>2
<1>8. Received' <= emitted'
  BY <1>1, <1>4
<1> QED
  BY <1>1, <1>5, <1>6, <1>7, <1>8 DEF PipeHasTheRest, EventAt

\* A step keeps the numbering of the events.
LEMMA EventNext == EventInv /\ [Next]_vars => EventInv'
<1> SUFFICES ASSUME EventInv, [Next]_vars PROVE EventInv'
  OBVIOUS
<1>1. TypeOK /\ EventsAreNumbered /\ PipeHasTheRest
  BY DEF EventInv
<1>2. TypeOK'
  BY <1>1, TypeNext
<1>3. PipeStep
  BY <1>1, PipeSteps
<1>4. CASE UNCHANGED <<events, taken, stdout, emitted>> /\ (reader' => reader)
  BY <1>1, <1>2, <1>4 DEF EventInv, EventsAreNumbered, PipeHasTheRest, EventAt, Received
<1>5. ASSUME NEW m \in Frame, stdout' = Append(stdout, m), UNCHANGED <<events, taken, reader>>,
             IF m.kind = "event" THEN m.n = emitted + 1 /\ emitted' = emitted + 1
             ELSE emitted' = emitted
      PROVE  EventInv'
  <2>1. PipeHasTheRest'
    BY <1>2, <1>5, RestAfterWrite
  <2>2. EventsAreNumbered'
    BY <1>1, <1>5 DEF EventsAreNumbered
  <2> QED
    BY <1>2, <2>1, <2>2 DEF EventInv
<1>6. CASE NextEvent
  <2>1. /\ events # << >> /\ taken' = Append(taken, Head(events)) /\ events' = Tail(events)
        /\ UNCHANGED <<stdout, emitted, reader>>
    BY <1>6 DEF NextEvent, flagVars, childVars
  <2>2. /\ Len(events) \in Nat \ {0} /\ Len(taken) \in Nat
        /\ Len(events') = Len(events) - 1 /\ Len(taken') = Len(taken) + 1
        /\ \A i \in 1 .. Len(taken) : taken'[i] = taken[i]
        /\ taken'[Len(taken) + 1] = events[1]
        /\ \A i \in 1 .. Len(events) - 1 : events'[i] = events[i + 1]
    BY <1>1, <2>1 DEF TypeOK
  <2>3. Received' = Received
    BY <2>2 DEF Received
  <2>4. PipeHasTheRest'
    BY <1>1, <2>1, <2>3 DEF PipeHasTheRest, EventAt
  <2>5. /\ Len(events) <= EventLimit
        /\ \A i \in 1 .. Len(taken) : taken[i] = i
        /\ \A i \in 1 .. Len(events) : events[i] = Len(taken) + i
    BY <1>1 DEF EventsAreNumbered
  <2>6. \A i \in 1 .. Len(taken') : taken'[i] = i
    BY <2>2, <2>5, SMTT(30)
  <2>7. \A i \in 1 .. Len(events') : events'[i] = Len(taken') + i
    <3> SUFFICES ASSUME NEW i \in 1 .. Len(events') PROVE events'[i] = Len(taken') + i
      OBVIOUS
    <3>1. i + 1 \in 1 .. Len(events) /\ events'[i] = events[i + 1]
      BY <2>2
    <3> QED
      BY <2>2, <2>5, <3>1
  <2>8. Len(events') <= EventLimit
    BY <2>2, <2>5, WorkerAssumption
  <2> QED
    BY <1>2, <2>4, <2>6, <2>7, <2>8 DEF EventInv, EventsAreNumbered
<1>7. CASE ReadFrame
  <2>1. /\ reader /\ stdout # << >> /\ stdout' = Tail(stdout)
        /\ UNCHANGED <<taken, emitted>> /\ Head(stdout) = stdout[1]
    BY <1>1, <1>7 DEF ReadFrame, TypeOK
  <2>2. CASE ~(stdout[1].kind = "event")
    <3>1. UNCHANGED events
      BY <1>7, <2>1, <2>2 DEF ReadFrame, Respond, FailTransport
    <3>2. Received' = IF stdout[1].kind = "event" THEN Received + 1 ELSE Received
      BY <2>1, <2>2, <3>1 DEF Received
    <3>3. PipeHasTheRest'
      BY <1>2, <2>1, <3>2, RestAfterRead
    <3> QED
      BY <1>1, <1>2, <2>1, <3>1, <3>3 DEF EventInv, EventsAreNumbered
  <2>3. CASE stdout[1].kind = "event" /\ Len(events) < EventLimit
    <3>1. events' = Append(events, stdout[1].n)
      BY <1>7, <2>1, <2>3 DEF ReadFrame, Enqueue
    <3>2. stdout[1].n = Received + 1
      BY <2>1, <2>3, NextInLine
    <3>3. /\ Len(events) \in Nat /\ Len(taken) \in Nat /\ Len(events') = Len(events) + 1
          /\ \A i \in 1 .. Len(events) : events'[i] = events[i]
          /\ events'[Len(events) + 1] = stdout[1].n
      BY <1>1, <3>1 DEF TypeOK
    <3>4. Received' = IF stdout[1].kind = "event" THEN Received + 1 ELSE Received
      BY <2>1, <2>3, <3>3 DEF Received
    <3>5. PipeHasTheRest'
      BY <1>2, <2>1, <3>4, RestAfterRead
    <3>6. EventsAreNumbered'
      <4>1. Len(events') <= EventLimit
        BY <2>3, <3>3, WorkerAssumption
      <4>2. ASSUME NEW i \in 1 .. Len(events') PROVE events'[i] = Len(taken') + i
        <5>1. CASE i = Len(events) + 1
          BY <2>1, <3>2, <3>3, <5>1 DEF Received
        <5>2. CASE i \in 1 .. Len(events)
          BY <1>1, <2>1, <3>3, <5>2 DEF EventsAreNumbered
        <5> QED
          BY <3>3, <5>1, <5>2
      <4>3. \A i \in 1 .. Len(taken') : taken'[i] = i
        BY <1>1, <2>1 DEF EventsAreNumbered
      <4> QED
        BY <4>1, <4>2, <4>3 DEF EventsAreNumbered
    <3> QED
      BY <1>2, <3>5, <3>6 DEF EventInv
  <2>4. CASE stdout[1].kind = "event" /\ ~(Len(events) < EventLimit)
    <3>1. UNCHANGED events /\ ~reader'
      BY <1>7, <2>1, <2>4 DEF ReadFrame, Enqueue, FailTransport
    <3> QED
      BY <1>1, <1>2, <2>1, <3>1 DEF EventInv, EventsAreNumbered, PipeHasTheRest
  <2> QED
    BY <2>2, <2>3, <2>4
<1> QED
  BY <1>3, <1>4, <1>5, <1>6, <1>7 DEF PipeStep

\* Events reach the callers of next_event in the order of emission and without a gap: the
\* pipe and the queue hand on every event once, and an overflow ends the transport
\* instead of losing one.
THEOREM EventsAreComplete == Spec => []EventsWithoutGap
<1>1. Init => EventInv
  <2> SUFFICES ASSUME Init PROVE EventInv
    OBVIOUS
  <2>1. TypeOK
    BY EndInit DEF EndInv
  <2>2. Len(events) = 0 /\ Len(taken) = 0 /\ Len(stdout) = 0 /\ emitted = 0
    BY DEF Init
  <2> QED
    BY <2>1, <2>2, WorkerAssumption
       DEF EventInv, EventsAreNumbered, PipeHasTheRest, EventAt, Received
<1>2. EventInv /\ [Next]_vars => EventInv'
  BY EventNext
<1>3. EventInv => EventsWithoutGap
  <2> SUFFICES ASSUME EventInv PROVE EventsWithoutGap
    OBVIOUS
  <2>1. /\ Len(taken) \in Nat /\ Len(events) \in Nat
        /\ Len(taken \o events) = Len(taken) + Len(events)
        /\ \A i \in 1 .. Len(taken) + Len(events) :
              (taken \o events)[i] = IF i <= Len(taken) THEN taken[i]
                                     ELSE events[i - Len(taken)]
    BY DEF EventInv, TypeOK
  <2>2. /\ \A i \in 1 .. Len(taken) : taken[i] = i
        /\ \A i \in 1 .. Len(events) : events[i] = Len(taken) + i
    BY DEF EventInv, EventsAreNumbered
  <2>3. ASSUME NEW i \in 1 .. Len(taken \o events) PROVE (taken \o events)[i] = i
    <3>1. CASE i <= Len(taken)
      BY <2>1, <2>2, <3>1
    <3>2. CASE ~(i <= Len(taken))
      <4>1. i - Len(taken) \in 1 .. Len(events)
        BY <2>1, <3>2
      <4>2. events[i - Len(taken)] = Len(taken) + (i - Len(taken))
        BY <2>2, <4>1
      <4> QED
        BY <2>1, <3>2, <4>1, <4>2
    <3> QED
      BY <3>1, <3>2
  <2> QED
    BY <2>3 DEF EventInv, EventsAreNumbered, EventsWithoutGap
<1> QED
  BY <1>1, <1>2, <1>3, PTL DEF Spec

=============================================================================
