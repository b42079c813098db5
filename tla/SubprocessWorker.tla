-------------------------- MODULE SubprocessWorker --------------------------
(***************************************************************************)
(* The supervisor of a worker process (SubprocessWorker of worker.py), the *)
(* process itself (worker_process.py) and the two pipes between them.      *)
(*                                                                         *)
(* The supervisor is cut at its awaits: the write, the future of a call,   *)
(* the end of the process.  Frames are atomic, except that a dying process *)
(* may leave a bad one.  The process takes requests one at a time; it may  *)
(* be slow, hang or die at any moment.                                     *)
(***************************************************************************)
EXTENDS Integers, Sequences

CONSTANTS
    Calls,      \* the calls callers make, each once
    CloseCall,  \* the "close" call that close() makes
    PipeLimit,  \* frames in a pipe beyond which its writer waits
    EventLimit, \* event_limit of the supervisor's queue
    MaxEvents   \* bound on the events of the process

ASSUME WorkerAssumption ==
    /\ CloseCall \notin Calls
    /\ PipeLimit \in Nat \ {0} /\ EventLimit \in Nat \ {0} /\ MaxEvents \in Nat

VARIABLES
    outcome,    \* where each call stands
    id,         \* its request_id, 0 before it has one
    nextId,     \* _next_request_id
    hello,      \* the future _hello
    broken,     \* _reader_error is set
    closing,    \* _closing
    closed,     \* _closed
    closer,     \* position of close()
    reader,     \* _reader_loop is running
    events,     \* _events
    taken,      \* events that next_event handed out
    abandoned,  \* a call was cancelled while it waited for the end of the process
    stdin,      \* request ids on their way to the process
    stdinOpen,  \* the supervisor has not closed it
    stdout,     \* frames in the pipe from the process
    proc,       \* "running" or "exited"
    greeted,    \* it has sent its hello
    signalled,  \* terminate() was called
    job,        \* the request the process works on, 0 if none
    executed,   \* requests that were dispatched
    emitted     \* events the process has emitted

callVars   == <<outcome, id, nextId>>
flagVars   == <<hello, broken, closing, closed, closer, reader, abandoned>>
eventVars  == <<events, taken>>
parentVars == <<callVars, flagVars, eventVars>>
childVars  == <<proc, greeted, signalled, job, executed, emitted>>
vars       == <<parentVars, stdin, stdinOpen, stdout, childVars>>

AllCalls == Calls \cup {CloseCall}
Returned == {"result", "error", "timeout", "failed", "cancelled"}

-----------------------------------------------------------------------------
(* Calls: _rpc. *)

\* The outcomes after _fail_transport: every pending future gets the error.
FailPending == [c \in AllCalls |->
                   IF outcome[c] = "pending" THEN "failed" ELSE outcome[c]]

\* Somebody reads what is written to the process.
Connected == stdinOpen /\ proc # "exited"

\* A written request waits for its answer, unless its future has already failed.
Written == IF broken THEN "failed" ELSE "pending"

\* Where write and drain leave a call: drain waits while the pipe is full; on a
\* closed or broken pipe it raises, or the frame is dropped and nobody notices.
WriteOutcomes ==
    IF ~Connected THEN {"failed", Written}
    ELSE IF Len(stdin) < PipeLimit THEN {Written}
    ELSE {"draining"}

WithFrame(n) == IF Connected THEN Append(stdin, n) ELSE stdin

\* A call on a closed or broken transport fails at once; otherwise it gets a
\* request id, and the frame goes out when the write lock is free.
Begin(c) ==
    IF closed \/ broken
    THEN /\ outcome' = [outcome EXCEPT ![c] = "failed"]
         /\ UNCHANGED <<id, nextId, stdin>>
    ELSE /\ id' = [id EXCEPT ![c] = nextId]
         /\ nextId' = nextId + 1
         /\ IF \E d \in AllCalls : outcome[d] \in {"queued", "draining"}
            THEN outcome' = [outcome EXCEPT ![c] = "queued"] /\ UNCHANGED stdin
            ELSE /\ \E o \in WriteOutcomes : outcome' = [outcome EXCEPT ![c] = o]
                 /\ stdin' = WithFrame(nextId)

Call(c) ==
    /\ hello = "ok" /\ outcome[c] = "none"
    /\ Begin(c)
    /\ UNCHANGED <<flagVars, eventVars, stdinOpen, stdout, childVars>>

\* The write lock is handed on in the order of the calls.
Write(c) ==
    /\ outcome[c] = "queued"
    /\ \A d \in AllCalls : /\ outcome[d] # "draining"
                           /\ outcome[d] = "queued" => id[c] <= id[d]
    /\ \E o \in WriteOutcomes : outcome' = [outcome EXCEPT ![c] = o]
    /\ stdin' = WithFrame(id[c])
    /\ UNCHANGED <<id, nextId, flagVars, eventVars, stdinOpen, stdout, childVars>>

\* drain returns, or raises on a pipe that was closed or broke meanwhile.
Drained(c) ==
    /\ outcome[c] = "draining"
    /\ ~Connected \/ Len(stdin) <= PipeLimit
    /\ \E o \in IF Connected THEN {Written} ELSE {"failed", Written} :
          outcome' = [outcome EXCEPT ![c] = o]
    /\ UNCHANGED <<id, nextId, flagVars, eventVars, stdin, stdinOpen, stdout,
                   childVars>>

\* Faulty variant of Timeout: the caller is told and the channel lives on.
TimeoutOnly(c) ==
    /\ outcome[c] = "pending"
    /\ outcome' = [outcome EXCEPT ![c] = "timeout"]
    /\ UNCHANGED <<id, nextId, flagVars, eventVars, stdin, stdinOpen, stdout,
                   childVars>>

\* request_timeout passes: the transport is aborted, and the process signalled.
Timeout(c) ==
    /\ outcome[c] = "pending"
    /\ outcome' = [FailPending EXCEPT ![c] = "aborting"]
    /\ closing' = TRUE /\ closed' = TRUE /\ broken' = TRUE
    /\ stdinOpen' = FALSE
    /\ signalled' = TRUE
    /\ UNCHANGED <<id, nextId, hello, closer, reader, abandoned, eventVars, stdin,
                   stdout, proc, greeted, job, executed, emitted>>

\* The process is gone: only now does the call raise.
AbortDone(c) ==
    /\ outcome[c] = "aborting" /\ proc = "exited"
    /\ outcome' = [outcome EXCEPT ![c] = "timeout"]
    /\ reader' = FALSE
    /\ UNCHANGED <<id, nextId, hello, broken, closing, closed, closer, abandoned,
                   eventVars, stdin, stdinOpen, stdout, childVars>>

\* The caller is cancelled.  A frame that was handed to the pipe stays there.
Cancel(c) ==
    /\ outcome[c] \in {"queued", "draining", "pending", "aborting"}
    /\ outcome' = [outcome EXCEPT ![c] = "cancelled"]
    /\ abandoned' = (abandoned \/ outcome[c] = "aborting")
    /\ UNCHANGED <<id, nextId, hello, broken, closing, closed, closer, reader,
                   eventVars, stdin, stdinOpen, stdout, childVars>>

-----------------------------------------------------------------------------
(* The reader. *)

\* _fail_transport, reached from the reader loop, which ends.  A spawn that
\* still waits for the hello terminates the process.
FailTransport ==
    /\ broken' = TRUE
    /\ reader' = FALSE
    /\ hello' = IF hello = "waiting" THEN "failed" ELSE hello
    /\ signalled' = (signalled \/ hello = "waiting")
    /\ outcome' = FailPending
    /\ closing' = (closing \/ hello = "waiting")
    /\ UNCHANGED events

\* Faulty variant of Answers: the oldest call that still waits is answered.
AnswersOldest(c, n) ==
    outcome[c] = "pending"
    /\ \A d \in AllCalls : outcome[d] = "pending" => id[c] <= id[d]

\* A request that is answered was read, so its drain is over too.
Answers(c, n) == outcome[c] \in {"draining", "pending"} /\ id[c] = n

\* A late answer finds nobody and is dropped.
Respond(n, how) ==
    /\ outcome' = [c \in AllCalls |-> IF Answers(c, n) THEN how ELSE outcome[c]]
    /\ UNCHANGED <<hello, broken, closing, reader, events, signalled>>

\* Faulty variant of Enqueue: a full queue loses its oldest event.
EnqueueDropOldest(n) ==
    /\ events' = Append(IF Len(events) < EventLimit THEN events ELSE Tail(events), n)
    /\ UNCHANGED <<outcome, hello, broken, closing, reader, signalled>>

\* put_nowait, or the overflow of the queue.
Enqueue(n) ==
    IF Len(events) < EventLimit
    THEN /\ events' = Append(events, n)
         /\ UNCHANGED <<outcome, hello, broken, closing, reader, signalled>>
    ELSE FailTransport

ReadFrame ==
    /\ reader /\ stdout # << >>
    /\ stdout' = Tail(stdout)
    /\ LET m == Head(stdout)
       IN  \/ /\ m.kind = "hello"
              /\ hello' = "ok"
              /\ UNCHANGED <<outcome, broken, closing, reader, events, signalled>>
           \/ m.kind \in {"result", "error"} /\ Respond(m.n, m.kind)
           \/ m.kind = "event" /\ Enqueue(m.n)
           \/ m.kind = "bad" /\ FailTransport
    /\ UNCHANGED <<id, nextId, closed, closer, abandoned, taken, stdin, stdinOpen,
                   proc, greeted, job, executed, emitted>>

\* End of file: silent when the supervisor is closing.
ReadEof ==
    /\ reader /\ stdout = << >> /\ proc = "exited"
    /\ IF closing
       THEN /\ reader' = FALSE
            /\ UNCHANGED <<outcome, hello, broken, closing, events, signalled>>
       ELSE FailTransport
    /\ UNCHANGED <<id, nextId, closed, closer, abandoned, taken, stdin, stdinOpen,
                   stdout, proc, greeted, job, executed, emitted>>

NextEvent ==
    /\ ~closed /\ events # << >>
    /\ taken' = Append(taken, Head(events))
    /\ events' = Tail(events)
    /\ UNCHANGED <<callVars, flagVars, stdin, stdinOpen, stdout, childVars>>

-----------------------------------------------------------------------------
(* spawn and close. *)

\* handshake_timeout passes: the process is terminated, spawn raises.
SpawnTimeout ==
    /\ hello = "waiting"
    /\ hello' = "failed" /\ closing' = TRUE /\ signalled' = TRUE /\ reader' = FALSE
    /\ UNCHANGED <<callVars, broken, closed, closer, abandoned, eventVars, stdin,
                   stdinOpen, stdout, proc, greeted, job, executed, emitted>>

\* close on a closed worker returns; on a live one it calls "close" first.
CloseBegin ==
    /\ hello = "ok" /\ closer = "no"
    /\ IF closed
       THEN closer' = "done" /\ UNCHANGED <<closing, callVars, stdin, stdinOpen>>
       ELSE /\ closing' = TRUE
            /\ IF proc # "exited" /\ ~broken
               THEN /\ closer' = "calling"
                    /\ Begin(CloseCall)
                    /\ UNCHANGED stdinOpen
               ELSE /\ closer' = "waiting"
                    /\ stdinOpen' = FALSE
                    /\ UNCHANGED <<callVars, stdin>>
    /\ UNCHANGED <<hello, broken, closed, reader, abandoned, eventVars, stdout,
                   childVars>>

CloseCalled ==
    /\ closer = "calling" /\ outcome[CloseCall] \in Returned \ {"cancelled"}
    /\ closer' = "waiting"
    /\ stdinOpen' = FALSE
    /\ UNCHANGED <<callVars, hello, broken, closing, closed, reader, abandoned,
                   eventVars, stdin, stdout, childVars>>

\* The pipe is closed once it is empty enough; two seconds are enough for a
\* process that ends by itself.
CloseTerminates ==
    /\ closer = "waiting" /\ proc # "exited" /\ Len(stdin) <= PipeLimit
    /\ closer' = "terminating"
    /\ signalled' = TRUE
    /\ UNCHANGED <<callVars, hello, broken, closing, closed, reader, abandoned,
                   eventVars, stdin, stdinOpen, stdout, proc, greeted, job, executed,
                   emitted>>

\* Faulty variant of CloseDone: close does not wait for the process.
CloseDoneAtOnce ==
    /\ closer = "waiting"
    /\ closer' = "done"
    /\ closed' = TRUE /\ broken' = TRUE /\ reader' = FALSE
    /\ outcome' = FailPending
    /\ UNCHANGED <<id, nextId, hello, closing, abandoned, eventVars, stdin,
                   stdinOpen, stdout, childVars>>

CloseDone ==
    /\ closer \in {"waiting", "terminating"} /\ proc = "exited"
    /\ closer' = "done"
    /\ closed' = TRUE /\ broken' = TRUE /\ reader' = FALSE
    /\ outcome' = FailPending
    /\ UNCHANGED <<id, nextId, hello, closing, abandoned, eventVars, stdin,
                   stdinOpen, stdout, childVars>>

-----------------------------------------------------------------------------
(* The process: serve. *)

Out(kind, n) ==
    /\ proc = "running"
    /\ Len(stdout) < PipeLimit
    /\ stdout' = Append(stdout, [kind |-> kind, n |-> n])

Hello ==
    /\ proc = "running" /\ ~greeted
    /\ Out("hello", 0)
    /\ greeted' = TRUE
    /\ UNCHANGED <<parentVars, stdin, stdinOpen, proc, signalled, job, executed,
                   emitted>>

ReadRequest ==
    /\ proc = "running" /\ greeted /\ job = 0 /\ stdin # << >>
    /\ job' = Head(stdin)
    /\ stdin' = Tail(stdin)
    /\ UNCHANGED <<parentVars, stdinOpen, stdout, proc, greeted, signalled, executed,
                   emitted>>

\* The command is dispatched and answered.  One that raises may have done so
\* after its effect.  After a "close" that succeeded the process ends.
Reply(kind) ==
    /\ job # 0
    /\ Out(kind, job)
    /\ executed' = executed \cup {job}
    /\ job' = 0
    /\ proc' = IF kind = "result" /\ job = id[CloseCall] THEN "exited" ELSE proc
    /\ UNCHANGED <<parentVars, stdin, stdinOpen, greeted, signalled, emitted>>

PumpEvent ==
    /\ greeted /\ emitted < MaxEvents
    /\ emitted' = emitted + 1
    /\ Out("event", emitted + 1)
    /\ UNCHANGED <<parentVars, stdin, stdinOpen, proc, greeted, signalled, job,
                   executed>>

\* End of input between two requests.
Exit ==
    /\ proc = "running" /\ greeted /\ job = 0 /\ stdin = << >> /\ ~stdinOpen
    /\ proc' = "exited"
    /\ UNCHANGED <<parentVars, stdin, stdinOpen, stdout, greeted, signalled, job,
                   executed, emitted>>

\* The process dies, perhaps in the middle of a frame.
Die ==
    /\ proc # "exited"
    /\ proc' = "exited"
    /\ \/ UNCHANGED stdout
       \/ Len(stdout) < PipeLimit /\ stdout' = Append(stdout, [kind |-> "bad", n |-> 0])
    /\ UNCHANGED <<parentVars, stdin, stdinOpen, greeted, signalled, job, executed,
                   emitted>>

\* Faulty variant of Terminate: only a process that waits for input obeys, and
\* there is no kill after it.
TerminateIdle ==
    /\ signalled /\ proc # "exited" /\ job = 0
    /\ proc' = "exited"
    /\ UNCHANGED <<parentVars, stdin, stdinOpen, stdout, greeted, signalled, job,
                   executed, emitted>>

\* SIGTERM, or SIGKILL two seconds later, ends it.
Terminate ==
    /\ signalled /\ proc # "exited"
    /\ proc' = "exited"
    /\ UNCHANGED <<parentVars, stdin, stdinOpen, stdout, greeted, signalled, job,
                   executed, emitted>>

-----------------------------------------------------------------------------
Init ==
    /\ outcome = [c \in AllCalls |-> "none"]
    /\ id = [c \in AllCalls |-> 0] /\ nextId = 1
    /\ hello = "waiting" /\ broken = FALSE /\ closing = FALSE /\ closed = FALSE
    /\ closer = "no" /\ reader = TRUE /\ abandoned = FALSE
    /\ events = << >> /\ taken = << >>
    /\ stdin = << >> /\ stdinOpen = TRUE /\ stdout = << >>
    /\ proc = "running" /\ greeted = FALSE /\ signalled = FALSE /\ job = 0
    /\ executed = {} /\ emitted = 0

Next ==
    \/ \E c \in Calls : Call(c) \/ Cancel(c)
    \/ \E c \in AllCalls : Write(c) \/ Drained(c) \/ Timeout(c) \/ AbortDone(c)
    \/ ReadFrame \/ ReadEof \/ NextEvent
    \/ SpawnTimeout \/ CloseBegin \/ CloseCalled \/ CloseTerminates \/ CloseDone
    \/ Hello \/ ReadRequest \/ Reply("result") \/ Reply("error") \/ PumpEvent \/ Exit \/ Die
    \/ Terminate

Spec == Init /\ [][Next]_vars

\* Somebody waits for the end of the process, and will kill it.
EndAwaited == closer = "terminating" \/ \E c \in AllCalls : outcome[c] = "aborting"

\* Time passes for calls, the supervisor's tasks run, and a process whose end
\* is awaited is killed.  The process itself owes nothing.
FairSpec ==
    /\ Spec
    /\ \A c \in AllCalls : WF_vars(Timeout(c)) /\ WF_vars(AbortDone(c))
    /\ WF_vars(EndAwaited /\ Terminate)

-----------------------------------------------------------------------------
(* Properties. *)

\* A caller gets the answer to its own request, although answers to cancelled
\* calls are still on their way: a result means that its command took effect.
OwnAnswer ==
    \A c \in AllCalls : outcome[c] = "result" => id[c] \in executed

\* _rpc: "Keeping the channel alive would allow it (or a queued command) to
\* execute later, so timeout is a terminal transport failure".  Once a call has
\* raised a time-out, no command takes effect any more.
NothingAfterTimeout ==
    [][(\E c \in AllCalls : outcome[c] = "timeout") => executed' = executed]_vars

\* Events reach the callers of next_event in the order of emission and without
\* a gap, also across an overflow of the queue, which keeps to its limit.
EventsWithoutGap ==
    /\ Len(events) <= EventLimit
    /\ \A i \in 1 .. Len(taken \o events) : (taken \o events)[i] = i

\* A request that was written is answered, one way or the other, whatever the
\* process does.
WrittenCallReturns ==
    \A c \in AllCalls :
        outcome[c] \in {"pending", "aborting"} ~> outcome[c] \in Returned

\* close returns when the process has ended, unless another call is still
\* ending it or was cancelled while it did.
ClosedIsDead ==
    closer = "done" /\ ~abandoned /\ (\A c \in AllCalls : outcome[c] # "aborting")
        => proc = "exited"
=============================================================================
