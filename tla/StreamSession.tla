--------------------------- MODULE StreamSession ---------------------------
(***************************************************************************)
(* One session of the v1 client (robot_client.py) with the v1 server: the  *)
(* upload or pre-buffering of the program, the start, the producer task    *)
(* that keeps the server's buffer filled, the receiver task, and the two   *)
(* directions of the WebSocket, which can be lost or closed at any time.   *)
(*                                                                         *)
(* Every await of the client is a cut between two actions.  The server is  *)
(* reduced to what its messages depend on: how much it has accepted, how   *)
(* far it has played, and its state; ProgramRun models the rest of it.     *)
(* Heartbeats are left out: the watchdog is one of the causes of Fault.    *)
(*                                                                         *)
(* The unit of time is the telemetry period.                               *)
(***************************************************************************)
EXTENDS Integers, Sequences, SequencesExt

CONSTANTS
    Programs,       \* times t_us of the points of the programs to run
    ChunkPoints,    \* --chunk-points
    TargetAhead,    \* --target-ahead
    MaxHorizon,     \* SafetyPolicy.max_horizon_us
    StartBuffer,    \* SafetyPolicy.start_buffer_us
    MaxDelay        \* periods within which a punctual network is answered

ASSUME SessionAssumption ==
    /\ ChunkPoints \in Nat \ {0}
    /\ TargetAhead \in Nat \ {0} /\ StartBuffer \in Nat
    /\ MaxHorizon \in Nat /\ MaxDelay \in Nat
    \* main() wants 2 s to 25 s; the policy has 2 s and 30 s.
    /\ StartBuffer <= TargetAhead /\ TargetAhead <= MaxHorizon
ASSUME ProgramAssumption ==
    \A p \in Programs :
        /\ p \in Seq(Nat) /\ Len(p) >= 2 /\ p[1] = 0
        /\ \A i \in 2 .. Len(p) : p[i - 1] < p[i]

VARIABLES
    times,      \* the loaded program
    mode,       \* --mode
    main,       \* position of run_program
    next,       \* next_chunk, then chunk_seq of the producer
    producer,   \* the task stream_remaining_chunks
    receipt,    \* the one future in RobotStreamClient.receipts
    seen,       \* RobotStreamClient.cursor_us
    events,     \* RobotStreamClient.events, the kinds run_program acts on
    receiving,  \* the task _receive is running
    toServer,   \* messages under way to the server
    toClient,   \* events under way to the client
    link,       \* "up", "lost", "closed" by the server, "left" by the client
    handling,   \* the server's connection_handler is still in its loop
    state,      \* ProgramRun.state
    accepted,   \* ProgramRun.expected_chunk_seq
    cursor,     \* ProgramRun.cursor_us
    stop,       \* ProgramRun.stop_event
    code,       \* fault_code of run_finished
    lag         \* periods since the network was last quiet

clientVars == <<main, next, producer, receipt, seen, events, receiving>>
netVars    == <<toServer, toClient, link>>
serverVars == <<handling, state, accepted, cursor, stop, code>>
vars       == <<times, mode, clientVars, netVars, serverVars, lag>>

-----------------------------------------------------------------------------
(* The program. *)

\* split_chunks: the times of chunk k of a program, counted from 0.
Chunk(points, k) ==
    LET upto == (k + 1) * ChunkPoints
    IN  SubSeq(points, k * ChunkPoints + 1,
               IF upto < Len(points) THEN upto ELSE Len(points))

ChunkCount(points) == (Len(points) + ChunkPoints - 1) \div ChunkPoints

\* chunk[-1].t_us, and 0 for the empty buffer before chunk 0.
ChunkEnd(points, k) == IF k < 0 THEN 0 ELSE Last(Chunk(points, k))

NumChunks == ChunkCount(times)
End(k) == ChunkEnd(times, k)

AcceptedUntil == End(accepted - 1)
FinalReceived == accepted = NumChunks

-----------------------------------------------------------------------------
(* Messages. *)

Message(kind, seq) == [type |-> kind, seq |-> seq]

Event(kind, seq, at) == [type |-> kind, seq |-> seq, cursor |-> at]

\* Kinds that carry execution_cursor_us.
WithCursor == {"run_opened", "chunk_accepted", "run_state", "telemetry",
               "completed", "not_completed"}

\* Kinds on which run_program leaves its wait; run_finished is split by
\* outcome.
Decisive == {"run_opened", "error", "completed", "not_completed",
             "connection_closed"}

\* A send on a socket whose end the receiver has not noticed goes nowhere.
Send(m) == toServer' = IF link = "up" THEN Append(toServer, m) ELSE toServer

Emit(es) == toClient' = IF link = "up" THEN toClient \o es ELSE toClient

-----------------------------------------------------------------------------
(* The client: run_program before the start. *)

Ended == main \in {"succeeded", "failed"}

\* The finally clause: tasks are cancelled and the socket is closed, after
\* a cancel message when the run was started.
LeaveWith(how, messages) ==
    /\ main' = how
    /\ toServer' = IF link = "up" /\ receiving THEN toServer \o messages
                                               ELSE toServer
    /\ link' = IF link = "up" THEN "left" ELSE link
    /\ receiving' = FALSE
    /\ receipt' = "none"
    /\ producer' = "none"
    /\ UNCHANGED <<times, mode, next, seen, events, toClient, serverVars, lag>>

\* wait_for("run_opened"): other kinds are dropped, connection_closed too.
WaitOpened ==
    /\ main = "opening"
    /\ events # << >>
    /\ IF Head(events) = "error"
       THEN LeaveWith("failed", << >>)
       ELSE /\ main' = IF Head(events) = "run_opened" THEN "upload" ELSE main
            /\ events' = Tail(events)
            /\ UNCHANGED <<times, mode, next, producer, receipt, seen, receiving,
                           netVars, serverVars, lag>>

\* send_chunk up to the await of its receipt.
SendChunk ==
    /\ Send(Message("chunk", next))
    /\ receipt' = "pending"

UploadChunk ==
    /\ main = "upload"
    /\ IF receiving
       THEN /\ SendChunk
            /\ main' = "receipt"
            /\ UNCHANGED <<times, mode, next, producer, seen, events, receiving,
                           toClient, link, serverVars, lag>>
       ELSE LeaveWith("failed", << >>)

\* Faulty variant of Prebuffered: one chunk short of the watermark.
PrebufferedEarly ==
    \/ next + 1 = NumChunks
    \/ mode = "streaming" /\ End(next + 1) >= TargetAhead

\* A sealed program is uploaded whole, a stream up to the lookahead.
Prebuffered ==
    \/ next + 1 = NumChunks
    \/ mode = "streaming" /\ End(next) >= TargetAhead

UploadAcknowledged ==
    /\ main = "receipt"
    /\ \/ /\ receipt = "accepted"
          /\ receipt' = "none"
          /\ next' = next + 1
          /\ main' = IF Prebuffered THEN "start" ELSE "upload"
          /\ UNCHANGED <<times, mode, producer, seen, events, receiving, netVars,
                         serverVars, lag>>
       \/ receipt = "refused" /\ LeaveWith("failed", << >>)

SendStart ==
    /\ main = "start"
    /\ IF receiving
       THEN /\ Send(Message("start", 0))
            /\ main' = "running"
            /\ producer' = IF next = NumChunks THEN "done" ELSE "pace"
            /\ UNCHANGED <<times, mode, next, receipt, seen, events, receiving,
                           toClient, link, serverVars, lag>>
       ELSE LeaveWith("failed", << >>)

-----------------------------------------------------------------------------
(* The client: the producer, the receiver and the event loop. *)

\* Faulty variant of MayProduce: it waits at the boundary too.
MayProduceStrictly == End(next) - seen < TargetAhead

\* The negation of the producer's waiting condition.
MayProduce == End(next) - seen <= TargetAhead

Produce ==
    /\ producer = "pace"
    /\ MayProduce
    /\ IF receiving
       THEN SendChunk /\ producer' = "receipt"
       ELSE producer' = "failed" /\ UNCHANGED <<receipt, toServer>>
    /\ UNCHANGED <<times, mode, main, next, seen, events, receiving, toClient,
                   link, serverVars, lag>>

ProduceAcknowledged ==
    /\ producer = "receipt"
    /\ \/ /\ receipt = "accepted"
          /\ next' = next + 1
          /\ producer' = IF next + 1 = NumChunks THEN "done" ELSE "pace"
       \/ /\ receipt = "refused"
          /\ producer' = "failed"
          /\ UNCHANGED next
    /\ receipt' = "none"
    /\ UNCHANGED <<times, mode, main, seen, events, receiving, netVars,
                   serverVars, lag>>

\* execution_cursor_us of an event.
CursorOf(e) == e.cursor

\* One turn of _receive.  Every event wakes the producer, which looks at the
\* cursor again: Produce is enabled by the cursor alone.
Receive ==
    /\ receiving
    /\ toClient # << >>
    /\ LET e == Head(toClient)
       IN  /\ receipt' = IF receipt = "pending" /\ e.type = "error" THEN "refused"
                         ELSE IF receipt = "pending" /\ e.type = "chunk_accepted"
                                 /\ e.seq = next THEN "accepted"
                         ELSE receipt
           /\ seen' = IF e.type \in WithCursor THEN CursorOf(e) ELSE seen
           /\ events' = IF e.type \in Decisive THEN Append(events, e.type)
                                               ELSE events
    /\ toClient' = Tail(toClient)
    /\ UNCHANGED <<times, mode, main, next, producer, receiving, toServer, link,
                   serverVars, lag>>

\* Faulty variant of ReceiverEnds: no event tells run_program.
ReceiverEndsSilently ==
    /\ receiving /\ link \in {"lost", "closed"} /\ toClient = << >>
    /\ receiving' = FALSE
    /\ receipt' = IF receipt = "pending" THEN "refused" ELSE receipt
    /\ UNCHANGED <<times, mode, main, next, producer, seen, events, netVars,
                   serverVars, lag>>

\* The socket's iterator ends: by ConnectionClosed when the link was lost,
\* without an exception, hence without an event, after an orderly close.
ReceiverEnds ==
    /\ receiving /\ link \in {"lost", "closed"} /\ toClient = << >>
    /\ receiving' = FALSE
    /\ receipt' = IF receipt = "pending" THEN "refused" ELSE receipt
    /\ events' = IF link = "lost" THEN Append(events, "connection_closed")
                                  ELSE events
    /\ UNCHANGED <<times, mode, main, next, producer, seen, netVars, serverVars,
                   lag>>

\* The loop over events.get() and the producer.
RunEvent ==
    /\ main = "running"
    /\ \/ /\ producer = "failed"
          /\ LeaveWith("failed", <<Message("cancel", 0)>>)
       \/ /\ events # << >>
          /\ CASE Head(events) = "completed" -> LeaveWith("succeeded", << >>)
               [] Head(events) = "not_completed" -> LeaveWith("failed", << >>)
               [] OTHER -> LeaveWith("failed", <<Message("cancel", 0)>>)

\* Ctrl-C: run_program is cancelled at whatever it awaits.
Interrupt ==
    /\ ~Ended
    /\ LeaveWith("failed",
                 IF main = "running" THEN <<Message("cancel", 0)>> ELSE << >>)

-----------------------------------------------------------------------------
(* The server. *)

\* append_chunk and start, as far as this client can make them refuse.
Accepts(m) ==
    CASE m.type = "chunk" ->
            /\ m.seq = accepted
            /\ state \in {"buffering", "running"}
            /\ mode = "streaming" => End(m.seq) - cursor <= MaxHorizon
      [] m.type = "start" ->
            /\ state = "buffering"
            /\ IF mode = "sealed" THEN FinalReceived
               ELSE FinalReceived \/ AcceptedUntil >= StartBuffer
      [] OTHER -> TRUE

\* One message: open_run may find another run active, cancel only sets the
\* stop event.
Handle ==
    /\ handling
    /\ toServer # << >>
    /\ LET m == Head(toServer)
       IN  \/ /\ m.type = "open_run"
              /\ state' = "buffering"
              /\ Emit(<<Event("run_opened", 0, cursor)>>)
              /\ UNCHANGED <<accepted, stop>>
           \/ /\ m.type = "open_run" \/ ~Accepts(m)
              /\ Emit(<<Event("error", 0, 0)>>)
              /\ UNCHANGED <<state, accepted, stop>>
           \/ /\ m.type = "chunk" /\ Accepts(m)
              /\ accepted' = accepted + 1
              /\ Emit(<<Event("chunk_accepted", m.seq, cursor)>>)
              /\ UNCHANGED <<state, stop>>
           \/ /\ m.type = "start" /\ Accepts(m)
              /\ state' = "arming"
              /\ Emit(<<Event("run_state", 0, cursor)>>)
              /\ UNCHANGED <<accepted, stop>>
           \/ /\ m.type = "cancel"
              /\ stop' = TRUE
              /\ Emit(<<Event("stop_accepted", 0, 0)>>)
              /\ UNCHANGED <<state, accepted>>
    /\ toServer' = Tail(toServer)
    /\ UNCHANGED <<times, mode, clientVars, link, handling, cursor, code, lag>>

\* The handler's loop ends with its connection.
ConnectionLost ==
    /\ handling /\ link # "up" /\ toServer = << >>
    /\ handling' = FALSE
    /\ state' = IF state = "buffering" THEN "stopped" ELSE state
    /\ stop' = (stop \/ state = "arming")
    /\ UNCHANGED <<times, mode, clientVars, netVars, accepted, cursor, code, lag>>

\* emergency_stop from another connection.
EmergencyStop ==
    /\ state \in {"buffering", "arming", "running"} /\ ~stop
    /\ stop' = TRUE
    /\ UNCHANGED <<times, mode, clientVars, netVars, handling, state, accepted,
                   cursor, code, lag>>

\* The tail of _execute: the outcome and run_finished.  An exception, which a
\* stop noticed in the control loop is not, also reports a fault.
Finish(outcome, c, at) ==
    /\ state' = outcome
    /\ code' = c
    /\ cursor' = at
    /\ LET quietly == c = "NONE" \/ (c = "CANCELLED" /\ state = "running")
           kind == IF outcome = "completed" THEN outcome ELSE "not_completed"
       IN  Emit((IF quietly THEN << >> ELSE <<Event("fault", 0, 0)>>)
                \o <<Event(kind, 0, at)>>)
    /\ UNCHANGED <<times, mode, clientVars, toServer, link, handling, accepted,
                   stop>>

\* The thread has connected, checked the start pose and the stop event.
Arm ==
    /\ state = "arming"
    /\ IF stop
       THEN Finish("stopped", "CANCELLED", cursor)
       ELSE /\ state' = "running"
            /\ Emit(<<Event("run_state", 0, cursor)>>)
            /\ UNCHANGED <<times, mode, clientVars, toServer, link, handling,
                           accepted, cursor, stop, code>>
    /\ UNCHANGED lag

\* Heartbeat lost, tracking error, hardware fault.
Fault ==
    /\ state \in {"arming", "running"}
    /\ Finish("faulted", "OTHER", cursor)
    /\ UNCHANGED lag

\* Nothing is under way and the client has nothing to send.
Quiet ==
    /\ toServer = << >> /\ toClient = << >>
    /\ receipt \in {"none", "pending"}
    /\ producer = "pace" => ~MayProduce

\* One telemetry period of the control loop.
Tick ==
    /\ state = "running"
    /\ LET now == cursor + 1
       IN  IF stop THEN Finish("stopped", "CANCELLED", cursor)
           ELSE IF now > AcceptedUntil
           THEN IF FinalReceived THEN Finish("completed", "NONE", AcceptedUntil)
                ELSE Finish("faulted", "BUFFER_UNDERRUN", cursor)
           ELSE /\ cursor' = now
                /\ Emit(<<Event("telemetry", 0, now)>>)
                /\ UNCHANGED <<times, mode, clientVars, toServer, link, handling,
                               state, accepted, stop, code>>
    /\ lag' = IF lag > MaxDelay THEN lag ELSE IF Quiet THEN 0 ELSE lag + 1

-----------------------------------------------------------------------------
(* The connection. *)

\* What is under way when the link ends arrives up to some message.
CutTo(s) == {SubSeq(s, 1, n) : n \in 0 .. Len(s)}

\* The link breaks, or the process at its other end dies.
Lose ==
    /\ link = "up"
    /\ link' = "lost"
    /\ toServer' \in CutTo(toServer)
    /\ toClient' \in CutTo(toClient)
    /\ UNCHANGED <<times, mode, clientVars, serverVars, lag>>

\* The server shuts down: emergency_stop, then an orderly close.
Shutdown ==
    /\ link = "up"
    /\ link' = "closed"
    /\ stop' = (stop \/ state # "none")
    /\ toServer' \in CutTo(toServer)
    /\ toClient' \in CutTo(toClient)
    /\ UNCHANGED <<times, mode, clientVars, handling, state, accepted, cursor,
                   code, lag>>

Init ==
    /\ times \in Programs
    /\ mode \in {"sealed", "streaming"}
    /\ main = "opening" /\ next = 0 /\ producer = "none" /\ receipt = "none"
    /\ seen = 0 /\ events = << >> /\ receiving = TRUE
    /\ toServer = <<Message("open_run", 0)>> /\ toClient = << >> /\ link = "up"
    /\ handling = TRUE /\ state = "none" /\ accepted = 0 /\ cursor = 0
    /\ stop = FALSE /\ code = "NONE" /\ lag = 0

Client == \/ WaitOpened \/ UploadChunk \/ UploadAcknowledged \/ SendStart
          \/ Produce \/ ProduceAcknowledged \/ Receive \/ ReceiverEnds \/ RunEvent

Server == Handle \/ ConnectionLost \/ Arm \/ Tick

Next == Client \/ Interrupt \/ Server \/ EmergencyStop \/ Fault \/ Lose \/ Shutdown

Spec == Init /\ [][Next]_vars

\* Each task of the client, the handler and the thread are run when they can.
FairSpec ==
    /\ Spec
    /\ WF_vars(WaitOpened \/ UploadChunk \/ UploadAcknowledged \/ SendStart \/ RunEvent)
    /\ WF_vars(Produce \/ ProduceAcknowledged)
    /\ WF_vars(Receive \/ ReceiverEnds)
    /\ WF_vars(Handle \/ ConnectionLost)
    /\ WF_vars(Arm \/ Tick)

-----------------------------------------------------------------------------
(* Properties. *)

\* Whatever is pre-buffered at once fits the server's horizon.
FitsHorizon ==
    \A k \in 0 .. NumChunks - 1 : End(k - 1) < TargetAhead => End(k) <= MaxHorizon

\* The client never sends a message that a live run refuses: not a chunk
\* beyond the horizon, out of order or during arming, not a start too early.
\* Its decisions rest on a cursor that may be old by any amount.
NoMessageRefused ==
    FitsHorizon /\ toServer # << >> /\ state \in {"buffering", "arming", "running"}
        => Accepts(Head(toServer))

\* Each chunk spans less than the lookahead by the delay of the network.
ShortChunks ==
    \A k \in 1 .. NumChunks - 1 : End(k) - End(k - 1) <= TargetAhead - MaxDelay

\* While the client is connected over a punctual network, a stream of short
\* chunks never underruns: the pacing leaves time for the next chunk to arrive.
KeepsAhead ==
    ShortChunks /\ link = "up" /\ lag <= MaxDelay => code # "BUFFER_UNDERRUN"

\* README.md, of streaming mode: "The client stays about five seconds ahead
\* while the server performs the local loop".  Connected over a punctual
\* network, then, it never lets the buffer run dry.
StaysAhead == link = "up" /\ lag <= MaxDelay => code # "BUFFER_UNDERRUN"

\* A client that got its run opened ends, whatever happens to the run or the
\* link, unless the server closes the connection in an orderly way.
SessionEnds == (main \in {"upload", "running"}) ~> (Ended \/ link = "closed")

=============================================================================
