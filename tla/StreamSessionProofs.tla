------------------------ MODULE StreamSessionProofs -------------------------
(***************************************************************************)
(* Proofs about a session of the v1 client with the v1 server: for any     *)
(* program, chunk size, lookahead and horizon, and whatever happens to the *)
(* link, the client sends nothing that a live run refuses, and over a      *)
(* punctual network a stream of short chunks does not run dry.             *)
(***************************************************************************)
EXTENDS StreamSession, NumberInduction, SequenceTheorems

-----------------------------------------------------------------------------
(* The chunks of a program. *)

\* Chunk k starts after k * ChunkPoints points, and a program has as many chunks
\* as it takes to hold its points.
LEMMA ChunkBounds ==
    ASSUME NEW p \in Programs
    PROVE  /\ ChunkCount(p) \in Nat \ {0}
           /\ \A k \in 0 .. ChunkCount(p) - 1 : k * ChunkPoints < Len(p)
<1> DEFINE n == ChunkCount(p)
<1>1. Len(p) \in Nat /\ Len(p) >= 2 /\ ChunkPoints \in Nat /\ ChunkPoints >= 1
  BY ProgramAssumption, SessionAssumption
<1>2. /\ n \in Nat
      /\ n * ChunkPoints <= Len(p) + ChunkPoints - 1
      /\ Len(p) + ChunkPoints - 1 < (n + 1) * ChunkPoints
  BY <1>1 DEF ChunkCount
<1> HIDE DEF n
<1>3. n # 0
  BY <1>1, <1>2
<1>4. ASSUME NEW k \in 0 .. n - 1 PROVE k * ChunkPoints < Len(p)
  <2>1. k * ChunkPoints <= (n - 1) * ChunkPoints
    BY <1>1, <1>2
  <2>2. (n - 1) * ChunkPoints = n * ChunkPoints - ChunkPoints
    BY <1>1, <1>2
  <2>3. k * ChunkPoints \in Nat /\ n * ChunkPoints \in Nat
    BY <1>1, <1>2
  <2> QED
    BY <2>1, <2>2, <2>3, <1>1, <1>2
<1> QED
  BY <1>2, <1>3, <1>4 DEF n

\* The times of a program grow with the index.
LEMMA TimesIncrease ==
    ASSUME NEW p \in Programs, NEW i \in 1 .. Len(p), NEW j \in i + 1 .. Len(p)
    PROVE  p[i] < p[j]
<1> DEFINE S == {k \in i + 1 .. Len(p) : p[i] < p[k]}
<1>1. p \in Seq(Nat) /\ Len(p) \in Nat /\ \A k \in 2 .. Len(p) : p[k - 1] < p[k]
  BY ProgramAssumption
<1>2. \A k \in 1 .. Len(p) : p[k] \in Nat
  BY <1>1
<1>3. i + 1 \in S
  BY <1>1
<1>4. ASSUME NEW k \in i + 1 .. Len(p) - 1, k \in S PROVE k + 1 \in S
  <2>1. k \in 1 .. Len(p) /\ k + 1 \in 2 .. Len(p) /\ (k + 1) - 1 = k
    BY <1>1
  <2>2. p[k] < p[k + 1] /\ p[i] < p[k]
    BY <2>1, <1>1, <1>4
  <2>3. p[i] \in Nat /\ p[k] \in Nat /\ p[k + 1] \in Nat
    BY <2>1, <1>1, <1>2
  <2> QED
    BY <2>1, <2>2, <2>3
<1> HIDE DEF S
<1>5. \A k \in i + 1 .. Len(p) : k \in S
  <2>1. i + 1 \in Nat
    BY <1>1
  <2>2. \A k \in i + 1 .. Len(p) - 1 : k \in S => k + 1 \in S
    BY <1>4
  <2> QED
    BY <1>1, <1>3, <2>1, <2>2, IntervalInduction
<1> QED
  BY <1>5 DEF S

\* A chunk ends with its last point, which is one of the program.
LEMMA EndOfChunk ==
    ASSUME NEW p \in Programs, NEW k \in 0 .. ChunkCount(p) - 1
    PROVE  LET upto == (k + 1) * ChunkPoints
               last == IF upto < Len(p) THEN upto ELSE Len(p)
           IN  /\ last \in 1 .. Len(p) /\ k * ChunkPoints < last
               /\ ChunkEnd(p, k) = p[last]
<1> DEFINE upto == (k + 1) * ChunkPoints
           last == IF upto < Len(p) THEN upto ELSE Len(p)
           first == k * ChunkPoints + 1
<1>1. p \in Seq(Nat) /\ Len(p) \in Nat /\ ChunkPoints \in Nat /\ ChunkPoints >= 1
  BY ProgramAssumption, SessionAssumption
<1>2. k \in Nat /\ k * ChunkPoints \in Nat /\ k * ChunkPoints < Len(p)
  BY <1>1, ChunkBounds
<1>3. upto = k * ChunkPoints + ChunkPoints
  BY <1>1, <1>2
<1>4. last \in 1 .. Len(p) /\ first \in 1 .. last /\ k * ChunkPoints < last
  BY <1>1, <1>2, <1>3
<1>5. Chunk(p, k) = SubSeq(p, first, last)
  BY DEF Chunk
<1> HIDE DEF first, last
<1>6. /\ Len(SubSeq(p, first, last)) = last - first + 1
      /\ SubSeq(p, first, last)[last - first + 1] = p[last]
  BY <1>1, <1>4
<1>7. ChunkEnd(p, k) = p[last]
  BY <1>2, <1>5, <1>6 DEF ChunkEnd, Last
<1> QED
  BY <1>4, <1>7 DEF last

\* The ends of the chunks increase.
LEMMA EndsIncrease ==
    ASSUME NEW p \in Programs
    PROVE  /\ \A k \in -1 .. ChunkCount(p) - 1 : ChunkEnd(p, k) \in Nat
           /\ ChunkEnd(p, -1) = 0
           /\ \A k \in 1 .. ChunkCount(p) - 1 : ChunkEnd(p, k - 1) < ChunkEnd(p, k)
<1>1. p \in Seq(Nat) /\ Len(p) \in Nat /\ ChunkPoints \in Nat /\ ChunkPoints >= 1
      /\ ChunkCount(p) \in Nat
  BY ProgramAssumption, SessionAssumption, ChunkBounds
<1>2. ChunkEnd(p, -1) = 0
  BY DEF ChunkEnd
<1>3. ASSUME NEW k \in -1 .. ChunkCount(p) - 1 PROVE ChunkEnd(p, k) \in Nat
  <2>1. CASE k = -1
    BY <2>1, <1>2
  <2>2. CASE k # -1
    <3>1. k \in 0 .. ChunkCount(p) - 1
      BY <2>2, <1>1
    <3>2. PICK last \in 1 .. Len(p) : ChunkEnd(p, k) = p[last]
      BY <3>1, EndOfChunk
    <3> QED
      BY <3>2, <1>1
  <2> QED
    BY <2>1, <2>2
<1>4. ASSUME NEW k \in 1 .. ChunkCount(p) - 1
      PROVE  ChunkEnd(p, k - 1) < ChunkEnd(p, k)
  <2>1. k \in 0 .. ChunkCount(p) - 1 /\ k - 1 \in 0 .. ChunkCount(p) - 1 /\ (k - 1) + 1 = k
    BY <1>1
  <2>2. k * ChunkPoints < Len(p) /\ k * ChunkPoints \in Nat
    BY <2>1, <1>1, ChunkBounds
  <2>3. k * ChunkPoints \in 1 .. Len(p) /\ ChunkEnd(p, k - 1) = p[k * ChunkPoints]
    BY <2>1, <2>2, EndOfChunk
  <2>4. PICK last \in 1 .. Len(p) : k * ChunkPoints < last /\ ChunkEnd(p, k) = p[last]
    BY <2>1, EndOfChunk
  <2>5. last \in k * ChunkPoints + 1 .. Len(p)
    BY <2>4, <2>2, <1>1
  <2> QED
    BY <2>3, <2>4, <2>5, TimesIncrease
<1> QED
  BY <1>2, <1>3, <1>4

-----------------------------------------------------------------------------
(* The types. *)

Messages == [type : {"open_run", "chunk", "start", "cancel"}, seq : Nat]

EventKinds == {"run_opened", "chunk_accepted", "run_state", "telemetry", "completed",
               "not_completed", "error", "stop_accepted", "fault"}

Events == [type : EventKinds, seq : Nat, cursor : Nat]

SessionTypes ==
    /\ times \in Programs
    /\ mode \in {"sealed", "streaming"}
    /\ main \in {"opening", "upload", "receipt", "start", "running", "succeeded",
                 "failed"}
    /\ producer \in {"none", "pace", "receipt", "done", "failed"}
    /\ receipt \in {"none", "pending", "accepted", "refused"}
    /\ events \in Seq(Decisive)
    /\ receiving \in BOOLEAN /\ handling \in BOOLEAN /\ stop \in BOOLEAN
    /\ toServer \in Seq(Messages)
    /\ toClient \in Seq(Events)
    /\ link \in {"up", "lost", "closed", "left"}
    /\ state \in {"none", "buffering", "arming", "running", "completed", "stopped",
                  "faulted"}
    /\ next \in 0 .. NumChunks /\ accepted \in 0 .. NumChunks
    /\ seen \in Nat /\ cursor \in Nat /\ lag \in Nat
    /\ code \in {"NONE", "CANCELLED", "OTHER", "BUFFER_UNDERRUN"}

-----------------------------------------------------------------------------
(* The inductive invariant. *)

\* A message or event of this kind is in the queue.
Has(queue, kind) == \E i \in 1 .. Len(queue) : queue[i].type = kind

\* Chunks k - 1 and before are enough to start.
Enough(k) == k = NumChunks \/ (mode = "streaming" /\ End(k - 1) >= TargetAhead)

\* The tasks of the client and their common connection.
Tasks ==
    /\ main \in {"opening", "upload", "receipt", "start"} => producer = "none"
    /\ producer \in {"pace", "receipt"} => main = "running"
    /\ main = "running" => producer # "none"
    /\ producer = "receipt" => receipt # "none"
    /\ main = "opening" => next = 0
    /\ link = "up" => receiving /\ main \notin {"succeeded", "failed"}

\* How far the client has come, in chunks.
Progress ==
    /\ main \in {"opening", "upload", "receipt"} =>
          next < NumChunks /\ (mode = "streaming" => End(next - 1) < TargetAhead)
    /\ main = "start" => next >= 1 /\ Enough(next)
    /\ producer \in {"pace", "receipt"} =>
          /\ next >= 1 /\ next < NumChunks
          /\ mode = "streaming" /\ End(next - 1) >= TargetAhead
    /\ producer = "done" => next = NumChunks

\* One chunk at a time is under way, and both ends agree on its number.
StopAndWait ==
    /\ accepted \in {next, next + 1}
    /\ \A i \in 1 .. Len(toServer) : toServer[i].type = "chunk" =>
          toServer[i].seq = next /\ accepted = next /\ next < NumChunks
    /\ \A i, j \in 1 .. Len(toServer) :
          toServer[i].type = "chunk" /\ toServer[j].type = "chunk" => i = j
    /\ main \in {"opening", "upload", "start"} \/ producer \in {"pace", "done"} =>
          accepted = next /\ receipt = "none" /\ ~Has(toServer, "chunk")
    /\ receipt = "accepted" => accepted = next + 1 /\ ~Has(toServer, "chunk")
    /\ \A i \in 1 .. Len(toClient) : toClient[i].type = "chunk_accepted" =>
          /\ toClient[i].seq < accepted
          /\ toClient[i].seq = next => accepted = next + 1 /\ ~Has(toServer, "chunk")

\* The server's state and what is under way to it.
Order ==
    /\ main \in {"opening", "upload", "receipt", "start"} =>
          /\ state \in {"none", "buffering", "stopped"}
          /\ link = "up" => state # "stopped"
          /\ ~Has(toServer, "start")
    /\ state \in {"none", "buffering", "arming"} => cursor = 0
    /\ main \in {"opening", "upload", "receipt", "start"} => cursor = 0
    /\ Has(toServer, "start") =>
          state \in {"none", "buffering"} /\ accepted >= 1 /\ Enough(accepted)
    /\ \A i, j \in 1 .. Len(toServer) :
          toServer[i].type = "start" /\ toServer[j].type = "start" => i = j
    /\ state = "arming" => accepted >= 1 /\ Enough(accepted)
    /\ \A i \in 1 .. Len(toServer) : toServer[i].type = "open_run" =>
          i = 1 /\ state = "none"
    /\ Has(toServer, "chunk") =>
          /\ ~Has(toServer, "start")
          /\ \/ /\ state \notin {"none", "buffering", "arming"}
                /\ mode = "streaming" /\ End(next) - cursor <= TargetAhead
             \/ /\ state \in {"none", "buffering"} /\ main \in {"receipt", "failed"}
                /\ mode = "streaming" => End(next - 1) < TargetAhead

\* Cursors reach the client in order and never ahead of the server.
CursorsInOrder ==
    /\ cursor <= AcceptedUntil /\ seen <= cursor
    /\ \A i \in 1 .. Len(toClient) : toClient[i].type \in WithCursor =>
          seen <= toClient[i].cursor /\ toClient[i].cursor <= cursor
    /\ \A i, j \in 1 .. Len(toClient) :
          i < j /\ toClient[i].type \in WithCursor /\ toClient[j].type \in WithCursor
             => toClient[i].cursor <= toClient[j].cursor

SessionInv ==
    SessionTypes /\ Tasks /\ Progress /\ StopAndWait /\ Order /\ CursorsInOrder

\* While the link is up: a chunk that was not answered is still under way, ...
Answered ==
    link = "up" /\ receipt = "pending" =>
        \/ Has(toServer, "chunk") \/ Has(toClient, "error")
        \/ \E i \in 1 .. Len(toClient) :
              toClient[i].type = "chunk_accepted" /\ toClient[i].seq = next

\* ... a run whose client was refused a message is over, or never gets started, ...
Refused == Has(toClient, "error") \/ receipt = "refused" \/ producer = "failed"
RunIsOver ==
    \/ state \in {"completed", "stopped", "faulted"}
    \/ state = "none" /\ ~Has(toServer, "open_run")
    \/ /\ main = "receipt" /\ accepted = next /\ receipt # "accepted"
       /\ ~Has(toServer, "chunk")
Refusals == link = "up" /\ Refused => RunIsOver

\* ... and the client has heard, or will hear, where the server is.
CursorKnown ==
    link = "up" =>
        \/ seen = cursor
        \/ \E i \in 1 .. Len(toClient) :
              toClient[i].type \in WithCursor /\ toClient[i].cursor = cursor

\* What is left in the server's buffer, against the delay already used up.
Reserve ==
    /\ ShortChunks /\ link = "up" /\ lag <= MaxDelay /\ state = "running"
    /\ ~FinalReceived
    => AcceptedUntil - cursor >= MaxDelay - lag

PunctualInv == Answered /\ Refusals /\ CursorKnown /\ Reserve

-----------------------------------------------------------------------------
(* The queues. *)

\* Reading the head of a queue leaves a piece of it.
LEMMA TailIsPiece ==
    ASSUME NEW T, NEW q \in Seq(T), q # << >>
    PROVE  /\ Tail(q) \in Seq(T) /\ Head(q) = q[1] /\ Head(q) \in T /\ 1 \in 1 .. Len(q)
           /\ Len(Tail(q)) = Len(q) - 1
           /\ \A i \in 1 .. Len(Tail(q)) : i + 1 \in 1 .. Len(q) /\ Tail(q)[i] = q[i + 1]
<1>1. Len(q) \in Nat /\ Len(q) >= 1
  OBVIOUS
<1>2. Len(Tail(q)) = Len(q) - 1
  OBVIOUS
<1>3. \A i \in 1 .. Len(Tail(q)) : i + 1 \in 1 .. Len(q) /\ Tail(q)[i] = q[i + 1]
  BY <1>1, <1>2
<1> QED
  BY <1>1, <1>2, <1>3

\* Cutting a queue leaves its beginning.
LEMMA CutIsPiece ==
    ASSUME NEW T, NEW q \in Seq(T), NEW r \in CutTo(q)
    PROVE  /\ r \in Seq(T) /\ Len(r) <= Len(q)
           /\ \A i \in 1 .. Len(r) : i \in 1 .. Len(q) /\ r[i] = q[i]
<1>1. PICK n \in 0 .. Len(q) : r = SubSeq(q, 1, n)
  BY DEF CutTo
<1>2. Len(q) \in Nat
  OBVIOUS
<1>3. r \in Seq(T) /\ Len(r) = n
  BY <1>1, <1>2
<1>4. \A i \in 1 .. n : r[i] = q[i]
  BY <1>1, <1>2
<1> QED
  BY <1>2, <1>3, <1>4

\* Putting messages or events at the end of a queue.
LEMMA ConcatAt ==
    ASSUME NEW T, NEW q \in Seq(T), NEW es \in Seq(T)
    PROVE  /\ q \o es \in Seq(T) /\ Len(q \o es) = Len(q) + Len(es)
           /\ \A i \in 1 .. Len(q) : i \in 1 .. Len(q \o es) /\ (q \o es)[i] = q[i]
           /\ \A i \in 1 .. Len(es) :
                 Len(q) + i \in 1 .. Len(q \o es) /\ (q \o es)[Len(q) + i] = es[i]
           /\ \A i \in 1 .. Len(q \o es) :
                 i \in 1 .. Len(q) \/ i - Len(q) \in 1 .. Len(es)
<1>1. Len(q) \in Nat /\ Len(es) \in Nat
  OBVIOUS
<1>2. q \o es \in Seq(T) /\ Len(q \o es) = Len(q) + Len(es)
  OBVIOUS
<1>3. \A i \in 1 .. Len(q) + Len(es) :
         (q \o es)[i] = IF i <= Len(q) THEN q[i] ELSE es[i - Len(q)]
  BY ConcatProperties
<1>4. ASSUME NEW i \in 1 .. Len(es)
      PROVE  Len(q) + i \in 1 .. Len(q \o es) /\ (q \o es)[Len(q) + i] = es[i]
  <2>1. Len(q) + i \in 1 .. Len(q) + Len(es) /\ ~(Len(q) + i <= Len(q))
        /\ (Len(q) + i) - Len(q) = i
    BY <1>1
  <2> QED
    BY <2>1, <1>2, <1>3
<1> QED
  BY <1>1, <1>2, <1>3, <1>4

\* The same for a single one.
LEMMA AppendAt ==
    ASSUME NEW T, NEW q \in Seq(T), NEW m \in T
    PROVE  /\ Append(q, m) \in Seq(T) /\ Len(Append(q, m)) = Len(q) + 1
           /\ \A i \in 1 .. Len(q) : i \in 1 .. Len(Append(q, m)) /\ Append(q, m)[i] = q[i]
           /\ Append(q, m)[Len(q) + 1] = m
           /\ \A i \in 1 .. Len(Append(q, m)) : i \in 1 .. Len(q) \/ i = Len(q) + 1
<1>1. Len(q) \in Nat /\ Len(Append(q, m)) = Len(q) + 1
  OBVIOUS
<1>2. \A i \in 1 .. Len(q) : Append(q, m)[i] = q[i]
  OBVIOUS
<1> QED
  BY <1>1, <1>2

\* What the numbers of a session are, for every step that leaves the program alone.
LEMMA Numbers ==
    ASSUME SessionTypes
    PROVE  /\ times \in Programs /\ NumChunks \in Nat \ {0}
           /\ next \in Nat /\ accepted \in Nat
           /\ \A k \in -1 .. NumChunks - 1 : End(k) \in Nat
           /\ End(-1) = 0
           /\ \A k \in 1 .. NumChunks - 1 : End(k - 1) < End(k)
           /\ TargetAhead \in Nat \ {0} /\ MaxHorizon \in Nat /\ MaxDelay \in Nat
           /\ StartBuffer \in Nat /\ StartBuffer <= TargetAhead /\ TargetAhead <= MaxHorizon
<1>1. times \in Programs /\ next \in 0 .. NumChunks /\ accepted \in 0 .. NumChunks
  BY DEF SessionTypes
<1>2. NumChunks \in Nat \ {0}
  BY <1>1, ChunkBounds DEF NumChunks
<1>3. /\ \A k \in -1 .. NumChunks - 1 : End(k) \in Nat
      /\ End(-1) = 0
      /\ \A k \in 1 .. NumChunks - 1 : End(k - 1) < End(k)
  BY <1>1, EndsIncrease DEF NumChunks, End
<1> QED
  BY <1>1, <1>2, <1>3, SessionAssumption

\* The client leaves: a cancel at most is put at the end of the queue.
LEMMA LeaveInv ==
    ASSUME SessionInv, NEW how \in {"succeeded", "failed"},
           NEW messages \in {<< >>, <<Message("cancel", 0)>>},
           how = "failed" \/ main = "running",
           LeaveWith(how, messages)
    PROVE  SessionInv'
<1>1. /\ toServer \in Seq(Messages) /\ messages \in Seq(Messages)
      /\ \A i \in 1 .. Len(messages) : messages[i].type = "cancel"
  <2>1. Message("cancel", 0) \in Messages /\ Message("cancel", 0).type = "cancel"
    BY DEF Message, Messages
  <2>2. CASE messages = << >>
    BY <2>2 DEF SessionInv, SessionTypes
  <2>3. CASE messages = <<Message("cancel", 0)>>
    BY <2>1, <2>3 DEF SessionInv, SessionTypes
  <2> QED
    BY <2>2, <2>3
<1>2. /\ toServer' \in Seq(Messages)
      /\ \A i \in 1 .. Len(toServer) : i \in 1 .. Len(toServer') /\ toServer'[i] = toServer[i]
      /\ \A i \in 1 .. Len(toServer') :
            \/ i \in 1 .. Len(toServer) /\ toServer'[i] = toServer[i]
            \/ toServer'[i].type = "cancel"
  <2>1. CASE toServer' = toServer
    BY <2>1, <1>1
  <2>2. CASE toServer' = toServer \o messages
    <3>1. ASSUME NEW i \in 1 .. Len(toServer')
          PROVE  \/ i \in 1 .. Len(toServer) /\ toServer'[i] = toServer[i]
                 \/ toServer'[i].type = "cancel"
      <4>1. CASE i \in 1 .. Len(toServer)
        BY <4>1, <2>2, <1>1, ConcatAt
      <4>2. CASE i - Len(toServer) \in 1 .. Len(messages)
        <5>1. Len(toServer) \in Nat /\ i = Len(toServer) + (i - Len(toServer))
          BY <1>1
        <5>2. toServer'[i] = messages[i - Len(toServer)]
          BY <4>2, <5>1, <2>2, <1>1, ConcatAt
        <5> QED
          BY <4>2, <5>2, <1>1
      <4> QED
        BY <4>1, <4>2, <2>2, <1>1, ConcatAt
    <3> QED
      BY <3>1, <2>2, <1>1, ConcatAt
  <2> QED
    BY <2>1, <2>2 DEF LeaveWith
<1>3. \A k \in {"open_run", "chunk", "start"} : Has(toServer', k) <=> Has(toServer, k)
  BY <1>2 DEF Has
<1>4. /\ UNCHANGED <<times, mode, next, seen, events, toClient, handling, state, accepted,
                     cursor, stop, code, lag>>
      /\ main' = how /\ receiving' = FALSE /\ receipt' = "none" /\ producer' = "none"
      /\ link' = IF link = "up" THEN "left" ELSE link
  BY DEF LeaveWith, serverVars
<1>5. SessionTypes'
  BY <1>2, <1>4, ZenonT(30) DEF SessionInv, SessionTypes, NumChunks
<1>6. Tasks'
  BY <1>4 DEF SessionInv, Tasks, SessionTypes
<1>7. Progress'
  BY <1>4 DEF SessionInv, Progress
<1>8. StopAndWait'
  BY <1>2, <1>3, <1>4 DEF SessionInv, StopAndWait, NumChunks
<1>9. Order'
  BY <1>2, <1>3, <1>4 DEF SessionInv, Order, NumChunks, End, Enough, Tasks
<1>10. CursorsInOrder'
  BY <1>4 DEF SessionInv, CursorsInOrder, AcceptedUntil, End
<1> QED
  BY <1>5, <1>6, <1>7, <1>8, <1>9, <1>10 DEF SessionInv

\* What a message sent does to the queue to the server.
LEMMA SendFacts ==
    ASSUME toServer \in Seq(Messages), NEW m \in Messages, Send(m)
    PROVE  /\ toServer' \in Seq(Messages)
           /\ \A i \in 1 .. Len(toServer) :
                 i \in 1 .. Len(toServer') /\ toServer'[i] = toServer[i]
           /\ \A i \in 1 .. Len(toServer') :
                 \/ i \in 1 .. Len(toServer) /\ toServer'[i] = toServer[i]
                 \/ link = "up" /\ i = Len(toServer) + 1 /\ toServer'[i] = m
           /\ link = "up" => Has(toServer', m.type)
           /\ \A k \in {"open_run", "chunk", "start"} \ {m.type} :
                 Has(toServer', k) <=> Has(toServer, k)
<1>1. CASE link = "up"
  <2>1. toServer' = Append(toServer, m) /\ Len(toServer) \in Nat
    BY <1>1 DEF Send
  <2>2. /\ toServer' \in Seq(Messages) /\ Len(toServer) + 1 \in 1 .. Len(toServer')
        /\ toServer'[Len(toServer) + 1] = m
        /\ \A i \in 1 .. Len(toServer) :
              i \in 1 .. Len(toServer') /\ toServer'[i] = toServer[i]
        /\ \A i \in 1 .. Len(toServer') : i \in 1 .. Len(toServer) \/ i = Len(toServer) + 1
    BY <2>1, AppendAt
  <2>3. Has(toServer', m.type)
    BY <2>2 DEF Has
  <2>4. \A k \in {"open_run", "chunk", "start"} \ {m.type} :
           Has(toServer', k) <=> Has(toServer, k)
    BY <2>2 DEF Has
  <2> QED
    BY <1>1, <2>2, <2>3, <2>4
<1>2. CASE link # "up"
  <2>1. toServer' = toServer
    BY <1>2 DEF Send
  <2> QED
    BY <1>2, <2>1
<1> QED
  BY <1>1, <1>2

\* The run is opened, or something else is read meanwhile.
LEMMA WaitOpenedInv ==
    ASSUME SessionInv, WaitOpened
    PROVE  SessionInv'
<1>1. CASE LeaveWith("failed", << >>)
  BY <1>1, LeaveInv
<1>2. CASE /\ main' = IF Head(events) = "run_opened" THEN "upload" ELSE main
           /\ events' = Tail(events)
           /\ UNCHANGED <<times, mode, next, producer, receipt, seen, receiving,
                          netVars, serverVars, lag>>
  <2>1. /\ UNCHANGED <<times, mode, next, producer, receipt, seen, receiving, toServer,
                       toClient, link, handling, state, accepted, cursor, stop, code, lag>>
        /\ main = "opening" /\ main' \in {"opening", "upload"}
    BY <1>2 DEF WaitOpened, netVars, serverVars
  <2>2. events' \in Seq(Decisive)
    <3>1. events \in Seq(Decisive) /\ events # << >> /\ events' = Tail(events)
      BY <1>2 DEF SessionInv, SessionTypes, WaitOpened
    <3> QED
      BY <3>1, TailIsPiece
  <2>3. SessionTypes'
    BY <2>1, <2>2 DEF SessionInv, SessionTypes, NumChunks
  <2>4. Tasks'
    BY <2>1 DEF SessionInv, Tasks
  <2>5. Progress'
    BY <2>1 DEF SessionInv, Progress, NumChunks, End, Enough
  <2>6. StopAndWait'
    BY <2>1 DEF SessionInv, StopAndWait, NumChunks
  <2>7. Order'
    BY <2>1 DEF SessionInv, Order, NumChunks, End, Enough
  <2>8. CursorsInOrder'
    BY <2>1 DEF SessionInv, CursorsInOrder, AcceptedUntil, End
  <2> QED
    BY <2>3, <2>4, <2>5, <2>6, <2>7, <2>8 DEF SessionInv
<1> QED
  BY <1>1, <1>2 DEF WaitOpened

\* A chunk of the upload is sent.
LEMMA UploadChunkInv ==
    ASSUME SessionInv, UploadChunk
    PROVE  SessionInv'
<1>1. CASE ~receiving
  BY <1>1, LeaveInv DEF UploadChunk
<1>2. CASE receiving
  <2> DEFINE m == Message("chunk", next)
  <2>1. /\ UNCHANGED <<times, mode, next, producer, seen, events, receiving, toClient, link,
                       handling, state, accepted, cursor, stop, code, lag>>
        /\ main = "upload" /\ main' = "receipt" /\ receipt' = "pending" /\ Send(m)
    BY <1>2 DEF UploadChunk, SendChunk, serverVars
  <2>2. toServer \in Seq(Messages) /\ next \in Nat
    BY Numbers DEF SessionInv, SessionTypes
  <2>3. m \in Messages /\ m.type = "chunk" /\ m.seq = next
    BY <2>2 DEF Message, Messages
  <2> HIDE DEF m
  <2>4. /\ toServer' \in Seq(Messages)
        /\ \A i \in 1 .. Len(toServer) :
              i \in 1 .. Len(toServer') /\ toServer'[i] = toServer[i]
        /\ \A i \in 1 .. Len(toServer') :
              \/ i \in 1 .. Len(toServer) /\ toServer'[i] = toServer[i]
              \/ link = "up" /\ i = Len(toServer) + 1 /\ toServer'[i] = m
        /\ Has(toServer', "open_run") <=> Has(toServer, "open_run")
        /\ Has(toServer', "start") <=> Has(toServer, "start")
    BY <2>1, <2>2, <2>3, SendFacts
  <2>5. ~Has(toServer, "chunk") /\ accepted = next /\ receipt = "none" /\ next < NumChunks
    BY <2>1 DEF SessionInv, StopAndWait, Progress
  <2>6. \A i \in 1 .. Len(toServer') : toServer'[i].type = "chunk" =>
           link = "up" /\ i = Len(toServer) + 1 /\ toServer'[i] = m
    BY <2>4, <2>5 DEF Has
  <2>7. SessionTypes'
    BY <2>1, <2>4 DEF SessionInv, SessionTypes, NumChunks
  <2>8. Tasks'
    BY <2>1 DEF SessionInv, Tasks
  <2>9. Progress'
    BY <2>1 DEF SessionInv, Progress, NumChunks, End, Enough
  <2>10. StopAndWait'
    <3>1. \A i \in 1 .. Len(toClient) : toClient[i].type = "chunk_accepted" =>
             toClient[i].seq < accepted /\ toClient[i].seq # next
      BY <2>5, Numbers DEF SessionInv, StopAndWait
    <3> QED
      BY <2>1, <2>3, <2>5, <2>6, <3>1 DEF SessionInv, StopAndWait, NumChunks, Tasks
  <2>11. Order'
    <3>1. Has(toServer', "chunk") => link = "up"
      BY <2>6 DEF Has
    <3>2. /\ state \in {"none", "buffering", "stopped"} /\ cursor = 0
          /\ link = "up" => state # "stopped"
          /\ ~Has(toServer', "start")
      BY <2>1, <2>4 DEF SessionInv, Order
    <3>3. mode = "streaming" => End(next - 1) < TargetAhead
      BY <2>1 DEF SessionInv, Progress
    <3>4. \A i \in 1 .. Len(toServer') : toServer'[i].type = "open_run" =>
             i = 1 /\ state = "none"
      BY <2>1, <2>3, <2>4 DEF SessionInv, Order
    <3>5. \A i \in 1 .. Len(toServer') : toServer'[i].type # "start"
      BY <3>2 DEF Has
    <3> QED
      BY <2>1, <3>1, <3>2, <3>3, <3>4, <3>5 DEF Order, End
  <2>12. CursorsInOrder'
    BY <2>1 DEF SessionInv, CursorsInOrder, AcceptedUntil, End
  <2> QED
    BY <2>7, <2>8, <2>9, <2>10, <2>11, <2>12 DEF SessionInv
<1> QED
  BY <1>1, <1>2

\* The chunk of the upload is accepted, or refused.
LEMMA UploadAcknowledgedInv ==
    ASSUME SessionInv, UploadAcknowledged
    PROVE  SessionInv'
<1>1. CASE LeaveWith("failed", << >>)
  BY <1>1, LeaveInv
<1>2. CASE /\ receipt = "accepted" /\ receipt' = "none" /\ next' = next + 1
           /\ main' = IF Prebuffered THEN "start" ELSE "upload"
           /\ UNCHANGED <<times, mode, producer, seen, events, receiving, netVars,
                          serverVars, lag>>
  <2>1. /\ UNCHANGED <<times, mode, producer, seen, events, receiving, toServer, toClient,
                       link, handling, state, accepted, cursor, stop, code, lag>>
        /\ main = "receipt" /\ receipt = "accepted" /\ receipt' = "none" /\ next' = next + 1
        /\ main' \in {"upload", "start"} /\ producer = "none"
    BY <1>2 DEF UploadAcknowledged, netVars, serverVars, SessionInv, Tasks
  <2>2. /\ next \in Nat /\ accepted \in Nat /\ NumChunks \in Nat /\ next < NumChunks
        /\ accepted = next + 1 /\ ~Has(toServer, "chunk") /\ accepted <= NumChunks
        /\ mode \in {"sealed", "streaming"}
        /\ End(next) \in Nat /\ TargetAhead \in Nat /\ (next + 1) - 1 = next
    BY <2>1, Numbers DEF SessionInv, StopAndWait, Progress, SessionTypes
  <2>3. SessionTypes'
    BY <2>1, <2>2 DEF SessionInv, SessionTypes, NumChunks
  <2>4. Tasks'
    BY <2>1 DEF SessionInv, Tasks
  <2>5. Progress'
    <3>1. CASE Prebuffered
      <4>1. main' = "start" /\ Enough(next + 1)
        BY <3>1, <1>2, <2>2 DEF Prebuffered, Enough
      <4> QED
        BY <4>1, <2>1, <2>2 DEF Progress, Enough, NumChunks, End
    <3>2. CASE ~Prebuffered
      <4>1. main' = "upload" /\ next + 1 < NumChunks
            /\ (mode = "streaming" => End(next) < TargetAhead)
        BY <3>2, <1>2, <2>2 DEF Prebuffered
      <4> QED
        BY <4>1, <2>1, <2>2 DEF Progress, NumChunks, End
    <3> QED
      BY <3>1, <3>2
  <2>6. StopAndWait'
    <3>1. \A i \in 1 .. Len(toClient) : toClient[i].type = "chunk_accepted" =>
             toClient[i].seq < accepted /\ toClient[i].seq # next + 1
      <4>1. \A i \in 1 .. Len(toClient) : toClient[i] \in Events
        BY DEF SessionInv, SessionTypes
      <4>2. \A i \in 1 .. Len(toClient) : toClient[i].seq \in Nat
        BY <4>1 DEF Events
      <4>3. \A i \in 1 .. Len(toClient) : toClient[i].type = "chunk_accepted" =>
               toClient[i].seq < accepted
        BY DEF SessionInv, StopAndWait
      <4> QED
        BY <4>2, <4>3, <2>2
    <3>2. \A i \in 1 .. Len(toServer) : toServer[i].type # "chunk"
      BY <2>2 DEF Has
    <3> QED
      BY <2>1, <2>2, <3>1, <3>2 DEF StopAndWait
  <2>7. Order'
    BY <2>1, <2>2 DEF SessionInv, Order, NumChunks, End, Enough
  <2>8. CursorsInOrder'
    BY <2>1 DEF SessionInv, CursorsInOrder, AcceptedUntil, End
  <2> QED
    BY <2>3, <2>4, <2>5, <2>6, <2>7, <2>8 DEF SessionInv
<1> QED
  BY <1>1, <1>2 DEF UploadAcknowledged

\* The start is sent.
LEMMA SendStartInv ==
    ASSUME SessionInv, SendStart
    PROVE  SessionInv'
<1>1. CASE ~receiving
  BY <1>1, LeaveInv DEF SendStart
<1>2. CASE receiving
  <2> DEFINE m == Message("start", 0)
  <2>1. /\ UNCHANGED <<times, mode, next, receipt, seen, events, receiving, toClient, link,
                       handling, state, accepted, cursor, stop, code, lag>>
        /\ main = "start" /\ main' = "running" /\ Send(m)
        /\ producer' = IF next = NumChunks THEN "done" ELSE "pace"
    BY <1>2 DEF SendStart, serverVars
  <2>2. toServer \in Seq(Messages) /\ next \in Nat /\ NumChunks \in Nat /\ next <= NumChunks
    BY Numbers DEF SessionInv, SessionTypes
  <2>3. m \in Messages /\ m.type = "start"
    BY DEF Message, Messages
  <2> HIDE DEF m
  <2>4. /\ toServer' \in Seq(Messages)
        /\ \A i \in 1 .. Len(toServer) :
              i \in 1 .. Len(toServer') /\ toServer'[i] = toServer[i]
        /\ \A i \in 1 .. Len(toServer') :
              \/ i \in 1 .. Len(toServer) /\ toServer'[i] = toServer[i]
              \/ link = "up" /\ i = Len(toServer) + 1 /\ toServer'[i] = m
        /\ Has(toServer', "chunk") <=> Has(toServer, "chunk")
    BY <2>1, <2>2, <2>3, SendFacts
  <2>5. /\ ~Has(toServer', "chunk") /\ accepted = next /\ receipt = "none"
        /\ next >= 1 /\ Enough(next)
    BY <2>1, <2>4 DEF SessionInv, StopAndWait, Progress
  <2>6. SessionTypes'
    BY <2>1, <2>4 DEF SessionInv, SessionTypes, NumChunks
  <2>7. Tasks'
    BY <2>1 DEF SessionInv, Tasks
  <2>8. Progress'
    BY <2>1, <2>2, <2>5 DEF Progress, NumChunks, End, Enough
  <2>9. StopAndWait'
    <3>1. \A i \in 1 .. Len(toServer') : toServer'[i].type # "chunk"
      BY <2>5 DEF Has
    <3> QED
      BY <2>1, <2>5, <3>1 DEF SessionInv, StopAndWait, NumChunks
  <2>10. Order'
    <3>1. /\ state \in {"none", "buffering", "stopped"} /\ cursor = 0
          /\ link = "up" => state # "stopped"
          /\ ~Has(toServer, "start")
      BY <2>1 DEF SessionInv, Order
    <3>2. Has(toServer', "start") => link = "up"
      BY <3>1, <2>4 DEF Has
    <3>3. \A i \in 1 .. Len(toServer') : toServer'[i].type = "open_run" =>
             i = 1 /\ state = "none"
      BY <2>1, <2>3, <2>4 DEF SessionInv, Order
    <3>4. \A i \in 1 .. Len(toServer') : toServer'[i].type = "start" =>
             i = Len(toServer) + 1
      BY <3>1, <2>4 DEF Has
    <3>5. \A i, j \in 1 .. Len(toServer') :
             toServer'[i].type = "start" /\ toServer'[j].type = "start" => i = j
      BY <3>4
    <3> QED
      BY <2>1, <2>5, <3>1, <3>2, <3>3, <3>5 DEF Order, End, Enough, NumChunks
  <2>11. CursorsInOrder'
    BY <2>1 DEF SessionInv, CursorsInOrder, AcceptedUntil, End
  <2> QED
    BY <2>6, <2>7, <2>8, <2>9, <2>10, <2>11 DEF SessionInv
<1> QED
  BY <1>1, <1>2

\* The producer sends a chunk: the cursor it has seen shows that the run is on.
LEMMA ProduceInv ==
    ASSUME SessionInv, Produce
    PROVE  SessionInv'
<1>1. CASE ~receiving
  <2>1. /\ UNCHANGED <<times, mode, main, next, receipt, seen, events, receiving, toServer,
                       toClient, link, handling, state, accepted, cursor, stop, code, lag>>
        /\ main = "running" /\ producer' = "failed"
    BY <1>1 DEF Produce, serverVars, SessionInv, Tasks
  <2>2. SessionTypes'
    BY <2>1 DEF SessionInv, SessionTypes, NumChunks
  <2>3. Tasks' /\ Progress'
    BY <2>1 DEF SessionInv, Tasks, Progress
  <2>4. StopAndWait'
    BY <2>1 DEF SessionInv, StopAndWait, NumChunks
  <2>5. Order'
    BY <2>1 DEF SessionInv, Order, NumChunks, End, Enough
  <2>6. CursorsInOrder'
    BY <2>1 DEF SessionInv, CursorsInOrder, AcceptedUntil, End
  <2> QED
    BY <2>2, <2>3, <2>4, <2>5, <2>6 DEF SessionInv
<1>2. CASE receiving
  <2> DEFINE m == Message("chunk", next)
  <2>1. /\ UNCHANGED <<times, mode, main, next, seen, events, receiving, toClient, link,
                       handling, state, accepted, cursor, stop, code, lag>>
        /\ producer = "pace" /\ producer' = "receipt" /\ receipt' = "pending" /\ Send(m)
        /\ MayProduce /\ main = "running"
    BY <1>2 DEF Produce, SendChunk, serverVars, SessionInv, Tasks
  <2>2. toServer \in Seq(Messages) /\ next \in Nat
    BY Numbers DEF SessionInv, SessionTypes
  <2>3. m \in Messages /\ m.type = "chunk" /\ m.seq = next
    BY <2>2 DEF Message, Messages
  <2> HIDE DEF m
  <2>4. /\ toServer' \in Seq(Messages)
        /\ \A i \in 1 .. Len(toServer) :
              i \in 1 .. Len(toServer') /\ toServer'[i] = toServer[i]
        /\ \A i \in 1 .. Len(toServer') :
              \/ i \in 1 .. Len(toServer) /\ toServer'[i] = toServer[i]
              \/ link = "up" /\ i = Len(toServer) + 1 /\ toServer'[i] = m
        /\ Has(toServer', "start") <=> Has(toServer, "start")
    BY <2>1, <2>2, <2>3, SendFacts
  <2>5. /\ ~Has(toServer, "chunk") /\ accepted = next /\ receipt = "none"
        /\ next >= 1 /\ next < NumChunks /\ mode = "streaming" /\ End(next - 1) >= TargetAhead
    BY <2>1 DEF SessionInv, StopAndWait, Progress
  <2>6. \A i \in 1 .. Len(toServer') : toServer'[i].type = "chunk" =>
           link = "up" /\ i = Len(toServer) + 1 /\ toServer'[i] = m
    BY <2>4, <2>5 DEF Has
  <2>7. SessionTypes'
    BY <2>1, <2>4 DEF SessionInv, SessionTypes, NumChunks
  <2>8. Tasks'
    BY <2>1 DEF SessionInv, Tasks
  <2>9. Progress'
    BY <2>1 DEF SessionInv, Progress, NumChunks, End, Enough
  <2>10. StopAndWait'
    <3>1. \A i \in 1 .. Len(toClient) : toClient[i].type = "chunk_accepted" =>
             toClient[i].seq < accepted /\ toClient[i].seq # next
      BY <2>5, Numbers DEF SessionInv, StopAndWait
    <3> QED
      BY <2>1, <2>3, <2>5, <2>6, <3>1 DEF SessionInv, StopAndWait, NumChunks
  <2>11. Order'
    <3>1. /\ NumChunks \in Nat /\ End(next - 1) \in Nat /\ End(next) \in Nat
          /\ TargetAhead \in Nat /\ End(next - 1) < End(next)
      BY <2>2, <2>5, Numbers DEF SessionInv
    <3>2. seen \in Nat /\ cursor \in Nat /\ seen <= cursor
      BY DEF SessionInv, SessionTypes, CursorsInOrder
    <3>3. End(next) - seen <= TargetAhead
      BY <2>1 DEF MayProduce
    <3>4. cursor > 0 /\ End(next) - cursor <= TargetAhead
      BY <3>1, <3>2, <3>3, <2>5
    <3>5. state \notin {"none", "buffering", "arming"}
      BY <3>2, <3>4 DEF SessionInv, Order
    <3>6. ~Has(toServer', "start")
      BY <2>4, <3>5 DEF SessionInv, Order
    <3>7. \A i \in 1 .. Len(toServer') : toServer'[i].type # "open_run"
      BY <2>3, <2>4, <3>5 DEF SessionInv, Order
    <3>8. \A i \in 1 .. Len(toServer') : toServer'[i].type # "start"
      BY <3>6 DEF Has
    <3> QED
      BY <2>1, <2>5, <3>4, <3>5, <3>6, <3>7, <3>8 DEF Order, End
  <2>12. CursorsInOrder'
    BY <2>1 DEF SessionInv, CursorsInOrder, AcceptedUntil, End
  <2> QED
    BY <2>7, <2>8, <2>9, <2>10, <2>11, <2>12 DEF SessionInv
<1> QED
  BY <1>1, <1>2

\* The chunk of the producer is accepted, or refused.
LEMMA ProduceAcknowledgedInv ==
    ASSUME SessionInv, ProduceAcknowledged
    PROVE  SessionInv'
<1>1. /\ UNCHANGED <<times, mode, main, seen, events, receiving, toServer, toClient, link,
                     handling, state, accepted, cursor, stop, code, lag>>
      /\ producer = "receipt" /\ receipt' = "none" /\ main = "running"
  BY DEF ProduceAcknowledged, netVars, serverVars, SessionInv, Tasks
<1>2. CASE receipt = "refused" /\ producer' = "failed" /\ UNCHANGED next
  <2>1. SessionTypes'
    BY <1>1, <1>2 DEF SessionInv, SessionTypes, NumChunks
  <2>2. Tasks' /\ Progress'
    BY <1>1, <1>2 DEF SessionInv, Tasks, Progress
  <2>3. StopAndWait'
    BY <1>1, <1>2 DEF SessionInv, StopAndWait, NumChunks
  <2>4. Order'
    BY <1>1, <1>2 DEF SessionInv, Order, NumChunks, End, Enough
  <2>5. CursorsInOrder'
    BY <1>1, <1>2 DEF SessionInv, CursorsInOrder, AcceptedUntil, End
  <2> QED
    BY <2>1, <2>2, <2>3, <2>4, <2>5 DEF SessionInv
<1>3. CASE /\ receipt = "accepted" /\ next' = next + 1
           /\ producer' = IF next + 1 = NumChunks THEN "done" ELSE "pace"
  <2>1. /\ next \in Nat /\ accepted \in Nat /\ NumChunks \in Nat
        /\ next < NumChunks /\ next >= 1 /\ mode = "streaming" /\ End(next - 1) >= TargetAhead
        /\ accepted = next + 1 /\ ~Has(toServer, "chunk")
        /\ (next + 1) - 1 = next
    BY <1>1, <1>3, Numbers DEF SessionInv, StopAndWait, Progress
  <2>2. End(next) >= TargetAhead
    <3>1. /\ End(next - 1) \in Nat /\ End(next) \in Nat /\ TargetAhead \in Nat
          /\ End(next - 1) < End(next)
      BY <2>1, Numbers DEF SessionInv
    <3> QED
      BY <3>1, <2>1
  <2>3. SessionTypes'
    BY <1>1, <1>3, <2>1 DEF SessionInv, SessionTypes, NumChunks
  <2>4. Tasks'
    BY <1>1, <1>3 DEF SessionInv, Tasks
  <2>5. Progress'
    BY <1>1, <1>3, <2>1, <2>2 DEF Progress, NumChunks, End
  <2>6. StopAndWait'
    <3>1. \A i \in 1 .. Len(toClient) : toClient[i].type = "chunk_accepted" =>
             toClient[i].seq < accepted /\ toClient[i].seq # next + 1
      <4>1. \A i \in 1 .. Len(toClient) : toClient[i] \in Events
        BY DEF SessionInv, SessionTypes
      <4>2. \A i \in 1 .. Len(toClient) : toClient[i].seq \in Nat
        BY <4>1 DEF Events
      <4>3. \A i \in 1 .. Len(toClient) : toClient[i].type = "chunk_accepted" =>
               toClient[i].seq < accepted
        BY DEF SessionInv, StopAndWait
      <4> QED
        BY <4>2, <4>3, <2>1
    <3>2. \A i \in 1 .. Len(toServer) : toServer[i].type # "chunk"
      BY <2>1 DEF Has
    <3> QED
      BY <1>1, <1>3, <2>1, <3>1, <3>2 DEF StopAndWait
  <2>7. Order'
    BY <1>1, <1>3, <2>1 DEF SessionInv, Order, NumChunks, End, Enough
  <2>8. CursorsInOrder'
    BY <1>1 DEF SessionInv, CursorsInOrder, AcceptedUntil, End
  <2> QED
    BY <2>3, <2>4, <2>5, <2>6, <2>7, <2>8 DEF SessionInv
<1> QED
  BY <1>2, <1>3 DEF ProduceAcknowledged

\* An event is read: it may settle the receipt, and it moves the cursor on.
LEMMA ReceiveInv ==
    ASSUME SessionInv, Receive
    PROVE  SessionInv'
<1> DEFINE e == toClient[1]
<1>1. /\ UNCHANGED <<times, mode, main, next, producer, receiving, toServer, link, handling,
                     state, accepted, cursor, stop, code, lag>>
      /\ toClient # << >> /\ toClient' = Tail(toClient)
  BY DEF Receive, serverVars
<1>2. /\ toClient \in Seq(Events) /\ events \in Seq(Decisive)
      /\ receipt \in {"none", "pending", "accepted", "refused"} /\ seen \in Nat
  BY DEF SessionInv, SessionTypes
<1>3. /\ toClient' \in Seq(Events) /\ Head(toClient) = e /\ e \in Events
      /\ 1 \in 1 .. Len(toClient) /\ Len(toClient') = Len(toClient) - 1
      /\ \A i \in 1 .. Len(toClient') :
            i + 1 \in 1 .. Len(toClient) /\ toClient'[i] = toClient[i + 1]
  BY <1>1, <1>2, TailIsPiece
<1>4. e.type \in EventKinds /\ e.seq \in Nat /\ e.cursor \in Nat
  BY <1>3 DEF Events
<1>5. /\ receipt' = IF receipt = "pending" /\ e.type = "error" THEN "refused"
                    ELSE IF receipt = "pending" /\ e.type = "chunk_accepted"
                            /\ e.seq = next THEN "accepted"
                    ELSE receipt
      /\ seen' = IF e.type \in WithCursor THEN e.cursor ELSE seen
      /\ events' = IF e.type \in Decisive THEN Append(events, e.type) ELSE events
  BY <1>3 DEF Receive, CursorOf
<1>6. events' \in Seq(Decisive)
  <2>1. CASE e.type \in Decisive
    BY <2>1, <1>2, <1>5, AppendAt
  <2>2. CASE e.type \notin Decisive
    BY <2>2, <1>2, <1>5
  <2> QED
    BY <2>1, <2>2
<1>7. receipt' \in {"none", "pending", "accepted", "refused"} /\ seen' \in Nat
      /\ (receipt = "none" => receipt' = "none") /\ (receipt # "none" => receipt' # "none")
  BY <1>2, <1>4, <1>5
<1>8. SessionTypes'
  BY <1>1, <1>3, <1>6, <1>7 DEF SessionInv, SessionTypes, NumChunks
<1>9. Tasks'
  BY <1>1, <1>7 DEF SessionInv, Tasks
<1>10. Progress'
  BY <1>1 DEF SessionInv, Progress, NumChunks, End, Enough
<1>11. StopAndWait'
  <2>1. receipt' = "accepted" => accepted = next + 1 /\ ~Has(toServer, "chunk")
    BY <1>3, <1>5 DEF SessionInv, StopAndWait
  <2>2. \A i \in 1 .. Len(toClient') : toClient'[i].type = "chunk_accepted" =>
           /\ toClient'[i].seq < accepted
           /\ toClient'[i].seq = next => accepted = next + 1 /\ ~Has(toServer, "chunk")
    BY <1>3 DEF SessionInv, StopAndWait
  <2> QED
    BY <1>1, <1>7, <2>1, <2>2 DEF SessionInv, StopAndWait, NumChunks
<1>12. Order'
  BY <1>1 DEF SessionInv, Order, NumChunks, End, Enough
<1>13. CursorsInOrder'
  <2>1. seen' <= cursor /\ \A i \in 1 .. Len(toClient') : toClient'[i].type \in WithCursor =>
           seen' <= toClient'[i].cursor /\ toClient'[i].cursor <= cursor
    <3>1. CASE e.type \in WithCursor
      <4>1. e.cursor <= cursor
        BY <3>1, <1>3 DEF SessionInv, CursorsInOrder
      <4>2. ASSUME NEW i \in 1 .. Len(toClient'), toClient'[i].type \in WithCursor
            PROVE  e.cursor <= toClient'[i].cursor /\ toClient'[i].cursor <= cursor
        <5>1. i + 1 \in 1 .. Len(toClient) /\ toClient'[i] = toClient[i + 1] /\ 1 < i + 1
          BY <1>3
        <5> QED
          BY <5>1, <4>2, <3>1, <1>3 DEF SessionInv, CursorsInOrder
      <4> QED
        BY <3>1, <1>5, <4>1, <4>2
    <3>2. CASE e.type \notin WithCursor
      BY <3>2, <1>3, <1>5 DEF SessionInv, CursorsInOrder
    <3> QED
      BY <3>1, <3>2
  <2>2. ASSUME NEW i \in 1 .. Len(toClient'), NEW j \in 1 .. Len(toClient'), i < j,
               toClient'[i].type \in WithCursor, toClient'[j].type \in WithCursor
        PROVE  toClient'[i].cursor <= toClient'[j].cursor
    <3>1. /\ i + 1 \in 1 .. Len(toClient) /\ toClient'[i] = toClient[i + 1]
          /\ j + 1 \in 1 .. Len(toClient) /\ toClient'[j] = toClient[j + 1]
          /\ i + 1 < j + 1
      BY <1>3, <2>2
    <3> QED
      BY <3>1, <2>2 DEF SessionInv, CursorsInOrder
  <2>3. cursor <= AcceptedUntil
    BY DEF SessionInv, CursorsInOrder
  <2>4. cursor' <= AcceptedUntil'
    BY <2>3, <1>1 DEF AcceptedUntil, End
  <2> QED
    BY <1>1, <2>1, <2>2, <2>4 DEF CursorsInOrder, WithCursor
<1> QED
  BY <1>8, <1>9, <1>10, <1>11, <1>12, <1>13 DEF SessionInv

\* The receiver ends, after the link.
LEMMA ReceiverEndsInv ==
    ASSUME SessionInv, ReceiverEnds
    PROVE  SessionInv'
<1>1. /\ UNCHANGED <<times, mode, main, next, producer, seen, toServer, toClient, link,
                     handling, state, accepted, cursor, stop, code, lag>>
      /\ link # "up" /\ receiving' = FALSE
      /\ receipt' = IF receipt = "pending" THEN "refused" ELSE receipt
  BY DEF ReceiverEnds, netVars, serverVars
<1>2. events' \in Seq(Decisive)
  <2>1. events \in Seq(Decisive) /\ "connection_closed" \in Decisive
    BY DEF SessionInv, SessionTypes, Decisive
  <2>2. Append(events, "connection_closed") \in Seq(Decisive)
    BY <2>1, AppendAt
  <2>3. events' \in {events, Append(events, "connection_closed")}
    BY DEF ReceiverEnds
  <2> QED
    BY <2>1, <2>2, <2>3
<1>3. SessionTypes'
  <2>1. receipt' \in {"none", "pending", "accepted", "refused"}
    BY <1>1 DEF SessionInv, SessionTypes
  <2>2. /\ UNCHANGED <<times, mode, main, next, producer, seen, toServer, toClient, link,
                       handling, state, accepted, cursor, stop, code, lag>>
        /\ receiving' \in BOOLEAN
    BY <1>1
  <2> QED
    BY <1>2, <2>1, <2>2 DEF SessionInv, SessionTypes, NumChunks
<1>4. Tasks'
  BY <1>1 DEF SessionInv, Tasks
<1>5. Progress'
  BY <1>1 DEF SessionInv, Progress, NumChunks, End, Enough
<1>6. StopAndWait'
  BY <1>1 DEF SessionInv, StopAndWait, NumChunks
<1>7. Order'
  BY <1>1 DEF SessionInv, Order, NumChunks, End, Enough
<1>8. CursorsInOrder'
  BY <1>1 DEF SessionInv, CursorsInOrder, AcceptedUntil, End
<1> QED
  BY <1>3, <1>4, <1>5, <1>6, <1>7, <1>8 DEF SessionInv

\* The run is left on an event, or on Ctrl-C.
LEMMA RunEventInv ==
    ASSUME SessionInv, RunEvent \/ Interrupt
    PROVE  SessionInv'
<1>1. CASE Interrupt
  BY <1>1, LeaveInv DEF Interrupt
<1>2. CASE RunEvent
  <2>1. main = "running"
    BY <1>2 DEF RunEvent
  <2>2. \/ LeaveWith("succeeded", << >>) \/ LeaveWith("failed", << >>)
        \/ LeaveWith("failed", <<Message("cancel", 0)>>)
    BY <1>2 DEF RunEvent
  <2> QED
    BY <2>1, <2>2, LeaveInv
<1> QED
  BY <1>1, <1>2

\* What events sent do to the queue to the client.
LEMMA EmitFacts ==
    ASSUME toClient \in Seq(Events), NEW es \in Seq(Events), Emit(es)
    PROVE  /\ toClient' \in Seq(Events)
           /\ \A i \in 1 .. Len(toClient) :
                 i \in 1 .. Len(toClient') /\ toClient'[i] = toClient[i]
           /\ \A i \in 1 .. Len(toClient') :
                 \/ i \in 1 .. Len(toClient) /\ toClient'[i] = toClient[i]
                 \/ /\ link = "up" /\ i > Len(toClient)
                    /\ \E j \in 1 .. Len(es) : toClient'[i] = es[j]
           /\ link = "up" => \A j \in 1 .. Len(es) :
                 \E i \in 1 .. Len(toClient') : toClient'[i] = es[j]
<1>1. CASE link = "up"
  <2>1. toClient' = toClient \o es /\ Len(toClient) \in Nat
    BY <1>1 DEF Emit
  <2>2. /\ toClient' \in Seq(Events)
        /\ \A i \in 1 .. Len(toClient) :
              i \in 1 .. Len(toClient') /\ toClient'[i] = toClient[i]
        /\ \A j \in 1 .. Len(es) : Len(toClient) + j \in 1 .. Len(toClient')
                                   /\ toClient'[Len(toClient) + j] = es[j]
        /\ \A i \in 1 .. Len(toClient') :
              i \in 1 .. Len(toClient) \/ i - Len(toClient) \in 1 .. Len(es)
    BY <2>1, ConcatAt
  <2>3. ASSUME NEW i \in 1 .. Len(toClient'), i \notin 1 .. Len(toClient)
        PROVE  i > Len(toClient) /\ \E j \in 1 .. Len(es) : toClient'[i] = es[j]
    <3>1. i - Len(toClient) \in 1 .. Len(es) /\ i = Len(toClient) + (i - Len(toClient))
      BY <2>1, <2>2, <2>3
    <3>2. toClient'[i] = es[i - Len(toClient)] /\ i > Len(toClient)
      BY <2>1, <2>2, <3>1
    <3> QED
      BY <3>1, <3>2
  <2>4. \A j \in 1 .. Len(es) : \E i \in 1 .. Len(toClient') : toClient'[i] = es[j]
    BY <2>2
  <2> QED
    BY <1>1, <2>2, <2>3, <2>4
<1>2. CASE link # "up"
  <2>1. toClient' = toClient
    BY <1>2 DEF Emit
  <2> QED
    BY <1>2, <2>1
<1> QED
  BY <1>1, <1>2

\* Events that carry the server's cursor keep the cursors in order.
LEMMA CursorsKeepOrder ==
    ASSUME SessionInv, NEW es \in Seq(Events), Emit(es), UNCHANGED seen,
           cursor' \in Nat, cursor <= cursor', cursor' <= AcceptedUntil',
           \A j \in 1 .. Len(es) : es[j].type \in WithCursor => es[j].cursor = cursor'
    PROVE  CursorsInOrder'
<1>1. toClient \in Seq(Events) /\ seen \in Nat /\ cursor \in Nat /\ seen <= cursor
  BY DEF SessionInv, SessionTypes, CursorsInOrder
<1>2. /\ \A i \in 1 .. Len(toClient) :
            i \in 1 .. Len(toClient') /\ toClient'[i] = toClient[i]
      /\ \A i \in 1 .. Len(toClient') :
            \/ i \in 1 .. Len(toClient) /\ toClient'[i] = toClient[i]
            \/ /\ link = "up" /\ i > Len(toClient)
               /\ \E j \in 1 .. Len(es) : toClient'[i] = es[j]
  BY <1>1, EmitFacts
<1>3. \A i \in 1 .. Len(toClient') : toClient'[i].type \in WithCursor =>
         \/ i \in 1 .. Len(toClient) /\ toClient'[i] = toClient[i]
         \/ i > Len(toClient) /\ toClient'[i].cursor = cursor'
  BY <1>2
<1>4. \A i \in 1 .. Len(toClient) : toClient[i].type \in WithCursor =>
         seen <= toClient[i].cursor /\ toClient[i].cursor <= cursor /\ toClient[i].cursor \in Nat
  <2>1. \A i \in 1 .. Len(toClient) : toClient[i] \in Events
    BY <1>1
  <2>2. \A i \in 1 .. Len(toClient) : toClient[i].cursor \in Nat
    BY <2>1 DEF Events
  <2> QED
    BY <2>2 DEF SessionInv, CursorsInOrder
<1>5. \A i \in 1 .. Len(toClient') : toClient'[i].type \in WithCursor =>
         seen <= toClient'[i].cursor /\ toClient'[i].cursor <= cursor'
  BY <1>1, <1>3, <1>4
<1>6. ASSUME NEW i \in 1 .. Len(toClient'), NEW j \in 1 .. Len(toClient'), i < j,
             toClient'[i].type \in WithCursor, toClient'[j].type \in WithCursor
      PROVE  toClient'[i].cursor <= toClient'[j].cursor
  <2>1. CASE j \in 1 .. Len(toClient)
    <3>1. i \in 1 .. Len(toClient)
      BY <2>1, <1>6, <1>1
    <3> QED
      BY <2>1, <3>1, <1>6, <1>2 DEF SessionInv, CursorsInOrder
  <2>2. CASE j \notin 1 .. Len(toClient)
    BY <2>2, <1>3, <1>5, <1>6
  <2> QED
    BY <2>1, <2>2
<1> QED
  BY <1>1, <1>5, <1>6 DEF CursorsInOrder, WithCursor

\* A run that ends reports where it ended, after the fault if there was one.
LEMMA FinishEmits ==
    ASSUME NEW outcome \in {"completed", "stopped", "faulted"}, NEW c, NEW at \in Nat,
           Finish(outcome, c, at)
    PROVE  \E es \in Seq(Events) :
              /\ Emit(es)
              /\ \A j \in 1 .. Len(es) :
                    es[j].type \notin {"chunk_accepted", "error"}
                    /\ (es[j].type \in WithCursor => es[j].cursor = at)
              /\ \E j \in 1 .. Len(es) : es[j].type \in WithCursor
<1> DEFINE kind == IF outcome = "completed" THEN outcome ELSE "not_completed"
           e == Event(kind, 0, at)
           f == Event("fault", 0, 0)
<1>1. /\ e \in Events /\ e.cursor = at /\ e.type \in {"completed", "not_completed"}
      /\ f \in Events /\ f.type = "fault"
  BY DEF Event, Events, EventKinds
<1>2. \/ Emit(<< >> \o <<e>>) \/ Emit(<<f>> \o <<e>>)
  BY DEF Finish
<1> HIDE DEF e, f
<1>3. /\ << >> \in Seq(Events) /\ <<f>> \in Seq(Events) /\ <<e>> \in Seq(Events)
      /\ Len(<<e>>) = 1 /\ <<e>>[1] = e /\ Len(<<f>>) = 1 /\ <<f>>[1] = f
      /\ Len(<< >>) = 0
  BY <1>1
<1>4. ASSUME NEW before \in {<< >>, <<f>>}, Emit(before \o <<e>>)
      PROVE  \E es \in Seq(Events) :
                /\ Emit(es)
                /\ \A j \in 1 .. Len(es) :
                      es[j].type \notin {"chunk_accepted", "error"}
                      /\ (es[j].type \in WithCursor => es[j].cursor = at)
                /\ \E j \in 1 .. Len(es) : es[j].type \in WithCursor
  <2>1. before \in Seq(Events) /\ \A i \in 1 .. Len(before) : before[i] = f
    <3>1. CASE before = << >>
      <4>1. 1 .. Len(before) = {}
        BY <3>1, <1>3
      <4> QED
        BY <3>1, <4>1, <1>3
    <3>2. CASE before = <<f>>
      BY <3>2, <1>3
    <3> QED
      BY <3>1, <3>2
  <2>2. before \o <<e>> \in Seq(Events)
    BY <1>3, <2>1, ConcatAt
  <2>3. ASSUME NEW j \in 1 .. Len(before \o <<e>>) PROVE (before \o <<e>>)[j] \in {e, f}
    <3>1. CASE j \in 1 .. Len(before)
      BY <3>1, <1>3, <2>1, ConcatAt
    <3>2. CASE j - Len(before) \in 1 .. Len(<<e>>)
      <4>1. j - Len(before) = 1 /\ j = Len(before) + 1 /\ 1 \in 1 .. Len(<<e>>)
        BY <3>2, <2>1, <1>3
      <4> QED
        BY <4>1, <1>3, <2>1, ConcatAt
    <3> QED
      BY <3>1, <3>2, <1>3, <2>1, ConcatAt
  <2>4. \A j \in 1 .. Len(before \o <<e>>) :
           /\ (before \o <<e>>)[j].type \notin {"chunk_accepted", "error"}
           /\ (before \o <<e>>)[j].type \in WithCursor => (before \o <<e>>)[j].cursor = at
    BY <2>3, <1>1 DEF WithCursor
  <2>5. \E j \in 1 .. Len(before \o <<e>>) : (before \o <<e>>)[j].type \in WithCursor
    <3>1. 1 \in 1 .. Len(<<e>>)
      BY <1>3
    <3>2. /\ Len(before) + 1 \in 1 .. Len(before \o <<e>>)
          /\ (before \o <<e>>)[Len(before) + 1] = <<e>>[1]
      BY <3>1, <1>3, <2>1, ConcatAt
    <3> QED
      BY <3>2, <1>1, <1>3 DEF WithCursor
  <2> QED
    BY <1>4, <2>2, <2>4, <2>5
<1> QED
  BY <1>2, <1>4

\* A run ends.
LEMMA FinishInv ==
    ASSUME SessionInv, state \in {"arming", "running"},
           NEW outcome \in {"completed", "stopped", "faulted"},
           NEW c \in {"NONE", "CANCELLED", "OTHER", "BUFFER_UNDERRUN"},
           NEW at \in Nat, cursor <= at, at <= AcceptedUntil, lag' \in Nat,
           Finish(outcome, c, at)
    PROVE  SessionInv'
<1>1. /\ UNCHANGED <<times, mode, main, next, producer, receipt, seen, events, receiving,
                     toServer, link, handling, accepted, stop>>
      /\ state' = outcome /\ code' = c /\ cursor' = at
  BY DEF Finish, clientVars
<1>2. PICK es \in Seq(Events) :
         /\ Emit(es)
         /\ \A j \in 1 .. Len(es) :
               es[j].type \notin {"chunk_accepted", "error"}
               /\ (es[j].type \in WithCursor => es[j].cursor = at)
         /\ \E j \in 1 .. Len(es) : es[j].type \in WithCursor
  BY FinishEmits
<1>3. toClient \in Seq(Events)
  BY DEF SessionInv, SessionTypes
<1>4. /\ toClient' \in Seq(Events)
      /\ \A i \in 1 .. Len(toClient') : toClient'[i].type = "chunk_accepted" =>
            i \in 1 .. Len(toClient) /\ toClient'[i] = toClient[i]
  <2>1. toClient' \in Seq(Events)
    BY <1>2, <1>3, EmitFacts
  <2>2. \A i \in 1 .. Len(toClient') :
           \/ i \in 1 .. Len(toClient) /\ toClient'[i] = toClient[i]
           \/ \E j \in 1 .. Len(es) : toClient'[i] = es[j]
    BY <1>2, <1>3, EmitFacts
  <2> QED
    BY <1>2, <2>1, <2>2
<1>5. SessionTypes'
  BY <1>1, <1>4 DEF SessionInv, SessionTypes, NumChunks
<1>6. Tasks'
  BY <1>1 DEF SessionInv, Tasks
<1>7. Progress'
  BY <1>1 DEF SessionInv, Progress, NumChunks, End, Enough
<1>8. StopAndWait'
  BY <1>1, <1>4 DEF SessionInv, StopAndWait, NumChunks
<1>9. Order'
  <2>1. main \notin {"opening", "upload", "receipt", "start"} /\ ~Has(toServer, "start")
        /\ \A i \in 1 .. Len(toServer) : toServer[i].type # "open_run"
    BY DEF SessionInv, Order
  <2>2. Has(toServer, "chunk") => mode = "streaming" /\ End(next) - at <= TargetAhead
    <3>1. Has(toServer, "chunk") =>
             mode = "streaming" /\ End(next) - cursor <= TargetAhead /\ next < NumChunks
      BY DEF SessionInv, Order, StopAndWait, Has
    <3>2. next < NumChunks => End(next) \in Nat
      BY Numbers DEF SessionInv
    <3>3. cursor \in Nat /\ TargetAhead \in Nat
      BY SessionAssumption DEF SessionInv, SessionTypes
    <3> QED
      BY <3>1, <3>2, <3>3
  <2>3. \A i \in 1 .. Len(toServer) : toServer[i].type # "start"
    BY <2>1 DEF Has
  <2> QED
    BY <1>1, <2>1, <2>2, <2>3 DEF Order, End
<1>10. CursorsInOrder'
  <2>1. at <= AcceptedUntil'
    BY <1>1 DEF AcceptedUntil, End
  <2> QED
    BY <1>1, <1>2, <2>1, CursorsKeepOrder
<1> QED
  BY <1>5, <1>6, <1>7, <1>8, <1>9, <1>10 DEF SessionInv

\* The same for a single event.
LEMMA EmitOne ==
    ASSUME toClient \in Seq(Events), NEW e \in Events, Emit(<<e>>)
    PROVE  /\ <<e>> \in Seq(Events) /\ \A j \in 1 .. Len(<<e>>) : <<e>>[j] = e
           /\ toClient' \in Seq(Events)
           /\ \A i \in 1 .. Len(toClient) :
                 i \in 1 .. Len(toClient') /\ toClient'[i] = toClient[i]
           /\ \A i \in 1 .. Len(toClient') :
                 \/ i \in 1 .. Len(toClient) /\ toClient'[i] = toClient[i]
                 \/ link = "up" /\ i > Len(toClient) /\ toClient'[i] = e
           /\ link = "up" => \E i \in 1 .. Len(toClient') : toClient'[i] = e
<1>1. <<e>> \in Seq(Events) /\ Len(<<e>>) = 1 /\ <<e>>[1] = e
  OBVIOUS
<1>2. \A j \in 1 .. Len(<<e>>) : <<e>>[j] = e
  BY <1>1
<1>3. 1 \in 1 .. Len(<<e>>)
  BY <1>1
<1>4. toClient' \in Seq(Events)
  BY <1>1, EmitFacts
<1>5. \A i \in 1 .. Len(toClient) : i \in 1 .. Len(toClient') /\ toClient'[i] = toClient[i]
  BY <1>1, EmitFacts
<1>6. \A i \in 1 .. Len(toClient') :
         \/ i \in 1 .. Len(toClient) /\ toClient'[i] = toClient[i]
         \/ /\ link = "up" /\ i > Len(toClient)
            /\ \E j \in 1 .. Len(<<e>>) : toClient'[i] = <<e>>[j]
  BY <1>1, EmitFacts
<1>7. link = "up" => \E i \in 1 .. Len(toClient') : toClient'[i] = <<e>>[1]
  BY <1>1, <1>3, EmitFacts
<1> QED
  BY <1>1, <1>2, <1>4, <1>5, <1>6, <1>7

\* A run starts its motion, or finds that it was stopped.
LEMMA ArmInv ==
    ASSUME SessionInv, Arm
    PROVE  SessionInv'
<1>1. /\ state = "arming" /\ lag \in Nat /\ lag' = lag /\ cursor \in Nat /\ cursor <= cursor
      /\ cursor <= AcceptedUntil
  BY DEF Arm, SessionInv, SessionTypes, CursorsInOrder
<1>2. CASE stop
  <2>1. Finish("stopped", "CANCELLED", cursor)
    BY <1>2 DEF Arm
  <2> QED
    BY <1>1, <2>1, FinishInv
<1>3. CASE ~stop
  <2> DEFINE e == Event("run_state", 0, cursor)
  <2>1. /\ UNCHANGED <<times, mode, main, next, producer, receipt, seen, events, receiving,
                       toServer, link, handling, accepted, cursor, stop, code, lag>>
        /\ state' = "running" /\ Emit(<<e>>)
    BY <1>1, <1>3 DEF Arm, clientVars
  <2>2. e \in Events /\ e.type = "run_state" /\ e.cursor = cursor
    BY <1>1 DEF Event, Events, EventKinds
  <2> HIDE DEF e
  <2>3. toClient \in Seq(Events)
    BY DEF SessionInv, SessionTypes
  <2>4. /\ <<e>> \in Seq(Events) /\ \A j \in 1 .. Len(<<e>>) : <<e>>[j] = e
        /\ toClient' \in Seq(Events)
        /\ \A i \in 1 .. Len(toClient') :
              \/ i \in 1 .. Len(toClient) /\ toClient'[i] = toClient[i]
              \/ toClient'[i] = e
    BY <2>1, <2>2, <2>3, EmitOne
  <2>5. SessionTypes'
    BY <2>1, <2>4 DEF SessionInv, SessionTypes, NumChunks
  <2>6. Tasks'
    BY <2>1 DEF SessionInv, Tasks
  <2>7. Progress'
    BY <2>1 DEF SessionInv, Progress, NumChunks, End, Enough
  <2>8. StopAndWait'
    <3>1. \A i \in 1 .. Len(toClient') : toClient'[i].type = "chunk_accepted" =>
             i \in 1 .. Len(toClient) /\ toClient'[i] = toClient[i]
      BY <2>2, <2>4
    <3> QED
      BY <2>1, <3>1 DEF SessionInv, StopAndWait, NumChunks
  <2>9. Order'
    BY <1>1, <2>1 DEF SessionInv, Order
  <2>10. CursorsInOrder'
    <3>1. cursor' \in Nat /\ cursor <= cursor' /\ cursor' <= AcceptedUntil'
      BY <1>1, <2>1 DEF AcceptedUntil, End
    <3>2. \A j \in 1 .. Len(<<e>>) : <<e>>[j].type \in WithCursor => <<e>>[j].cursor = cursor'
      BY <2>1, <2>2, <2>4
    <3> QED
      BY <2>1, <2>4, <3>1, <3>2, CursorsKeepOrder
  <2> QED
    BY <2>5, <2>6, <2>7, <2>8, <2>9, <2>10 DEF SessionInv
<1> QED
  BY <1>2, <1>3

\* A run faults.
LEMMA FaultInv ==
    ASSUME SessionInv, Fault
    PROVE  SessionInv'
<1>1. /\ state \in {"arming", "running"} /\ lag' \in Nat /\ cursor \in Nat /\ cursor <= cursor
      /\ cursor <= AcceptedUntil /\ Finish("faulted", "OTHER", cursor)
  BY DEF Fault, SessionInv, SessionTypes, CursorsInOrder
<1> QED
  BY <1>1, FinishInv

\* A period passes: the cursor moves on, or the run ends.
LEMMA TickInv ==
    ASSUME SessionInv, Tick
    PROVE  SessionInv'
<1>1. /\ state = "running" /\ lag \in Nat /\ MaxDelay \in Nat
      /\ cursor \in Nat /\ cursor <= cursor /\ cursor <= AcceptedUntil
  BY SessionAssumption DEF Tick, SessionInv, SessionTypes, CursorsInOrder
<1>2. lag' \in Nat
  BY <1>1 DEF Tick
<1>3. AcceptedUntil \in Nat
  <2>1. accepted - 1 \in -1 .. NumChunks - 1
    BY Numbers DEF SessionInv, SessionTypes
  <2> QED
    BY <2>1, Numbers DEF SessionInv, AcceptedUntil
<1>4. CASE Finish("stopped", "CANCELLED", cursor)
  BY <1>1, <1>2, <1>4, FinishInv
<1>5. CASE Finish("completed", "NONE", AcceptedUntil)
  <2>1. AcceptedUntil <= AcceptedUntil
    BY <1>3
  <2> QED
    BY <1>1, <1>2, <1>3, <1>5, <2>1, FinishInv
<1>6. CASE Finish("faulted", "BUFFER_UNDERRUN", cursor)
  BY <1>1, <1>2, <1>6, FinishInv
<1>7. CASE /\ ~(cursor + 1 > AcceptedUntil)
           /\ cursor' = cursor + 1
           /\ Emit(<<Event("telemetry", 0, cursor + 1)>>)
           /\ UNCHANGED <<times, mode, clientVars, toServer, link, handling, state, accepted,
                          stop, code>>
  <2> DEFINE e == Event("telemetry", 0, cursor + 1)
  <2>1. /\ UNCHANGED <<times, mode, main, next, producer, receipt, seen, events, receiving,
                       toServer, link, handling, state, accepted, stop, code>>
        /\ cursor' = cursor + 1 /\ Emit(<<e>>)
    BY <1>7 DEF clientVars
  <2>2. e \in Events /\ e.type = "telemetry" /\ e.cursor = cursor'
    BY <1>1, <2>1 DEF Event, Events, EventKinds
  <2> HIDE DEF e
  <2>3. toClient \in Seq(Events)
    BY DEF SessionInv, SessionTypes
  <2>4. /\ <<e>> \in Seq(Events) /\ \A j \in 1 .. Len(<<e>>) : <<e>>[j] = e
        /\ toClient' \in Seq(Events)
        /\ \A i \in 1 .. Len(toClient') :
              \/ i \in 1 .. Len(toClient) /\ toClient'[i] = toClient[i]
              \/ toClient'[i] = e
    BY <2>1, <2>2, <2>3, EmitOne
  <2>5. SessionTypes'
    <3>1. cursor' \in Nat
      BY <1>1, <2>1
    <3> QED
      BY <1>2, <2>1, <2>4, <3>1 DEF SessionInv, SessionTypes, NumChunks
  <2>6. Tasks'
    BY <2>1 DEF SessionInv, Tasks
  <2>7. Progress'
    BY <2>1 DEF SessionInv, Progress, NumChunks, End, Enough
  <2>8. StopAndWait'
    <3>1. \A i \in 1 .. Len(toClient') : toClient'[i].type = "chunk_accepted" =>
             i \in 1 .. Len(toClient) /\ toClient'[i] = toClient[i]
      BY <2>2, <2>4
    <3> QED
      BY <2>1, <3>1 DEF SessionInv, StopAndWait, NumChunks
  <2>9. Order'
    <3>1. main \notin {"opening", "upload", "receipt", "start"} /\ ~Has(toServer, "start")
          /\ \A i \in 1 .. Len(toServer) : toServer[i].type # "open_run"
      BY <1>1 DEF SessionInv, Order
    <3>2. Has(toServer, "chunk") => mode = "streaming" /\ End(next) - cursor' <= TargetAhead
      <4>1. Has(toServer, "chunk") =>
               mode = "streaming" /\ End(next) - cursor <= TargetAhead /\ next < NumChunks
        BY <1>1 DEF SessionInv, Order, StopAndWait, Has
      <4>2. next < NumChunks => End(next) \in Nat
        BY Numbers DEF SessionInv
      <4>3. TargetAhead \in Nat
        BY SessionAssumption
      <4> QED
        BY <1>1, <2>1, <4>1, <4>2, <4>3
    <3>3. \A i \in 1 .. Len(toServer) : toServer[i].type # "start"
      BY <3>1 DEF Has
    <3> QED
      BY <1>1, <2>1, <3>1, <3>2, <3>3 DEF Order, End
  <2>10. CursorsInOrder'
    <3>1. cursor' \in Nat /\ cursor <= cursor' /\ cursor' <= AcceptedUntil
      BY <1>1, <1>3, <1>7, <2>1
    <3>2. AcceptedUntil' = AcceptedUntil
      BY <2>1 DEF AcceptedUntil, End
    <3>3. \A j \in 1 .. Len(<<e>>) : <<e>>[j].type \in WithCursor => <<e>>[j].cursor = cursor'
      BY <2>2, <2>4
    <3> QED
      BY <2>1, <2>4, <3>1, <3>2, <3>3, CursorsKeepOrder
  <2> QED
    BY <2>5, <2>6, <2>7, <2>8, <2>9, <2>10 DEF SessionInv
<1> QED
  BY <1>4, <1>5, <1>6, <1>7 DEF Tick

\* What becomes of a message of the client, and the event that tells it.
HandledWith(m, e) ==
    /\ e.type \in WithCursor => e.cursor = cursor
    /\ \/ /\ m.type = "open_run" /\ state' = "buffering" /\ e.type = "run_opened"
          /\ UNCHANGED <<accepted, stop>>
       \/ /\ m.type = "open_run" \/ ~Accepts(m)
          /\ e.type = "error" /\ UNCHANGED <<state, accepted, stop>>
       \/ /\ m.type = "chunk" /\ Accepts(m) /\ accepted' = accepted + 1
          /\ e.type = "chunk_accepted" /\ e.seq = m.seq /\ UNCHANGED <<state, stop>>
       \/ /\ m.type = "start" /\ Accepts(m) /\ state' = "arming"
          /\ e.type = "run_state" /\ UNCHANGED <<accepted, stop>>
       \/ /\ m.type = "cancel" /\ stop' = TRUE
          /\ e.type = "stop_accepted" /\ UNCHANGED <<state, accepted>>

\* Handle reads the first message and answers it with one event.
LEMMA HandleFacts ==
    ASSUME SessionTypes, Handle
    PROVE  /\ UNCHANGED <<times, mode, main, next, producer, receipt, seen, events, receiving,
                          link, handling, cursor, code, lag>>
           /\ toServer' \in Seq(Messages) /\ toServer[1] \in Messages
           /\ 1 \in 1 .. Len(toServer) /\ Len(toServer') = Len(toServer) - 1
           /\ \A i \in 1 .. Len(toServer') :
                 i + 1 \in 1 .. Len(toServer) /\ toServer'[i] = toServer[i + 1]
           /\ \E e \in Events : Emit(<<e>>) /\ HandledWith(toServer[1], e)
<1> DEFINE m == toServer[1]
<1>1. /\ UNCHANGED <<times, mode, main, next, producer, receipt, seen, events, receiving, link,
                     handling, cursor, code, lag>>
      /\ toServer # << >> /\ toServer' = Tail(toServer)
  BY DEF Handle, clientVars
<1>2. toServer \in Seq(Messages) /\ cursor \in Nat
  BY DEF SessionTypes
<1>3. /\ toServer' \in Seq(Messages) /\ Head(toServer) = m /\ m \in Messages
      /\ 1 \in 1 .. Len(toServer) /\ Len(toServer') = Len(toServer) - 1
      /\ \A i \in 1 .. Len(toServer') :
            i + 1 \in 1 .. Len(toServer) /\ toServer'[i] = toServer[i + 1]
  BY <1>1, <1>2, TailIsPiece
<1>4. m.seq \in Nat
  BY <1>3 DEF Messages
<1> HIDE DEF m
<1>5. \A k \in EventKinds, n \in Nat, c \in Nat :
         /\ Event(k, n, c) \in Events /\ Event(k, n, c).type = k
         /\ Event(k, n, c).seq = n /\ Event(k, n, c).cursor = c
  BY DEF Event, Events
<1>6. \E e \in Events : Emit(<<e>>) /\ HandledWith(m, e)
  <2>1. CASE /\ m.type = "open_run" /\ state' = "buffering"
             /\ Emit(<<Event("run_opened", 0, cursor)>>) /\ UNCHANGED <<accepted, stop>>
    <3> DEFINE e == Event("run_opened", 0, cursor)
    <3>1. e \in Events /\ e.type = "run_opened" /\ e.cursor = cursor
      BY <1>2, <1>5 DEF EventKinds
    <3>2. Emit(<<e>>)
      BY <2>1
    <3> HIDE DEF e
    <3>3. HandledWith(m, e)
      BY <2>1, <3>1 DEF HandledWith
    <3> QED
      BY <3>1, <3>2, <3>3
  <2>2. CASE /\ m.type = "open_run" \/ ~Accepts(m)
             /\ Emit(<<Event("error", 0, 0)>>) /\ UNCHANGED <<state, accepted, stop>>
    <3> DEFINE e == Event("error", 0, 0)
    <3>1. e \in Events /\ e.type = "error"
      BY <1>5 DEF EventKinds
    <3>2. Emit(<<e>>)
      BY <2>2
    <3> HIDE DEF e
    <3>3. HandledWith(m, e)
      BY <2>2, <3>1 DEF HandledWith, WithCursor
    <3> QED
      BY <3>1, <3>2, <3>3
  <2>3. CASE /\ m.type = "chunk" /\ Accepts(m) /\ accepted' = accepted + 1
             /\ Emit(<<Event("chunk_accepted", m.seq, cursor)>>) /\ UNCHANGED <<state, stop>>
    <3> DEFINE e == Event("chunk_accepted", m.seq, cursor)
    <3>1. e \in Events /\ e.type = "chunk_accepted" /\ e.seq = m.seq /\ e.cursor = cursor
      BY <1>2, <1>4, <1>5, SMTT(30) DEF EventKinds
    <3>2. Emit(<<e>>)
      BY <2>3
    <3> HIDE DEF e
    <3>3. HandledWith(m, e)
      BY <2>3, <3>1 DEF HandledWith
    <3> QED
      BY <3>1, <3>2, <3>3
  <2>4. CASE /\ m.type = "start" /\ Accepts(m) /\ state' = "arming"
             /\ Emit(<<Event("run_state", 0, cursor)>>) /\ UNCHANGED <<accepted, stop>>
    <3> DEFINE e == Event("run_state", 0, cursor)
    <3>1. e \in Events /\ e.type = "run_state" /\ e.cursor = cursor
      BY <1>2, <1>5 DEF EventKinds
    <3>2. Emit(<<e>>)
      BY <2>4
    <3> HIDE DEF e
    <3>3. HandledWith(m, e)
      BY <2>4, <3>1 DEF HandledWith
    <3> QED
      BY <3>1, <3>2, <3>3
  <2>5. CASE /\ m.type = "cancel" /\ stop' = TRUE
             /\ Emit(<<Event("stop_accepted", 0, 0)>>) /\ UNCHANGED <<state, accepted>>
    <3> DEFINE e == Event("stop_accepted", 0, 0)
    <3>1. e \in Events /\ e.type = "stop_accepted"
      BY <1>5 DEF EventKinds
    <3>2. Emit(<<e>>)
      BY <2>5
    <3> HIDE DEF e
    <3>3. HandledWith(m, e)
      BY <2>5, <3>1 DEF HandledWith, WithCursor
    <3> QED
      BY <3>1, <3>2, <3>3
  <2> QED
    BY <1>3, <2>1, <2>2, <2>3, <2>4, <2>5 DEF Handle
<1> QED
  BY <1>1, <1>3, <1>6 DEF m

\* The server handles a message: it opens the run, takes a chunk, starts, stops or
\* refuses.
LEMMA HandleInv ==
    ASSUME SessionInv, Handle
    PROVE  SessionInv'
<1> DEFINE m == toServer[1]
<1>1. UNCHANGED <<times, mode, main, next, producer, receipt, seen, events, receiving, link,
                  handling, cursor, code, lag>>
  BY HandleFacts DEF SessionInv
<1>2. /\ toServer \in Seq(Messages) /\ toClient \in Seq(Events) /\ cursor \in Nat
      /\ stop \in BOOLEAN
  BY DEF SessionInv, SessionTypes
<1>3. /\ toServer' \in Seq(Messages) /\ m \in Messages
      /\ 1 \in 1 .. Len(toServer) /\ Len(toServer') = Len(toServer) - 1
      /\ \A i \in 1 .. Len(toServer') :
            i + 1 \in 1 .. Len(toServer) /\ toServer'[i] = toServer[i + 1]
  BY HandleFacts DEF SessionInv
<1>4. m.type \in {"open_run", "chunk", "start", "cancel"} /\ m.seq \in Nat
  BY <1>3 DEF Messages
<1>5. \A k : Has(toServer', k) => Has(toServer, k)
  BY <1>3 DEF Has
<1>6. Has(toServer, m.type)
  BY <1>3 DEF Has
<1>7. \A i \in 1 .. Len(toServer') : toServer'[i].type # "open_run"
  <2>1. \A i \in 1 .. Len(toServer') : i + 1 # 1
    OBVIOUS
  <2> QED
    BY <1>3, <2>1 DEF SessionInv, Order
<1>8. /\ next \in Nat /\ accepted \in Nat /\ NumChunks \in Nat /\ accepted <= NumChunks
  BY Numbers DEF SessionInv, SessionTypes
<1>9. PICK e \in Events : Emit(<<e>>) /\ HandledWith(m, e)
  BY HandleFacts DEF SessionInv
<1> HIDE DEF m
<1>10. /\ <<e>> \in Seq(Events) /\ \A j \in 1 .. Len(<<e>>) : <<e>>[j] = e
       /\ toClient' \in Seq(Events)
       /\ \A i \in 1 .. Len(toClient') :
             \/ i \in 1 .. Len(toClient) /\ toClient'[i] = toClient[i]
             \/ toClient'[i] = e
  BY <1>2, <1>9, EmitOne
<1>11. Tasks'
  BY <1>1 DEF SessionInv, Tasks
<1>12. Progress'
  BY <1>1 DEF SessionInv, Progress, NumChunks, End, Enough
<1>13. ASSUME accepted' = accepted, stop' \in BOOLEAN, e.type # "chunk_accepted",
              state' \in {"none", "buffering", "arming", "running", "completed", "stopped",
                          "faulted"}
       PROVE  SessionTypes' /\ StopAndWait' /\ CursorsInOrder'
  <2>1. SessionTypes'
    BY <1>1, <1>3, <1>10, <1>13 DEF SessionInv, SessionTypes, NumChunks
  <2>2. StopAndWait'
    <3>1. \A i \in 1 .. Len(toClient') : toClient'[i].type = "chunk_accepted" =>
             i \in 1 .. Len(toClient) /\ toClient'[i] = toClient[i]
      BY <1>10, <1>13
    <3>2. \A i \in 1 .. Len(toServer') : toServer'[i].type = "chunk" =>
             toServer'[i].seq = next /\ accepted = next /\ next < NumChunks
      BY <1>3 DEF SessionInv, StopAndWait
    <3>3. \A i, j \in 1 .. Len(toServer') :
             toServer'[i].type = "chunk" /\ toServer'[j].type = "chunk" => i = j
      <4>1. \A i, j \in 1 .. Len(toServer') :
               toServer'[i].type = "chunk" /\ toServer'[j].type = "chunk" => i + 1 = j + 1
        BY <1>3 DEF SessionInv, StopAndWait
      <4> QED
        BY <4>1
    <3> QED
      BY <1>1, <1>5, <1>13, <3>1, <3>2, <3>3 DEF SessionInv, StopAndWait, NumChunks
  <2>3. CursorsInOrder'
    <3>1. cursor <= AcceptedUntil /\ AcceptedUntil' = AcceptedUntil
      BY <1>1, <1>13 DEF SessionInv, CursorsInOrder, AcceptedUntil, End
    <3>2. cursor' \in Nat /\ cursor <= cursor' /\ cursor' <= AcceptedUntil'
      BY <1>1, <1>2, <3>1
    <3>3. \A j \in 1 .. Len(<<e>>) : <<e>>[j].type \in WithCursor => <<e>>[j].cursor = cursor'
      BY <1>1, <1>9, <1>10 DEF HandledWith
    <3> QED
      BY <1>1, <1>9, <1>10, <3>2, <3>3, CursorsKeepOrder
  <2> QED
    BY <2>1, <2>2, <2>3
<1>14. state \in {"none", "buffering", "arming", "running", "completed", "stopped", "faulted"}
  BY DEF SessionInv, SessionTypes
<1>19. \A i, j \in 1 .. Len(toServer') :
          toServer'[i].type = "start" /\ toServer'[j].type = "start" => i = j
  <2>1. \A i, j \in 1 .. Len(toServer') :
           toServer'[i].type = "start" /\ toServer'[j].type = "start" => i + 1 = j + 1
    BY <1>3 DEF SessionInv, Order
  <2> QED
    BY <2>1
<1>15. CASE UNCHANGED <<state, accepted>> /\ stop' \in BOOLEAN /\ e.type # "chunk_accepted"
  <2>1. Order'
    BY <1>1, <1>5, <1>7, <1>15, <1>19 DEF SessionInv, Order, NumChunks, End, Enough
  <2> QED
    BY <1>11, <1>12, <1>13, <1>14, <1>15, <2>1 DEF SessionInv
<1>16. CASE /\ m.type = "open_run" /\ state' = "buffering" /\ UNCHANGED <<accepted, stop>>
            /\ e.type = "run_opened"
  <2>1. state = "none"
    BY <1>3, <1>16 DEF SessionInv, Order, m
  <2>2. Order'
    BY <1>1, <1>5, <1>7, <1>16, <1>19, <2>1 DEF SessionInv, Order, NumChunks, End, Enough
  <2> QED
    BY <1>2, <1>11, <1>12, <1>13, <1>16, <2>2 DEF SessionInv
<1>17. CASE /\ m.type = "start" /\ Accepts(m) /\ state' = "arming" /\ UNCHANGED <<accepted, stop>>
            /\ e.type = "run_state"
  <2>1. /\ state \in {"none", "buffering"} /\ accepted >= 1 /\ Enough(accepted)
        /\ ~Has(toServer, "chunk") /\ cursor = 0
        /\ main \notin {"opening", "upload", "receipt", "start"}
    BY <1>6, <1>17 DEF SessionInv, Order
  <2>2. ~Has(toServer', "start")
    <3>1. \A i \in 1 .. Len(toServer') : i + 1 # 1
      OBVIOUS
    <3>2. \A i \in 1 .. Len(toServer') : toServer'[i].type # "start"
      BY <1>3, <1>17, <3>1 DEF SessionInv, Order, m
    <3> QED
      BY <3>2 DEF Has
  <2>3. Order'
    BY <1>1, <1>5, <1>7, <1>17, <1>19, <2>1, <2>2 DEF Order, NumChunks, End, Enough
  <2> QED
    BY <1>2, <1>11, <1>12, <1>13, <1>17, <2>3 DEF SessionInv
<1>18. CASE /\ m.type = "chunk" /\ Accepts(m) /\ accepted' = accepted + 1
            /\ e.type = "chunk_accepted" /\ e.seq = m.seq /\ UNCHANGED <<state, stop>>
  <2>1. /\ m.seq = next /\ accepted = next /\ next < NumChunks
        /\ Has(toServer, "chunk")
        /\ \A i \in 1 .. Len(toServer') : toServer'[i].type # "chunk"
    <3>1. \A i \in 1 .. Len(toServer') : i + 1 # 1
      OBVIOUS
    <3> QED
      BY <1>3, <1>6, <1>18, <3>1 DEF SessionInv, StopAndWait, m
  <2>2. ~Has(toServer', "chunk") /\ ~Has(toServer, "start") /\ ~Has(toServer', "start")
    BY <1>5, <2>1 DEF Has, SessionInv, Order
  <2>3. SessionTypes'
    BY <1>1, <1>3, <1>8, <1>10, <1>18, <2>1 DEF SessionInv, SessionTypes, NumChunks
  <2>4. StopAndWait'
    <3>1. /\ main \notin {"opening", "upload", "start"} /\ producer \notin {"pace", "done"}
          /\ receipt # "accepted"
      BY <2>1 DEF SessionInv, StopAndWait
    <3>2. \A i \in 1 .. Len(toClient') : toClient'[i].type = "chunk_accepted" =>
             toClient'[i].seq < accepted'
      <4>1. \A i \in 1 .. Len(toClient) : toClient[i] \in Events
        BY <1>2
      <4>2. \A i \in 1 .. Len(toClient) : toClient[i].seq \in Nat
        BY <4>1 DEF Events
      <4>3. \A i \in 1 .. Len(toClient) : toClient[i].type = "chunk_accepted" =>
               toClient[i].seq < accepted + 1
        BY <1>8, <4>2 DEF SessionInv, StopAndWait
      <4> QED
        BY <1>8, <1>10, <1>18, <2>1, <4>3
    <3> QED
      BY <1>1, <1>8, <1>18, <2>1, <2>2, <3>1, <3>2 DEF StopAndWait
  <2>5. Order'
    <3>1. state # "arming"
      BY <2>1 DEF SessionInv, Order
    <3>2. \A i \in 1 .. Len(toServer') : toServer'[i].type # "start"
      BY <2>2 DEF Has
    <3> QED
      BY <1>1, <1>7, <1>18, <2>2, <3>1, <3>2 DEF SessionInv, Order
  <2>6. CursorsInOrder'
    <3>1. cursor <= AcceptedUntil
      BY DEF SessionInv, CursorsInOrder
    <3>2. AcceptedUntil = End(next - 1) /\ AcceptedUntil' = End(next)
      <4>1. (accepted + 1) - 1 = next
        BY <1>8, <2>1
      <4> QED
        BY <1>1, <1>18, <2>1, <4>1 DEF AcceptedUntil, End
    <3>3. End(next - 1) \in Nat /\ End(next) \in Nat /\ End(next - 1) <= End(next)
      <4>1. End(next - 1) \in Nat /\ End(next) \in Nat
        BY <1>8, <2>1, Numbers DEF SessionInv
      <4>2. CASE next = 0
        <5>1. End(next - 1) = 0
          BY <4>2, Numbers DEF SessionInv
        <5> QED
          BY <4>1, <5>1
      <4>3. CASE next # 0
        BY <1>8, <2>1, <4>1, <4>3, Numbers DEF SessionInv
      <4> QED
        BY <4>1, <4>2, <4>3
    <3>4. cursor' \in Nat /\ cursor <= cursor' /\ cursor' <= AcceptedUntil'
      BY <1>1, <1>2, <3>1, <3>2, <3>3
    <3>5. \A j \in 1 .. Len(<<e>>) : <<e>>[j].type \in WithCursor => <<e>>[j].cursor = cursor'
      BY <1>1, <1>9, <1>10 DEF HandledWith
    <3> QED
      BY <1>1, <1>9, <1>10, <3>4, <3>5, CursorsKeepOrder
  <2> QED
    BY <1>11, <1>12, <2>3, <2>4, <2>5, <2>6 DEF SessionInv
<1> QED
  BY <1>2, <1>9, <1>15, <1>16, <1>17, <1>18 DEF HandledWith

\* The handler ends with its connection: an open run that has not started is stopped.
LEMMA ConnectionLostInv ==
    ASSUME SessionInv, ConnectionLost
    PROVE  SessionInv'
<1>1. /\ UNCHANGED <<times, mode, main, next, producer, receipt, seen, events, receiving,
                     toServer, toClient, link, accepted, cursor, code, lag>>
      /\ link # "up" /\ toServer = << >> /\ handling' \in BOOLEAN /\ stop' \in BOOLEAN
      /\ state' = IF state = "buffering" THEN "stopped" ELSE state
  BY DEF ConnectionLost, clientVars, netVars, SessionInv, SessionTypes
<1>2. \A k : ~Has(toServer, k)
  <2>1. 1 .. Len(toServer) = {}
    BY <1>1
  <2> QED
    BY <2>1 DEF Has
<1>3. SessionTypes'
  <2>1. state' \in {"none", "buffering", "arming", "running", "completed", "stopped", "faulted"}
    BY <1>1 DEF SessionInv, SessionTypes
  <2>2. /\ UNCHANGED <<times, mode, main, next, producer, receipt, seen, events, receiving,
                       toServer, toClient, link, accepted, cursor, code, lag>>
        /\ handling' \in BOOLEAN /\ stop' \in BOOLEAN
    BY <1>1
  <2> QED
    BY <2>1, <2>2 DEF SessionInv, SessionTypes, NumChunks
<1>4. Tasks'
  BY <1>1 DEF SessionInv, Tasks
<1>5. Progress'
  BY <1>1 DEF SessionInv, Progress, NumChunks, End, Enough
<1>6. StopAndWait'
  BY <1>1 DEF SessionInv, StopAndWait, NumChunks
<1>7. Order'
  BY <1>1, <1>2 DEF SessionInv, Order, NumChunks, End, Enough
<1>8. CursorsInOrder'
  BY <1>1 DEF SessionInv, CursorsInOrder, AcceptedUntil, End
<1> QED
  BY <1>3, <1>4, <1>5, <1>6, <1>7, <1>8 DEF SessionInv

\* An emergency stop from elsewhere.
LEMMA EmergencyStopInv ==
    ASSUME SessionInv, EmergencyStop
    PROVE  SessionInv'
<1>1. /\ UNCHANGED <<times, mode, main, next, producer, receipt, seen, events, receiving,
                     toServer, toClient, link, handling, state, accepted, cursor, code, lag>>
      /\ stop' \in BOOLEAN
  BY DEF EmergencyStop, clientVars, netVars
<1>2. SessionTypes'
  BY <1>1 DEF SessionInv, SessionTypes, NumChunks
<1>3. Tasks'
  BY <1>1 DEF SessionInv, Tasks
<1>4. Progress'
  BY <1>1 DEF SessionInv, Progress, NumChunks, End, Enough
<1>5. StopAndWait'
  BY <1>1 DEF SessionInv, StopAndWait, NumChunks
<1>6. Order'
  BY <1>1 DEF SessionInv, Order, NumChunks, End, Enough
<1>7. CursorsInOrder'
  BY <1>1 DEF SessionInv, CursorsInOrder, AcceptedUntil, End
<1> QED
  BY <1>2, <1>3, <1>4, <1>5, <1>6, <1>7 DEF SessionInv

\* The link is lost, or closed by the server, with part of what was under way.
LEMMA LinkEndsInv ==
    ASSUME SessionInv, Lose \/ Shutdown
    PROVE  SessionInv'
<1>1. /\ UNCHANGED <<times, mode, main, next, producer, receipt, seen, events, receiving,
                     handling, state, accepted, cursor, code, lag>>
      /\ link = "up" /\ link' \in {"lost", "closed"} /\ stop' \in BOOLEAN
      /\ toServer' \in CutTo(toServer) /\ toClient' \in CutTo(toClient)
  BY DEF Lose, Shutdown, clientVars, serverVars, SessionInv, SessionTypes
<1>2. toServer \in Seq(Messages) /\ toClient \in Seq(Events)
  BY DEF SessionInv, SessionTypes
<1>3. /\ toServer' \in Seq(Messages)
      /\ \A i \in 1 .. Len(toServer') : i \in 1 .. Len(toServer) /\ toServer'[i] = toServer[i]
  BY <1>1, <1>2, CutIsPiece
<1>4. /\ toClient' \in Seq(Events)
      /\ \A i \in 1 .. Len(toClient') : i \in 1 .. Len(toClient) /\ toClient'[i] = toClient[i]
  BY <1>1, <1>2, CutIsPiece
<1>5. \A k : Has(toServer', k) => Has(toServer, k)
  BY <1>3 DEF Has
<1>6. UNCHANGED <<times, mode, main, next, producer, receipt, seen, events, receiving,
                  handling, state, accepted, cursor, code, lag>>
      /\ link = "up" /\ link' \in {"lost", "closed"} /\ stop' \in BOOLEAN
  BY <1>1
<1>7. SessionTypes'
  BY <1>3, <1>4, <1>6 DEF SessionInv, SessionTypes, NumChunks
<1>8. Tasks'
  BY <1>6 DEF SessionInv, Tasks
<1>9. Progress'
  BY <1>6 DEF SessionInv, Progress, NumChunks, End, Enough
<1>10. StopAndWait'
  BY <1>3, <1>4, <1>5, <1>6 DEF SessionInv, StopAndWait, NumChunks
<1>11. Order'
  BY <1>3, <1>5, <1>6 DEF SessionInv, Order, NumChunks, End, Enough
<1>12. CursorsInOrder'
  BY <1>4, <1>6 DEF SessionInv, CursorsInOrder, AcceptedUntil, End
<1> QED
  BY <1>7, <1>8, <1>9, <1>10, <1>11, <1>12 DEF SessionInv

\* A session begins with a request to open a run on an idle server.
LEMMA InitInv ==
    ASSUME Init
    PROVE  SessionInv
<1> DEFINE m == Message("open_run", 0)
<1>1. /\ times \in Programs /\ mode \in {"sealed", "streaming"}
      /\ main = "opening" /\ next = 0 /\ producer = "none" /\ receipt = "none"
      /\ seen = 0 /\ events = << >> /\ receiving = TRUE
      /\ toServer = <<m>> /\ toClient = << >> /\ link = "up"
      /\ handling = TRUE /\ state = "none" /\ accepted = 0 /\ cursor = 0
      /\ stop = FALSE /\ code = "NONE" /\ lag = 0
  BY DEF Init
<1>2. m \in Messages /\ m.type = "open_run"
  BY DEF Message, Messages
<1> HIDE DEF m
<1>3. /\ toServer \in Seq(Messages) /\ Len(toServer) = 1 /\ toServer[1] = m
      /\ toClient \in Seq(Events) /\ events \in Seq(Decisive) /\ 1 .. Len(toClient) = {}
  BY <1>1, <1>2
<1>4. NumChunks \in Nat \ {0}
  BY <1>1, ChunkBounds DEF NumChunks
<1>5. SessionTypes
  <2>1. receiving \in BOOLEAN /\ handling \in BOOLEAN /\ stop \in BOOLEAN
    BY <1>1
  <2>2. /\ times \in Programs /\ mode \in {"sealed", "streaming"}
        /\ main = "opening" /\ next = 0 /\ producer = "none" /\ receipt = "none"
        /\ seen = 0 /\ link = "up" /\ state = "none" /\ accepted = 0 /\ cursor = 0
        /\ code = "NONE" /\ lag = 0
    BY <1>1
  <2> QED
    BY <1>3, <1>4, <2>1, <2>2 DEF SessionTypes
<1>6. \A i \in 1 .. Len(toServer) : i = 1 /\ toServer[i].type = "open_run"
  BY <1>2, <1>3
<1>7. ~Has(toServer, "chunk") /\ ~Has(toServer, "start")
  BY <1>6 DEF Has
<1>8. End(-1) = 0 /\ TargetAhead \in Nat \ {0} /\ 0 - 1 = -1
  BY <1>5, Numbers
<1>9. Tasks
  BY <1>1 DEF Tasks
<1>10. Progress
  BY <1>1, <1>4, <1>8 DEF Progress
<1>11. StopAndWait
  BY <1>1, <1>3, <1>6, <1>7 DEF StopAndWait
<1>12. Order
  BY <1>1, <1>6, <1>7 DEF Order
<1>13. CursorsInOrder
  BY <1>1, <1>3, <1>8 DEF CursorsInOrder, AcceptedUntil
<1> QED
  BY <1>5, <1>9, <1>10, <1>11, <1>12, <1>13 DEF SessionInv

\* Every step keeps the invariant.
LEMMA StepInv ==
    ASSUME SessionInv, [Next]_vars
    PROVE  SessionInv'
<1>1. CASE UNCHANGED vars
  <2>1. UNCHANGED <<times, mode, main, next, producer, receipt, seen, events, receiving,
                    toServer, toClient, link, handling, state, accepted, cursor, stop, code, lag>>
    BY <1>1 DEF vars, clientVars, netVars, serverVars
  <2>2. SessionTypes'
    BY <2>1 DEF SessionInv, SessionTypes, NumChunks
  <2>3. Tasks'
    BY <2>1 DEF SessionInv, Tasks
  <2>4. Progress'
    BY <2>1 DEF SessionInv, Progress, NumChunks, End, Enough
  <2>5. StopAndWait'
    BY <2>1 DEF SessionInv, StopAndWait, NumChunks
  <2>6. Order'
    BY <2>1 DEF SessionInv, Order, NumChunks, End, Enough
  <2>7. CursorsInOrder'
    BY <2>1 DEF SessionInv, CursorsInOrder, AcceptedUntil, End
  <2> QED
    BY <2>2, <2>3, <2>4, <2>5, <2>6, <2>7 DEF SessionInv
<1>2. CASE Client
  BY <1>2, WaitOpenedInv, UploadChunkInv, UploadAcknowledgedInv, SendStartInv, ProduceInv,
     ProduceAcknowledgedInv, ReceiveInv, ReceiverEndsInv, RunEventInv DEF Client
<1>3. CASE Server
  BY <1>3, HandleInv, ConnectionLostInv, ArmInv, TickInv DEF Server
<1>4. CASE Interrupt \/ EmergencyStop \/ Fault \/ Lose \/ Shutdown
  BY <1>4, RunEventInv, EmergencyStopInv, FaultInv, LinkEndsInv
<1> QED
  BY <1>1, <1>2, <1>3, <1>4 DEF Next

\* What is under way is acceptable to a live run.
LEMMA InvRefusesNothing ==
    ASSUME SessionInv
    PROVE  NoMessageRefused
<1> SUFFICES ASSUME FitsHorizon, toServer # << >>,
                    state \in {"buffering", "arming", "running"}
             PROVE  Accepts(Head(toServer))
  BY DEF NoMessageRefused
<1> DEFINE m == Head(toServer)
<1>1. /\ toServer \in Seq(Messages) /\ cursor \in Nat /\ mode \in {"sealed", "streaming"}
  BY DEF SessionInv, SessionTypes
<1>2. 1 \in 1 .. Len(toServer) /\ toServer[1] = m /\ m \in Messages
  BY <1>1, TailIsPiece
<1>3. m.type \in {"open_run", "chunk", "start", "cancel"}
  BY <1>2 DEF Messages
<1> HIDE DEF m
<1>4. Has(toServer, m.type)
  BY <1>2 DEF Has
<1>5. /\ next \in Nat /\ accepted \in Nat /\ NumChunks \in Nat /\ accepted <= NumChunks
      /\ TargetAhead \in Nat /\ MaxHorizon \in Nat /\ StartBuffer \in Nat
      /\ StartBuffer <= TargetAhead /\ TargetAhead <= MaxHorizon
  BY Numbers DEF SessionInv, SessionTypes
<1>6. CASE m.type = "chunk"
  <2>1. m.seq = next /\ accepted = next /\ next < NumChunks
    BY <1>2, <1>6 DEF SessionInv, StopAndWait
  <2>2. End(next) \in Nat /\ next \in 0 .. NumChunks - 1
    BY <1>5, <2>1, Numbers DEF SessionInv
  <2>3. state # "arming"
    BY <1>4, <1>6 DEF SessionInv, Order
  <2>4. ASSUME mode = "streaming" PROVE End(next) - cursor <= MaxHorizon
    <3>1. CASE End(next) - cursor <= TargetAhead
      BY <1>1, <1>5, <2>2, <3>1
    <3>2. CASE End(next - 1) < TargetAhead
      <4>1. End(next) <= MaxHorizon
        BY <2>2, <3>2 DEF FitsHorizon
      <4> QED
        BY <1>1, <1>5, <2>2, <4>1
    <3> QED
      BY <1>4, <1>6, <2>4, <3>1, <3>2 DEF SessionInv, Order
  <2> QED
    BY <1>6, <2>1, <2>3, <2>4 DEF Accepts, m
<1>7. CASE m.type = "start"
  <2>1. state = "buffering" /\ accepted >= 1 /\ Enough(accepted)
    BY <1>4, <1>7 DEF SessionInv, Order
  <2>2. accepted = NumChunks \/ (mode = "streaming" /\ End(accepted - 1) >= StartBuffer)
    <3>1. End(accepted - 1) \in Nat
      BY <1>5, <2>1, Numbers DEF SessionInv
    <3> QED
      BY <1>5, <2>1, <3>1 DEF Enough
  <2> QED
    BY <1>7, <2>1, <2>2 DEF Accepts, FinalReceived, AcceptedUntil, m
<1>8. CASE m.type \notin {"chunk", "start"}
  BY <1>8 DEF Accepts, m
<1> QED
  BY <1>6, <1>7, <1>8

\* The tasks of a session keep to their types, ends and orders.
THEOREM SessionInvariant == Spec => []SessionInv
<1>1. Init => SessionInv
  BY InitInv
<1>2. SessionInv /\ [Next]_vars => SessionInv'
  BY StepInv
<1> QED
  BY <1>1, <1>2, PTL DEF Spec

\* Whatever the program, the mode, the lookahead and the fate of the link, a message
\* that reaches a live run is accepted.
THEOREM ClientIsNeverRefused == Spec => []NoMessageRefused
<1>1. SessionInv => NoMessageRefused
  BY InvRefusesNothing
<1> QED
  BY <1>1, SessionInvariant, PTL

-----------------------------------------------------------------------------
(* While the link is up: the kinds of steps. *)

\* Neither queue nor the server is touched.
Idles ==
    /\ UNCHANGED <<times, mode, next, producer, receipt, seen, toServer, toClient, state,
                   accepted, cursor, code, lag>>
    /\ main' = main \/ (main = "opening" /\ main' = "upload")

\* The client sends a chunk or the start.
Sends ==
    /\ UNCHANGED <<times, mode, next, seen, toClient, state, accepted, cursor, code, lag>>
    /\ \/ /\ Send(Message("chunk", next)) /\ receipt' = "pending"
          /\ \/ main = "upload" /\ UNCHANGED producer
             \/ producer = "pace" /\ producer' = "receipt"
       \/ /\ Send(Message("start", 0)) /\ UNCHANGED receipt
          /\ main = "start" /\ producer' \in {"pace", "done"}

\* The client has its receipt.
Settles ==
    /\ UNCHANGED <<times, mode, seen, toServer, toClient, state, accepted, cursor, code, lag>>
    /\ receipt' = "none"
    /\ \/ receipt = "accepted" /\ producer' # "failed" /\ main \in {"receipt", "running"}
       \/ receipt = "refused" /\ main = "running" /\ UNCHANGED <<main, next>>

\* The server moves on: the queue to the client grows by events that are no refusals, the
\* last of which, at least, tells the cursor.
Moves ==
    /\ UNCHANGED <<times, mode, main, next, producer, receipt, seen, toServer, accepted>>
    /\ state \in {"arming", "running"}
    /\ \A i \in 1 .. Len(toClient) : i \in 1 .. Len(toClient') /\ toClient'[i] = toClient[i]
    /\ \A i \in 1 .. Len(toClient') :
          toClient'[i].type = "error" => i \in 1 .. Len(toClient)
    /\ \E i \in 1 .. Len(toClient') :
          toClient'[i].type \in WithCursor /\ toClient'[i].cursor = cursor'

\* A run that ends moves on.
LEMMA FinishMoves ==
    ASSUME SessionInv, link = "up", state \in {"arming", "running"},
           NEW outcome \in {"completed", "stopped", "faulted"}, NEW c, NEW at \in Nat,
           Finish(outcome, c, at)
    PROVE  Moves /\ state' = outcome /\ code' = c
<1>1. /\ UNCHANGED <<times, mode, main, next, producer, receipt, seen, toServer, accepted>>
      /\ state' = outcome /\ code' = c /\ cursor' = at
  BY DEF Finish, clientVars
<1>2. PICK es \in Seq(Events) :
         /\ Emit(es)
         /\ \A j \in 1 .. Len(es) :
               es[j].type \notin {"chunk_accepted", "error"}
               /\ (es[j].type \in WithCursor => es[j].cursor = at)
         /\ \E j \in 1 .. Len(es) : es[j].type \in WithCursor
  BY FinishEmits
<1>3. toClient \in Seq(Events)
  BY DEF SessionInv, SessionTypes
<1>4. \A i \in 1 .. Len(toClient) : i \in 1 .. Len(toClient') /\ toClient'[i] = toClient[i]
  BY <1>2, <1>3, EmitFacts
<1>5. \A i \in 1 .. Len(toClient') :
         \/ i \in 1 .. Len(toClient) /\ toClient'[i] = toClient[i]
         \/ \E j \in 1 .. Len(es) : toClient'[i] = es[j]
  BY <1>2, <1>3, EmitFacts
<1>6. \A j \in 1 .. Len(es) : \E i \in 1 .. Len(toClient') : toClient'[i] = es[j]
  BY <1>2, <1>3, EmitFacts
<1>7. \A i \in 1 .. Len(toClient') : toClient'[i].type = "error" => i \in 1 .. Len(toClient)
  BY <1>2, <1>5
<1>8. \E i \in 1 .. Len(toClient') :
         toClient'[i].type \in WithCursor /\ toClient'[i].cursor = cursor'
  <2>1. PICK j \in 1 .. Len(es) : es[j].type \in WithCursor
    BY <1>2
  <2>2. PICK i \in 1 .. Len(toClient') : toClient'[i] = es[j]
    BY <1>6, <2>1
  <2> QED
    BY <1>1, <1>2, <2>1, <2>2
<1> QED
  BY <1>1, <1>4, <1>7, <1>8 DEF Moves

\* So does one that starts its motion, and one that plays on.
LEMMA EventMoves ==
    ASSUME SessionInv, link = "up", state \in {"arming", "running"},
           NEW e \in Events, Emit(<<e>>), e.type \in WithCursor, e.cursor = cursor',
           UNCHANGED <<times, mode, main, next, producer, receipt, seen, toServer, accepted>>
    PROVE  Moves
<1>1. toClient \in Seq(Events)
  BY DEF SessionInv, SessionTypes
<1>2. /\ \A i \in 1 .. Len(toClient) :
            i \in 1 .. Len(toClient') /\ toClient'[i] = toClient[i]
      /\ \A i \in 1 .. Len(toClient') :
            \/ i \in 1 .. Len(toClient) /\ toClient'[i] = toClient[i]
            \/ toClient'[i] = e
      /\ \E i \in 1 .. Len(toClient') : toClient'[i] = e
  BY <1>1, EmitOne
<1>3. e.type # "error"
  BY DEF WithCursor
<1> QED
  BY <1>2, <1>3 DEF Moves

\* What a step can be while the link is up, and stays up.
LEMMA UpStep ==
    ASSUME SessionInv, [Next]_vars, link' = "up"
    PROVE  /\ link = "up"
           /\ \/ Idles \/ Sends \/ Settles \/ Receive \/ Handle
              \/ Arm \/ Fault \/ Tick
<1>1. ASSUME NEW how, NEW messages, LeaveWith(how, messages) PROVE FALSE
  BY <1>1 DEF LeaveWith
<1>2. CASE UNCHANGED vars
  BY <1>2 DEF Idles, vars, clientVars, netVars, serverVars
<1>3. CASE WaitOpened
  BY <1>1, <1>3 DEF WaitOpened, Idles, netVars, serverVars
<1>4. CASE UploadChunk
  BY <1>1, <1>4 DEF UploadChunk, SendChunk, Sends, serverVars
<1>5. CASE UploadAcknowledged
  <2>1. producer = "none"
    BY <1>5 DEF UploadAcknowledged, SessionInv, Tasks
  <2> QED
    BY <1>1, <1>5, <2>1 DEF UploadAcknowledged, Settles, netVars, serverVars
<1>6. CASE SendStart
  BY <1>1, <1>6 DEF SendStart, Sends, serverVars
<1>7. CASE Produce
  <2>1. link = "up" /\ receiving
    BY <1>7 DEF Produce, SessionInv, Tasks
  <2> QED
    BY <1>7, <2>1 DEF Produce, SendChunk, Sends, serverVars
<1>8. CASE ProduceAcknowledged
  <2>1. main = "running"
    BY <1>8 DEF ProduceAcknowledged, SessionInv, Tasks
  <2> QED
    BY <1>8, <2>1 DEF ProduceAcknowledged, Settles, netVars, serverVars
<1>9. CASE Receive
  BY <1>9 DEF Receive
<1>10. CASE ReceiverEnds
  BY <1>10 DEF ReceiverEnds, netVars
<1>11. CASE RunEvent
  BY <1>1, <1>11 DEF RunEvent
<1>12. CASE Interrupt
  BY <1>1, <1>12 DEF Interrupt
<1>13. CASE Handle
  BY <1>13 DEF Handle
<1>14. CASE ConnectionLost
  BY <1>14 DEF ConnectionLost, netVars
<1>15. CASE EmergencyStop
  BY <1>15 DEF EmergencyStop, Idles, clientVars, netVars
<1>16. CASE Arm
  BY <1>16 DEF Arm, Finish
<1>17. CASE Fault
  BY <1>17 DEF Fault, Finish
<1>18. CASE Tick
  BY <1>18 DEF Tick, Finish
<1>19. CASE Lose \/ Shutdown
  BY <1>19 DEF Lose, Shutdown
<1> QED
  BY <1>2, <1>3, <1>4, <1>5, <1>6, <1>7, <1>8, <1>9, <1>10, <1>11, <1>12, <1>13, <1>14,
     <1>15, <1>16, <1>17, <1>18, <1>19 DEF Next, Client, Server

\* The period that has passed counts as a delay, unless the network was quiet.
LagStep == lag' = IF lag > MaxDelay THEN lag ELSE IF Quiet THEN 0 ELSE lag + 1

\* What the control loop can do.
LEMMA LoopStep ==
    ASSUME SessionInv, link = "up", Arm \/ Fault \/ Tick
    PROVE  /\ Moves
           /\ \/ state = "arming" /\ state' = "running" /\ UNCHANGED <<cursor, code, lag>>
              \/ /\ state' \in {"completed", "stopped", "faulted"}
                 /\ code' # "BUFFER_UNDERRUN"
              \/ /\ state = "running" /\ state' = "faulted" /\ LagStep
                 /\ cursor + 1 > AcceptedUntil /\ ~FinalReceived
              \/ /\ state = "running" /\ cursor' = cursor + 1 /\ UNCHANGED <<state, code>>
                 /\ LagStep
<1>1. cursor \in Nat
  BY DEF SessionInv, SessionTypes
<1>2. AcceptedUntil \in Nat
  <2>1. accepted - 1 \in -1 .. NumChunks - 1
    BY Numbers DEF SessionInv, SessionTypes
  <2> QED
    BY <2>1, Numbers DEF SessionInv, AcceptedUntil
<1>3. CASE Arm
  <2>1. state = "arming" /\ UNCHANGED lag
    BY <1>3 DEF Arm
  <2>2. CASE stop
    <3>1. Finish("stopped", "CANCELLED", cursor)
      BY <1>3, <2>2 DEF Arm
    <3>2. Moves /\ state' = "stopped" /\ code' = "CANCELLED"
      BY <1>1, <2>1, <3>1, FinishMoves
    <3> QED
      BY <3>2
  <2>3. CASE ~stop
    <3> DEFINE e == Event("run_state", 0, cursor)
    <3>1. /\ UNCHANGED <<times, mode, main, next, producer, receipt, seen, toServer, accepted,
                         cursor, code>>
          /\ state' = "running" /\ Emit(<<e>>)
      BY <1>3, <2>3 DEF Arm, clientVars
    <3>2. e \in Events /\ e.type \in WithCursor /\ e.cursor = cursor
      BY <1>1 DEF Event, Events, EventKinds, WithCursor
    <3> HIDE DEF e
    <3>3. Moves
      BY <2>1, <3>1, <3>2, EventMoves
    <3> QED
      BY <2>1, <3>1, <3>3
  <2> QED
    BY <2>2, <2>3
<1>4. CASE Fault
  <2>1. state \in {"arming", "running"} /\ Finish("faulted", "OTHER", cursor)
    BY <1>4 DEF Fault
  <2>2. Moves /\ state' = "faulted" /\ code' = "OTHER"
    BY <1>1, <2>1, FinishMoves
  <2> QED
    BY <2>2
<1>5. CASE Tick
  <2>1. state = "running" /\ LagStep
    BY <1>5 DEF Tick, LagStep
  <2>2. CASE Finish("stopped", "CANCELLED", cursor)
    <3>1. Moves /\ state' = "stopped" /\ code' = "CANCELLED"
      BY <1>1, <2>1, <2>2, FinishMoves
    <3> QED
      BY <3>1
  <2>3. CASE Finish("completed", "NONE", AcceptedUntil)
    <3>1. Moves /\ state' = "completed" /\ code' = "NONE"
      BY <1>2, <2>1, <2>3, FinishMoves
    <3> QED
      BY <3>1
  <2>4. CASE /\ cursor + 1 > AcceptedUntil /\ ~FinalReceived
             /\ Finish("faulted", "BUFFER_UNDERRUN", cursor)
    <3>1. Moves /\ state' = "faulted" /\ code' = "BUFFER_UNDERRUN"
      BY <1>1, <2>1, <2>4, FinishMoves
    <3> QED
      BY <2>1, <2>4, <3>1
  <2>5. CASE /\ cursor' = cursor + 1
             /\ Emit(<<Event("telemetry", 0, cursor + 1)>>)
             /\ UNCHANGED <<times, mode, clientVars, toServer, link, handling, state, accepted,
                            stop, code>>
    <3> DEFINE e == Event("telemetry", 0, cursor + 1)
    <3>1. /\ UNCHANGED <<times, mode, main, next, producer, receipt, seen, toServer, accepted,
                         state, code>>
          /\ cursor' = cursor + 1 /\ Emit(<<e>>)
      BY <2>5 DEF clientVars
    <3>2. e \in Events /\ e.type \in WithCursor /\ e.cursor = cursor'
      BY <1>1, <3>1 DEF Event, Events, EventKinds, WithCursor
    <3> HIDE DEF e
    <3>3. Moves
      BY <2>1, <3>1, <3>2, EventMoves
    <3> QED
      BY <2>1, <3>1, <3>3
  <2> QED
    BY <1>5, <2>2, <2>3, <2>4, <2>5 DEF Tick
<1> QED
  BY <1>3, <1>4, <1>5

\* What the server's answer does to the queues while the link is up.
LEMMA HandleUp ==
    ASSUME SessionInv, link = "up", Handle
    PROVE  /\ UNCHANGED <<times, mode, main, next, producer, receipt, seen, cursor, code, lag>>
           /\ toServer \in Seq(Messages) /\ toServer[1] \in Messages /\ 1 \in 1 .. Len(toServer)
           /\ \A i \in 1 .. Len(toServer') :
                 i + 1 \in 1 .. Len(toServer) /\ toServer'[i] = toServer[i + 1]
           /\ \A i \in 1 .. Len(toServer) : i = 1 \/ i - 1 \in 1 .. Len(toServer')
           /\ \A i \in 1 .. Len(toClient) :
                 i \in 1 .. Len(toClient') /\ toClient'[i] = toClient[i]
           /\ \E e \in Events :
                 /\ HandledWith(toServer[1], e)
                 /\ \A i \in 1 .. Len(toClient') :
                       toClient'[i] = e \/ (i \in 1 .. Len(toClient) /\ toClient'[i] = toClient[i])
                 /\ \E i \in 1 .. Len(toClient') : toClient'[i] = e
<1>1. /\ UNCHANGED <<times, mode, main, next, producer, receipt, seen, cursor, code, lag>>
      /\ toServer[1] \in Messages /\ 1 \in 1 .. Len(toServer)
      /\ Len(toServer') = Len(toServer) - 1
      /\ \A i \in 1 .. Len(toServer') :
            i + 1 \in 1 .. Len(toServer) /\ toServer'[i] = toServer[i + 1]
  BY HandleFacts DEF SessionInv
<1>2. PICK e \in Events : Emit(<<e>>) /\ HandledWith(toServer[1], e)
  BY HandleFacts DEF SessionInv
<1>3. toClient \in Seq(Events) /\ toServer \in Seq(Messages) /\ Len(toServer) \in Nat
  BY DEF SessionInv, SessionTypes
<1>4. \A i \in 1 .. Len(toServer) : i = 1 \/ i - 1 \in 1 .. Len(toServer')
  BY <1>1, <1>3
<1>5. /\ \A i \in 1 .. Len(toClient) :
            i \in 1 .. Len(toClient') /\ toClient'[i] = toClient[i]
      /\ \A i \in 1 .. Len(toClient') :
            \/ i \in 1 .. Len(toClient) /\ toClient'[i] = toClient[i]
            \/ toClient'[i] = e
      /\ \E i \in 1 .. Len(toClient') : toClient'[i] = e
  BY <1>2, <1>3, EmitOne
<1> QED
  BY <1>1, <1>2, <1>3, <1>4, <1>5

\* What reading an event does to the queue to the client.
LEMMA ReceiveUp ==
    ASSUME SessionInv, Receive
    PROVE  /\ UNCHANGED <<times, mode, main, next, producer, toServer, state, accepted, cursor,
                          code, lag>>
           /\ toClient[1] \in Events /\ 1 \in 1 .. Len(toClient)
           /\ \A i \in 1 .. Len(toClient') :
                 i + 1 \in 1 .. Len(toClient) /\ toClient'[i] = toClient[i + 1]
           /\ \A i \in 1 .. Len(toClient) :
                 i = 1 \/ (i - 1 \in 1 .. Len(toClient') /\ toClient'[i - 1] = toClient[i])
           /\ receipt' = IF receipt = "pending" /\ toClient[1].type = "error" THEN "refused"
                         ELSE IF receipt = "pending" /\ toClient[1].type = "chunk_accepted"
                                 /\ toClient[1].seq = next THEN "accepted"
                         ELSE receipt
           /\ seen' = IF toClient[1].type \in WithCursor THEN toClient[1].cursor ELSE seen
<1>1. toClient \in Seq(Events) /\ toClient # << >> /\ Len(toClient) \in Nat
  BY DEF SessionInv, SessionTypes, Receive
<1>2. /\ Head(toClient) = toClient[1] /\ toClient[1] \in Events /\ 1 \in 1 .. Len(toClient)
      /\ Len(Tail(toClient)) = Len(toClient) - 1
      /\ \A i \in 1 .. Len(Tail(toClient)) :
            i + 1 \in 1 .. Len(toClient) /\ Tail(toClient)[i] = toClient[i + 1]
  BY <1>1, TailIsPiece
<1>3. toClient' = Tail(toClient)
  BY DEF Receive
<1>4. ASSUME NEW i \in 1 .. Len(toClient), i # 1
      PROVE  i - 1 \in 1 .. Len(toClient') /\ toClient'[i - 1] = toClient[i]
  <2>1. i - 1 \in 1 .. Len(Tail(toClient)) /\ (i - 1) + 1 = i
    BY <1>1, <1>2, <1>4
  <2> QED
    BY <1>2, <1>3, <2>1
<1>5. /\ receipt' = IF receipt = "pending" /\ toClient[1].type = "error" THEN "refused"
                    ELSE IF receipt = "pending" /\ toClient[1].type = "chunk_accepted"
                            /\ toClient[1].seq = next THEN "accepted"
                    ELSE receipt
      /\ seen' = IF toClient[1].type \in WithCursor THEN toClient[1].cursor ELSE seen
  BY <1>2 DEF Receive, CursorOf
<1>6. UNCHANGED <<times, mode, main, next, producer, toServer, state, accepted, cursor, code, lag>>
  BY DEF Receive, serverVars
<1> QED
  BY <1>2, <1>3, <1>4, <1>5, <1>6

\* An answer awaited is under way.
LEMMA AnsweredStep ==
    ASSUME SessionInv, Answered, [Next]_vars
    PROVE  Answered'
<1> SUFFICES ASSUME link' = "up", receipt' = "pending"
             PROVE  \/ Has(toServer', "chunk") \/ Has(toClient', "error")
                    \/ \E i \in 1 .. Len(toClient') :
                          toClient'[i].type = "chunk_accepted" /\ toClient'[i].seq = next'
  BY DEF Answered
<1>1. link = "up"
  BY UpStep
<1>2. CASE Idles
  BY <1>1, <1>2 DEF Idles, Answered
<1>3. CASE Sends
  <2>1. CASE Send(Message("chunk", next))
    <3> DEFINE m == Message("chunk", next)
    <3>1. m \in Messages /\ m.type = "chunk"
      BY Numbers DEF SessionInv, Message, Messages
    <3>2. toServer \in Seq(Messages) /\ Send(m)
      BY <2>1 DEF SessionInv, SessionTypes
    <3> HIDE DEF m
    <3>3. Has(toServer', m.type)
      BY <1>1, <3>1, <3>2, SendFacts
    <3> QED
      BY <3>1, <3>3
  <2>2. CASE main = "start" /\ UNCHANGED receipt
    BY <2>2 DEF SessionInv, StopAndWait
  <2> QED
    BY <1>3, <2>1, <2>2 DEF Sends
<1>4. CASE Settles
  BY <1>4 DEF Settles
<1>5. CASE Receive
  <2>1. /\ receipt = "pending" /\ toClient[1].type # "error"
        /\ ~(toClient[1].type = "chunk_accepted" /\ toClient[1].seq = next)
    BY <1>5, ReceiveUp
  <2>2. UNCHANGED <<toServer, next>>
    BY <1>5, ReceiveUp
  <2>3. \A i \in 1 .. Len(toClient) :
           i = 1 \/ (i - 1 \in 1 .. Len(toClient') /\ toClient'[i - 1] = toClient[i])
    BY <1>5, ReceiveUp
  <2>4. CASE Has(toServer, "chunk")
    BY <2>2, <2>4
  <2>5. CASE Has(toClient, "error")
    BY <2>1, <2>3, <2>5 DEF Has
  <2>6. CASE \E i \in 1 .. Len(toClient) :
                toClient[i].type = "chunk_accepted" /\ toClient[i].seq = next
    BY <2>1, <2>2, <2>3, <2>6
  <2> QED
    BY <1>1, <2>1, <2>4, <2>5, <2>6 DEF Answered
<1>6. CASE Handle
  <2>1. UNCHANGED <<receipt, next>>
    BY <1>1, <1>6, HandleUp
  <2>2. \A i \in 1 .. Len(toClient) : i \in 1 .. Len(toClient') /\ toClient'[i] = toClient[i]
    BY <1>1, <1>6, HandleUp
  <2>3. PICK e \in Events :
           /\ HandledWith(toServer[1], e)
           /\ \A i \in 1 .. Len(toClient') :
                 toClient'[i] = e \/ (i \in 1 .. Len(toClient) /\ toClient'[i] = toClient[i])
           /\ \E i \in 1 .. Len(toClient') : toClient'[i] = e
    BY <1>1, <1>6, HandleUp
  <2>4. CASE Has(toServer, "chunk")
    <3>1. PICK i \in 1 .. Len(toServer) : toServer[i].type = "chunk"
      BY <2>4 DEF Has
    <3>2. CASE i = 1
      <4>1. toServer[1].type = "chunk" /\ toServer[1].seq = next
        BY <3>1, <3>2 DEF SessionInv, StopAndWait
      <4>2. e.type = "error" \/ (e.type = "chunk_accepted" /\ e.seq = next)
        BY <2>3, <4>1 DEF HandledWith
      <4> QED
        BY <2>1, <2>3, <4>2 DEF Has
    <3>3. CASE i # 1
      <4>1. i - 1 \in 1 .. Len(toServer')
        BY <1>1, <1>6, <3>1, <3>3, HandleUp
      <4>2. toServer'[i - 1] = toServer[(i - 1) + 1] /\ (i - 1) + 1 = i
        BY <1>1, <1>6, <4>1, HandleUp
      <4> QED
        BY <3>1, <4>1, <4>2 DEF Has
    <3> QED
      BY <3>2, <3>3
  <2>5. CASE Has(toClient, "error")
    BY <2>2, <2>5 DEF Has
  <2>6. CASE \E i \in 1 .. Len(toClient) :
                toClient[i].type = "chunk_accepted" /\ toClient[i].seq = next
    BY <2>1, <2>2, <2>6
  <2> QED
    BY <1>1, <2>1, <2>4, <2>5, <2>6 DEF Answered
<1>7. CASE Arm \/ Fault \/ Tick
  <2>1. Moves
    BY <1>1, <1>7, LoopStep
  <2> QED
    BY <1>1, <2>1 DEF Moves, Answered, Has
<1> QED
  BY <1>2, <1>3, <1>4, <1>5, <1>6, <1>7, UpStep

\* What the server tells of its cursor reaches the client, or is under way.
LEMMA CursorKnownStep ==
    ASSUME SessionInv, CursorKnown, [Next]_vars
    PROVE  CursorKnown'
<1> SUFFICES ASSUME link' = "up"
             PROVE  \/ seen' = cursor'
                    \/ \E i \in 1 .. Len(toClient') :
                          toClient'[i].type \in WithCursor /\ toClient'[i].cursor = cursor'
  BY DEF CursorKnown
<1>1. link = "up"
  BY UpStep
<1>2. CASE Idles \/ Sends \/ Settles
  <2>1. UNCHANGED <<seen, cursor, toClient>>
    BY <1>2 DEF Idles, Sends, Settles
  <2> QED
    BY <1>1, <2>1 DEF CursorKnown
<1>3. CASE Receive
  <2>1. UNCHANGED cursor
    BY <1>3, ReceiveUp
  <2>2. seen' = IF toClient[1].type \in WithCursor THEN toClient[1].cursor ELSE seen
    BY <1>3, ReceiveUp
  <2>3. /\ 1 \in 1 .. Len(toClient)
        /\ \A i \in 1 .. Len(toClient) :
              i = 1 \/ (i - 1 \in 1 .. Len(toClient') /\ toClient'[i - 1] = toClient[i])
    BY <1>3, ReceiveUp
  <2>4. CASE seen = cursor
    <3>1. CASE toClient[1].type \in WithCursor
      <4>1. seen <= toClient[1].cursor /\ toClient[1].cursor <= cursor
        BY <2>3, <3>1 DEF SessionInv, CursorsInOrder
      <4>2. seen \in Nat /\ toClient[1].cursor \in Nat
        BY <1>3, ReceiveUp DEF SessionInv, SessionTypes, Events
      <4> QED
        BY <2>1, <2>2, <2>4, <3>1, <4>1, <4>2
    <3> QED
      BY <2>1, <2>2, <2>4, <3>1
  <2>5. CASE \E i \in 1 .. Len(toClient) :
                toClient[i].type \in WithCursor /\ toClient[i].cursor = cursor
    BY <2>1, <2>2, <2>3, <2>5
  <2> QED
    BY <1>1, <2>4, <2>5 DEF CursorKnown
<1>4. CASE Handle
  <2>1. UNCHANGED <<seen, cursor>>
    BY <1>1, <1>4, HandleUp
  <2>2. \A i \in 1 .. Len(toClient) : i \in 1 .. Len(toClient') /\ toClient'[i] = toClient[i]
    BY <1>1, <1>4, HandleUp
  <2> QED
    BY <1>1, <2>1, <2>2 DEF CursorKnown
<1>5. CASE Arm \/ Fault \/ Tick
  <2>1. Moves
    BY <1>1, <1>5, LoopStep
  <2> QED
    BY <2>1 DEF Moves
<1> QED
  BY <1>2, <1>3, <1>4, <1>5, UpStep

\* A message at the head of the queue that is refused finds no run that could play.
LEMMA RefusedMessage ==
    ASSUME SessionInv, link = "up", Handle, UNCHANGED <<state, accepted>>,
           toServer[1].type = "open_run" \/ ~Accepts(toServer[1])
    PROVE  RunIsOver'
<1> DEFINE m == toServer[1]
<1>1. /\ UNCHANGED <<main, next, receipt>> /\ m \in Messages /\ 1 \in 1 .. Len(toServer)
      /\ toServer \in Seq(Messages)
      /\ \A i \in 1 .. Len(toServer') :
            i + 1 \in 1 .. Len(toServer) /\ toServer'[i] = toServer[i + 1]
  BY HandleUp
<1>2. m.type \in {"open_run", "chunk", "start", "cancel"} /\ Has(toServer, m.type)
  BY <1>1 DEF Messages, Has
<1>3. ~Has(toServer', "open_run")
  <2>1. \A i \in 1 .. Len(toServer) : toServer[i].type = "open_run" => i = 1
    BY DEF SessionInv, Order
  <2>2. \A i \in 1 .. Len(toServer') : i + 1 # 1
    OBVIOUS
  <2> QED
    BY <1>1, <2>1, <2>2 DEF Has
<1>4. /\ state \in {"none", "buffering", "arming", "running", "completed", "stopped", "faulted"}
      /\ mode \in {"sealed", "streaming"} /\ cursor \in Nat
  BY DEF SessionInv, SessionTypes
<1>5. /\ next \in Nat /\ accepted \in Nat /\ NumChunks \in Nat /\ accepted <= NumChunks
      /\ TargetAhead \in Nat /\ MaxHorizon \in Nat /\ StartBuffer \in Nat
      /\ StartBuffer <= TargetAhead /\ TargetAhead <= MaxHorizon
  BY Numbers DEF SessionInv, SessionTypes
<1>6. CASE m.type = "open_run"
  <2>1. state = "none"
    BY <1>1, <1>6 DEF SessionInv, Order
  <2> QED
    BY <1>3, <2>1 DEF RunIsOver
<1>7. CASE m.type = "chunk"
  <2>1. m.seq = next /\ accepted = next /\ next < NumChunks
    BY <1>1, <1>7 DEF SessionInv, StopAndWait
  <2>2. state # "arming"
    BY <1>2, <1>7 DEF SessionInv, Order
  <2>3. CASE state \in {"none", "completed", "stopped", "faulted"}
    BY <1>3, <2>3 DEF RunIsOver
  <2>4. CASE state \in {"buffering", "running"}
    <3>1. mode = "streaming" /\ ~(End(next) - cursor <= MaxHorizon)
      BY <1>7, <2>1, <2>4 DEF Accepts
    <3>2. End(next) \in Nat
      BY <1>5, <2>1, Numbers DEF SessionInv
    <3>3. ~(End(next) - cursor <= TargetAhead)
      BY <1>4, <1>5, <3>1, <3>2
    <3>4. main \in {"receipt", "failed"}
      BY <1>2, <1>7, <3>3 DEF SessionInv, Order
    <3>5. main = "receipt"
      BY <3>4 DEF SessionInv, Tasks
    <3>6. receipt # "accepted"
      BY <1>5, <2>1 DEF SessionInv, StopAndWait
    <3>7. ~Has(toServer', "chunk")
      <4>1. \A i \in 1 .. Len(toServer) : toServer[i].type = "chunk" => i = 1
        BY <1>1, <1>7 DEF SessionInv, StopAndWait
      <4>2. \A i \in 1 .. Len(toServer') : i + 1 # 1
        OBVIOUS
      <4> QED
        BY <1>1, <4>1, <4>2 DEF Has
    <3> QED
      BY <1>1, <2>1, <3>5, <3>6, <3>7 DEF RunIsOver
  <2> QED
    BY <1>4, <2>2, <2>3, <2>4
<1>8. CASE m.type = "start"
  <2>1. state \in {"none", "buffering"} /\ accepted >= 1 /\ Enough(accepted)
    BY <1>2, <1>8 DEF SessionInv, Order
  <2>2. accepted = NumChunks \/ (mode = "streaming" /\ End(accepted - 1) >= StartBuffer)
    <3>1. End(accepted - 1) \in Nat
      BY <1>5, <2>1, Numbers DEF SessionInv
    <3> QED
      BY <1>5, <2>1, <3>1 DEF Enough
  <2>3. state = "none"
    BY <1>8, <2>1, <2>2 DEF Accepts, FinalReceived, AcceptedUntil
  <2> QED
    BY <1>3, <2>3 DEF RunIsOver
<1>9. CASE m.type = "cancel"
  BY <1>9 DEF Accepts
<1> QED
  BY <1>2, <1>6, <1>7, <1>8, <1>9

\* A run whose client was refused something stays one that cannot play.
LEMMA RefusalsStep ==
    ASSUME SessionInv, Refusals, [Next]_vars
    PROVE  Refusals'
<1> SUFFICES ASSUME link' = "up", Refused'
             PROVE  RunIsOver'
  BY DEF Refusals
<1>1. link = "up"
  BY UpStep
<1>2. Refused => RunIsOver
  BY <1>1 DEF Refusals
<1>3. CASE Idles
  BY <1>2, <1>3 DEF Idles, Refused, RunIsOver
<1>4. CASE Sends
  <2>1. Refused
    BY <1>4 DEF Sends, Refused
  <2>2. main # "receipt"
    BY <1>4 DEF Sends, SessionInv, Tasks
  <2>3. PICK m \in Messages : Send(m) /\ m.type \in {"chunk", "start"}
    <3>1. /\ Message("chunk", next) \in Messages /\ Message("chunk", next).type = "chunk"
          /\ Message("start", 0) \in Messages /\ Message("start", 0).type = "start"
      BY Numbers DEF SessionInv, Message, Messages
    <3> QED
      BY <1>4, <3>1 DEF Sends
  <2>4. toServer \in Seq(Messages)
    BY DEF SessionInv, SessionTypes
  <2>5. Has(toServer', "open_run") <=> Has(toServer, "open_run")
    BY <2>3, <2>4, SendFacts
  <2>6. UNCHANGED state
    BY <1>4 DEF Sends
  <2> QED
    BY <1>2, <2>1, <2>2, <2>5, <2>6 DEF RunIsOver
<1>5. CASE Settles
  <2>1. Refused
    BY <1>5 DEF Settles, Refused
  <2>2. ~(main = "receipt" /\ receipt # "accepted")
    BY <1>5 DEF Settles
  <2>3. UNCHANGED <<state, toServer>>
    BY <1>5 DEF Settles
  <2> QED
    BY <1>2, <2>1, <2>2, <2>3 DEF RunIsOver
<1>6. CASE Receive
  <2>1. UNCHANGED <<main, next, producer, toServer, state, accepted>>
    BY <1>6, ReceiveUp
  <2>2. 1 \in 1 .. Len(toClient)
    BY <1>6, ReceiveUp
  <2>3. Has(toClient', "error") => Has(toClient, "error")
    BY <1>6, ReceiveUp DEF Has
  <2>4. receipt' = "refused" => receipt = "refused" \/ Has(toClient, "error")
    BY <1>6, <2>2, ReceiveUp DEF Has
  <2>5. RunIsOver
    BY <1>2, <2>1, <2>3, <2>4 DEF Refused
  <2>6. receipt' = "accepted" => receipt = "accepted"
           \/ (toClient[1].type = "chunk_accepted" /\ toClient[1].seq = next)
    BY <1>6, ReceiveUp
  <2>7. receipt' = "accepted" => accepted = next + 1
    BY <2>2, <2>6 DEF SessionInv, StopAndWait
  <2>8. next \in Nat
    BY Numbers DEF SessionInv
  <2> QED
    BY <2>1, <2>5, <2>7, <2>8 DEF RunIsOver
<1>7. CASE Handle
  <2>1. UNCHANGED <<main, next, producer, receipt>>
    BY <1>1, <1>7, HandleUp
  <2>2. \A k : Has(toServer', k) => Has(toServer, k)
    BY <1>1, <1>7, HandleUp, SMTT(30) DEF Has
  <2>3. PICK e \in Events :
           /\ HandledWith(toServer[1], e)
           /\ \A i \in 1 .. Len(toClient') :
                 toClient'[i] = e \/ (i \in 1 .. Len(toClient) /\ toClient'[i] = toClient[i])
           /\ \E i \in 1 .. Len(toClient') : toClient'[i] = e
    BY <1>1, <1>7, HandleUp
  <2>4. CASE Refused
    <3>1. Has(toServer, toServer[1].type) /\ 1 \in 1 .. Len(toServer)
      BY <1>1, <1>7, HandleUp DEF Has
    <3>2. RunIsOver
      BY <1>2, <2>4
    <3>3. CASE state \in {"completed", "stopped", "faulted"}
      <4>1. toServer[1].type # "open_run"
        BY <3>1, <3>3 DEF SessionInv, Order
      <4>2. ~(toServer[1].type = "start" /\ Accepts(toServer[1]))
        BY <3>3 DEF Accepts
      <4>3. state' = state
        BY <2>3, <4>1, <4>2 DEF HandledWith
      <4> QED
        BY <3>3, <4>3 DEF RunIsOver
    <3>4. CASE state = "none" /\ ~Has(toServer, "open_run")
      <4>1. toServer[1].type # "open_run"
        BY <3>1, <3>4
      <4>2. ~(toServer[1].type = "start" /\ Accepts(toServer[1]))
        BY <3>4 DEF Accepts
      <4>3. state' = state
        BY <2>3, <4>1, <4>2 DEF HandledWith
      <4> QED
        BY <2>2, <3>4, <4>3 DEF RunIsOver
    <3>5. CASE /\ main = "receipt" /\ accepted = next /\ receipt # "accepted"
               /\ ~Has(toServer, "chunk")
      <4>1. toServer[1].type # "chunk"
        BY <3>1, <3>5
      <4>2. accepted' = accepted
        BY <2>3, <4>1 DEF HandledWith
      <4> QED
        BY <2>1, <2>2, <3>5, <4>2 DEF RunIsOver
    <3> QED
      BY <3>2, <3>3, <3>4, <3>5 DEF RunIsOver
  <2>5. CASE ~Refused
    <3>1. Has(toClient', "error") /\ ~Has(toClient, "error")
      BY <2>1, <2>5 DEF Refused
    <3>2. e.type = "error"
      BY <2>3, <3>1 DEF Has
    <3>3. /\ UNCHANGED <<state, accepted>>
          /\ toServer[1].type = "open_run" \/ ~Accepts(toServer[1])
      BY <2>3, <3>2 DEF HandledWith
    <3> QED
      BY <1>1, <1>7, <3>3, RefusedMessage
  <2> QED
    BY <2>4, <2>5
<1>8. CASE Arm \/ Fault \/ Tick
  <2>1. Moves
    BY <1>1, <1>8, LoopStep
  <2>2. Refused
    BY <2>1 DEF Moves, Refused, Has
  <2>3. FALSE
    BY <1>2, <2>1, <2>2 DEF Moves, RunIsOver, SessionInv, Order
  <2> QED
    BY <2>3
<1> QED
  BY <1>3, <1>4, <1>5, <1>6, <1>7, <1>8, UpStep

-----------------------------------------------------------------------------
(* While the link is up: the reserve. *)

\* When nothing is under way, the producer waits for the cursor to move, and it waits only
\* while the server has more than the delay in its buffer.
LEMMA QuietReserve ==
    ASSUME SessionInv, PunctualInv, ShortChunks, Quiet, link = "up", state = "running",
           ~FinalReceived
    PROVE  AcceptedUntil - cursor > MaxDelay
<1>1. /\ toServer = << >> /\ toClient = << >> /\ receipt \in {"none", "pending"}
      /\ producer = "pace" => ~MayProduce
  BY DEF Quiet
<1>2. 1 .. Len(toServer) = {} /\ 1 .. Len(toClient) = {}
  BY <1>1
<1>3. ~Has(toServer, "chunk") /\ ~Has(toClient, "error")
  BY <1>2 DEF Has
<1>4. main = "running"
  BY DEF SessionInv, SessionTypes, Tasks, Order
<1>5. producer \in {"pace", "receipt", "done", "failed"}
  BY <1>4 DEF SessionInv, SessionTypes, Tasks
<1>6. producer # "done"
  BY DEF SessionInv, Progress, StopAndWait, FinalReceived
<1>7. producer # "failed"
  BY <1>4 DEF PunctualInv, Refusals, Refused, RunIsOver
<1>8. producer # "receipt"
  <2>1. SUFFICES ASSUME producer = "receipt" PROVE FALSE
    OBVIOUS
  <2>2. receipt = "pending"
    BY <1>1, <2>1 DEF SessionInv, Tasks
  <2> QED
    BY <1>2, <1>3, <2>2 DEF PunctualInv, Answered
<1>9. producer = "pace" /\ ~(End(next) - seen <= TargetAhead)
  BY <1>1, <1>5, <1>6, <1>7, <1>8 DEF MayProduce
<1>10. seen = cursor
  BY <1>2 DEF PunctualInv, CursorKnown
<1>11. next >= 1 /\ next < NumChunks /\ accepted = next
  BY <1>9 DEF SessionInv, Progress, StopAndWait
<1>12. next \in 1 .. NumChunks - 1 /\ next - 1 \in -1 .. NumChunks - 1
  BY <1>11, Numbers DEF SessionInv
<1>13. End(next) - End(next - 1) <= TargetAhead - MaxDelay
  BY <1>12 DEF ShortChunks
<1>14. /\ End(next) \in Nat /\ End(next - 1) \in Nat /\ cursor \in Nat
       /\ TargetAhead \in Nat /\ MaxDelay \in Nat
  BY <1>12, Numbers DEF SessionInv, SessionTypes
<1>15. AcceptedUntil = End(next - 1)
  BY <1>11 DEF AcceptedUntil
<1> HIDE DEF End, AcceptedUntil
<1> QED
  BY <1>9, <1>10, <1>13, <1>14, <1>15

\* A stream is started with the whole lookahead in the buffer.
LEMMA ArmedReserve ==
    ASSUME SessionInv, ShortChunks, state = "arming", ~FinalReceived
    PROVE  AcceptedUntil - cursor >= MaxDelay
<1>1. cursor = 0 /\ accepted >= 1 /\ End(accepted - 1) >= TargetAhead
  BY DEF SessionInv, Order, Enough, FinalReceived
<1>2. accepted \in 1 .. NumChunks - 1 /\ accepted - 1 \in -1 .. NumChunks - 1
  BY <1>1, Numbers DEF SessionInv, SessionTypes, FinalReceived
<1>3. /\ End(accepted) - End(accepted - 1) <= TargetAhead - MaxDelay
      /\ End(accepted - 1) < End(accepted)
  BY <1>2, Numbers DEF ShortChunks, SessionInv
<1>4. /\ End(accepted) \in Nat /\ End(accepted - 1) \in Nat
      /\ TargetAhead \in Nat /\ MaxDelay \in Nat
  BY <1>2, Numbers DEF SessionInv
<1> QED
  BY <1>1, <1>3, <1>4 DEF AcceptedUntil

\* A message handled takes nothing out of the buffer.
LEMMA HandleReserve ==
    ASSUME SessionInv, link = "up", Handle, state' = "running", ~FinalReceived'
    PROVE  /\ state = "running" /\ ~FinalReceived
           /\ AcceptedUntil \in Nat /\ AcceptedUntil' \in Nat /\ AcceptedUntil <= AcceptedUntil'
<1>1. UNCHANGED times /\ 1 \in 1 .. Len(toServer)
  BY HandleUp
<1>2. PICK e \in Events : HandledWith(toServer[1], e)
  BY HandleUp
<1>3. state = "running"
  BY <1>2 DEF HandledWith
<1>4. /\ accepted \in 0 .. NumChunks /\ NumChunks \in Nat /\ NumChunks' = NumChunks
      /\ \A k \in -1 .. NumChunks - 1 : End(k) \in Nat
      /\ End(-1) = 0
      /\ \A k \in 1 .. NumChunks - 1 : End(k - 1) < End(k)
  BY <1>1, Numbers DEF SessionInv, SessionTypes, NumChunks
<1>5. \A k : ChunkEnd(times, k) = End(k)
  BY DEF End
<1>6. AcceptedUntil = End(accepted - 1) /\ AcceptedUntil' = ChunkEnd(times, accepted' - 1)
  BY <1>1 DEF AcceptedUntil, End
<1> HIDE DEF AcceptedUntil
<1>7. CASE accepted' = accepted
  <2>1. accepted - 1 \in -1 .. NumChunks - 1 /\ accepted - 1 \in Int
    BY <1>4
  <2>2. AcceptedUntil' = End(accepted - 1) /\ End(accepted - 1) \in Nat
    BY <1>4, <1>5, <1>6, <1>7, <2>1
  <2> QED
    BY <1>3, <1>4, <1>6, <1>7, <2>2 DEF FinalReceived
<1>8. CASE accepted' = accepted + 1 /\ toServer[1].type = "chunk"
  <2>1. accepted < NumChunks
    BY <1>1, <1>8 DEF SessionInv, StopAndWait
  <2>2. /\ accepted - 1 \in -1 .. NumChunks - 1 /\ accepted \in -1 .. NumChunks - 1
        /\ (accepted + 1) - 1 = accepted /\ accepted \in Int
    BY <1>4, <2>1
  <2>3. AcceptedUntil' = End(accepted)
    BY <1>5, <1>6, <1>8, <2>2
  <2>4. End(accepted - 1) <= End(accepted)
    <3>1. CASE accepted = 0
      <4>1. accepted - 1 = -1
        BY <3>1
      <4> QED
        BY <1>4, <2>2, <4>1
    <3>2. CASE accepted # 0
      <4>1. accepted \in 1 .. NumChunks - 1
        BY <1>4, <2>1, <3>2
      <4> QED
        BY <1>4, <2>2, <4>1
    <3> QED
      BY <3>1, <3>2
  <2> QED
    BY <1>3, <1>4, <1>6, <2>1, <2>2, <2>3, <2>4 DEF FinalReceived
<1> QED
  BY <1>2, <1>7, <1>8 DEF HandledWith

\* The short chunks of a program stay short.
LEMMA SameProgram ==
    ASSUME UNCHANGED times
    PROVE  /\ ShortChunks' <=> ShortChunks
           /\ UNCHANGED accepted => (FinalReceived' <=> FinalReceived)
           /\ UNCHANGED accepted => AcceptedUntil' = AcceptedUntil
<1>1. NumChunks' = NumChunks /\ \A k : End(k)' = End(k)
  BY DEF NumChunks, End
<1> QED
  BY <1>1 DEF ShortChunks, FinalReceived, AcceptedUntil

\* The reserve and the delay use each other up.
LEMMA ReserveStep ==
    ASSUME SessionInv, PunctualInv, [Next]_vars
    PROVE  Reserve'
<1> SUFFICES ASSUME ShortChunks', link' = "up", lag' <= MaxDelay, state' = "running",
                    ~FinalReceived'
             PROVE  AcceptedUntil' - cursor' >= MaxDelay - lag'
  BY DEF Reserve
<1>1. link = "up"
  BY UpStep
<1>2. cursor \in Nat /\ lag \in Nat /\ MaxDelay \in Nat
  BY SessionAssumption DEF SessionInv, SessionTypes
<1>3. AcceptedUntil \in Nat
  <2>1. accepted - 1 \in -1 .. NumChunks - 1
    BY Numbers DEF SessionInv, SessionTypes
  <2> QED
    BY <2>1, Numbers DEF SessionInv, AcceptedUntil
<1>4. ASSUME ShortChunks, lag <= MaxDelay, state = "running", ~FinalReceived
      PROVE  AcceptedUntil - cursor >= MaxDelay - lag
  BY <1>1, <1>4 DEF PunctualInv, Reserve
<1>5. CASE Idles \/ Sends \/ Settles \/ Receive
  <2>1. UNCHANGED <<times, state, accepted, cursor, lag>>
    BY <1>5, ReceiveUp DEF Idles, Sends, Settles
  <2>2. ShortChunks /\ ~FinalReceived /\ AcceptedUntil' = AcceptedUntil
    BY <2>1, SameProgram
  <2> QED
    BY <1>4, <2>1, <2>2
<1>6. CASE Handle
  <2>1. UNCHANGED <<times, cursor, lag>>
    BY <1>1, <1>6, HandleUp
  <2>2. ShortChunks
    BY <2>1, SameProgram
  <2>3. /\ state = "running" /\ ~FinalReceived
        /\ AcceptedUntil' \in Nat /\ AcceptedUntil <= AcceptedUntil'
    BY <1>1, <1>6, HandleReserve
  <2>4. lag <= MaxDelay /\ cursor' = cursor /\ lag' = lag
    BY <2>1
  <2>5. AcceptedUntil - cursor >= MaxDelay - lag
    BY <1>4, <2>2, <2>3, <2>4
  <2>6. AcceptedUntil' - cursor >= MaxDelay - lag
    <3>1. \A a, b, c, d, l \in Nat : a - c >= d - l /\ a <= b => b - c >= d - l
      OBVIOUS
    <3> QED
      BY <1>2, <1>3, <2>3, <2>5, <3>1
  <2> QED
    BY <2>4, <2>6
<1>7. CASE Arm \/ Fault \/ Tick
  <2>1. UNCHANGED <<times, accepted>>
    BY <1>1, <1>7, LoopStep DEF Moves
  <2>2. ShortChunks /\ ~FinalReceived /\ AcceptedUntil' = AcceptedUntil
    BY <2>1, SameProgram
  <2>3. CASE state = "arming" /\ UNCHANGED <<cursor, code, lag>>
    <3>1. AcceptedUntil - cursor >= MaxDelay
      BY <2>2, <2>3, ArmedReserve
    <3> QED
      BY <1>2, <1>3, <2>2, <2>3, <3>1
  <2>4. CASE state = "running" /\ cursor' = cursor + 1 /\ LagStep
    <3>1. lag <= MaxDelay /\ lag' = IF Quiet THEN 0 ELSE lag + 1
      BY <1>2, <2>4 DEF LagStep
    <3>2. CASE Quiet
      <4>1. AcceptedUntil - cursor > MaxDelay
        BY <1>1, <2>2, <2>4, <3>2, QuietReserve
      <4> QED
        BY <1>2, <1>3, <2>2, <2>4, <3>1, <3>2, <4>1
    <3>3. CASE ~Quiet
      <4>1. AcceptedUntil - cursor >= MaxDelay - lag
        BY <1>4, <2>2, <2>4, <3>1
      <4> QED
        BY <1>2, <1>3, <2>2, <2>4, <3>1, <3>3, <4>1
    <3> QED
      BY <3>2, <3>3
  <2> QED
    BY <1>1, <1>7, <2>3, <2>4, LoopStep
<1> QED
  BY <1>5, <1>6, <1>7, UpStep

\* So the control loop finds the buffer empty only after a longer delay.
LEMMA KeepsAheadStep ==
    ASSUME SessionInv, PunctualInv, KeepsAhead, [Next]_vars
    PROVE  KeepsAhead'
<1> SUFFICES ASSUME ShortChunks', link' = "up", lag' <= MaxDelay
             PROVE  code' # "BUFFER_UNDERRUN"
  BY DEF KeepsAhead
<1>1. link = "up"
  BY UpStep
<1>2. cursor \in Nat /\ lag \in Nat /\ MaxDelay \in Nat
  BY SessionAssumption DEF SessionInv, SessionTypes
<1>3. AcceptedUntil \in Nat
  <2>1. accepted - 1 \in -1 .. NumChunks - 1
    BY Numbers DEF SessionInv, SessionTypes
  <2> QED
    BY <2>1, Numbers DEF SessionInv, AcceptedUntil
<1>4. CASE Idles \/ Sends \/ Settles \/ Receive \/ Handle
  <2>1. UNCHANGED <<times, code, lag>>
    BY <1>1, <1>4, ReceiveUp, HandleUp DEF Idles, Sends, Settles
  <2>2. ShortChunks
    BY <2>1, SameProgram
  <2> QED
    BY <1>1, <2>1, <2>2 DEF KeepsAhead
<1>5. CASE Arm \/ Fault \/ Tick
  <2>1. UNCHANGED times
    BY <1>1, <1>5, LoopStep DEF Moves
  <2>2. ShortChunks
    BY <2>1, SameProgram
  <2>3. CASE UNCHANGED <<code, lag>>
    BY <1>1, <2>2, <2>3 DEF KeepsAhead
  <2>4. CASE LagStep /\ UNCHANGED code
    <3>1. lag <= MaxDelay
      BY <1>2, <2>4 DEF LagStep
    <3> QED
      BY <1>1, <2>2, <2>4, <3>1 DEF KeepsAhead
  <2>5. CASE state = "running" /\ LagStep /\ cursor + 1 > AcceptedUntil /\ ~FinalReceived
    <3>1. lag <= MaxDelay /\ lag' = IF Quiet THEN 0 ELSE lag + 1
      BY <1>2, <2>5 DEF LagStep
    <3>2. ~Quiet
      <4>1. Quiet => AcceptedUntil - cursor > MaxDelay
        BY <1>1, <2>2, <2>5, QuietReserve
      <4> QED
        BY <1>2, <1>3, <2>5, <4>1
    <3>3. AcceptedUntil - cursor >= MaxDelay - lag
      BY <1>1, <2>2, <2>5, <3>1 DEF PunctualInv, Reserve
    <3>4. FALSE
      BY <1>2, <1>3, <2>5, <3>1, <3>2, <3>3
    <3> QED
      BY <3>4
  <2> QED
    BY <1>1, <1>5, <2>3, <2>4, <2>5, LoopStep
<1> QED
  BY <1>4, <1>5, UpStep

\* A session starts with nothing to answer and nothing played.
LEMMA PunctualInit ==
    ASSUME Init
    PROVE  PunctualInv /\ KeepsAhead
<1>1. /\ receipt = "none" /\ producer = "none" /\ seen = 0 /\ cursor = 0
      /\ toClient = << >> /\ state = "none" /\ code = "NONE"
  BY DEF Init
<1>2. 1 .. Len(toClient) = {}
  BY <1>1
<1>3. ~Has(toClient, "error")
  BY <1>2 DEF Has
<1> QED
  BY <1>1, <1>3 DEF PunctualInv, KeepsAhead, Answered, Refusals, Refused, CursorKnown, Reserve

\* While the link is up every answer and every cursor reaches the client, and the buffer
\* holds as much as the delay that may still come.
THEOREM PunctualInvariant == Spec => []PunctualInv
<1>1. Init => PunctualInv
  BY PunctualInit
<1>2. SessionInv /\ PunctualInv /\ [Next]_vars => PunctualInv'
  BY AnsweredStep, RefusalsStep, CursorKnownStep, ReserveStep DEF PunctualInv
<1> QED
  BY <1>1, <1>2, SessionInvariant, PTL DEF Spec

\* However the chunks, answers and telemetry interleave, and wherever the delays fall, a
\* stream of short chunks does not run dry while the client is connected and no answer
\* takes longer than MaxDelay.
THEOREM ClientKeepsAhead == Spec => []KeepsAhead
<1>1. Init => KeepsAhead
  BY PunctualInit
<1>2. SessionInv /\ PunctualInv /\ KeepsAhead /\ [Next]_vars => KeepsAhead'
  BY KeepsAheadStep
<1> QED
  BY <1>1, <1>2, SessionInvariant, PunctualInvariant, PTL DEF Spec

=============================================================================
