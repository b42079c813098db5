-------------------------- MODULE RunJournalProofs --------------------------
(***************************************************************************)
(* The journal keeps what it has acknowledged, and no run in two           *)
(* processes, for any number of runs, appends and restarts.                *)
(***************************************************************************)
EXTENDS RunJournal, SequenceTheorems, NumberInduction

Frames == [run : Runs, seq : Nat, item : Nat, boot : Nat]

Tables == [Runs -> Seq(Nat)]

\* Every variable has its type, and no more is synced than was written.
TypeOK ==
    /\ fsync \in BOOLEAN
    /\ header \in {"none", "torn", "whole"}
    /\ file \in Seq(Frames) /\ torn \in BOOLEAN /\ buffer \in Seq(Frames)
    /\ synced \in Nat /\ synced <= Len(file)
    /\ status \in {"down", "open", "closed", "corrupt"}
    /\ events \in Tables /\ recovered \in SUBSET Runs /\ acked \in Tables
    /\ attempts \in Nat /\ boot \in Nat /\ powerLost \in BOOLEAN

-----------------------------------------------------------------------------
(* What _load collects. *)

\* One turn of its loop.
Add(table, f) == [table EXCEPT ![f.run] = Append(@, f.item)]

\* A turn adds one event to one run.
LEMMA AddEvent ==
    ASSUME NEW table \in Tables, NEW f \in Frames
    PROVE  /\ Add(table, f) \in Tables
           /\ Add(table, f)[f.run] = Append(table[f.run], f.item)
           /\ \A r \in Runs \ {f.run} : Add(table, f)[r] = table[r]
<1>1. f.run \in Runs /\ f.item \in Nat
  BY DEF Frames
<1>2. Append(table[f.run], f.item) \in Seq(Nat)
  BY <1>1 DEF Tables
<1> QED
  BY <1>1, <1>2 DEF Add, Tables

\* The loop has tables to go through, however long the file is.
LEMMA TablesExist ==
    ASSUME NEW s \in Seq(Frames)
    PROVE  \E T \in [0 .. Len(s) -> Tables] :
              T[0] = NoEvents /\ \A n \in 1 .. Len(s) : T[n] = Add(T[n - 1], s[n])
<1> DEFINE Good(m, T) == T[0] = NoEvents /\ \A n \in 1 .. m : T[n] = Add(T[n - 1], s[n])
           S == {m \in 0 .. Len(s) : \E T \in [0 .. m -> Tables] : Good(m, T)}
<1>1. Len(s) \in Nat /\ 0 \in Nat
  OBVIOUS
<1>2. 0 \in S
  <2>1. NoEvents \in Tables
    BY DEF NoEvents, Tables
  <2>2. PICK T \in [0 .. 0 -> Tables] : T = [i \in 0 .. 0 |-> NoEvents]
    BY <2>1
  <2>3. Good(0, T) /\ 0 \in 0 .. Len(s)
    BY <1>1, <2>2
  <2> QED
    BY <2>3
<1>3. ASSUME NEW m \in 0 .. Len(s) - 1, m \in S PROVE m + 1 \in S
  <2>1. PICK T \in [0 .. m -> Tables] : Good(m, T)
    BY <1>3
  <2>2. m \in Nat /\ m + 1 \in 1 .. Len(s) /\ s[m + 1] \in Frames /\ T[m] \in Tables
    BY <1>1
  <2> DEFINE U == [n \in 0 .. m + 1 |-> IF n = m + 1 THEN Add(T[m], s[m + 1]) ELSE T[n]]
  <2>3. Add(T[m], s[m + 1]) \in Tables
    BY <2>2, AddEvent
  <2>4. U \in [0 .. m + 1 -> Tables]
    BY <2>2, <2>3
  <2>5. ASSUME NEW n \in 1 .. m + 1 PROVE U[n] = Add(U[n - 1], s[n])
    <3>1. CASE n = m + 1
      BY <2>2, <3>1
    <3>2. CASE n \in 1 .. m
      BY <2>1, <2>2, <3>2
    <3> QED
      BY <2>2, <3>1, <3>2
  <2>6. U[0] = NoEvents
    BY <2>1, <2>2
  <2> HIDE DEF U
  <2>7. Good(m + 1, U)
    BY <2>5, <2>6
  <2> QED
    BY <2>2, <2>4, <2>7
<1> HIDE DEF S
<1>4. \A i \in 0 .. Len(s) : i \in S
  BY <1>1, <1>2, <1>3, IntervalInduction
<1>5. Len(s) \in S
  BY <1>1, <1>4
<1> QED
  BY <1>5 DEF S

\* Collected goes through them.
LEMMA CollectedTables ==
    ASSUME NEW s \in Seq(Frames)
    PROVE  /\ Collected(s)[0] = NoEvents
           /\ \A n \in 1 .. Len(s) : Collected(s)[n] = Add(Collected(s)[n - 1], s[n])
           /\ \A n \in 0 .. Len(s) : Collected(s)[n] \in Tables
<1> DEFINE Loop(T) == [n \in 0 .. Len(s) |-> IF n = 0 THEN NoEvents ELSE Add(T[n - 1], s[n])]
           C == Collected(s)
<1>1. PICK T \in [0 .. Len(s) -> Tables] :
              T[0] = NoEvents /\ \A n \in 1 .. Len(s) : T[n] = Add(T[n - 1], s[n])
  BY TablesExist
<1>2. T = Loop(T)
  BY <1>1
<1>3. C = CHOOSE U : U = Loop(U)
  BY DEF Collected, Add
<1>4. C = Loop(C)
  BY <1>2, <1>3
<1>a. \A U : Loop(U)[0] = NoEvents /\ \A n \in 1 .. Len(s) : Loop(U)[n] = Add(U[n - 1], s[n])
  OBVIOUS
<1> HIDE DEF C, Loop
<1>5. C[0] = NoEvents /\ \A n \in 1 .. Len(s) : C[n] = Add(C[n - 1], s[n])
  BY <1>4, <1>a
<1> DEFINE S == {n \in 0 .. Len(s) : C[n] \in Tables}
<1>6. Len(s) \in Nat /\ 0 \in Nat
  OBVIOUS
<1>7. 0 \in S
  <2>1. NoEvents \in Tables
    BY DEF NoEvents, Tables
  <2> QED
    BY <1>5, <1>6, <2>1
<1>8. ASSUME NEW m \in 0 .. Len(s) - 1, m \in S PROVE m + 1 \in S
  <2>1. m + 1 \in 1 .. Len(s) /\ (m + 1) - 1 = m /\ s[m + 1] \in Frames /\ C[m] \in Tables
    BY <1>6, <1>8
  <2>2. C[m + 1] = Add(C[m], s[m + 1])
    BY <1>5, <2>1
  <2>3. Add(C[m], s[m + 1]) \in Tables
    BY <2>1, AddEvent
  <2> QED
    BY <2>1, <2>2, <2>3, <1>6
<1> HIDE DEF S
<1>9. \A i \in 0 .. Len(s) : i \in S
  BY <1>6, <1>7, <1>8, IntervalInduction
<1>10. \A n \in 0 .. Len(s) : C[n] \in Tables
  BY <1>9 DEF S
<1> QED
  BY <1>5, <1>10 DEF C

\* A table holds what the first n frames say: every frame is the event with its number,
\* and every event is that of a frame.
Reflects(table, s, n) ==
    /\ \A i \in 1 .. n : /\ s[i].seq \in 1 .. Len(table[s[i].run])
                         /\ table[s[i].run][s[i].seq] = s[i].item
    /\ \A r \in Runs : \A k \in 1 .. Len(table[r]) :
          \E i \in 1 .. n : s[i].run = r /\ s[i].seq = k

\* When every frame has the next number, so does the table that _load returns.
LEMMA LoadReflects ==
    ASSUME NEW s \in Seq(Frames),
           \A n \in 1 .. Len(s) : s[n].seq = Len(Collected(s)[n - 1][s[n].run]) + 1
    PROVE  Reflects(Collected(s)[Len(s)], s, Len(s))
<1> DEFINE C == Collected(s)
           S == {n \in 0 .. Len(s) : Reflects(C[n], s, n)}
<1>1. Len(s) \in Nat /\ 0 \in Nat
  OBVIOUS
<1>2. /\ C[0] = NoEvents
      /\ \A n \in 1 .. Len(s) : C[n] = Add(C[n - 1], s[n])
      /\ \A n \in 0 .. Len(s) : C[n] \in Tables
  BY CollectedTables
<1>3. \A n \in 1 .. Len(s) : s[n].seq = Len(C[n - 1][s[n].run]) + 1
  OBVIOUS
<1>a. ASSUME NEW i \in 1 .. Len(s)
      PROVE  s[i] \in Frames /\ s[i].run \in Runs /\ s[i].item \in Nat /\ s[i].seq \in Nat
  <2>1. s[i] \in Frames
    OBVIOUS
  <2> QED
    BY <2>1 DEF Frames
<1> HIDE DEF C
<1>4. 0 \in S
  <2>1. \A r \in Runs : Len(C[0][r]) = 0
    BY <1>2 DEF NoEvents
  <2>2. Reflects(C[0], s, 0)
    BY <2>1 DEF Reflects
  <2> QED
    BY <1>1, <2>2
<1>5. ASSUME NEW m \in 0 .. Len(s) - 1, m \in S PROVE m + 1 \in S
  <2> DEFINE f == s[m + 1]
             old == C[m]
             new == C[m + 1]
  <2>1. m \in Nat /\ m + 1 \in 1 .. Len(s) /\ (m + 1) - 1 = m /\ m \in 0 .. Len(s)
    BY <1>1
  <2>2. f \in Frames /\ f.run \in Runs /\ f.item \in Nat /\ f.seq \in Nat
    BY <1>a, <2>1
  <2>3. /\ old \in Tables /\ new = Add(old, f) /\ f.seq = Len(old[f.run]) + 1
        /\ Reflects(old, s, m)
    BY <1>2, <1>3, <1>5, <2>1
  <2> HIDE DEF f, old, new
  <2>4. new[f.run] = Append(old[f.run], f.item) /\ \A r \in Runs \ {f.run} : new[r] = old[r]
    BY <2>2, <2>3, AddEvent
  <2>5. /\ Len(old[f.run]) \in Nat /\ Len(new[f.run]) = Len(old[f.run]) + 1
        /\ \A k \in 1 .. Len(old[f.run]) : new[f.run][k] = old[f.run][k]
        /\ new[f.run][f.seq] = f.item
    <3>1. old[f.run] \in Seq(Nat)
      BY <2>2, <2>3 DEF Tables
    <3> QED
      BY <2>2, <2>3, <2>4, <3>1
  <2>6. ASSUME NEW i \in 1 .. m + 1
        PROVE  s[i].seq \in 1 .. Len(new[s[i].run]) /\ new[s[i].run][s[i].seq] = s[i].item
    <3>1. CASE i = m + 1
      BY <2>3, <2>5, <3>1 DEF f
    <3>2. CASE i \in 1 .. m
      <4>1. s[i] \in Frames /\ s[i].run \in Runs
        BY <1>1, <1>a, <2>1, <3>2
      <4>2. s[i].seq \in 1 .. Len(old[s[i].run]) /\ old[s[i].run][s[i].seq] = s[i].item
        BY <2>3, <3>2 DEF Reflects
      <4>3. CASE s[i].run = f.run
        BY <2>5, <4>2, <4>3, SMTT(30)
      <4>4. CASE s[i].run # f.run
        BY <2>4, <4>1, <4>2, <4>4
      <4> QED
        BY <4>3, <4>4
    <3> QED
      BY <2>1, <3>1, <3>2
  <2>7. ASSUME NEW r \in Runs, NEW k \in 1 .. Len(new[r])
        PROVE  \E i \in 1 .. m + 1 : s[i].run = r /\ s[i].seq = k
    <3>1. CASE r = f.run /\ k = f.seq
      <4>1. m + 1 \in 1 .. m + 1
        BY <2>1
      <4> QED
        BY <3>1, <4>1 DEF f
    <3>2. CASE k \in 1 .. Len(old[r])
      <4>1. PICK i \in 1 .. m : s[i].run = r /\ s[i].seq = k
        BY <2>3, <3>2 DEF Reflects
      <4> QED
        BY <2>1, <4>1
    <3>3. r = f.run => k = f.seq \/ k \in 1 .. Len(old[r])
      BY <2>3, <2>5
    <3> QED
      BY <2>4, <3>1, <3>2, <3>3
  <2>8. Reflects(new, s, m + 1)
    BY <2>6, <2>7 DEF Reflects
  <2> QED
    BY <2>1, <2>8 DEF new
<1> HIDE DEF S
<1>6. \A i \in 0 .. Len(s) : i \in S
  BY <1>1, <1>4, <1>5, IntervalInduction
<1>7. Len(s) \in S
  BY <1>1, <1>6
<1> QED
  BY <1>7 DEF S, C

-----------------------------------------------------------------------------
(* The inductive invariant. *)

FramesIn(s) == {s[i] : i \in 1 .. Len(s)}

\* What is on disk, and what may still get there.
Log == FramesIn(file) \cup FramesIn(buffer)

\* Only an open journal has a buffer, and before the file is created there is nothing.
Lifecycle ==
    /\ status # "open" => buffer = << >>
    /\ header = "none" => /\ file = << >> /\ status = "down"
                          /\ acked = NoEvents /\ events = NoEvents

\* What this process writes is of runs that it has not recovered.
RunsOfThisProcess ==
    /\ \A f \in FramesIn(buffer) : f.run \notin recovered
    /\ status = "open" => \A f \in Log : f.run \notin recovered => f.boot = boot

\* The data survives whatever ends the process.
Durable == fsync \/ ~powerLost

\* A frame that is not acknowledged, of a failed append, has the number after the last.
NumbersInReach == Durable => \A f \in Log : f.seq <= Len(acked[f.run]) + 1

\* The frame of event k of run r, at a place where it stays.
IsKept(r, k, i) ==
    /\ file[i].run = r /\ file[i].seq = k /\ file[i].item = acked[r][k]
    /\ fsync => i <= synced

AcknowledgedIsKept ==
    Durable => \A r \in Runs : \A k \in 1 .. Len(acked[r]) :
                  \E i \in 1 .. Len(file) : IsKept(r, k, i)

\* A run that can still be written to is acknowledged as far as it goes.
WritableIsAcknowledged ==
    Durable /\ status = "open" => \A r \in Runs \ recovered : events[r] = acked[r]

JournalInv ==
    /\ TypeOK /\ Lifecycle /\ RunsOfThisProcess /\ OneProcessPerRun
    /\ NumbersInReach /\ AcknowledgedIsKept /\ WritableIsAcknowledged
    /\ AcknowledgedIsReplayed

-----------------------------------------------------------------------------
(* What a step does to the frames. *)

\* The frames of a sequence that is put together, or cut.
LEMMA FramesOfConcat ==
    ASSUME NEW s \in Seq(Frames), NEW t \in Seq(Frames)
    PROVE  FramesIn(s \o t) \subseteq FramesIn(s) \cup FramesIn(t)
<1> SUFFICES ASSUME NEW i \in 1 .. Len(s \o t)
             PROVE  (s \o t)[i] \in FramesIn(s) \cup FramesIn(t)
  BY DEF FramesIn
<1>1. CASE i <= Len(s)
  <2>1. i \in 1 .. Len(s) /\ (s \o t)[i] = s[i]
    BY <1>1
  <2> QED
    BY <2>1 DEF FramesIn
<1>2. CASE ~(i <= Len(s))
  <2>1. i - Len(s) \in 1 .. Len(t) /\ (s \o t)[i] = t[i - Len(s)]
    BY <1>2
  <2> QED
    BY <2>1 DEF FramesIn
<1> QED
  BY <1>1, <1>2

\* A frame more.
LEMMA FramesOfAppend ==
    ASSUME NEW s \in Seq(Frames), NEW f \in Frames
    PROVE  FramesIn(Append(s, f)) \subseteq FramesIn(s) \cup {f}
<1> SUFFICES ASSUME NEW i \in 1 .. Len(Append(s, f))
             PROVE  Append(s, f)[i] \in FramesIn(s) \cup {f}
  BY DEF FramesIn
<1>1. (i \in 1 .. Len(s) /\ Append(s, f)[i] = s[i]) \/ Append(s, f)[i] = f
  OBVIOUS
<1> QED
  BY <1>1 DEF FramesIn

\* A part.
LEMMA FramesOfPart ==
    ASSUME NEW s \in Seq(Frames), NEW m \in Nat \ {0}, NEW n \in 0 .. Len(s)
    PROVE  FramesIn(SubSeq(s, m, n)) \subseteq FramesIn(s)
<1> SUFFICES ASSUME NEW i \in 1 .. Len(SubSeq(s, m, n))
             PROVE  SubSeq(s, m, n)[i] \in FramesIn(s)
  BY DEF FramesIn
<1>1. m + i - 1 \in 1 .. Len(s) /\ SubSeq(s, m, n)[i] = s[m + i - 1]
  OBVIOUS
<1> QED
  BY <1>1 DEF FramesIn

\* t goes on where s ends.
Extends(s, t) == Len(s) <= Len(t) /\ \A i \in 1 .. Len(s) : t[i] = s[i]

\* append of run r: frames move from the buffer to the file, behind what is there; all that
\* is new is the frame of this attempt.  Either the event is acknowledged, and its frame
\* is in the file and as safe as this journal makes it, or nothing is.
AppendStep(r) ==
    /\ Writable(r)
    /\ UNCHANGED <<fsync, header, status, recovered, boot, powerLost>>
    /\ Extends(file, file') /\ synced <= synced'
    /\ FramesIn(file') \subseteq Log \cup {Frame(r)}
    /\ FramesIn(buffer') \subseteq FramesIn(buffer) \cup {Frame(r)}
    /\ \/ UNCHANGED <<events, acked>>
       \/ /\ acked' = [acked EXCEPT ![r] = Append(@, attempts + 1)]
          /\ events' = [events EXCEPT ![r] = Append(@, attempts + 1)]
          /\ Len(file') \in 1 .. Len(file') /\ file'[Len(file')] = Frame(r)
          /\ fsync => synced' = Len(file')

\* Anything else writes at most what is in the buffer, and then the journal is closed; a
\* loss of power takes frames away that were not synced.
OtherStep ==
    /\ UNCHANGED <<fsync, acked>> /\ synced' = synced
    /\ powerLost => powerLost'
    /\ FramesIn(file') \subseteq Log
    /\ FramesIn(buffer') \subseteq FramesIn(buffer)
    /\ status' # "open" => buffer' = << >>
    /\ \/ Extends(file, file')
       \/ powerLost' /\ \A i \in 1 .. synced : i \in 1 .. Len(file') /\ file'[i] = file[i]
    /\ \/ /\ status = "open" /\ status' = "closed"
          /\ UNCHANGED <<events, recovered, header, boot>>
       \/ /\ status \in {"open", "closed"} /\ status' = "down"
          /\ events' = NoEvents /\ recovered' = {} /\ (header' = "none" => header = "none")
       \/ Create
       \/ Load
       \/ LoadFails
       \/ UNCHANGED vars

\* The frame of an attempt is one.
LEMMA FrameType == TypeOK => \A r \in Runs : Frame(r) \in Frames
<1> SUFFICES ASSUME TypeOK, NEW r \in Runs PROVE Frame(r) \in Frames
  OBVIOUS
<1>1. Len(events[r]) + 1 \in Nat /\ attempts + 1 \in Nat /\ boot \in Nat
  BY DEF TypeOK, Tables
<1> QED
  BY <1>1 DEF Frame, NextSeq, Frames

\* What append leaves of its types and of its frames, when n of them went out.
LEMMA WrittenOut ==
    ASSUME TypeOK, NEW t \in Seq(Frames), NEW n \in 0 .. Len(t),
           file' = file \o SubSeq(t, 1, n)
    PROVE  /\ file' \in Seq(Frames) /\ Extends(file, file')
           /\ FramesIn(file') \subseteq FramesIn(file) \cup FramesIn(t)
           /\ Len(file') = Len(file) + n
<1>0. file \in Seq(Frames) /\ 1 \in Nat \ {0}
  BY DEF TypeOK
<1> DEFINE u == SubSeq(t, 1, n)
<1>1. u \in Seq(Frames) /\ Len(u) = n
  OBVIOUS
<1>2. FramesIn(u) \subseteq FramesIn(t)
  BY <1>0, FramesOfPart
<1> HIDE DEF u
<1>3. file' = file \o u
  BY DEF u
<1>4. FramesIn(file \o u) \subseteq FramesIn(file) \cup FramesIn(u)
  BY <1>0, <1>1, FramesOfConcat
<1>5. file' \in Seq(Frames) /\ Extends(file, file') /\ Len(file') = Len(file) + n
  BY <1>0, <1>1, <1>3 DEF Extends
<1> QED
  BY <1>2, <1>3, <1>4, <1>5

\* All three ways that append can end are such steps.
LEMMA AppendSteps ==
    ASSUME TypeOK, NEW r \in Runs, AppendEvent(r) \/ FlushFails(r) \/ FsyncFails(r)
    PROVE  AppendStep(r) /\ TypeOK'
<1> DEFINE f == Frame(r)
           t == Append(buffer, f)
<1>1. /\ Writable(r) /\ attempts' = attempts + 1
      /\ UNCHANGED <<fsync, header, status, recovered, boot, powerLost>>
  BY DEF AppendEvent, FlushFails, FsyncFails, Attempt
<1>2. f \in Frames
  BY FrameType
<1>3. file \in Seq(Frames) /\ buffer \in Seq(Frames)
  BY DEF TypeOK
<1> HIDE DEF f
<1>4. t \in Seq(Frames) /\ Len(t) = Len(buffer) + 1 /\ t[Len(t)] = f /\ Len(buffer) \in Nat
  BY <1>2, <1>3
<1>5. FramesIn(t) \subseteq FramesIn(buffer) \cup {f}
  BY <1>2, <1>3, FramesOfAppend
<1> HIDE DEF t
<1>6. PICK n \in 0 .. Len(t) : file' = file \o SubSeq(t, 1, n) /\ buffer' = SubSeq(t, n + 1, Len(t))
  <2>1. CASE AppendEvent(r) \/ FsyncFails(r)
    <3>1. file' = file \o t /\ buffer' = << >>
      BY <2>1 DEF AppendEvent, FsyncFails, t, f
    <3>2. t = SubSeq(t, 1, Len(t)) /\ << >> = SubSeq(t, Len(t) + 1, Len(t)) /\ Len(t) \in 0 .. Len(t)
      BY <1>4
    <3> QED
      BY <3>1, <3>2
  <2>2. CASE FlushFails(r)
    <3>1. PICK n \in 0 .. Len(buffer) :
              /\ file' = file \o SubSeq(t, 1, n)
              /\ buffer' = SubSeq(t, n + 1, Len(buffer) + 1)
      BY <2>2 DEF FlushFails, WriteOut, t, f
    <3>2. n \in 0 .. Len(t)
      BY <1>4
    <3>3. buffer' = SubSeq(t, n + 1, Len(t))
      BY <1>4, <3>1
    <3> QED
      BY <3>1, <3>2, <3>3
  <2> QED
    BY <2>1, <2>2
<1>7. /\ file' \in Seq(Frames) /\ Extends(file, file')
      /\ FramesIn(file') \subseteq FramesIn(file) \cup FramesIn(t)
      /\ Len(file') = Len(file) + n
  BY <1>4, <1>6, WrittenOut
<1>8. n + 1 \in Nat \ {0} /\ Len(t) \in 0 .. Len(t) /\ n \in Nat
  BY <1>4
<1>9. FramesIn(buffer') \subseteq FramesIn(t) /\ buffer' \in Seq(Frames)
  <2>1. FramesIn(SubSeq(t, n + 1, Len(t))) \subseteq FramesIn(t)
    BY <1>4, <1>8, FramesOfPart
  <2>2. SubSeq(t, n + 1, Len(t)) \in Seq(Frames)
    BY <1>4, <1>8
  <2> QED
    BY <1>6, <2>1, <2>2
<1>10. torn' \in BOOLEAN
  BY DEF AppendEvent, FlushFails, FsyncFails, WriteOut, TypeOK
<1>11. CASE AppendEvent(r)
  <2>1. /\ file' = file \o t /\ synced' = IF fsync THEN Len(file') ELSE synced
        /\ acked' = [acked EXCEPT ![r] = Append(@, attempts + 1)]
        /\ events' = [events EXCEPT ![r] = Append(@, attempts + 1)]
    BY <1>11 DEF AppendEvent, t, f
  <2>2. Len(file') \in 1 .. Len(file') /\ file'[Len(file')] = f
    BY <1>3, <1>4, <2>1
  <2>3. synced' \in Nat /\ synced <= synced' /\ synced' <= Len(file') /\ (fsync => synced' = Len(file'))
    BY <1>3, <1>7, <1>8, <2>1 DEF TypeOK
  <2>4. acked' \in Tables /\ events' \in Tables
    <3>1. attempts + 1 \in Nat /\ acked[r] \in Seq(Nat) /\ events[r] \in Seq(Nat)
      BY DEF TypeOK, Tables
    <3>2. Append(acked[r], attempts + 1) \in Seq(Nat) /\ Append(events[r], attempts + 1) \in Seq(Nat)
      BY <3>1
    <3> QED
      BY <2>1, <3>2 DEF TypeOK, Tables
  <2>5. TypeOK'
    BY <1>1, <1>7, <1>9, <1>10, <2>3, <2>4 DEF TypeOK
  <2>6. AppendStep(r)
    BY <1>1, <1>5, <1>7, <1>9, <2>1, <2>2, <2>3 DEF AppendStep, Log, f
  <2> QED
    BY <2>5, <2>6
<1>12. CASE FlushFails(r) \/ FsyncFails(r)
  <2>1. UNCHANGED <<synced, events, acked>>
    BY <1>12 DEF FlushFails, FsyncFails
  <2>2. synced <= Len(file') /\ synced <= synced'
    BY <1>3, <1>7, <1>8, <2>1 DEF TypeOK
  <2>3. TypeOK'
    BY <1>1, <1>7, <1>9, <1>10, <2>1, <2>2 DEF TypeOK
  <2>4. AppendStep(r)
    BY <1>1, <1>5, <1>7, <1>9, <2>1, <2>2 DEF AppendStep, Log, f
  <2> QED
    BY <2>3, <2>4
<1> QED
  BY <1>11, <1>12

\* And every other action is the other kind.
LEMMA OtherSteps ==
    ASSUME TypeOK, Lifecycle,
           Close \/ Crash \/ PowerLoss \/ Create \/ Load \/ LoadFails \/ UNCHANGED vars
    PROVE  OtherStep /\ TypeOK'
<1> USE DEF diskVars
<1>0. /\ file \in Seq(Frames) /\ buffer \in Seq(Frames) /\ 1 \in Nat \ {0}
      /\ Extends(file, file) /\ FramesIn(file) \subseteq Log /\ FramesIn(buffer) \subseteq Log
      /\ FramesIn(<< >>) = {}
  BY DEF TypeOK, Extends, Log, FramesIn
<1>1. CASE Close
  <2>1. PICK n \in 0 .. Len(buffer) : file' = file \o SubSeq(buffer, 1, n)
    <3>1. buffer = SubSeq(buffer, 1, Len(buffer)) /\ Len(buffer) \in 0 .. Len(buffer)
      BY <1>0
    <3>2. \A n \in 0 .. Len(buffer) - 1 : n \in 0 .. Len(buffer)
      BY <1>0
    <3> QED
      BY <1>1, <3>1, <3>2 DEF Close, WriteOut
  <2>2. /\ file' \in Seq(Frames) /\ Extends(file, file')
        /\ FramesIn(file') \subseteq FramesIn(file) \cup FramesIn(buffer)
    BY <1>0, <2>1, WrittenOut
  <2>3. synced <= Len(file')
    BY <1>0, <2>1 DEF TypeOK
  <2>4. torn' \in BOOLEAN /\ buffer' = << >> /\ status = "open" /\ status' = "closed"
    BY <1>1 DEF Close, WriteOut, TypeOK
  <2>5. UNCHANGED <<fsync, header, synced, events, recovered, acked, attempts, boot, powerLost>>
    BY <1>1 DEF Close
  <2>6. << >> \in Seq(Frames)
    OBVIOUS
  <2>7. TypeOK'
    BY <2>2, <2>3, <2>4, <2>5, <2>6 DEF TypeOK
  <2>8. OtherStep
    BY <1>0, <2>2, <2>4, <2>5 DEF OtherStep, Log
  <2> QED
    BY <2>7, <2>8
<1>2. CASE Crash \/ PowerLoss
  <2>1. /\ status \in {"open", "closed"} /\ status' = "down" /\ buffer' = << >>
        /\ events' = NoEvents /\ recovered' = {}
        /\ UNCHANGED <<fsync, acked, attempts, boot, synced>>
    BY <1>2 DEF Crash, PowerLoss, Down
  <2>2. << >> \in Seq(Frames) /\ NoEvents \in Tables /\ {} \in SUBSET Runs
    BY DEF NoEvents, Tables
  <2>3. CASE Crash
    <3>1. UNCHANGED <<header, file, torn, powerLost>>
      BY <2>3 DEF Crash
    <3>2. TypeOK'
      BY <2>1, <2>2, <3>1 DEF TypeOK
    <3> QED
      BY <1>0, <2>1, <3>1, <3>2 DEF OtherStep
  <2>4. CASE PowerLoss
    <3>1. PICK n \in synced .. Len(file) :
              /\ file' = SubSeq(file, 1, n)
              /\ IF n = Len(file) THEN torn' \in {torn, FALSE} ELSE torn' \in BOOLEAN
              /\ header' \in IF fsync \/ n > 0 THEN {header} ELSE {header, "torn"}
      BY <2>4 DEF PowerLoss
    <3>2. n \in 0 .. Len(file) /\ synced \in Nat /\ synced <= n /\ n \in Nat
      BY <1>0 DEF TypeOK
    <3>3. file' \in Seq(Frames) /\ Len(file') = n /\ \A i \in 1 .. n : file'[i] = file[i]
      BY <1>0, <3>1, <3>2
    <3>4. FramesIn(SubSeq(file, 1, n)) \subseteq FramesIn(file)
      BY <1>0, <3>2, FramesOfPart
    <3>5. \A i \in 1 .. synced : i \in 1 .. Len(file') /\ file'[i] = file[i]
      BY <3>2, <3>3
    <3>6. torn' \in BOOLEAN /\ header' \in {header, "torn"} /\ powerLost' = TRUE
      BY <2>4, <3>1 DEF TypeOK, PowerLoss
    <3>7. TypeOK'
      BY <2>1, <2>2, <3>2, <3>3, <3>6 DEF TypeOK
    <3>8. FramesIn(file') \subseteq Log
      BY <1>0, <3>1, <3>4
    <3> QED
      BY <1>0, <2>1, <3>5, <3>6, <3>7, <3>8 DEF OtherStep
  <2> QED
    BY <1>2, <2>3, <2>4
<1>3. CASE Create \/ Load \/ LoadFails
  <2>1. /\ status = "down" /\ buffer = << >> /\ boot' = boot + 1
        /\ UNCHANGED <<fsync, file, torn, synced, buffer, acked, attempts, powerLost>>
    BY <1>3 DEF Create, Load, LoadFails, Boot, Lifecycle
  <2>2. events' \in Tables /\ recovered' \in SUBSET Runs
    <3>1. CASE Load
      <4>1. Collected(file)[Len(file)] \in Tables
        <5>1. \A n \in 0 .. Len(file) : Collected(file)[n] \in Tables
          BY <1>0, CollectedTables
        <5> QED
          BY <1>0, <5>1
      <4>2. \A n \in 1 .. Len(file) : file[n].run \in Runs
        <5>1. \A n \in 1 .. Len(file) : file[n] \in Frames
          BY <1>0
        <5> QED
          BY <5>1 DEF Frames
      <4> QED
        BY <3>1, <4>1, <4>2 DEF Load
    <3>2. CASE Create \/ LoadFails
      BY <3>2 DEF Create, LoadFails, TypeOK
    <3> QED
      BY <1>3, <3>1, <3>2
  <2>3. header' \in {"none", "torn", "whole"} /\ status' \in {"down", "open", "closed", "corrupt"}
    BY <1>3 DEF Create, Load, LoadFails, TypeOK
  <2>4. boot' \in Nat
    BY <2>1 DEF TypeOK
  <2>5. TypeOK'
    BY <2>1, <2>2, <2>3, <2>4 DEF TypeOK
  <2>6. OtherStep
    BY <1>0, <1>3, <2>1 DEF OtherStep
  <2> QED
    BY <2>5, <2>6
<1>4. CASE UNCHANGED vars
  <2>1. TypeOK'
    BY <1>4 DEF vars, TypeOK
  <2>2. OtherStep
    BY <1>0, <1>4 DEF vars, OtherStep, Lifecycle
  <2> QED
    BY <2>1, <2>2
<1> QED
  BY <1>1, <1>2, <1>3, <1>4

-----------------------------------------------------------------------------
(* The invariant is kept. *)

\* A prefix, element by element.
LEMMA PrefixByElement ==
    ASSUME NEW s \in Seq(Nat), NEW t \in Seq(Nat), Len(s) <= Len(t),
           \A k \in 1 .. Len(s) : t[k] = s[k]
    PROVE  IsPrefix(s, t)
<1>1. Len(s) \in 0 .. Len(s) /\ Len(s) \in 0 .. Len(t)
  OBVIOUS
<1>2. SubSeq(s, 1, Len(s)) = [k \in 1 .. Len(s) |-> s[k]]
  OBVIOUS
<1>3. SubSeq(t, 1, Len(s)) = [k \in 1 .. Len(s) |-> t[k]]
  BY <1>1
<1> QED
  BY <1>2, <1>3 DEF IsPrefix

\* OneProcessPerRun, frame by frame.
OneProcess(frames) == \A f, g \in frames : f.run = g.run => f.boot = g.boot

\* The two say the same.
LEMMA OneProcessByFrame == OneProcessPerRun <=> OneProcess(FramesIn(file))
BY DEF OneProcessPerRun, OneProcess, FramesIn

\* append keeps it.
LEMMA AppendKeeps ==
    ASSUME JournalInv, TypeOK', NEW r \in Runs, AppendStep(r)
    PROVE  JournalInv'
<1> DEFINE f == Frame(r)
<1>1. /\ TypeOK /\ Lifecycle /\ RunsOfThisProcess /\ OneProcessPerRun
      /\ NumbersInReach /\ AcknowledgedIsKept /\ WritableIsAcknowledged
      /\ AcknowledgedIsReplayed
  BY DEF JournalInv
<1>2. /\ status = "open" /\ r \notin recovered
      /\ UNCHANGED <<fsync, header, status, recovered, boot, powerLost>>
      /\ Extends(file, file') /\ synced <= synced'
      /\ FramesIn(file') \subseteq Log \cup {f}
      /\ FramesIn(buffer') \subseteq FramesIn(buffer) \cup {f}
  BY DEF AppendStep, Writable
<1>3. f.run = r /\ f.seq = Len(events[r]) + 1 /\ f.item = attempts + 1 /\ f.boot = boot
  BY DEF Frame, NextSeq
<1>4. \/ UNCHANGED <<events, acked>>
      \/ /\ acked' = [acked EXCEPT ![r] = Append(@, attempts + 1)]
         /\ events' = [events EXCEPT ![r] = Append(@, attempts + 1)]
         /\ Len(file') \in 1 .. Len(file') /\ file'[Len(file')] = f
         /\ fsync => synced' = Len(file')
  BY DEF AppendStep
<1> HIDE DEF f
<1>5. Log' \subseteq Log \cup {f}
  BY <1>2 DEF Log
<1>6. Durable' = Durable
  BY <1>2 DEF Durable
<1>7. Lifecycle'
  BY <1>1, <1>2 DEF Lifecycle
<1>8. RunsOfThisProcess'
  BY <1>1, <1>2, <1>3, <1>5 DEF RunsOfThisProcess
<1>9. OneProcessPerRun'
  <2>1. OneProcess(FramesIn(file))
    BY <1>1, OneProcessByFrame
  <2>2. \A g \in Log \cup {f} : g.run \notin recovered => g.boot = boot
    BY <1>1, <1>2, <1>3 DEF RunsOfThisProcess
  <2>3. \A g \in Log \cup {f} : g.run \in recovered => g \in FramesIn(file)
    BY <1>1, <1>2, <1>3 DEF RunsOfThisProcess, Log
  <2>4. OneProcess(FramesIn(file'))
    BY <1>2, <2>1, <2>2, <2>3 DEF OneProcess
  <2> QED
    BY <2>4 DEF OneProcessPerRun, OneProcess, FramesIn
<1>10. ASSUME NEW q \in Runs
       PROVE  /\ Len(acked[q]) \in Nat /\ Len(acked'[q]) \in Nat /\ Len(acked[q]) <= Len(acked'[q])
              /\ \A k \in 1 .. Len(acked[q]) : acked'[q][k] = acked[q][k]
  <2>1. acked[q] \in Seq(Nat) /\ acked[r] \in Seq(Nat)
    BY <1>1 DEF TypeOK, Tables
  <2>2. acked'[q] \in {acked[q], Append(acked[q], attempts + 1)}
    BY <1>1, <1>4 DEF TypeOK, Tables
  <2>3. CASE acked'[q] = acked[q]
    BY <2>1, <2>3
  <2>4. CASE acked'[q] = Append(acked[q], attempts + 1)
    BY <2>1, <2>4
  <2> QED
    BY <2>2, <2>3, <2>4
<1>11. Durable => events[r] = acked[r]
  BY <1>1, <1>2 DEF WritableIsAcknowledged
<1>12. NumbersInReach'
  <2> SUFFICES ASSUME Durable, NEW g \in Log'
               PROVE  g.seq <= Len(acked'[g.run]) + 1
    BY <1>6 DEF NumbersInReach
  <2>1. g \in Frames /\ g.run \in Runs /\ g.seq \in Nat
    <3>1. \A i \in 1 .. Len(file') : file'[i] \in Frames
      BY DEF TypeOK
    <3>2. \A i \in 1 .. Len(buffer') : buffer'[i] \in Frames
      BY DEF TypeOK
    <3>3. g \in Frames
      BY <3>1, <3>2 DEF Log, FramesIn
    <3> QED
      BY <3>3 DEF Frames
  <2>2. CASE g \in Log
    <3>1. g.seq <= Len(acked[g.run]) + 1
      BY <1>1, <2>2 DEF NumbersInReach
    <3>2. /\ Len(acked[g.run]) \in Nat /\ Len(acked'[g.run]) \in Nat
          /\ Len(acked[g.run]) <= Len(acked'[g.run])
      BY <1>10, <2>1
    <3> QED
      BY <2>1, <3>1, <3>2
  <2>3. CASE g = f
    <3>1. g.run = r /\ g.seq = Len(acked[r]) + 1
      BY <1>3, <1>11, <2>3
    <3>2. Len(acked[r]) \in Nat /\ Len(acked'[r]) \in Nat /\ Len(acked[r]) <= Len(acked'[r])
      BY <1>10
    <3> QED
      BY <3>1, <3>2
  <2> QED
    BY <1>5, <2>2, <2>3
<1>13. AcknowledgedIsKept'
  <2> SUFFICES ASSUME Durable, NEW q \in Runs, NEW k \in 1 .. Len(acked'[q])
               PROVE  \E i \in 1 .. Len(file') : IsKept(q, k, i)'
    BY <1>6 DEF AcknowledgedIsKept
  <2>1. CASE k \in 1 .. Len(acked[q])
    <3>1. PICK i \in 1 .. Len(file) : IsKept(q, k, i)
      BY <1>1, <2>1 DEF AcknowledgedIsKept
    <3>2. i \in 1 .. Len(file') /\ file'[i] = file[i]
      BY <1>1, <1>2 DEF Extends, TypeOK
    <3>3. fsync => i <= synced'
      BY <1>1, <1>2, <3>1 DEF IsKept, TypeOK
    <3>4. acked'[q][k] = acked[q][k]
      BY <1>10, <2>1
    <3>5. IsKept(q, k, i)'
      BY <1>2, <3>1, <3>2, <3>3, <3>4 DEF IsKept
    <3> QED
      BY <3>2, <3>5
  <2>2. CASE ~(k \in 1 .. Len(acked[q]))
    <3>1. acked' # acked
      BY <2>2
    <3>2. q = r
      BY <1>1, <1>4, <2>2 DEF TypeOK, Tables
    <3>3. acked[r] \in Seq(Nat) /\ acked'[r] = Append(acked[r], attempts + 1)
      BY <1>1, <1>4, <3>1 DEF TypeOK, Tables
    <3>4. k = Len(acked[r]) + 1 /\ acked'[r][k] = attempts + 1
      BY <2>2, <3>2, <3>3
    <3>5. /\ Len(file') \in 1 .. Len(file') /\ file'[Len(file')] = f
          /\ (fsync => synced' = Len(file'))
      BY <1>4, <3>1
    <3>6. f.run = q /\ f.seq = k /\ f.item = acked'[q][k]
      BY <1>3, <1>11, <3>2, <3>4
    <3>7. fsync' => Len(file') <= synced'
      BY <1>2, <3>5
    <3>8. IsKept(q, k, Len(file))'
      BY <3>5, <3>6, <3>7 DEF IsKept
    <3> QED
      BY <3>5, <3>8
  <2> QED
    BY <2>1, <2>2
<1>14. ASSUME NEW q \in Runs, events[q] = acked[q] PROVE events'[q] = acked'[q]
  BY <1>1, <1>4, <1>14 DEF TypeOK, Tables
<1>15. WritableIsAcknowledged'
  BY <1>1, <1>2, <1>6, <1>14 DEF WritableIsAcknowledged
<1>16. AcknowledgedIsReplayed'
  <2> SUFFICES ASSUME Durable, NEW q \in Runs
               PROVE  IsPrefix(acked'[q], events'[q]) /\ Len(events'[q]) <= Len(acked'[q]) + 1
    BY <1>6 DEF AcknowledgedIsReplayed, Durable
  <2>1. CASE events[q] = acked[q]
    <3>1. events'[q] = acked'[q]
      BY <1>14, <2>1
    <3>2. acked'[q] \in Seq(Nat)
      BY DEF TypeOK, Tables
    <3>3. Len(acked'[q]) \in Nat /\ Len(acked'[q]) <= Len(acked'[q])
      BY <3>2
    <3>4. IsPrefix(acked'[q], acked'[q])
      BY <3>2, <3>3, PrefixByElement
    <3> QED
      BY <3>1, <3>3, <3>4
  <2>2. CASE events[q] # acked[q]
    <3>1. q # r
      BY <1>11, <2>2
    <3>2. UNCHANGED <<events[q], acked[q]>>
      BY <1>1, <1>4, <3>1 DEF TypeOK, Tables
    <3> QED
      BY <1>1, <1>2, <3>2 DEF AcknowledgedIsReplayed, Durable
  <2> QED
    BY <2>1, <2>2
<1> QED
  BY <1>7, <1>8, <1>9, <1>12, <1>13, <1>15, <1>16 DEF JournalInv

\* What _load returns has all that was acknowledged, and at most one event more.
LEMMA LoadedEvents ==
    ASSUME JournalInv, TypeOK', Load, Durable, NEW r \in Runs
    PROVE  /\ IsPrefix(acked[r], events'[r])
           /\ Len(events'[r]) <= Len(acked[r]) + 1
           /\ r \notin recovered' => events'[r] = acked[r]
<1> DEFINE table == Collected(file)[Len(file)]
<1>1. file \in Seq(Frames) /\ acked[r] \in Seq(Nat) /\ events'[r] \in Seq(Nat)
  BY DEF JournalInv, TypeOK, Tables
<1>2. /\ \A n \in 1 .. Len(file) :
              file[n].seq = Len(Collected(file)[n - 1][file[n].run]) + 1
      /\ events' = table /\ recovered' = {file[n].run : n \in 1 .. Len(file)}
  BY DEF Load, Loadable, Sequenced
<1>3. Reflects(table, file, Len(file))
  BY <1>1, <1>2, LoadReflects
<1> HIDE DEF table
<1>4. ASSUME NEW k \in 1 .. Len(acked[r])
      PROVE  k \in 1 .. Len(events'[r]) /\ events'[r][k] = acked[r][k] /\ r \in recovered'
  <2>1. PICK i \in 1 .. Len(file) : IsKept(r, k, i)
    BY DEF JournalInv, AcknowledgedIsKept
  <2>2. file[i].run = r /\ file[i].seq = k /\ file[i].item = acked[r][k]
    BY <2>1 DEF IsKept
  <2> QED
    BY <1>2, <1>3, <2>2 DEF Reflects
<1>5. ASSUME NEW k \in 1 .. Len(events'[r])
      PROVE  k <= Len(acked[r]) + 1 /\ r \in recovered'
  <2>1. PICK i \in 1 .. Len(file) : file[i].run = r /\ file[i].seq = k
    BY <1>2, <1>3 DEF Reflects
  <2>2. file[i] \in Log
    BY DEF Log, FramesIn
  <2>3. file[i].seq <= Len(acked[file[i].run]) + 1
    BY <2>2 DEF JournalInv, NumbersInReach
  <2> QED
    BY <1>2, <2>1, <2>3
<1>6. Len(acked[r]) \in Nat /\ Len(events'[r]) \in Nat
  BY <1>1
<1>7. Len(acked[r]) <= Len(events'[r])
  <2>1. CASE Len(acked[r]) = 0
    BY <1>6, <2>1
  <2>2. CASE Len(acked[r]) \in 1 .. Len(acked[r])
    BY <1>4, <1>6, <2>2
  <2> QED
    BY <1>6, <2>1, <2>2
<1>8. Len(events'[r]) <= Len(acked[r]) + 1
  <2>1. CASE Len(events'[r]) = 0
    BY <1>6, <2>1
  <2>2. CASE Len(events'[r]) \in 1 .. Len(events'[r])
    BY <1>5, <2>2
  <2> QED
    BY <1>6, <2>1, <2>2
<1>9. IsPrefix(acked[r], events'[r])
  BY <1>1, <1>4, <1>7, PrefixByElement
<1>10. ASSUME r \notin recovered' PROVE events'[r] = acked[r]
  <2>1. Len(acked[r]) = 0
    <3>1. ASSUME Len(acked[r]) # 0 PROVE FALSE
      <4>1. 1 \in 1 .. Len(acked[r])
        BY <1>6, <3>1
      <4> QED
        BY <1>4, <1>10, <4>1
    <3> QED
      BY <3>1
  <2>2. Len(events'[r]) = 0
    BY <1>5, <1>6, <1>10
  <2> QED
    BY <1>1, <2>1, <2>2
<1> QED
  BY <1>8, <1>9, <1>10

\* Every other action keeps the invariant.
LEMMA OtherKeeps ==
    ASSUME JournalInv, TypeOK', OtherStep
    PROVE  JournalInv'
<1>1. /\ TypeOK /\ Lifecycle /\ RunsOfThisProcess /\ OneProcessPerRun
      /\ NumbersInReach /\ AcknowledgedIsKept /\ WritableIsAcknowledged
      /\ AcknowledgedIsReplayed
  BY DEF JournalInv
<1>2. /\ UNCHANGED <<fsync, acked, synced>> /\ (powerLost => powerLost')
      /\ FramesIn(file') \subseteq Log /\ FramesIn(buffer') \subseteq FramesIn(buffer)
      /\ (status' # "open" => buffer' = << >>)
  BY DEF OtherStep
<1>3. Log' \subseteq Log /\ (Durable' => Durable)
  BY <1>2 DEF Log, Durable
<1>4. \/ /\ status = "open" /\ status' = "closed"
         /\ UNCHANGED <<events, recovered, header, boot>>
      \/ /\ status \in {"open", "closed"} /\ status' = "down"
         /\ events' = NoEvents /\ recovered' = {} /\ (header' = "none" => header = "none")
      \/ Create
      \/ Load
      \/ LoadFails
      \/ UNCHANGED vars
  BY DEF OtherStep
<1>5. status # "open" => Log = FramesIn(file)
  BY <1>1 DEF Lifecycle, Log, FramesIn
<1>6. CASE UNCHANGED vars
  <2>1. UNCHANGED <<fsync, header, file, torn, synced, buffer, status, events, recovered, acked,
                    attempts, boot, powerLost>>
    BY <1>6 DEF vars, diskVars
  <2> QED
    BY <1>1, <2>1 DEF JournalInv, TypeOK, Lifecycle, RunsOfThisProcess, OneProcessPerRun,
       NumbersInReach, AcknowledgedIsKept, IsKept, WritableIsAcknowledged,
       AcknowledgedIsReplayed, Durable, Log, FramesIn
<1>7. CASE ~(UNCHANGED vars)
  <2>1. Lifecycle'
    BY <1>1, <1>2, <1>4, <1>7 DEF Lifecycle, Create, Load, LoadFails
  <2>2. RunsOfThisProcess'
    <3>1. \A g \in FramesIn(<< >>) : FALSE
      BY DEF FramesIn
    <3>2. CASE status' # "open"
      BY <1>2, <3>1, <3>2 DEF RunsOfThisProcess
    <3>3. CASE Create
      <4>1. header = "none" /\ status = "down"
        BY <3>3 DEF Create, Boot
      <4>2. file = << >> /\ buffer = << >>
        BY <1>1, <4>1 DEF Lifecycle
      <4>3. \A g \in Log : FALSE
        BY <3>1, <4>2 DEF Log
      <4> QED
        BY <1>2, <1>3, <3>1, <4>2, <4>3 DEF RunsOfThisProcess
    <3>4. CASE Load
      <4>1. status = "down" /\ recovered' = {file[n].run : n \in 1 .. Len(file)}
        BY <3>4 DEF Load, Boot
      <4>2. buffer = << >> /\ Log = FramesIn(file)
        BY <1>1, <1>5, <4>1 DEF Lifecycle
      <4>3. \A g \in Log : g.run \in recovered'
        BY <4>1, <4>2 DEF FramesIn
      <4> QED
        BY <1>2, <1>3, <3>1, <4>2, <4>3 DEF RunsOfThisProcess
    <3> QED
      BY <1>4, <1>7, <3>2, <3>3, <3>4 DEF LoadFails
  <2>3. OneProcessPerRun'
    <3>1. OneProcess(FramesIn(file))
      BY <1>1, OneProcessByFrame
    <3>2. OneProcess(Log)
      <4>1. CASE status = "open"
        <5>1. \A g \in Log : g.run \notin recovered => g.boot = boot
          BY <1>1, <4>1 DEF RunsOfThisProcess
        <5>2. \A g \in Log : g.run \in recovered => g \in FramesIn(file)
          BY <1>1 DEF RunsOfThisProcess, Log
        <5> QED
          BY <3>1, <5>1, <5>2 DEF OneProcess
      <4>2. CASE status # "open"
        BY <1>5, <3>1, <4>2
      <4> QED
        BY <4>1, <4>2
    <3>3. OneProcess(FramesIn(file'))
      BY <1>2, <3>2 DEF OneProcess
    <3> QED
      BY <3>3 DEF OneProcessPerRun, OneProcess, FramesIn
  <2>4. NumbersInReach'
    BY <1>1, <1>2, <1>3 DEF NumbersInReach
  <2>5. AcknowledgedIsKept'
    <3> SUFFICES ASSUME Durable', NEW q \in Runs, NEW k \in 1 .. Len(acked[q])
                 PROVE  \E i \in 1 .. Len(file') : IsKept(q, k, i)'
      BY <1>2 DEF AcknowledgedIsKept
    <3>1. PICK i \in 1 .. Len(file) : IsKept(q, k, i)
      BY <1>1, <1>3 DEF AcknowledgedIsKept
    <3>2. i \in 1 .. Len(file') /\ file'[i] = file[i]
      <4>1. CASE Extends(file, file')
        BY <1>1, <4>1 DEF Extends, TypeOK
      <4>2. CASE powerLost' /\ \A j \in 1 .. synced : j \in 1 .. Len(file') /\ file'[j] = file[j]
        <5>1. fsync /\ i <= synced
          BY <1>2, <3>1, <4>2 DEF Durable, IsKept
        <5>2. i \in 1 .. synced
          BY <1>1, <5>1 DEF TypeOK
        <5> QED
          BY <4>2, <5>2
      <4> QED
        BY <4>1, <4>2 DEF OtherStep
    <3>3. IsKept(q, k, i)'
      BY <1>2, <3>1, <3>2 DEF IsKept
    <3> QED
      BY <3>2, <3>3
  <2>6. WritableIsAcknowledged'
    <3> SUFFICES ASSUME Durable', status' = "open", NEW q \in Runs \ recovered'
                 PROVE  events'[q] = acked[q]
      BY <1>2 DEF WritableIsAcknowledged
    <3>1. CASE Create
      BY <1>1, <3>1 DEF Create, Lifecycle
    <3>2. CASE Load
      BY <1>3, <3>2, LoadedEvents
    <3> QED
      BY <1>4, <1>7, <3>1, <3>2 DEF LoadFails
  <2>7. AcknowledgedIsReplayed'
    <3> SUFFICES ASSUME Durable', status' \in {"open", "closed"}, NEW q \in Runs
                 PROVE  IsPrefix(acked[q], events'[q]) /\ Len(events'[q]) <= Len(acked[q]) + 1
      BY <1>2 DEF AcknowledgedIsReplayed, Durable
    <3>1. CASE Create
      <4>1. acked[q] = events'[q] /\ acked[q] \in Seq(Nat)
        BY <1>1, <3>1 DEF Create, Lifecycle, TypeOK, Tables
      <4>2. Len(acked[q]) \in Nat /\ Len(acked[q]) <= Len(acked[q])
        BY <4>1
      <4>3. IsPrefix(acked[q], acked[q])
        BY <4>1, <4>2, PrefixByElement
      <4> QED
        BY <4>1, <4>2, <4>3
    <3>2. CASE Load
      <4>1. IsPrefix(acked[q], events'[q]) /\ Len(events'[q]) <= Len(acked[q]) + 1
        BY <1>3, <3>2, LoadedEvents
      <4> QED
        BY <4>1
    <3>3. CASE status = "open" /\ UNCHANGED events
      BY <1>1, <1>3, <3>3 DEF AcknowledgedIsReplayed, Durable
    <3> QED
      BY <1>4, <1>7, <3>1, <3>2, <3>3 DEF LoadFails
  <2> QED
    BY <2>1, <2>2, <2>3, <2>4, <2>5, <2>6, <2>7 DEF JournalInv
<1> QED
  BY <1>6, <1>7

\* The inductive invariant of the journal.
THEOREM JournalInvariant == Spec => []JournalInv
<1>1. Init => JournalInv
  <2> SUFFICES ASSUME Init PROVE JournalInv
    OBVIOUS
  <2>1. << >> \in Seq(Frames) /\ NoEvents \in Tables
    BY DEF NoEvents, Tables
  <2>2. Len(file) = 0 /\ Len(buffer) = 0 /\ \A r \in Runs : Len(acked[r]) = 0
    BY DEF Init, NoEvents
  <2>3. TypeOK
    <3>1. file \in Seq(Frames) /\ buffer \in Seq(Frames)
      BY <2>1 DEF Init
    <3>2. synced \in Nat /\ synced <= Len(file) /\ attempts \in Nat /\ boot \in Nat
      BY <2>2 DEF Init
    <3>3. events \in Tables /\ acked \in Tables /\ recovered \in SUBSET Runs
      BY <2>1 DEF Init
    <3>4. fsync \in BOOLEAN /\ torn \in BOOLEAN /\ powerLost \in BOOLEAN
      BY DEF Init
    <3> QED
      BY <3>1, <3>2, <3>3, <3>4 DEF Init, TypeOK
  <2>4. FramesIn(file) = {} /\ FramesIn(buffer) = {}
    BY <2>2 DEF FramesIn
  <2> QED
    BY <2>2, <2>3, <2>4 DEF Init, JournalInv, Lifecycle, RunsOfThisProcess, OneProcessPerRun,
       NumbersInReach, AcknowledgedIsKept, WritableIsAcknowledged, AcknowledgedIsReplayed, Log
<1>2. JournalInv /\ [Next]_vars => JournalInv'
  <2> SUFFICES ASSUME JournalInv, [Next]_vars PROVE JournalInv'
    OBVIOUS
  <2>1. TypeOK /\ Lifecycle
    BY DEF JournalInv
  <2>2. ASSUME NEW r \in Runs, AppendEvent(r) \/ FlushFails(r) \/ FsyncFails(r)
        PROVE  JournalInv'
    <3>1. AppendStep(r) /\ TypeOK'
      BY <2>1, <2>2, AppendSteps
    <3> QED
      BY <3>1, AppendKeeps
  <2>3. CASE Close \/ Crash \/ PowerLoss \/ Create \/ Load \/ LoadFails \/ UNCHANGED vars
    <3>1. OtherStep /\ TypeOK'
      BY <2>1, <2>3, OtherSteps
    <3> QED
      BY <3>1, OtherKeeps
  <2> QED
    BY <2>2, <2>3 DEF Next
<1> QED
  BY <1>1, <1>2, PTL DEF Spec

\* What append has acknowledged is replayed by this process and by every later one that
\* can open the file, in order and with at most one event more: failed writes, crashes and,
\* with fsync, losses of power included.
THEOREM JournalKeepsItsWord == Spec => []AcknowledgedIsReplayed
<1>1. JournalInv => AcknowledgedIsReplayed
  BY DEF JournalInv
<1> QED
  BY <1>1, JournalInvariant, PTL

\* A restart never resumes a run: the frames of a run are of one process, because the runs
\* found by _load are refused by append.
THEOREM RunsAreNotResumed == Spec => []OneProcessPerRun
<1>1. JournalInv => OneProcessPerRun
  BY DEF JournalInv
<1> QED
  BY <1>1, JournalInvariant, PTL

=============================================================================
