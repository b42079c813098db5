----------------------------- MODULE RunJournal -----------------------------
(***************************************************************************)
(* remote_robot/journal.py: the file journal, its write path through a     *)
(* buffered file, failures of that path, the end of the process or of the  *)
(* power at any moment, and the load of the file by the next process.      *)
(*                                                                         *)
(* A frame is a record.  Bytes matter in one way only: the last frame on   *)
(* disk may be cut off.  An event is named by the attempt to append it.    *)
(***************************************************************************)
EXTENDS Integers, Sequences, SequencesExt

CONSTANTS
    Runs,           \* run ids
    MaxAttempts,    \* bound on the calls of append
    MaxBoots        \* bound on the processes that open the file

ASSUME JournalAssumption == MaxAttempts \in Nat /\ MaxBoots \in Nat

VARIABLES
    fsync,      \* the constructor's fsync argument
    header,     \* magic and header frame: "none", "torn" or "whole"
    file,       \* the whole frames on disk
    torn,       \* a cut-off frame follows them
    buffer,     \* frames in the file object that were not yet written out
    synced,     \* how many frames a loss of power cannot take away
    status,     \* "down", "open", "closed", or "corrupt": the load raised
    events,     \* _events_by_run, what replay returns
    recovered,  \* _recovered_run_ids
    acked,      \* events whose append returned, in any process
    attempts,   \* calls of append so far
    boot,       \* which process this is
    powerLost   \* the power was lost once

diskVars == <<header, file, torn, synced>>
vars == <<fsync, diskVars, buffer, status, events, recovered, acked, attempts,
          boot, powerLost>>

NoEvents == [r \in Runs |-> << >>]

-----------------------------------------------------------------------------
(* append. *)

\* Faulty variant of Writable: recovered runs are like any others.
WritableAgain(r) == status = "open"

Writable(r) == status = "open" /\ r \notin recovered

NextSeq(r) == Len(events[r]) + 1

Frame(r) == [run |-> r, seq |-> NextSeq(r), item |-> attempts + 1, boot |-> boot]

Attempt(r) ==
    /\ Writable(r)
    /\ attempts < MaxAttempts
    /\ attempts' = attempts + 1
    /\ UNCHANGED <<fsync, header, status, recovered, boot, powerLost>>

\* write, flush and fsync all succeed; what an earlier failure left in the
\* buffer goes out first.
AppendEvent(r) ==
    /\ Attempt(r)
    /\ file' = file \o Append(buffer, Frame(r))
    /\ buffer' = << >>
    /\ torn' = FALSE
    /\ synced' = IF fsync THEN Len(file') ELSE synced
    /\ events' = [events EXCEPT ![r] = Append(@, attempts + 1)]
    /\ acked' = [acked EXCEPT ![r] = Append(@, attempts + 1)]

\* Some bytes of frames go out, n of them whole.
WriteOut(frames, n) ==
    /\ file' = file \o SubSeq(frames, 1, n)
    /\ IF n = 0 THEN torn' \in {torn, TRUE} ELSE torn' \in BOOLEAN

\* The flush raises: the event list is left alone, and what was not written
\* stays in the buffer.
FlushFails(r) ==
    /\ Attempt(r)
    /\ \E n \in 0 .. Len(buffer) :
          /\ WriteOut(Append(buffer, Frame(r)), n)
          /\ buffer' = SubSeq(Append(buffer, Frame(r)), n + 1, Len(buffer) + 1)
    /\ UNCHANGED <<synced, events, acked>>

\* os.fsync raises after the flush.
FsyncFails(r) ==
    /\ Attempt(r)
    /\ fsync
    /\ file' = file \o Append(buffer, Frame(r))
    /\ buffer' = << >>
    /\ torn' = FALSE
    /\ UNCHANGED <<synced, events, acked>>

-----------------------------------------------------------------------------
(* The life of the file. *)

\* close writes the buffer out, or fails to and drops it.
Close ==
    /\ status = "open"
    /\ status' = "closed"
    /\ \/ /\ file' = file \o buffer
          /\ torn' = FALSE
       \/ \E n \in 0 .. Len(buffer) - 1 : WriteOut(buffer, n)
    /\ buffer' = << >>
    /\ UNCHANGED <<fsync, header, synced, events, recovered, acked, attempts, boot,
                   powerLost>>

\* The process ends with what is in its memory.
Down ==
    /\ status \in {"open", "closed"}
    /\ status' = "down"
    /\ buffer' = << >>
    /\ events' = NoEvents
    /\ recovered' = {}
    /\ UNCHANGED <<fsync, acked, attempts, boot>>

Crash == Down /\ UNCHANGED <<header, file, torn, synced, powerLost>>

\* What was not synced may go too, from some byte on.
PowerLoss ==
    /\ Down
    /\ \E n \in synced .. Len(file) :
          /\ file' = SubSeq(file, 1, n)
          /\ IF n = Len(file) THEN torn' \in {torn, FALSE} ELSE torn' \in BOOLEAN
          /\ header' \in IF fsync \/ n > 0 THEN {header} ELSE {header, "torn"}
    /\ powerLost' = TRUE
    /\ UNCHANGED synced

\* _load: the events of every run after each frame, from the first to the last.
Collected(frames) ==
    LET table[n \in 0 .. Len(frames)] ==
            IF n = 0 THEN NoEvents
            ELSE [table[n - 1] EXCEPT ![frames[n].run] = Append(@, frames[n].item)]
    IN  table

\* Faulty variant of Sequenced: the numbers are not compared.
SequencedAnyhow == TRUE

\* _event_from_record: every frame has the next number of its run.
Sequenced ==
    \A n \in 1 .. Len(file) : file[n].seq = Len(Collected(file)[n - 1][file[n].run]) + 1

Boot ==
    /\ status = "down"
    /\ boot < MaxBoots
    /\ boot' = boot + 1
    /\ UNCHANGED <<fsync, file, torn, synced, buffer, acked, attempts, powerLost>>

\* The constructor creates the file, or is stopped in the middle of it.
Create ==
    /\ Boot
    /\ header = "none"
    /\ \/ header' = "whole" /\ status' = "open"
       \/ header' = "torn" /\ UNCHANGED status
    /\ UNCHANGED <<events, recovered>>

Loadable == header = "whole" /\ ~torn /\ Sequenced

\* The constructor loads the file; every run in it is read-only from now on.
Load ==
    /\ Boot
    /\ header # "none"
    /\ Loadable
    /\ status' = "open"
    /\ events' = Collected(file)[Len(file)]
    /\ recovered' = {file[n].run : n \in 1 .. Len(file)}
    /\ UNCHANGED header

\* JournalCorruptionError: the process has no journal and does not start.
LoadFails ==
    /\ Boot
    /\ header # "none"
    /\ ~Loadable
    /\ status' = "corrupt"
    /\ UNCHANGED <<header, events, recovered>>

Init ==
    /\ fsync \in BOOLEAN
    /\ header = "none" /\ file = << >> /\ torn = FALSE /\ synced = 0
    /\ buffer = << >> /\ status = "down" /\ events = NoEvents /\ recovered = {}
    /\ acked = NoEvents /\ attempts = 0 /\ boot = 0 /\ powerLost = FALSE

Next ==
    \/ \E r \in Runs : AppendEvent(r) \/ FlushFails(r) \/ FsyncFails(r)
    \/ Close \/ Crash \/ PowerLoss
    \/ Create \/ Load \/ LoadFails

Spec == Init /\ [][Next]_vars

-----------------------------------------------------------------------------
(* Properties. *)

\* What append acknowledged is replayed, in order, by this process and by every
\* later one that can open the file, with at most one event more, whose append
\* had failed.  A loss of power is survived with fsync only.
AcknowledgedIsReplayed ==
    status \in {"open", "closed"} /\ (fsync \/ ~powerLost) =>
        \A r \in Runs :
            /\ IsPrefix(acked[r], events[r])
            /\ Len(events[r]) <= Len(acked[r]) + 1

\* A restart never resumes a run: all frames of a run are of one process.
OneProcessPerRun ==
    \A i, j \in 1 .. Len(file) :
        file[i].run = file[j].run => file[i].boot = file[j].boot

\* "A file store opened after a server restart makes all recovered run IDs
\* read-only: their evidence can be replayed": unless the file was cut off, a
\* later process can open it.
EvidenceCanBeReplayed == status = "corrupt" => torn \/ header = "torn"
=============================================================================
