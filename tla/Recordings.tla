----------------------------- MODULE Recordings -----------------------------
(***************************************************************************)
(* One recording of a session: its row, its file, and the writers that     *)
(* append to it.  A writer is a task with a bounded channel in front and a *)
(* buffer behind; whoever records holds a handle on the channel.  Starting *)
(* a recording by the name of one that exists opens another writer on the  *)
(* same file, as every audit item does.  Shutdown waits for the count of   *)
(* writers to be zero before the process exits.                            *)
(***************************************************************************)
EXTENDS Naturals, Sequences

CONSTANTS MAX_WRITERS,   \* bound: times the recording is started
          CHANNEL        \* items the channel of a writer holds (1024)

ASSUME RecordingsAssumption == MAX_WRITERS \in Nat /\ CHANNEL \in Nat \ {0}

Writers == 1..MAX_WRITERS

VARIABLES wr,              \* the writers
          file,            \* items in the file
          row,             \* the recording's row: "none", "open", "ended"
          live,            \* the writer whose broadcast a viewer can subscribe to, 0 if none
          active_writers,
          accepted,        \* ghost: items for which write() has answered Ok
          ioFailed         \* ghost: a write to the file has failed

recVars == <<wr, file, row, live, active_writers, accepted, ioFailed>>

\* linked: the open file is still the one at the path.  dropped: "no", "signal" once
\* the RecordingWriter was dropped, "seen" by the live map.
Unused == [pc |-> "unused", chan |-> <<>>, buf |-> <<>>,
           linked |-> TRUE, dropped |-> "no"]

RecordingsInit ==
    /\ wr = [w \in Writers |-> Unused]
    /\ file = <<>> /\ row = "none" /\ live = 0
    /\ active_writers = 0
    /\ accepted = {} /\ ioFailed = FALSE

NextWriter(w) == /\ wr[w].pc = "unused"
                 /\ \A v \in 1..(w - 1) : wr[v].pc # "unused"

\* start(): the row is found or inserted, the file opened for appending, the sender put
\* in the live map, the count raised, the task spawned.  An ended row stays ended.
StartRecording(w) ==
    /\ NextWriter(w)
    /\ row' = IF row = "none" THEN "open" ELSE row
    /\ wr' = [wr EXCEPT ![w] = [Unused EXCEPT !.pc = "open"]]
    /\ live' = w
    /\ active_writers' = active_writers + 1
    /\ UNCHANGED <<file, accepted, ioFailed>>

\* The file cannot be opened: the row is there, a writer is not.
StartFails ==
    /\ row = "none" /\ row' = "open"
    /\ UNCHANGED <<wr, file, live, active_writers, accepted, ioFailed>>

Held(w) == wr[w].pc # "unused" /\ wr[w].dropped = "no"

\* write() waits for room; it fails once the task is over.
CanWrite(w) == Held(w) /\ (wr[w].pc = "gone" \/ Len(wr[w].chan) < CHANNEL)

WriteItem(w, item) ==
    /\ CanWrite(w)
    /\ IF wr[w].pc = "gone" THEN UNCHANGED <<wr, accepted>>
       ELSE /\ wr' = [wr EXCEPT ![w].chan = Append(@, item)]
            /\ accepted' = IF wr[w].linked THEN accepted \cup {item} ELSE accepted
    /\ UNCHANGED <<file, row, live, active_writers, ioFailed>>

\* Drop: its signal is sent by a task of its own.
DropWriter(w) ==
    /\ Held(w)
    /\ wr' = [wr EXCEPT ![w].dropped = "signal"]
    /\ UNCHANGED <<file, row, live, active_writers, accepted, ioFailed>>

\* The first signal of a writer takes the recording out of the live map, whichever
\* writer's sender is there by now.
LiveRemoved(w) ==
    /\ wr[w].dropped = "signal"
    /\ wr' = [wr EXCEPT ![w].dropped = "seen"]
    /\ live' = 0
    /\ UNCHANGED <<file, row, active_writers, accepted, ioFailed>>

-----------------------------------------------------------------------------
(* The task of a writer. *)

ToFile(w, items) == file' = IF wr[w].linked THEN file \o items ELSE file

\* An item goes to the buffer, which may push what it holds to the file first.
Receive(w) ==
    /\ wr[w].pc = "open" /\ wr[w].chan # <<>>
    /\ LET item == Head(wr[w].chan) IN
       \/ /\ wr' = [wr EXCEPT ![w].chan = Tail(@), ![w].buf = Append(@, item)]
          /\ UNCHANGED file
       \/ /\ wr[w].buf # <<>> /\ ToFile(w, wr[w].buf)
          /\ wr' = [wr EXCEPT ![w].chan = Tail(@), ![w].buf = <<item>>]
    /\ UNCHANGED <<row, live, active_writers, accepted, ioFailed>>

\* Every five seconds.
PeriodicFlush(w) ==
    /\ wr[w].pc = "open" /\ wr[w].buf # <<>>
    /\ ToFile(w, wr[w].buf)
    /\ wr' = [wr EXCEPT ![w].buf = <<>>]
    /\ UNCHANGED <<row, live, active_writers, accepted, ioFailed>>

\* An error of a write or a flush ends the loop; what is left is not read.
WriteFails(w) ==
    /\ wr[w].pc = "open" /\ (wr[w].chan # <<>> \/ wr[w].buf # <<>>)
    /\ wr' = [wr EXCEPT ![w].pc = "drain"]
    /\ ioFailed' = TRUE
    /\ UNCHANGED <<file, row, live, active_writers, accepted>>

\* recv() answers None: the writer is dropped and the channel is empty.
ChannelClosed(w) == ~Held(w) /\ wr[w].chan = <<>>

LoopEnds(w) ==
    /\ wr[w].pc = "open" /\ ChannelClosed(w)
    /\ wr' = [wr EXCEPT ![w].pc = "drain"]
    /\ UNCHANGED <<file, row, live, active_writers, accepted, ioFailed>>

\* The last flush; if it fails the row is not touched.
FinalFlush(w) ==
    /\ wr[w].pc = "drain"
    /\ \/ /\ ToFile(w, wr[w].buf)
          /\ wr' = [wr EXCEPT ![w].pc = "flushed", ![w].buf = <<>>]
          /\ UNCHANGED ioFailed
       \/ /\ wr[w].buf # <<>>
          /\ wr' = [wr EXCEPT ![w].pc = "ended", ![w].buf = <<>>]
          /\ ioFailed' = TRUE /\ UNCHANGED file
    /\ UNCHANGED <<row, live, active_writers, accepted>>

\* The row is ended, unless it was deleted or the database fails.
EndRow(w) ==
    /\ wr[w].pc = "flushed"
    /\ wr' = [wr EXCEPT ![w].pc = "ended"]
    /\ row' \in {row, IF row = "none" THEN row ELSE "ended"}
    /\ UNCHANGED <<file, live, active_writers, accepted, ioFailed>>

\* Plausible slip: the writer is no longer counted once it has stopped receiving.
CountedAsDrained(w) == wr[w].pc = "drain"

Countable(w) == wr[w].pc = "ended"

Uncount(w) ==
    /\ Countable(w)
    /\ active_writers' = active_writers - 1
    /\ wr' = [wr EXCEPT ![w].pc = "gone", ![w].chan = <<>>]
    /\ UNCHANGED <<file, row, live, accepted, ioFailed>>

WriterTask(w) == \/ Receive(w) \/ PeriodicFlush(w) \/ WriteFails(w) \/ LoopEnds(w)
                 \/ FinalFlush(w) \/ EndRow(w) \/ Uncount(w)

\* remove(), after the row was deleted: open writers go on with a file that has no name.
RemoveRecording ==
    /\ row # "none" /\ row' = "none"
    /\ file' = <<>> /\ accepted' = {}
    /\ wr' = [w \in Writers |-> [wr[w] EXCEPT !.linked = @ /\ wr[w].pc = "unused"]]
    /\ UNCHANGED <<live, active_writers, ioFailed>>

-----------------------------------------------------------------------------
\* Once no writer is counted, all that write() took is in the file: the process may exit
\* (services.rs shutdown waits for this count "for their recordings to reach the disk").
\* Excepted are files that could not be written and recordings that were removed.
DrainedIsOnDisk ==
    active_writers = 0 /\ ~ioFailed => \A i \in accepted : \E n \in 1..Len(file) : file[n] = i
=============================================================================
