------------------------------ MODULE KubeExec ------------------------------
(***************************************************************************)
(* `kubectl exec' through the HTTP proxy: two tasks pump the messages of a *)
(* websocket, one to the API server and one back, and hand every binary    *)
(* message to a third that records it.  The recorder's channel is bounded, *)
(* as is that of the writer behind it: a slow disk holds the pumps up.     *)
(***************************************************************************)
EXTENDS Recordings, FiniteSets

CONSTANTS MAX_MSGS,      \* bound: messages sent over the websocket
          RECORDER       \* messages the channel to the recorder holds (1000)

ASSUME KubeExecAssumption == MAX_MSGS \in Nat /\ RECORDER \in Nat \ {0}

VARIABLES execPc,        \* "none", "upgrade", "answered"
          recorder,      \* the recorder's task: "off", "on", "end"
          toRecorder,    \* messages it has not read
          pump,          \* the two pumps: their place and message in hand
          relayed,       \* messages passed on, either way
          msgs           \* messages sent so far: their channel, or "text"

execVars == <<recVars, execPc, recorder, toRecorder, pump, relayed, msgs>>

Pumps == {"up", "down"}

\* The websocket's channels: stdin (and resize, recorded alike) goes up, stdout and stderr
\* come down; a text message is not recorded.
Kinds == [up |-> {"stdin", "text"}, down |-> {"stdout", "stderr"}]

\* Of the binary messages the recorder writes channels 0, 1 and 4; it skips 2, stderr.
Recorded(m) == msgs[m] \in {"stdin", "stdout"}

ExecInit ==
    /\ RecordingsInit
    /\ execPc = "none" /\ recorder = "off" /\ toRecorder = <<>>
    /\ pump = [p \in Pumps |-> [pc |-> "end", msg |-> 0]]
    /\ relayed = {} /\ msgs = <<>>

\* handle_websocket_request: recording is off, cannot be started, or starts.
HandleWebsocket ==
    /\ execPc = "none" /\ execPc' = "upgrade"
    /\ \/ recorder' = "off" /\ UNCHANGED recVars
       \/ recorder' = "off" /\ StartFails
       \/ recorder' = "on" /\ \E w \in Writers : StartRecording(w)
    /\ UNCHANGED <<toRecorder, pump, relayed, msgs>>

\* The API server accepts the upgrade, or the handler ends and drops its sender.
Upgrade ==
    /\ execPc = "upgrade"
    /\ \/ execPc' = "answered" /\ pump' = [p \in Pumps |-> [pc |-> "read", msg |-> 0]]
       \/ execPc' = "answered" /\ UNCHANGED pump
    /\ UNCHANGED <<recVars, recorder, toRecorder, relayed, msgs>>

PumpReads(p) ==
    /\ pump[p].pc = "read" /\ Len(msgs) < MAX_MSGS
    /\ \E k \in Kinds[p] : msgs' = Append(msgs, k)
    /\ pump' = [pump EXCEPT ![p] = [pc |-> "record", msg |-> Len(msgs) + 1]]
    /\ UNCHANGED <<recVars, execPc, recorder, toRecorder, relayed>>

\* Plausible slip: try_send, which gives up when the channel is full.
TrySend(p) ==
    /\ toRecorder' = IF msgs[pump[p].msg] = "text" \/ recorder # "on"
                        \/ Len(toRecorder) >= RECORDER
                     THEN toRecorder ELSE Append(toRecorder, pump[p].msg)
    /\ pump' = [pump EXCEPT ![p].pc = "send"]
    /\ UNCHANGED <<recVars, execPc, recorder, relayed, msgs>>

\* The callback: a binary message waits for room in the channel.  Without a recorder the
\* channel is closed and the error ignored.
SendToRecorder(p) ==
    /\ IF msgs[pump[p].msg] = "text" \/ recorder # "on" THEN UNCHANGED toRecorder
       ELSE /\ Len(toRecorder) < RECORDER
            /\ toRecorder' = Append(toRecorder, pump[p].msg)
    /\ pump' = [pump EXCEPT ![p].pc = "send"]
    /\ UNCHANGED <<recVars, execPc, recorder, relayed, msgs>>

PumpRecords(p) == pump[p].pc = "record" /\ SendToRecorder(p)

PumpSends(p) ==
    /\ pump[p].pc = "send"
    /\ \/ /\ relayed' = relayed \cup {pump[p].msg}
          /\ pump' = [pump EXCEPT ![p].pc = "read"]
       \/ /\ pump' = [pump EXCEPT ![p].pc = "end"]
          /\ UNCHANGED relayed
    /\ UNCHANGED <<recVars, execPc, recorder, toRecorder, msgs>>

\* Its source ends or fails.  The other pump, a task of its own, goes on.
PumpEnds(p) ==
    /\ pump[p].pc = "read"
    /\ pump' = [pump EXCEPT ![p].pc = "end"]
    /\ UNCHANGED <<recVars, execPc, recorder, toRecorder, relayed, msgs>>

\* run_websocket_recording: one message; an error is logged.
RecorderWrites ==
    /\ recorder = "on" /\ toRecorder # <<>>
    /\ LET m == Head(toRecorder) IN
       IF Recorded(m) THEN WriteItem(1, m) ELSE UNCHANGED recVars
    /\ toRecorder' = Tail(toRecorder)
    /\ UNCHANGED <<execPc, recorder, pump, relayed, msgs>>

\* The senders are gone: both pumps ended, or there were none.
RecorderEnds ==
    /\ recorder = "on" /\ toRecorder = <<>> /\ execPc # "upgrade"
    /\ \A p \in Pumps : pump[p].pc = "end"
    /\ recorder' = "end" /\ DropWriter(1)
    /\ UNCHANGED <<execPc, toRecorder, pump, relayed, msgs>>

\* Another writer of a recording, as every HTTP request, statement and file operation has
\* one on its session's: it writes an item and is dropped.  An exec's own has a fresh name;
\* here the two share a file, which covers both.
OtherWriter(w) ==
    /\ w # 1 /\ recorder # "off"
    /\ \/ StartRecording(w)
       \/ wr[w].linked /\ MAX_MSGS + w \notin accepted /\ WriteItem(w, MAX_MSGS + w)
       \/ DropWriter(w)
    /\ UNCHANGED <<execPc, recorder, toRecorder, pump, relayed, msgs>>

Background ==
    /\ \/ \E w \in Writers : WriterTask(w) \/ LiveRemoved(w)
       \/ RemoveRecording
    /\ UNCHANGED <<execPc, recorder, toRecorder, pump, relayed, msgs>>

ExecNext ==
    \/ HandleWebsocket \/ Upgrade
    \/ \E p \in Pumps : PumpReads(p) \/ PumpRecords(p) \/ PumpSends(p) \/ PumpEnds(p)
    \/ RecorderWrites \/ RecorderEnds
    \/ \E w \in Writers : OtherWriter(w)
    \/ Background

ExecSpec == ExecInit /\ [][ExecNext]_execVars

-----------------------------------------------------------------------------
\* What was passed on, in either direction, has gone to the recording first: it waits for
\* the recorder or was taken by the writer, however slow both are (websocket.rs sends to
\* the recorder before it relays).
ExecRecorded ==
    recorder # "off" /\ ~ioFailed /\ wr[1].linked =>
      \A m \in relayed : Recorded(m) =>
        m \in accepted \/ \E n \in 1..Len(toRecorder) : toRecorder[n] = m
=============================================================================
