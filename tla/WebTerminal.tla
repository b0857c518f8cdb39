---------------------------- MODULE WebTerminal ----------------------------
(***************************************************************************)
(* The terminals of the web interface.  An SSH terminal drives the SSH     *)
(* client task of SshSession over its command and event channels; a        *)
(* database terminal runs a command-line client in a pseudo-terminal.      *)
(* Both are one handler that owns a WebSocket: it checks the request,      *)
(* registers the session, sets up the upstream side and then bridges: an   *)
(* output task, an input task and the session's close signal race, and the *)
(* handler tears the rest down when the first of them is over.             *)
(*                                                                         *)
(* The handler of a database terminal joins two operating system threads   *)
(* from an asynchronous task, and so keeps a worker of the runtime busy    *)
(* while it waits: Workers is their number.                                *)
(***************************************************************************)
EXTENDS Naturals, FiniteSets

CONSTANTS Terms,                  \* terminals the browsers of one user open
          MAX_SESSIONS_PER_USER,  \* SSH terminals a user may have at once
          Workers,                \* worker threads of the runtime
          HostKeyModes            \* settings of ssh.host_key_verification

ASSUME TermAssumption == /\ MAX_SESSIONS_PER_USER \in Nat \ {0}
                         /\ Workers \in Nat \ {0}
                         /\ HostKeyModes \subseteq {"AutoAccept", "AutoReject", "Prompt"}

VARIABLES kind,     \* kind[t]: "ssh" or "db"
          term,     \* the handlers
          up,       \* what each handler has set up: SSH client, or child process
          slots     \* SESSION_COUNTS of the user

termVars == <<kind, term, up, slots>>

NoTerm == [pc |-> "none", row |-> "none", browser |-> TRUE, asked |-> FALSE,
           close |-> FALSE, input |-> "none", output |-> "none"]
NoUpstream == [st |-> "none", chan |-> FALSE, event |-> "-", told |-> FALSE,
               reader |-> FALSE, writer |-> FALSE, said |-> FALSE]

TermInit ==
    /\ term = [t \in Terms |-> NoTerm]
    /\ up = [t \in Terms |-> NoUpstream]
    /\ slots = 0

-----------------------------------------------------------------------------
(* Helpers. *)

\* A handler that waits for threads holds its worker: the others run on the rest.
Blocked == {t \in Terms : term[t].pc = "join"}
WorkerFree == Cardinality(Blocked) < Workers

At(t, k, pc) == kind[t] = k /\ term[t].pc = pc /\ WorkerFree

To(t, pc) == term' = [term EXCEPT ![t].pc = pc]

\* The handler returns: the session's handle is dropped and its row ends (a row
\* that cleanup_empty_session deleted stays deleted); so is the SessionSlot.
release(t) == IF kind[t] = "ssh" THEN slots - 1 ELSE slots

Returns(t) ==
    /\ term' = [term EXCEPT ![t] = [@ EXCEPT !.pc = "over",
                                             !.row = IF term[t].row = "active" THEN "ended"
                                                                             ELSE term[t].row]]
    /\ slots' = release(t)

\* The SSH client: abort_tx, or RCCommand::Disconnect on command_tx.
Told(t) == up' = [up EXCEPT ![t] = [@ EXCEPT !.told = TRUE, !.event = "-"]]

-----------------------------------------------------------------------------
(* The request. *)

\* Origin, target name, ticket and user are checked before the upgrade; an SSH
\* terminal then reserves one of the user's slots.
SlotTaken(t) == slots + 1

api_terminal(t) ==
    /\ term[t].pc = "none" /\ WorkerFree
    /\ \/ To(t, "over") /\ UNCHANGED slots
       \/ /\ kind[t] = "ssh" /\ slots < MAX_SESSIONS_PER_USER
          /\ To(t, "upgrade") /\ slots' = SlotTaken(t)
       \/ kind[t] = "ssh" /\ slots >= MAX_SESSIONS_PER_USER /\ To(t, "over") /\ UNCHANGED slots
       \/ kind[t] = "db" /\ To(t, "upgrade") /\ UNCHANGED slots
    /\ UNCHANGED <<kind, up>>

\* Plausible slip: the slot is only returned by the terminal itself.
LeaksSlot(t) == To(t, "over") /\ UNCHANGED slots

\* The WebSocket upgrade fails: the callback that owns the slot never runs.
UpgradeDropped(t) == Returns(t)

UpgradeFails(t) ==
    /\ term[t].pc = "upgrade" /\ WorkerFree
    /\ UpgradeDropped(t)
    /\ UNCHANGED <<kind, up>>

\* resolve_and_authorize refuses (no such user or target, no access, wrong kind,
\* no account can be chosen), the database terminal's rate limit is exceeded, or
\* the session cannot be registered.
resolve_and_authorize(t) ==
    /\ term[t].pc = "upgrade" /\ WorkerFree
    /\ Returns(t)
    /\ UNCHANGED <<kind, up>>

\* register_session, set_user_info, set_target.
Registered(t, pc) == [term EXCEPT ![t] = [@ EXCEPT !.pc = pc, !.row = "active"]]

\* establish_ssh_session: the client is created and told to connect.
establish_ssh_session(t) ==
    /\ At(t, "ssh", "upgrade")
    /\ term' = Registered(t, "connect")
    /\ up' = [up EXCEPT ![t].st = "connecting"]
    /\ UNCHANGED <<kind, slots>>

\* spawn_db_client, after the recorder: the client may fail to start.
spawn_db_client(t) ==
    /\ At(t, "db", "upgrade")
    /\ term' = Registered(t, "spawn")
    /\ UNCHANGED <<kind, up, slots>>

SpawnFails(t) ==
    /\ At(t, "db", "spawn")
    /\ Returns(t)
    /\ UNCHANGED <<kind, up>>

\* bridge_websocket_pty: reader and writer thread, output and input task.
bridge_websocket_pty(t) ==
    /\ At(t, "db", "spawn")
    /\ term' = [term EXCEPT ![t] = [@ EXCEPT !.pc = "bridge", !.input = "run", !.output = "run"]]
    /\ up' = [up EXCEPT ![t] = [@ EXCEPT !.st = "up", !.reader = TRUE, !.writer = TRUE]]
    /\ UNCHANGED <<kind, slots>>

-----------------------------------------------------------------------------
(* Connecting an SSH terminal: the handler only waits for the client's events. *)

\* The client: the connection fails, or presents an unknown or a known key.
ClientConnects(t) ==
    /\ up[t].st = "connecting" /\ up[t].event = "-" /\ ~up[t].told
    /\ \E e \in {"ConnectionError", "HostKeyUnknown", "Connected"} :
          up' = [up EXCEPT ![t] = [@ EXCEPT !.event = e,
                    !.st = IF e = "Connected" THEN "up"
                           ELSE IF e = "ConnectionError" THEN "down" ELSE up[t].st]]
    /\ UNCHANGED <<kind, term, slots>>

\* handle_host_key_verification by the configured mode.
handle_host_key_verification(t) ==
    /\ At(t, "ssh", "connect") /\ up[t].event = "HostKeyUnknown"
    /\ \E mode \in HostKeyModes :
          CASE mode = "AutoAccept" -> /\ up' = [up EXCEPT ![t] = [@ EXCEPT !.st = "up", !.event = "Connected"]]
                                      /\ UNCHANGED <<term, slots>>
            [] mode = "AutoReject" -> Returns(t) /\ Told(t)
            [] mode = "Prompt" -> To(t, "prompt") /\ UNCHANGED <<up, slots>>
    /\ UNCHANGED kind

\* prompt_host_key_via_websocket: the browser accepts (ok), or refuses, leaves or
\* lets HOST_KEY_VERIFY_TIMEOUT pass.
prompt_host_key_via_websocket(t, ok) ==
    /\ At(t, "ssh", "prompt")
    /\ IF ok THEN /\ term[t].browser
                  /\ To(t, "connect")
                  /\ up' = [up EXCEPT ![t] = [@ EXCEPT !.st = "up", !.event = "Connected"]]
                  /\ UNCHANGED slots
             ELSE Returns(t) /\ Told(t)
    /\ UNCHANGED kind

\* wait_for_connection: connected, so ask for a channel and a PTY; or give up.
wait_for_connection(t) ==
    /\ At(t, "ssh", "connect")
    /\ \/ /\ up[t].event = "Connected"
          /\ To(t, "pty")
          /\ up' = [up EXCEPT ![t].event = "opening"]
          /\ UNCHANGED slots
       \/ up[t].event = "ConnectionError" /\ Returns(t) /\ Told(t)
    /\ UNCHANGED kind

\* The client opens the channel; when the target refuses, the command fails and,
\* sent without a reply channel, leaves no trace.
open_shell(t) ==
    /\ up[t].st = "up" /\ up[t].event = "opening" /\ ~up[t].told
    /\ \E ok \in BOOLEAN : up' = [up EXCEPT ![t] = [@ EXCEPT !.chan = ok, !.event = "asked"]]
    /\ UNCHANGED <<kind, term, slots>>

\* The target answers the request for the PTY or the shell on an open channel.
TargetAnswers(t) ==
    /\ up[t].st = "up" /\ up[t].event = "asked" /\ up[t].chan
    /\ \E e \in {"Success", "ChannelFailure"} : up' = [up EXCEPT ![t].event = e]
    /\ UNCHANGED <<kind, term, slots>>

\* wait_for_success: only Success, ChannelFailure and the end of the client's
\* events are noticed.
wait_for_success(t) ==
    /\ kind[t] = "ssh" /\ term[t].pc \in {"pty", "shell"} /\ WorkerFree
    /\ \/ /\ up[t].event = "Success" /\ term[t].pc = "pty"
          /\ To(t, "shell")
          /\ up' = [up EXCEPT ![t].event = "asked"]
          /\ UNCHANGED slots
       \/ up[t].event = "ChannelFailure" /\ Returns(t) /\ Told(t)
    /\ UNCHANGED kind

\* The shell runs: report it, start the recorder and the two tasks.
bridge_websocket_ssh(t) ==
    /\ At(t, "ssh", "shell") /\ up[t].event = "Success"
    /\ term' = [term EXCEPT ![t] = [@ EXCEPT !.pc = "bridge", !.input = "run", !.output = "run"]]
    /\ up' = [up EXCEPT ![t].event = "-"]
    /\ UNCHANGED <<kind, slots>>

\* The target, or the network, drops the connection: Close and State events.
TargetDrops(t) ==
    /\ kind[t] = "ssh" /\ up[t].st = "up"
    /\ up' = [up EXCEPT ![t].st = "down"]
    /\ UNCHANGED <<kind, term, slots>>

\* The client obeys an abort or a disconnect.
ClientStops(t) ==
    /\ kind[t] = "ssh" /\ up[t].told /\ up[t].st # "down" /\ WorkerFree
    /\ up' = [up EXCEPT ![t].st = "down"]
    /\ UNCHANGED <<kind, term, slots>>

-----------------------------------------------------------------------------
(* The bridge. *)

\* The browser is gone, or the writer is: the task ends; an SSH terminal's input
\* task tells the client to disconnect.
InputEnds(t) ==
    /\ term[t].input = "run" /\ WorkerFree
    /\ ~term[t].browser \/ (kind[t] = "db" /\ ~up[t].writer)
    /\ term' = [term EXCEPT ![t].input = "ended"]
    /\ IF kind[t] = "ssh" THEN Told(t) ELSE UNCHANGED up
    /\ UNCHANGED <<kind, slots>>

\* The output task forwards what the target or the child prints (and records it).
OutputTask(t) ==
    /\ term[t].output = "run" /\ term[t].browser /\ up[t].st = "up" /\ WorkerFree
    /\ up' = [up EXCEPT ![t].said = TRUE]
    /\ UNCHANGED <<kind, term, slots>>

\* It ends with the channel, with the reader thread, or when a frame or a ping
\* cannot be sent.
OutputEnds(t) ==
    /\ term[t].output = "run" /\ WorkerFree
    /\ \/ ~term[t].browser
       \/ kind[t] = "ssh" /\ up[t].st = "down"
       \/ kind[t] = "db" /\ ~up[t].reader
    /\ term' = [term EXCEPT ![t].output = "ended"]
    /\ UNCHANGED <<kind, up, slots>>

\* The shell exits: Eof, ExitStatus or Close ends the output task, while the
\* connection to the target stays up until somebody disconnects it.
ShellExits(t) ==
    /\ kind[t] = "ssh" /\ up[t].st = "up" /\ term[t].output = "run" /\ WorkerFree
    /\ term' = [term EXCEPT ![t].output = "ended"]
    /\ UNCHANGED <<kind, up, slots>>

\* abort(): the runtime drops the task when a worker gets to it.
Aborted(t, task) ==
    /\ term[t][task] = "abort" /\ WorkerFree
    /\ term' = [term EXCEPT ![t][task] = "ended"]
    /\ UNCHANGED <<kind, up, slots>>

\* Plausible slip: the close branch only sends the message.
ClosesOnly(t) == term' = [term EXCEPT ![t] = [@ EXCEPT !.close = FALSE, !.pc = "bridge"]]
                 /\ UNCHANGED up

\* What abort() leaves of a task: one that is over stays over.
Stopped(task) == IF task = "run" THEN "abort" ELSE task

\* The select of the bridge: its close branch aborts both tasks, closes the
\* socket and tells the client to disconnect ...
ClosedBridge(t) ==
    /\ term' = [term EXCEPT ![t] = [@ EXCEPT !.close = FALSE, !.browser = FALSE,
                  !.pc = IF kind[t] = "ssh" THEN "cleanup" ELSE "kill",
                  !.input = Stopped(term[t].input),
                  !.output = Stopped(term[t].output)]]
    /\ IF kind[t] = "ssh" THEN Told(t) ELSE UNCHANGED up

\* ... the others end it when one task is over; the other task is left alone.
select(t) ==
    /\ term[t].pc = "bridge" /\ WorkerFree
    /\ \/ term[t].close /\ ClosedBridge(t)
       \/ /\ "ended" \in {term[t].input, term[t].output}
          /\ To(t, IF kind[t] = "ssh" THEN "cleanup" ELSE "kill")
          /\ UNCHANGED up
    /\ UNCHANGED <<kind, slots>>

\* A database terminal kills its child and joins the threads, on its worker.
KillAndJoin(t) ==
    /\ At(t, "db", "kill")
    /\ up' = [up EXCEPT ![t].st = "down"]
    /\ To(t, "join")
    /\ UNCHANGED <<kind, slots>>

\* The child leaves by itself.
ChildExits(t) ==
    /\ kind[t] = "db" /\ up[t].st = "up"
    /\ up' = [up EXCEPT ![t].st = "down"]
    /\ UNCHANGED <<kind, term, slots>>

\* Threads: the reader ends with the child, the writer when in_tx is dropped
\* with the input task, or when it writes to a child that is gone.
ReaderEnds(t) ==
    /\ up[t].reader /\ up[t].st = "down"
    /\ up' = [up EXCEPT ![t].reader = FALSE]
    /\ UNCHANGED <<kind, term, slots>>

WriterEnds(t) ==
    /\ up[t].writer /\ term[t].input = "ended"
    /\ up' = [up EXCEPT ![t].writer = FALSE]
    /\ UNCHANGED <<kind, term, slots>>

WriteFails(t) ==
    /\ up[t].writer /\ up[t].st = "down" /\ term[t].input = "run" /\ term[t].browser
    /\ up' = [up EXCEPT ![t].writer = FALSE]
    /\ UNCHANGED <<kind, term, slots>>

Joined(t) ==
    /\ term[t].pc = "join" /\ ~up[t].reader /\ ~up[t].writer
    /\ To(t, "cleanup")
    /\ UNCHANGED <<kind, up, slots>>

\* cleanup_empty_session deletes the row and the recordings of a short or silent
\* session: less than two seconds, or no output of a database client.
cleanup_empty_session(t) ==
    /\ term[t].pc = "cleanup" /\ WorkerFree
    /\ \E short \in BOOLEAN :
          term' = [term EXCEPT ![t] = [@ EXCEPT !.pc = "return",
                     !.row = IF short \/ (kind[t] = "db" /\ ~up[t].said) THEN "deleted"
                             ELSE term[t].row]]
    /\ UNCHANGED <<kind, up, slots>>

HandlerReturns(t) ==
    /\ term[t].pc = "return" /\ WorkerFree
    /\ Returns(t)
    /\ UNCHANGED <<kind, up>>

-----------------------------------------------------------------------------
(* The browser leaves; the session is closed from the gateway's side. *)

BrowserLeaves(t) ==
    /\ term[t].browser /\ term[t].pc \notin {"none", "over"}
    /\ term' = [term EXCEPT ![t].browser = FALSE]
    /\ UNCHANGED <<kind, up, slots>>

\* TerminalSessionHandle::close keeps one permit.
CloseTerminal(t) ==
    /\ term[t].row = "active" /\ ~term[t].asked
    /\ term' = [term EXCEPT ![t] = [@ EXCEPT !.close = TRUE, !.asked = TRUE]]
    /\ UNCHANGED <<kind, up, slots>>

-----------------------------------------------------------------------------
Handler(t) ==
    \/ resolve_and_authorize(t) \/ establish_ssh_session(t) \/ spawn_db_client(t)
    \/ SpawnFails(t) \/ bridge_websocket_pty(t)
    \/ handle_host_key_verification(t) \/ prompt_host_key_via_websocket(t, FALSE)
    \/ wait_for_connection(t) \/ wait_for_success(t) \/ bridge_websocket_ssh(t)
    \/ select(t) \/ KillAndJoin(t) \/ Joined(t) \/ cleanup_empty_session(t)
    \/ HandlerReturns(t)

Tasks(t) == InputEnds(t) \/ OutputEnds(t) \/ Aborted(t, "input") \/ Aborted(t, "output")

Threads(t) == ReaderEnds(t) \/ WriterEnds(t)

Client(t) == ClientConnects(t) \/ open_shell(t) \/ ClientStops(t)

TermNext ==
    \E t \in Terms :
       \/ api_terminal(t) \/ UpgradeFails(t) \/ Handler(t) \/ Tasks(t) \/ Threads(t)
       \/ Client(t) \/ WriteFails(t) \/ OutputTask(t)
       \/ prompt_host_key_via_websocket(t, TRUE) \/ TargetAnswers(t) \/ TargetDrops(t)
       \/ ShellExits(t) \/ ChildExits(t) \/ BrowserLeaves(t) \/ CloseTerminal(t)

\* Tasks and threads that are ready run; the prompt ends by its time limit.  The
\* target and the browser owe nothing.
TermFairness ==
    \A t \in Terms : /\ WF_termVars(Handler(t)) /\ WF_termVars(Tasks(t))
                     /\ WF_termVars(Threads(t)) /\ WF_termVars(Client(t))

TermSpec == TermInit /\ [][TermNext]_termVars /\ TermFairness

-----------------------------------------------------------------------------
(* Properties. *)

\* The count of a user's terminals is the number of slots the user holds, on
\* every exit path, so that nobody is locked out of the terminals (SessionSlot).
SlotsMatchTerminals ==
    /\ slots = Cardinality({t \in Terms : kind[t] = "ssh" /\ term[t].pc \notin {"none", "over"}})
    /\ slots <= MAX_SESSIONS_PER_USER

\* Once a terminal is bridged, the loss of the browser takes all of it down: the
\* row, the connection to the target or the child, and the threads; a terminal
\* that failed earlier leaves nothing behind either.  A close of a bridged SSH
\* terminal ends its session (the select of the bridges and what follows it).
TornDown(t) == /\ term[t].row # "active" /\ up[t].st \in {"none", "down"}
               /\ ~up[t].reader /\ ~up[t].writer

Bridged == {"bridge", "kill", "join", "cleanup", "return"}

LeftBehind(t) ==
    \/ ~term[t].browser /\ term[t].pc \in Bridged \cup {"over"} /\ ~TornDown(t)
    \/ kind[t] = "ssh" /\ term[t].asked /\ term[t].pc \in Bridged /\ term[t].row = "active"

BridgeTornDown == (\E t \in Terms : LeftBehind(t)) ~> (\A t \in Terms : ~LeftBehind(t))

=============================================================================
