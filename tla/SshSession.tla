----------------------------- MODULE SshSession -----------------------------
(* One SSH connection through the gateway after its login: the russh server *)
(* handler that turns client messages into events                           *)
(* (gated-protocol-ssh/src/server/russh_handler.rs), the session's event    *)
(* loop (server/session.rs) with its command review and host key prompt,    *)
(* the remote client task that talks to the target (client/mod.rs), and the *)
(* administrator who reviews commands and closes the session.               *)
(*                                                                          *)
(* A server channel and the Uuid the session maps it to are one identifier  *)
(* here.  The tasks that only move events from one queue to the next are    *)
(* left out: they neither drop nor reorder.  A channel's own task           *)
(* (client/channel_session.rs) hands an operation to the target in the step *)
(* that puts it in the channel's pipe.                                      *)
EXTENDS Naturals, Sequences

CONSTANTS
    ShellChans,     \* session channels
    DirectChans,    \* direct-tcpip and direct-streamlocal channels
    ForwardedChans, \* channels the target opens
    Rules,          \* the enabled command-ACL rules
    Commands,       \* exec command lines, each requested at most once
    Line,           \* the one line an interactive user types, a command
    Scripts,        \* the sequences of requests a client makes
    Chunks,         \* the input chunks of this instance
    HostKeyModes,   \* the host_key_verification settings of this instance
    MaxOutput       \* bound: messages the target sends by itself

Chan == ShellChans \cup DirectChans \cup ForwardedChans

\* A chunk of input: its text, whether it ends the line, and whether it went
\* to a PTY, which the session adds.
Chunk == [text : STRING, nl : BOOLEAN, pty : BOOLEAN]

ASSUME SshAssumption ==
    /\ ForwardedChans \cap (ShellChans \cup DirectChans) = {}
    /\ Chunks \subseteq Chunk
    /\ MaxOutput \in Nat

VARIABLES
    left,     \* requests the client has still to make
    cchan,    \* the client's view of its channels
    req,      \* the request the russh handler waits on, or NoReq
    gone,     \* the client's connection is over and the handler dropped
    s,        \* the fields of ServerSession
    pc,       \* where the session's event loop is
    prompt,   \* [on |-> host_key_prompt_active, task, input]
    ended,    \* the session's future has finished
    reply,    \* the answer to the command the session waits for
    rcq,      \* commands sent to the remote client
    rc,       \* the fields of RemoteClient
    abort,    \* an abort message waits for the remote client
    hk,       \* the target's host key: what the check is waiting for
    ev,       \* RCEvents on their way to the session
    out,      \* operations that reached the target, in order
    tleft,    \* messages the target may still send by itself
    audit,    \* the shell-command records
    review,   \* the entry of the paused command in CommandReviewStore
    decided,  \* the commands with the decisions that were answered Ok
    ctl       \* the administrator's Close: "no", "asked" or "handled"

client == <<left, cchan, req, gone>>
session == <<s, pc, prompt, ended, reply>>
remote == <<rcq, rc, abort, hk, ev>>
target == <<out, tleft>>
reviews == <<audit, review, decided>>
vars == <<left, cchan, req, gone, s, pc, prompt, ended, reply, rcq, rc, abort,
          hk, ev, out, tleft, audit, review, decided, ctl>>

\* The elements of q at the given places, in order.
Kept(q, places) ==
    LET upto[i \in 0..Len(q)] ==
            IF i = 0 THEN <<>>
            ELSE IF i \in places THEN Append(upto[i - 1], q[i]) ELSE upto[i - 1]
    IN upto[Len(q)]

NoReq == [k |-> "none"]
Opens == {"OpenShell", "OpenDirectTCPIP", "OpenDirectStreamlocal"}

\* An operation as the remote client receives it: RCCommand::Channel.
Op(c, what, arg) == [c |-> c, what |-> what, arg |-> arg]
Cmd(op, wait) == [kind |-> "channel", op |-> op, wait |-> wait]
Plain(kind, wait) == [kind |-> kind, op |-> Op("-", kind, "-"), wait |-> wait]

Init ==
    /\ left \in Scripts /\ req = NoReq /\ gone = FALSE
    /\ cchan = [c \in Chan |-> "none"]
    /\ \E target_ \in {"Found", "NotFound"} :
        s = [st |-> "NotInitialized", handle |-> TRUE, map |-> {}, all |-> {},
             pty |-> {}, sftp |-> {}, line |-> [c \in Chan |-> {}],
             target |-> target_]
    /\ pc = "idle" /\ ended = FALSE /\ reply = "none"
    /\ prompt = [on |-> FALSE, task |-> FALSE, input |-> <<>>]
    /\ rcq = <<>> /\ abort = FALSE /\ hk = "none" /\ ev = <<>>
    /\ rc = [pc |-> "loop", st |-> "NotInitialized", session |-> FALSE,
             pending |-> <<>>, drain |-> <<>>, forwards |-> {}, pipes |-> {}]
    /\ out = <<>> /\ tleft = MaxOutput
    /\ audit = {} /\ review = "none" /\ decided = {} /\ ctl = "no"

----------------------------------------------------------------------------
(* The command ACL: the enabled rules in scope, lowest priority first.      *)

rule_applies(r, protocol) == r.protocol \in {"any", protocol} /\ r.inScope

pattern_matches(r, command) == command \in r.hits

evaluate(command) ==
    LET candidates == {r \in Rules : rule_applies(r, "ssh") /\ pattern_matches(r, command)}
        first == CHOOSE r \in candidates : \A q \in candidates :
                     r.priority < q.priority \/ (r.priority = q.priority /\ r.id <= q.id)
    IN IF candidates = {} THEN "allow" ELSE first.action

\* One record per command; the ruleset may fail to load and the command is
\* then forwarded and recorded as degraded.
record_shell_command(origin, command, outcome) ==
    audit' = audit \cup {[origin |-> origin, command |-> command, outcome |-> outcome]}

acl_outcome_label(action) ==
    CASE action = "allow" -> "allowed"
      [] action = "deny" -> "blocked"
      [] action = "review" -> "blocked-review-pending"

apply_acl_decision(action) == action = "allow"

----------------------------------------------------------------------------
(* The session's helpers.                                                   *)

\* The reply goes out (or its sender is dropped, which refuses an open).
Answered(ok, chans) ==
    /\ req' = NoReq
    /\ cchan' = IF req.k \in Opens
                THEN [chans EXCEPT ![req.c] = IF ok THEN "open" ELSE "refused"]
                ELSE chans

Answer(ok) == Answered(ok, cchan)

\* The client sees a close for every channel in cs if the handle is there.
ClosedBy(ss, cs) ==
    [c \in Chan |-> IF ss.handle /\ c \in cs /\ cchan[c] \in {"asked", "open"}
                    THEN "closed" ELSE cchan[c]]

disconnect_server(ss) == [ss EXCEPT !.all = {}, !.handle = FALSE]

remove_channel(ss, c) ==
    [ss EXCEPT !.map = @ \ {c}, !.all = @ \ {c}, !.pty = @ \ {c}, !.line[c] = {}]

\* Drop: nothing is left of the session, and its remote client is aborted.
Dropped(ss) == [ss EXCEPT !.st = "NotInitialized", !.map = {}, !.all = {}, !.pty = {},
                          !.sftp = {}, !.line = [c \in Chan |-> {}]]

finish_sftp_audit(ss, c) == [ss EXCEPT !.sftp = @ \ {c}]

\* A channel whose receiver is gone takes nothing more.
Sends(commands) == rcq' = IF rc.pc = "ended" THEN rcq ELSE rcq \o commands

send_command(command) == Sends(<<command>>)

DisconnectCommands(ss) ==
    IF ss.st \in {"Connecting", "Connected"} THEN <<Plain("disconnect", FALSE)>> ELSE <<>>

\* Mutant: the abort is left to the Disconnect command.
NoAbort(ss) ==
    /\ Sends(DisconnectCommands(ss))
    /\ UNCHANGED abort

request_disconnect(ss) ==
    /\ Sends(DisconnectCommands(ss))
    /\ abort' = TRUE

\* maybe_connect_remote then the command: what the session, the client's
\* channels and the queue become.
ConnectAnd(ss, command) ==
    CASE ss.target = "NotFound" ->
            /\ s' = disconnect_server(ss)
            /\ cchan' = ClosedBy(ss, ss.all \cap ss.map)
            /\ Sends(<<command>>)
      [] ss.target = "Found" /\ ss.st = "NotInitialized" ->
            /\ s' = [ss EXCEPT !.st = "Connecting"]
            /\ Sends(<<Plain("connect", FALSE), command>>)
            /\ UNCHANGED cchan
      [] OTHER ->
            /\ s' = ss
            /\ Sends(<<command>>)
            /\ UNCHANGED cchan

maybe_connect_remote(ss, command) == ConnectAnd(ss, command)

\* send_command_and_wait returns to the loop of events until the reply comes.
Waits == pc' = "wait" /\ reply' = "none"

Handles(k) == /\ pc = "idle" /\ ~ended /\ req.k = k
              /\ UNCHANGED <<left, gone, ended, rc, hk, ev, target, decided, ctl>>

\* map_channel fails: the handler returns an error and the reply is dropped.
Unmapped == /\ req.k \notin Opens \cup {"Forward", "CancelForward"} /\ req.c \notin s.map
            /\ Answer(FALSE)
            /\ UNCHANGED <<s, pc, prompt, reply, rcq, abort, audit, review>>

Mapped == req.c \in s.map

----------------------------------------------------------------------------
(* Requests of the client, one at a time: the handler awaits each reply.    *)

Request(k, c, arg) == [k |-> k, c |-> c, arg |-> arg]

\* Any request on a channel the client holds open; an open for a new channel.
Requests ==
    {Request("OpenShell", c, "-") : c \in {x \in ShellChans : cchan[x] = "none"}}
    \cup {Request(k, c, "-") : k \in {"OpenDirectTCPIP", "OpenDirectStreamlocal"},
                               c \in {x \in DirectChans : cchan[x] = "none"}}
    \cup {Request("Exec", c, x) : c \in {y \in ShellChans : cchan[y] = "open"},
                                  x \in {x \in Commands : \A a \in audit : a.command # x}}
    \cup {Request("ChannelClose", c, "-") : c \in {x \in Chan : cchan[x] \in {"open", "closed"}}}
    \cup {Request(k, c, "-") : k \in {"Pty", "Shell", "Sftp", "ExtendedData", "Eof", "Resize",
                                      "Signal", "Env", "X11", "Agent"},
                               c \in {x \in ShellChans : cchan[x] = "open"}}
    \cup {Request(k, "-", "-") : k \in {"Forward", "CancelForward"}}

Inputs == {Request("Data", c, d) : c \in {x \in Chan : cchan[x] = "open"}, d \in Chunks}

Asks(r) ==
    IF ended
    THEN gone' = TRUE /\ UNCHANGED <<req, cchan>>
    ELSE /\ req' = r /\ UNCHANGED gone
         /\ cchan' = IF r.k \in Opens THEN [cchan EXCEPT ![r.c] = "asked"]
                     ELSE IF r.k = "ChannelClose" THEN [cchan EXCEPT ![r.c] = "closed"]
                     ELSE cchan

\* A script names a chunk of input by its text.
send_event ==
    /\ ~gone /\ req = NoReq /\ left # <<>>
    /\ \/ \E r \in Requests : Head(left) = r.k /\ Asks(r)
       \/ \E r \in Inputs : Head(left) = r.arg.text /\ Asks(r)
    /\ left' = Tail(left)
    /\ UNCHANGED <<session, remote, target, reviews, ctl>>

\* The client's connection is over: russh drops the handler, and the session
\* handles Disconnect, which ends it; its Drop aborts the remote client.
ClientLeaves ==
    /\ ~gone /\ req = NoReq
    /\ gone' = TRUE
    /\ UNCHANGED <<left, cchan, req, session, remote, target, reviews, ctl>>

Disconnected ==
    /\ gone /\ ~ended /\ pc = "idle"
    /\ ended' = TRUE /\ abort' = TRUE /\ ev' = <<>>
    /\ s' = Dropped(s)
    /\ UNCHANGED <<client, pc, prompt, reply, rcq, rc, hk, target, reviews, ctl>>

----------------------------------------------------------------------------
(* handle_server_handler_event, one action per request.                     *)

SendsAndWaits(op) ==
    /\ Waits /\ send_command(Cmd(op, TRUE))
    /\ UNCHANGED <<cchan, req, s, prompt, abort, audit, review>>

ChannelOpenSession ==
    /\ Handles("OpenShell")
    /\ Waits /\ send_command(Cmd(Op(req.c, "OpenShell", "-"), TRUE))
    /\ s' = [s EXCEPT !.map = @ \cup {req.c}]
    /\ UNCHANGED <<cchan, req, prompt, abort, audit, review>>

\* Both direct opens connect first.
OpenDirect(k) ==
    /\ Handles(k)
    /\ Waits
    /\ maybe_connect_remote([s EXCEPT !.map = @ \cup {req.c}], Cmd(Op(req.c, k, "-"), TRUE))
    /\ UNCHANGED <<req, prompt, abort, audit, review>>

_channel_open_direct_tcpip == OpenDirect("OpenDirectTCPIP")
_channel_open_direct_streamlocal == OpenDirect("OpenDirectStreamlocal")

\* Requests that are passed on and waited for.
PassedOn(k) == /\ Handles(k)
               /\ Unmapped \/ (Mapped /\ SendsAndWaits(Op(req.c, k, "-")))

PtyRequest == PassedOn("Pty")
_window_change_request == PassedOn("Resize")
_channel_env_request == PassedOn("Env")
_agent_forward == PassedOn("Agent")
_channel_signal == PassedOn("Signal")
_channel_close == PassedOn("ChannelClose")

ConnectsAndWaits(k, c) ==
    /\ Waits
    /\ maybe_connect_remote(s, Cmd(Op(c, k, "-"), TRUE))
    /\ UNCHANGED <<req, prompt, abort, audit, review>>

_channel_x11_request ==
    /\ Handles("X11")
    /\ Unmapped \/ (Mapped /\ ConnectsAndWaits("X11", req.c))

\* An SFTP subsystem also needs file_transfer_allowed, either way.
_channel_subsystem_request ==
    /\ Handles("Sftp")
    /\ \/ Unmapped
       \/ Mapped /\ s.target = "Found" /\ ConnectsAndWaits("Sftp", req.c)
       \/ Answer(FALSE) /\ UNCHANGED <<s, pc, prompt, reply, rcq, abort, audit, review>>

_tcpip_forward ==
    /\ Handles("Forward") /\ Waits
    /\ maybe_connect_remote(s, Plain("forward", TRUE))
    /\ UNCHANGED <<req, prompt, abort, audit, review>>

_cancel_tcpip_forward ==
    /\ Handles("CancelForward") /\ Waits
    /\ send_command(Plain("cancel-forward", TRUE))
    /\ UNCHANGED <<cchan, req, s, prompt, abort, audit, review>>

\* ShellRequest needs the handle after the command is sent.
ShellRequest ==
    /\ Handles("Shell")
    /\ \/ Unmapped
       \/ /\ Mapped
          /\ maybe_connect_remote(s, Cmd(Op(req.c, "Shell", "-"), FALSE))
          /\ req' = NoReq
          /\ UNCHANGED <<pc, prompt, reply, abort, audit, review>>

SentUnwaited(k) ==
    /\ Handles(k)
    /\ \/ Unmapped
       \/ /\ Mapped /\ send_command(Cmd(Op(req.c, k, "-"), FALSE))
          /\ Answer(TRUE)
          /\ UNCHANGED <<s, pc, prompt, reply, abort, audit, review>>

_extended_data == SentUnwaited("ExtendedData")
_channel_eof == SentUnwaited("Eof")

\* The message, exit status 126 and close; the channel is forgotten.
deny_command_channel(c) ==
    /\ s' = remove_channel(s, c)
    /\ Answered(TRUE, ClosedBy(s, {c}))

\* _data up to the ConsoleInput event, which the prompt's task may take
\* before the session looks at host_key_prompt_active.
_data ==
    /\ Handles("Data")
    /\ \/ Unmapped
       \/ /\ Mapped /\ s.st = "Connecting" /\ req.arg.text = "ctrl-c"
          /\ request_disconnect(s) /\ Answer(TRUE)
          /\ UNCHANGED <<s, pc, prompt, reply, audit, review>>
       \/ /\ Mapped /\ ~(s.st = "Connecting" /\ req.arg.text = "ctrl-c")
          /\ pc' = "data"
          /\ prompt' = IF prompt.task /\ req.c \in s.pty
                       THEN [prompt EXCEPT !.input = Append(@, req.arg)] ELSE prompt
          /\ UNCHANGED <<cchan, s, req, reply, rcq, abort, audit, review>>

\* The text of the line once this chunk is added.
LineWith(c, chunk) == s.line[c] \cup ({chunk.text} \ {"none"})

\* Mutant: a line starts anew with every chunk.
ChunkIsLine(c, chunk) == {chunk.text} \ {"none"}

filter_pty_input(c, chunk) == LineWith(c, chunk)

\* A line is a command when "bad" was typed on it; every other line matches
\* no rule.  An empty line is not looked at.
Verdict(line) == IF "bad" \in line THEN evaluate(Line) ELSE "allow"

consult_command_acl(line, outcome) ==
    IF line = {} THEN UNCHANGED audit
    ELSE record_shell_command("pty", IF "bad" \in line THEN Line ELSE "other", outcome)

ForwardData(ss) ==
    /\ send_command(Cmd(Op(req.c, "Data", [req.arg EXCEPT !.pty = req.c \in s.pty]), FALSE))
    /\ s' = ss /\ Answer(TRUE)

\* The rest of _data: withheld while the prompt is active, filtered on a PTY
\* at every end of line, forwarded.
DataForwarded ==
    LET c == req.c
        line == filter_pty_input(c, req.arg)
        ended_ == [s EXCEPT !.line[c] = {}]
    IN
    /\ pc = "data" /\ pc' = "idle"
    /\ \/ /\ prompt.on
          /\ Answer(TRUE) /\ UNCHANGED <<s, rcq, audit>>
       \/ /\ ~prompt.on /\ c \notin s.pty
          /\ ForwardData(s) /\ UNCHANGED audit
       \/ /\ ~prompt.on /\ c \in s.pty /\ ~req.arg.nl
          /\ ForwardData([s EXCEPT !.line[c] = line]) /\ UNCHANGED audit
       \/ /\ ~prompt.on /\ c \in s.pty /\ req.arg.nl
          /\ apply_acl_decision(Verdict(line))
          /\ consult_command_acl(line, acl_outcome_label(Verdict(line)))
          /\ ForwardData(ended_)
       \/ /\ ~prompt.on /\ c \in s.pty /\ req.arg.nl /\ line # {}
          /\ record_shell_command("pty", IF "bad" \in line THEN Line ELSE "other", "degraded")
          /\ ForwardData(ended_)
       \/ /\ ~prompt.on /\ c \in s.pty /\ req.arg.nl
          /\ ~apply_acl_decision(Verdict(line))
          /\ consult_command_acl(line, acl_outcome_label(Verdict(line)))
          /\ deny_command_channel(c) /\ UNCHANGED rcq
    /\ UNCHANGED <<left, gone, prompt, ended, reply, rc, abort, hk, ev, target,
                   review, decided, ctl>>

----------------------------------------------------------------------------
(* Exec requests: allowed, blocked, or paused for an administrator.         *)

ExecForwarded(outcome) ==
    /\ record_shell_command("exec", req.arg, outcome)
    /\ maybe_connect_remote(s, Cmd(Op(req.c, "Exec", req.arg), FALSE))
    /\ req' = NoReq /\ pc' = "idle"

ExecDenied(outcome) ==
    /\ record_shell_command("exec", req.arg, outcome)
    /\ deny_command_channel(req.c) /\ UNCHANGED rcq
    /\ pc' = "idle"

_channel_exec_request ==
    /\ Handles("Exec")
    /\ \/ Unmapped
       \/ /\ Mapped
          /\ \/ ExecForwarded("degraded")
             \/ evaluate(req.arg) = "allow" /\ ExecForwarded("allowed")
             \/ evaluate(req.arg) = "deny" /\ ExecDenied("blocked")
          /\ UNCHANGED <<prompt, reply, abort, review>>
       \/ /\ Mapped /\ evaluate(req.arg) = "review"
          /\ review' = "pending" /\ pc' = "review"
          /\ UNCHANGED <<cchan, req, s, prompt, reply, rcq, abort, audit>>

\* The administrator decides: complete() takes the entry out of the store.
complete(decision) ==
    /\ review = "pending"
    /\ review' = decision /\ decided' = decided \cup {<<req.arg, decision>>}
    /\ UNCHANGED <<client, session, remote, target, audit, ctl>>

api_approve == complete("approved")
api_reject == complete("rejected")

\* An old entry is dropped; the receiver sees a closed channel.
vacuum ==
    /\ review = "pending" /\ review' = "dropped"
    /\ UNCHANGED <<client, session, remote, target, audit, decided, ctl>>

\* The time is up with no decision there; the entry is still in the store.
ReviewTimesOut ==
    /\ pc = "review" /\ review = "pending"
    /\ pc' = "late"
    /\ UNCHANGED <<client, s, prompt, ended, reply, remote, target, reviews, ctl>>

ReviewUnchanged == UNCHANGED <<left, gone, prompt, ended, reply, rc, abort, hk, ev,
                               target, decided, ctl>>

\* Mutant: only an explicit rejection blocks.
TimeoutForwards ==
    IF pc = "review" /\ review = "rejected" THEN "rejected" ELSE "approved"

await_command_review ==
    IF pc = "late" THEN "review-timeout"
    ELSE IF review = "dropped" THEN "review-timeout" ELSE review

\* The outcome of the pause is recorded and acted upon.
authorize_exec_command ==
    /\ pc = "late" \/ (pc = "review" /\ review # "pending")
    /\ review' = "none"
    /\ IF await_command_review = "approved" THEN ExecForwarded("approved")
                                            ELSE ExecDenied(await_command_review)
    /\ ReviewUnchanged

----------------------------------------------------------------------------
(* The end of send_command_and_wait.                                        *)

\* What the handler does once its command has succeeded.
Succeeded ==
    CASE req.k \in Opens -> [s EXCEPT !.all = @ \cup {req.c}]
      [] req.k = "Pty" -> IF s.handle THEN [s EXCEPT !.pty = @ \cup {req.c}] ELSE s
      [] req.k = "Sftp" -> IF Mapped THEN [s EXCEPT !.sftp = @ \cup {req.c}] ELSE s
      [] req.k = "ChannelClose" -> remove_channel(finish_sftp_audit(s, req.c), req.c)
      [] OTHER -> s

PendingCommand ==
    /\ pc = "wait" /\ ~ended
    /\ \/ reply = "ok" /\ s' = Succeeded /\ Answer(TRUE)
       \/ reply = "refused" /\ UNCHANGED s /\ Answer(FALSE)
       \* The remote client is over: the sender of the reply is dropped.
       \/ reply = "none" /\ rc.pc = "ended" /\ UNCHANGED s /\ Answer(FALSE)
    /\ pc' = "idle" /\ reply' = "none"
    /\ UNCHANGED <<left, gone, prompt, ended, remote, target, reviews, ctl>>

----------------------------------------------------------------------------
(* Events of the remote client and the administrator's Close, also handled  *)
(* while the session waits for a reply.                                     *)

Listens == pc \in {"idle", "wait"} /\ ~ended

Takes(kind) ==
    /\ Listens /\ ev # <<>> /\ Head(ev).kind = kind
    /\ ev' = IF kind = "Done" /\ pc = "idle" THEN <<>> ELSE Tail(ev)
    /\ UNCHANGED <<left, gone, rc, target, reviews, ctl>>

\* Outside a wait Done ends the session.  Inside one the SessionEnd error
\* only ends the wait: the handler of the request logs it and goes on.
Done ==
    /\ Takes("Done")
    /\ IF pc = "idle"
       THEN /\ ended' = TRUE /\ abort' = TRUE /\ s' = Dropped(s)
            /\ UNCHANGED <<cchan, req, pc, prompt, reply, rcq, hk>>
       ELSE /\ pc' = "idle" /\ reply' = "none" /\ Answer(FALSE)
            /\ rcq' = [i \in DOMAIN rcq |-> [rcq[i] EXCEPT !.wait = FALSE]]
            /\ UNCHANGED <<s, prompt, ended, abort, hk>>

\* Mutant: the channels of the client are left open.
KeepsChannels ==
    /\ Takes("State")
    /\ s' = [s EXCEPT !.st = Head(ev).arg]
    /\ UNCHANGED <<cchan, req, pc, prompt, ended, reply, rcq, abort, hk>>

StateEvent ==
    /\ Takes("State")
    /\ IF Head(ev).arg = "Disconnected"
       THEN /\ s' = disconnect_server([s EXCEPT !.st = "Disconnected"])
            /\ cchan' = ClosedBy(s, s.all \cap s.map)
       ELSE s' = [s EXCEPT !.st = Head(ev).arg] /\ UNCHANGED cchan
    /\ UNCHANGED <<req, pc, prompt, ended, reply, rcq, abort, hk>>

\* Output, Eof, ExitStatus, ConnectionError and the like change nothing here.
OutputEvent ==
    /\ Takes("Output")
    /\ UNCHANGED <<cchan, req, s, pc, prompt, ended, reply, rcq, abort, hk>>

CloseEvent ==
    LET c == Head(ev).arg IN
    /\ Takes("Close")
    /\ IF c \in s.map
       THEN /\ cchan' = ClosedBy(s, {c})
            /\ s' = remove_channel(finish_sftp_audit(s, c), c)
       ELSE UNCHANGED <<s, cchan>>
    /\ UNCHANGED <<req, pc, prompt, ended, reply, rcq, abort, hk>>

\* The four events for channels the target opens.
ForwardedChannel ==
    LET c == Head(ev).arg IN
    /\ Takes("Forwarded")
    /\ IF s.handle
       THEN /\ s' = [s EXCEPT !.map = @ \cup {c}, !.all = @ \cup {c}]
            /\ cchan' = [cchan EXCEPT ![c] = "open"]
       ELSE UNCHANGED <<s, cchan>>
    /\ UNCHANGED <<req, pc, prompt, ended, reply, rcq, abort, hk>>

\* The setting is read when the question comes.  Without a PTY nobody can be
\* asked: the reply is dropped.
handle_unknown_host_key ==
    /\ Takes("HostKeyUnknown")
    /\ \/ /\ "AutoAccept" \in HostKeyModes /\ hk' = (IF hk = "asked" THEN "accepted" ELSE hk)
          /\ UNCHANGED <<prompt, rcq, abort>>
       \/ /\ "AutoReject" \in HostKeyModes /\ hk' = (IF hk = "asked" THEN "rejected" ELSE hk)
          /\ UNCHANGED <<prompt, rcq, abort>>
       \/ /\ "Prompt" \in HostKeyModes /\ s.pty = {}
          /\ request_disconnect(s) /\ hk' = (IF hk = "asked" THEN "rejected" ELSE hk)
          /\ UNCHANGED prompt
       \/ /\ "Prompt" \in HostKeyModes /\ s.pty # {}
          /\ prompt' = [on |-> TRUE, task |-> TRUE, input |-> <<>>]
          /\ UNCHANGED <<hk, rcq, abort>>
    /\ UNCHANGED <<cchan, req, s, pc, ended, reply>>

\* The prompt's task reads input until a chunk starts with y or n, answers,
\* and only then clears host_key_prompt_active.
PromptTask ==
    LET text == Head(prompt.input).text IN
    /\ prompt.task /\ prompt.input # <<>>
    /\ prompt' = IF text \in {"y", "n"} THEN [on |-> FALSE, task |-> FALSE, input |-> <<>>]
                                        ELSE [prompt EXCEPT !.input = Tail(@)]
    /\ hk' = IF hk = "asked" /\ text \in {"y", "n"}
             THEN (IF text = "y" THEN "accepted" ELSE "rejected") ELSE hk
    /\ UNCHANGED <<client, s, pc, ended, reply, rcq, rc, abort, ev, target, reviews, ctl>>

AskToClose ==
    /\ ctl = "no" /\ ~ended /\ ctl' = "asked"
    /\ UNCHANGED <<client, session, remote, target, reviews>>

handle_session_control ==
    /\ Listens /\ ctl = "asked" /\ ctl' = "handled"
    /\ request_disconnect(s)
    /\ s' = disconnect_server(s)
    /\ cchan' = ClosedBy(s, s.all \cap s.map)
    /\ UNCHANGED <<left, req, gone, pc, prompt, ended, reply, rc, hk, ev, target, reviews>>

----------------------------------------------------------------------------
(* The remote client.                                                       *)

RcUnchanged == UNCHANGED <<client, s, pc, prompt, ended, reviews, ctl>>

Emits(events) == ev' = IF ended THEN ev ELSE ev \o events

Event(kind, arg) == [kind |-> kind, arg |-> arg]

\* A close for every shell and TCP channel not opened yet, then the state.
DisconnectedEvents(pending) ==
    Kept([i \in DOMAIN pending |-> Event("Close", pending[i].c)],
         {i \in DOMAIN pending : pending[i].what \in {"OpenShell", "OpenDirectTCPIP"}})
    \o <<Event("State", "Disconnected"), Event("Done", "-")>>

set_disconnected(r) == [r EXCEPT !.session = FALSE, !.pending = <<>>, !.st = "Disconnected"]

\* Nothing to disconnect, nothing to report.
disconnect(r) == IF r.session THEN set_disconnected(r) ELSE r

Replies(command, result) == reply' = IF command.wait THEN result ELSE reply

\* Mutant: an operation overtakes those that wait for the connection.
PendingFirst(r, op) == [r EXCEPT !.pending = <<op>> \o @]

Queued(r, op) == [r EXCEPT !.pending = Append(@, op)]

\* open_shell, open_direct_tcpip, open_direct_streamlocal: the target answers.
OpenAccepted(r, op) == [r EXCEPT !.pipes = @ \cup {op.c}]

\* An operation on a connected client: an open is accepted or refused, the
\* others go to the channel's task, if there is one; Close ends that task.
apply_channel_op(r, op, result) ==
    IF op.what \in Opens
    THEN /\ rc' = IF result = "ok" THEN OpenAccepted(r, op) ELSE r
         /\ out' = IF result = "ok" THEN Append(out, op) ELSE out
         /\ UNCHANGED ev
    ELSE /\ result = "ok"
         /\ out' = IF op.c \in r.pipes THEN Append(out, op) ELSE out
         /\ IF op.what = "ChannelClose" /\ op.c \in r.pipes
            THEN /\ rc' = [r EXCEPT !.pipes = @ \ {op.c}]
                 /\ IF op.c \in DirectChans THEN UNCHANGED ev ELSE Emits(<<Event("Close", op.c)>>)
            ELSE rc' = r /\ UNCHANGED ev

\* The next command of the queue.
handle_command ==
    LET command == Head(rcq) IN
    /\ rc.pc = "loop" /\ rcq # <<>>
    /\ rcq' = IF command.kind = "disconnect" THEN <<>> ELSE Tail(rcq)
    /\ \/ /\ command.kind = "channel" /\ rc.st # "Connected"
          /\ rc' = Queued(rc, command.op) /\ Replies(command, "ok")
          /\ UNCHANGED <<ev, out, hk>>
       \/ /\ command.kind = "channel" /\ rc.st = "Connected"
          /\ \E result \in {"ok", "refused"} :
                apply_channel_op(rc, command.op, result) /\ Replies(command, result)
          /\ UNCHANGED hk
       \/ /\ command.kind = "connect"
          /\ rc' = [rc EXCEPT !.pc = "connecting"] /\ hk' = "none"
          /\ UNCHANGED <<ev, out, reply>>
       \/ /\ command.kind = "forward"
          /\ rc' = IF rc.session THEN rc ELSE [rc EXCEPT !.forwards = @ \cup {"forward"}]
          /\ Replies(command, "ok") /\ UNCHANGED <<ev, out, hk>>
       \/ /\ command.kind = "cancel-forward"
          /\ rc' = IF rc.session THEN rc ELSE [rc EXCEPT !.forwards = {}]
          /\ Replies(command, "ok") /\ UNCHANGED <<ev, out, hk>>
       \/ /\ command.kind = "disconnect"
          /\ rc' = [disconnect(rc) EXCEPT !.pc = "ended"]
          /\ Emits(IF rc.session THEN DisconnectedEvents(rc.pending) ELSE <<>>)
          /\ UNCHANGED <<out, reply, hk>>
    /\ UNCHANGED <<abort, tleft>> /\ RcUnchanged

\* A name that does not resolve disconnects twice: in connect() and after it.
ResolveFails ==
    /\ rc.pc = "connecting" /\ hk = "none"
    /\ rc' = [set_disconnected(rc) EXCEPT !.pc = "failed"]
    /\ Emits(DisconnectedEvents(rc.pending))
    /\ UNCHANGED <<rcq, abort, hk, target, reply>> /\ RcUnchanged

\* The key is known, does not match the known one, or is unknown.
check_server_key ==
    /\ rc.pc = "connecting" /\ hk = "none"
    /\ \/ hk' = "accepted" /\ UNCHANGED ev
       \/ hk' = "rejected" /\ UNCHANGED ev
       \/ hk' = "asked" /\ Emits(<<Event("HostKeyUnknown", "-")>>)
    /\ UNCHANGED <<rcq, rc, abort, target, reply>> /\ RcUnchanged

\* The target accepts the login: what was queued is taken out of the queue.
Connected ==
    /\ rc.pc = "connecting" /\ hk = "accepted"
    /\ rc' = [rc EXCEPT !.session = TRUE, !.st = "Connected", !.pc = "drain",
                        !.drain = rc.pending, !.pending = <<>>]
    /\ Emits(<<Event("State", "Connected")>>)
    /\ UNCHANGED <<rcq, abort, hk, target, reply>> /\ RcUnchanged

\* A refused open ends the drain: the operations after it are lost.
Drain ==
    /\ rc.pc = "drain"
    /\ \/ /\ rc.drain = <<>>
          /\ rc' = [rc EXCEPT !.pc = "loop", !.forwards = {}]
          /\ UNCHANGED <<ev, out>>
       \/ /\ rc.drain # <<>>
          /\ apply_channel_op([rc EXCEPT !.drain = Tail(@)], Head(rc.drain), "ok")
       \/ /\ rc.drain # <<>> /\ Head(rc.drain).what \in Opens
          /\ rc' = [rc EXCEPT !.pc = "loop", !.drain = <<>>]
          /\ UNCHANGED <<ev, out>>
    /\ UNCHANGED <<rcq, abort, hk, tleft, reply>> /\ RcUnchanged

\* Any failure while connecting: the error is reported first.
ConnectFails ==
    /\ rc.pc = "connecting" /\ hk # "asked"
    /\ rc' = [rc EXCEPT !.pc = "failed"]
    /\ UNCHANGED <<rcq, abort, hk, ev, target, reply>> /\ RcUnchanged

\* 100 ms later.
ConnectFailed ==
    /\ rc.pc = "failed"
    /\ rc' = [set_disconnected(rc) EXCEPT !.pc = "ended"]
    /\ Emits(DisconnectedEvents(rc.pending))
    /\ rcq' = <<>>
    /\ UNCHANGED <<abort, hk, target, reply>> /\ RcUnchanged

\* An abort is seen while connecting and between two commands; only a live
\* connection reports that it is over.
AbortSeen ==
    /\ abort /\ abort' = FALSE
    /\ \/ /\ rc.pc = "connecting" /\ UNCHANGED rcq
          /\ rc' = [set_disconnected(rc) EXCEPT !.pc = "failed"]
          /\ Emits(DisconnectedEvents(rc.pending))
       \/ /\ rc.pc = "loop" /\ rcq' = <<>>
          /\ rc' = [disconnect(rc) EXCEPT !.pc = "ended"]
          /\ Emits(IF rc.session THEN DisconnectedEvents(rc.pending) ELSE <<>>)
    /\ UNCHANGED <<hk, target, reply>> /\ RcUnchanged

\* The target's connection is over: reported, but the task goes on.
_on_disconnect ==
    /\ rc.pc = "loop" /\ rc.session
    /\ rc' = set_disconnected(rc)
    /\ Emits(DisconnectedEvents(rc.pending))
    /\ UNCHANGED <<rcq, abort, hk, target, reply>> /\ RcUnchanged

\* A channel's task ends: the target closed it, the connection is over, or
\* the remote client dropped its tasks.
ChannelEnds(c) ==
    /\ c \in rc.pipes
    /\ rc' = [rc EXCEPT !.pipes = @ \ {c}]
    /\ Emits(<<Event("Close", c)>>)
    /\ UNCHANGED <<rcq, abort, hk, target, reply>> /\ RcUnchanged

TargetOutput(c) ==
    /\ c \in rc.pipes /\ tleft > 0 /\ tleft' = tleft - 1
    /\ Emits(<<Event("Output", c)>>)
    /\ UNCHANGED <<rcq, rc, abort, hk, out, reply>> /\ RcUnchanged

setup_server_initiated_channel(c) ==
    /\ rc.pc = "loop" /\ rc.session /\ tleft > 0 /\ tleft' = tleft - 1
    /\ cchan[c] = "none" /\ c \notin rc.pipes
    /\ rc' = [rc EXCEPT !.pipes = @ \cup {c}]
    /\ Emits(<<Event("Forwarded", c)>>)
    /\ UNCHANGED <<rcq, abort, hk, out, reply>> /\ RcUnchanged

----------------------------------------------------------------------------
HandlerEvent ==
    \/ ChannelOpenSession \/ _channel_open_direct_tcpip \/ _channel_open_direct_streamlocal
    \/ PtyRequest \/ ShellRequest \/ _window_change_request \/ _channel_env_request
    \/ _agent_forward \/ _channel_signal \/ _channel_close \/ _channel_x11_request
    \/ _channel_subsystem_request \/ _tcpip_forward \/ _cancel_tcpip_forward
    \/ _extended_data \/ _channel_eof \/ _data \/ _channel_exec_request

RemoteEvent ==
    \/ Done \/ StateEvent \/ OutputEvent \/ CloseEvent \/ ForwardedChannel
    \/ handle_unknown_host_key

\* The session's own task.
SessionTask ==
    \/ HandlerEvent \/ RemoteEvent \/ handle_session_control \/ PendingCommand
    \/ DataForwarded \/ authorize_exec_command \/ ReviewTimesOut \/ Disconnected

\* The remote client's own task, apart from what the target decides.
RemoteTask == handle_command \/ Drain \/ ConnectFailed

Others ==
    \/ send_event \/ ClientLeaves \/ AskToClose \/ PromptTask
    \/ api_approve \/ api_reject \/ vacuum
    \/ ResolveFails \/ check_server_key \/ Connected \/ ConnectFails \/ _on_disconnect
    \/ \E c \in Chan : ChannelEnds(c) \/ TargetOutput(c)
    \/ \E c \in ForwardedChans : setup_server_initiated_channel(c)

Next == SessionTask \/ RemoteTask \/ AbortSeen \/ Others

Spec == Init /\ [][Next]_vars

FairSpec == Spec /\ WF_vars(SessionTask) /\ WF_vars(RemoteTask) /\ WF_vars(AbortSeen)

----------------------------------------------------------------------------
(* Properties.                                                              *)

IsData(i, c) == out[i].what = "Data" /\ out[i].c = c /\ out[i].arg.pty

\* A command that reached the target was allowed, approved by an administrator
\* while it was paused, or let through because the rules could not be loaded;
\* a command that was blocked, rejected or timed out never reaches it, and no
\* command has two records (authorize_exec_command, await_command_review).
ExecJustified ==
    /\ \A i \in DOMAIN out : out[i].what = "Exec" =>
         \E a \in audit : /\ a.origin = "exec" /\ a.command = out[i].arg
                          /\ a.outcome \in {"allowed", "approved", "degraded"}
                          /\ a.outcome = "allowed" => evaluate(a.command) = "allow"
                          /\ a.outcome = "approved" => <<a.command, "approved">> \in decided
    /\ \A a, b \in audit : a.origin = "exec" /\ b.origin = "exec" /\ a.command = b.command
                            => a = b

\* The chunk that ends an interactive line with a blocked command does not
\* reach the target, however the line was cut into chunks, unless the rules
\* could not be loaded, which is on record (filter_pty_input, _data).
PtyLineHeld ==
    \A c \in ShellChans, i \in DOMAIN out :
        LET before == {j \in 1..(i - 1) : IsData(j, c)}
            line == {j \in before : \A k \in before : out[k].arg.nl => k < j}
        IN (/\ IsData(i, c) /\ out[i].arg.nl /\ evaluate(Line) # "allow"
            /\ \E j \in line \cup {i} : out[j].arg.text = "bad")
           => [origin |-> "pty", command |-> Line, outcome |-> "degraded"] \in audit

\* An administrator's Close ends the connection to the target, whatever the
\* session is doing: connecting, prompting, waiting for a reply or paused
\* (handle_session_control, request_disconnect, RemoteClient::start).
CloseCutsTarget == ctl = "asked" ~> rc.pc = "ended"

\* When the target's connection is over, there is a moment when none of the
\* channels the session knows is open for the client any more, whatever it is
\* doing meanwhile (set_disconnected, disconnect_server).
TargetGoneCloses ==
    (rc.st = "Disconnected" /\ s.handle)
    ~> (gone \/ (~s.handle /\ \A c \in s.map : cchan[c] # "open"))

\* The operations among the commands of a queue.
ChannelOps(q) ==
    Kept([i \in DOMAIN q |-> q[i].op], {i \in DOMAIN q : q[i].kind = "channel"})

\* The queue in front of the connection, the operations taken out of it once
\* connected and the commands still on their way are one ordered pipe
\* (apply_channel_op, handle_command).
InPipe ==
    IF rc.pc = "ended" THEN <<>> ELSE rc.drain \o rc.pending \o ChannelOps(rcq)

Pipe == INSTANCE OrderedPipe WITH pipe <- InPipe, arrived <- out

\* Operations reach the target in the order the session sent them, each at
\* most once, across the moment the connection comes up.
ChannelOrder == Pipe!Spec
=============================================================================
