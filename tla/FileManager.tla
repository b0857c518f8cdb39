---------------------------- MODULE FileManager ----------------------------
(***************************************************************************)
(* The web file manager: short HTTP requests (list, mkdir, rename, remove, *)
(* download, upload) that share one SSH connection per user, target and    *)
(* account.  A request finds the connection in the CONNECTIONS map or      *)
(* opens it; each open connection has a pump task that moves its bytes and *)
(* that takes it down.  The lock of the map is held only for a lookup, an  *)
(* insertion or a removal, so requests, pumps, the administrator who       *)
(* closes a session and a browser that drops its request interleave        *)
(* between them.                                                           *)
(*                                                                         *)
(* A connection is numbered by the session registered for it.              *)
(***************************************************************************)
EXTENDS Naturals, FiniteSets

CONSTANTS FileKeys,                   \* (user, target, account) in use
          Owner,                      \* Owner[key] is the user of a key
          FileReqs,                   \* requests of the browsers
          MAX_CONNECTIONS_PER_USER

ASSUME FileAssumption == /\ MAX_CONNECTIONS_PER_USER \in Nat \ {0}
                         /\ DOMAIN Owner = FileKeys

VARIABLES fileOps,   \* operations each request may still start with (bound)
          freq,      \* the requests
          conns,     \* the connections, by session number
          cache,     \* CONNECTIONS: cache[key] is a connection, or 0
          transfers, \* the spawned download tasks
          fileAudit  \* requests the file audit recording has an item of

fileVars == <<fileOps, freq, conns, cache, transfers, fileAudit>>

Ops == {"list", "mkdir", "rename", "remove", "read", "write"}
NoRequest == [pc |-> "idle", key |-> "-", op |-> "-", conn |-> 0]
ConnIds == 1 .. Cardinality(FileReqs)
Unused == {c \in ConnIds : conns[c].row = "none"}

FilesInit ==
    /\ fileOps \in [FileReqs -> SUBSET Ops]
    /\ freq = [r \in FileReqs |-> NoRequest]
    /\ conns = [c \in ConnIds |-> [key |-> "-", row |-> "none", up |-> FALSE,
                                   pump |-> "none", close |-> FALSE,
                                   asked |-> FALSE]]
    /\ cache = [k \in FileKeys |-> 0]
    /\ transfers = {}
    /\ fileAudit = {}

-----------------------------------------------------------------------------
(* Helpers. *)

\* The request is answered, and holds nothing any more.
Over == [NoRequest EXCEPT !.pc = "over"]

\* Plausible slip: notify_waiters, which only reaches a pump that waits already.
notify_waiters(cs, c) == [cs EXCEPT ![c].close = (cs[c].pump = "run")]

\* TerminalSessionHandle::close, and the other users of the Notify: one permit
\* is kept for a pump that does not wait yet.
notify_one(cs, c) == [cs EXCEPT ![c].close = TRUE]

\* Somebody still holds the SftpConnection: while nobody does, its pump reads
\* end of file.
Held(c) == \/ \E k \in FileKeys : cache[k] = c
           \/ \E r \in FileReqs : freq[r].conn = c
           \/ \E t \in transfers : t.conn = c

\* An operation on the connection fails with a transport error when no pump
\* moves its bytes; a live one may fail, or the target may refuse the operation.
Outcomes(c) == IF conns[c].pump = "run" THEN {"ok", "refused", "transport"}
                                        ELSE {"transport"}

\* Wrap an operation's outcome: a transport failure asks the pump to stop.
call(cs, c, outcome) == IF outcome = "transport" THEN notify_one(cs, c) ELSE cs

\* Append to the session's file audit recording (failures are recorded too).
record(r) == fileAudit' = fileAudit \cup {r}

-----------------------------------------------------------------------------
(* A request: checks, the connection, the operation. *)

\* A handler starts: the path and the target name are checked, the ticket's
\* target, the user, the access to the target and to file transfer are checked
\* by resolve_and_authorize and authorize_file_transfer; any may refuse.
authorize(r) ==
    /\ freq[r].pc = "idle" /\ r \in DOMAIN fileOps
    /\ \E k \in FileKeys, op \in fileOps[r] :
          freq' = [freq EXCEPT ![r] = [NoRequest EXCEPT !.pc = "lookup", !.key = k, !.op = op]]
    /\ UNCHANGED <<fileOps, conns, cache, transfers, fileAudit>>

Refused(r) ==
    /\ freq[r].pc = "lookup"
    /\ freq' = [freq EXCEPT ![r] = Over]
    /\ UNCHANGED <<fileOps, conns, cache, transfers, fileAudit>>

\* connection, first lock: reuse the cached connection, refuse a user who has
\* MAX_CONNECTIONS_PER_USER cached, or go on to open one.
connection(r) ==
    LET k == freq[r].key
        mine == {j \in FileKeys : cache[j] # 0 /\ Owner[j] = Owner[k]}
    IN /\ freq[r].pc = "lookup"
       /\ freq' = [freq EXCEPT ![r] =
             IF cache[k] # 0 THEN [@ EXCEPT !.pc = "call", !.conn = cache[k]]
             ELSE IF Cardinality(mine) >= MAX_CONNECTIONS_PER_USER THEN Over
             ELSE [@ EXCEPT !.pc = "open"]]
       /\ UNCHANGED <<fileOps, conns, cache, transfers, fileAudit>>

\* open_connection: register the session and start connecting.
open_connection(r) ==
    /\ freq[r].pc = "open"
    /\ \E c \in Unused :
          /\ \A d \in Unused : c <= d
          /\ conns' = [conns EXCEPT ![c] = [@ EXCEPT !.key = freq[r].key, !.row = "active"]]
          /\ freq' = [freq EXCEPT ![r] = [@ EXCEPT !.pc = "connect", !.conn = c]]
    /\ UNCHANGED <<fileOps, cache, transfers, fileAudit>>

\* connect_and_open_sftp: an unknown key without auto-accept, a changed key, an
\* SSH error or the time limit abort the client; the session's handle is dropped.
ConnectRefused(r) ==
    /\ freq[r].pc = "connect"
    /\ conns' = [conns EXCEPT ![freq[r].conn].row = "ended"]
    /\ freq' = [freq EXCEPT ![r] = Over]
    /\ UNCHANGED <<fileOps, cache, transfers, fileAudit>>

\* ... or the subsystem is open: the pump is spawned and owns the session.
connect_and_open_sftp(r) ==
    /\ freq[r].pc = "connect"
    /\ conns' = [conns EXCEPT ![freq[r].conn] = [@ EXCEPT !.up = TRUE, !.pump = "run"]]
    /\ freq' = [freq EXCEPT ![r].pc = "handshake"]
    /\ UNCHANGED <<fileOps, cache, transfers, fileAudit>>

\* SftpSession::new_with_config: it fails once the pump is gone.
Handshake(r) ==
    LET c == freq[r].conn
    IN /\ freq[r].pc = "handshake"
       /\ \/ /\ conns[c].pump = "run"
             /\ freq' = [freq EXCEPT ![r].pc = "insert"]
             /\ conns' = conns
          \/ /\ freq' = [freq EXCEPT ![r] = Over]
             /\ conns' = notify_one(conns, c)
       /\ UNCHANGED <<fileOps, cache, transfers, fileAudit>>

\* connection, second lock: the first of two concurrent openers wins; the other
\* closes its own connection and uses the winner's.
Insert(r) ==
    LET k == freq[r].key
        c == freq[r].conn
    IN /\ freq[r].pc = "insert"
       /\ IF cache[k] # 0
          THEN /\ conns' = notify_one(conns, c)
               /\ freq' = [freq EXCEPT ![r] = [@ EXCEPT !.pc = "call", !.conn = cache[k]]]
               /\ cache' = cache
          ELSE /\ cache' = [cache EXCEPT ![k] = c]
               /\ freq' = [freq EXCEPT ![r].pc = "call"]
               /\ conns' = conns
       /\ UNCHANGED <<fileOps, transfers, fileAudit>>

-----------------------------------------------------------------------------
(* The operation, then its audit record. *)

\* list only reads; a failed canonicalize or read_dir is answered.
api_sftp_list(r) ==
    LET c == freq[r].conn
    IN /\ freq[r].pc = "call" /\ freq[r].op = "list"
       /\ \E o \in Outcomes(c) : /\ conns' = call(conns, c, o)
                                 /\ freq' = [freq EXCEPT ![r] = Over]
       /\ UNCHANGED <<fileOps, cache, transfers, fileAudit>>

\* mkdir, rename, remove: the operation reaches the target ...
Mutates(r, op) ==
    LET c == freq[r].conn
    IN /\ freq[r].pc = "call" /\ freq[r].op = op
       /\ \E o \in Outcomes(c) :
             /\ conns' = call(conns, c, o)
             /\ freq' = [freq EXCEPT ![r].pc = "audit"]
       /\ UNCHANGED <<fileOps, cache, transfers, fileAudit>>

api_sftp_mkdir(r) == Mutates(r, "mkdir")
api_sftp_rename(r) == Mutates(r, "rename")
api_sftp_remove(r) == Mutates(r, "remove")

\* ... and audited records it, then the request is answered.
audited(r) ==
    /\ freq[r].pc = "audit"
    /\ record(r)
    /\ freq' = [freq EXCEPT ![r] = Over]
    /\ UNCHANGED <<fileOps, conns, cache, transfers>>

\* upload: an existing file is a conflict; the chunks of the body are written
\* until the body ends, exceeds MAX_UPLOAD_BYTES or a write fails; then audited.
upload(r) ==
    LET c == freq[r].conn
    IN /\ freq[r].pc = "call" /\ freq[r].op = "write"
       /\ \/ /\ freq' = [freq EXCEPT ![r] = Over]
             /\ conns' = conns
          \/ \E o \in Outcomes(c) \cup {"too large"} :
             /\ conns' = call(conns, c, o)
             /\ freq' = [freq EXCEPT ![r].pc = "audit"]
       /\ UNCHANGED <<fileOps, cache, transfers, fileAudit>>

\* download: a file that cannot be opened is audited at once; otherwise a task
\* is spawned that reads it, and the request is answered with its stream.
download(r) ==
    LET c == freq[r].conn
    IN /\ freq[r].pc = "call" /\ freq[r].op = "read"
       /\ \E o \in Outcomes(c) :
             /\ conns' = call(conns, c, o)
             /\ IF o = "ok"
                THEN /\ transfers' = transfers \cup {[req |-> r, conn |-> c]}
                     /\ freq' = [freq EXCEPT ![r] = Over]
                     /\ UNCHANGED fileAudit
                ELSE /\ freq' = [freq EXCEPT ![r] = Over]
                     /\ record(r)
                     /\ UNCHANGED transfers
       /\ UNCHANGED <<fileOps, cache>>

\* The spawned task: the end of the file, a read error or a browser that has
\* gone ends it, and each of them is audited.
Transferred ==
    \E t \in transfers :
       /\ transfers' = transfers \ {t}
       /\ record(t.req)
       /\ UNCHANGED <<fileOps, freq, conns, cache>>

\* The browser drops its request: the handler's future is dropped where it
\* waits.  While it connects, the client's handles and the session's handle go
\* with it, and the SSH client task goes on by itself.
Cancel(r) ==
    LET c == freq[r].conn
    IN /\ freq[r].pc \notin {"idle", "over"}
       /\ freq' = [freq EXCEPT ![r] = Over]
       /\ conns' = IF freq[r].pc = "connect"
                   THEN [conns EXCEPT ![c] = [@ EXCEPT !.row = "ended", !.up = TRUE]]
                   ELSE conns
       /\ UNCHANGED <<fileOps, cache, transfers, fileAudit>>

-----------------------------------------------------------------------------
(* The pump of a connection. *)

\* The channel closes or fails, the permit of `close` is there, nobody holds
\* the other end, or IDLE_TIMEOUT has passed: disconnect and abort the client.
pump(c) ==
    /\ conns[c].pump = "run"
    /\ conns' = [conns EXCEPT ![c] = [@ EXCEPT !.pump = "dropping", !.up = FALSE,
                                               !.close = FALSE]]
    /\ UNCHANGED <<fileOps, freq, cache, transfers, fileAudit>>

\* Plausible slip: the session is not compared.
DropsByKey(c) == [k \in FileKeys |-> IF k = conns[c].key THEN 0 ELSE cache[k]]

\* Remove the connection from the map, unless another has taken its place.
drop_connection(c) ==
    [k \in FileKeys |-> IF k = conns[c].key /\ cache[k] = c THEN 0 ELSE cache[k]]

\* ... then the map's entry and the session's handle are dropped.
PumpEnds(c) ==
    /\ conns[c].pump = "dropping"
    /\ cache' = drop_connection(c)
    /\ conns' = [conns EXCEPT ![c] = [@ EXCEPT !.pump = "ended", !.row = "ended"]]
    /\ UNCHANGED <<fileOps, freq, transfers, fileAudit>>

\* An administrator closes the session, or its user lost the access.
CloseFiles(c) ==
    /\ conns[c].row = "active" /\ ~conns[c].asked
    /\ conns' = notify_one([conns EXCEPT ![c].asked = TRUE], c)
    /\ UNCHANGED <<fileOps, freq, cache, transfers, fileAudit>>

-----------------------------------------------------------------------------
Serve(r) ==
    \/ Refused(r) \/ connection(r) \/ open_connection(r)
    \/ ConnectRefused(r) \/ connect_and_open_sftp(r) \/ Handshake(r) \/ Insert(r)
    \/ api_sftp_list(r) \/ api_sftp_mkdir(r) \/ api_sftp_rename(r) \/ api_sftp_remove(r)
    \/ upload(r) \/ download(r) \/ audited(r)

\* What the pump must react to: the select of its loop has it ready.
PumpMust(c) == /\ conns[c].close \/ ~Held(c)
               /\ pump(c)

FilesNext ==
    \/ \E r \in FileReqs : authorize(r) \/ Serve(r) \/ Cancel(r)
    \/ \E c \in ConnIds : pump(c) \/ PumpEnds(c) \/ CloseFiles(c)
    \/ Transferred

\* Tasks of the runtime run: a request whose work is ready goes on, a pump sees
\* its permit and finishes.
FilesFairness ==
    /\ \A r \in FileReqs : WF_fileVars(Serve(r))
    /\ \A c \in ConnIds : WF_fileVars(PumpMust(c)) /\ WF_fileVars(PumpEnds(c))

FilesSpec == FilesInit /\ [][FilesNext]_fileVars /\ FilesFairness

-----------------------------------------------------------------------------
(* Properties. *)

\* A working connection stays in the map until its own pump takes it down: the
\* end of a connection that lost the race, or that a request before it used,
\* never evicts the connection that serves the key now (drop_connection).
OwnPumpDrops ==
    [][\A k \in FileKeys : cache[k] # 0 /\ cache'[k] # cache[k]
          => conns[cache[k]].pump = "dropping"]_fileVars

\* A session that was asked to close ends, whether it is still connecting, has
\* just lost the race for the map, is idle or in the middle of an operation.
ClosedFilesEnd == (\E c \in ConnIds : conns[c].asked /\ conns[c].row = "active")
                     ~> (\A c \in ConnIds : ~(conns[c].asked /\ conns[c].row = "active"))

=============================================================================
