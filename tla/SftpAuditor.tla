---------------------------- MODULE SftpAuditor -----------------------------
(***************************************************************************)
(* What the SSH proxy reports of an SFTP channel.  It passes the packets   *)
(* on in both directions and only looks at them: a request is remembered   *)
(* by its id, its reply says what came of it, and a file is reported when  *)
(* it is closed.  The client pipelines; the target answers in order and    *)
(* gives the handle of a closed file to the next.                          *)
(***************************************************************************)
EXTENDS Naturals, Sequences, FiniteSets, SequencesExt

CONSTANTS Paths, Handles,
          MAX_REQUESTS    \* bound: requests the client sends

ASSUME SftpAssumption == MAX_REQUESTS \in Nat

VARIABLES toTarget,    \* requests on their way
          toGateway,   \* replies on their way
          pending,     \* the auditor's: request id -> what it remembers of it
          files,       \* the auditor's: handle -> open file
          disabled,    \* the auditor stopped at a packet that was too large
          channel,     \* "open", "closed"
          held,        \* handles the client has been given and has not closed
          opened,      \* the target's: handle -> open file
          sentCount,   \* requests sent, the next one's id
          outcomes,    \* ghost: what the target did, in order
          reported     \* what the auditor reported, in order

sftpVars == <<toTarget, toGateway, pending, files, disabled, channel, held, opened,
              sentCount, outcomes, reported>>

Nothing == [op |-> "nothing"]
File(path, write) == [op |-> IF write THEN "write" ELSE "read", path |-> path, bytes |-> 0]

Ids == 1..MAX_REQUESTS

SftpInit ==
    /\ toTarget = <<>> /\ toGateway = <<>>
    /\ pending = [i \in Ids |-> Nothing]
    /\ files = [h \in Handles |-> Nothing]
    /\ disabled = FALSE /\ channel = "open"
    /\ held = {} /\ opened = [h \in Handles |-> Nothing]
    /\ sentCount = 0
    /\ outcomes = <<>> /\ reported = <<>>

\* file_operation, and the record of a path operation; the wording of errors is left out.
Report(op, path, bytes, success) ==
    [op |-> op, path |-> path, bytes |-> bytes, success |-> success]
FileReport(file, success) == Report(file.op, file.path, file.bytes, success)

-----------------------------------------------------------------------------
(* The client.  It uses the handles it holds. *)

SftpRequests ==
    [kind : {"open"}, path : Paths, write : BOOLEAN]
      \cup [kind : {"opendir"}]
      \cup [kind : {"read", "write", "close", "fsetstat"}, handle : held]
      \cup [kind : {"path"}, path : Paths]

\* Plausible slip: a file is reported and forgotten when its close is asked for.
request_Closes(i, q) ==
    /\ pending' = [pending EXCEPT ![i] =
         IF q.kind \in {"opendir", "close"} THEN Nothing
         ELSE IF q.kind # "fsetstat" THEN q
         ELSE IF files[q.handle] = Nothing THEN Nothing
         ELSE [kind |-> "path", path |-> files[q.handle].path]]
    /\ IF q.kind = "close" /\ files[q.handle] # Nothing
       THEN /\ files' = [files EXCEPT ![q.handle] = Nothing]
            /\ reported' = Append(reported, FileReport(files[q.handle], TRUE))
       ELSE UNCHANGED <<files, reported>>

\* request(): what the reply will need is remembered.  A handle's attributes are set under
\* the path its file has now; listing a directory is not followed.
request(i, q) ==
    /\ pending' = [pending EXCEPT ![i] =
         IF q.kind = "opendir" THEN Nothing
         ELSE IF q.kind # "fsetstat" THEN q
         ELSE IF files[q.handle] = Nothing THEN Nothing
         ELSE [kind |-> "path", path |-> files[q.handle].path]]
    /\ UNCHANGED <<files, reported>>

ClientSends ==
    /\ channel = "open" /\ sentCount < MAX_REQUESTS
    /\ \E q \in SftpRequests :
         /\ IF disabled THEN UNCHANGED <<pending, files, reported>> ELSE request(sentCount + 1, q)
         /\ toTarget' = Append(toTarget, [id |-> sentCount + 1, q |-> q])
         /\ held' = IF q.kind = "close" THEN held \ {q.handle} ELSE held
    /\ sentCount' = sentCount + 1
    /\ UNCHANGED <<toGateway, disabled, channel, opened, outcomes>>

-----------------------------------------------------------------------------
(* The target, which is not part of the program: an SFTP server that does one request   *)
(* after the other.  A reply carries what it did, for the property to compare.          *)

Reply(id, kind, handle, truth) ==
    /\ toGateway' = Append(toGateway, [id |-> id, kind |-> kind, handle |-> handle,
                                       truth |-> truth])
    /\ outcomes' = IF truth = Nothing THEN outcomes ELSE Append(outcomes, truth)

\* "dir" stands for an open directory.
Dir == [op |-> "dir"]

TargetOpens(id, q) ==
    \/ \E h \in Handles :
         /\ opened[h] = Nothing
         /\ opened' = [opened EXCEPT ![h] = IF q.kind = "open" THEN File(q.path, q.write)
                                           ELSE Dir]
         /\ Reply(id, "handle", h, Nothing)
    \/ /\ Reply(id, "failed", "none",
               IF q.kind = "open" THEN FileReport(File(q.path, q.write), FALSE) ELSE Nothing)
       /\ UNCHANGED opened

\* A byte is read or written, or the end of the file or an error is the answer.
TargetTransfers(id, q) ==
    \/ /\ opened[q.handle] \notin {Nothing, Dir}
       /\ opened' = [opened EXCEPT ![q.handle].bytes = @ + 1]
       /\ Reply(id, IF q.kind = "read" THEN "data" ELSE "ok", "none", Nothing)
    \/ Reply(id, "failed", "none", Nothing) /\ UNCHANGED opened

TargetCloses(id, q) ==
    \E ok \in BOOLEAN :
      /\ Reply(id, IF ok THEN "ok" ELSE "failed", "none",
               IF opened[q.handle] = Dir THEN Nothing ELSE FileReport(opened[q.handle], ok))
      /\ opened' = [opened EXCEPT ![q.handle] = Nothing]

TargetDoes(id, q) ==
    \E ok \in BOOLEAN :
      /\ Reply(id, IF ok THEN "ok" ELSE "failed", "none",
               IF q.kind = "path" THEN Report("path", q.path, 0, ok)
               ELSE IF opened[q.handle] = Dir THEN Nothing
               ELSE Report("path", opened[q.handle].path, 0, ok))
      /\ UNCHANGED opened

TargetHandles ==
    /\ channel = "open" /\ toTarget # <<>>
    /\ LET id == Head(toTarget).id
           q == Head(toTarget).q IN
       CASE q.kind \in {"open", "opendir"} -> TargetOpens(id, q)
         [] q.kind \in {"read", "write"} -> TargetTransfers(id, q)
         [] q.kind = "close" -> TargetCloses(id, q)
         [] q.kind \in {"path", "fsetstat"} -> TargetDoes(id, q)
    /\ toTarget' = Tail(toTarget)
    /\ UNCHANGED <<pending, files, disabled, channel, held, sentCount, reported>>

-----------------------------------------------------------------------------
(* The replies at the gateway. *)

\* reply(): an open file begins with its handle; data and acknowledged writes count; a
\* close reports the file, a failed open reports it as well, a path its operation.
reply(p, m) ==
    CASE p.kind = "open" /\ m.kind = "handle" ->
           /\ files' = [files EXCEPT ![m.handle] = File(p.path, p.write)]
           /\ UNCHANGED reported
      [] p.kind = "open" /\ m.kind # "handle" ->
           /\ reported' = Append(reported, FileReport(File(p.path, p.write), FALSE))
           /\ UNCHANGED files
      [] p.kind \in {"read", "write"} ->
           /\ files' = IF m.kind # "failed" /\ files[p.handle] # Nothing
                       THEN [files EXCEPT ![p.handle].bytes = @ + 1] ELSE files
           /\ UNCHANGED reported
      [] p.kind = "close" ->
           /\ reported' = IF files[p.handle] = Nothing THEN reported
                          ELSE Append(reported, FileReport(files[p.handle], m.kind = "ok"))
           /\ files' = [files EXCEPT ![p.handle] = Nothing]
      [] p.kind = "path" ->
           /\ reported' = Append(reported, Report("path", p.path, 0, m.kind = "ok"))
           /\ UNCHANGED files

\* server_data, then the packet goes to the client.
GatewayReplies ==
    /\ channel = "open" /\ toGateway # <<>>
    /\ LET m == Head(toGateway)
           p == pending[m.id] IN
       /\ IF disabled \/ p = Nothing THEN UNCHANGED <<files, reported>> ELSE reply(p, m)
       /\ pending' = [pending EXCEPT ![m.id] = Nothing]
       /\ held' = IF m.kind = "handle" THEN held \cup {m.handle} ELSE held
    /\ toGateway' = Tail(toGateway)
    /\ UNCHANGED <<toTarget, disabled, channel, opened, sentCount, outcomes>>

\* Framer::push meets a packet over the limit, from either side: the audit is over.
Disable ==
    /\ channel = "open" /\ ~disabled
    /\ disabled' = TRUE
    /\ pending' = [i \in Ids |-> Nothing] /\ files' = [h \in Handles |-> Nothing]
    /\ UNCHANGED <<toTarget, toGateway, channel, held, opened, sentCount, outcomes, reported>>

\* finish_sftp_audit: either side closes the channel; open files are reported as failed.
CloseChannel ==
    /\ channel = "open" /\ channel' = "closed"
    /\ LET left == {h \in Handles : files[h] # Nothing} IN
       \E order \in SetToSeqs(left) :
         reported' = reported \o [n \in 1..Len(order) |-> FileReport(files[order[n]], FALSE)]
    /\ pending' = [i \in Ids |-> Nothing] /\ files' = [h \in Handles |-> Nothing]
    /\ UNCHANGED <<toTarget, toGateway, disabled, held, opened, sentCount, outcomes>>

SftpNext == \/ ClientSends \/ TargetHandles \/ GatewayReplies \/ Disable \/ CloseChannel

SftpSpec == SftpInit /\ [][SftpNext]_sftpVars

-----------------------------------------------------------------------------
\* What will have been reported, after what is said already, once the replies on their
\* way have shown the gateway what the target did.
Shown(said, replies) ==
    LET upto[i \in 0..Len(replies)] ==
            IF i = 0 THEN said
            ELSE IF replies[i].truth = Nothing THEN upto[i - 1]
            ELSE Append(upto[i - 1], replies[i].truth)
    IN upto[Len(replies)]

\* The reports are what the target did, in that order and with nothing left out: the path,
\* the direction, the bytes and the success of every file that was closed, and every
\* operation on a path, though requests are pipelined and handles are used again.
TransferReported ==
    channel = "open" /\ ~disabled => Shown(reported, toGateway) = outcomes
=============================================================================
