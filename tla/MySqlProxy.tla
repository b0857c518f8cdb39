----------------------------- MODULE MySqlProxy -----------------------------
(***************************************************************************)
(* One connection of the MySQL proxy: the handshake with the client, the   *)
(* connection to the target with the target's own login, and the relay     *)
(* loop that reads one command, forwards it and passes packets back until  *)
(* it takes one for the end of the response.  How the login is decided is  *)
(* AuthStateStore's subject; here it succeeds or fails.                    *)
(*                                                                         *)
(* A packet of a response is known by what its first byte can be:          *)
(*   "ok" 0x00, "err" 0xff, "eof" 0xfe, "infile" 0xfb, "part" anything     *)
(*   else, and "empty": a row whose first column is the empty string, the  *)
(*   length of which, 0x00, is the first byte of the packet.               *)
(***************************************************************************)
EXTENDS Naturals, Sequences

CONSTANTS MAX_COMMANDS,    \* bound: commands the client sends
          MAX_ROUNDS       \* bound: authentication packets of the target

ASSUME MySqlAssumption == MAX_COMMANDS \in Nat /\ MAX_ROUNDS \in Nat

VARIABLES myPc,        \* where the session task is
          myClient,    \* the client's side: is it TLS, DEPRECATE_EOF agreed
          myUp,        \* the target's side: TLS mode and password of the target, the link
          fromUp,      \* packets of the target that the proxy has not read
          myRelay,     \* of the response being relayed: EOF count, first packet, success
          myAudit,     \* the last audit item
          myLeft       \* commands and authentication rounds left (bounds)

myVars == <<myPc, myClient, myUp, fromUp, myRelay, myAudit, myLeft>>

NoRelay == [eofs |-> 0, first |-> TRUE, success |-> TRUE]

Modes == {"disabled", "preferred", "required"}

\* exposed: the stored password, or a scramble of it, went out on a plain link.
MySqlInit ==
    /\ myPc = "greet"
    /\ myClient = [tls |-> FALSE, deprecateEof |-> FALSE]
    /\ \E mode \in Modes, password \in BOOLEAN :
         myUp = [mode |-> mode, password |-> password, tls |-> FALSE,
                 deprecateEof |-> FALSE, exposed |-> FALSE]
    /\ fromUp = <<>> /\ myRelay = NoRelay
    /\ myAudit = "-"
    /\ myLeft = [commands |-> MAX_COMMANDS, rounds |-> MAX_ROUNDS]

MyEnd == /\ myPc' = "end" /\ fromUp' = <<>>
         /\ UNCHANGED <<myClient, myUp, myRelay, myAudit, myLeft>>

-----------------------------------------------------------------------------
(* The client's handshake. *)

\* The first answer asks for TLS, or the connection ends with error 1002; the second
\* comes over TLS and either carries the clear password or is asked for it.
Handshake ==
    /\ myPc = "greet"
    /\ \/ /\ myPc' = "response"
          /\ myClient' = [myClient EXCEPT !.tls = TRUE]
          /\ UNCHANGED <<myUp, fromUp, myRelay, myAudit, myLeft>>
       \/ MyEnd

HandshakeResponse ==
    /\ myPc = "response"
    /\ \E dep \in BOOLEAN, clear \in BOOLEAN :
         /\ myClient' = [myClient EXCEPT !.deprecateEof = dep]
         /\ myPc' = IF clear THEN "login" ELSE "switch"
    /\ UNCHANGED <<myUp, fromUp, myRelay, myAudit, myLeft>>

AuthSwitch ==
    /\ myPc = "switch"
    /\ \/ myPc' = "login" /\ UNCHANGED <<myClient, myUp, fromUp, myRelay, myAudit, myLeft>>
       \/ MyEnd

\* run_authorization: the checks of AuthStateStore, which let the user in or not.
MyLogin ==
    /\ myPc = "login"
    /\ \/ myPc' = "target" /\ UNCHANGED <<myClient, myUp, fromUp, myRelay, myAudit, myLeft>>
       \/ MyEnd

\* run_authorized: the client is told OK before the target and its account are looked
\* up, which may fail.
MyTarget ==
    /\ myPc = "target"
    /\ \/ myPc' = "connect" /\ UNCHANGED <<myClient, myUp, fromUp, myRelay, myAudit, myLeft>>
       \/ MyEnd

-----------------------------------------------------------------------------
(* MySqlClient::connect *)

Plugins == {"native", "sha2", "clear", "sha256", "unknown"}

\* Does the answer of build_auth_response show the password, or a hash of it?
Shows(plugin) == plugin \in {"native", "sha2", "clear"}

Answer(up, plugin) ==
    [up EXCEPT !.exposed = @ \/ (up.password /\ ~up.tls /\ Shows(plugin))]

\* The capabilities the target offers are those both sides have.
Negotiated(ssl, dep) ==
    [myUp EXCEPT !.tls = ssl /\ myUp.mode # "disabled",
                 !.deprecateEof = dep /\ myClient.deprecateEof]

\* Plausible slip: only `required' looks at the link.
RefusesRequiredOnly(up) == up.mode = "required" /\ ~up.tls

\* TLS was meant but is not there: `required' fails, `preferred' sends no password.
Refuses(up) == up.mode # "disabled" /\ ~up.tls /\ (up.mode = "required" \/ up.password)

UpstreamGreets ==
    /\ myPc = "connect"
    /\ \E ssl \in BOOLEAN, dep \in BOOLEAN, plugin \in Plugins :
         LET up == Negotiated(ssl, dep) IN
         IF Refuses(up) THEN MyEnd
         ELSE /\ myUp' = Answer(up, plugin) /\ myPc' = "authenticate"
              /\ UNCHANGED <<myClient, fromUp, myRelay, myAudit, myLeft>>

\* AuthMoreData of caching_sha2_password: over TLS the password itself is sent, on a
\* plain link it is encrypted with the key the target sends.
handle_caching_sha2_more_data ==
    myUp' = IF myUp.tls THEN Answer(myUp, "clear") ELSE myUp

UpstreamAuthenticates ==
    /\ myPc = "authenticate"
    /\ \/ /\ myPc' = "command"
          /\ UNCHANGED <<myClient, myUp, fromUp, myRelay, myAudit, myLeft>>
       \/ /\ myLeft.rounds > 0
          /\ myLeft' = [myLeft EXCEPT !.rounds = @ - 1]
          /\ \/ \E plugin \in Plugins : myUp' = Answer(myUp, plugin)
             \/ handle_caching_sha2_more_data
          /\ UNCHANGED <<myPc, myClient, fromUp, myRelay, myAudit>>
       \/ MyEnd

-----------------------------------------------------------------------------
(* The relay loop. *)

\* What targets answer to a query: a result set has its columns, then rows, then an end;
\* without DEPRECATE_EOF the columns have an end as well.
ResultSets ==
    {<<"part", "part">> \o (IF myUp.deprecateEof THEN <<>> ELSE <<"eof">>) \o rows \o end :
       rows \in {<<>>, <<"part">>, <<"empty">>}, end \in {<<"eof">>, <<"err">>}}

Responses == {<<"ok">>, <<"err">>, <<"infile">>} \cup ResultSets

Command == /\ myPc = "command" /\ myLeft.commands > 0
           /\ myLeft' = [myLeft EXCEPT !.commands = @ - 1]

\* The enabled rules are read again for every query, which may fail.
Verdicts == {"allow", "block", "load error"}

\* The audit item of a query that was not relayed, or not judged.
Audit(v) == CASE v = "block" -> "blocked"
              [] v = "load error" -> "degraded"
              [] v = "allow" -> myAudit

\* COM_QUERY: the rules are loaded; if that fails the query is forwarded and audited as
\* such, and a rule that denies it, or wants a review, is answered with an error.
Query(verdict) ==
    /\ Command
    /\ myAudit' = Audit(verdict)
    /\ \/ /\ verdict = "block"
          /\ UNCHANGED <<myPc, myClient, myUp, fromUp, myRelay>>
       \/ /\ verdict # "block"
          /\ \E r \in Responses : fromUp' = fromUp \o r
          /\ myPc' = "query" /\ myRelay' = NoRelay
          /\ UNCHANGED <<myClient, myUp>>

\* COM_INIT_DB, COM_FIELD_LIST, COM_PING, COM_RESET_CONNECTION
Forward ==
    /\ Command
    /\ \E r \in {<<"ok">>, <<"err">>, <<"part", "eof">>} : fromUp' = fromUp \o r
    /\ myPc' = "pass"
    /\ UNCHANGED <<myClient, myUp, myRelay, myAudit>>

\* Another command is answered with error 1047; prepared statements are among them.
NotImplemented == Command /\ UNCHANGED <<myPc, myClient, myUp, fromUp, myRelay, myAudit>>

\* COM_QUIT, an empty packet, or the client is gone.
Quit == myPc = "command" /\ MyEnd

\* The proxy's test for the end of a query's response.
QueryEnds(p, eofs) ==
    \/ p \in {"ok", "empty", "err"}
    \/ p = "eof" /\ (myClient.deprecateEof \/ eofs + 1 = 2)

RelayQuery ==
    /\ myPc = "query" /\ fromUp # <<>>
    /\ LET p == Head(fromUp) IN
       IF myRelay.first /\ p = "infile" THEN MyEnd
       ELSE /\ fromUp' = Tail(fromUp)
            /\ LET ok == myRelay.success /\ p # "err" IN
               IF QueryEnds(p, myRelay.eofs)
               THEN /\ myPc' = "command" /\ myRelay' = NoRelay
                    /\ myAudit' = IF ok THEN "done" ELSE "failed"
               ELSE /\ myRelay' = [eofs |-> myRelay.eofs + (IF p = "eof" THEN 1 ELSE 0),
                                   first |-> FALSE, success |-> ok]
                    /\ UNCHANGED <<myPc, myAudit>>
            /\ UNCHANGED <<myClient, myUp, myLeft>>

PassthroughUntilResult ==
    /\ myPc = "pass" /\ fromUp # <<>>
    /\ fromUp' = Tail(fromUp)
    /\ myPc' = IF Head(fromUp) \in {"ok", "empty", "err", "eof"} THEN "command" ELSE "pass"
    /\ UNCHANGED <<myClient, myUp, myRelay, myAudit, myLeft>>

\* The target or the client is gone, or an administrator closed the session.
MyLost == myPc \notin {"greet", "end"} /\ MyEnd

MySqlNext ==
    \/ Handshake \/ HandshakeResponse \/ AuthSwitch \/ MyLogin \/ MyTarget
    \/ UpstreamGreets \/ UpstreamAuthenticates
    \/ \E v \in Verdicts : Query(v)
    \/ Forward \/ NotImplemented \/ Quit
    \/ RelayQuery \/ PassthroughUntilResult \/ MyLost

MySqlSpec == MySqlInit /\ [][MySqlNext]_myVars

-----------------------------------------------------------------------------
\* The stored password leaves on a plain link only if the target is configured without
\* TLS, whatever the target offers, switches to and asks for (client.rs, connect).
MySqlSecretKept == myUp.exposed => myUp.mode = "disabled"

\* A response is relayed whole before the next command is read: "traffic is relayed
\* packet-by-packet" and "parsed but transparent" (protocol-database.md).  The test for
\* the end takes a row that starts with an empty column for an OK packet, and the end of
\* the columns for the end of the rows when only the client has DEPRECATE_EOF.
ResponseRelayed == myPc = "command" => fromUp = <<>>
=============================================================================
