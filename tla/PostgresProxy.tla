--------------------------- MODULE PostgresProxy ---------------------------
(***************************************************************************)
(* One connection of the PostgreSQL proxy: TLS with the client, the        *)
(* connection to the target, and the loop that relays messages both ways   *)
(* while it keeps track of which SQL a portal runs, asks the command rules *)
(* about every statement, and audits it when the target answers.  How the  *)
(* login is decided is AuthStateStore's subject; here it succeeds or not.  *)
(*                                                                         *)
(* A client may send several messages before it reads an answer.  What it  *)
(* has sent and the proxy has not read is left out: the proxy reads in     *)
(* order, so a message may as well be chosen when it is read.  The target  *)
(* handles what it is sent in order too; only its answers wait in a queue. *)
(***************************************************************************)
EXTENDS Naturals, Sequences, FiniteSets

CONSTANTS PgSqls,          \* statements
          MAX_MESSAGES,    \* bound: messages the client sends
          IDLE_TIMEOUT     \* of the target, in ticks

ASSUME PostgresAssumption == MAX_MESSAGES \in Nat /\ IDLE_TIMEOUT \in Nat

VARIABLES pgPc,        \* where the session task is
          pgLink,      \* TLS on either side, TLS mode and password of the target
          prepared,    \* prepared_sql: SQL of the one statement name in use, "-" if none
          portal,      \* portal_sql: SQL of the one portal in use
          db,          \* the target: its statement, its portal, skipping until Sync
          fromDb,      \* answers of the target that the proxy has not read
          pgPending,   \* pending_audit
          idle,        \* ticks since last_activity
          sent,        \* messages the client may still send, and the batch it is in
          seen         \* ghosts for the properties

pgVars == <<pgPc, pgLink, prepared, portal, db, fromDb, pgPending, idle, sent, seen>>

None == "-"

IdleDb == [stmt |-> None, portal |-> None, skipping |-> FALSE]

\* cycles: Query and Sync messages read, one for the login.  ready: ReadyForQuery passed
\* to the client.  refused: the target did not take a Parse.  inflight: statements
\* forwarded since the client was last told ready with nothing left to answer.  overlap: there were several.
\* ran: what the target ran last and what the rules were asked about for it.
\* item: the last audit item and what the answer was to.
NothingSeen ==
    [cycles |-> 1, ready |-> 0, refused |-> FALSE, inflight |-> 0, overlap |-> FALSE,
     ran |-> [sql |-> None, asked |-> None],
     item |-> [sql |-> None, ok |-> FALSE, of |-> None]]

PostgresInit ==
    /\ pgPc = "startup"
    /\ \E mode \in {"disabled", "preferred", "required"}, password \in BOOLEAN :
         pgLink = [client |-> FALSE, up |-> FALSE, mode |-> mode,
                   password |-> password, exposed |-> FALSE, asked |-> FALSE]
    /\ prepared = None /\ portal = None
    /\ db = IdleDb
    /\ fromDb = <<>> /\ pgPending = None
    /\ idle = 0
    /\ sent \in [left : {0, MAX_MESSAGES}, batch : {FALSE}]
    /\ seen = NothingSeen

PgEnd == /\ pgPc' = "end" /\ fromDb' = <<>>
         /\ prepared' = None /\ portal' = None /\ pgPending' = None
         /\ db' = IdleDb /\ seen' = NothingSeen /\ idle' = 0
         /\ UNCHANGED <<pgLink, sent>>

PgGoto(place) ==
    /\ pgPc' = place
    /\ UNCHANGED <<prepared, portal, db, pgPending, idle, sent, seen>>

-----------------------------------------------------------------------------
(* The client's startup. *)

\* SslRequest is accepted, and a Startup must follow; a Startup without it is refused.
SslRequest ==
    /\ pgPc = "startup" /\ ~pgLink.client
    /\ PgGoto("startup") /\ pgLink' = [pgLink EXCEPT !.client = TRUE]
    /\ UNCHANGED fromDb

enforce_tls(tls) == tls

Startup ==
    /\ pgPc = "startup"
    /\ IF enforce_tls(pgLink.client)
       THEN /\ PgGoto("login") /\ pgLink' = [pgLink EXCEPT !.asked = TRUE]
            /\ UNCHANGED fromDb
       ELSE PgEnd

\* run_authorization: the checks of AuthStateStore, which let the user in or not.
PgLogin ==
    /\ pgPc = "login"
    /\ \/ PgGoto("target") /\ UNCHANGED <<pgLink, fromDb>>
       \/ PgEnd

\* run_authorized: the target and its account may be gone, or the account not be said.
PgTarget ==
    /\ pgPc = "target"
    /\ \/ PgGoto("connect") /\ UNCHANGED <<pgLink, fromDb>>
       \/ PgEnd

-----------------------------------------------------------------------------
(* PostgresClient::connect *)

\* Disabled does not ask for TLS; a refusal ends the connection under `required'.
Connect ==
    /\ pgPc = "connect"
    /\ \E accepted \in BOOLEAN :
         IF pgLink.mode = "required" /\ ~accepted THEN PgEnd
         ELSE /\ PgGoto("authenticate")
              /\ pgLink' = [pgLink EXCEPT !.up = accepted /\ pgLink.mode # "disabled"]
              /\ UNCHANGED fromDb

get_password == /\ pgLink.mode = "disabled" \/ pgLink.up
                /\ pgLink.password

\* The target accepts, asks for the password (clear, MD5 or SASL), or fails the login.
Authenticate ==
    /\ pgPc = "authenticate"
    /\ \/ /\ PgGoto("relay") /\ UNCHANGED pgLink
          /\ fromDb' = <<[kind |-> "ready", of |-> None]>>
       \/ /\ get_password
          /\ PgGoto("authenticate")
          /\ pgLink' = [pgLink EXCEPT !.exposed = @ \/ ~pgLink.up]
          /\ UNCHANGED fromDb
       \/ PgEnd

-----------------------------------------------------------------------------
(* The target.  After an error it skips what comes before the next Sync. *)

Reply(kind, of) == <<[kind |-> kind, of |-> of]>>
NoReply == <<>>

Failed(d, of) == [d |-> [d EXCEPT !.skipping = TRUE, !.portal = None], ran |-> None,
                  out |-> Reply("error", of)]

\* The outcomes a message can have there.  A name can be prepared again only after Close.
Outcomes(d, m) ==
    IF d.skipping /\ m.kind # "Sync" THEN {[d |-> d, ran |-> None, out |-> NoReply]} ELSE
    CASE m.kind = "Parse" ->
           {Failed(d, None)} \cup
           (IF d.stmt = None
            THEN {[d |-> [d EXCEPT !.stmt = m.sql], ran |-> None,
                   out |-> Reply("parsed", None)]}
            ELSE {})
      [] m.kind = "Bind" ->
           IF d.stmt = None THEN {Failed(d, None)}
           ELSE {[d |-> [d EXCEPT !.portal = d.stmt], ran |-> None,
                  out |-> Reply("bound", None)]}
      [] m.kind = "Execute" ->
           IF d.portal = None THEN {Failed(d, None)}
           ELSE {Failed(d, d.portal),
                 [d |-> d, ran |-> d.portal, out |-> Reply("complete", d.portal)]}
      [] m.kind = "Sync" ->
           {[d |-> [d EXCEPT !.skipping = FALSE, !.portal = kept], ran |-> None,
             out |-> Reply("ready", None)] : kept \in {d.portal, None}}
      [] m.kind = "Query" ->
           {[d |-> d, ran |-> m.sql, out |-> answers \o Reply("ready", None)] :
              answers \in {Reply("complete", m.sql), Reply("error", m.sql),
                           Reply("complete", m.sql) \o Reply("error", m.sql)}}
      [] m.kind = "Close" ->
           {[d |-> [d EXCEPT !.stmt = None], ran |-> None, out |-> Reply("closed", None)]}

Send(m, asked, s) ==
    \E o \in Outcomes(db, m) :
      /\ db' = o.d /\ fromDb' = fromDb \o o.out
      /\ seen' = [s EXCEPT !.ran = IF o.ran = None THEN @ ELSE [sql |-> o.ran, asked |-> asked],
                           !.refused = @ \/ (m.kind = "Parse" /\ o.d.stmt # m.sql)]

-----------------------------------------------------------------------------
(* The relay loop: messages of the client. *)

\* An audit item, and what the answer it was written for was to.
Item(sql, ok, of) == [sql |-> sql, ok |-> ok, of |-> of]

Alive == pgPc = "relay" /\ idle <= IDLE_TIMEOUT

\* A client that follows the protocol sends no Query between an extended message and Sync.
Reads(m) ==
    /\ Alive /\ sent.left > 0
    /\ m.kind = "Query" => ~sent.batch
    /\ sent' = [left |-> sent.left - 1,
                batch |-> m.kind \notin {"Query", "Sync"}]
    /\ idle' = 0
    /\ UNCHANGED <<pgPc, pgLink>>

Cycle(m) == IF m.kind \in {"Query", "Sync"} THEN [seen EXCEPT !.cycles = @ + 1] ELSE seen

\* Parse and Bind are remembered, whatever the target makes of them; Close and Sync are not.
Extended(m) ==
    /\ Reads(m)
    /\ prepared' = IF m.kind = "Parse" THEN m.sql ELSE prepared
    /\ portal' = IF m.kind = "Bind" /\ prepared # None THEN prepared ELSE portal
    /\ Send(m, None, Cycle(m))
    /\ UNCHANGED pgPending

\* Plausible slip: an Execute is looked up by the statement and not by its portal.
ByStatement(m) ==
    CASE m.kind = "Query" -> m.sql
      [] m.kind = "Execute" -> IF prepared = None THEN "unknown" ELSE prepared

\* What the rules are asked about.
StatementOf(m) ==
    CASE m.kind = "Query" -> m.sql
      [] m.kind = "Execute" -> IF portal = None THEN "unknown" ELSE portal

\* Plausible slip: an Execute that is blocked is followed by ReadyForQuery too.
AlwaysReady(m) == TRUE

SynthesizesReady(m) == m.kind = "Query"

\* A rule that denies or wants a review: an error for the client, nothing for the target.
Blocked(m) ==
    /\ Reads(m)
    /\ LET s == Cycle(m) IN
       seen' = [s EXCEPT !.ready = @ + (IF SynthesizesReady(m) THEN 1 ELSE 0),
                         !.item = Item(StatementOf(m), FALSE, None)]
    /\ UNCHANGED <<prepared, portal, db, fromDb, pgPending>>

\* Plausible slip: a statement that was never answered stays the pending one.
KeepsPending(sql) == IF pgPending = None THEN sql ELSE pgPending

Pending(sql) == sql

\* Allowed, or forwarded because the rules could not be loaded.
Allowed(m) ==
    /\ Reads(m)
    /\ pgPending' = Pending(StatementOf(m))
    /\ LET s == Cycle(m) IN
       Send(m, StatementOf(m), [s EXCEPT !.inflight = @ + 1, !.overlap = @ \/ seen.inflight > 0])
    /\ UNCHANGED <<prepared, portal>>

-----------------------------------------------------------------------------
(* The relay loop: answers of the target, time, and the end. *)

\* An error or a completion ends the pending statement, if there is one.
Answered ==
    /\ Alive /\ fromDb # <<>>
    /\ LET a == Head(fromDb)
           told == seen.ready + (IF a.kind = "ready" THEN 1 ELSE 0)
           ends == a.kind \in {"error", "complete"} /\ pgPending # None
       IN /\ pgPending' = IF ends THEN None ELSE pgPending
          /\ seen' = [seen EXCEPT
                        !.ready = told,
                        !.inflight = IF a.kind = "ready" /\ Tail(fromDb) = <<>> THEN 0 ELSE @,
                        !.item = IF ends THEN Item(pgPending, a.kind = "complete", a.of)
                                 ELSE @]
    /\ fromDb' = Tail(fromDb)
    /\ idle' = 0
    /\ UNCHANGED <<pgPc, pgLink, prepared, portal, db, sent>>

PgTick == /\ pgPc = "relay" /\ idle <= IDLE_TIMEOUT /\ fromDb = <<>>
          /\ idle' = idle + 1
          /\ UNCHANGED <<pgPc, pgLink, prepared, portal, db, fromDb, pgPending, sent, seen>>

IdleClose == pgPc = "relay" /\ idle > IDLE_TIMEOUT /\ PgEnd

\* Either side is gone, or an administrator closed the session.
PgLost == pgPc \notin {"startup", "end"} /\ PgEnd

PgMsg(k, sql) == [kind |-> k, sql |-> sql]

PostgresNext ==
    \/ SslRequest \/ Startup \/ PgLogin \/ PgTarget \/ Connect \/ Authenticate
    \/ \E q \in PgSqls : Extended(PgMsg("Parse", q))
    \/ \E k \in {"Bind", "Sync", "Close"} : Extended(PgMsg(k, None))
    \/ \E m \in {PgMsg("Execute", None)} \cup {PgMsg("Query", q) : q \in PgSqls} :
         Blocked(m) \/ Allowed(m)
    \/ Answered \/ PgTick \/ IdleClose \/ PgLost

PostgresSpec == PostgresInit /\ [][PostgresNext]_pgVars

-----------------------------------------------------------------------------
\* The password of the user is asked for over TLS only, and the stored one is sent over
\* TLS unless the target is configured without (session.rs enforce_tls, client.rs).
PostgresSecretKept == /\ pgLink.asked => pgLink.client
                      /\ pgLink.exposed => pgLink.mode = "disabled"

\* What the target runs is what the command rules were asked about, although the proxy
\* only guesses the target's statements and portals from the messages that pass.  The
\* guess is lost once the target refuses a Parse, which the proxy does not notice.
GatedAsRun == seen.refused \/ seen.ran.sql = seen.ran.asked

\* Every Query and every Sync is answered with one ReadyForQuery, by the target or, for a
\* blocked Query, by the proxy; more or fewer and the client is out of step (session.rs
\* "we must NOT synthesize one here or the client desyncs").
ReadyPerCycle ==
    pgPc = "relay" =>
      seen.ready + Cardinality({i \in 1..Len(fromDb) : fromDb[i].kind = "ready"}) = seen.cycles

\* The audit item written when an answer arrives is about the statement answered, as long
\* as the client waits for ReadyForQuery between statements: a completion is never booked
\* on another statement, not even after one that the target skipped without an answer.
AuditedAsAnswered ==
    \/ seen.overlap \/ seen.refused
    \/ IF seen.item.ok THEN seen.item.of = seen.item.sql
       ELSE seen.item.of \in {seen.item.sql, None}
=============================================================================
