----------------------------- MODULE SqlConsole -----------------------------
(***************************************************************************)
(* The SQL console: HTTP requests that run one statement, or list schemas, *)
(* tables and columns, on one database target, over the connection pools   *)
(* of DbPoolRegistry.  A request reads the target, the account and the     *)
(* cache at different moments, and builds a missing pool outside the lock  *)
(* of the cache, while an administrator edits target and account or locks  *)
(* the database.                                                           *)
(*                                                                         *)
(* The options of the target and the secret of the account are version     *)
(* numbers; a fingerprint is the pair of versions it was computed from.  A *)
(* statement is the sequence of its tokens' classes, strings and comments  *)
(* stripped.                                                               *)
(***************************************************************************)
EXTENDS Naturals, Sequences, FiniteSets

CONSTANTS SqlReqs,      \* requests
          Logins,       \* accounts of the target that the users may log in with
          Sqls,         \* statements users send
          MAX_EDITS     \* bound: edits of the target and of the account

VARIABLES sqlTarget,    \* the target's row: version and read-only flag
          sqlSecret,    \* version of the account's credentials
          sqlLocked,    \* the database is locked
          pools,        \* DbPoolRegistry.pools: the cached pool of each login
          edited,       \* an edit of the target is written, its invalidate() is not done
          pending,      \* pools taken out of the cache, to be closed by someone
          groupRow,     \* there is a row for the console's grouping session
          sqlReq        \* the request handlers

sqlVars == <<sqlTarget, sqlSecret, sqlLocked, pools, edited, pending,
             groupRow, sqlReq>>

NoPool == [by |-> "-", fp |-> <<0, 0>>]

NoQuery == [pc |-> "none", login |-> "-", writes |-> FALSE, since |-> <<0, 0>>,
              roSince |-> FALSE, snap |-> [ver |-> 0, readonly |-> FALSE],
              pool |-> NoPool, ran |-> FALSE]

SqlInit ==
    /\ sqlTarget = [ver |-> 0, readonly |-> FALSE]
    /\ sqlSecret = 0
    /\ sqlLocked = FALSE
    /\ pools = [l \in Logins |-> NoPool]
    /\ edited = FALSE /\ pending = {}
    /\ groupRow = FALSE
    /\ sqlReq = [r \in SqlReqs |-> NoQuery]

-----------------------------------------------------------------------------
(* Statements. *)

\* A statement is a sequence of these.
Tokens == {"SELECT", "WRITE", "INTO", "DANGEROUS", "OTHER", ";"}

ASSUME SqlAssumption ==
    /\ MAX_EDITS \in Nat
    /\ \A sql \in Sqls : \A i \in 1..Len(sql) : sql[i] \in Tokens

HasToken(sql, t) == \E i \in 1..Len(sql) : sql[i] = t

\* The statements between the semicolons that are not empty.
NonEmpty(sql) ==
    Cardinality({i \in 1..Len(sql) : sql[i] # ";" /\ (i = 1 \/ sql[i - 1] = ";")})

\* The first real token; "OTHER" for an empty text.
First(sql) == IF \E i \in 1..Len(sql) : sql[i] # ";"
              THEN sql[CHOOSE i \in 1..Len(sql) :
                         sql[i] # ";" /\ \A j \in 1..(i - 1) : sql[j] = ";"]
              ELSE "OTHER"

\* One statement, which starts like a query and names nothing that writes.
validate_readonly_sql(sql) ==
    /\ NonEmpty(sql) = 1
    /\ First(sql) = "SELECT"
    /\ \A t \in {"WRITE", "INTO", "DANGEROUS"} : ~HasToken(sql, t)

\* What the server does with a statement outside a read-only transaction.  Text
\* with two statements is refused by the prepared-statement protocol.
Writes(sql) == /\ NonEmpty(sql) = 1
               /\ HasToken(sql, "WRITE") \/ HasToken(sql, "INTO")

\* Plausible slip: the flag is not looked at.
NeverReadonly(target) == FALSE

target_readonly(target) == target.readonly

-----------------------------------------------------------------------------
(* Requests: authorization and the pool. *)

Step(r, pc) == sqlReq' = [sqlReq EXCEPT ![r].pc = pc]
OverReq(r) == sqlReq' = [sqlReq EXCEPT ![r] = [NoQuery EXCEPT !.pc = "over"]]

At_(r, pc) == sqlReq[r].pc = pc

\* A request arrives; what is current now is what it may be judged by.
Arrives(r) ==
    /\ At_(r, "none")
    /\ \E l \in Logins :
          sqlReq' = [sqlReq EXCEPT ![r] =
             [@ EXCEPT !.pc = "resolve", !.login = l, !.roSince = sqlTarget.readonly,
                       !.since = <<sqlTarget.ver, sqlSecret>>]]
    /\ UNCHANGED <<edited, sqlTarget, sqlSecret, sqlLocked, pools, pending, groupRow>>

\* common_auth_and_pool up to the login: a bad name, a ticket for another target,
\* no user, no access, the rate limit or no account ends the request.
common_auth_and_pool(r) ==
    /\ At_(r, "resolve")
    /\ \/ OverReq(r)
       \/ /\ ~sqlLocked
          /\ sqlReq' = [sqlReq EXCEPT ![r] = [@ EXCEPT !.pc = "account", !.snap = sqlTarget]]
    /\ UNCHANGED <<edited, sqlTarget, sqlSecret, sqlLocked, pools, pending, groupRow>>

compute_fingerprint(target, secret) == <<target.ver, secret>>

\* get_or_create: resolve_db_account reads the account, not the target, again.
resolve_db_account(r) ==
    /\ At_(r, "account")
    /\ \/ sqlLocked /\ OverReq(r)
       \/ /\ ~sqlLocked
          /\ sqlReq' = [sqlReq EXCEPT ![r] = [@ EXCEPT !.pc = "lookup",
                !.pool = [by |-> "-", fp |-> compute_fingerprint(sqlReq[r].snap, sqlSecret)]]]
    /\ UNCHANGED <<edited, sqlTarget, sqlSecret, sqlLocked, pools, pending, groupRow>>

\* Plausible slip: whatever is cached for the login is a hit.
AnyHit(cached, fp) == cached # NoPool

IsHit(cached, fp) == cached # NoPool /\ cached.fp = fp

\* Under the lock of the cache: a hit needs the same fingerprint.
Lookup(r) ==
    LET cached == pools[sqlReq[r].login] IN
    /\ At_(r, "lookup")
    /\ IF IsHit(cached, sqlReq[r].pool.fp)
       THEN sqlReq' = [sqlReq EXCEPT ![r] = [@ EXCEPT !.pc = "ready", !.pool = cached]]
       ELSE Step(r, "build")
    /\ UNCHANGED <<edited, sqlTarget, sqlSecret, sqlLocked, pools, pending, groupRow>>

\* build_pool connects, or fails; the account's last use is written.
build_pool(r) ==
    /\ At_(r, "build")
    /\ \/ OverReq(r)
       \/ sqlReq' = [sqlReq EXCEPT ![r] = [@ EXCEPT !.pc = "insert", !.pool.by = r]]
    /\ UNCHANGED <<edited, sqlTarget, sqlSecret, sqlLocked, pools, pending, groupRow>>

\* The new pool replaces what is there now, which a task of its own closes.
InsertPool(r) ==
    /\ At_(r, "insert")
    /\ pools' = [pools EXCEPT ![sqlReq[r].login] = sqlReq[r].pool]
    /\ pending' = pending \cup ({pools[sqlReq[r].login].by} \ {"-"})
    /\ Step(r, "ready")
    /\ UNCHANGED <<edited, sqlTarget, sqlSecret, sqlLocked, groupRow>>

\* TargetPool::close: nothing is acquired from the pool any more.
PoolCloses(p) ==
    /\ p \in pending
    /\ pending' = pending \ {p}
    /\ sqlReq' = [r \in SqlReqs |-> IF sqlReq[r].pool.by = p
                                     THEN [sqlReq[r] EXCEPT !.pool.by = "closed"] ELSE sqlReq[r]]
    /\ UNCHANGED <<edited, sqlTarget, sqlSecret, sqlLocked, pools, groupRow>>

-----------------------------------------------------------------------------
(* Requests: the work. *)

\* api_db_schemas, api_db_tables, api_db_columns: one query on the pool.
Browse(r) ==
    /\ At_(r, "ready")
    /\ OverReq(r)
    /\ UNCHANGED <<edited, sqlTarget, sqlSecret, sqlLocked, pools, pending, groupRow>>

\* api_db_query: an empty text is refused; the grouping session is looked up ...
api_db_query(r) ==
    /\ At_(r, "ready")
    /\ \/ (<<>> \in Sqls \/ sqlLocked) /\ OverReq(r)
       \/ /\ ~sqlLocked
          /\ Step(r, IF groupRow THEN "validate" ELSE "group")
    /\ UNCHANGED <<edited, sqlTarget, sqlSecret, sqlLocked, pools, pending, groupRow>>

\* ... and inserted by every request that did not find it: the second one fails.
ensure_sql_console_group_session(r) ==
    /\ At_(r, "group")
    /\ IF groupRow \/ sqlLocked THEN OverReq(r) /\ UNCHANGED groupRow
       ELSE Step(r, "validate") /\ groupRow' = TRUE
    /\ UNCHANGED <<edited, sqlTarget, sqlSecret, sqlLocked, pools, pending>>

\* A violation is recorded and refused.
ValidateReadonly(r) ==
    /\ At_(r, "validate")
    /\ \E sql \in Sqls \ {<<>>} :
          IF target_readonly(sqlReq[r].snap) /\ ~validate_readonly_sql(sql)
          THEN OverReq(r)
          ELSE sqlReq' = [sqlReq EXCEPT ![r] = [@ EXCEPT !.pc = "acquire", !.writes = Writes(sql)]]
    /\ UNCHANGED <<edited, sqlTarget, sqlSecret, sqlLocked, pools, pending, groupRow>>

\* pool.acquire, and the statements that bound the execution time: a closed pool,
\* or a limit that cannot be applied, is an error, recorded and answered.
acquire(r) ==
    /\ At_(r, "acquire")
    /\ \/ OverReq(r)
       \/ sqlReq[r].pool.by # "closed" /\ Step(r, "run")
    /\ UNCHANGED <<edited, sqlTarget, sqlSecret, sqlLocked, pools, pending, groupRow>>

\* run_mysql_query, run_postgres_query: in a READ ONLY transaction that is rolled
\* back when the target is read-only.  An error or a timeout is answered like a
\* result; what a statement that timed out had done stays done.
run_query(r) ==
    /\ At_(r, "run")
    /\ \E executed \in BOOLEAN :
          sqlReq' = [sqlReq EXCEPT ![r] = [@ EXCEPT !.pc = "record",
                        !.ran = executed /\ sqlReq[r].writes /\ ~target_readonly(sqlReq[r].snap)]]
    /\ UNCHANGED <<edited, sqlTarget, sqlSecret, sqlLocked, pools, pending, groupRow>>

\* record_sql_console_request: best effort, then the answer.
record_sql_console_request(r) ==
    /\ At_(r, "record")
    /\ OverReq(r)
    /\ UNCHANGED <<edited, sqlTarget, sqlSecret, sqlLocked, pools, pending, groupRow>>

\* The browser is gone: the handler is dropped at its next await.  A pool that is
\* not in the cache yet is dropped with it.
Cancelled(r) ==
    /\ sqlReq[r].pc \notin {"none", "over", "validate"}
    /\ OverReq(r)
    /\ UNCHANGED <<edited, sqlTarget, sqlSecret, sqlLocked, pools, pending, groupRow>>

-----------------------------------------------------------------------------
(* The administrator. *)

\* api_update_target: the row is written, invalidate() follows.
UpdateTarget ==
    /\ ~sqlLocked /\ sqlTarget.ver + sqlSecret < MAX_EDITS
    /\ \E ro \in BOOLEAN : sqlTarget' = [ver |-> sqlTarget.ver + 1, readonly |-> ro]
    /\ edited' = TRUE
    /\ UNCHANGED <<sqlSecret, sqlLocked, pools, pending, groupRow, sqlReq>>

\* invalidate empties the target's entries under the lock, and closes them after.
invalidate ==
    /\ edited /\ edited' = FALSE
    /\ pending' = pending \cup {pools[l].by : l \in {x \in Logins : pools[x] # NoPool}}
    /\ pools' = [l \in Logins |-> NoPool]
    /\ UNCHANGED <<sqlTarget, sqlSecret, sqlLocked, groupRow, sqlReq>>

\* api_update_account: nobody invalidates; the fingerprint has to notice.
UpdateAccount ==
    /\ ~sqlLocked /\ sqlTarget.ver + sqlSecret < MAX_EDITS
    /\ sqlSecret' = sqlSecret + 1
    /\ UNCHANGED <<edited, sqlTarget, sqlLocked, pools, pending, groupRow, sqlReq>>

\* Services::clear_secret_caches when the database is locked.
clear_all ==
    /\ ~sqlLocked /\ sqlLocked' = TRUE
    /\ pending' = pending \cup {pools[l].by : l \in {x \in Logins : pools[x] # NoPool}}
    /\ pools' = [l \in Logins |-> NoPool]
    /\ UNCHANGED <<edited, sqlTarget, sqlSecret, groupRow, sqlReq>>

-----------------------------------------------------------------------------
Request(r) ==
    \/ common_auth_and_pool(r) \/ resolve_db_account(r) \/ Lookup(r) \/ build_pool(r)
    \/ InsertPool(r) \/ Browse(r) \/ api_db_query(r) \/ ensure_sql_console_group_session(r)
    \/ ValidateReadonly(r) \/ acquire(r) \/ run_query(r) \/ record_sql_console_request(r)

SqlNext ==
    \/ \E r \in SqlReqs : Arrives(r) \/ Request(r) \/ Cancelled(r) \/ PoolCloses(r)
    \/ UpdateTarget \/ invalidate \/ UpdateAccount \/ clear_all

SqlSpec == SqlInit /\ [][SqlNext]_sqlVars

-----------------------------------------------------------------------------
(* Properties. *)

\* "this is how target edits propagate without an explicit invalidate": a request
\* that arrived after an edit was written works on a pool built from what was
\* written, or from something newer, never on an older pool that the cache kept
\* or that a slower request put back (DbPoolRegistry::get_or_create).
FreshOptions ==
    \A r \in SqlReqs :
       sqlReq[r].pc \in {"ready", "group", "validate", "acquire", "run"} =>
          /\ sqlReq[r].since[1] <= sqlReq[r].pool.fp[1]
          /\ sqlReq[r].since[2] <= sqlReq[r].pool.fp[2]

\* A request that arrives once a target is read-only writes nothing, whatever it
\* sends and whichever pool it gets (api_db_query, validate_readonly_sql),
\* unless the flag is taken back while it runs.
ReadonlyHolds ==
    \A r \in SqlReqs : /\ sqlReq[r].ran
                       /\ sqlReq[r].roSince
                       => sqlReq[r].snap.ver > sqlReq[r].since[1]

=============================================================================
