--------------------------- MODULE SessionRegistry ---------------------------
(***************************************************************************)
(* Live sessions: registration, login bookkeeping, closing and removal     *)
(* (gated-core/src/state.rs, protocols/handle.rs), re-authorization after  *)
(* an access change and shutdown (services.rs), and the refresh of the     *)
(* rate limiters (rate_limiting/registry.rs).                              *)
(*                                                                         *)
(* Three locks matter, and the position of a task says which it holds:     *)
(* the lock of the State (rw), that of each SessionState, and that of the  *)
(* RateLimiterRegistry.  A section that waits for nothing while it holds a *)
(* lock is one atomic step.  The database stays open: a lock or unlock of  *)
(* the encrypted database is Encryption's.                                 *)
(***************************************************************************)
EXTENDS Naturals, FiniteSets

CONSTANTS
    SshSessions,     \* close() is a command the session's event loop reads
    DbSessions,      \* MySQL, PostgreSQL: close() drops the session's future
    HttpSessions,    \* proxied HTTP requests: close() is a no-op
    Pairs,           \* (user, target) pairs
    SsoManaged,      \* the pairs whose role an SSO login may take away
    NoPair,
    MaxFaults,       \* database errors (bounds the runs)
    MaxRefreshes,    \* changes of a rate limit (bounds the runs)
    MaxCloses        \* requests to close sessions (bounds the runs)

Sessions == SshSessions \cup DbSessions \cup HttpSessions
Streams == SshSessions \cup DbSessions

ASSUME RegistryAssumption ==
    /\ SshSessions \cap DbSessions = {} /\ Streams \cap HttpSessions = {}
    /\ NoPair \notin Pairs /\ SsoManaged \subseteq Pairs
    /\ MaxFaults \in Nat /\ MaxRefreshes \in Nat /\ MaxCloses \in Nat

VARIABLES
    pc,          \* where each session's task is
    sessions,    \* State.sessions: the registered ones
    who,         \* the pair a session was authorized for
    info,        \* which of user_info and target its SessionState carries
    row,         \* its row in the sessions table
    rowTarget,   \* whether the row names the target
    lim,         \* the limiters its stream is bound to, besides the global one
    closing,     \* sessions whose handle.close() was called
    grants,      \* pairs authorize_target accepts
    permit,      \* the stored permit of the authorization_changed Notify
    reval, revalTodo,     \* the re-authorization pass
    refresh, refreshTodo, refreshes,   \* apply_new_rate_limits
    shut, shutTodo,       \* shutdown
    api, apiTodo, closes, \* an administrator's request to close sessions
    faults       \* database errors so far

session == <<pc, sessions, who, info, row, rowTarget, lim, closing>>
tasks == <<reval, revalTodo, refresh, refreshTodo, refreshes, shut, shutTodo,
           api, apiTodo, closes>>
vars == <<session, grants, permit, tasks, faults>>

Init ==
    /\ pc = [s \in Sessions |-> "start"]
    /\ sessions = {}
    /\ who = [s \in Sessions |-> NoPair]
    /\ info = [s \in Sessions |-> {}]
    /\ row = [s \in Sessions |-> "none"]
    /\ rowTarget = [s \in Sessions |-> FALSE]
    /\ lim = [s \in Sessions |-> {}]
    /\ closing = {}
    /\ grants = Pairs
    /\ permit = FALSE
    /\ reval = "idle" /\ revalTodo = {}
    /\ refresh = "idle" /\ refreshTodo = {} /\ refreshes = 0
    /\ shut = "no" /\ shutTodo = {}
    /\ api = "idle" /\ apiTodo = {} /\ closes = 0
    /\ faults = 0

Goto(s, place) == pc' = [pc EXCEPT ![s] = place]

\* Who holds which lock: a session its own SessionState while it waits for the
\* registry, the refresh the registry and then the State for writing, an
\* administrator's request the State for writing, the re-authorization for reading.
SessionFree(s) == pc[s] \notin {"wrap", "limit"}
RegistryFree == refresh = "idle"
StateReadable == refresh # "each" /\ api = "idle"
StateFree == StateReadable /\ reval # "scan"

Fault == faults < MaxFaults /\ faults' = faults + 1

-----------------------------------------------------------------------------
(* One session. *)

\* register_session.  A proxied HTTP request was authorized before.
register_session(s) ==
    /\ pc[s] = (IF s \in HttpSessions THEN "register" ELSE "start") /\ StateFree
    /\ sessions' = sessions \cup {s}
    /\ Goto(s, IF s \in HttpSessions THEN "target" ELSE "wrap0")
    /\ UNCHANGED <<who, info, row, rowTarget, lim, closing,
                   grants, permit, tasks, faults>>

\* wrap_stream: the SessionState's lock, then the registry's.
WrapLock(s) ==
    /\ pc[s] = "wrap0" /\ Goto(s, "wrap")
    /\ UNCHANGED <<sessions, who, info, row, rowTarget, lim, closing,
                   grants, permit, tasks, faults>>

WrapStream(s) ==
    /\ pc[s] = "wrap" /\ RegistryFree
    /\ lim' = [lim EXCEPT ![s] = info[s]]
    /\ Goto(s, "login")
    /\ UNCHANGED <<sessions, who, info, row, rowTarget, closing,
                   grants, permit, tasks, faults>>

\* authorize_target accepts the pair the client asked for.
Authorize(s, pair) ==
    /\ pc[s] = (IF s \in HttpSessions THEN "start" ELSE "login")
    /\ pair \in grants
    /\ who' = [who EXCEPT ![s] = pair]
    /\ Goto(s, IF s \in HttpSessions THEN "register" ELSE "user")
    /\ UNCHANGED <<sessions, info, row, rowTarget, lim, closing,
                   grants, permit, tasks, faults>>

\* What follows the user, and the target: HTTP sets the target first.
AfterUser(s) == IF s \in HttpSessions THEN "live" ELSE "target"
AfterTarget(s) == IF s \in HttpSessions THEN "user" ELSE "live"

\* An error of set_user_info, set_target or update_rate_limiters ends the
\* session, but SSH ignores it.
OrIgnored(s, place) == IF s \in SshSessions THEN place ELSE "gone"

\* Mutant: the row is written before the target was recorded, and not updated.
set_user_info_NoSnapshot(s) ==
    /\ pc[s] = "user"
    /\ info' = [info EXCEPT ![s] = @ \cup {"user"}]
    /\ row' = [row EXCEPT ![s] = "open"]
    /\ Goto(s, "limit0") /\ UNCHANGED <<rowTarget, faults>>
    /\ UNCHANGED <<sessions, who, lim, closing, grants, permit, tasks>>

\* set_user_info: user_info first, then the row, which the first call inserts
\* with the target known by then.
set_user_info(s) ==
    /\ pc[s] = "user"
    /\ info' = [info EXCEPT ![s] = @ \cup {"user"}]
    /\ \/ /\ row' = [row EXCEPT ![s] = "open"]
          /\ rowTarget' = [rowTarget EXCEPT ![s] = @ \/ "target" \in info[s]]
          /\ Goto(s, "limit0") /\ UNCHANGED faults
       \/ /\ Fault /\ UNCHANGED <<row, rowTarget>>
          /\ Goto(s, OrIgnored(s, AfterUser(s)))
    /\ UNCHANGED <<sessions, who, lim, closing, grants, permit, tasks>>

\* set_target: the row is updated only once it is there (`persisted`).
set_target(s) ==
    /\ pc[s] = "target"
    /\ info' = [info EXCEPT ![s] = @ \cup {"target"}]
    /\ \/ /\ rowTarget' = [rowTarget EXCEPT ![s] = @ \/ row[s] # "none"]
          /\ Goto(s, "limit0") /\ UNCHANGED faults
       \/ /\ row[s] # "none" /\ Fault /\ UNCHANGED rowTarget
          /\ Goto(s, OrIgnored(s, AfterTarget(s)))
    /\ UNCHANGED <<sessions, who, row, lim, closing, grants, permit, tasks>>

\* update_rate_limiters: the SessionState's lock, then the registry's.
LimitLock(s) ==
    /\ pc[s] = "limit0" /\ Goto(s, "limit")
    /\ UNCHANGED <<sessions, who, info, row, rowTarget, lim, closing,
                   grants, permit, tasks, faults>>

AfterLimit(s) ==
    IF info[s] = {"user", "target"} THEN "live"
    ELSE IF "user" \in info[s] THEN "target" ELSE "user"

\* An error leaves the limiters as they were, or only the user's replaced.
PartlyLimited(s) ==
    lim' \in {lim, [lim EXCEPT ![s] = IF s \in Streams
                                    THEN @ \cup (info[s] \cap {"user"}) ELSE @]}

update_rate_limiters(s) ==
    /\ pc[s] = "limit" /\ RegistryFree
    /\ \/ /\ lim' = [lim EXCEPT ![s] = IF s \in Streams THEN info[s] ELSE {}]
          /\ Goto(s, AfterLimit(s)) /\ UNCHANGED faults
       \/ Fault /\ PartlyLimited(s) /\ Goto(s, OrIgnored(s, AfterLimit(s)))
    /\ UNCHANGED <<sessions, who, info, row, rowTarget, closing, grants, permit, tasks>>

\* The target is no longer listed, or no login on it can be chosen: SSH finds
\* out after set_user_info and stays connected, MySQL and PostgreSQL before it.
NoTarget(s) ==
    /\ \/ s \in SshSessions /\ pc[s] = "target" /\ Goto(s, "refused")
       \/ s \in DbSessions /\ pc[s] = "user" /\ Goto(s, "gone")
    /\ UNCHANGED <<sessions, who, info, row, rowTarget, lim, closing,
                   grants, permit, tasks, faults>>

\* The client goes away, or a request has been answered.  A proxied request
\* whose client disconnects is dropped wherever it waits.
Leave(s) ==
    /\ \/ pc[s] \in {"login", "refused", "live"}
       \/ s \in HttpSessions /\ pc[s] \notin {"start", "gone", "removed"}
    /\ Goto(s, "gone")
    /\ UNCHANGED <<sessions, who, info, row, rowTarget, lim, closing,
                   grants, permit, tasks, faults>>

\* Mutant: a session that reached its target no longer looks for the command.
Closed_OnlyLogin(s) ==
    /\ s \in closing
    /\ pc[s] \notin {"start", "wrap0", "wrap", "live", "gone", "removed"} /\ s \in Streams
    /\ Goto(s, "gone")
    /\ UNCHANGED <<sessions, who, info, row, rowTarget, lim, closing,
                   grants, permit, tasks, faults>>

\* handle.close() takes effect: SSH reads the command between two events; the
\* select of a database session drops its future wherever it waits.
Closed(s) ==
    /\ s \in closing
    /\ \/ s \in SshSessions /\ pc[s] \in {"login", "refused", "live"}
       \/ s \in DbSessions /\ pc[s] \notin {"start", "wrap0", "wrap", "gone", "removed"}
    /\ Goto(s, "gone")
    /\ UNCHANGED <<sessions, who, info, row, rowTarget, lim, closing,
                   grants, permit, tasks, faults>>

\* Mutant: the row is not marked complete.
remove_session_KeepsRow(s) ==
    /\ pc[s] = "gone" /\ StateFree
    /\ sessions' = sessions \ {s} /\ Goto(s, "removed")
    /\ UNCHANGED <<who, info, row, rowTarget, lim, closing,
                   grants, permit, tasks, faults>>

\* Mutant: a session that is no longer in the table is skipped.
remove_session_Registered(s) ==
    /\ pc[s] = "gone" /\ StateFree
    /\ sessions' = sessions \ {s} /\ Goto(s, "removed")
    /\ row' = [row EXCEPT ![s] = IF @ = "open" /\ s \in sessions THEN "ended" ELSE @]
    /\ UNCHANGED <<who, info, rowTarget, lim, closing, grants, permit, tasks, faults>>

\* mark_session_complete: a session that never logged in has no row; an error is
\* only logged.
MarkComplete(s) ==
    \/ /\ row' = [row EXCEPT ![s] = IF @ = "open" THEN "ended" ELSE @]
       /\ UNCHANGED faults
    \/ Fault /\ UNCHANGED row

\* remove_session, in the task that dropping the handle spawns.
remove_session(s) ==
    /\ pc[s] = "gone" /\ StateFree
    /\ sessions' = sessions \ {s} /\ Goto(s, "removed")
    /\ MarkComplete(s)
    /\ UNCHANGED <<who, info, rowTarget, lim, closing, grants, permit, tasks>>

-----------------------------------------------------------------------------
(* Administrators. *)

\* api_close_session, api_close_all_sessions and invalidate_other_sessions hold
\* the State while they close sessions; api_terminate_session removes one as well.
ApiBegin(op, todo) ==
    /\ StateFree /\ closes < MaxCloses /\ todo \subseteq sessions /\ todo # {}
    /\ op = "terminate" => Cardinality(todo) = 1
    /\ api' = op /\ apiTodo' = todo /\ closes' = closes + 1
    /\ UNCHANGED <<session, grants, permit, reval, revalTodo, refresh, refreshTodo,
                   refreshes, shut, shutTodo, faults>>

ApiClose(s) ==
    /\ s \in apiTodo /\ SessionFree(s)
    /\ closing' = closing \cup {s}
    /\ \/ api = "close" /\ UNCHANGED <<sessions, row, faults>>
       \/ api = "terminate" /\ sessions' = sessions \ {s} /\ MarkComplete(s)
    /\ apiTodo' = apiTodo \ {s}
    /\ api' = IF apiTodo = {s} THEN "idle" ELSE api
    /\ UNCHANGED <<pc, who, info, rowTarget, lim, grants, permit, reval, revalTodo,
                   refresh, refreshTodo, refreshes, shut, shutTodo, closes>>

-----------------------------------------------------------------------------
(* Access changes and the re-authorization pass. *)

\* Mutant: notify_waiters in place of notify_one, which stores no permit for a pass
\* that is under way.
Revoke_NoPermit(pair) ==
    /\ pair \in grants
    /\ grants' = grants \ {pair}
    /\ permit' = (permit \/ reval = "idle")
    /\ UNCHANGED <<session, tasks, faults>>

\* Deleting a user, role or target, or one of their bindings, stores a permit.
Revoke(pair) ==
    /\ pair \in grants
    /\ grants' = grants \ {pair}
    /\ permit' = TRUE
    /\ UNCHANGED <<session, tasks, faults>>

\* apply_sso_role_mappings drops a role the identity provider no longer lists.
SsoRevoke(pair) ==
    /\ pair \in grants \cap SsoManaged
    /\ grants' = grants \ {pair}
    /\ UNCHANGED <<session, permit, tasks, faults>>

Grant(pair) ==
    /\ pair \notin grants
    /\ grants' = grants \cup {pair}
    /\ UNCHANGED <<session, permit, tasks, faults>>

\* watch_config_and_reload wakes up on the permit, or on a change of the config
\* file, which leaves a permit for the next round.
Wake ==
    /\ reval = "idle" /\ permit
    /\ permit' = FALSE
    /\ reval' = "wake"
    /\ UNCHANGED <<session, grants, revalTodo, refresh, refreshTodo, refreshes,
                   shut, shutTodo, api, apiTodo, closes, faults>>

Reload ==
    /\ reval = "idle" /\ UNCHANGED permit
    /\ reval' = "wake"
    /\ UNCHANGED <<session, grants, revalTodo, refresh, refreshTodo, refreshes,
                   shut, shutTodo, api, apiTodo, closes, faults>>

RevalBegin ==
    /\ reval = "wake" /\ StateReadable
    /\ reval' = "scan" /\ revalTodo' = sessions
    /\ UNCHANGED <<session, grants, permit, refresh, refreshTodo, refreshes,
                   shut, shutTodo, api, apiTodo, closes, faults>>

Known(s) == info[s] = {"user", "target"}

\* One iteration: a session without user or target is skipped, an unauthorized
\* one closed, one whose check fails left open.
RevalCheck(s) ==
    /\ reval = "scan" /\ s \in revalTodo /\ SessionFree(s)
    /\ revalTodo' = revalTodo \ {s}
    /\ \/ /\ closing' = IF Known(s) /\ who[s] \notin grants
                        THEN closing \cup {s} ELSE closing
          /\ UNCHANGED faults
       \/ Known(s) /\ Fault /\ UNCHANGED closing
    /\ UNCHANGED <<pc, sessions, who, info, row, rowTarget, lim, grants, permit,
                   reval, refresh, refreshTodo, refreshes, shut, shutTodo, api, apiTodo, closes>>

RevalEnd ==
    /\ reval = "scan" /\ revalTodo = {}
    /\ reval' = "idle"
    /\ UNCHANGED <<session, grants, permit, revalTodo, refresh, refreshTodo,
                   refreshes, shut, shutTodo, api, apiTodo, closes, faults>>

-----------------------------------------------------------------------------
(* A change of a rate limit: the registry's lock, the State's, each session's. *)

RefreshBegin ==
    /\ RegistryFree /\ refreshes < MaxRefreshes
    /\ refresh' = "state" /\ refreshes' = refreshes + 1
    /\ UNCHANGED <<session, grants, permit, reval, revalTodo, refreshTodo,
                   shut, shutTodo, api, apiTodo, closes, faults>>

RefreshLock ==
    /\ refresh = "state" /\ StateFree
    /\ refresh' = "each" /\ refreshTodo' = sessions
    /\ UNCHANGED <<session, grants, permit, reval, revalTodo, refreshes,
                   shut, shutTodo, api, apiTodo, closes, faults>>

\* An error ends the refresh with the other sessions unvisited.
RefreshOne(s) ==
    /\ refresh = "each" /\ s \in refreshTodo /\ SessionFree(s)
    /\ \/ /\ lim' = [lim EXCEPT ![s] = IF s \in Streams THEN info[s] ELSE {}]
          /\ refreshTodo' = refreshTodo \ {s} /\ UNCHANGED faults
       \/ Fault /\ PartlyLimited(s) /\ refreshTodo' = {}
    /\ UNCHANGED <<pc, sessions, who, info, row, rowTarget, closing, grants, permit,
                   reval, revalTodo, refresh, refreshes, shut, shutTodo, api, apiTodo, closes>>

RefreshEnd ==
    /\ refresh = "each" /\ refreshTodo = {}
    /\ refresh' = "idle"
    /\ UNCHANGED <<session, grants, permit, reval, revalTodo, refreshTodo,
                   refreshes, shut, shutTodo, api, apiTodo, closes, faults>>

-----------------------------------------------------------------------------
(* Shutdown. *)

\* The subscription to changes needs the State for writing, but for no other
\* effect: it may have been long ago.  The snapshot only reads.
ShutBegin ==
    /\ shut = "no" /\ StateReadable
    /\ shut' = "close" /\ shutTodo' = sessions
    /\ UNCHANGED <<session, grants, permit, reval, revalTodo, refresh, refreshTodo,
                   refreshes, api, apiTodo, closes, faults>>

ShutClose(s) ==
    /\ shut = "close" /\ s \in shutTodo /\ SessionFree(s)
    /\ closing' = closing \cup {s}
    /\ shutTodo' = shutTodo \ {s}
    /\ UNCHANGED <<pc, sessions, who, info, row, rowTarget, lim, grants, permit,
                   reval, revalTodo, refresh, refreshTodo, refreshes, shut,
                   api, apiTodo, closes, faults>>

\* Mutant: shutdown waits for the last session however long that takes.
ShutDone_NoTimeout ==
    /\ shut = "close" /\ shutTodo = {} /\ StateReadable /\ sessions = {}
    /\ shut' = "done"
    /\ UNCHANGED <<session, grants, permit, reval, revalTodo, refresh, refreshTodo,
                   refreshes, shutTodo, api, apiTodo, closes, faults>>

\* All are asked; it waits until none is registered or the timeout, and reads
\* the State once more.  Then the process exits.
ShutDone ==
    /\ shut = "close" /\ shutTodo = {} /\ StateReadable
    /\ shut' = "done"
    /\ UNCHANGED <<session, grants, permit, reval, revalTodo, refresh, refreshTodo,
                   refreshes, shutTodo, api, apiTodo, closes, faults>>

-----------------------------------------------------------------------------
\* What the outside decides: clients, administrators and the operator.
Outside ==
    \/ \E s \in Sessions :
         \/ register_session(s) \/ NoTarget(s) \/ Leave(s)
         \/ \E pair \in Pairs : Authorize(s, pair)
    \/ \E pair \in Pairs : Revoke(pair) \/ SsoRevoke(pair) \/ Grant(pair)
    \/ Reload \/ RefreshBegin \/ ShutBegin
    \/ \E op \in {"close", "terminate"}, todo \in SUBSET sessions : ApiBegin(op, todo)

SessionStep(s) ==
    \/ WrapLock(s) \/ WrapStream(s) \/ set_user_info(s) \/ set_target(s)
    \/ LimitLock(s) \/ update_rate_limiters(s) \/ Closed(s)

RevalStep == Wake \/ RevalBegin \/ (\E s \in Sessions : RevalCheck(s)) \/ RevalEnd

RefreshStep == RefreshLock \/ (\E s \in Sessions : RefreshOne(s)) \/ RefreshEnd

ApiStep == \E s \in Sessions : ApiClose(s)

ShutStep == (\E s \in Sessions : ShutClose(s)) \/ ShutDone

Next ==
    /\ shut # "done"
    /\ \/ Outside
       \/ \E s \in Sessions : SessionStep(s) \/ remove_session(s)
       \/ RevalStep \/ RefreshStep \/ ShutStep \/ ApiStep

Spec == Init /\ [][Next]_vars

\* tokio runs every task that can run and its locks are FIFO, so a task that
\* keeps finding the State taken by another reader gets it in the end (SF).  The
\* session's own steps do not depend on its client.
Running == shut # "done"

Fairness ==
    /\ \A s \in Sessions : /\ WF_vars(Running /\ SessionStep(s))
                           /\ SF_vars(Running /\ remove_session(s))
    /\ WF_vars(Running /\ RevalStep)
    /\ SF_vars(Running /\ RefreshStep)
    /\ WF_vars(Running /\ ShutStep) /\ WF_vars(Running /\ ApiStep)

FairSpec == Spec /\ Fairness

-----------------------------------------------------------------------------
(* Properties. *)

Places == {"start", "register", "wrap0", "wrap", "login", "user", "target",
           "limit0", "limit", "refused", "live", "gone", "removed"}

TypeOK ==
    /\ pc \in [Sessions -> Places]
    /\ sessions \subseteq Sessions /\ closing \subseteq Sessions
    /\ who \in [Sessions -> Pairs \cup {NoPair}]
    /\ info \in [Sessions -> SUBSET {"user", "target"}]
    /\ lim \in [Sessions -> SUBSET {"user", "target"}]
    /\ row \in [Sessions -> {"none", "open", "ended"}]
    /\ rowTarget \in [Sessions -> BOOLEAN]
    /\ grants \subseteq Pairs /\ permit \in BOOLEAN
    /\ reval \in {"idle", "wake", "scan"} /\ revalTodo \subseteq Sessions
    /\ refresh \in {"idle", "state", "each"} /\ refreshTodo \subseteq Sessions
    /\ refreshes \in 0..MaxRefreshes /\ faults \in 0..MaxFaults
    /\ shut \in {"no", "close", "done"} /\ shutTodo \subseteq Sessions
    /\ api \in {"idle", "close", "terminate"} /\ apiTodo \subseteq Sessions
    /\ closes \in 0..MaxCloses

\* Unless the database failed or it was terminated, a session that reached its
\* target has an open row that names the target, and its stream is bound to the
\* limiters of its user and of its target, whichever was set first
\* (set_user_info, set_target, wrap_stream).
LiveIsRecorded ==
    \A s \in sessions : pc[s] = "live" /\ faults = 0 =>
        /\ row[s] = "open" /\ rowTarget[s]
        /\ s \in Streams => lim[s] = {"user", "target"}

\* The row of a registered session is never ended; a row that a login writes
\* after the session was terminated is ended with the session, unless the
\* database failed (remove_session, mark_session_complete).
RowFollowsSession ==
    \A s \in Sessions :
        /\ row[s] = "ended" => s \notin sessions
        /\ row[s] = "open" /\ pc[s] = "removed" => faults > 0

\* The re-authorization pass, the rate limiter refresh and an administrator's
\* request never see the table of sessions change under them: what they still
\* have to visit is registered.
ScansAreStable ==
    revalTodo \cup refreshTodo \cup apiTodo \subseteq sessions

Unauthorized(s) == who[s] \notin grants
Ended(s) == pc[s] \in {"gone", "removed"} \/ shut = "done"

\* A session that was logged in while it was authorized is asked to close after
\* its access is revoked, wherever the pass is when the change is made
\* (notify_authorization_changed, revalidate_sessions).
RevokedIsClosed ==
    \A s \in Sessions :
        [](Known(s) /\ ~Unauthorized(s) =>
             [](Unauthorized(s) => <>(s \in closing \/ ~Unauthorized(s) \/ Ended(s))))

\* A session asked to close or terminated, at any point of its login, ends and is
\* removed; a proxied HTTP request ends by itself.
CloseTakesEffect ==
    \A s \in Streams : s \in closing ~> pc[s] = "removed" \/ shut = "done"

\* A login under way when its session is terminated may still write a row, and
\* go live unregistered; the row is ended all the same once the session notices,
\* database errors apart (api_terminate_session, set_user_info, remove_session).
TerminatedRowEnds ==
    \A s \in Streams : row[s] = "open" /\ s \notin sessions
        ~> row[s] = "ended" \/ faults > 0 \/ shut = "done"

\* services.rs:191-192, of shutdown: "Closes live sessions and waits, up to
\* `timeout` in total, for them to deregister": it ends.
ShutdownEnds == shut = "close" ~> shut = "done"

=============================================================================
