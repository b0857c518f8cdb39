---------------------------- MODULE AuthStateStore ----------------------------
(***************************************************************************)
(* The shared store of in-flight logins (gated-core/src/                   *)
(* auth_state_store.rs) and every task that works on it: SSH, PostgreSQL   *)
(* and MySQL logins, browser logins, and the portal requests that list,    *)
(* approve or reject a pending login.                                      *)
(*                                                                         *)
(* Two kinds of mutex are modelled, at the granularity at which the code   *)
(* holds one while it waits for another: `storeLock`, the lock of the      *)
(* AuthStateStore, and `sLock[id]`, the lock of one AuthState.  A section  *)
(* that holds one lock and waits for nothing is one atomic step guarded by *)
(* that lock being free.  The config provider's lock is only ever taken    *)
(* last and is not modelled.                                               *)
(***************************************************************************)
EXTENDS AuthPolicy

CONSTANTS
    SshConns, PgConns, MyConns,   \* protocol connections
    Browsers,                     \* browser sessions that log in over HTTP
    Portals,                      \* portal sessions of logged-in users
    PortalUser,                   \* PortalUser[w]: who portal w belongs to
    Abortable,                    \* tasks an administrator or their peer may abort
    Ids,                          \* auth state ids (bounds the logins started)
    NoId, NoTask, NoState, NoCred

Conns == SshConns \cup PgConns \cup MyConns
Waiters == SshConns \cup PgConns
Tasks == Conns \cup Browsers \cup Portals

ASSUME StoreAssumption ==
    /\ PortalUser \in [Portals -> Users]
    /\ NoId \notin Ids /\ NoTask \notin Tasks /\ NoCred \notin Kinds
    /\ NoState \notin AuthStates
    /\ Abortable \subseteq PgConns \cup MyConns \cup Browsers \cup Portals
    /\ SshConns \cap (PgConns \cup MyConns \cup Browsers \cup Portals) = {}
    /\ PgConns \cap (MyConns \cup Browsers \cup Portals) = {}
    /\ MyConns \cap (Browsers \cup Portals) = {}
    /\ Browsers \cap Portals = {}

VARIABLES
    states,     \* the AuthState objects, alive as long as somebody holds them
    store,      \* ids in `store`
    sigs,       \* ids with an entry in `completion_signals`
    rx,         \* the broadcast receiver an SSH or PostgreSQL session holds
    storeLock, sLock,
    pc,         \* where each task is
    at,         \* the AuthState each task works on
    req,        \* the request each task is serving
    kbd,        \* SSH keyboard_interactive_state
    todo,       \* ids a portal listing has still to lock
    letIn       \* the AuthState whose acceptance let the task in, or NoId

shared == <<states, store, sigs, rx>>
locks == <<storeLock, sLock>>
vars == <<states, store, sigs, rx, storeLock, sLock,
          pc, at, req, kbd, todo, letIn>>

NoRx == [id |-> NoId, got |-> "none"]
Verbs == {"none", "plain", "kbd", "login", "continue", "cancel",
          "list", "approve", "reject"}
NoReq == [verb |-> "none", user |-> CHOOSE u \in Users : TRUE, cred |-> NoCred]

Requests == [verb : Verbs, user : Users, cred : Kinds \cup {NoCred}]
Receivers == [id : Ids \cup {NoId}, got : {"none", "open", "closed"} \cup Results]

Places == {"idle", "get", "lock", "complete", "relock", "authorize", "sub",
           "recv", "loop", "pw", "complete2", "held", "peek", "act", "fin",
           "list", "live", "gone"}

Init ==
    /\ states = [id \in Ids |-> NoState]
    /\ store = {} /\ sigs = {}
    /\ rx = [c \in Waiters |-> NoRx]
    /\ storeLock = NoTask /\ sLock = [id \in Ids |-> NoTask]
    /\ pc = [t \in Tasks |-> "idle"]
    /\ at = [t \in Tasks |-> NoId]
    /\ req = [t \in Tasks |-> NoReq]
    /\ kbd = [c \in SshConns |-> "None"]
    /\ todo = [w \in Portals |-> {}]
    /\ letIn = [t \in Tasks |-> NoId]

StoreFree == storeLock = NoTask
Free(id) == sLock[id] = NoTask
Goto(t, place) == pc' = [pc EXCEPT ![t] = place]
Hold(id, t) == sLock' = [sLock EXCEPT ![id] = t]
Release(id) == sLock' = [sLock EXCEPT ![id] = NoTask]
\* The request has been answered: what it carried is gone.
Answered(t) == req' = [req EXCEPT ![t] = NoReq]

-----------------------------------------------------------------------------
(* The store's own operations. *)

Fresh == {id \in Ids : states[id] = NoState}

\* create, called with the store locked: a new AuthState under a new id.
create(t, id, u, p) ==
    /\ states' = [states EXCEPT ![id] = NewAuthState(u, p)]
    /\ store' = store \cup {id}
    /\ at' = [at EXCEPT ![t] = id]

\* subscribe: the signal is registered unless one is there already; the
\* receiver sees only what is sent from now on.
subscribe(c, id) ==
    /\ sigs' = sigs \cup {id}
    /\ rx' = [rx EXCEPT ![c] = [id |-> id, got |-> "open"]]

\* The receivers of the signals in `gone` observe `got`.
Signalled(gone, got) ==
    [c \in Waiters |-> IF rx[c].got = "open" /\ rx[c].id \in gone
                       THEN [rx[c] EXCEPT !.got = got] ELSE rx[c]]

\* complete locks the AuthState only when it has a signal to send.
HasSignal(id) == id \in store /\ id \in sigs

\* Mutant: vacuum forgets the completion signals.
Vacuum_KeepsSignals(old, oldSigs) ==
    /\ StoreFree /\ old \cap store # {}
    /\ store' = store \ old
    /\ UNCHANGED <<states, sigs, rx, locks, pc, at, req, kbd, todo, letIn>>

\* vacuum drops what is older than TIMEOUT: any entries, and any signals whose
\* entry, which is older still, is gone too.  Dropping a signal drops its
\* sender, which its receivers observe as a closed channel.
Vacuum(old, oldSigs) ==
    /\ StoreFree
    /\ old \subseteq store /\ oldSigs \subseteq sigs /\ old \cup oldSigs # {}
    /\ oldSigs \cap store \subseteq old
    /\ store' = store \ old
    /\ sigs' = sigs \ oldSigs
    /\ rx' = Signalled(oldSigs, "closed")
    /\ UNCHANGED <<states, locks, pc, at, req, kbd, todo, letIn>>

TakeSignal(id) == sigs' = sigs \ {id}

\* complete, by a task that holds the store lock and not the AuthState's.
complete(id, s) ==
    IF HasSignal(id)
    THEN TakeSignal(id) /\ rx' = Signalled({id}, verify(s))
    ELSE UNCHANGED <<sigs, rx>>

\* A portal request returns; its handler's locals are gone.
PortalDone(w) ==
    /\ Goto(w, "idle")
    /\ at' = [at EXCEPT ![w] = NoId]
    /\ Answered(w)

\* The send inside complete: verify() needs the AuthState's lock, which the
\* task waits for while it holds the store's.  A task that holds the AuthState
\* itself never gets past this point.
CompleteSend(t) ==
    /\ pc[t] = "relock" /\ Free(at[t])
    /\ rx' = Signalled({at[t]}, verify(states[at[t]]))
    /\ storeLock' = NoTask
    /\ IF t \in Portals
       THEN PortalDone(t)
       ELSE Goto(t, "authorize") /\ UNCHANGED <<at, req>>
    /\ UNCHANGED <<states, store, sigs, sLock, kbd, todo, letIn>>

-----------------------------------------------------------------------------
(* SSH logins (gated-protocol-ssh/src/server/session.rs). *)

\* The client asks to authenticate as u.  A wrong credential adds nothing, as
\* does a public key offer, so both are NoCred.
SshRequest(c, u) ==
    /\ pc[c] = "idle"
    /\ \/ \E k \in (Creds[u] \cap {"Password", "PublicKey"}) \cup {NoCred} :
             req' = [req EXCEPT ![c] = [verb |-> "plain", user |-> u, cred |-> k]]
          /\ Goto(c, "get") /\ UNCHANGED kbd
       \/ \E k \in (Creds[u] \cap {"Totp"}) \cup {NoCred} :
             /\ k = "Totp" => kbd[c] = "OtpRequested"
             /\ req' = [req EXCEPT ![c] = [verb |-> "kbd", user |-> u, cred |-> k]]
             /\ IF kbd[c] = "WebAuthRequested"
                THEN Goto(c, "recv") /\ UNCHANGED kbd
                ELSE Goto(c, "get") /\ kbd' = [kbd EXCEPT ![c] = "None"]
    /\ UNCHANGED <<shared, locks, at, todo, letIn>>

\* `let _ = event.recv().await`: whatever was received, or the channel closed.
SshReceive(c) ==
    /\ pc[c] = "recv" /\ rx[c].got # "open"
    /\ rx' = [rx EXCEPT ![c] = NoRx]
    /\ kbd' = [kbd EXCEPT ![c] = "None"]
    /\ Goto(c, "get")
    /\ UNCHANGED <<states, store, sigs, locks, at, req, todo, letIn>>

SameUser(c) == at[c] # NoId /\ states[at[c]].user = req[c].user

\* get_auth_state: a new AuthState when there is none or the user name changed.
SshGetAuthState(c) ==
    /\ pc[c] = "get"
    /\ at[c] # NoId => Free(at[c])
    /\ IF SameUser(c) THEN UNCHANGED <<states, store, at>>
       ELSE StoreFree /\ \E id \in Fresh : create(c, id, req[c].user, "SSH")
    /\ Goto(c, "lock")
    /\ UNCHANGED <<sigs, rx, locks, req, kbd, todo, letIn>>

WithCred(s, k) == IF k = NoCred THEN s ELSE add_valid_credential(s, k)

\* try_auth_eager up to verify().  Accepted keeps the AuthState's guard; the
\* other results drop it, and keyboard-interactive picks its next prompt.
SshVerify(c) ==
    LET s == WithCred(states[at[c]], req[c].cred)
        prompt == IF req[c].verb = "kbd" THEN Needs(s) ELSE {}
    IN  /\ pc[c] = "lock" /\ Free(at[c])
        /\ states' = [states EXCEPT ![at[c]] = s]
        /\ IF verify(s) = "Accepted"
           THEN Goto(c, "complete") /\ Hold(at[c], c) /\ UNCHANGED <<kbd, req>>
           ELSE /\ Answered(c)
                /\ kbd' = IF "Totp" \in prompt
                          THEN [kbd EXCEPT ![c] = "OtpRequested"] ELSE kbd
                /\ Goto(c, IF "Totp" \notin prompt /\ "WebUserApproval" \in prompt
                           THEN "sub" ELSE "idle")
                /\ UNCHANGED sLock
        /\ UNCHANGED <<store, sigs, rx, storeLock, at, todo, letIn>>

\* The approval prompt: the session subscribes to its AuthState's completion.
SshSubscribe(c) ==
    /\ pc[c] = "sub" /\ Free(at[c]) /\ StoreFree
    /\ subscribe(c, at[c])
    /\ kbd' = [kbd EXCEPT ![c] = "WebAuthRequested"]
    /\ Goto(c, "idle")
    /\ UNCHANGED <<states, store, locks, at, req, todo, letIn>>

\* auth_state_store.lock().complete(state.id()) with the AuthState's guard held
\* (SSH and MySQL).
HoldComplete(c) ==
    /\ pc[c] = "complete" /\ c \in SshConns \cup MyConns /\ StoreFree
    /\ IF HasSignal(at[c])
       THEN TakeSignal(at[c]) /\ storeLock' = c /\ Goto(c, "relock")
       ELSE Goto(c, "authorize") /\ UNCHANGED <<sigs, storeLock>>
    /\ UNCHANGED <<states, store, rx, sLock, at, req, kbd, todo, letIn>>

\* Mutant: the guard is released before the target check.
SshAuthorize_Unguarded(c) ==
    \/ /\ pc[c] = "authorize" /\ sLock[at[c]] = c
       /\ Release(at[c])
       /\ UNCHANGED <<shared, storeLock, pc, at, req, kbd, todo, letIn>>
    \/ /\ pc[c] = "authorize" /\ sLock[at[c]] # c
       /\ letIn' = [letIn EXCEPT ![c] = at[c]]
       /\ Goto(c, "live")
       /\ UNCHANGED <<shared, locks, at, req, kbd, todo>>

\* authorize_target, then _auth_accept; the target may be refused.
SshAuthorize(c) ==
    /\ pc[c] = "authorize"
    /\ Release(at[c])
    /\ \/ letIn' = [letIn EXCEPT ![c] = at[c]] /\ Goto(c, "live") /\ UNCHANGED req
       \/ UNCHANGED letIn /\ Goto(c, "idle") /\ Answered(c)
    /\ UNCHANGED <<shared, storeLock, at, kbd, todo>>

SshDisconnect(c) ==
    /\ pc[c] \in {"idle", "live"}
    /\ Goto(c, "gone")
    /\ rx' = [rx EXCEPT ![c] = NoRx]
    /\ UNCHANGED <<states, store, sigs, locks, at, req, kbd,
                   todo, letIn>>

-----------------------------------------------------------------------------
(* PostgreSQL logins (gated-protocol-postgres/src/session.rs). *)

PgConnect(c, u) ==
    /\ pc[c] = "idle" /\ StoreFree
    /\ \E id \in Fresh : create(c, id, u, "PostgreSQL")
    /\ Goto(c, "loop")
    /\ UNCHANGED <<sigs, rx, locks, req, kbd, todo, letIn>>

\* Mutant: the guard verify() ran under is still held when complete is called.
PgVerify_KeepsGuard(c) ==
    LET s == states[at[c]]
    IN  /\ pc[c] = "loop" /\ Free(at[c])
        /\ IF verify(s) = "Accepted" THEN Hold(at[c], c) ELSE UNCHANGED sLock
        /\ Goto(c, CASE verify(s) = "Accepted"  -> "complete"
                     [] "Password" \in Needs(s) -> "pw"
                     [] OTHER                   -> "sub")
        /\ UNCHANGED <<shared, storeLock, at, req, kbd, todo, letIn>>

\* The head of the login loop: verify() under the AuthState's lock alone.
PgVerify(c) ==
    LET s == states[at[c]]
    IN  /\ pc[c] = "loop" /\ Free(at[c])
        /\ Goto(c, CASE verify(s) = "Accepted"           -> "complete"
                     [] "Password" \in Needs(s)          -> "pw"
                     [] "Password" \notin Needs(s)
                        /\ "WebUserApproval" \in Needs(s) -> "sub"
                     [] OTHER                            -> "gone")
        /\ UNCHANGED <<shared, locks, at, req, kbd, todo, letIn>>

\* The client sends a password: a wrong one fails the login at once.
PgPassword(c) ==
    /\ pc[c] = "pw" /\ Free(at[c])
    /\ \/ /\ "Password" \in Creds[states[at[c]].user]
          /\ states' = [states EXCEPT ![at[c]] = add_valid_credential(@, "Password")]
          /\ Goto(c, "loop")
       \/ UNCHANGED states /\ Goto(c, "gone")
    /\ UNCHANGED <<store, sigs, rx, locks, at, req, kbd, todo, letIn>>

PgSubscribe(c) ==
    /\ pc[c] = "sub" /\ Free(at[c]) /\ StoreFree
    /\ subscribe(c, at[c])
    /\ Goto(c, "recv")
    /\ UNCHANGED <<states, store, locks, at, req, kbd, todo, letIn>>

\* Anything but an acceptance, a closed channel included, fails the login.
PgReceive(c) ==
    /\ pc[c] = "recv" /\ rx[c].got # "open"
    /\ Goto(c, IF rx[c].got = "Accepted" THEN "loop" ELSE "gone")
    /\ rx' = [rx EXCEPT ![c] = NoRx]
    /\ UNCHANGED <<states, store, sigs, locks, at, req, kbd,
                   todo, letIn>>

\* `auth_state_store.lock().await.complete(state_arc.lock().await.id())`: the
\* store's guard first, then the AuthState's, both alive during complete.
PgLockStore(c) ==
    /\ pc[c] = "complete" /\ c \in PgConns /\ StoreFree
    /\ storeLock' = c
    /\ Goto(c, "complete2")
    /\ UNCHANGED <<shared, sLock, at, req, kbd, todo, letIn>>

PgComplete(c) ==
    /\ pc[c] = "complete2" /\ Free(at[c])
    /\ IF HasSignal(at[c])
       THEN TakeSignal(at[c]) /\ Hold(at[c], c) /\ Goto(c, "relock")
            /\ UNCHANGED storeLock
       ELSE storeLock' = NoTask /\ Goto(c, "authorize")
            /\ UNCHANGED <<sigs, sLock>>
    /\ UNCHANGED <<states, store, rx, at, req, kbd, todo, letIn>>

PgAuthorize(c) ==
    /\ pc[c] = "authorize"
    /\ \/ letIn' = [letIn EXCEPT ![c] = at[c]] /\ Goto(c, "live")
       \/ UNCHANGED letIn /\ Goto(c, "gone")
    /\ UNCHANGED <<shared, locks, at, req, kbd, todo>>

-----------------------------------------------------------------------------
(* MySQL logins (gated-protocol-mysql/src/session.rs). *)

MyConnect(c, u) ==
    /\ pc[c] = "idle" /\ StoreFree
    /\ \E id \in Fresh : create(c, id, u, "MySQL")
    /\ \E k \in (Creds[u] \cap {"Password"}) \cup {NoCred} :
          req' = [req EXCEPT ![c] = [verb |-> "plain", user |-> u, cred |-> k]]
    /\ Goto(c, "lock")
    /\ UNCHANGED <<sigs, rx, locks, kbd, todo, letIn>>

\* One password, no second chance: Need fails like Rejected.
MyVerify(c) ==
    LET s == WithCred(states[at[c]], req[c].cred)
    IN  /\ pc[c] = "lock" /\ Free(at[c])
        /\ states' = [states EXCEPT ![at[c]] = s]
        /\ IF verify(s) = "Accepted"
           THEN Goto(c, "complete") /\ Hold(at[c], c)
           ELSE Goto(c, "gone") /\ UNCHANGED sLock
        /\ Answered(c)
        /\ UNCHANGED <<store, sigs, rx, storeLock, at, kbd, todo, letIn>>

\* run_authorized is awaited with the AuthState's guard still in scope.
MyAuthorize(c) ==
    /\ pc[c] = "authorize"
    /\ \/ letIn' = [letIn EXCEPT ![c] = at[c]] /\ Goto(c, "live") /\ UNCHANGED sLock
       \/ UNCHANGED letIn /\ Goto(c, "gone") /\ Release(at[c])
    /\ UNCHANGED <<shared, storeLock, at, req, kbd, todo>>

MyEnd(c) ==
    /\ pc[c] = "live"
    /\ Release(at[c])
    /\ Goto(c, "gone")
    /\ UNCHANGED <<shared, storeLock, at, req, kbd, todo, letIn>>

-----------------------------------------------------------------------------
(* Browser logins (gated-admin/src/http_service/api/auth.rs, common.rs).  Every *)
(* handler locks the store first and keeps it to its end. *)

\* `at[b]` is the auth state id kept in the browser session.
InStore(b) == at[b] \in store

HttpBegin(b, u) ==
    /\ pc[b] = "idle" /\ StoreFree
    /\ \E verb \in {"login", "continue", "cancel"} :
       \E k \in (Creds[u] \cap {"Password", "Sso", "Totp"}) \cup {NoCred} :
          /\ verb # "login" => k = NoCred
          /\ k = "Totp" => InStore(b) /\ states[at[b]].user = u
          /\ req' = [req EXCEPT ![b] = [verb |-> verb, user |-> u, cred |-> k]]
    /\ storeLock' = b
    /\ Goto(b, "held")
    /\ UNCHANGED <<shared, sLock, at, kbd, todo, letIn>>

\* The end of a login handler: Accepted completes the AuthState with its guard
\* held and authorizes the browser session, or fails to record it.
HttpVerdict(b, id, s) ==
    /\ states' = [states EXCEPT ![id] = s]
    /\ at' = [at EXCEPT ![b] = id]
    /\ \/ /\ verify(s) = "Accepted" /\ HasSignal(id)
          /\ TakeSignal(id) /\ Hold(id, b) /\ Goto(b, "relock")
          /\ UNCHANGED <<storeLock, letIn, req>>
       \/ /\ verify(s) = "Accepted" /\ ~HasSignal(id)
          /\ letIn' \in {letIn, [letIn EXCEPT ![b] = id]}
          /\ storeLock' = NoTask /\ Goto(b, "idle") /\ Answered(b)
          /\ UNCHANGED <<sigs, sLock>>
       \/ /\ verify(s) # "Accepted"
          /\ storeLock' = NoTask /\ Goto(b, "idle") /\ Answered(b)
          /\ UNCHANGED <<sigs, sLock, letIn>>
    /\ UNCHANGED <<rx, kbd, todo>>

\* login, otp and the SSO return: the browser session's AuthState if it is
\* still stored and belongs to this user, otherwise a new one.
HttpLogin(b) ==
    /\ pc[b] = "held" /\ req[b].verb = "login"
    /\ InStore(b) => Free(at[b])
    /\ IF InStore(b) /\ states[at[b]].user = req[b].user
       THEN HttpVerdict(b, at[b], WithCred(states[at[b]], req[b].cred))
            /\ UNCHANGED store
       ELSE /\ req[b].cred # "Totp"
            /\ \E id \in Fresh :
                 /\ HttpVerdict(b, id, WithCred(NewAuthState(req[b].user, "HTTP"),
                                                req[b].cred))
                 /\ store' = store \cup {id}

\* Continue finishes a login that was approved from another device.
HttpContinue(b) ==
    /\ pc[b] = "held" /\ req[b].verb = "continue" /\ InStore(b) /\ Free(at[b])
    /\ IF verify(states[at[b]]) = "Accepted"
       THEN complete(at[b], states[at[b]])
            /\ \/ /\ letIn' = [letIn EXCEPT ![b] = at[b]]
                  /\ at' = [at EXCEPT ![b] = NoId]
               \/ UNCHANGED <<letIn, at>>
       ELSE UNCHANGED <<sigs, rx, letIn, at>>
    /\ storeLock' = NoTask /\ Goto(b, "idle") /\ Answered(b)
    /\ UNCHANGED <<states, store, sLock, kbd, todo>>

HttpCancel(b) ==
    LET s == reject(states[at[b]])
    IN  /\ pc[b] = "held" /\ req[b].verb = "cancel" /\ InStore(b) /\ Free(at[b])
        /\ states' = [states EXCEPT ![at[b]] = s]
        /\ complete(at[b], s)
        /\ at' = [at EXCEPT ![b] = NoId]
        /\ storeLock' = NoTask /\ Goto(b, "idle") /\ Answered(b)
        /\ UNCHANGED <<store, sLock, kbd, todo, letIn>>

\* The early returns: nothing in the store to continue, cancel or give a
\* one-time password to, an unknown user, or too many attempts.
HttpReturn(b) ==
    /\ pc[b] = "held"
    /\ \/ req[b].verb \in {"continue", "cancel"} /\ ~InStore(b)
       \/ req[b].verb = "login"
    /\ storeLock' = NoTask /\ Goto(b, "idle") /\ Answered(b)
    /\ UNCHANGED <<shared, sLock, at, kbd, todo, letIn>>

HttpLogout(b) ==
    /\ pc[b] = "idle" /\ letIn[b] # NoId
    /\ at' = [at EXCEPT ![b] = NoId]
    /\ letIn' = [letIn EXCEPT ![b] = NoId]
    /\ UNCHANGED <<shared, locks, pc, req, kbd, todo>>

-----------------------------------------------------------------------------
(* Portal requests of a logged-in user (http_service/api/auth.rs). *)

PortalBegin(w, verb, id) ==
    /\ pc[w] = "idle" /\ StoreFree
    /\ req' = [req EXCEPT ![w] = [verb |-> verb, user |-> PortalUser[w], cred |-> NoCred]]
    /\ \/ /\ verb = "list"
          /\ todo' = [todo EXCEPT ![w] = store]
          /\ storeLock' = w /\ Goto(w, "list") /\ UNCHANGED at
       \/ /\ verb \in {"approve", "reject"} /\ id \in store
          /\ at' = [at EXCEPT ![w] = id]
          /\ storeLock' = w /\ Goto(w, "peek") /\ UNCHANGED todo
    /\ UNCHANGED <<shared, sLock, kbd, letIn>>

\* all_pending_web_auths_for_user locks every AuthState of the store, whoever
\* it belongs to, under the store's guard.
PortalScan(w, id) ==
    /\ pc[w] = "list" /\ id \in todo[w] /\ Free(id)
    /\ todo' = [todo EXCEPT ![w] = @ \ {id}]
    /\ UNCHANGED <<shared, locks, pc, at, req, kbd, letIn>>

PortalListed(w) ==
    /\ pc[w] = "list" /\ todo[w] = {}
    /\ storeLock' = NoTask /\ PortalDone(w)
    /\ UNCHANGED <<shared, sLock, kbd, todo, letIn>>

\* Mutant: the owner of the AuthState is not compared.
PortalPeek_NoOwner(w) ==
    /\ pc[w] = "peek" /\ Free(at[w])
    /\ storeLock' = NoTask
    /\ Goto(w, "act")
    /\ UNCHANGED <<shared, sLock, at, req, kbd, todo, letIn>>

\* get_auth_state: the AuthState's owner is compared with the caller, with the
\* store locked; both guards are dropped before the handler acts.
PortalPeek(w) ==
    /\ pc[w] = "peek" /\ Free(at[w])
    /\ storeLock' = NoTask
    /\ IF states[at[w]].user = PortalUser[w]
       THEN Goto(w, "act") /\ UNCHANGED <<at, req>> ELSE PortalDone(w)
    /\ UNCHANGED <<shared, sLock, kbd, todo, letIn>>

\* approve adds the approval and goes on to complete only when that made the
\* login Accepted; reject always does.
PortalAct(w) ==
    LET s == IF req[w].verb = "approve"
             THEN add_valid_credential(states[at[w]], "WebUserApproval")
             ELSE reject(states[at[w]])
    IN  /\ pc[w] = "act" /\ Free(at[w])
        /\ states' = [states EXCEPT ![at[w]] = s]
        /\ IF verify(s) = "Accepted" \/ req[w].verb = "reject"
           THEN Goto(w, "fin") /\ UNCHANGED <<at, req>> ELSE PortalDone(w)
        /\ UNCHANGED <<store, sigs, rx, locks, kbd, todo, letIn>>

\* auth_state_store.lock().complete(id), with no AuthState guard held.
PortalComplete(w) ==
    /\ pc[w] = "fin" /\ StoreFree
    /\ IF HasSignal(at[w])
       THEN TakeSignal(at[w]) /\ storeLock' = w /\ Goto(w, "relock")
            /\ UNCHANGED <<at, req>>
       ELSE PortalDone(w) /\ UNCHANGED <<sigs, storeLock>>
    /\ UNCHANGED <<states, store, rx, sLock, kbd, todo, letIn>>

-----------------------------------------------------------------------------
\* A database session is aborted by an administrator, or the peer of an HTTP
\* request disconnects: the task's future is dropped at the lock, the message or
\* the signal it waits for, with the guards it holds, its receiver, and the
\* sender that complete had taken out of the store.
Abort(t) ==
    /\ pc[t] \notin {"idle", "live", "gone"}
    /\ storeLock' = IF storeLock = t THEN NoTask ELSE storeLock
    /\ sLock' = [id \in Ids |-> IF sLock[id] = t THEN NoTask ELSE sLock[id]]
    /\ rx' = [c \in Waiters |->
                IF c = t THEN NoRx
                ELSE Signalled(IF pc[t] = "relock" THEN {at[t]} ELSE {}, "closed")[c]]
    /\ IF t \in Conns
       THEN Goto(t, "gone") /\ UNCHANGED <<at, req, todo>>
       ELSE /\ Goto(t, "idle") /\ Answered(t)
            /\ IF t \in Portals
               THEN at' = [at EXCEPT ![t] = NoId] /\ todo' = [todo EXCEPT ![t] = {}]
               ELSE UNCHANGED <<at, todo>>
    /\ UNCHANGED <<states, store, sigs, kbd, letIn>>

-----------------------------------------------------------------------------
\* What the outside decides: clients, users and the clock.
Outside ==
    \/ \E u \in Users :
         \/ \E c \in SshConns : SshRequest(c, u)
         \/ \E c \in PgConns : PgConnect(c, u)
         \/ \E c \in MyConns : MyConnect(c, u)
         \/ \E b \in Browsers : HttpBegin(b, u)
    \/ \E c \in SshConns : SshDisconnect(c)
    \/ \E c \in PgConns : PgPassword(c)
    \/ \E c \in MyConns : MyEnd(c)
    \/ \E b \in Browsers : HttpLogout(b)
    \/ \E w \in Portals, id \in Ids : PortalBegin(w, "approve", id)
    \/ \E w \in Portals, id \in Ids : PortalBegin(w, "reject", id)
    \/ \E w \in Portals : PortalBegin(w, "list", NoId)
    \/ \E t \in Abortable : Abort(t)

\* What each task does by itself once it can.
SshStep(c) ==
    \/ SshReceive(c) \/ SshGetAuthState(c) \/ SshVerify(c) \/ SshSubscribe(c)
    \/ HoldComplete(c) \/ SshAuthorize(c)

PgStep(c) ==
    \/ PgVerify(c) \/ PgSubscribe(c) \/ PgReceive(c)
    \/ PgLockStore(c) \/ PgComplete(c) \/ PgAuthorize(c)

MyStep(c) == MyVerify(c) \/ HoldComplete(c) \/ MyAuthorize(c)

HttpStep(b) ==
    HttpLogin(b) \/ HttpContinue(b) \/ HttpCancel(b) \/ HttpReturn(b)

PortalStep(w) ==
    \/ \E id \in Ids : PortalScan(w, id)
    \/ PortalListed(w) \/ PortalPeek(w) \/ PortalAct(w) \/ PortalComplete(w)

Next ==
    \/ Outside
    \/ \E old, oldSigs \in SUBSET Ids : Vacuum(old, oldSigs)
    \/ \E c \in SshConns : SshStep(c)
    \/ \E c \in PgConns : PgStep(c)
    \/ \E c \in MyConns : MyStep(c)
    \/ \E b \in Browsers : HttpStep(b)
    \/ \E w \in Portals : PortalStep(w)
    \/ \E t \in Tasks : CompleteSend(t)

Spec == Init /\ [][Next]_vars

-----------------------------------------------------------------------------
(* Safety. *)

TypeOK ==
    /\ states \in [Ids -> AuthStates \cup {NoState}]
    /\ store \subseteq Ids
    /\ sigs \subseteq Ids
    /\ rx \in [Waiters -> Receivers]
    /\ storeLock \in Tasks \cup {NoTask}
    /\ sLock \in [Ids -> Tasks \cup {NoTask}]
    /\ pc \in [Tasks -> Places]
    /\ at \in [Tasks -> Ids \cup {NoId}]
    /\ req \in [Tasks -> Requests]
    /\ kbd \in [SshConns -> {"None", "OtpRequested", "WebAuthRequested"}]
    /\ todo \in [Portals -> SUBSET Ids]
    /\ letIn \in [Tasks -> Ids \cup {NoId}]

\* What the user's stored policy says, independently of is_sufficient: without
\* one any credential will do; with one every kind it lists is needed, and an
\* empty list admits nobody.
PolicyMet(s) ==
    LET required == Require[s.user][s.protocol]
    IN  IF required = NoPolicy THEN s.valid # {}
        ELSE required # {} /\ required \subseteq s.valid

\* Nobody is let in on an AuthState that does not meet its user's policy for
\* its protocol, and an SSH client only as the user it asked to be last.
LetInMeetsPolicy ==
    \A t \in Tasks : letIn[t] # NoId =>
        /\ states[letIn[t]] # NoState
        /\ PolicyMet(states[letIn[t]])
        /\ t \in SshConns => states[letIn[t]].user = req[t].user

\* A credential counts only for the user it was validated for: an AuthState
\* never holds a kind its user has not enrolled, however often the client
\* changes its user name between two attempts (get_auth_state, session.rs).
CredentialsBelongToUser ==
    \A id \in Ids : states[id] # NoState =>
        states[id].valid \subseteq Creds[states[id].user] \cup {"WebUserApproval"}

\* Approving or rejecting a login is its owner's decision: a portal request
\* changes an AuthState only if the AuthState belongs to the portal's user.
OnlyOwnerDecides ==
    [][\A id \in Ids :
         states[id] # NoState /\ states'[id] # states[id]
         /\ ("WebUserApproval" \in states'[id].valid \ states[id].valid
             \/ (states'[id].rejected /\ ~states[id].rejected
                 /\ states[id].protocol # "HTTP"))
         => \E w \in Portals : /\ pc[w] = "act" /\ at[w] = id
                               /\ PortalUser[w] = states[id].user]_vars

\* Once a login has been rejected no SSH or MySQL session goes live on it: the
\* AuthState's guard is held from verify() to the session's acceptance.
RejectedNeverGoesLive ==
    [][\A c \in SshConns \cup MyConns :
         pc'[c] = "live" /\ pc[c] # "live" => ~states[at[c]].rejected]_vars

-----------------------------------------------------------------------------
(* The inductive invariant behind the safety properties (AuthStateStoreProofs). *)

\* A well-formed AuthState: the policy of its user for its protocol, and no
\* credential but the user's own.
Good(s) ==
    /\ s \in AuthStates
    /\ s.policy = get_credential_policy(s.user, s.protocol)
    /\ s.valid \subseteq Creds[s.user] \cup {"WebUserApproval"}

AllGood == \A id \in Ids : states[id] # NoState => Good(states[id])

\* Every id in use names an AuthState.
References ==
    /\ \A id \in store : states[id] # NoState
    /\ \A t \in Tasks : at[t] # NoId => states[at[t]] # NoState
    /\ \A t \in Tasks : letIn[t] # NoId => states[letIn[t]] # NoState
    /\ \A t \in Tasks :
         pc[t] \in {"lock", "complete", "relock", "authorize", "sub", "loop",
                    "pw", "complete2", "peek", "act", "fin"} => at[t] # NoId
    /\ \A t \in Tasks : pc[t] = "live" => at[t] # NoId
    /\ \A c \in PgConns : pc[c] = "recv" => at[c] # NoId

\* A request carries a credential of the user it names, and from get_auth_state
\* on the AuthState at hand is that user's.
RightUser ==
    /\ \A t \in Tasks : req[t].cred \in Creds[req[t].user] \cup {NoCred}
    /\ \A c \in SshConns :
         pc[c] \in {"lock", "complete", "relock", "authorize"}
         => states[at[c]].user = req[c].user
    /\ \A c \in MyConns : pc[c] = "lock" => states[at[c]].user = req[c].user
    /\ \A c \in SshConns : letIn[c] # NoId => pc[c] \in {"live", "gone"}

\* From Accepted to the session's acceptance SSH and MySQL hold the AuthState,
\* so nobody can reject it in between; MySQL holds it until its session ends.
Guarded ==
    /\ \A c \in SshConns \cup MyConns :
         pc[c] \in {"complete", "relock", "authorize"}
         => sLock[at[c]] = c /\ verify(states[at[c]]) = "Accepted"
    /\ \A c \in MyConns : pc[c] = "live" => sLock[at[c]] = c

\* PostgreSQL holds nothing there: the policy stays met, a rejection may come.
PgMet ==
    \A c \in PgConns :
        pc[c] \in {"complete", "complete2", "relock", "authorize"}
        => PolicyMet(states[at[c]])

IndInv ==
    /\ TypeOK /\ AllGood /\ References /\ RightUser
    /\ Guarded /\ PgMet /\ LetInMeetsPolicy

-----------------------------------------------------------------------------
(* Liveness. *)

\* tokio runs every ready task and its mutexes are FIFO, so a step that is
\* enabled again and again is taken; the vacuum loop ticks forever, so a signal
\* that stays registered is dropped at last.  Nothing is assumed of clients,
\* of users or of the length of a session.
Fairness ==
    /\ \A c \in SshConns : SF_vars(SshStep(c))
    /\ \A c \in PgConns : SF_vars(PgStep(c))
    /\ \A c \in MyConns : SF_vars(MyStep(c))
    /\ \A b \in Browsers : SF_vars(HttpStep(b))
    /\ \A w \in Portals : SF_vars(PortalStep(w))
    /\ \A t \in Tasks : SF_vars(CompleteSend(t))
    /\ \A id \in Ids :
         SF_vars(\E old, oldSigs \in SUBSET Ids : id \in oldSigs /\ Vacuum(old, oldSigs))

FairSpec == Spec /\ Fairness

\* A database login that waits for the browser never waits forever: it is
\* answered, or its signal expires and the closed channel fails it.
PgWaitEnds ==
    \A c \in PgConns : pc[c] = "recv" ~> pc[c] # "recv"

\* Every portal request (list, approve, reject) is answered.
PortalAnswered ==
    \A w \in Portals : pc[w] # "idle" ~> pc[w] = "idle"

-----------------------------------------------------------------------------
(* What the documentation says and the code does not do. *)

=============================================================================
