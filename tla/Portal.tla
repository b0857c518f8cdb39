------------------------------- MODULE Portal -------------------------------
(***************************************************************************)
(* The web portal: browser sessions and what is done through them.  Every  *)
(* request passes the same chain, each stage an action: the session layer  *)
(* loads a COPY of the cookie's entries, a ticket may authorize the copy,  *)
(* the session store checks the server-side handle, the authorization is   *)
(* resolved, a handler runs, and the layer stores the whole copy back over *)
(* whatever other requests of the same cookie stored meanwhile.            *)
(* Time counts TOTP steps of 30 seconds.                                   *)
(***************************************************************************)
EXTENDS Integers, Sequences, FiniteSets, FiniteSetsExt, Functions

CONSTANTS
    Users,          \* user names, all registered except in the setup mix
    Cookies,        \* session identifiers a browser may carry
    Requests,       \* slots of requests in flight
    Tickets,        \* rows of the tickets table
    PER_USER_LIMIT, PER_ACCOUNT_LIMIT,  \* of RevealGuard
    MaxTime,        \* bound on the clock
    Counters        \* the time steps whose codes are presented

ASSUME PortalAssumption ==
    /\ PER_USER_LIMIT \in Nat \ {0} /\ PER_ACCOUNT_LIMIT \in Nat \ {0} /\ MaxTime \in Nat
    /\ Counters \subseteq Nat

None == "none"
NoId == 0              \* no session handle, login state or TOTP key
Unlimited == 99        \* uses_left IS NULL
SKEW == 1
ShortMemory == SKEW + 1
CONSUMED_TTL == 2 * SKEW + 1 + 1
OTP_REUSE_WINDOW == 4
WINDOW == 2
GRACE == 30
Never == -9

VARIABLES
    cookies,   \* SessionLayer.sessions: the entries stored under each cookie
    handles,   \* SessionStore.session_handles: id -> user of the handle
    idle,      \* handles without activity for longer than their lifetime
    states,    \* AuthStateStore: pending and completed login states
    cp,        \* who holds the locks of auth state store and config provider
    pw, otp, policy,  \* per user: passwords, TOTP secrets, HTTP policy
    pending,   \* PENDING_OTP_ENROLLMENTS
    consumed,  \* CONSUMED_TOTP
    guard,     \* REVEAL_GUARD
    audit,     \* per user: time of the last audit row confirmed by OTP
    tickets,   \* the tickets table
    setup,     \* first-run setup: user table empty?, bootstrap token, lock
    now,
    req,       \* requests in flight
    left,      \* requests still to come, a bag of kinds
    seen       \* history: ids given out, uses of codes and tickets

sessionVars == <<cookies, handles, idle>>
loginVars == <<states, cp>>
credVars == <<pw, otp, policy, pending>>
otpVars == <<consumed, guard, audit>>
portalVars == <<sessionVars, loginVars, credVars, otpVars, tickets, setup, now, req, left, seen>>

-----------------------------------------------------------------------------
(* Session: a request's copy of the entries, and what became of it.        *)

NoAuth == [kind |-> None, user |-> None]
NoGrace == [user |-> None, until |-> Never, sid |-> NoId]
NoEntries == [auth |-> NoAuth, sid |-> NoId, state |-> NoId, grace |-> NoGrace, sso |-> None]
NotStored == [NoEntries EXCEPT !.sso = "not stored"]
NoTicket == [id |-> None, temporary |-> FALSE]

SessionNew(entries) == [status |-> "Unchanged", e |-> entries]

\* update(): once purged, a session takes no more changes.
SessionSet(s, name, value) ==
    IF s.status = "Purged" THEN s
    ELSE [status |-> "Changed", e |-> [s.e EXCEPT ![name] = value]]

SessionClear(s) ==
    IF s.status = "Purged" THEN s ELSE [status |-> "Changed", e |-> NoEntries]

SessionPurge(s) == [status |-> "Purged", e |-> NoEntries]

-----------------------------------------------------------------------------
(* SessionStore                                                            *)

NewId == seen.ids

NoPurge(s) == s

touch(s) ==
    IF s.e.sid # NoId /\ s.e.sid \notin DOMAIN handles THEN SessionPurge(s) ELSE s

mark_active(s) == idle' = idle \ {s.e.sid}

\* The handle the session names, or a new one whose id the session takes.
create_handle_for(s) ==
    IF s.e.sid \in DOMAIN handles
    THEN s.e.sid ELSE NewId

forget(ids) ==
    /\ handles' = Restrict(handles, DOMAIN handles \ ids)
    /\ idle' = idle \ ids

\* The sweep forgets the handles that were idle for longer than their lifetime.
Vacuum ==
    /\ idle # {}
    /\ forget(idle)
    /\ UNCHANGED <<cookies, loginVars, credVars, otpVars, tickets, setup, now, req, left, seen>>

\* A handle's last activity gets older than its lifetime.
GrowIdle(h) ==
    /\ left["lapse"] > 0 /\ left' = [left EXCEPT !["lapse"] = @ - 1]
    /\ h \in DOMAIN handles /\ idle' = idle \cup {h}
    /\ UNCHANGED <<cookies, handles, loginVars, credVars, otpVars, tickets, setup, now, req, seen>>

-----------------------------------------------------------------------------
(* The chain of a request                                                  *)

Idle == [pc |-> "idle"]

\* A function with the values of `new', where it has one, over those of `old'.
With(old, new) == [x \in DOMAIN old \cup DOMAIN new |-> IF x \in DOMAIN new THEN new[x] ELSE old[x]]

Become(r, record) == req' = [req EXCEPT ![r] = With(@, record)]

Go(r, pc) == Become(r, [pc |-> pc])
Answer(r) == Become(r, [pc |-> "answered", arg |-> None])

Me(r) == req[r].auth.user
At(r, pc) == req[r].pc = pc
Handling(r, kind) == At(r, "handler") /\ req[r].kind = kind

IsTicketAuth(r) == req[r].auth.kind = "ticket"

\* session_middleware, first half: load the entries named by the cookie.
\* `dead' remembers which handles were gone already when the request came.
Arrive(r, kind, cookie, arg, ticket) ==
    /\ req[r] = Idle /\ left[kind] > 0
    /\ cookies[cookie] = NotStored =>   \* enough identifiers for who has none
         Cardinality({q \in Requests : req[q] # Idle /\ ~req[q].known})
           < Cardinality({c \in Cookies : cookies[c] = NotStored})
    /\ left' = [left EXCEPT ![kind] = @ - 1]
    /\ LET found == cookies[cookie] # NotStored
           entries == IF found THEN cookies[cookie] ELSE NoEntries
       IN req' = [req EXCEPT ![r] =
            [pc |-> IF ticket = NoTicket THEN "track" ELSE "ticket",
             kind |-> kind, cookie |-> cookie, known |-> found, arg |-> arg,
             ticket |-> ticket, auth |-> NoAuth, under |-> NoId, s |-> SessionNew(entries),
             dead |-> (1..(NewId - 1)) \ DOMAIN handles, host |-> kind # "foreign"]]
    /\ UNCHANGED <<sessionVars, loginVars, credVars, otpVars, tickets, setup, now, seen>>

\* authorize_ticket: used up, expired and unknown tickets authorize nothing.
TicketAuthorize(r) ==
    /\ At(r, "ticket")
    /\ LET t == tickets[req[r].ticket.id]
       IN Go(r, IF t.live /\ t.uses # 0 THEN "consume" ELSE "track")
    /\ UNCHANGED <<sessionVars, loginVars, credVars, otpVars, tickets, setup, now, left, seen>>

TakesWhatIsLeft(r) ==
    /\ At(r, "consume")
    /\ LET id == req[r].ticket.id
           t == tickets[id]
       IN /\ tickets' = [tickets EXCEPT ![id].uses = IF @ = Unlimited THEN @ ELSE @ - 1]
          /\ Become(r, [pc |-> "track",
               s |-> SessionSet(req[r].s, "auth", [kind |-> "ticket", user |-> t.user])])
          /\ seen' = [seen EXCEPT !.uses[id] = @ + 1]
    /\ UNCHANGED <<sessionVars, loginVars, credVars, otpVars, setup, now, left>>

\* consume_ticket: one conditional update; without a use to take, only an
\* unlimited ticket passes.  An error answers the request at once.
TicketConsume(r) ==
    /\ At(r, "consume")
    /\ LET id == req[r].ticket.id
           t == tickets[id]
           taken == t.live /\ t.uses # Unlimited /\ t.uses > 0
           ok == taken \/ (t.live /\ t.uses = Unlimited)
       IN /\ tickets' = IF taken THEN [tickets EXCEPT ![id].uses = @ - 1] ELSE tickets
          /\ IF ok
             THEN Become(r, [pc |-> "track",
                    s |-> SessionSet(req[r].s, "auth", [kind |-> "ticket", user |-> t.user])])
             ELSE Become(r, [pc |-> "end"])
          /\ seen' = IF ok THEN [seen EXCEPT !.uses[id] = @ + 1] ELSE seen
    /\ UNCHANGED <<sessionVars, loginVars, credVars, otpVars, setup, now, left>>

Background == {"poll"}

\* track_session: check the handle; what is not a background poll is activity.
Track(r) ==
    /\ At(r, "track")
    /\ LET s == touch(req[r].s)
       IN /\ Become(r, [pc |-> "inject", s |-> s])
          /\ IF req[r].kind \in Background THEN UNCHANGED idle ELSE mark_active(s)
    /\ UNCHANGED <<cookies, handles, loginVars, credVars, otpVars, tickets, setup, now, left, seen>>

Public == {"login", "otpLogin", "ssoStart", "ssoReturn", "logout", "lifetime", "setup", "poll", "foreign",
           "continue", "cancel"}

\* inject_request_authorization, then require_auth where the route has it.
\* A cookie sent to a host it was not issued for loses its entries.
Inject(r) ==
    /\ At(r, "inject")
    /\ LET s == IF ~req[r].host /\ req[r].s.e.auth # NoAuth THEN SessionClear(req[r].s) ELSE req[r].s
       IN Become(r, [s |-> s, auth |-> s.e.auth, under |-> s.e.sid,
            pc |-> IF s.e.auth = NoAuth /\ req[r].kind \notin Public THEN "answered" ELSE "handler"])
    /\ UNCHANGED <<sessionVars, loginVars, credVars, otpVars, tickets, setup, now, left, seen>>

\* The ticket middleware clears a session that only a header authorized.
Unwind(r) ==
    /\ At(r, "answered")
    /\ Become(r, [pc |-> "end", arg |-> None, auth |-> NoAuth, under |-> NoId, dead |-> {}, sid |-> NoId,
         s |-> IF req[r].ticket.temporary
               THEN SessionClear(req[r].s) ELSE req[r].s])
    /\ UNCHANGED <<sessionVars, loginVars, credVars, otpVars, tickets, setup, now, left, seen>>

\* session_middleware, second half: persist the copy and free the slot.  A
\* session that had no stored entries gets a new identifier, here any unused.
Finish(r) ==
    /\ At(r, "end")
    /\ \E c \in Cookies :
         /\ IF req[r].known \/ req[r].s.status # "Changed" THEN c = req[r].cookie
            ELSE c = (CHOOSE d \in Cookies : cookies[d] = NotStored)
         /\ cookies' = CASE req[r].s.status = "Changed" -> [cookies EXCEPT ![c] = req[r].s.e]
                         [] req[r].s.status = "Purged" /\ req[r].known -> [cookies EXCEPT ![c] = NotStored]
                         [] OTHER -> cookies
    /\ req' = [req EXCEPT ![r] = Idle]
    /\ UNCHANGED <<handles, idle, loginVars, credVars, otpVars, tickets, setup, now, left, seen>>

\* load() or the layer's own sweep drops a cookie whose entries expired.
ExpireCookie(c) ==
    /\ left["expire"] > 0 /\ left' = [left EXCEPT !["expire"] = @ - 1]
    /\ cookies[c] # NotStored
    /\ cookies' = [cookies EXCEPT ![c] = NotStored]
    /\ UNCHANGED <<handles, idle, loginVars, credVars, otpVars, tickets, setup, now, req, seen>>

-----------------------------------------------------------------------------
(* Logins                                                                  *)

SuppliesPassword(r) == req[r].arg.pw \in pw[req[r].arg.user]

\* verify() under the policy the state was created with.
Accepted(state) ==
    CASE state.policy = "any" -> state.have # {}
      [] state.policy = "pwotp" -> {"pw", "otp"} \subseteq state.have
      [] state.policy = "rejected" -> FALSE

\* get_auth_state_for_request: the session's own state if it is this user's.
StateFor(s, user) ==
    IF s.e.state # NoId /\ states[s.e.state].user = user THEN s.e.state ELSE Len(states) + 1

WithState(user, i) ==
    IF i <= Len(states) THEN states
    ELSE Append(states, [user |-> user, policy |-> policy[user], have |-> {}])

\* What a login handler does once the credential `kind' was checked.
Conclude(r, user, i, kind, valid) ==
    LET checked == [WithState(user, i) EXCEPT ![i].have = IF valid THEN @ \cup {kind} ELSE @]
        s == SessionSet(req[r].s, "state", i)
    IN /\ states' = checked
       /\ IF Accepted(checked[i])
          THEN cp' = r /\ Become(r, [pc |-> "handle", s |-> s, arg |-> [user |-> user, valid |-> valid]])
          ELSE cp' = cp /\ Become(r, [pc |-> "answered", s |-> s])

\* api_auth_login
Login(r) ==
    /\ Handling(r, "login") /\ cp = None
    /\ Conclude(r, req[r].arg.user, StateFor(req[r].s, req[r].arg.user), "pw", SuppliesPassword(r))
    /\ UNCHANGED <<sessionVars, credVars, otpVars, tickets, setup, now, left, seen>>

\* check_totp: within the skew window, and not consumed before.  Every check
\* that matches records the code, a reuse too, and drops what is too old.
InWindow(code) == code.counter \in (now - SKEW)..(now + SKEW)
Fresh == {c \in consumed : now - c.at < CONSUMED_TTL}
check_totp(code) ==
    IF ~InWindow(code) THEN "Invalid"
    ELSE IF \E c \in Fresh : c.code = code THEN "Reused" ELSE "Valid"
Consume(code) ==
    consumed' = IF InWindow(code)
                THEN {c \in Fresh : c.code # code} \cup {[code |-> code, at |-> now]}
                ELSE consumed

\* validate_credential with an OTP: the code must be of one of the user's keys.
ValidOtp(user, code) == code.key \in otp[user] /\ check_totp(code) = "Valid"
CheckOtp(user, code) ==
    /\ IF code.key \in otp[user] THEN Consume(code) ELSE UNCHANGED consumed
    /\ seen' = IF ValidOtp(user, code)
               THEN [seen EXCEPT !.codes[code] = @ + 1] ELSE seen

\* api_auth_otp_login: continues the login of this session.
OtpLogin(r) ==
    /\ Handling(r, "otpLogin") /\ cp = None
    /\ LET i == req[r].s.e.state
           user == states[i].user
           code == req[r].arg
       IN IF i = NoId
          THEN Answer(r) /\ UNCHANGED <<loginVars, consumed, seen>>
          ELSE /\ CheckOtp(user, code)
               /\ Conclude(r, user, i, "otp", ValidOtp(user, code))
    /\ UNCHANGED <<sessionVars, credVars, guard, audit, tickets, setup, now, left>>

\* api_start_sso: the session remembers the anti-forgery value of the request.
SsoStart(r) ==
    /\ Handling(r, "ssoStart")
    /\ Become(r, [pc |-> "answered", s |-> SessionSet(req[r].s, "sso", req[r].arg.csrf)])
    /\ UNCHANGED <<sessionVars, loginVars, credVars, otpVars, tickets, setup, now, left, seen>>

\* api_return_to_sso_get_common: the value must come back; the identity
\* provider then names the user.
SsoReturn(r) ==
    /\ Handling(r, "ssoReturn") /\ cp = None
    /\ IF req[r].s.e.sso = None \/ req[r].s.e.sso # req[r].arg.csrf
       THEN Answer(r) /\ UNCHANGED loginVars
       ELSE Conclude(r, req[r].arg.user, StateFor(req[r].s, req[r].arg.user), "sso", TRUE)
    /\ UNCHANGED <<sessionVars, credVars, otpVars, tickets, setup, now, left, seen>>

\* api_continue_default_auth: the rest was granted from another device.
ContinueLogin(r) ==
    /\ Handling(r, "continue") /\ cp = None
    /\ LET i == req[r].s.e.state
       IN IF i # NoId /\ Accepted(states[i])
          THEN /\ cp' = r
               /\ Become(r, [pc |-> "handle", s |-> SessionSet(req[r].s, "state", NoId),
                             arg |-> [user |-> states[i].user, valid |-> TRUE]])
          ELSE Answer(r) /\ UNCHANGED cp
    /\ UNCHANGED <<sessionVars, states, credVars, otpVars, tickets, setup, now, left, seen>>

\* api_cancel_default_auth
CancelLogin(r) ==
    /\ Handling(r, "cancel") /\ cp = None
    /\ LET i == req[r].s.e.state
       IN IF i # NoId
          THEN /\ states' = [states EXCEPT ![i].policy = "rejected"]
               /\ Become(r, [pc |-> "answered", arg |-> None, s |-> SessionSet(req[r].s, "state", NoId)])
          ELSE Answer(r) /\ UNCHANGED states
    /\ UNCHANGED <<sessionVars, cp, credVars, otpVars, tickets, setup, now, left, seen>>

\* authorize_session: the handle, its user, then the audit row; only then
\* does the session say who is signed in.  Without the row the handle goes.
AuthorizeHandle(r) ==
    /\ At(r, "handle")
    /\ LET id == create_handle_for(req[r].s)
       IN /\ Become(r, [pc |-> "user", sid |-> id, s |->
               IF id = NewId THEN SessionSet(req[r].s, "sid", id) ELSE req[r].s])
          /\ handles' = IF id = NewId THEN With(handles, [h \in {id} |-> None]) ELSE handles
          /\ idle' = IF id = NewId THEN idle \ {id} ELSE idle
          /\ seen' = IF id = NewId
                    THEN [seen EXCEPT !.ids = @ + 1, !.over = @ \cup ({req[r].s.e.sid} \ {NoId})]
                    ELSE seen
    /\ UNCHANGED <<cookies, loginVars, credVars, otpVars, tickets, setup, now, left>>

AuthorizeUser(r) ==
    /\ At(r, "user")
    /\ handles' = IF req[r].sid \in DOMAIN handles
                  THEN [handles EXCEPT ![req[r].sid] = req[r].arg.user] ELSE handles
    /\ Go(r, "loginAudit")
    /\ UNCHANGED <<cookies, idle, loginVars, credVars, otpVars, tickets, setup, now, left, seen>>

AuthorizeAudit(r) ==
    /\ At(r, "loginAudit")
    /\ cp' = None
    /\ \/ /\ Become(r, [pc |-> "answered", s |->
               SessionSet(req[r].s, "auth", [kind |-> "user", user |-> req[r].arg.user])])
          /\ UNCHANGED <<handles, idle>>
       \/ /\ left["auditFails"] > 0   \* the insert may fail
          /\ forget({req[r].s.e.sid})
          /\ Answer(r)
    /\ UNCHANGED <<cookies, states, credVars, otpVars, tickets, setup, now, left, seen>>

KeepsTheRest(r) ==
    /\ Handling(r, "logout")
    /\ forget({req[r].s.e.sid})
    /\ Become(r, [pc |-> "answered", s |->
         SessionSet(SessionSet(req[r].s, "auth", NoAuth), "sid", NoId)])
    /\ UNCHANGED <<cookies, loginVars, credVars, otpVars, tickets, setup, now, left, seen>>

\* logout(), of /auth/logout and of single logout.
Logout(r) ==
    /\ Handling(r, "logout")
    /\ forget({req[r].s.e.sid})
    /\ Become(r, [pc |-> "answered", s |-> SessionClear(req[r].s)])
    /\ UNCHANGED <<cookies, loginVars, credVars, otpVars, tickets, setup, now, left, seen>>

\* An administrator revokes a browser session.
Revoke(r) ==
    /\ Handling(r, "revoke")
    /\ IF IsTicketAuth(r) THEN UNCHANGED <<handles, idle>>   \* require_admin
       ELSE \E h \in DOMAIN handles \cup {NoId} : forget({h})
    /\ Answer(r)
    /\ UNCHANGED <<cookies, loginVars, credVars, otpVars, tickets, setup, now, left, seen>>

\* Handlers that only read, and those that change nothing but the session:
\* api_set_session_lifetime and the cookies of a foreign host.
Serve(r) ==
    /\ At(r, "handler") /\ req[r].kind \in {"poll", "foreign", "lifetime"}
    /\ LET s == IF req[r].kind = "lifetime"
                THEN touch(SessionSet(req[r].s, "auth", req[r].s.e.auth)) ELSE req[r].s
       IN /\ Become(r, [pc |-> "answered", s |-> s])
          /\ IF req[r].kind = "lifetime" THEN mark_active(s) ELSE UNCHANGED idle
    /\ UNCHANGED <<cookies, handles, loginVars, credVars, otpVars, tickets, setup, now, left, seen>>

-----------------------------------------------------------------------------
(* Self-service credentials                                                *)

\* api_change_password: check the old one, replace it in two statements, look
\* up the own handle, then forget the user's other ones.
ChangePassword(r) ==
    /\ Handling(r, "password")
    /\ IF IsTicketAuth(r) THEN Answer(r)
       ELSE cp = None /\ Go(r, IF req[r].arg.old \in pw[Me(r)] THEN "delete" ELSE "answered")
    /\ UNCHANGED <<sessionVars, loginVars, credVars, otpVars, tickets, setup, now, left, seen>>

DeletePasswords(r) ==
    /\ At(r, "delete")
    /\ pw' = [pw EXCEPT ![Me(r)] = {}]
    /\ Go(r, "insert")
    /\ UNCHANGED <<sessionVars, loginVars, otp, policy, pending, otpVars, tickets, setup, now, left, seen>>

InsertPassword(r) ==
    /\ At(r, "insert")
    /\ pw' = [pw EXCEPT ![Me(r)] = @ \cup {req[r].arg.new}]
    /\ Go(r, "keep")
    /\ UNCHANGED <<sessionVars, loginVars, otp, policy, pending, otpVars, tickets, setup, now, left, seen>>

FindOwnHandle(r) ==
    /\ At(r, "keep")
    /\ Become(r, [pc |-> "others", sid |->
         IF req[r].s.e.sid \in DOMAIN handles THEN req[r].s.e.sid ELSE NoId])
    /\ UNCHANGED <<sessionVars, loginVars, credVars, otpVars, tickets, setup, now, left, seen>>

revoke_other_sessions(user, keep) ==
    forget({h \in DOMAIN handles : h # keep /\ handles[h] = user})

RevokeOthers(r) ==
    /\ At(r, "others")
    /\ revoke_other_sessions(Me(r), req[r].sid)
    /\ Answer(r)
    /\ UNCHANGED <<cookies, loginVars, credVars, otpVars, tickets, setup, now, left, seen>>

\* api_begin_otp and api_create_otp: a secret waits for the proof of a code.
BeginOtp(r) ==
    /\ Handling(r, "beginOtp")
    /\ IF IsTicketAuth(r) THEN UNCHANGED <<pending, seen>>
       ELSE /\ pending' = [pending EXCEPT ![Me(r)] = seen.keys]
            /\ seen' = [seen EXCEPT !.keys = @ + 1]
    /\ Answer(r)
    /\ UNCHANGED <<sessionVars, loginVars, pw, otp, policy, otpVars, tickets, setup, now, left>>

\* The user row is read first and written back whole at the end.
ConfirmOtp(r) ==
    /\ Handling(r, "createOtp")
    /\ LET code == req[r].arg
           user == Me(r)
       IN IF IsTicketAuth(r) \/ pending[user] = NoId \/ code.key # pending[user]
          THEN Answer(r) /\ UNCHANGED <<pending, consumed, seen>>
          ELSE /\ Consume(code)
               /\ IF check_totp(code) = "Valid"
                  THEN /\ Become(r, [pc |-> "insertOtp", policy |-> policy[user]])
                       /\ pending' = [pending EXCEPT ![user] = NoId]
                       /\ seen' = [seen EXCEPT !.codes[code] = @ + 1]
                  ELSE Answer(r) /\ UNCHANGED <<pending, seen>>
    /\ UNCHANGED <<sessionVars, loginVars, pw, otp, policy, guard, audit, tickets, setup, now, left>>

InsertOtp(r) ==
    /\ At(r, "insertOtp")
    /\ otp' = [otp EXCEPT ![Me(r)] = @ \cup {req[r].arg.key}]
    /\ Go(r, "upgrade")
    /\ UNCHANGED <<sessionVars, loginVars, pw, policy, pending, otpVars, tickets, setup, now, left, seen>>

\* upgrade_to_otp: without a password there is nothing to add the code to.
UpgradePolicy(r) ==
    /\ At(r, "upgrade")
    /\ policy' = [policy EXCEPT ![Me(r)] =
         IF req[r].policy = "pwotp" \/ pw[Me(r)] # {} THEN "pwotp" ELSE "any"]
    /\ Answer(r)
    /\ UNCHANGED <<sessionVars, loginVars, pw, otp, pending, otpVars, tickets, setup, now, left, seen>>

\* api_delete_otp: the row, then the count, then the policy if none is left.
DeleteOtp(r) ==
    /\ Handling(r, "deleteOtp")
    /\ IF otp[Me(r)] = {} THEN Answer(r) /\ UNCHANGED otp
       ELSE /\ \E key \in otp[Me(r)] : otp' = [otp EXCEPT ![Me(r)] = @ \ {key}]
            /\ Go(r, "downgrade")
    /\ UNCHANGED <<sessionVars, loginVars, pw, policy, pending, otpVars, tickets, setup, now, left, seen>>

DowngradePolicy(r) ==
    /\ At(r, "downgrade")
    /\ policy' = IF otp[Me(r)] = {} THEN [policy EXCEPT ![Me(r)] = "any"] ELSE policy
    /\ Answer(r)
    /\ UNCHANGED <<sessionVars, loginVars, pw, otp, pending, otpVars, tickets, setup, now, left, seen>>

\* api_create_ticket: not from a ticket, and only for a target the user may reach.
CreateTicket(r) ==
    /\ Handling(r, "mint")
    /\ \/ /\ ~IsTicketAuth(r)
          /\ \E t \in Tickets, n \in {1, Unlimited} :
               /\ ~tickets[t].live /\ seen.uses[t] = 0
               /\ tickets' = [tickets EXCEPT ![t] = [live |-> TRUE, user |-> Me(r), uses |-> n, granted |-> n]]
       \/ UNCHANGED tickets
    /\ Answer(r)
    /\ UNCHANGED <<sessionVars, loginVars, credVars, otpVars, setup, now, left, seen>>

\* Tickets a user deletes; uses already taken keep their cookies.
DeleteTicket(r) ==
    /\ Handling(r, "dropTicket")
    /\ tickets' = [t \in Tickets |-> IF tickets[t].user = Me(r) THEN [tickets[t] EXCEPT !.live = FALSE]
                                     ELSE tickets[t]]
    /\ Answer(r)
    /\ UNCHANGED <<sessionVars, loginVars, credVars, otpVars, setup, now, left, seen>>

-----------------------------------------------------------------------------
(* Step-up confirmation before a stored secret is shown                    *)

\* RevealGuard.allow counts the attempt, against the actor first.
Attempts(user, key) ==
    LET a == guard.attempts[<<user, key>>]
    IN IF now - a.start < WINDOW THEN [a EXCEPT !.n = @ + 1] ELSE [start |-> now, n |-> 1]

GraceOpen(s, user) == s.e.grace.user = user /\ s.e.grace.until > now

\* confirm_step_up: a supplied factor is always verified; without one the
\* open window of this session and this user is accepted.
StepUp(r) ==
    /\ Handling(r, "reveal")
    /\ LET user == Me(r)
           perUser == Attempts(user, "all")
           perAccount == Attempts(user, "account")
           within == perUser.n <= PER_USER_LIMIT
       IN IF IsTicketAuth(r)   \* require_admin
          THEN Answer(r) /\ UNCHANGED guard
          ELSE IF req[r].arg.factor = None
          THEN /\ Go(r, IF GraceOpen(req[r].s, user) THEN "extend" ELSE "answered")
               /\ UNCHANGED guard
          ELSE /\ guard' = [guard EXCEPT
                    !.attempts[<<user, "all">>] = perUser,
                    !.attempts[<<user, "account">>] = IF within THEN perAccount ELSE @]
               /\ Go(r, IF /\ within /\ perAccount.n <= PER_ACCOUNT_LIMIT
                           /\ req[r].arg.factor = "otp" => now - guard.used[user] >= OTP_REUSE_WINDOW
                        THEN "validate" ELSE "answered")
    /\ UNCHANGED <<sessionVars, loginVars, credVars, consumed, audit, tickets, setup, now, left, seen>>

Validate(r) ==
    /\ At(r, "validate") /\ cp = None
    /\ LET user == Me(r)
           code == req[r].arg.code
       IN IF req[r].arg.factor = "pw"
          THEN /\ Go(r, IF req[r].arg.pw \in pw[user] THEN "extend" ELSE "answered")
               /\ UNCHANGED <<consumed, seen>>
          ELSE /\ CheckOtp(user, code)
               /\ Go(r, IF ValidOtp(user, code) THEN "durable" ELSE "answered")
    /\ UNCHANGED <<sessionVars, loginVars, credVars, guard, audit, tickets, setup, now, left>>

\* The audit rows of the last two minutes survive a restart, the guard does not.
DurableCheck(r) ==
    /\ At(r, "durable")
    /\ Go(r, IF now - audit[Me(r)] < OTP_REUSE_WINDOW THEN "answered" ELSE "consumeOtp")
    /\ UNCHANGED <<sessionVars, loginVars, credVars, otpVars, tickets, setup, now, left, seen>>

ConsumeOtp(r) ==
    /\ At(r, "consumeOtp")
    /\ IF now - guard.used[Me(r)] < OTP_REUSE_WINDOW
       THEN Answer(r) /\ UNCHANGED guard
       ELSE Go(r, "extend") /\ guard' = [guard EXCEPT !.used[Me(r)] = now]
    /\ UNCHANGED <<sessionVars, loginVars, credVars, consumed, audit, tickets, setup, now, left, seen>>

\* step_up_grace::extend, then the account is looked up and the row written.
\* `sid' in the window is history: the handle it was opened under.
Reveal(r) ==
    /\ At(r, "extend")
    /\ Become(r, [pc |-> "answered", s |->
         SessionSet(req[r].s, "grace", [user |-> Me(r), until |-> now + GRACE,
             sid |-> IF req[r].arg.factor = None THEN req[r].s.e.grace.sid ELSE req[r].s.e.sid])])
    /\ \E found \in BOOLEAN :
         audit' = IF found /\ req[r].arg.factor = "otp" THEN [audit EXCEPT ![Me(r)] = now] ELSE audit
    /\ UNCHANGED <<sessionVars, loginVars, credVars, consumed, guard, tickets, setup, now, left, seen>>

-----------------------------------------------------------------------------
(* First-run setup                                                         *)

\* init(): one at a time; refused once there is a user, or without a token.
SetupLock(r) ==
    /\ Handling(r, "setup") /\ setup.lock = None
    /\ LET verified == req[r].arg = "admin" \/ (req[r].arg = "bootstrap" /\ setup.token)
       IN IF setup.done \/ ~verified
          THEN Answer(r) /\ UNCHANGED setup
          ELSE Go(r, "create") /\ setup' = [setup EXCEPT !.lock = r]
    /\ UNCHANGED <<sessionVars, loginVars, credVars, otpVars, tickets, now, left, seen>>

\* create_admin in one transaction, which may fail; then the token goes.
CreateAdmin(r) ==
    /\ At(r, "create")
    /\ \E ok \in BOOLEAN :
         setup' = [done |-> setup.done \/ ok, token |-> setup.token /\ ~ok, lock |-> None]
    /\ Answer(r)
    /\ UNCHANGED <<sessionVars, loginVars, credVars, otpVars, tickets, now, left, seen>>

-----------------------------------------------------------------------------
(* The process                                                             *)

Tick ==
    /\ left["tick"] > 0 /\ left' = [left EXCEPT !["tick"] = @ - 1]
    /\ now < MaxTime /\ now' = now + 1
    /\ UNCHANGED <<sessionVars, loginVars, credVars, otpVars, tickets, setup, req, seen>>

NoGuard == [used |-> [u \in Users |-> Never],
            attempts |-> [k \in Users \X {"all", "account"} |-> [start |-> Never, n |-> 0]]]

\* Everything but the database is gone; who uses a code is counted anew.
Restart ==
    /\ left["restart"] > 0 /\ left' = [left EXCEPT !["restart"] = @ - 1]
    /\ cookies' = [c \in Cookies |-> NotStored]
    /\ handles' = <<>> /\ idle' = {} /\ states' = <<>> /\ cp' = None
    /\ pending' = [u \in Users |-> NoId] /\ consumed' = {} /\ guard' = NoGuard
    /\ setup' = [setup EXCEPT !.lock = None]
    /\ req' = [r \in Requests |-> Idle]
    /\ seen' = [seen EXCEPT !.codes = [c \in DOMAIN @ |-> 0]]
    /\ UNCHANGED <<pw, otp, policy, audit, tickets, now>>

\* What a request may carry, by its kind.
Keys == 1..2
Codes == [key : Keys, counter : Counters]
Args(kind) ==
    CASE kind = "login" -> [user : Users, pw : {"old", "new"}]
      [] kind \in {"otpLogin", "createOtp"} -> {c \in Codes : c.key < seen.keys}
      [] kind \in {"ssoStart"} -> [csrf : {"x", "y"}]
      [] kind = "ssoReturn" -> [csrf : {"x", "y"}, user : Users]
      [] kind = "password" -> {[old |-> "old", new |-> "new"]}
      [] kind = "reveal" -> [factor : {None}] \cup [factor : {"pw"}, pw : {"old", "new"}]
                            \cup [factor : {"otp"}, code : {c \in Codes : c.key < seen.keys}]
      [] kind = "setup" -> {"admin", "bootstrap", "wrong"}
      [] OTHER -> {None}

TicketParams == {NoTicket} \cup IF left["useTicket"] > 0 THEN [id : Tickets, temporary : BOOLEAN] ELSE {}

RequestKinds == Public \cup {"revoke", "password", "beginOtp", "createOtp", "deleteOtp",
                             "mint", "dropTicket", "reveal"}

\* A browser carries a known cookie or, whatever it says, an unknown one.
Carried == {c \in Cookies : \/ cookies[c] # NotStored
                            \/ c = CHOOSE d \in Cookies : cookies[d] = NotStored}

Request(r) ==
    \/ \E kind \in RequestKinds, cookie \in Carried :
         left[kind] > 0 /\ \E arg \in Args(kind), ticket \in TicketParams :
            Arrive(r, kind, cookie, arg, ticket)
    \/ TicketAuthorize(r) \/ TicketConsume(r) \/ Track(r) \/ Inject(r) \/ Unwind(r) \/ Finish(r)

Handler(r) ==
    \/ Login(r) \/ OtpLogin(r) \/ SsoStart(r) \/ SsoReturn(r)
    \/ ContinueLogin(r) \/ CancelLogin(r)
    \/ AuthorizeHandle(r) \/ AuthorizeUser(r) \/ AuthorizeAudit(r)
    \/ Logout(r) \/ Revoke(r) \/ Serve(r)
    \/ ChangePassword(r) \/ DeletePasswords(r) \/ InsertPassword(r) \/ FindOwnHandle(r) \/ RevokeOthers(r)
    \/ BeginOtp(r) \/ ConfirmOtp(r) \/ InsertOtp(r) \/ UpgradePolicy(r) \/ DeleteOtp(r) \/ DowngradePolicy(r)
    \/ CreateTicket(r) \/ DeleteTicket(r)
    \/ StepUp(r) \/ Validate(r) \/ DurableCheck(r) \/ ConsumeOtp(r) \/ Reveal(r)
    \/ SetupLock(r) \/ CreateAdmin(r)

PortalNext ==
    \/ \E r \in Requests : Request(r) \/ Handler(r)
    \/ Vacuum \/ \E h \in DOMAIN handles : GrowIdle(h)
    \/ \E c \in Cookies : ExpireCookie(c)
    \/ Tick \/ Restart

\* What may happen besides requests, each a bounded number of times.
Events == {"lapse", "expire", "auditFails", "tick", "restart", "useTicket"}

\* The process starts over what the database holds: users with their credentials
\* and tickets, none used yet.
PortalInit ==
    /\ left \in [RequestKinds \cup Events -> Nat]
    /\ cookies = [c \in Cookies |-> NotStored] /\ handles = <<>> /\ idle = {}
    /\ states = <<>> /\ cp = None
    /\ pw \in [Users -> SUBSET {"old", "new"}] /\ otp \in [Users -> SUBSET Keys]
    /\ policy \in [Users -> {"any", "pwotp"}] /\ pending = [u \in Users |-> NoId]
    /\ consumed = {} /\ guard = NoGuard /\ audit = [u \in Users |-> Never]
    /\ tickets \in [Tickets -> [live : BOOLEAN, user : Users, uses : Int, granted : Int]]
    /\ \A t \in Tickets : tickets[t].uses = tickets[t].granted /\ tickets[t].granted <= Unlimited
    /\ setup \in [done : BOOLEAN, token : BOOLEAN, lock : {None}]
    /\ now \in 0..MaxTime
    /\ req = [r \in Requests |-> Idle]
    /\ seen = [ids |-> 1, over |-> {}, uses |-> [t \in Tickets |-> 0], codes |-> [c \in Codes |-> 0],
               keys |-> Max(Keys) + 1]

PortalSpec == PortalInit /\ [][PortalNext]_portalVars

-----------------------------------------------------------------------------
(* Properties                                                              *)

\* Once a handle is gone - logout, revocation, a password change, idleness -
\* no request that comes later acts as its user, although a slower request of
\* the same cookie may have stored the signed-in entries back (session.rs
\* touch, session_middleware).
RevokedStaysOut ==
    \A r \in Requests :
        req[r] # Idle /\ req[r].auth.kind = "user" =>
            req[r].under # NoId /\ req[r].under \notin req[r].dead

\* A secret shown without a factor is shown in the login session whose user
\* confirmed one; logging out and in again does not carry the window over
\* (step_up_grace.rs, logout).  A login already past the handle check when its
\* old handle goes may carry it: `over'.
WindowEndsWithSession ==
    \A r \in Requests :
        At(r, "extend") /\ req[r].arg.factor = None =>
            LET opened == req[r].s.e.grace.sid
            IN opened = req[r].s.e.sid \/ opened \in seen.over

\* No ticket lets in more requests than its uses, however many present it at
\* the same time (consume_ticket).
TicketUsesHold ==
    \A t \in Tickets : tickets[t].granted # Unlimited =>
        seen.uses[t] <= Max({0, tickets[t].granted})

\* A one-time code is accepted once, by whichever of login, step-up and
\* enrolment sees it first, as long as the clock accepts it at all (check_totp).
CodeAcceptedOnce == \A c \in Codes : seen.codes[c] <= 1

=============================================================================
