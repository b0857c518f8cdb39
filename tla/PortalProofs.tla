---------------------------- MODULE PortalProofs ----------------------------
(***************************************************************************)
(* Theorems about the web portal (Portal), for any users, cookies, tickets *)
(* and number of requests in flight, any workload and any limits: what a   *)
(* ticket and a one-time code let in, and what the browser session of a    *)
(* request is worth once it was revoked or the user signed in again.       *)
(*                                                                         *)
(* Each theorem is shown from the start of the process (PortalSpec) and    *)
(* from the signed-in starts of the checked workloads (MCSpec).            *)
(***************************************************************************)
EXTENDS MCPortal, TLAPS

-----------------------------------------------------------------------------
(* What the steps leave alone. *)

SeenFields == {"ids", "over", "uses", "codes", "keys"}

\* The uses of tickets change only by a request that takes one and by the owner's requests.
TicketStep == \/ \E r \in Requests : TicketConsume(r) \/ CreateTicket(r) \/ DeleteTicket(r)
              \/ tickets' = tickets /\ seen'.uses = seen.uses

\* Codes are consumed by logins, confirmations and enrolments; time passes; a restart
\* forgets.
CodeStep == \/ \E r \in Requests : OtpLogin(r) \/ Validate(r) \/ ConfirmOtp(r)
            \/ Tick \/ Restart
            \/ consumed' = consumed /\ now' = now /\ seen'.codes = seen.codes

\* Every step of the portal is one of each kind.
LEMMA StepKinds ==
    ASSUME SeenFields \subseteq DOMAIN seen, [PortalNext]_portalVars
    PROVE  SeenFields \subseteq DOMAIN seen' /\ TicketStep /\ CodeStep
<1> DEFINE Frame == SeenFields \subseteq DOMAIN seen' /\ TicketStep /\ CodeStep
<1>1. ASSUME UNCHANGED <<tickets, consumed, now, seen>> PROVE Frame
  BY <1>1 DEF TicketStep, CodeStep
<1>2. CASE UNCHANGED portalVars
  BY <1>1, <1>2 DEF portalVars, otpVars
<1>3. CASE Vacuum \/ (\E h \in DOMAIN handles : GrowIdle(h)) \/ (\E c \in Cookies : ExpireCookie(c))
  BY <1>1, <1>3 DEF Vacuum, GrowIdle, ExpireCookie, otpVars
<1>4. CASE Tick
  BY <1>4 DEF Tick, TicketStep, CodeStep
<1>5. CASE Restart
  <2>1. seen' = [seen EXCEPT !.codes = [c \in DOMAIN seen.codes |-> 0]] /\ tickets' = tickets
    BY <1>5 DEF Restart
  <2> QED BY <1>5, <2>1 DEF TicketStep, CodeStep, SeenFields
<1>6. ASSUME NEW r \in Requests, Request(r) PROVE Frame
  <2>1. CASE TicketConsume(r)
    <3>1. UNCHANGED <<consumed, now>>
      BY <2>1 DEF TicketConsume, otpVars
    <3>2. \E id : seen' = [seen EXCEPT !.uses[id] = @ + 1] \/ seen' = seen
      BY <2>1 DEF TicketConsume
    <3> QED BY <2>1, <3>1, <3>2 DEF TicketStep, CodeStep, SeenFields
  <2>2. CASE TicketAuthorize(r) \/ Track(r) \/ Inject(r) \/ Unwind(r) \/ Finish(r)
    BY <1>1, <2>2 DEF TicketAuthorize, Track, Inject, Unwind, Finish, otpVars
  <2>3. CASE \E kind, cookie, arg, ticket : Arrive(r, kind, cookie, arg, ticket)
    BY <1>1, <2>3 DEF Arrive, otpVars
  <2> QED BY <1>6, <2>1, <2>2, <2>3 DEF Request
<1>7. ASSUME NEW r \in Requests, Handler(r) PROVE Frame
  <2>1. CASE Login(r) \/ SsoStart(r) \/ SsoReturn(r) \/ ContinueLogin(r) \/ CancelLogin(r)
             \/ AuthorizeUser(r) \/ AuthorizeAudit(r) \/ Logout(r) \/ Revoke(r) \/ Serve(r)
    BY <1>1, <2>1 DEF Login, SsoStart, SsoReturn, ContinueLogin, CancelLogin, AuthorizeUser,
                      AuthorizeAudit, Logout, Revoke, Serve, otpVars
  <2>2. CASE ChangePassword(r) \/ DeletePasswords(r) \/ InsertPassword(r) \/ FindOwnHandle(r)
             \/ RevokeOthers(r) \/ InsertOtp(r) \/ UpgradePolicy(r) \/ DeleteOtp(r) \/ DowngradePolicy(r)
    BY <1>1, <2>2 DEF ChangePassword, DeletePasswords, InsertPassword, FindOwnHandle, RevokeOthers,
                      InsertOtp, UpgradePolicy, DeleteOtp, DowngradePolicy, otpVars
  <2>3. CASE StepUp(r) \/ DurableCheck(r) \/ ConsumeOtp(r) \/ Reveal(r) \/ SetupLock(r) \/ CreateAdmin(r)
    BY <1>1, <2>3 DEF StepUp, DurableCheck, ConsumeOtp, Reveal, SetupLock, CreateAdmin, otpVars
  <2>4. CASE CreateTicket(r) \/ DeleteTicket(r)
    <3>1. UNCHANGED <<consumed, now, seen>>
      BY <2>4 DEF CreateTicket, DeleteTicket, otpVars
    <3> QED BY <2>4, <3>1 DEF TicketStep, CodeStep
  <2>5. CASE AuthorizeHandle(r)
    <3>1. UNCHANGED <<consumed, now, tickets>>
      BY <2>5 DEF AuthorizeHandle, otpVars
    <3>2. \E more : \/ seen' = [seen EXCEPT !.ids = @ + 1, !.over = @ \cup more]
                    \/ seen' = seen
      BY <2>5 DEF AuthorizeHandle
    <3> QED BY <3>1, <3>2 DEF TicketStep, CodeStep, SeenFields
  <2>6. CASE BeginOtp(r)
    <3>1. UNCHANGED <<consumed, now, tickets>>
      BY <2>6 DEF BeginOtp, otpVars
    <3>2. seen' = [seen EXCEPT !.keys = @ + 1] \/ seen' = seen
      BY <2>6 DEF BeginOtp
    <3> QED BY <3>1, <3>2 DEF TicketStep, CodeStep, SeenFields
  <2>7. CASE OtpLogin(r) \/ Validate(r) \/ ConfirmOtp(r)
    <3>1. tickets' = tickets
      BY <2>7 DEF OtpLogin, Validate, ConfirmOtp
    <3>2. \E code : seen' = [seen EXCEPT !.codes[code] = @ + 1] \/ seen' = seen
      BY <2>7 DEF OtpLogin, Validate, ConfirmOtp, CheckOtp
    <3> QED BY <2>7, <3>1, <3>2 DEF TicketStep, CodeStep, SeenFields
  <2> QED BY <1>7, <2>1, <2>2, <2>3, <2>4, <2>5, <2>6, <2>7 DEF Handler
<1> QED BY <1>2, <1>3, <1>4, <1>5, <1>6, <1>7 DEF PortalNext

-----------------------------------------------------------------------------
(* Tickets. *)

RowFields == {"live", "user", "uses", "granted"}

\* The part of a number of uses that can be taken.
Usable(n) == IF n > 0 THEN n ELSE 0

\* The uses of a limited ticket that are left, and those that were taken, are at most the
\* ones it was granted; an unlimited ticket stays unlimited.
UsesOK(row, taken) ==
    /\ RowFields \subseteq DOMAIN row /\ row.uses \in Int /\ row.granted \in Int /\ taken \in Nat
    /\ IF row.granted = Unlimited THEN row.uses = Unlimited
       ELSE /\ row.uses <= row.granted /\ row.granted < Unlimited
            /\ taken + Usable(row.uses) <= Usable(row.granted)

TicketInv == /\ SeenFields \subseteq DOMAIN seen
             /\ DOMAIN tickets = Tickets /\ DOMAIN seen.uses = Tickets
             /\ \A t \in Tickets : UsesOK(tickets[t], seen.uses[t])

\* The larger of nothing and a number of uses.
LEMMA MaxUsable == ASSUME NEW n \in Int PROVE Max({0, n}) = Usable(n)
<1>1. Usable(n) \in {0, n} /\ \A y \in {0, n} : Usable(n) >= y
  BY DEF Usable
<1>2. \A x \in {0, n} : (\A y \in {0, n} : x >= y) => x = Usable(n)
  BY DEF Usable
<1> QED BY <1>1, <1>2 DEF Max

\* A use is taken only from what is left, in one conditional update.
LEMMA NextKeepsTicketInv == TicketInv /\ [PortalNext]_portalVars => TicketInv'
<1> SUFFICES ASSUME TicketInv, [PortalNext]_portalVars PROVE TicketInv'
  OBVIOUS
<1>1. SeenFields \subseteq DOMAIN seen' /\ TicketStep
  BY StepKinds DEF TicketInv
<1>2. CASE tickets' = tickets /\ seen'.uses = seen.uses
  BY <1>1, <1>2 DEF TicketInv
<1>3. ASSUME NEW r \in Requests, TicketConsume(r) PROVE TicketInv'
  <2> DEFINE id == req[r].ticket.id
             t == tickets[id]
             taken == t.live /\ t.uses # Unlimited /\ t.uses > 0
             ok == taken \/ (t.live /\ t.uses = Unlimited)
  <2>1. /\ tickets' = IF taken THEN [tickets EXCEPT ![id] = [t EXCEPT !.uses = t.uses - 1]] ELSE tickets
        /\ seen' = IF ok THEN [seen EXCEPT !.uses = [seen.uses EXCEPT ![id] = seen.uses[id] + 1]] ELSE seen
    BY <1>3 DEF TicketConsume
  <2>2. seen'.uses = IF ok THEN [seen.uses EXCEPT ![id] = seen.uses[id] + 1] ELSE seen.uses
    BY <2>1 DEF TicketInv, SeenFields
  <2>3. DOMAIN tickets' = Tickets /\ DOMAIN seen'.uses = Tickets
    BY <2>1, <2>2 DEF TicketInv
  <2>4. ASSUME NEW x \in Tickets PROVE UsesOK(tickets'[x], seen'.uses[x])
    <3>1. UsesOK(tickets[x], seen.uses[x])
      BY DEF TicketInv
    <3>2. CASE x # id
      BY <2>1, <2>2, <3>1, <3>2 DEF TicketInv
    <3>3. CASE x = id /\ ~ok
      BY <2>1, <2>2, <3>1, <3>3
    <3>4. CASE x = id /\ taken
      <4> DEFINE n == [t EXCEPT !.uses = t.uses - 1]
      <4>1. tickets'[x] = n /\ seen'.uses[x] = seen.uses[x] + 1
        BY <2>1, <2>2, <3>4 DEF TicketInv
      <4>2. DOMAIN n = DOMAIN t /\ n.uses = t.uses - 1 /\ n.granted = t.granted
        BY <3>1, <3>4 DEF UsesOK, RowFields
      <4> HIDE DEF n
      <4>3. t.uses # Unlimited /\ t.uses > 0 /\ t = tickets[x]
        BY <3>4
      <4> QED BY <3>1, <4>1, <4>2, <4>3 DEF UsesOK, Usable
    <3>5. CASE x = id /\ ok /\ ~taken
      <4>1. tickets'[x] = tickets[x] /\ seen'.uses[x] = seen.uses[x] + 1 /\ tickets[x].uses = Unlimited
        BY <2>1, <2>2, <3>5 DEF TicketInv
      <4> QED BY <3>1, <4>1 DEF UsesOK, Unlimited
    <3> QED BY <3>2, <3>3, <3>4, <3>5
  <2> QED BY <1>1, <2>3, <2>4 DEF TicketInv
<1>4. ASSUME NEW r \in Requests, CreateTicket(r) PROVE TicketInv'
  <2>1. seen' = seen
    BY <1>4 DEF CreateTicket
  <2>2. CASE tickets' = tickets
    BY <2>1, <2>2 DEF TicketInv
  <2>3. CASE tickets' # tickets
    <3>1. PICK t \in Tickets, n \in {1, Unlimited} :
             /\ seen.uses[t] = 0
             /\ tickets' = [tickets EXCEPT ![t] = [live |-> TRUE, user |-> Me(r), uses |-> n, granted |-> n]]
      BY <1>4, <2>3 DEF CreateTicket
    <3> DEFINE row == [live |-> TRUE, user |-> Me(r), uses |-> n, granted |-> n]
    <3>2. DOMAIN row = RowFields /\ row.uses = n /\ row.granted = n
      BY DEF RowFields
    <3>3. tickets' = [tickets EXCEPT ![t] = row]
      BY <3>1
    <3> HIDE DEF row
    <3>4. UsesOK(row, 0)
      BY <3>2 DEF UsesOK, Usable, Unlimited
    <3> QED BY <2>1, <3>1, <3>3, <3>4 DEF TicketInv
  <2> QED BY <2>2, <2>3
<1>5. ASSUME NEW r \in Requests, DeleteTicket(r) PROVE TicketInv'
  <2>1. seen' = seen /\ DOMAIN tickets' = Tickets
    BY <1>5 DEF DeleteTicket
  <2>2. ASSUME NEW t \in Tickets PROVE UsesOK(tickets'[t], seen.uses[t])
    <3> DEFINE row == [tickets[t] EXCEPT !.live = FALSE]
    <3>1. UsesOK(tickets[t], seen.uses[t])
      BY DEF TicketInv
    <3>2. tickets'[t] = row \/ tickets'[t] = tickets[t]
      BY <1>5 DEF DeleteTicket
    <3>3. DOMAIN row = DOMAIN tickets[t] /\ row.uses = tickets[t].uses /\ row.granted = tickets[t].granted
      BY <3>1 DEF UsesOK, RowFields
    <3> HIDE DEF row
    <3> QED BY <3>1, <3>2, <3>3 DEF UsesOK
  <2> QED BY <2>1, <2>2 DEF TicketInv
<1> QED BY <1>1, <1>2, <1>3, <1>4, <1>5 DEF TicketStep

\* What the invariant says of a ticket's uses.
LEMMA TicketInvHolds == TicketInv => TicketUsesHold
<1> SUFFICES ASSUME TicketInv, NEW t \in Tickets, tickets[t].granted # Unlimited
             PROVE  seen.uses[t] <= Max({0, tickets[t].granted})
  BY DEF TicketUsesHold
<1>1. UsesOK(tickets[t], seen.uses[t])
  BY DEF TicketInv
<1>2. Max({0, tickets[t].granted}) = Usable(tickets[t].granted)
  BY <1>1, MaxUsable DEF UsesOK
<1> QED BY <1>1, <1>2 DEF UsesOK, Usable

-----------------------------------------------------------------------------
(* One-time codes. *)

\* A code that was accepted is remembered until the clock has left its window for good.
Remembered(c) == \/ \E x \in consumed : x.code = c /\ x.at >= c.counter - SKEW
                 \/ now > c.counter + SKEW

CodeInv == /\ SeenFields \subseteq DOMAIN seen
           /\ now \in Nat
           /\ \A x \in consumed : x.at \in Nat /\ x.at <= now
           /\ seen.codes \in [Codes -> {0, 1}]
           /\ \A c \in Codes : seen.codes[c] = 1 => Remembered(c)

\* A code that is checked, accepted or not, is remembered from now on, and is accepted only
\* when it was not remembered.
LEMMA CheckKeepsCodeInv ==
    ASSUME CodeInv, NEW code, Consume(code), now' = now, SeenFields \subseteq DOMAIN seen',
           seen'.codes = IF check_totp(code) = "Valid" THEN [seen.codes EXCEPT ![code] = @ + 1]
                         ELSE seen.codes
    PROVE  CodeInv'
<1>1. ASSUME NEW c \in Codes PROVE c.counter \in Nat
  BY PortalAssumption DEF Codes
<1>2. now \in Nat /\ \A x \in consumed : x.at \in Nat /\ x.at <= now
  BY DEF CodeInv
<1>3. CASE ~InWindow(code)
  <2>1. consumed' = consumed /\ seen'.codes = seen.codes
    BY <1>3 DEF Consume, check_totp
  <2> QED BY <2>1 DEF CodeInv, Remembered
<1>4. CASE InWindow(code)
  <2> DEFINE n == [code |-> code, at |-> now]
  <2>1. consumed' = {x \in Fresh : x.code # code} \cup {n} /\ n.code = code /\ n.at = now
    BY <1>4 DEF Consume
  <2> HIDE DEF n
  <2>2. \A x \in consumed' : x.at \in Nat /\ x.at <= now'
    BY <1>2, <2>1 DEF Fresh
  <2>3. code \in Codes => code.counter - SKEW <= now /\ now <= code.counter + SKEW
    BY <1>1, <1>2, <1>4 DEF InWindow, SKEW
  <2>4. code \in Codes => Remembered(code)'
    BY <1>1, <1>2, <2>1, <2>3 DEF Remembered, SKEW
  <2>5. ASSUME NEW c \in Codes, c # code, Remembered(c) PROVE Remembered(c)'
    <3>1. CASE now > c.counter + SKEW
      BY <3>1 DEF Remembered
    <3>2. ASSUME NEW x \in consumed, x.code = c, x.at >= c.counter - SKEW PROVE Remembered(c)'
      <4>1. CASE x \in Fresh
        BY <2>1, <2>5, <3>2, <4>1 DEF Remembered
      <4>2. CASE x \notin Fresh
        <5>1. now - x.at >= CONSUMED_TTL /\ x.at \in Nat /\ c.counter \in Nat
          BY <1>1, <1>2, <3>2, <4>2 DEF Fresh, CONSUMED_TTL, SKEW
        <5>2. now > c.counter + SKEW
          BY <1>2, <3>2, <5>1 DEF CONSUMED_TTL, SKEW
        <5> QED BY <5>2 DEF Remembered
      <4> QED BY <4>1, <4>2
    <3> QED BY <2>5, <3>1, <3>2 DEF Remembered
  <2>6. ASSUME code \in Codes, check_totp(code) = "Valid" PROVE seen.codes[code] = 0
    <3>1. ASSUME seen.codes[code] = 1 PROVE FALSE
      <4>1. PICK x \in consumed : x.code = code /\ x.at >= code.counter - SKEW
        BY <1>1, <1>2, <2>3, <2>6, <3>1 DEF CodeInv, Remembered, SKEW
      <4>2. x \in Fresh
        BY <1>1, <1>2, <2>3, <2>6, <4>1 DEF Fresh, CONSUMED_TTL, SKEW
      <4> QED BY <1>4, <2>6, <4>1, <4>2 DEF check_totp
    <3> QED BY <2>6, <3>1 DEF CodeInv
  <2>7. seen'.codes \in [Codes -> {0, 1}]
    <3>1. seen.codes \in [Codes -> {0, 1}]
      BY DEF CodeInv
    <3>2. CASE check_totp(code) = "Valid" /\ code \in Codes
      <4>1. seen'.codes = [seen.codes EXCEPT ![code] = 1]
        BY <2>6, <3>2
      <4> QED BY <3>1, <4>1
    <3>3. CASE ~(check_totp(code) = "Valid" /\ code \in Codes)
      <4>1. seen'.codes = seen.codes
        BY <3>1, <3>3
      <4> QED BY <3>1, <4>1
    <3> QED BY <3>2, <3>3
  <2>8. ASSUME NEW c \in Codes, seen'.codes[c] = 1 PROVE Remembered(c)'
    <3>1. CASE c = code
      BY <2>4, <3>1
    <3>2. CASE c # code
      <4>1. seen.codes[c] = 1
        BY <2>8, <3>2 DEF CodeInv
      <4> QED BY <2>5, <3>2, <4>1 DEF CodeInv
    <3> QED BY <3>1, <3>2
  <2> QED BY <1>2, <2>2, <2>7, <2>8 DEF CodeInv
<1> QED BY <1>3, <1>4

\* Logins, confirmations and enrolments share one memory of codes; time only closes windows;
\* and a restart, which forgets the codes, starts a new count.
LEMMA NextKeepsCodeInv == CodeInv /\ [PortalNext]_portalVars => CodeInv'
<1> SUFFICES ASSUME CodeInv, [PortalNext]_portalVars PROVE CodeInv'
  OBVIOUS
<1>1. SeenFields \subseteq DOMAIN seen' /\ CodeStep
  BY StepKinds DEF CodeInv
<1>2. CASE consumed' = consumed /\ now' = now /\ seen'.codes = seen.codes
  BY <1>1, <1>2 DEF CodeInv, Remembered
<1>3. ASSUME NEW code, Consume(code), now' = now,
             \/ check_totp(code) = "Valid" /\ seen' = [seen EXCEPT !.codes[code] = @ + 1]
             \/ check_totp(code) # "Valid" /\ seen' = seen
      PROVE  CodeInv'
  <2>1. seen'.codes = IF check_totp(code) = "Valid" THEN [seen.codes EXCEPT ![code] = @ + 1]
                      ELSE seen.codes
    BY <1>3 DEF CodeInv, SeenFields
  <2> QED BY <1>1, <1>3, <2>1, CheckKeepsCodeInv
<1>4. ASSUME NEW user, NEW code, CheckOtp(user, code), now' = now PROVE CodeInv'
  <2>1. CASE code.key \in otp[user]
    BY <1>3, <1>4, <2>1 DEF CheckOtp, ValidOtp
  <2>2. CASE code.key \notin otp[user]
    <3>1. consumed' = consumed /\ seen' = seen
      BY <1>4, <2>2 DEF CheckOtp, ValidOtp
    <3> QED BY <1>2, <1>4, <3>1
  <2> QED BY <2>1, <2>2
<1>5. ASSUME NEW r \in Requests, OtpLogin(r) PROVE CodeInv'
  <2>1. now' = now /\ (UNCHANGED <<consumed, seen>> \/ \E user, code : CheckOtp(user, code))
    BY <1>5 DEF OtpLogin
  <2> QED BY <1>2, <1>4, <2>1
<1>6. ASSUME NEW r \in Requests, Validate(r) PROVE CodeInv'
  <2>1. now' = now /\ (UNCHANGED <<consumed, seen>> \/ \E user, code : CheckOtp(user, code))
    BY <1>6 DEF Validate
  <2> QED BY <1>2, <1>4, <2>1
<1>7. ASSUME NEW r \in Requests, ConfirmOtp(r) PROVE CodeInv'
  <2>1. /\ now' = now
        /\ \/ UNCHANGED <<consumed, seen>>
           \/ \E code : /\ Consume(code)
                        /\ \/ check_totp(code) = "Valid" /\ seen' = [seen EXCEPT !.codes[code] = @ + 1]
                           \/ check_totp(code) # "Valid" /\ seen' = seen
    BY <1>7 DEF ConfirmOtp
  <2> QED BY <1>2, <1>3, <2>1
<1>8. CASE Tick
  <2>1. now' = now + 1 /\ consumed' = consumed /\ seen' = seen
    BY <1>8 DEF Tick, otpVars
  <2>2. ASSUME NEW c \in Codes, Remembered(c) PROVE Remembered(c)'
    <3>1. c.counter \in Nat /\ now \in Nat
      BY PortalAssumption DEF Codes, CodeInv
    <3> QED BY <2>1, <2>2, <3>1 DEF Remembered, SKEW
  <2> QED BY <1>1, <2>1, <2>2 DEF CodeInv
<1>9. CASE Restart
  <2>1. /\ now' = now /\ consumed' = {}
        /\ seen' = [seen EXCEPT !.codes = [c \in DOMAIN seen.codes |-> 0]]
    BY <1>9 DEF Restart
  <2>2. seen'.codes = [c \in Codes |-> 0]
    BY <2>1 DEF CodeInv, SeenFields
  <2> QED BY <1>1, <2>1, <2>2 DEF CodeInv
<1> QED BY <1>1, <1>2, <1>5, <1>6, <1>7, <1>8, <1>9 DEF CodeStep

-----------------------------------------------------------------------------
(* Browser sessions. *)

EntryFields == {"auth", "sid", "state", "grace", "sso"}

\* Entries of a cookie, or of a request's copy: somebody is signed in only under a handle
\* that was given out, and a step-up window belongs to the handle that the entries name, or
\* to one that a later login of the same entries took the place of.
EntriesOK(e, ids, over) ==
    /\ e = [x \in EntryFields |-> e[x]]
    /\ e.sid \in 0 .. (ids - 1)
    /\ e.auth = NoAuth \/ e.auth.kind \in {"user", "ticket"}
    /\ e.auth.kind = "user" => e.sid # NoId
    /\ \/ e.grace = NoGrace
       \/ e.grace.sid # NoId /\ (e.grace.sid = e.sid \/ e.grace.sid \in over)

CopyOK(s, ids, over) == /\ DOMAIN s = {"status", "e"}
                        /\ EntriesOK(s.e, ids, over)
                        /\ s.status = "Purged" => s.e = NoEntries

RequestFields == {"pc", "kind", "arg", "ticket", "auth", "under", "s", "dead"}

\* A request: the handles that were gone when it came stay gone; once it was tracked, its
\* copy names none of them; it acts as a user only under the handle its copy named then; and
\* a secret is on its way to be shown only to a user who is signed in and has a window, or
\* supplied a factor.
RequestOK(q, ids, alive, over) ==
    /\ RequestFields \subseteq DOMAIN q
    /\ CopyOK(q.s, ids, over)
    /\ q.dead \subseteq 1 .. (ids - 1) /\ q.dead \cap alive = {}
    /\ q.pc = "inject" => q.s.e.sid \notin q.dead
    /\ q.auth.kind = "user" => q.under # NoId /\ q.under \notin q.dead
    /\ q.pc = "handler" => /\ q.auth = NoAuth \/ q.auth.kind \in {"user", "ticket"}
                           /\ q.auth.kind = "user" => q.s.e.sid # NoId
                           /\ q.kind \notin Public => q.auth # NoAuth
    /\ q.pc \in {"user", "loginAudit"} => q.s.status = "Purged" \/ q.s.e.sid # NoId
    /\ q.pc \in {"validate", "durable", "consumeOtp", "extend"} =>
          q.auth.kind = "user" /\ q.s.e.sid # NoId
    /\ q.pc \in {"validate", "durable", "consumeOtp"} => q.arg.factor # None
    /\ q.pc = "extend" /\ q.arg.factor = None => q.s.e.grace # NoGrace

SessionInv ==
    /\ SeenFields \subseteq DOMAIN seen
    /\ now \in Nat /\ seen.ids \in Nat \ {0} /\ DOMAIN handles \subseteq 1 .. (seen.ids - 1)
    /\ DOMAIN cookies = Cookies /\ DOMAIN req = Requests
    /\ \A c \in Cookies : EntriesOK(cookies[c], seen.ids, seen.over)
    /\ \A r \in Requests : req[r] = Idle \/ RequestOK(req[r], seen.ids, DOMAIN handles, seen.over)

\* More handles given out, and more of them replaced, make no entries wrong.
LEMMA EntriesGrow ==
    ASSUME NEW e, NEW ids \in Nat, NEW ids2 \in Nat, NEW over, NEW over2, EntriesOK(e, ids, over),
           ids <= ids2, over \subseteq over2
    PROVE  EntriesOK(e, ids2, over2)
BY DEF EntriesOK

\* Nobody is signed in without entries.
LEMMA EmptyEntries ==
    ASSUME NEW ids \in Nat \ {0}, NEW over
    PROVE  EntriesOK(NoEntries, ids, over) /\ EntriesOK(NotStored, ids, over)
<1>1. /\ NoEntries = [x \in EntryFields |-> NoEntries[x]]
      /\ NotStored = [x \in EntryFields |-> NotStored[x]]
  BY DEF NoEntries, NotStored, EntryFields
<1>2. /\ NoEntries.sid = 0 /\ NoEntries.auth = NoAuth /\ NoEntries.grace = NoGrace
      /\ NotStored.sid = 0 /\ NotStored.auth = NoAuth /\ NotStored.grace = NoGrace
  BY DEF NoEntries, NotStored, NoId
<1>3. NoAuth.kind = "none"
  BY DEF NoAuth, None
<1> QED BY <1>1, <1>2, <1>3 DEF EntriesOK

\* A copy that is cleared, purged or checked against the handles.
LEMMA CopyEmptied ==
    ASSUME NEW s, NEW ids \in Nat \ {0}, NEW over, CopyOK(s, ids, over)
    PROVE  /\ CopyOK(SessionClear(s), ids, over) /\ SessionClear(s).e = NoEntries
           /\ CopyOK(SessionPurge(s), ids, over) /\ SessionPurge(s).e = NoEntries
           /\ CopyOK(touch(s), ids, over)
<1>1. /\ DOMAIN SessionPurge(s) = {"status", "e"} /\ SessionPurge(s).e = NoEntries
  BY DEF SessionPurge
<1>2. CopyOK(SessionPurge(s), ids, over)
  BY <1>1, EmptyEntries DEF CopyOK
<1>3. CopyOK(SessionClear(s), ids, over) /\ SessionClear(s).e = NoEntries
  BY EmptyEntries DEF CopyOK, SessionClear
<1> QED BY <1>1, <1>2, <1>3 DEF touch

\* One entry of a copy that takes changes is replaced; a purged copy stays as it is.
LEMMA CopySet ==
    ASSUME NEW s, NEW ids \in Nat, NEW over, CopyOK(s, ids, over), NEW name \in EntryFields, NEW v,
           s.status # "Purged"
    PROVE  LET n == SessionSet(s, name, v) IN
           /\ DOMAIN n = {"status", "e"} /\ n.status # "Purged"
           /\ n.e = [x \in EntryFields |-> IF x = name THEN v ELSE s.e[x]]
<1>1. s.e = [x \in EntryFields |-> s.e[x]]
  BY DEF CopyOK, EntriesOK
<1>2. [s.e EXCEPT ![name] = v] = [x \in EntryFields |-> IF x = name THEN v ELSE s.e[x]]
  BY <1>1
<1>3. SessionSet(s, name, v) = [status |-> "Changed", e |-> [s.e EXCEPT ![name] = v]]
  BY DEF SessionSet
<1> QED BY <1>2, <1>3

\* Entries that say nothing of who is signed in may change freely.
LEMMA CopySetOther ==
    ASSUME NEW s, NEW ids \in Nat, NEW over, CopyOK(s, ids, over), NEW name \in {"state", "sso"}, NEW v
    PROVE  CopyOK(SessionSet(s, name, v), ids, over)
<1>1. CASE s.status = "Purged"
  BY <1>1 DEF SessionSet
<1>2. CASE s.status # "Purged"
  <2> DEFINE n == SessionSet(s, name, v)
  <2>1. /\ DOMAIN n = {"status", "e"} /\ n.status # "Purged"
        /\ n.e = [x \in EntryFields |-> IF x = name THEN v ELSE s.e[x]]
    BY <1>2, CopySet DEF EntryFields
  <2> HIDE DEF n
  <2>2. n.e.sid = s.e.sid /\ n.e.auth = s.e.auth /\ n.e.grace = s.e.grace
    BY <2>1 DEF EntryFields
  <2>3. n.e = [x \in EntryFields |-> n.e[x]]
    BY <2>1
  <2>4. EntriesOK(n.e, ids, over)
    BY <2>2, <2>3 DEF CopyOK, EntriesOK
  <2> QED BY <2>1, <2>4 DEF CopyOK, n
<1> QED BY <1>1, <1>2

\* A copy says that a user is signed in once it names a handle; a ticket needs none.
LEMMA CopySetAuth ==
    ASSUME NEW s, NEW ids \in Nat, NEW over, CopyOK(s, ids, over), NEW a,
           a = NoAuth \/ a.kind \in {"user", "ticket"},
           a.kind = "user" => s.status = "Purged" \/ s.e.sid # NoId
    PROVE  CopyOK(SessionSet(s, "auth", a), ids, over)
<1>1. CASE s.status = "Purged"
  BY <1>1 DEF SessionSet
<1>2. CASE s.status # "Purged"
  <2> DEFINE n == SessionSet(s, "auth", a)
  <2>1. /\ DOMAIN n = {"status", "e"} /\ n.status # "Purged"
        /\ n.e = [x \in EntryFields |-> IF x = "auth" THEN a ELSE s.e[x]]
    BY <1>2, CopySet DEF EntryFields
  <2> HIDE DEF n
  <2>2. n.e.sid = s.e.sid /\ n.e.auth = a /\ n.e.grace = s.e.grace
    BY <2>1 DEF EntryFields
  <2>3. n.e = [x \in EntryFields |-> n.e[x]]
    BY <2>1
  <2>4. EntriesOK(n.e, ids, over)
    BY <1>2, <2>2, <2>3 DEF CopyOK, EntriesOK
  <2> QED BY <2>1, <2>4 DEF CopyOK, n
<1> QED BY <1>1, <1>2

\* A window is opened, or prolonged, for the handle the copy names or the one it had.
LEMMA CopySetGrace ==
    ASSUME NEW s, NEW ids \in Nat, NEW over, CopyOK(s, ids, over), NEW g, g.sid # NoId,
           g.sid = s.e.sid \/ g.sid \in over
    PROVE  CopyOK(SessionSet(s, "grace", g), ids, over)
<1>1. CASE s.status = "Purged"
  BY <1>1 DEF SessionSet
<1>2. CASE s.status # "Purged"
  <2> DEFINE n == SessionSet(s, "grace", g)
  <2>1. /\ DOMAIN n = {"status", "e"} /\ n.status # "Purged"
        /\ n.e = [x \in EntryFields |-> IF x = "grace" THEN g ELSE s.e[x]]
    BY <1>2, CopySet DEF EntryFields
  <2> HIDE DEF n
  <2>2. n.e.sid = s.e.sid /\ n.e.auth = s.e.auth /\ n.e.grace = g
    BY <2>1 DEF EntryFields
  <2>3. n.e = [x \in EntryFields |-> n.e[x]]
    BY <2>1
  <2>4. EntriesOK(n.e, ids, over)
    BY <2>2, <2>3 DEF CopyOK, EntriesOK
  <2> QED BY <2>1, <2>4 DEF CopyOK, n
<1> QED BY <1>1, <1>2

\* A login puts its new handle in the place of the one the copy named, which is then counted
\* as replaced.
LEMMA CopySetSid ==
    ASSUME NEW s, NEW ids \in Nat \ {0}, NEW over, CopyOK(s, ids, over)
    PROVE  LET n == SessionSet(s, "sid", ids) IN
           /\ CopyOK(n, ids + 1, over \cup ({s.e.sid} \ {NoId}))
           /\ n.status = "Purged" \/ n.e.sid # NoId
<1> DEFINE n == SessionSet(s, "sid", ids)
           over2 == over \cup ({s.e.sid} \ {NoId})
<1>0. EntriesOK(s.e, ids, over) /\ over \subseteq over2
  BY DEF CopyOK
<1>1. CASE s.status = "Purged"
  <2>1. n = s
    BY <1>1 DEF SessionSet
  <2>2. EntriesOK(s.e, ids + 1, over2)
    BY <1>0, EntriesGrow
  <2> QED BY <1>1, <2>1, <2>2 DEF CopyOK
<1>2. CASE s.status # "Purged"
  <2>1. /\ DOMAIN n = {"status", "e"} /\ n.status # "Purged"
        /\ n.e = [x \in EntryFields |-> IF x = "sid" THEN ids ELSE s.e[x]]
    BY <1>2, CopySet DEF EntryFields
  <2> HIDE DEF n
  <2>2. n.e.sid = ids /\ n.e.auth = s.e.auth /\ n.e.grace = s.e.grace
    BY <2>1 DEF EntryFields
  <2>3. n.e = [x \in EntryFields |-> n.e[x]]
    BY <2>1
  <2>4. EntriesOK(n.e, ids + 1, over2)
    BY <1>0, <2>2, <2>3 DEF EntriesOK, NoId
  <2> QED BY <2>1, <2>2, <2>4 DEF CopyOK, NoId, n
<1> QED BY <1>1, <1>2

\* The steps of a request of which the invariant says nothing of their own.
Plain == {"ticket", "consume", "track", "answered", "end", "handle", "delete", "insert", "keep",
          "others", "insertOtp", "upgrade", "downgrade", "create"}

\* The fields of a request after a step.
LEMMA WithFields ==
    ASSUME NEW q, NEW rec, RequestFields \subseteq DOMAIN q
    PROVE  LET n == With(q, rec) IN
           /\ RequestFields \subseteq DOMAIN n
           /\ \A f \in RequestFields : n[f] = IF f \in DOMAIN rec THEN rec[f] ELSE q[f]
BY DEF With

\* The portal's handles after a step: those of before, and the next one when it was given out.
Grows == /\ SeenFields \subseteq DOMAIN seen'
         /\ now' \in Nat /\ seen'.ids \in Nat /\ seen.ids <= seen'.ids /\ seen.over \subseteq seen'.over
         /\ DOMAIN handles' \subseteq DOMAIN handles \cup (seen.ids .. (seen'.ids - 1))

\* A step in which no handle is given out and no cookie is written.
Quiet == /\ SeenFields \subseteq DOMAIN seen'
         /\ seen'.ids = seen.ids /\ seen'.over = seen.over /\ DOMAIN handles' \subseteq DOMAIN handles
         /\ cookies' = cookies /\ now' = now

\* What the invariant says of a request does not depend on the requests beside it.
LEMMA RequestGrows ==
    ASSUME SessionInv, Grows, NEW q, RequestOK(q, seen.ids, DOMAIN handles, seen.over)
    PROVE  RequestOK(q, seen'.ids, DOMAIN handles', seen'.over)
<1>1. seen.ids \in Nat /\ seen'.ids \in Nat /\ seen.ids <= seen'.ids /\ seen.over \subseteq seen'.over
  BY DEF SessionInv, Grows
<1>2. CopyOK(q.s, seen'.ids, seen'.over)
  BY <1>1, EntriesGrow DEF RequestOK, CopyOK
<1>3. q.dead \subseteq 1 .. (seen'.ids - 1)
  BY <1>1 DEF RequestOK
<1>4. q.dead \cap DOMAIN handles' = {}
  BY <1>1 DEF RequestOK, Grows
<1> QED BY <1>2, <1>3, <1>4 DEF RequestOK

\* One request's step.
LEMMA OneRequest ==
    ASSUME SessionInv, Grows, NEW r \in Requests, NEW n, req' = [req EXCEPT ![r] = n],
           n = Idle \/ RequestOK(n, seen'.ids, DOMAIN handles', seen'.over),
           DOMAIN cookies' = Cookies,
           \A c \in Cookies : \/ cookies'[c] = cookies[c]
                              \/ EntriesOK(cookies'[c], seen'.ids, seen'.over)
    PROVE  SessionInv'
<1>1. /\ seen.ids \in Nat \ {0} /\ seen'.ids \in Nat \ {0} /\ seen.ids <= seen'.ids
      /\ seen.over \subseteq seen'.over
  BY DEF SessionInv, Grows
<1>2. DOMAIN handles' \subseteq 1 .. (seen'.ids - 1)
  BY <1>1 DEF SessionInv, Grows
<1>3. \A c \in Cookies : EntriesOK(cookies'[c], seen'.ids, seen'.over)
  BY <1>1, EntriesGrow DEF SessionInv
<1>4. ASSUME NEW x \in Requests
      PROVE  req'[x] = Idle \/ RequestOK(req'[x], seen'.ids, DOMAIN handles', seen'.over)
  <2>1. CASE x = r
    BY <2>1 DEF SessionInv
  <2>2. CASE x # r
    <3>1. req'[x] = req[x]
      BY <2>2 DEF SessionInv
    <3> QED BY <3>1, RequestGrows DEF SessionInv
  <2> QED BY <2>1, <2>2
<1>5. DOMAIN req' = Requests /\ now' \in Nat /\ SeenFields \subseteq DOMAIN seen'
  BY DEF SessionInv, Grows
<1> QED BY <1>1, <1>2, <1>3, <1>4, <1>5 DEF SessionInv

\* A quiet step of a request.
LEMMA QuietStep ==
    ASSUME SessionInv, Quiet, NEW r \in Requests, NEW n, req' = [req EXCEPT ![r] = n],
           n = Idle \/ RequestOK(n, seen.ids, DOMAIN handles, seen.over)
    PROVE  SessionInv'
<1>1. Grows
  BY DEF Quiet, Grows, SessionInv
<1>2. n = Idle \/ RequestOK(n, seen'.ids, DOMAIN handles', seen'.over)
  BY <1>1, RequestGrows
<1>3. DOMAIN cookies' = Cookies /\ \A c \in Cookies : cookies'[c] = cookies[c]
  BY DEF Quiet, SessionInv
<1> QED BY <1>1, <1>2, <1>3, OneRequest

\* A request goes on to a step of which the invariant says nothing of its own.
LEMMA Moves ==
    ASSUME SessionInv, Quiet, NEW r \in Requests, req[r] # Idle, NEW rec, Become(r, rec),
           "pc" \in DOMAIN rec, rec["pc"] \in Plain, DOMAIN rec \subseteq {"pc", "arg", "sid", "policy", "s"},
           "s" \in DOMAIN rec => CopyOK(rec["s"], seen.ids, seen.over)
    PROVE  SessionInv'
<1> DEFINE q == req[r]
           n == With(q, rec)
<1>1. RequestOK(q, seen.ids, DOMAIN handles, seen.over)
  BY DEF SessionInv
<1>2. req' = [req EXCEPT ![r] = n]
  BY DEF Become
<1>3. /\ RequestFields \subseteq DOMAIN n
      /\ \A f \in RequestFields : n[f] = IF f \in DOMAIN rec THEN rec[f] ELSE q[f]
  BY <1>1, WithFields DEF RequestOK
<1> HIDE DEF n
<1>4. /\ n["pc"] \in Plain /\ n["auth"] = q["auth"] /\ n["under"] = q["under"] /\ n["dead"] = q["dead"]
      /\ CopyOK(n["s"], seen.ids, seen.over)
  <2>1. n["pc"] = rec["pc"]
    BY <1>3 DEF RequestFields
  <2>2. n["auth"] = q["auth"] /\ n["under"] = q["under"] /\ n["dead"] = q["dead"]
    BY <1>3 DEF RequestFields
  <2>3. n["s"] = IF "s" \in DOMAIN rec THEN rec["s"] ELSE q["s"]
    BY <1>3 DEF RequestFields
  <2>4. CopyOK(q["s"], seen.ids, seen.over)
    BY <1>1 DEF RequestOK
  <2> QED BY <2>1, <2>2, <2>3, <2>4
<1>5. RequestOK(n, seen.ids, DOMAIN handles, seen.over)
  BY <1>1, <1>3, <1>4 DEF RequestOK, Plain
<1> QED BY <1>2, <1>5, QuietStep

\* The plain forms of a step: the next one, an answer, and the next one with a new copy.
LEMMA Goes ==
    ASSUME SessionInv, Quiet, NEW r \in Requests, req[r] # Idle,
           \/ \E pc \in Plain : Go(r, pc)
           \/ Answer(r)
           \/ \E pc \in Plain : \E s : /\ Become(r, [pc |-> pc, s |-> s])
                                       /\ CopyOK(s, seen.ids, seen.over)
           \/ \E pc \in Plain : \E s, arg : /\ Become(r, [pc |-> pc, s |-> s, arg |-> arg])
                                            /\ CopyOK(s, seen.ids, seen.over)
    PROVE  SessionInv'
<1>1. ASSUME NEW pc \in Plain, Go(r, pc) PROVE SessionInv'
  <2> DEFINE rec == [pc |-> pc]
  <2>1. DOMAIN rec = {"pc"} /\ rec["pc"] = pc
    OBVIOUS
  <2>2. Become(r, rec)
    BY <1>1 DEF Go
  <2> HIDE DEF rec
  <2> QED BY <2>1, <2>2, Moves
<1>2. ASSUME Answer(r) PROVE SessionInv'
  <2> DEFINE rec == [pc |-> "answered", arg |-> None]
  <2>1. DOMAIN rec = {"pc", "arg"} /\ rec["pc"] = "answered"
    OBVIOUS
  <2>2. Become(r, rec)
    BY <1>2 DEF Answer
  <2> HIDE DEF rec
  <2> QED BY <2>1, <2>2, Moves DEF Plain
<1>3. ASSUME NEW pc \in Plain, NEW s, Become(r, [pc |-> pc, s |-> s]), CopyOK(s, seen.ids, seen.over)
      PROVE  SessionInv'
  <2> DEFINE rec == [pc |-> pc, s |-> s]
  <2>1. DOMAIN rec = {"pc", "s"} /\ rec["pc"] = pc /\ rec["s"] = s
    OBVIOUS
  <2>2. Become(r, rec)
    BY <1>3
  <2> HIDE DEF rec
  <2> QED BY <1>3, <2>1, <2>2, Moves
<1>4. ASSUME NEW pc \in Plain, NEW s, NEW arg, Become(r, [pc |-> pc, s |-> s, arg |-> arg]),
             CopyOK(s, seen.ids, seen.over)
      PROVE  SessionInv'
  <2> DEFINE rec == [pc |-> pc, s |-> s, arg |-> arg]
  <2>1. DOMAIN rec = {"pc", "s", "arg"} /\ rec["pc"] = pc /\ rec["s"] = s
    OBVIOUS
  <2>2. Become(r, rec)
    BY <1>4
  <2> HIDE DEF rec
  <2> QED BY <1>4, <2>1, <2>2, Moves
<1> QED BY <1>1, <1>2, <1>3, <1>4

\* A request in flight takes the values of a record.
LEMMA Becomes ==
    ASSUME SessionInv, Quiet, NEW r \in Requests, req[r] # Idle, NEW rec, Become(r, rec),
           \A n : /\ RequestFields \subseteq DOMAIN n
                  /\ \A f \in RequestFields : n[f] = IF f \in DOMAIN rec THEN rec[f] ELSE req[r][f]
                  => RequestOK(n, seen.ids, DOMAIN handles, seen.over)
    PROVE  SessionInv'
<1>1. RequestFields \subseteq DOMAIN req[r]
  BY DEF SessionInv, RequestOK
<1>2. RequestOK(With(req[r], rec), seen.ids, DOMAIN handles, seen.over)
  BY <1>1, WithFields
<1>3. req' = [req EXCEPT ![r] = With(req[r], rec)]
  BY DEF Become
<1> QED BY <1>2, <1>3, QuietStep

\* On the way to a secret, a request goes on only signed in, and to the secret itself only
\* with a factor or a window.
LEMMA GoesToSecret ==
    ASSUME SessionInv, Quiet, NEW r \in Requests, req[r] # Idle,
           NEW pc \in {"validate", "durable", "consumeOtp", "extend"}, Go(r, pc),
           req[r].auth.kind = "user", req[r].s.e.sid # NoId,
           pc # "extend" => req[r].arg.factor # None,
           req[r].arg.factor = None => req[r].s.e.grace # NoGrace
    PROVE  SessionInv'
<1> DEFINE q == req[r]
           rec == [pc |-> pc]
<1>1. RequestOK(q, seen.ids, DOMAIN handles, seen.over)
  BY DEF SessionInv
<1>2. DOMAIN rec = {"pc"} /\ rec["pc"] = pc /\ Become(r, rec)
  BY DEF Go
<1> HIDE DEF rec
<1>3. ASSUME NEW n, RequestFields \subseteq DOMAIN n,
             \A f \in RequestFields : n[f] = IF f \in DOMAIN rec THEN rec[f] ELSE q[f]
      PROVE  RequestOK(n, seen.ids, DOMAIN handles, seen.over)
  <2>1. /\ n["pc"] = pc /\ n["auth"] = q["auth"] /\ n["under"] = q["under"] /\ n["dead"] = q["dead"]
        /\ n["s"] = q["s"] /\ n["arg"] = q["arg"]
    BY <1>2, <1>3 DEF RequestFields
  <2> QED BY <1>1, <1>3, <2>1 DEF RequestOK
<1> QED BY <1>2, <1>3, Becomes

\* What a request in flight satisfies, and that it is in flight at every step but the first.
LEMMA InFlight ==
    ASSUME SessionInv, NEW r \in Requests, req[r].pc # "idle"
    PROVE  /\ req[r] # Idle /\ RequestOK(req[r], seen.ids, DOMAIN handles, seen.over)
           /\ CopyOK(req[r].s, seen.ids, seen.over) /\ seen.ids \in Nat \ {0}
<1>1. req[r] # Idle
  BY DEF Idle
<1> QED BY <1>1 DEF SessionInv, RequestOK

\* Steps that leave the copy alone, and those that change what says nothing of a handle.
LEMMA PlainHandlers ==
    ASSUME SessionInv, NEW r \in Requests,
           \/ Login(r) \/ OtpLogin(r) \/ SsoStart(r) \/ SsoReturn(r) \/ ContinueLogin(r) \/ CancelLogin(r)
           \/ AuthorizeAudit(r) \/ Logout(r) \/ Revoke(r) \/ Serve(r)
    PROVE  SessionInv'
<1> DEFINE s0 == req[r].s
<1>1. req[r].pc # "idle"
  BY DEF Login, OtpLogin, SsoStart, SsoReturn, ContinueLogin, CancelLogin, AuthorizeAudit, Logout,
         Revoke, Serve, Handling, At
<1>2. /\ req[r] # Idle /\ RequestOK(req[r], seen.ids, DOMAIN handles, seen.over)
      /\ CopyOK(s0, seen.ids, seen.over) /\ seen.ids \in Nat \ {0}
  BY <1>1, InFlight
<1>3. SeenFields \subseteq DOMAIN seen
  BY DEF SessionInv
<1>p. "handle" \in Plain /\ "answered" \in Plain
  BY DEF Plain
<1>4. ASSUME NEW user, NEW i, NEW kind, NEW valid, Conclude(r, user, i, kind, valid), Quiet
      PROVE  SessionInv'
  <2> DEFINE s == SessionSet(s0, "state", i)
  <2>1. CopyOK(s, seen.ids, seen.over)
    BY <1>2, CopySetOther
  <2>2. \/ Become(r, [pc |-> "handle", s |-> s, arg |-> [user |-> user, valid |-> valid]])
        \/ Become(r, [pc |-> "answered", s |-> s])
    BY <1>4 DEF Conclude
  <2> HIDE DEF s
  <2> QED BY <1>2, <1>4, <1>p, <2>1, <2>2, Goes
<1>5. CASE Login(r)
  <2>1. Quiet
    BY <1>3, <1>5 DEF Login, Quiet, sessionVars
  <2> QED BY <1>4, <1>5, <2>1 DEF Login
<1>6. CASE OtpLogin(r)
  <2>1. UNCHANGED <<cookies, handles, now>>
    BY <1>6 DEF OtpLogin, sessionVars
  <2>2. \E code : seen' = [seen EXCEPT !.codes[code] = @ + 1] \/ seen' = seen
    BY <1>6 DEF OtpLogin, CheckOtp
  <2>3. Quiet
    BY <1>3, <2>1, <2>2 DEF Quiet, SeenFields
  <2>4. Answer(r) \/ \E user, i, kind, valid : Conclude(r, user, i, kind, valid)
    BY <1>6 DEF OtpLogin
  <2> QED BY <1>2, <1>4, <2>3, <2>4, Goes
<1>7. CASE SsoStart(r)
  <2>1. Quiet
    BY <1>3, <1>7 DEF SsoStart, Quiet, sessionVars
  <2> DEFINE s == SessionSet(s0, "sso", req[r].arg.csrf)
  <2>2. CopyOK(s, seen.ids, seen.over) /\ Become(r, [pc |-> "answered", s |-> s])
    BY <1>2, <1>7, CopySetOther DEF SsoStart
  <2> HIDE DEF s
  <2> QED BY <1>2, <1>p, <2>1, <2>2, Goes
<1>8. CASE SsoReturn(r)
  <2>1. Quiet
    BY <1>3, <1>8 DEF SsoReturn, Quiet, sessionVars
  <2>2. Answer(r) \/ \E user, i, kind, valid : Conclude(r, user, i, kind, valid)
    BY <1>8 DEF SsoReturn
  <2> QED BY <1>2, <1>4, <2>1, <2>2, Goes
<1>9. CASE ContinueLogin(r) \/ CancelLogin(r)
  <2>1. Quiet
    BY <1>3, <1>9 DEF ContinueLogin, CancelLogin, Quiet, sessionVars
  <2> DEFINE s == SessionSet(s0, "state", NoId)
  <2>2. CopyOK(s, seen.ids, seen.over)
    BY <1>2, CopySetOther
  <2>3. Answer(r) \/ \E pc \in Plain : \E arg : Become(r, [pc |-> pc, s |-> s, arg |-> arg])
    BY <1>9, <1>p DEF ContinueLogin, CancelLogin
  <2> HIDE DEF s
  <2> QED BY <1>2, <2>1, <2>2, <2>3, Goes
<1>10. CASE AuthorizeAudit(r)
  <2>1. Quiet
    BY <1>3, <1>10 DEF AuthorizeAudit, Quiet, forget, Restrict
  <2> DEFINE a == [kind |-> "user", user |-> req[r].arg.user]
             s == SessionSet(s0, "auth", a)
  <2>2. s0.status = "Purged" \/ s0.e.sid # NoId
    BY <1>2, <1>10 DEF AuthorizeAudit, At, RequestOK
  <2>3. a.kind = "user"
    OBVIOUS
  <2>4. Answer(r) \/ Become(r, [pc |-> "answered", s |-> s])
    BY <1>10 DEF AuthorizeAudit
  <2> HIDE DEF a
  <2>5. CopyOK(s, seen.ids, seen.over)
    BY <1>2, <2>2, <2>3, CopySetAuth
  <2> HIDE DEF s
  <2> QED BY <1>2, <1>p, <2>1, <2>4, <2>5, Goes
<1>11. CASE Logout(r)
  <2>1. Quiet
    BY <1>3, <1>11 DEF Logout, Quiet, forget, Restrict
  <2>2. Become(r, [pc |-> "answered", s |-> SessionClear(s0)]) /\ CopyOK(SessionClear(s0), seen.ids, seen.over)
    BY <1>2, <1>11, CopyEmptied DEF Logout
  <2> QED BY <1>2, <1>p, <2>1, <2>2, Goes
<1>12. CASE Revoke(r)
  <2>1. Quiet /\ Answer(r)
    BY <1>3, <1>12 DEF Revoke, Quiet, forget, Restrict
  <2> QED BY <1>2, <2>1, Goes
<1>13. CASE Serve(r)
  <2> DEFINE set == SessionSet(s0, "auth", s0.e.auth)
             s == IF req[r].kind = "lifetime" THEN touch(set) ELSE s0
  <2>1. Quiet /\ Become(r, [pc |-> "answered", s |-> s])
    BY <1>3, <1>13 DEF Serve, Quiet
  <2>a. s0.e.auth = NoAuth \/ s0.e.auth.kind \in {"user", "ticket"}
    BY <1>2 DEF CopyOK, EntriesOK
  <2>b. s0.e.auth.kind = "user" => s0.status = "Purged" \/ s0.e.sid # NoId
    BY <1>2 DEF CopyOK, EntriesOK
  <2>2. CopyOK(set, seen.ids, seen.over)
    BY <1>2, <2>a, <2>b, CopySetAuth
  <2> HIDE DEF set
  <2>3. CopyOK(s, seen.ids, seen.over)
    BY <1>2, <2>2, CopyEmptied
  <2> HIDE DEF s
  <2> QED BY <1>2, <1>p, <2>1, <2>3, Goes
<1> QED BY <1>5, <1>6, <1>7, <1>8, <1>9, <1>10, <1>11, <1>12, <1>13

\* The self-service requests change credentials, and handles only by taking them away.
LEMMA SelfService ==
    ASSUME SessionInv, NEW r \in Requests,
           \/ ChangePassword(r) \/ DeletePasswords(r) \/ InsertPassword(r) \/ FindOwnHandle(r)
           \/ RevokeOthers(r) \/ BeginOtp(r) \/ ConfirmOtp(r) \/ InsertOtp(r) \/ UpgradePolicy(r)
           \/ DeleteOtp(r) \/ DowngradePolicy(r) \/ CreateTicket(r) \/ DeleteTicket(r)
           \/ SetupLock(r) \/ CreateAdmin(r)
    PROVE  SessionInv'
<1>1. req[r].pc # "idle"
  BY DEF ChangePassword, DeletePasswords, InsertPassword, FindOwnHandle, RevokeOthers, BeginOtp,
         ConfirmOtp, InsertOtp, UpgradePolicy, DeleteOtp, DowngradePolicy, CreateTicket,
         DeleteTicket, SetupLock, CreateAdmin, Handling, At
<1>2. req[r] # Idle /\ SeenFields \subseteq DOMAIN seen
  BY <1>1, InFlight DEF SessionInv
<1>3. CASE ChangePassword(r) \/ DeletePasswords(r) \/ InsertPassword(r) \/ RevokeOthers(r)
           \/ InsertOtp(r) \/ UpgradePolicy(r) \/ DeleteOtp(r) \/ DowngradePolicy(r)
           \/ CreateTicket(r) \/ DeleteTicket(r) \/ SetupLock(r) \/ CreateAdmin(r)
  <2>1. Quiet
    BY <1>2, <1>3 DEF ChangePassword, DeletePasswords, InsertPassword, RevokeOthers,
         revoke_other_sessions, InsertOtp, UpgradePolicy, DeleteOtp, DowngradePolicy,
         CreateTicket, DeleteTicket, SetupLock, CreateAdmin, Quiet, sessionVars, forget, Restrict
  <2>2. Answer(r) \/ \E pc \in Plain : Go(r, pc)
    BY <1>3 DEF ChangePassword, DeletePasswords, InsertPassword, RevokeOthers, InsertOtp, UpgradePolicy,
         DeleteOtp, DowngradePolicy, CreateTicket, DeleteTicket, SetupLock, CreateAdmin, Plain
  <2> QED BY <1>2, <2>1, <2>2, Goes
<1>4. CASE BeginOtp(r)
  <2>1. UNCHANGED <<cookies, handles, now>> /\ Answer(r)
    BY <1>4 DEF BeginOtp, sessionVars
  <2>2. seen' = [seen EXCEPT !.keys = @ + 1] \/ seen' = seen
    BY <1>4 DEF BeginOtp
  <2>3. Quiet
    BY <1>2, <2>1, <2>2 DEF Quiet, SeenFields
  <2> QED BY <1>2, <2>1, <2>3, Goes
<1>5. CASE ConfirmOtp(r)
  <2>1. UNCHANGED <<cookies, handles, now>>
    BY <1>5 DEF ConfirmOtp, sessionVars
  <2>2. \E code : seen' = [seen EXCEPT !.codes[code] = @ + 1] \/ seen' = seen
    BY <1>5 DEF ConfirmOtp
  <2>3. Quiet
    BY <1>2, <2>1, <2>2 DEF Quiet, SeenFields
  <2>4. CASE Answer(r)
    BY <1>2, <2>3, <2>4, Goes
  <2>5. CASE \E pol : Become(r, [pc |-> "insertOtp", policy |-> pol])
    <3>1. PICK pol : Become(r, [pc |-> "insertOtp", policy |-> pol])
      BY <2>5
    <3> DEFINE rec == [pc |-> "insertOtp", policy |-> pol]
    <3>2. DOMAIN rec = {"pc", "policy"} /\ rec["pc"] = "insertOtp" /\ Become(r, rec)
      BY <3>1
    <3> HIDE DEF rec
    <3> QED BY <1>2, <2>3, <3>2, Moves DEF Plain
  <2> QED BY <1>5, <2>4, <2>5 DEF ConfirmOtp
<1>6. CASE FindOwnHandle(r)
  <2>1. Quiet
    BY <1>2, <1>6 DEF FindOwnHandle, Quiet, sessionVars
  <2>2. PICK sid : Become(r, [pc |-> "others", sid |-> sid])
    BY <1>6 DEF FindOwnHandle
  <2> DEFINE rec == [pc |-> "others", sid |-> sid]
  <2>3. DOMAIN rec = {"pc", "sid"} /\ rec["pc"] = "others" /\ Become(r, rec)
    BY <2>2
  <2> HIDE DEF rec
  <2> QED BY <1>2, <2>1, <2>3, Moves DEF Plain
<1> QED BY <1>3, <1>4, <1>5, <1>6

\* The way of a request to its handler.
LEMMA RequestChain ==
    ASSUME SessionInv, NEW r \in Requests,
           TicketAuthorize(r) \/ TicketConsume(r) \/ Track(r) \/ Inject(r) \/ Unwind(r)
    PROVE  SessionInv'
<1> DEFINE q == req[r]
           s0 == req[r].s
<1>1. q.pc # "idle"
  BY DEF TicketAuthorize, TicketConsume, Track, Inject, Unwind, At
<1>2. /\ q # Idle /\ RequestOK(q, seen.ids, DOMAIN handles, seen.over)
      /\ CopyOK(s0, seen.ids, seen.over) /\ seen.ids \in Nat \ {0}
  BY <1>1, InFlight
<1>3. SeenFields \subseteq DOMAIN seen
  BY DEF SessionInv
<1>4. CASE TicketAuthorize(r)
  <2>1. Quiet
    BY <1>3, <1>4 DEF TicketAuthorize, Quiet, sessionVars
  <2>2. \E pc \in Plain : Go(r, pc)
    BY <1>4 DEF TicketAuthorize, Plain
  <2> QED BY <1>2, <2>1, <2>2, Goes
<1>5. CASE TicketConsume(r)
  <2>1. UNCHANGED <<cookies, handles, now>>
    BY <1>5 DEF TicketConsume, sessionVars
  <2>2. \E id : seen' = [seen EXCEPT !.uses[id] = @ + 1] \/ seen' = seen
    BY <1>5 DEF TicketConsume
  <2>3. Quiet
    BY <1>3, <2>1, <2>2 DEF Quiet, SeenFields
  <2>4. CASE Become(r, [pc |-> "end"])
    BY <1>2, <2>3, <2>4, Goes DEF Go, Plain
  <2>5. ASSUME NEW u, Become(r, [pc |-> "track", s |-> SessionSet(s0, "auth", [kind |-> "ticket", user |-> u])])
        PROVE  SessionInv'
    <3> DEFINE a == [kind |-> "ticket", user |-> u]
               s == SessionSet(s0, "auth", a)
    <3>1. a.kind = "ticket"
      OBVIOUS
    <3>2. Become(r, [pc |-> "track", s |-> s]) /\ "track" \in Plain
      BY <2>5 DEF Plain
    <3> HIDE DEF a
    <3>3. CopyOK(s, seen.ids, seen.over)
      BY <1>2, <3>1, CopySetAuth
    <3> HIDE DEF s
    <3> QED BY <1>2, <2>3, <3>2, <3>3, Goes
  <2> QED BY <1>5, <2>4, <2>5 DEF TicketConsume
<1>6. CASE Track(r)
  <2> DEFINE s == touch(s0)
             rec == [pc |-> "inject", s |-> s]
  <2>1. Quiet /\ Become(r, rec)
    BY <1>3, <1>6 DEF Track, Quiet
  <2>2. CopyOK(s, seen.ids, seen.over)
    BY <1>2, CopyEmptied
  <2>3. s.e.sid \notin q.dead
    <3>1. CASE s = s0 /\ s0.e.sid \in DOMAIN handles
      BY <1>2, <3>1 DEF RequestOK
    <3>2. CASE s = s0 /\ s0.e.sid = NoId
      BY <1>2, <3>2 DEF RequestOK, NoId
    <3>3. CASE s = SessionPurge(s0)
      <4>1. s.e = NoEntries
        BY <1>2, <3>3, CopyEmptied
      <4>2. s.e.sid = 0
        BY <4>1 DEF NoEntries, NoId
      <4> QED BY <1>2, <4>2 DEF RequestOK
    <3> QED BY <3>1, <3>2, <3>3 DEF touch
  <2> HIDE DEF s
  <2>4. DOMAIN rec = {"pc", "s"} /\ rec["pc"] = "inject" /\ rec["s"] = s
    OBVIOUS
  <2> HIDE DEF rec
  <2>5. ASSUME NEW n, RequestFields \subseteq DOMAIN n,
               \A f \in RequestFields : n[f] = IF f \in DOMAIN rec THEN rec[f] ELSE q[f]
        PROVE  RequestOK(n, seen.ids, DOMAIN handles, seen.over)
    <3>1. /\ n["pc"] = "inject" /\ n["auth"] = q["auth"] /\ n["under"] = q["under"] /\ n["dead"] = q["dead"]
          /\ n["s"] = s
      BY <2>4, <2>5 DEF RequestFields
    <3> QED BY <1>2, <2>2, <2>3, <2>5, <3>1 DEF RequestOK
  <2> QED BY <1>2, <2>1, <2>5, Becomes
<1>7. CASE Inject(r)
  <2> DEFINE s == IF ~q.host /\ s0.e.auth # NoAuth THEN SessionClear(s0) ELSE s0
             pc == IF s.e.auth = NoAuth /\ q.kind \notin Public THEN "answered" ELSE "handler"
             rec == [s |-> s, auth |-> s.e.auth, under |-> s.e.sid, pc |-> pc]
  <2>1. Quiet /\ Become(r, rec)
    BY <1>3, <1>7 DEF Inject, Quiet, sessionVars
  <2>2. CopyOK(s, seen.ids, seen.over)
    BY <1>2, CopyEmptied
  <2>3. s.e.sid \notin q.dead
    <3>1. CASE s = s0
      BY <1>2, <1>7, <3>1 DEF Inject, At, RequestOK
    <3>2. CASE s = SessionClear(s0)
      <4>1. s.e = NoEntries
        BY <1>2, <3>2, CopyEmptied
      <4>2. s.e.sid = 0
        BY <4>1 DEF NoEntries, NoId
      <4> QED BY <1>2, <4>2 DEF RequestOK
    <3> QED BY <3>1, <3>2
  <2> HIDE DEF s
  <2>4. /\ DOMAIN rec = {"s", "auth", "under", "pc"} /\ rec["pc"] = pc /\ rec["s"] = s
        /\ rec["auth"] = s.e.auth /\ rec["under"] = s.e.sid
    OBVIOUS
  <2>a. pc \in {"answered", "handler"} /\ (pc = "handler" => s.e.auth # NoAuth \/ q.kind \in Public)
    OBVIOUS
  <2> HIDE DEF rec, pc
  <2>5. ASSUME NEW n, RequestFields \subseteq DOMAIN n,
               \A f \in RequestFields : n[f] = IF f \in DOMAIN rec THEN rec[f] ELSE q[f]
        PROVE  RequestOK(n, seen.ids, DOMAIN handles, seen.over)
    <3>1. /\ n["pc"] = pc /\ n["auth"] = s.e.auth /\ n["under"] = s.e.sid /\ n["dead"] = q["dead"]
          /\ n["s"] = s /\ n["kind"] = q["kind"]
      BY <2>4, <2>5 DEF RequestFields
    <3>2. /\ s.e.auth = NoAuth \/ s.e.auth.kind \in {"user", "ticket"}
          /\ s.e.auth.kind = "user" => s.e.sid # NoId
      BY <2>2 DEF CopyOK, EntriesOK
    <3> QED BY <1>2, <2>2, <2>3, <2>5, <2>a, <3>1, <3>2 DEF RequestOK
  <2> QED BY <1>2, <2>1, <2>5, Becomes
<1>8. CASE Unwind(r)
  <2> DEFINE s == IF q.ticket.temporary THEN SessionClear(s0) ELSE s0
             rec == [pc |-> "end", arg |-> None, auth |-> NoAuth, under |-> NoId, dead |-> {}, sid |-> NoId,
                     s |-> s]
  <2>1. Quiet /\ Become(r, rec)
    BY <1>3, <1>8 DEF Unwind, Quiet, sessionVars
  <2>2. CopyOK(s, seen.ids, seen.over)
    BY <1>2, CopyEmptied
  <2> HIDE DEF s
  <2>4. /\ DOMAIN rec = {"pc", "arg", "auth", "under", "dead", "sid", "s"} /\ rec["pc"] = "end"
        /\ rec["s"] = s /\ rec["auth"] = NoAuth /\ rec["dead"] = {}
    OBVIOUS
  <2> HIDE DEF rec
  <2>5. ASSUME NEW n, RequestFields \subseteq DOMAIN n,
               \A f \in RequestFields : n[f] = IF f \in DOMAIN rec THEN rec[f] ELSE q[f]
        PROVE  RequestOK(n, seen.ids, DOMAIN handles, seen.over)
    <3>1. n["pc"] = "end" /\ n["auth"] = NoAuth /\ n["dead"] = {} /\ n["s"] = s
      BY <2>4, <2>5 DEF RequestFields
    <3>2. NoAuth.kind = "none"
      BY DEF NoAuth, None
    <3> QED BY <2>2, <2>5, <3>1, <3>2 DEF RequestOK
  <2> QED BY <1>2, <2>1, <2>5, Becomes
<1> QED BY <1>4, <1>5, <1>6, <1>7, <1>8

\* A new request knows which handles are gone; one that ends stores its copy.
LEMMA RequestEnds ==
    ASSUME SessionInv, NEW r \in Requests,
           \/ \E kind \in RequestKinds, cookie \in Carried : \E arg, ticket : Arrive(r, kind, cookie, arg, ticket)
           \/ Finish(r)
    PROVE  SessionInv'
<1>1. /\ SeenFields \subseteq DOMAIN seen /\ seen.ids \in Nat \ {0} /\ now \in Nat
      /\ DOMAIN cookies = Cookies /\ \A c \in Cookies : EntriesOK(cookies[c], seen.ids, seen.over)
      /\ DOMAIN handles \subseteq 1 .. (seen.ids - 1)
  BY DEF SessionInv
<1>2. ASSUME NEW kind \in RequestKinds, NEW cookie \in Carried, NEW arg, NEW ticket,
             Arrive(r, kind, cookie, arg, ticket)
      PROVE  SessionInv'
  <2> DEFINE found == cookies[cookie] # NotStored
             entries == IF found THEN cookies[cookie] ELSE NoEntries
             n == [pc |-> IF ticket = NoTicket THEN "track" ELSE "ticket",
                   kind |-> kind, cookie |-> cookie, known |-> found, arg |-> arg,
                   ticket |-> ticket, auth |-> NoAuth, under |-> NoId, s |-> SessionNew(entries),
                   dead |-> (1..(NewId - 1)) \ DOMAIN handles, host |-> kind # "foreign"]
  <2>1. Quiet /\ req' = [req EXCEPT ![r] = n]
    BY <1>1, <1>2 DEF Arrive, Quiet, sessionVars
  <2>2. EntriesOK(entries, seen.ids, seen.over)
    BY <1>1, EmptyEntries DEF Carried
  <2> HIDE DEF entries
  <2>3. CopyOK(SessionNew(entries), seen.ids, seen.over)
    BY <2>2 DEF CopyOK, SessionNew
  <2>4. /\ RequestFields \subseteq DOMAIN n /\ n.pc \in {"track", "ticket"} /\ n.auth = NoAuth
        /\ n.s = SessionNew(entries) /\ n.dead = (1..(seen.ids - 1)) \ DOMAIN handles
    BY DEF RequestFields, NewId
  <2>5. NoAuth.kind = "none"
    BY DEF NoAuth, None
  <2> HIDE DEF n
  <2>6. RequestOK(n, seen.ids, DOMAIN handles, seen.over)
    BY <2>3, <2>4, <2>5 DEF RequestOK
  <2> QED BY <2>1, <2>6, QuietStep
<1>3. CASE Finish(r)
  <2> DEFINE s0 == req[r].s
  <2>1. req[r].pc # "idle"
    BY <1>3 DEF Finish, At
  <2>2. CopyOK(s0, seen.ids, seen.over)
    BY <2>1, InFlight
  <2>3. EntriesOK(s0.e, seen.ids, seen.over) /\ EntriesOK(NotStored, seen.ids, seen.over)
    BY <1>1, <2>2, EmptyEntries DEF CopyOK
  <2>4. \E c \in Cookies : \/ cookies' = [cookies EXCEPT ![c] = s0.e]
                           \/ cookies' = [cookies EXCEPT ![c] = NotStored]
                           \/ cookies' = cookies
    BY <1>3 DEF Finish
  <2>5. /\ DOMAIN cookies' = Cookies
        /\ \A c \in Cookies : \/ cookies'[c] = cookies[c]
                              \/ EntriesOK(cookies'[c], seen.ids, seen.over)
    BY <1>1, <2>3, <2>4
  <2>6. req' = [req EXCEPT ![r] = Idle] /\ UNCHANGED <<handles, seen, now>>
    BY <1>3 DEF Finish
  <2>7. Grows
    BY <1>1, <2>6 DEF Grows
  <2> QED BY <2>5, <2>6, <2>7, OneRequest
<1> QED BY <1>2, <1>3

\* A login takes the handle its copy names, or a new one in the place of one that is gone.
LEMMA LoginSteps ==
    ASSUME SessionInv, NEW r \in Requests, AuthorizeHandle(r) \/ AuthorizeUser(r)
    PROVE  SessionInv'
<1> DEFINE q == req[r]
           s0 == req[r].s
<1>1. q.pc # "idle"
  BY DEF AuthorizeHandle, AuthorizeUser, At
<1>2. /\ q # Idle /\ RequestOK(q, seen.ids, DOMAIN handles, seen.over)
      /\ CopyOK(s0, seen.ids, seen.over) /\ seen.ids \in Nat \ {0}
  BY <1>1, InFlight
<1>3. /\ SeenFields \subseteq DOMAIN seen /\ now \in Nat /\ DOMAIN cookies = Cookies
      /\ DOMAIN handles \subseteq 1 .. (seen.ids - 1)
  BY DEF SessionInv
<1>4. CASE AuthorizeHandle(r) /\ s0.e.sid \in DOMAIN handles
  <2> DEFINE rec == [pc |-> "user", sid |-> s0.e.sid, s |-> s0]
  <2>1. s0.e.sid # seen.ids /\ s0.e.sid # NoId
    BY <1>2, <1>3, <1>4 DEF NoId
  <2>2. Become(r, rec) /\ UNCHANGED <<handles, seen, cookies, now>>
    BY <1>4, <2>1 DEF AuthorizeHandle, create_handle_for, NewId
  <2>3. Quiet
    BY <1>3, <2>2 DEF Quiet
  <2>4. DOMAIN rec = {"pc", "sid", "s"} /\ rec["pc"] = "user" /\ rec["s"] = s0
    OBVIOUS
  <2> HIDE DEF rec
  <2>5. ASSUME NEW n, RequestFields \subseteq DOMAIN n,
               \A f \in RequestFields : n[f] = IF f \in DOMAIN rec THEN rec[f] ELSE q[f]
        PROVE  RequestOK(n, seen.ids, DOMAIN handles, seen.over)
    <3>1. /\ n["pc"] = "user" /\ n["auth"] = q["auth"] /\ n["under"] = q["under"] /\ n["dead"] = q["dead"]
          /\ n["s"] = s0
      BY <2>4, <2>5 DEF RequestFields
    <3> QED BY <1>2, <2>1, <2>5, <3>1 DEF RequestOK
  <2> QED BY <1>2, <2>2, <2>3, <2>5, Becomes
<1>5. CASE AuthorizeHandle(r) /\ s0.e.sid \notin DOMAIN handles
  <2> DEFINE s == SessionSet(s0, "sid", seen.ids)
             over2 == seen.over \cup ({s0.e.sid} \ {NoId})
             rec == [pc |-> "user", sid |-> seen.ids, s |-> s]
             n == With(q, rec)
             one == [h \in {seen.ids} |-> None]
  <2>1. Become(r, rec) /\ handles' = With(handles, one) /\ cookies' = cookies /\ now' = now
    BY <1>5 DEF AuthorizeHandle, create_handle_for, NewId
  <2>2. seen' = [seen EXCEPT !.ids = seen.ids + 1, !.over = over2]
    BY <1>5 DEF AuthorizeHandle, create_handle_for, NewId
  <2>3. SeenFields \subseteq DOMAIN seen' /\ seen'.ids = seen.ids + 1 /\ seen'.over = over2
    BY <1>3, <2>2 DEF SeenFields
  <2>4. DOMAIN handles' = DOMAIN handles \cup {seen.ids}
    BY <2>1 DEF With
  <2>5. CopyOK(s, seen.ids + 1, over2) /\ (s.status = "Purged" \/ s.e.sid # NoId)
    BY <1>2, CopySetSid
  <2>6. Grows
    BY <1>2, <1>3, <2>1, <2>3, <2>4 DEF Grows
  <2>7. DOMAIN rec = {"pc", "sid", "s"} /\ rec["pc"] = "user" /\ rec["s"] = s
    OBVIOUS
  <2>8. req' = [req EXCEPT ![r] = n]
    BY <2>1 DEF Become
  <2> HIDE DEF rec, s
  <2>9. /\ RequestFields \subseteq DOMAIN n
        /\ \A f \in RequestFields : n[f] = IF f \in DOMAIN rec THEN rec[f] ELSE q[f]
    BY <1>2, WithFields DEF RequestOK
  <2> HIDE DEF n, over2
  <2>10. /\ n["pc"] = "user" /\ n["auth"] = q["auth"] /\ n["under"] = q["under"] /\ n["dead"] = q["dead"]
         /\ n["s"] = s
    BY <2>7, <2>9 DEF RequestFields
  <2>11. q.dead \subseteq 1 .. ((seen.ids + 1) - 1) /\ q.dead \cap (DOMAIN handles \cup {seen.ids}) = {}
    BY <1>2 DEF RequestOK
  <2>12. RequestOK(n, seen.ids + 1, DOMAIN handles \cup {seen.ids}, over2)
    BY <1>2, <2>5, <2>9, <2>10, <2>11 DEF RequestOK
  <2>13. DOMAIN cookies' = Cookies /\ \A c \in Cookies : cookies'[c] = cookies[c]
    BY <1>3, <2>1
  <2> QED BY <2>3, <2>4, <2>6, <2>8, <2>12, <2>13, OneRequest
<1>6. CASE AuthorizeUser(r)
  <2> DEFINE rec == [pc |-> "loginAudit"]
  <2>1. Become(r, rec) /\ UNCHANGED <<seen, cookies, now>> /\ DOMAIN handles' = DOMAIN handles
    BY <1>6 DEF AuthorizeUser, Go
  <2>2. Quiet
    BY <1>3, <2>1 DEF Quiet
  <2>3. DOMAIN rec = {"pc"} /\ rec["pc"] = "loginAudit"
    OBVIOUS
  <2> HIDE DEF rec
  <2>4. ASSUME NEW n, RequestFields \subseteq DOMAIN n,
               \A f \in RequestFields : n[f] = IF f \in DOMAIN rec THEN rec[f] ELSE q[f]
        PROVE  RequestOK(n, seen.ids, DOMAIN handles, seen.over)
    <3>1. /\ n["pc"] = "loginAudit" /\ n["auth"] = q["auth"] /\ n["under"] = q["under"]
          /\ n["dead"] = q["dead"] /\ n["s"] = s0
      BY <2>3, <2>4 DEF RequestFields
    <3>2. s0.status = "Purged" \/ s0.e.sid # NoId
      BY <1>2, <1>6 DEF AuthorizeUser, At, RequestOK
    <3> QED BY <1>2, <2>4, <3>1, <3>2 DEF RequestOK
  <2> QED BY <1>2, <2>1, <2>2, <2>4, Becomes
<1> QED BY <1>4, <1>5, <1>6

\* The way to a stored secret: a factor is checked, or the copy has an open window.
LEMMA StepUpSteps ==
    ASSUME SessionInv, NEW r \in Requests,
           StepUp(r) \/ Validate(r) \/ DurableCheck(r) \/ ConsumeOtp(r) \/ Reveal(r)
    PROVE  SessionInv'
<1> DEFINE q == req[r]
           s0 == req[r].s
<1>1. q.pc # "idle"
  BY DEF StepUp, Validate, DurableCheck, ConsumeOtp, Reveal, Handling, At
<1>2. /\ q # Idle /\ RequestOK(q, seen.ids, DOMAIN handles, seen.over)
      /\ CopyOK(s0, seen.ids, seen.over) /\ seen.ids \in Nat \ {0}
  BY <1>1, InFlight
<1>3. SeenFields \subseteq DOMAIN seen /\ now \in Nat /\ "answered" \in Plain
  BY DEF SessionInv, Plain
<1>4. CASE StepUp(r)
  <2>1. Quiet
    BY <1>3, <1>4 DEF StepUp, Quiet, sessionVars
  <2>2. CASE Answer(r)
    BY <1>2, <2>1, <2>2, Goes
  <2>3. CASE Go(r, "answered")
    BY <1>2, <1>3, <2>1, <2>3, Goes
  <2>4. CASE ~IsTicketAuth(r)
    <3>1. q.auth.kind = "user" /\ s0.e.sid # NoId
      <4>1. q.pc = "handler" /\ q.kind \notin Public
        BY <1>4 DEF StepUp, Handling, At, Public
      <4>2. q.auth # NoAuth /\ q.auth.kind # "ticket"
        BY <1>2, <2>4, <4>1 DEF RequestOK, IsTicketAuth
      <4> QED BY <1>2, <4>1, <4>2 DEF RequestOK
    <3>2. CASE GraceOpen(s0, Me(r)) /\ Go(r, "extend")
      <4>1. s0.e.grace # NoGrace
        <5>1. NoGrace.until = -9
          BY DEF NoGrace, Never
        <5> QED BY <1>3, <3>2, <5>1 DEF GraceOpen
      <4> QED BY <1>2, <2>1, <3>1, <3>2, <4>1, GoesToSecret
    <3>3. CASE q.arg.factor # None /\ Go(r, "validate")
      BY <1>2, <2>1, <3>1, <3>3, GoesToSecret
    <3> QED BY <1>4, <2>3, <2>4, <3>2, <3>3 DEF StepUp
  <2> QED BY <1>4, <2>2, <2>4 DEF StepUp
<1>5. ASSUME q.pc \in {"validate", "durable", "consumeOtp"}, Quiet,
             \/ Answer(r) \/ Go(r, "answered")
             \/ \E pc \in {"durable", "consumeOtp", "extend"} : Go(r, pc)
      PROVE  SessionInv'
  <2>1. q.auth.kind = "user" /\ s0.e.sid # NoId /\ q.arg.factor # None
    BY <1>2, <1>5 DEF RequestOK
  <2>2. CASE Answer(r) \/ Go(r, "answered")
    BY <1>2, <1>3, <1>5, <2>2, Goes
  <2>3. ASSUME NEW pc \in {"durable", "consumeOtp", "extend"}, Go(r, pc) PROVE SessionInv'
    BY <1>2, <1>5, <2>1, <2>3, GoesToSecret
  <2> QED BY <1>5, <2>2, <2>3
<1>6. CASE Validate(r)
  <2>1. UNCHANGED <<cookies, handles, now>> /\ q.pc = "validate"
    BY <1>6 DEF Validate, sessionVars, At
  <2>2. \E code : seen' = [seen EXCEPT !.codes[code] = @ + 1] \/ seen' = seen
    BY <1>6 DEF Validate, CheckOtp
  <2>3. Quiet
    BY <1>3, <2>1, <2>2 DEF Quiet, SeenFields
  <2>4. Go(r, "answered") \/ Go(r, "extend") \/ Go(r, "durable")
    BY <1>6 DEF Validate
  <2> QED BY <1>5, <2>1, <2>3, <2>4
<1>7. CASE DurableCheck(r)
  <2>1. Quiet /\ q.pc = "durable" /\ (Go(r, "answered") \/ Go(r, "consumeOtp"))
    BY <1>3, <1>7 DEF DurableCheck, Quiet, sessionVars, At
  <2> QED BY <1>5, <2>1
<1>8. CASE ConsumeOtp(r)
  <2>1. Quiet /\ q.pc = "consumeOtp" /\ (Answer(r) \/ Go(r, "extend"))
    BY <1>3, <1>8 DEF ConsumeOtp, Quiet, sessionVars, At
  <2> QED BY <1>5, <2>1
<1>9. CASE Reveal(r)
  <2> DEFINE sid == IF q.arg.factor = None THEN s0.e.grace.sid ELSE s0.e.sid
             g == [user |-> Me(r), until |-> now + GRACE, sid |-> sid]
             s == SessionSet(s0, "grace", g)
  <2>1. Quiet
    BY <1>3, <1>9 DEF Reveal, Quiet, sessionVars
  <2>2. Become(r, [pc |-> "answered", s |-> s])
    BY <1>9 DEF Reveal
  <2>3. /\ s0.e.sid # NoId /\ (q.arg.factor = None => s0.e.grace # NoGrace)
    BY <1>2, <1>9 DEF Reveal, At, RequestOK
  <2>4. sid # NoId /\ (sid = s0.e.sid \/ sid \in seen.over)
    BY <1>2, <2>3 DEF CopyOK, EntriesOK
  <2>5. g.sid = sid
    OBVIOUS
  <2> HIDE DEF g, sid
  <2>6. CopyOK(s, seen.ids, seen.over)
    BY <1>2, <2>4, <2>5, CopySetGrace
  <2> HIDE DEF s
  <2> QED BY <1>2, <1>3, <2>1, <2>2, <2>6, Goes
<1> QED BY <1>4, <1>6, <1>7, <1>8, <1>9

\* No step signs a request in under a handle that was gone when it came, nor opens a window
\* that belongs to nobody.
LEMMA NextKeepsSessionInv == SessionInv /\ [PortalNext]_portalVars => SessionInv'
<1> SUFFICES ASSUME SessionInv, [PortalNext]_portalVars PROVE SessionInv'
  OBVIOUS
<1>1. /\ SeenFields \subseteq DOMAIN seen /\ seen.ids \in Nat \ {0} /\ now \in Nat
      /\ DOMAIN cookies = Cookies /\ DOMAIN req = Requests
      /\ \A c \in Cookies : EntriesOK(cookies[c], seen.ids, seen.over)
  BY DEF SessionInv
<1>2. ASSUME req' = req, UNCHANGED seen, now' \in Nat, DOMAIN handles' \subseteq DOMAIN handles,
             DOMAIN cookies' = Cookies,
             \A c \in Cookies : cookies'[c] = cookies[c] \/ cookies'[c] = NotStored
      PROVE  SessionInv'
  <2>1. Grows
    BY <1>1, <1>2 DEF Grows
  <2>2. \A c \in Cookies : EntriesOK(cookies'[c], seen'.ids, seen'.over)
    BY <1>1, <1>2, EmptyEntries
  <2>3. \A r \in Requests : req'[r] = Idle \/ RequestOK(req'[r], seen'.ids, DOMAIN handles', seen'.over)
    BY <1>2, <2>1, RequestGrows DEF SessionInv
  <2> QED BY <1>1, <1>2, <2>2, <2>3 DEF SessionInv
<1>3. CASE UNCHANGED portalVars
  BY <1>1, <1>2, <1>3 DEF portalVars, sessionVars
<1>4. CASE Vacuum
  <2>1. UNCHANGED <<req, seen, now, cookies>> /\ DOMAIN handles' \subseteq DOMAIN handles
    BY <1>4 DEF Vacuum, forget, Restrict
  <2> QED BY <1>1, <1>2, <2>1
<1>5. CASE \E h \in DOMAIN handles : GrowIdle(h)
  <2>1. UNCHANGED <<req, seen, now, cookies, handles>>
    BY <1>5 DEF GrowIdle
  <2> QED BY <1>1, <1>2, <2>1
<1>6. CASE \E c \in Cookies : ExpireCookie(c)
  <2>1. UNCHANGED <<req, seen, now, handles>> /\ \E c \in Cookies : cookies' = [cookies EXCEPT ![c] = NotStored]
    BY <1>6 DEF ExpireCookie
  <2>2. DOMAIN cookies' = Cookies /\ \A c \in Cookies : cookies'[c] = cookies[c] \/ cookies'[c] = NotStored
    BY <1>1, <2>1
  <2> QED BY <1>1, <1>2, <2>1, <2>2
<1>7. CASE Tick
  <2>1. UNCHANGED <<req, seen, cookies, handles>> /\ now' = now + 1
    BY <1>7 DEF Tick, sessionVars
  <2> QED BY <1>1, <1>2, <2>1
<1>8. CASE Restart
  <2>1. /\ cookies' = [c \in Cookies |-> NotStored] /\ handles' = <<>> /\ now' = now
        /\ req' = [r \in Requests |-> Idle]
        /\ seen' = [seen EXCEPT !.codes = [c \in DOMAIN seen.codes |-> 0]]
    BY <1>8 DEF Restart
  <2>2. SeenFields \subseteq DOMAIN seen' /\ seen'.ids = seen.ids /\ seen'.over = seen.over
    BY <1>1, <2>1 DEF SeenFields
  <2>3. DOMAIN handles' = {}
    BY <2>1
  <2> QED BY <1>1, <2>1, <2>2, <2>3, EmptyEntries DEF SessionInv
<1>9. ASSUME NEW r \in Requests, Request(r) PROVE SessionInv'
  BY <1>9, RequestChain, RequestEnds DEF Request
<1>10. ASSUME NEW r \in Requests, Handler(r) PROVE SessionInv'
  BY <1>10, PlainHandlers, SelfService, LoginSteps, StepUpSteps DEF Handler
<1> QED BY <1>3, <1>4, <1>5, <1>6, <1>7, <1>8, <1>9, <1>10 DEF PortalNext

\* What the invariant says of requests and secrets.
LEMMA SessionInvHolds == SessionInv => RevokedStaysOut /\ WindowEndsWithSession
<1> SUFFICES ASSUME SessionInv PROVE RevokedStaysOut /\ WindowEndsWithSession
  OBVIOUS
<1>1. RevokedStaysOut
  BY DEF SessionInv, RequestOK, RevokedStaysOut
<1>2. ASSUME NEW r \in Requests, At(r, "extend"), req[r].arg.factor = None
      PROVE  req[r].s.e.grace.sid = req[r].s.e.sid \/ req[r].s.e.grace.sid \in seen.over
  <2>1. RequestOK(req[r], seen.ids, DOMAIN handles, seen.over)
    BY <1>2, InFlight DEF At
  <2> QED BY <1>2, <2>1 DEF At, RequestOK, CopyOK, EntriesOK
<1> QED BY <1>1, <1>2 DEF WindowEndsWithSession
-----------------------------------------------------------------------------
(* The theorems. *)

PortalInv == TicketInv /\ CodeInv /\ SessionInv

\* A process that starts holds no sessions, and nothing of its tickets was used.
LEMMA InitInv == PortalInit => PortalInv
<1> SUFFICES ASSUME PortalInit PROVE PortalInv
  OBVIOUS
<1>1. /\ SeenFields \subseteq DOMAIN seen /\ seen.ids = 1 /\ seen.over = {}
      /\ seen.uses = [t \in Tickets |-> 0] /\ seen.codes = [c \in Codes |-> 0]
  BY DEF PortalInit, SeenFields
<1>2. /\ cookies = [c \in Cookies |-> NotStored] /\ handles = <<>> /\ req = [r \in Requests |-> Idle]
      /\ now \in 0 .. MaxTime /\ consumed = {}
  BY DEF PortalInit
<1>3. now \in Nat
  BY <1>2, PortalAssumption
<1>4. TicketInv
  <2>1. ASSUME NEW t \in Tickets PROVE UsesOK(tickets[t], 0)
    <3>1. tickets[t] \in [live : BOOLEAN, user : Users, uses : Int, granted : Int]
      BY DEF PortalInit
    <3>2. /\ DOMAIN tickets[t] = RowFields /\ tickets[t].uses \in Int /\ tickets[t].granted \in Int
      BY <3>1 DEF RowFields
    <3>3. tickets[t].uses = tickets[t].granted /\ tickets[t].granted <= Unlimited
      BY DEF PortalInit
    <3> QED BY <3>2, <3>3 DEF UsesOK, Usable, Unlimited
  <2>2. DOMAIN tickets = Tickets
    BY DEF PortalInit
  <2> QED BY <1>1, <2>1, <2>2 DEF TicketInv
<1>5. CodeInv
  BY <1>1, <1>2, <1>3 DEF CodeInv
<1>6. DOMAIN handles = {}
  BY <1>2
<1>7. SessionInv
  BY <1>1, <1>2, <1>3, <1>6, EmptyEntries DEF SessionInv
<1> QED BY <1>4, <1>5, <1>7 DEF PortalInv

\* So it is in the checked workloads, where a user may be signed in under the first handle.
LEMMA WorkloadInv == MCInit => PortalInv
<1> SUFFICES ASSUME MCInit PROVE PortalInv
  OBVIOUS
<1> DEFINE fresh == left["setup"] > 0
<1>1. /\ SeenFields \subseteq DOMAIN seen /\ seen.over = {}
      /\ seen.ids = IF fresh THEN 1 ELSE 2
      /\ seen.uses = [t \in Tickets |-> 0] /\ seen.codes = [c \in Codes |-> 0]
  BY DEF MCInit, SeenFields
<1>2. /\ cookies = [c \in Cookies |-> IF c = "c1" /\ ~fresh THEN SignedInEntries ELSE NotStored]
      /\ handles = IF fresh THEN <<>> ELSE [h \in {1} |-> "alice"]
      /\ req = [r \in Requests |-> Idle] /\ now = 1 /\ consumed = {}
  BY DEF MCInit
<1>3. TicketInv
  <2> DEFINE first(n) == [t \in Tickets |->
               [live |-> left["mint"] = 0, user |-> "bob", uses |-> n, granted |-> n]]
  <2>1. FirstTickets # {} /\ tickets \in FirstTickets
    <3>1. first(1) \in FirstTickets
      BY DEF FirstTickets
    <3>2. (CHOOSE f \in FirstTickets : TRUE) \in FirstTickets
      BY <3>1
    <3> QED BY <3>1, <3>2 DEF MCInit
  <2>2. PICK n \in {-1, 1, Unlimited} : tickets = first(n)
    BY <2>1 DEF FirstTickets
  <2>3. ASSUME NEW t \in Tickets PROVE UsesOK(tickets[t], 0)
    <3>1. DOMAIN tickets[t] = RowFields /\ tickets[t].uses = n /\ tickets[t].granted = n
      BY <2>2 DEF RowFields
    <3> QED BY <3>1 DEF UsesOK, Usable, Unlimited
  <2> QED BY <1>1, <2>2, <2>3 DEF TicketInv
<1>4. CodeInv
  BY <1>1, <1>2 DEF CodeInv
<1>5. DOMAIN handles \subseteq 1 .. (seen.ids - 1)
  BY <1>1, <1>2
<1>6. EntriesOK(SignedInEntries, 2, {})
  <2> DEFINE a == [kind |-> "user", user |-> "alice"]
  <2>1. SignedInEntries = [auth |-> a, sid |-> 1, state |-> 1, grace |-> NoGrace, sso |-> None]
    <3>1. NoEntries = [auth |-> NoAuth, sid |-> NoId, state |-> NoId, grace |-> NoGrace, sso |-> None]
      BY DEF NoEntries
    <3>2. SignedInEntries = [NoEntries EXCEPT !.auth = a, !.sid = 1, !.state = 1]
      BY DEF SignedInEntries
    <3> HIDE DEF a
    <3> QED BY <3>1, <3>2
  <2>2. a.kind = "user"
    OBVIOUS
  <2> HIDE DEF a
  <2>3. /\ SignedInEntries = [x \in EntryFields |-> SignedInEntries[x]] /\ SignedInEntries.auth = a
        /\ SignedInEntries.sid = 1 /\ SignedInEntries.grace = NoGrace
    BY <2>1 DEF EntryFields
  <2> QED BY <2>2, <2>3 DEF EntriesOK, NoId
<1>7. \A c \in Cookies : EntriesOK(cookies[c], seen.ids, seen.over)
  <2>1. EntriesOK(NotStored, seen.ids, seen.over)
    <3>1. seen.ids \in Nat \ {0}
      BY <1>1
    <3> QED BY <3>1, EmptyEntries
  <2> SUFFICES ASSUME NEW c \in Cookies PROVE EntriesOK(cookies[c], seen.ids, seen.over)
    OBVIOUS
  <2>2. CASE c = "c1" /\ ~fresh
    <3>1. cookies[c] = SignedInEntries /\ seen.ids = 2 /\ seen.over = {}
      BY <1>1, <1>2, <2>2
    <3> QED BY <1>6, <3>1
  <2>3. CASE ~(c = "c1" /\ ~fresh)
    <3>1. cookies[c] = NotStored
      BY <1>2, <2>3
    <3> QED BY <2>1, <3>1
  <2> QED BY <2>2, <2>3
<1>8. DOMAIN cookies = Cookies /\ DOMAIN req = Requests /\ \A r \in Requests : req[r] = Idle
  BY <1>2
<1>9. seen.ids \in Nat \ {0} /\ now \in Nat
  BY <1>1, <1>2
<1>10. SessionInv
  BY <1>1, <1>5, <1>7, <1>8, <1>9 DEF SessionInv
<1> QED BY <1>3, <1>4, <1>10 DEF PortalInv

\* The three parts are kept together by every step of the portal.
LEMMA NextKeepsInv == PortalInv /\ [PortalNext]_portalVars => PortalInv'
BY NextKeepsTicketInv, NextKeepsCodeInv, NextKeepsSessionInv DEF PortalInv

\* They imply what the portal run checks.
LEMMA InvHolds ==
    PortalInv => TicketUsesHold /\ CodeAcceptedOnce /\ RevokedStaysOut /\ WindowEndsWithSession
<1>1. CodeInv => CodeAcceptedOnce
  BY DEF CodeInv, CodeAcceptedOnce
<1> QED BY <1>1, TicketInvHolds, SessionInvHolds DEF PortalInv

\* The invariant of the portal holds from the start of the process on.
THEOREM PortalKeepsInv == PortalSpec => []PortalInv
BY InitInv, NextKeepsInv, PTL DEF PortalSpec

\* No ticket lets in more requests than it was granted, however many of them present it at
\* the same time, and however often the process starts over (consume_ticket).
THEOREM PortalTicketUsesHold == PortalSpec => []TicketUsesHold
BY PortalKeepsInv, InvHolds, PTL

\* Between two starts of the process a one-time code is accepted once, by whichever of
\* login, step-up and enrolment sees it first (check_totp).
THEOREM PortalCodeAcceptedOnce == PortalSpec => []CodeAcceptedOnce
BY PortalKeepsInv, InvHolds, PTL

\* A request that comes after a handle is gone never acts as its user, whatever other
\* requests of the same cookie stored meanwhile (SessionStore::touch, session_middleware).
THEOREM PortalRevokedStaysOut == PortalSpec => []RevokedStaysOut
BY PortalKeepsInv, InvHolds, PTL

\* A secret is shown without a factor only under the handle whose user confirmed one, or
\* one that a login already under way put in its place (step_up_grace, logout).
THEOREM PortalWindowEndsWithSession == PortalSpec => []WindowEndsWithSession
BY PortalKeepsInv, InvHolds, PTL

\* All four hold as well from the signed-in starts of the checked workloads.
THEOREM WorkloadsSafe ==
    MCSpec => [](TicketUsesHold /\ CodeAcceptedOnce /\ RevokedStaysOut /\ WindowEndsWithSession)
BY WorkloadInv, NextKeepsInv, InvHolds, PTL DEF MCSpec
=============================================================================
