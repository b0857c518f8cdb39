---------------------------- MODULE TrafficProofs ----------------------------
(***************************************************************************)
(* Theorems about the traffic that is passed through, for any number of    *)
(* requests, users, targets, addresses, writers and items: a request of    *)
(* the HTTP proxy runs under its own session (HttpProxy), what a recording *)
(* takes is in its file once nobody is counted as writing (Recordings),    *)
(* an exec, which uses a recording as that allows, records what it relays  *)
(* (KubeExec), and the auditor of an SFTP channel reports what the target  *)
(* did, however many requests are on their way (SftpAuditor).              *)
(***************************************************************************)
EXTENDS MCTraffic, FiniteSetTheorems, SequenceTheorems, WellFoundedInduction, TLAPS

-----------------------------------------------------------------------------
(* The HTTP proxy: the inductive invariant. *)

\* The places of a request without a session, and of one with a session.
Waiting == {"resolve", "authenticate", "authorize", "account", "session"}
Served == {"describe", "send", "wait", "touch"}

\* What the upstream's side has come to.
Answers == {"none", "error", "cut", "body", "upgraded"}

\* A request that is neither new nor over.
Request ==
    [pc : Waiting \cup Served, header : Targets \cup {"absent", "invalid"},
     host : Targets \cup {"none"}, ip : Addresses, ws : BOOLEAN,
     bearer : Users \cup {"none"}, query : Users \cup {"none"}, cert : Users \cup {"none"},
     hdrs : RequestHeaders, user : Users \cup {"none"}, target : Targets \cup {"none"},
     sid : 0..NUM_REQUESTS,
     sent : SUBSET [name : (UNION RequestHeaders)
                             \cup UNION {injected_header_names(t) : t \in Targets},
                    from : {"client", "target"}],
     answer : Answers]

Over == [pc : {"done"}, answer : {"preflight", "401", "500", "502"} \cup Answers]

HttpTypeOK ==
    /\ rq \in [Requests -> {Idle} \cup Over \cup Request]
    /\ sess \in [Requests -> [user : Users \cup {"none"}, target : Targets \cup {"none"}]]
    /\ registered \subseteq Requests
    /\ handles \in [Keys -> 0..NUM_REQUESTS]
    /\ tokens \subseteq Users /\ certs \subseteq Users /\ granted \subseteq Grants

IsServed(r) == rq[r].pc \in Served

\* A request is served after its target was resolved and its user authenticated.
NamedInv ==
    \A r \in Requests :
      /\ rq[r].pc \in (Waiting \ {"resolve"}) \cup Served => rq[r].target \in Targets
      /\ rq[r].pc \in {"authorize", "account", "session"} \cup Served => rq[r].user \in Users

\* Who holds a session, a request or the correlator, holds a registered one.
HeldInv ==
    /\ \A r \in Requests : IsServed(r) => rq[r].sid \in registered
    /\ \A k \in Keys : handles[k] # 0 => handles[k] \in registered

\* The number a request will register is nobody's before, and the correlator has a
\* session under one key.
FreshInv ==
    /\ \A r \in Requests : rq[r].pc \in Waiting \cup {"idle"} =>
         /\ \A k \in Keys : handles[k] # r
         /\ \A q \in Requests : IsServed(q) => rq[q].sid # r
    /\ \A k, l \in Keys : handles[k] = handles[l] /\ handles[k] # 0 => k = l

\* Requests that share a session agree on its user and its target, and so does the key.
SharedInv ==
    \A r \in Requests : IsServed(r) =>
      /\ \A q \in Requests : IsServed(q) /\ rq[q].sid = rq[r].sid =>
           rq[q].user = rq[r].user /\ rq[q].target = rq[r].target
      /\ \A k \in Keys : handles[k] = rq[r].sid =>
           k.user = rq[r].user /\ k.target = rq[r].target

\* What the session says, from its description to the end of the request.
DescribedInv ==
    \A r \in Requests : rq[r].pc \in Served \ {"describe"} =>
      sess[rq[r].sid] = [user |-> rq[r].user, target |-> rq[r].target]

HttpInv == HttpTypeOK /\ NamedInv /\ HeldInv /\ FreshInv /\ SharedInv /\ DescribedInv


\* A request that is neither new nor over has all the fields of one.
LEMMA InProgress ==
    ASSUME HttpTypeOK, NEW r \in Requests, rq[r].pc \in Waiting \cup Served
    PROVE  rq[r] \in Request
<1>1. rq[r] \in {Idle} \cup Over \cup Request
  BY DEF HttpTypeOK
<1>2. rq[r] # Idle
  BY DEF Idle, Waiting, Served
<1>3. rq[r] \notin Over
  BY DEF Over, Waiting, Served
<1> QED BY <1>1, <1>2, <1>3

\* Every step keeps the types.
LEMMA HttpNextTypeOK ==
    ASSUME HttpTypeOK, NamedInv, [HttpNext]_httpVars
    PROVE  HttpTypeOK'
<1> USE HttpAssumption DEF HttpTypeOK, Refuse
<1>0. ASSUME NEW r \in Requests,
             NEW how \in {"preflight", "401", "500", "502"} \cup Answers, Refuse(r, how)
      PROVE  rq' \in [Requests -> {Idle} \cup Over \cup Request]
  BY <1>0 DEF Over
<1>1. ASSUME NEW r \in Requests, Arrive(r) PROVE HttpTypeOK'
  BY <1>1 DEF Arrive, Request, Waiting, Answers
<1>2. ASSUME NEW r \in Requests, Preflight(r) PROVE HttpTypeOK'
  BY <1>0, <1>2 DEF Preflight
<1>3. ASSUME NEW r \in Requests, Resolve(r) PROVE HttpTypeOK'
  <2> DEFINE t == NamedTarget(rq[r])
  <2>1. rq[r] \in Request
    BY <1>3, InProgress DEF Resolve, Waiting
  <2>2. ASSUME t \in Targets
        PROVE  [rq[r] EXCEPT !.pc = "authenticate", !.target = t,
                             !.header = "absent", !.host = "none"] \in Request
    BY <2>1, <2>2 DEF Request, Waiting
  <2>3. CASE t \in Targets
    BY <1>3, <2>2, <2>3 DEF Resolve
  <2>4. CASE t \notin Targets
    BY <1>0, <1>3, <2>4 DEF Resolve
  <2> QED BY <2>3, <2>4
<1>4. ASSUME NEW r \in Requests, Authenticate(r) PROVE HttpTypeOK'
  <2>1. rq[r] \in Request
    BY <1>4, InProgress DEF Authenticate, Waiting
  <2>2. ASSUME NEW u \in Authenticated(rq[r])
        PROVE  [rq[r] EXCEPT !.pc = "authorize", !.user = u, !.bearer = "none",
                             !.query = "none", !.cert = "none"] \in Request
    <3>1. u \in Users
      BY DEF Authenticated, validate_api_token, validate_client_certificate
    <3> QED BY <2>1, <3>1 DEF Request, Waiting
  <2>3. ASSUME NEW u \in Authenticated(rq[r]),
               rq' = [rq EXCEPT ![r].pc = "authorize", ![r].user = u,
                                ![r].bearer = "none", ![r].query = "none", ![r].cert = "none"]
        PROVE  HttpTypeOK'
    BY <1>4, <2>2, <2>3 DEF Authenticate
  <2>4. CASE Authenticated(rq[r]) = {}
    BY <1>0, <1>4, <2>4 DEF Authenticate
  <2> QED BY <1>4, <2>3, <2>4 DEF Authenticate
<1>5. ASSUME NEW r \in Requests, Authorize(r) PROVE HttpTypeOK'
  <2>1. [rq[r] EXCEPT !.pc = "account"] \in Request
    BY <1>5, InProgress DEF Authorize, Waiting, Request
  <2> QED BY <1>0, <1>5, <2>1 DEF Authorize
<1>6. ASSUME NEW r \in Requests, LoadAccount(r) PROVE HttpTypeOK'
  <2>1. [rq[r] EXCEPT !.pc = "session"] \in Request
    BY <1>6, InProgress DEF LoadAccount, Waiting, Request
  <2> QED BY <1>0, <1>6, <2>1 DEF LoadAccount
<1>7. ASSUME NEW r \in Requests, SessionFor(r) PROVE HttpTypeOK'
  <2> DEFINE k == correlation_key_for_request(rq[r])
  <2>1. rq[r] \in Request /\ k \in Keys
    BY <1>7, InProgress
       DEF SessionFor, Waiting, Request, NamedInv, Keys, correlation_key_for_request
  <2>2. \A s \in 0..NUM_REQUESTS : [rq[r] EXCEPT !.pc = "describe", !.sid = s] \in Request
    BY <2>1 DEF Request, Served
  <2>3. r \in 0..NUM_REQUESTS /\ handles[k] \in 0..NUM_REQUESTS
    BY <2>1 DEF Requests
  <2> HIDE DEF k
  <2>4. rq' \in [Requests -> {Idle} \cup Over \cup Request]
    <3>1. CASE rq' = [rq EXCEPT ![r].pc = "describe", ![r].sid = handles[k]]
      BY <2>2, <2>3, <3>1
    <3>2. CASE rq' = [rq EXCEPT ![r].pc = "describe", ![r].sid = r]
      BY <2>2, <2>3, <3>2
    <3>3. CASE Refuse(r, "500")
      BY <1>0, <3>3
    <3> QED BY <1>7, <3>1, <3>2, <3>3 DEF SessionFor, k
  <2>5. handles' \in [Keys -> 0..NUM_REQUESTS] /\ registered' \subseteq Requests
    BY <1>7, <2>1, <2>3 DEF SessionFor, k
  <2> QED BY <1>7, <2>4, <2>5 DEF SessionFor
<1>8. ASSUME NEW r \in Requests, Describe(r) PROVE HttpTypeOK'
  <2>1. rq[r] \in Request
    BY <1>8, InProgress DEF Describe, Served
  <2>2. [rq[r] EXCEPT !.pc = "send"] \in Request
        /\ [user |-> rq[r].user, target |-> rq[r].target]
             \in [user : Users \cup {"none"}, target : Targets \cup {"none"}]
    BY <2>1 DEF Request, Served
  <2>3. CASE Finish(r, "500") /\ UNCHANGED sess
    BY <1>0, <1>8, <2>3 DEF Describe, Finish
  <2> QED BY <1>8, <2>2, <2>3 DEF Describe
<1>9. ASSUME NEW r \in Requests, Send(r) PROVE HttpTypeOK'
  <2>1. rq[r] \in Request /\ rq[r].target \in Targets
    BY <1>9, InProgress DEF Send, Served, NamedInv
  <2>2. [rq[r] EXCEPT !.pc = "touch", !.answer = "error"] \in Request
    BY <2>1 DEF Request, Served, Answers
  <2>3. Sent(rq[r]) \subseteq [name : (UNION RequestHeaders)
                                   \cup UNION {injected_header_names(t) : t \in Targets},
                               from : {"client", "target"}]
    BY <2>1 DEF Sent, Request, injected_header_names, collect_forwarded_headers
  <2>4. [rq[r] EXCEPT !.pc = "wait", !.sent = Sent(rq[r])] \in Request
    BY <2>1, <2>3 DEF Request, Served
  <2> QED BY <1>9, <2>2, <2>4 DEF Send
<1>10. ASSUME NEW r \in Requests, UpstreamAnswers(r) PROVE HttpTypeOK'
  <2>1. rq[r] \in Request
    BY <1>10, InProgress DEF UpstreamAnswers, Served
  <2>2. \A streamed, big \in BOOLEAN : CappedBody(streamed, big) \in Answers
    BY DEF CappedBody, Answers
  <2>3. ASSUME NEW a \in Answers,
               rq' = [rq EXCEPT ![r].pc = "touch", ![r].answer = a]
        PROVE  HttpTypeOK'
    <3>1. [rq[r] EXCEPT !.pc = "touch", !.answer = a] \in Request
      BY <2>1, <2>3 DEF Request, Served
    <3> QED BY <1>10, <2>3, <3>1 DEF UpstreamAnswers
  <2> HIDE DEF HttpTypeOK
  <2> QED BY <1>10, <2>2, <2>3 DEF UpstreamAnswers, Answers
<1>11. ASSUME NEW r \in Requests, Touch(r) PROVE HttpTypeOK'
  <2>1. rq[r].answer \in Answers
    BY <1>11, InProgress DEF Touch, Served, Request
  <2> QED BY <1>0, <1>11, <2>1 DEF Touch, Finish
<1>12. CASE Vacuum
  BY <1>12 DEF Vacuum
<1>13. CASE \/ IssueToken \/ RevokeToken \/ IssueCertificate \/ RevokeCertificate
            \/ RevokeGrant \/ UNCHANGED httpVars
  BY <1>13 DEF IssueToken, RevokeToken, IssueCertificate, RevokeCertificate, RevokeGrant,
               httpVars
<1> QED BY <1>1, <1>2, <1>3, <1>4, <1>5, <1>6, <1>7, <1>8, <1>9, <1>10, <1>11, <1>12, <1>13
    DEF HttpNext

\* The invariants about the sessions.
SessionInv == NamedInv /\ HeldInv /\ FreshInv /\ SharedInv /\ DescribedInv

\* The others' requests stay as they are.
Others(r) == \A q \in Requests \ {r} : rq'[q] = rq[q]

\* A step of a request that has no session before or after.
LEMMA UnservedStep ==
    ASSUME SessionInv, NEW r \in Requests, Others(r),
           rq[r].pc \in Waiting \cup {"idle"}, rq'[r].pc \in Waiting \cup {"done"},
           rq'[r].pc \in Waiting \ {"resolve"} => rq'[r].target \in Targets,
           rq'[r].pc \in {"authorize", "account", "session"} => rq'[r].user \in Users,
           UNCHANGED <<sess, registered, handles>>
    PROVE  SessionInv'
<1>1. ~IsServed(r)' /\ \A q \in Requests \ {r} : rq'[q] = rq[q]
  BY DEF IsServed, Waiting, Served, Others
<1>2. NamedInv'
  BY <1>1 DEF SessionInv, NamedInv, IsServed, Served, Waiting
<1>3. HeldInv'
  BY <1>1 DEF SessionInv, HeldInv, IsServed
<1>4. FreshInv'
  BY <1>1 DEF SessionInv, FreshInv, IsServed, Waiting
<1>5. SharedInv'
  BY <1>1 DEF SessionInv, SharedInv, IsServed
<1>6. DescribedInv'
  BY <1>1 DEF SessionInv, DescribedInv, IsServed, Served
<1> QED BY <1>2, <1>3, <1>4, <1>5, <1>6 DEF SessionInv

\* A step of a request within its session that leaves the session's number, user and
\* target, after the session was described.
LEMMA ServedStep ==
    ASSUME SessionInv, NEW r \in Requests, Others(r),
           IsServed(r), rq'[r].pc \in Served,
           rq'[r].sid = rq[r].sid, rq'[r].user = rq[r].user, rq'[r].target = rq[r].target,
           sess'[rq[r].sid] = [user |-> rq[r].user, target |-> rq[r].target],
           \A s \in Requests \ {rq[r].sid} : sess'[s] = sess[s],
           registered \subseteq Requests,
           UNCHANGED <<registered, handles>>
    PROVE  SessionInv'
<1>1. /\ \A q \in Requests : /\ IsServed(q)' <=> IsServed(q)
                             /\ rq'[q].sid = rq[q].sid
                             /\ rq'[q].user = rq[q].user /\ rq'[q].target = rq[q].target
      /\ \A q \in Requests \ {r} : rq'[q].pc = rq[q].pc
  BY DEF IsServed, Others
<1>2. NamedInv'
  BY <1>1 DEF SessionInv, NamedInv, IsServed, Served, Waiting
<1>3. HeldInv'
  BY <1>1 DEF SessionInv, HeldInv
<1>4. FreshInv'
  BY <1>1 DEF SessionInv, FreshInv, IsServed, Waiting, Served
<1>5. SharedInv'
  BY <1>1 DEF SessionInv, SharedInv
<1>6. DescribedInv'
  <2> SUFFICES ASSUME NEW q \in Requests, rq'[q].pc \in Served \ {"describe"}
               PROVE  sess'[rq[q].sid] = [user |-> rq[q].user, target |-> rq[q].target]
    BY <1>1 DEF DescribedInv
  <2>1. IsServed(q) /\ rq[q].sid \in Requests
    BY <1>1 DEF IsServed, SessionInv, HeldInv
  <2>2. CASE rq[q].sid = rq[r].sid
    BY <2>1, <2>2 DEF SessionInv, SharedInv
  <2>3. CASE rq[q].sid # rq[r].sid
    BY <1>1, <2>1, <2>3 DEF SessionInv, DescribedInv
  <2> QED BY <2>2, <2>3
<1> QED BY <1>2, <1>3, <1>4, <1>5, <1>6 DEF SessionInv

\* The end of a request: its session stays while somebody else holds it.
LEMMA FinishStep ==
    ASSUME SessionInv, HttpTypeOK, NEW r \in Requests, NEW how, IsServed(r), Finish(r, how),
           UNCHANGED <<sess, handles>>
    PROVE  SessionInv'
<1>1. /\ ~IsServed(r)' /\ rq'[r].pc = "done"
      /\ \A q \in Requests \ {r} : rq'[q] = rq[q]
  BY DEF IsServed, Served, Finish, Refuse, HttpTypeOK
<1>2. NamedInv'
  BY <1>1 DEF SessionInv, NamedInv, Served, Waiting
<1>3. HeldInv'
  <2>1. ASSUME NEW q \in Requests, IsServed(q)' PROVE rq'[q].sid \in registered'
    <3>1. q # r /\ IsServed(q) /\ rq'[q] = rq[q]
      BY <1>1, <2>1 DEF IsServed
    <3>2. rq[q].sid = rq[r].sid => HeldByRequest(rq[r].sid, r)
      BY <3>1 DEF HeldByRequest, IsServed, Served
    <3> QED BY <3>1, <3>2 DEF Finish, SessionInv, HeldInv
  <2>2. ASSUME NEW k \in Keys, handles[k] # 0 PROVE handles[k] \in registered'
    BY <2>2 DEF Finish, SessionInv, HeldInv, HeldByCorrelator
  <2> QED BY <2>1, <2>2 DEF HeldInv
<1>4. FreshInv'
  BY <1>1 DEF SessionInv, FreshInv, IsServed, Waiting
<1>5. SharedInv'
  BY <1>1 DEF SessionInv, SharedInv, IsServed
<1>6. DescribedInv'
  BY <1>1 DEF SessionInv, DescribedInv, IsServed, Served
<1> QED BY <1>2, <1>3, <1>4, <1>5, <1>6 DEF SessionInv

\* A request gets the correlator's session of its own key, or one no other has had.
LEMMA SessionForStep ==
    ASSUME SessionInv, HttpTypeOK, NEW r \in Requests, SessionFor(r)
    PROVE  SessionInv'
<1> DEFINE k == correlation_key_for_request(rq[r])
<1>1. /\ rq[r] \in Request /\ k \in Keys /\ rq[r].pc = "session"
      /\ rq[r].user \in Users /\ rq[r].target \in Targets
      /\ k.user = rq[r].user /\ k.target = rq[r].target
  BY InProgress
     DEF SessionFor, Waiting, Request, SessionInv, NamedInv, Keys, correlation_key_for_request
<1> HIDE DEF k
<1>2. ASSUME NEW s, rq' = [rq EXCEPT ![r].pc = "describe", ![r].sid = s]
      PROVE  /\ Others(r) /\ rq'[r].pc = "describe" /\ rq'[r].sid = s
             /\ rq'[r].user = rq[r].user /\ rq'[r].target = rq[r].target
  BY <1>1, <1>2 DEF HttpTypeOK, Others, Request
<1>3. ASSUME Refuse(r, "500"), UNCHANGED <<registered, handles>> PROVE SessionInv'
  <2>1. Others(r) /\ rq'[r].pc = "done"
    BY <1>3 DEF Refuse, HttpTypeOK, Others
  <2> QED BY <1>1, <1>3, <2>1, UnservedStep DEF Waiting, SessionFor
<1>4. ASSUME handles[k] # 0, UNCHANGED <<registered, handles>>,
             rq' = [rq EXCEPT ![r].pc = "describe", ![r].sid = handles[k]]
      PROVE  SessionInv'
  <2>1. /\ IsServed(r)' /\ rq'[r].pc = "describe" /\ rq'[r].sid = handles[k]
        /\ rq'[r].user = rq[r].user /\ rq'[r].target = rq[r].target
        /\ \A q \in Requests \ {r} : rq'[q] = rq[q] /\ (IsServed(q)' <=> IsServed(q))
        /\ UNCHANGED <<registered, handles, sess>>
    BY <1>2, <1>4 DEF IsServed, Served, Others, SessionFor
  <2>2. NamedInv'
    BY <1>1, <2>1 DEF SessionInv, NamedInv
  <2>3. HeldInv'
    BY <1>1, <1>4, <2>1 DEF SessionInv, HeldInv
  <2>4. FreshInv'
    <3>1. \A p \in Requests : rq'[p].pc \in Waiting \cup {"idle"} =>
            p # r /\ rq[p].pc \in Waiting \cup {"idle"}
      BY <2>1 DEF Waiting
    <3>2. \A p \in Requests : rq[p].pc \in Waiting \cup {"idle"} => rq'[r].sid # p
      BY <1>1, <2>1 DEF SessionInv, FreshInv
    <3> QED BY <2>1, <3>1, <3>2 DEF SessionInv, FreshInv
  <2>5. SharedInv'
    <3>1. \A l \in Keys : handles[l] = rq'[r].sid => l = k
      BY <1>1, <1>4, <2>1 DEF SessionInv, FreshInv
    <3>2. \A q \in Requests \ {r} : IsServed(q) /\ rq[q].sid = rq'[r].sid =>
            rq[q].user = rq[r].user /\ rq[q].target = rq[r].target
      BY <1>1, <2>1 DEF SessionInv, SharedInv
    <3> QED BY <1>1, <2>1, <3>1, <3>2 DEF SessionInv, SharedInv
  <2>6. DescribedInv'
    BY <2>1 DEF SessionInv, DescribedInv
  <2> QED BY <2>2, <2>3, <2>4, <2>5, <2>6 DEF SessionInv
<1>5. ASSUME rq' = [rq EXCEPT ![r].pc = "describe", ![r].sid = r],
             registered' = registered \cup {r},
             handles' \in {handles, [handles EXCEPT ![k] = r]}
      PROVE  SessionInv'
  <2>1. /\ IsServed(r)' /\ rq'[r].pc = "describe" /\ rq'[r].sid = r
        /\ rq'[r].user = rq[r].user /\ rq'[r].target = rq[r].target
        /\ \A q \in Requests \ {r} : rq'[q] = rq[q] /\ (IsServed(q)' <=> IsServed(q))
        /\ sess' = sess
    BY <1>2, <1>5 DEF IsServed, Served, Others, SessionFor
  <2>2. /\ ~IsServed(r) /\ \A l \in Keys : handles[l] # r
        /\ \A q \in Requests : IsServed(q) => rq[q].sid # r
    BY <1>1 DEF SessionInv, FreshInv, Waiting, IsServed, Served
  <2>3. \A l \in Keys : handles'[l] = handles[l] \/ (l = k /\ handles'[l] = r)
    <3>1. CASE handles' = [handles EXCEPT ![k] = r]
      BY <1>1, <3>1 DEF HttpTypeOK
    <3> QED BY <1>5, <3>1
  <2>4. NamedInv'
    BY <1>1, <2>1 DEF SessionInv, NamedInv
  <2>5. HeldInv'
    <3>1. registered \subseteq registered' /\ r \in registered'
      BY <1>5
    <3> QED BY <2>1, <2>3, <3>1 DEF SessionInv, HeldInv
  <2>6. FreshInv'
    BY <1>1, <2>1, <2>2, <2>3 DEF SessionInv, FreshInv, Waiting
  <2>7. SharedInv'
    BY <1>1, <2>1, <2>2, <2>3 DEF SessionInv, SharedInv
  <2>8. DescribedInv'
    BY <2>1 DEF SessionInv, DescribedInv
  <2> QED BY <2>4, <2>5, <2>6, <2>7, <2>8 DEF SessionInv
<1> QED BY <1>3, <1>4, <1>5 DEF SessionFor, k

\* The correlator forgets sessions; those that a request or another key holds stay.
LEMMA VacuumStep ==
    ASSUME SessionInv, HttpTypeOK, Vacuum
    PROVE  SessionInv'
<1>1. PICK old \in SUBSET Keys :
        /\ handles' = [k \in Keys |-> IF k \in old THEN 0 ELSE handles[k]]
        /\ registered' = {s \in registered : HeldByRequest(s, 0) \/ HeldByCorrelator(s, old)}
  BY DEF Vacuum
<1>2. /\ \A q \in Requests : rq'[q] = rq[q] /\ (IsServed(q)' <=> IsServed(q))
      /\ sess' = sess
      /\ \A k \in Keys : handles'[k] = 0 \/ (k \notin old /\ handles'[k] = handles[k])
  <2>1. rq' = rq /\ sess' = sess
    BY DEF Vacuum
  <2>2. \A k \in Keys : handles'[k] = 0 \/ (k \notin old /\ handles'[k] = handles[k])
    BY <1>1
  <2> QED BY <2>1, <2>2 DEF IsServed
<1>3. NamedInv'
  BY <1>2 DEF SessionInv, NamedInv
<1>4. HeldInv'
  <2>1. ASSUME NEW q \in Requests, IsServed(q) PROVE rq[q].sid \in registered'
    <3>1. HeldByRequest(rq[q].sid, 0)
      BY <2>1 DEF HeldByRequest, IsServed, Served, Requests
    <3> QED BY <1>1, <2>1, <3>1 DEF SessionInv, HeldInv
  <2>2. ASSUME NEW k \in Keys, handles'[k] # 0 PROVE handles'[k] \in registered'
    BY <1>1, <1>2, <2>2 DEF SessionInv, HeldInv, HeldByCorrelator
  <2> QED BY <1>2, <2>1, <2>2 DEF HeldInv
<1>5. FreshInv'
  BY <1>2, HttpAssumption DEF SessionInv, FreshInv, Requests
<1>6. SharedInv'
  <2>1. \A q \in Requests : IsServed(q) => rq[q].sid # 0
    BY DEF SessionInv, HeldInv, HttpTypeOK, Requests
  <2> QED BY <1>2, <2>1 DEF SessionInv, SharedInv
<1>7. DescribedInv'
  BY <1>2 DEF SessionInv, DescribedInv
<1> QED BY <1>3, <1>4, <1>5, <1>6, <1>7 DEF SessionInv

\* Every step keeps the inductive invariant.
LEMMA HttpNextInv ==
    ASSUME HttpInv, [HttpNext]_httpVars
    PROVE  HttpInv'
<1>0. HttpTypeOK /\ SessionInv /\ HttpTypeOK'
  BY HttpNextTypeOK DEF HttpInv, SessionInv
<1> SUFFICES SessionInv'
  BY <1>0 DEF HttpInv, SessionInv
<1>1. ASSUME NEW r \in Requests, Arrive(r) PROVE SessionInv'
  <2>1. Others(r) /\ rq[r].pc = "idle" /\ rq'[r].pc = "resolve"
    BY <1>0, <1>1 DEF Arrive, HttpTypeOK, Others
  <2> QED BY <1>0, <1>1, <2>1, UnservedStep DEF Waiting, Arrive
<1>2. ASSUME NEW r \in Requests, NEW how, Refuse(r, how), rq[r].pc \in Waiting \cup {"idle"},
             UNCHANGED <<sess, registered, handles>>
      PROVE  SessionInv'
  <2>1. Others(r) /\ rq'[r].pc = "done"
    BY <1>0, <1>2 DEF Refuse, HttpTypeOK, Others
  <2> QED BY <1>0, <1>2, <2>1, UnservedStep DEF Waiting
<1>3. ASSUME NEW r \in Requests, Preflight(r) PROVE SessionInv'
  BY <1>2, <1>3 DEF Preflight
<1>4. ASSUME NEW r \in Requests, Resolve(r) PROVE SessionInv'
  <2> DEFINE t == NamedTarget(rq[r])
  <2>1. CASE t \notin Targets
    BY <1>2, <1>4, <2>1 DEF Resolve, Waiting
  <2>2. CASE t \in Targets
    <3>1. rq[r] \in Request
      BY <1>0, <1>4, InProgress DEF Resolve, Waiting
    <3>2. Others(r) /\ rq'[r].pc = "authenticate" /\ rq'[r].target \in Targets
      BY <1>0, <1>4, <2>2, <3>1 DEF Resolve, HttpTypeOK, Others, Request
    <3> QED BY <1>0, <1>4, <3>2, UnservedStep DEF Waiting, Resolve
  <2> QED BY <2>1, <2>2
<1>5. ASSUME NEW r \in Requests, Authenticate(r) PROVE SessionInv'
  <2>1. CASE Refuse(r, "401")
    BY <1>2, <1>5, <2>1 DEF Authenticate, Waiting
  <2>2. ASSUME NEW u \in Authenticated(rq[r]),
               rq' = [rq EXCEPT ![r].pc = "authorize", ![r].user = u,
                                ![r].bearer = "none", ![r].query = "none", ![r].cert = "none"]
        PROVE  SessionInv'
    <3>1. rq[r] \in Request
      BY <1>0, <1>5, InProgress DEF Authenticate, Waiting
    <3>2. u \in Users
      BY <1>0 DEF Authenticated, validate_api_token, validate_client_certificate, HttpTypeOK
    <3>3. rq[r].target \in Targets
      BY <1>0, <1>5 DEF Authenticate, SessionInv, NamedInv, Waiting
    <3>4. /\ Others(r) /\ rq'[r].pc = "authorize"
          /\ rq'[r].target = rq[r].target /\ rq'[r].user = u
      BY <1>0, <2>2, <3>1 DEF HttpTypeOK, Others, Request
    <3> QED BY <1>0, <1>5, <3>2, <3>3, <3>4, UnservedStep DEF Waiting, Authenticate
  <2> QED BY <1>5, <2>1, <2>2 DEF Authenticate
<1>6. ASSUME NEW r \in Requests, NEW to \in {"account", "session"},
             rq[r].pc \in {"authorize", "account"}, rq' = [rq EXCEPT ![r].pc = to],
             UNCHANGED <<sess, registered, handles>>
      PROVE  SessionInv'
  <2>1. rq[r] \in Request
    BY <1>0, <1>6, InProgress DEF Waiting
  <2>2. rq[r].target \in Targets /\ rq[r].user \in Users
    BY <1>0, <1>6 DEF SessionInv, NamedInv, Waiting
  <2>3. /\ Others(r) /\ rq'[r].pc = to
        /\ rq'[r].target = rq[r].target /\ rq'[r].user = rq[r].user
    BY <1>0, <1>6, <2>1 DEF HttpTypeOK, Others, Request
  <2> QED BY <1>0, <1>6, <2>2, <2>3, UnservedStep DEF Waiting
<1>7. ASSUME NEW r \in Requests, Authorize(r) PROVE SessionInv'
  BY <1>2, <1>6, <1>7 DEF Authorize, Waiting
<1>8. ASSUME NEW r \in Requests, LoadAccount(r) PROVE SessionInv'
  BY <1>2, <1>6, <1>8 DEF LoadAccount, Waiting
<1>9. ASSUME NEW r \in Requests, SessionFor(r) PROVE SessionInv'
  BY <1>0, <1>9, SessionForStep
<1>10. ASSUME NEW r \in Requests, Describe(r) PROVE SessionInv'
  <2>1. rq[r] \in Request /\ IsServed(r) /\ rq[r].sid \in Requests
    BY <1>0, <1>10, InProgress DEF Describe, Served, IsServed, SessionInv, HeldInv, HttpTypeOK
  <2>2. CASE Finish(r, "500") /\ UNCHANGED sess
    BY <1>0, <1>10, <2>1, <2>2, FinishStep DEF Describe
  <2>3. ASSUME sess' = [sess EXCEPT ![rq[r].sid] =
                          [user |-> rq[r].user, target |-> rq[r].target]],
               rq' = [rq EXCEPT ![r].pc = "send"], UNCHANGED registered
        PROVE  SessionInv'
    <3>1. /\ Others(r) /\ rq'[r].pc \in Served /\ rq'[r].sid = rq[r].sid
          /\ rq'[r].user = rq[r].user /\ rq'[r].target = rq[r].target
      BY <1>0, <2>1, <2>3 DEF HttpTypeOK, Others, Request, Served
    <3>2. /\ sess'[rq[r].sid] = [user |-> rq[r].user, target |-> rq[r].target]
          /\ \A s \in Requests \ {rq[r].sid} : sess'[s] = sess[s]
      BY <1>0, <2>1, <2>3 DEF HttpTypeOK
    <3> QED BY <1>0, <1>10, <2>1, <2>3, <3>1, <3>2, ServedStep DEF HttpTypeOK, Describe
  <2> QED BY <1>10, <2>2, <2>3 DEF Describe
<1>11. ASSUME NEW r \in Requests, rq[r].pc \in {"send", "wait"}, Others(r),
              rq'[r].pc \in {"wait", "touch"}, rq'[r].sid = rq[r].sid,
              rq'[r].user = rq[r].user, rq'[r].target = rq[r].target,
              UNCHANGED <<sess, registered, handles>>
       PROVE  SessionInv'
  <2>1. IsServed(r) /\ sess[rq[r].sid] = [user |-> rq[r].user, target |-> rq[r].target]
    BY <1>0, <1>11 DEF IsServed, Served, SessionInv, DescribedInv
  <2> QED BY <1>0, <1>11, <2>1, ServedStep DEF Served, HttpTypeOK
<1>12. ASSUME NEW r \in Requests, Send(r) PROVE SessionInv'
  <2>1. rq[r] \in Request
    BY <1>0, <1>12, InProgress DEF Send, Served
  <2>2. \/ rq' = [rq EXCEPT ![r].pc = "wait", ![r].sent = Sent(rq[r])]
        \/ rq' = [rq EXCEPT ![r].pc = "touch", ![r].answer = "error"]
    BY <1>12 DEF Send
  <2>3. /\ Others(r) /\ rq'[r].pc \in {"wait", "touch"} /\ rq'[r].sid = rq[r].sid
        /\ rq'[r].user = rq[r].user /\ rq'[r].target = rq[r].target
    BY <1>0, <2>1, <2>2 DEF HttpTypeOK, Others, Request
  <2> QED BY <1>11, <1>12, <2>3 DEF Send
<1>13. ASSUME NEW r \in Requests, UpstreamAnswers(r) PROVE SessionInv'
  <2>1. rq[r] \in Request
    BY <1>0, <1>13, InProgress DEF UpstreamAnswers, Served
  <2>2. ASSUME NEW a, rq' = [rq EXCEPT ![r].pc = "touch", ![r].answer = a]
        PROVE  SessionInv'
    <3>1. /\ Others(r) /\ rq'[r].pc \in {"wait", "touch"} /\ rq'[r].sid = rq[r].sid
          /\ rq'[r].user = rq[r].user /\ rq'[r].target = rq[r].target
      BY <1>0, <2>1, <2>2 DEF HttpTypeOK, Others, Request
    <3> QED BY <1>11, <1>13, <3>1 DEF UpstreamAnswers
  <2> QED BY <1>13, <2>2 DEF UpstreamAnswers
<1>14. ASSUME NEW r \in Requests, Touch(r) PROVE SessionInv'
  BY <1>0, <1>14, FinishStep DEF Touch, IsServed, Served
<1>15. CASE Vacuum
  BY <1>0, <1>15, VacuumStep
<1>16. CASE \/ IssueToken \/ RevokeToken \/ IssueCertificate \/ RevokeCertificate
            \/ RevokeGrant \/ UNCHANGED httpVars
  BY <1>0, <1>16
     DEF IssueToken, RevokeToken, IssueCertificate, RevokeCertificate, RevokeGrant, httpVars,
         SessionInv, NamedInv, HeldInv, FreshInv, SharedInv, DescribedInv, IsServed
<1> QED BY <1>1, <1>3, <1>4, <1>5, <1>7, <1>8, <1>9, <1>10, <1>12, <1>13, <1>14, <1>15, <1>16
    DEF HttpNext

\* A request that is with the upstream runs under a registered session that names its own
\* user and target (session_for_request, and the correlator's vacuum beside it).
THEOREM HttpServedByOwnSession == HttpSpec => []ServedByOwnSession
<1>1. HttpInit => HttpInv
  BY HttpAssumption
     DEF HttpInit, HttpInv, HttpTypeOK, NamedInv, HeldInv, FreshInv, SharedInv, DescribedInv,
         IsServed, Idle, Waiting, Served, Requests, Grants
<1>2. HttpInv /\ [HttpNext]_httpVars => HttpInv'
  BY HttpNextInv
<1>3. HttpInv => ServedByOwnSession
  BY DEF HttpInv, HeldInv, DescribedInv, ServedByOwnSession, IsServed, Served
<1> QED BY <1>1, <1>2, <1>3, PTL DEF HttpSpec

-----------------------------------------------------------------------------
(* The recordings, whoever writes to them. *)

\* Any starts, writes and drops, the writers' tasks and a removal.
RecordingsNext ==
    \/ \E w \in Writers : \/ StartRecording(w) \/ DropWriter(w) \/ LiveRemoved(w)
                          \/ WriterTask(w)
    \/ \E w \in Writers, item \in Nat : WriteItem(w, item)
    \/ StartFails \/ RemoveRecording

RecordingsSpec == RecordingsInit /\ [][RecordingsNext]_recVars

Occurs(i, s) == \E n \in 1..Len(s) : s[n] = i

Places == {"unused", "open", "drain", "flushed", "ended", "gone"}

Linked == BOOLEAN

Writer == [pc : Places, chan : Seq(Nat), buf : Seq(Nat), linked : Linked,
           dropped : {"no", "signal", "seen"}]

RecordingsTypeOK ==
    /\ wr \in [Writers -> Writer]
    /\ file \in Seq(Nat) /\ accepted \subseteq Nat /\ ioFailed \in BOOLEAN
    /\ active_writers \in Nat

Counted == {w \in Writers : wr[w].pc \notin {"unused", "gone"}}

\* The count is that of the tasks that have started and not finished.
CountInv == active_writers = Cardinality(Counted)

\* A writer that was not started is as new.
UnusedInv == \A w \in Writers : wr[w].pc = "unused" => wr[w] = Unused

\* While every write succeeds, a task leaves its loop when nobody can write and the
\* channel is empty, and its buffer is empty after the last flush.
StageInv ==
    ~ioFailed => \A w \in Writers :
      /\ wr[w].pc \in {"drain", "flushed", "ended", "gone"} =>
           wr[w].dropped # "no" /\ wr[w].chan = <<>>
      /\ wr[w].pc \in {"flushed", "ended", "gone"} => wr[w].buf = <<>>

\* And what was taken is in the file or on its way to it.
KeptInv ==
    ~ioFailed => \A i \in accepted :
      \/ Occurs(i, file)
      \/ \E w \in Writers : wr[w].linked /\ (Occurs(i, wr[w].chan) \/ Occurs(i, wr[w].buf))

RecordingsInv == RecordingsTypeOK /\ CountInv /\ UnusedInv /\ StageInv /\ KeptInv

\* What is in a sequence stays in it when an item is appended, which then is in it too.
LEMMA OccursAppend ==
    ASSUME NEW s \in Seq(Nat), NEW x \in Nat, NEW i, Occurs(i, s) \/ i = x
    PROVE  Occurs(i, Append(s, x))
BY DEF Occurs

\* What is in either of two sequences is in their concatenation.
LEMMA OccursConcat ==
    ASSUME NEW s \in Seq(Nat), NEW t \in Seq(Nat), NEW i, Occurs(i, s) \/ Occurs(i, t)
    PROVE  Occurs(i, s \o t)
<1>1. CASE Occurs(i, s)
  BY <1>1 DEF Occurs
<1>2. CASE Occurs(i, t)
  <2>1. PICK n \in 1..Len(t) : t[n] = i
    BY <1>2 DEF Occurs
  <2>2. (s \o t)[Len(s) + n] = i /\ Len(s) + n \in 1..Len(s \o t)
    BY <2>1
  <2> QED BY <2>2 DEF Occurs
<1> QED BY <1>1, <1>2

\* What is in a sequence is its head or in its tail.
LEMMA OccursTail ==
    ASSUME NEW s \in Seq(Nat), s # <<>>, NEW i, Occurs(i, s)
    PROVE  i = Head(s) \/ Occurs(i, Tail(s))
<1>1. PICK n \in 1..Len(s) : s[n] = i
  BY DEF Occurs
<1>2. CASE n = 1
  BY <1>1, <1>2
<1>3. CASE n # 1
  <2>1. n - 1 \in 1..Len(Tail(s)) /\ Tail(s)[n - 1] = i
    BY <1>1, <1>3
  <2> QED BY <2>1 DEF Occurs
<1> QED BY <1>2, <1>3

\* There are finitely many writers.
LEMMA CountedFinite == IsFiniteSet(Counted)
<1>1. IsFiniteSet(Writers)
  BY RecordingsAssumption, FS_Interval DEF Writers
<1>2. Counted \in SUBSET Writers
  BY DEF Counted
<1> QED BY <1>1, <1>2, FS_Subset

\* The steps keep the types.
LEMMA RecordingsNextTypeOK ==
    ASSUME RecordingsTypeOK, CountInv, [RecordingsNext]_recVars
    PROVE  RecordingsTypeOK'
<1> USE RecordingsAssumption DEF RecordingsTypeOK
<1>0. <<>> \in Seq(Nat)
  OBVIOUS
<1>1. ASSUME NEW w \in Writers, StartRecording(w) PROVE RecordingsTypeOK'
  <2>1. [Unused EXCEPT !.pc = "open"] \in Writer
    <3>1. \A e \in Seq(Nat) :
            [[pc |-> "unused", chan |-> e, buf |-> e, linked |-> TRUE, dropped |-> "no"]
               EXCEPT !.pc = "open"] \in Writer
      BY DEF Writer, Places, Linked
    <3> QED BY <1>0, <3>1, Zenon DEF Unused
  <2> QED BY <1>1, <2>1 DEF StartRecording
<1>2. ASSUME NEW w \in Writers, DropWriter(w) PROVE RecordingsTypeOK'
  <2>1. [wr[w] EXCEPT !.dropped = "signal"] \in Writer
    BY DEF Writer
  <2> QED BY <1>2, <2>1 DEF DropWriter
<1>3. ASSUME NEW w \in Writers, LiveRemoved(w) PROVE RecordingsTypeOK'
  <2>1. [wr[w] EXCEPT !.dropped = "seen"] \in Writer
    BY DEF Writer
  <2> QED BY <1>3, <2>1 DEF LiveRemoved
<1>5. ASSUME NEW w \in Writers, NEW place \in Places
      PROVE  [wr[w] EXCEPT !.pc = place] \in Writer
  BY DEF Writer
<1>6. ASSUME NEW w \in Writers
      PROVE  /\ wr[w].chan \in Seq(Nat) /\ wr[w].buf \in Seq(Nat)
             /\ wr[w].chan # <<>> => Head(wr[w].chan) \in Nat /\ Tail(wr[w].chan) \in Seq(Nat)
             /\ file \o wr[w].buf \in Seq(Nat)
  BY DEF Writer
<1>7. ASSUME NEW w \in Writers, Receive(w) PROVE RecordingsTypeOK'
  <2> DEFINE item == Head(wr[w].chan)
  <2>1. item \in Nat /\ Append(wr[w].buf, item) \in Seq(Nat) /\ <<item>> \in Seq(Nat)
    BY <1>6, <1>7 DEF Receive
  <2>2. /\ [wr[w] EXCEPT !.chan = Tail(@), !.buf = Append(@, item)] \in Writer
        /\ [wr[w] EXCEPT !.chan = Tail(@), !.buf = <<item>>] \in Writer
    BY <1>6, <1>7, <2>1 DEF Receive, Writer
  <2>3. file' \in Seq(Nat)
    BY <1>6, <1>7 DEF Receive, ToFile
  <2> QED BY <1>7, <2>2, <2>3 DEF Receive
<1>8. ASSUME NEW w \in Writers, PeriodicFlush(w) PROVE RecordingsTypeOK'
  <2>1. [wr[w] EXCEPT !.buf = <<>>] \in Writer
    <3>1. \A e \in Seq(Nat) : [wr[w] EXCEPT !.buf = e] \in Writer
      BY DEF Writer
    <3> QED BY <1>0, <3>1, Zenon
  <2> QED BY <1>6, <1>8, <2>1 DEF PeriodicFlush, ToFile
<1>9. ASSUME NEW w \in Writers, WriteFails(w) PROVE RecordingsTypeOK'
  BY <1>5, <1>9 DEF WriteFails, Places
<1>10. ASSUME NEW w \in Writers, LoopEnds(w) PROVE RecordingsTypeOK'
  BY <1>5, <1>10 DEF LoopEnds, Places
<1>11. ASSUME NEW w \in Writers, FinalFlush(w) PROVE RecordingsTypeOK'
  <2>1. /\ [wr[w] EXCEPT !.pc = "flushed", !.buf = <<>>] \in Writer
        /\ [wr[w] EXCEPT !.pc = "ended", !.buf = <<>>] \in Writer
    <3>1. \A e \in Seq(Nat) : /\ [wr[w] EXCEPT !.pc = "flushed", !.buf = e] \in Writer
                              /\ [wr[w] EXCEPT !.pc = "ended", !.buf = e] \in Writer
      BY DEF Writer, Places
    <3> QED BY <1>0, <3>1, Zenon
  <2>2. file' \in Seq(Nat)
    BY <1>6, <1>11 DEF FinalFlush, ToFile
  <2> QED BY <1>11, <2>1, <2>2 DEF FinalFlush
<1>12. ASSUME NEW w \in Writers, EndRow(w) PROVE RecordingsTypeOK'
  BY <1>5, <1>12 DEF EndRow, Places
<1>13. ASSUME NEW w \in Writers, Uncount(w) PROVE RecordingsTypeOK'
  <2>1. active_writers' \in Nat
    <3>1. w \in Counted
      BY <1>13 DEF Uncount, Countable, Counted
    <3>2. active_writers # 0
      BY <3>1, CountedFinite, FS_EmptySet DEF CountInv
    <3> QED BY <1>13, <3>2 DEF Uncount
  <2>2. [wr[w] EXCEPT !.pc = "gone", !.chan = <<>>] \in Writer
    <3>1. \A e \in Seq(Nat) : [wr[w] EXCEPT !.pc = "gone", !.chan = e] \in Writer
      BY DEF Writer, Places
    <3> QED BY <1>0, <3>1, Zenon
  <2> QED BY <1>13, <2>1, <2>2 DEF Uncount
<1>14. ASSUME NEW w \in Writers, NEW item \in Nat, WriteItem(w, item) PROVE RecordingsTypeOK'
  <2>1. Append(wr[w].chan, item) \in Seq(Nat)
    BY <1>6
  <2>2. [wr[w] EXCEPT !.chan = Append(@, item)] \in Writer
    <3>1. \A c \in Seq(Nat) : [wr[w] EXCEPT !.chan = c] \in Writer
      BY DEF Writer
    <3> QED BY <2>1, <3>1, Zenon
  <2> QED BY <1>14, <2>2 DEF WriteItem
<1>15. CASE StartFails
  BY <1>15 DEF StartFails
<1>16. CASE RemoveRecording
  <2>1. \A w \in Writers : [wr[w] EXCEPT !.linked = @ /\ wr[w].pc = "unused"] \in Writer
    <3>1. ASSUME NEW w \in Writers, NEW l \in Linked
          PROVE  [wr[w] EXCEPT !.linked = l] \in Writer
      BY DEF Writer
    <3> QED BY <3>1, Zenon DEF Linked
  <2> QED BY <1>16, <2>1 DEF RemoveRecording
<1>17. CASE UNCHANGED recVars
  BY <1>17 DEF recVars
<1> QED BY <1>1, <1>2, <1>3, <1>7, <1>8, <1>9, <1>10, <1>11, <1>12, <1>13, <1>14, <1>15, <1>16,
           <1>17
    DEF RecordingsNext, WriterTask

\* What a step of one writer does to the fields of the writers.
Changes(w, place, c, b, linked, dropped) ==
    /\ \A v \in Writers \ {w} : wr'[v] = wr[v]
    /\ wr'[w].pc = place /\ wr'[w].chan = c /\ wr'[w].buf = b
    /\ wr'[w].linked = linked /\ wr'[w].dropped = dropped

\* A writer at this place, with these fields, is as StageInv says.
Staged(place, c, b, dropped) ==
    /\ place \in {"drain", "flushed", "ended", "gone"} => dropped # "no" /\ c = <<>>
    /\ place \in {"flushed", "ended", "gone"} => b = <<>>

\* What was in the file stays, what writer w had is in the file, in its channel c or in its
\* buffer b afterwards, and what is newly taken is in its channel.
Keeps(w, c, b) ==
    /\ \A i : Occurs(i, file) => Occurs(i, file')
    /\ \A i : wr[w].linked /\ (Occurs(i, wr[w].chan) \/ Occurs(i, wr[w].buf))
              => Occurs(i, file') \/ Occurs(i, c) \/ Occurs(i, b)
    /\ \A i \in accepted' \ accepted : wr[w].linked /\ Occurs(i, c)

\* A step of one writer w whose items stay on their way or reach the file.
LEMMA WriterStep ==
    ASSUME RecordingsInv, NEW w \in Writers,
           NEW place, NEW c, NEW b, NEW dropped,
           Changes(w, place, c, b, wr[w].linked, dropped),
           wr[w].pc \notin {"unused", "gone"}, place # "unused",
           active_writers' = IF place = "gone" THEN active_writers - 1 ELSE active_writers,
           ~ioFailed' => ~ioFailed,
           ~ioFailed' => Staged(place, c, b, dropped) /\ Keeps(w, c, b)
    PROVE  CountInv' /\ UnusedInv' /\ StageInv' /\ KeptInv'
<1> USE DEF RecordingsInv
<1>1. /\ \A v \in Writers \ {w} : wr'[v] = wr[v]
      /\ wr'[w].pc = place /\ wr'[w].chan = c /\ wr'[w].buf = b
      /\ wr'[w].linked = wr[w].linked /\ wr'[w].dropped = dropped
  BY DEF Changes
<1>2. CountInv'
  <2>1. CASE place = "gone"
    <3>1. w \in Counted /\ Counted' = Counted \ {w}
      BY <1>1, <2>1 DEF Counted
    <3> QED BY <2>1, <3>1, CountedFinite, FS_RemoveElement DEF CountInv
  <2>2. CASE place # "gone"
    <3>1. Counted' = Counted
      BY <1>1, <2>2 DEF Counted
    <3> QED BY <2>2, <3>1 DEF CountInv
  <2> QED BY <2>1, <2>2
<1>3. UnusedInv'
  BY <1>1 DEF UnusedInv
<1>4. StageInv'
  BY <1>1 DEF StageInv, Staged
<1>5. KeptInv'
  <2> SUFFICES ASSUME ~ioFailed', NEW i \in accepted'
               PROVE  \/ Occurs(i, file')
                      \/ \E v \in Writers :
                           wr'[v].linked /\ (Occurs(i, wr'[v].chan) \/ Occurs(i, wr'[v].buf))
    BY DEF KeptInv, Occurs
  <2>1. CASE i \notin accepted
    BY <1>1, <2>1 DEF Keeps
  <2>2. CASE Occurs(i, file)
    BY <2>2 DEF Keeps
  <2>3. ASSUME NEW v \in Writers, wr[v].linked, Occurs(i, wr[v].chan) \/ Occurs(i, wr[v].buf)
        PROVE  \/ Occurs(i, file')
               \/ wr'[v].linked /\ (Occurs(i, wr'[v].chan) \/ Occurs(i, wr'[v].buf))
    BY <1>1, <2>3 DEF Keeps
  <2> QED BY <2>1, <2>2, <2>3 DEF KeptInv
<1> QED BY <1>2, <1>3, <1>4, <1>5

\* A recording is started: one more writer, which is empty.
LEMMA StartStep ==
    ASSUME RecordingsInv, NEW w \in Writers, StartRecording(w)
    PROVE  CountInv' /\ UnusedInv' /\ StageInv' /\ KeptInv'
<1> USE DEF RecordingsInv
<1>1. /\ \A v \in Writers \ {w} : wr'[v] = wr[v]
      /\ wr'[w].pc = "open" /\ wr[w].pc = "unused"
      /\ wr[w].chan = <<>> /\ wr[w].buf = <<>>
      /\ UNCHANGED <<file, accepted, ioFailed>>
  BY DEF StartRecording, NextWriter, RecordingsTypeOK, Unused, UnusedInv
<1>2. CountInv'
  <2>1. w \notin Counted /\ Counted' = Counted \cup {w}
    BY <1>1 DEF Counted
  <2> QED BY <2>1, CountedFinite, FS_AddElement DEF CountInv, StartRecording
<1>3. UnusedInv'
  BY <1>1 DEF UnusedInv
<1>4. StageInv'
  BY <1>1 DEF StageInv
<1>5. KeptInv'
  <2>1. \A i : ~Occurs(i, wr[w].chan) /\ ~Occurs(i, wr[w].buf)
    BY <1>1 DEF Occurs
  <2> SUFFICES ASSUME ~ioFailed, NEW i \in accepted
               PROVE  \/ Occurs(i, file)
                      \/ \E v \in Writers :
                           wr'[v].linked /\ (Occurs(i, wr'[v].chan) \/ Occurs(i, wr'[v].buf))
    BY <1>1 DEF KeptInv, Occurs
  <2> QED BY <1>1, <2>1 DEF KeptInv
<1> QED BY <1>2, <1>3, <1>4, <1>5

\* Every step of a recording keeps the inductive invariant.
LEMMA RecordingsNextInv ==
    ASSUME RecordingsInv, [RecordingsNext]_recVars
    PROVE  RecordingsInv'
<1> USE DEF RecordingsInv
<1> DEFINE Rest == CountInv' /\ UnusedInv' /\ StageInv' /\ KeptInv'
<1>0. RecordingsTypeOK'
  BY RecordingsNextTypeOK
<1>1. ASSUME NEW w \in Writers, StartRecording(w) PROVE Rest
  BY <1>1, StartStep
<1>2. ASSUME NEW w \in Writers, NEW d \in {"signal", "seen"}, wr[w].pc # "unused",
             wr' = [wr EXCEPT ![w].dropped = d],
             UNCHANGED <<file, active_writers, accepted, ioFailed>>
      PROVE  Rest
  <2>1. /\ \A v \in Writers : wr'[v].pc = wr[v].pc /\ wr'[v].chan = wr[v].chan
             /\ wr'[v].buf = wr[v].buf /\ wr'[v].linked = wr[v].linked
             /\ wr'[v].dropped = (IF v = w THEN d ELSE wr[v].dropped)
             /\ (v # w => wr'[v] = wr[v])
    BY <1>2 DEF RecordingsTypeOK, Writer
  <2>2. Counted' = Counted
    BY <2>1 DEF Counted
  <2>3. CountInv' /\ UnusedInv' /\ StageInv'
    BY <1>2, <2>1, <2>2 DEF CountInv, UnusedInv, StageInv
  <2>4. KeptInv'
    BY <1>2, <2>1 DEF KeptInv, Occurs
  <2> QED BY <2>3, <2>4
<1>3. ASSUME NEW w \in Writers, DropWriter(w) PROVE Rest
  BY <1>2, <1>3 DEF DropWriter, Held
<1>4. ASSUME NEW w \in Writers, LiveRemoved(w) PROVE Rest
  <2>1. wr[w].pc # "unused"
    BY <1>4 DEF LiveRemoved, UnusedInv, Unused
  <2> QED BY <1>2, <1>4, <2>1 DEF LiveRemoved
<1>5. ASSUME NEW w \in Writers
      PROVE  /\ wr[w] \in Writer /\ wr[w].chan \in Seq(Nat) /\ wr[w].buf \in Seq(Nat)
             /\ file \in Seq(Nat)
  BY DEF RecordingsTypeOK, Writer
<1>6. ASSUME NEW w \in Writers, Receive(w) PROVE Rest
  <2> DEFINE item == Head(wr[w].chan)
             c == Tail(wr[w].chan)
             d == wr[w].dropped
  <2>1. /\ item \in Nat /\ c \in Seq(Nat) /\ wr[w].chan # <<>> /\ wr[w].pc = "open"
        /\ <<item>> \in Seq(Nat)
    BY <1>5, <1>6 DEF Receive
  <2>2. \A i : Occurs(i, wr[w].chan) => i = item \/ Occurs(i, c)
    BY <1>5, <2>1, OccursTail
  <2>3. Occurs(item, <<item>>)
    BY <2>1 DEF Occurs
  <2> HIDE DEF item, c, d
  <2>4. ASSUME wr' = [wr EXCEPT ![w].chan = c, ![w].buf = Append(@, item)], UNCHANGED file
        PROVE  Rest
    <3>1. Changes(w, "open", c, Append(wr[w].buf, item), wr[w].linked, d)
      BY <1>5, <2>1, <2>4 DEF RecordingsTypeOK, Writer, Changes, d
    <3>2. \A i : Occurs(i, wr[w].buf) \/ i = item => Occurs(i, Append(wr[w].buf, item))
      BY <1>5, <2>1, OccursAppend
    <3>3. UNCHANGED <<file, active_writers, accepted, ioFailed>>
      BY <1>6, <2>4 DEF Receive
    <3>4. /\ Staged("open", c, Append(wr[w].buf, item), d)
          /\ Keeps(w, c, Append(wr[w].buf, item))
      BY <2>2, <3>2, <3>3 DEF Staged, Keeps
    <3> QED BY <2>1, <3>1, <3>3, <3>4, WriterStep
  <2>5. ASSUME wr' = [wr EXCEPT ![w].chan = c, ![w].buf = <<item>>], ToFile(w, wr[w].buf)
        PROVE  Rest
    <3>1. Changes(w, "open", c, <<item>>, wr[w].linked, d)
      BY <1>5, <2>1, <2>5 DEF RecordingsTypeOK, Writer, Changes, d
    <3>2. /\ \A i : Occurs(i, file) => Occurs(i, file')
          /\ \A i : wr[w].linked /\ Occurs(i, wr[w].buf) => Occurs(i, file')
      BY <1>5, <2>5, OccursConcat DEF ToFile
    <3>3. UNCHANGED <<active_writers, accepted, ioFailed>>
      BY <1>6 DEF Receive
    <3>4. Staged("open", c, <<item>>, d) /\ Keeps(w, c, <<item>>)
      BY <2>2, <2>3, <3>2, <3>3 DEF Staged, Keeps
    <3> QED BY <2>1, <3>1, <3>3, <3>4, WriterStep
  <2> QED BY <1>6, <2>4, <2>5 DEF Receive, item, c
<1>7. ASSUME NEW w \in Writers, PeriodicFlush(w) PROVE Rest
  <2>1. Changes(w, "open", wr[w].chan, <<>>, wr[w].linked, wr[w].dropped)
    BY <1>5, <1>7 DEF PeriodicFlush, RecordingsTypeOK, Writer, Changes
  <2>2. /\ \A i : Occurs(i, file) => Occurs(i, file')
        /\ \A i : wr[w].linked /\ Occurs(i, wr[w].buf) => Occurs(i, file')
    BY <1>5, <1>7, OccursConcat DEF ToFile, PeriodicFlush
  <2>3. wr[w].pc = "open" /\ UNCHANGED <<active_writers, accepted, ioFailed>>
    BY <1>7 DEF PeriodicFlush
  <2>4. Staged("open", wr[w].chan, <<>>, wr[w].dropped) /\ Keeps(w, wr[w].chan, <<>>)
    BY <2>2, <2>3 DEF Staged, Keeps
  <2> QED BY <2>1, <2>3, <2>4, WriterStep
<1>8. ASSUME NEW w \in Writers, WriteFails(w) PROVE Rest
  <2>1. Changes(w, "drain", wr[w].chan, wr[w].buf, wr[w].linked, wr[w].dropped)
    BY <1>5, <1>8 DEF WriteFails, RecordingsTypeOK, Writer, Changes
  <2>2. ioFailed' /\ wr[w].pc = "open" /\ active_writers' = active_writers
    BY <1>8 DEF WriteFails
  <2> QED BY <2>1, <2>2, WriterStep
<1>9. ASSUME NEW w \in Writers, LoopEnds(w) PROVE Rest
  <2>1. Changes(w, "drain", wr[w].chan, wr[w].buf, wr[w].linked, wr[w].dropped)
    BY <1>5, <1>9 DEF LoopEnds, RecordingsTypeOK, Writer, Changes
  <2>2. wr[w].dropped # "no" /\ wr[w].chan = <<>>
    BY <1>9 DEF LoopEnds, ChannelClosed, Held
  <2>3. wr[w].pc = "open" /\ UNCHANGED <<file, active_writers, accepted>>
    BY <1>9 DEF LoopEnds
  <2>4. ~ioFailed' => ~ioFailed
    BY <1>9, Zenon DEF LoopEnds
  <2>5. Staged("drain", wr[w].chan, wr[w].buf, wr[w].dropped) /\ Keeps(w, wr[w].chan, wr[w].buf)
    BY <2>2, <2>3 DEF Staged, Keeps
  <2> QED BY <2>1, <2>3, <2>4, <2>5, WriterStep
<1>10. ASSUME NEW w \in Writers, FinalFlush(w) PROVE Rest
  <2>1. ~ioFailed => wr[w].dropped # "no" /\ wr[w].chan = <<>>
    BY <1>10 DEF FinalFlush, StageInv
  <2>2. ASSUME ToFile(w, wr[w].buf), UNCHANGED ioFailed,
               wr' = [wr EXCEPT ![w].pc = "flushed", ![w].buf = <<>>]
        PROVE  Rest
    <3>1. Changes(w, "flushed", wr[w].chan, <<>>, wr[w].linked, wr[w].dropped)
      BY <1>5, <2>2 DEF RecordingsTypeOK, Writer, Changes
    <3>2. /\ \A i : Occurs(i, file) => Occurs(i, file')
          /\ \A i : wr[w].linked /\ Occurs(i, wr[w].buf) => Occurs(i, file')
      BY <1>5, <2>2, OccursConcat DEF ToFile
    <3>3. wr[w].pc = "drain" /\ UNCHANGED <<active_writers, accepted>>
      BY <1>10, <2>2 DEF FinalFlush
    <3>4. ~ioFailed' => ~ioFailed
      BY <2>2, Zenon
    <3>5. ~ioFailed => \A i : ~Occurs(i, wr[w].chan)
      BY <2>1 DEF Occurs
    <3>6. ~ioFailed => /\ Staged("flushed", wr[w].chan, <<>>, wr[w].dropped)
                       /\ Keeps(w, wr[w].chan, <<>>)
      BY <2>1, <3>2, <3>3, <3>5 DEF Staged, Keeps
    <3>7. "flushed" \notin {"unused", "gone"} /\ wr[w].pc \notin {"unused", "gone"}
      BY <3>3
    <3> QED BY <3>1, <3>3, <3>4, <3>6, <3>7, WriterStep
  <2>3. ASSUME ioFailed' = TRUE, wr' = [wr EXCEPT ![w].pc = "ended", ![w].buf = <<>>]
        PROVE  Rest
    <3>1. Changes(w, "ended", wr[w].chan, <<>>, wr[w].linked, wr[w].dropped)
      BY <1>5, <2>3 DEF RecordingsTypeOK, Writer, Changes
    <3>2. wr[w].pc = "drain" /\ active_writers' = active_writers
      BY <1>10 DEF FinalFlush
    <3>3. ioFailed'
      BY <2>3
    <3>4. "ended" \notin {"unused", "gone"} /\ wr[w].pc \notin {"unused", "gone"}
      BY <3>2
    <3> QED BY <3>1, <3>2, <3>3, <3>4, WriterStep, Zenon
  <2> QED BY <1>10, <2>2, <2>3 DEF FinalFlush
<1>11. ASSUME NEW w \in Writers, EndRow(w) PROVE Rest
  <2>1. Changes(w, "ended", wr[w].chan, wr[w].buf, wr[w].linked, wr[w].dropped)
    BY <1>5, <1>11 DEF EndRow, RecordingsTypeOK, Writer, Changes
  <2>2. ~ioFailed => wr[w].dropped # "no" /\ wr[w].chan = <<>> /\ wr[w].buf = <<>>
    BY <1>11 DEF EndRow, StageInv
  <2>3. wr[w].pc = "flushed" /\ UNCHANGED <<file, active_writers, accepted>>
    BY <1>11 DEF EndRow
  <2>4. ~ioFailed' => ~ioFailed
    BY <1>11, Zenon DEF EndRow
  <2>5. ~ioFailed => /\ Staged("ended", wr[w].chan, wr[w].buf, wr[w].dropped)
                     /\ Keeps(w, wr[w].chan, wr[w].buf)
    BY <2>2, <2>3 DEF Staged, Keeps
  <2> QED BY <2>1, <2>3, <2>4, <2>5, WriterStep
<1>12. ASSUME NEW w \in Writers, Uncount(w) PROVE Rest
  <2>1. Changes(w, "gone", <<>>, wr[w].buf, wr[w].linked, wr[w].dropped)
    BY <1>5, <1>12 DEF Uncount, RecordingsTypeOK, Writer, Changes
  <2>2. ~ioFailed => wr[w].dropped # "no" /\ wr[w].chan = <<>> /\ wr[w].buf = <<>>
    BY <1>12 DEF Uncount, Countable, StageInv
  <2>3. /\ wr[w].pc = "ended" /\ active_writers' = active_writers - 1
        /\ UNCHANGED <<file, accepted, ioFailed>>
    BY <1>12 DEF Uncount, Countable
  <2>4. ~ioFailed => Staged("gone", <<>>, wr[w].buf, wr[w].dropped) /\ Keeps(w, <<>>, wr[w].buf)
    BY <2>2, <2>3 DEF Staged, Keeps
  <2> QED BY <2>1, <2>3, <2>4, WriterStep
<1>13. ASSUME NEW w \in Writers, NEW item \in Nat, WriteItem(w, item) PROVE Rest
  <2>1. CASE wr[w].pc = "gone"
    BY <1>13, <2>1
       DEF WriteItem, CountInv, Counted, UnusedInv, StageInv, KeptInv, Occurs
  <2>2. CASE wr[w].pc # "gone"
    <3>1. Changes(w, wr[w].pc, Append(wr[w].chan, item), wr[w].buf, wr[w].linked, wr[w].dropped)
      BY <1>5, <1>13, <2>2 DEF WriteItem, RecordingsTypeOK, Writer, Changes
    <3>2. /\ wr[w].pc # "unused" /\ wr[w].dropped = "no"
      BY <1>13 DEF WriteItem, CanWrite, Held
    <3>3. ~ioFailed => wr[w].pc \notin {"drain", "flushed", "ended", "gone"}
      BY <3>2 DEF StageInv
    <3>4. \A i : Occurs(i, wr[w].chan) \/ i = item => Occurs(i, Append(wr[w].chan, item))
      BY <1>5, OccursAppend
    <3>5. \A i \in accepted' \ accepted : wr[w].linked /\ i = item
      BY <1>13, <2>2 DEF WriteItem
    <3>6. UNCHANGED <<file, active_writers, ioFailed>>
      BY <1>13 DEF WriteItem
    <3>7. ~ioFailed => /\ Staged(wr[w].pc, Append(wr[w].chan, item), wr[w].buf, wr[w].dropped)
                       /\ Keeps(w, Append(wr[w].chan, item), wr[w].buf)
      BY <3>3, <3>4, <3>5, <3>6 DEF Staged, Keeps
    <3> QED BY <2>2, <3>1, <3>2, <3>6, <3>7, WriterStep
  <2> QED BY <2>1, <2>2
<1>14. ASSUME UNCHANGED <<wr, file, active_writers, accepted, ioFailed>> PROVE Rest
  <2>1. CountInv' /\ UnusedInv'
    BY <1>14 DEF CountInv, Counted, UnusedInv
  <2>2. StageInv'
    BY <1>14 DEF StageInv
  <2>3. KeptInv'
    BY <1>14 DEF KeptInv, Occurs
  <2> QED BY <2>1, <2>2, <2>3
<1>15. CASE StartFails \/ UNCHANGED recVars
  BY <1>0, <1>14, <1>15, Zenon DEF StartFails, recVars
<1>16. CASE RemoveRecording
  <2>1. \A v \in Writers : /\ wr'[v].pc = wr[v].pc /\ wr'[v].chan = wr[v].chan
                           /\ wr'[v].buf = wr[v].buf /\ wr'[v].dropped = wr[v].dropped
    BY <1>16, <1>5 DEF RemoveRecording, Writer
  <2>2. Counted' = Counted
    BY <2>1 DEF Counted
  <2>3. UnusedInv'
    <3> SUFFICES ASSUME NEW v \in Writers, wr[v].pc = "unused" PROVE wr'[v] = Unused
      BY <2>1 DEF UnusedInv
    <3>1. wr[v] = Unused
      BY DEF UnusedInv
    <3>2. wr'[v] = [Unused EXCEPT !.linked = Unused.linked /\ Unused.pc = "unused"]
      BY <1>16, <3>1, Zenon DEF RemoveRecording
    <3> QED BY <3>2 DEF Unused
  <2>4. accepted' = {} /\ ioFailed' = ioFailed /\ active_writers' = active_writers
    BY <1>16 DEF RemoveRecording
  <2>5. CountInv' /\ KeptInv'
    BY <2>2, <2>4 DEF CountInv, KeptInv
  <2>6. StageInv'
    BY <2>1, <2>4 DEF StageInv
  <2> QED BY <1>0, <2>3, <2>5, <2>6
<1> QED BY <1>0, <1>1, <1>3, <1>4, <1>6, <1>7, <1>8, <1>9, <1>10, <1>11, <1>12, <1>13, <1>14,
           <1>15, <1>16
    DEF RecordingsNext, WriterTask

\* A recording that was not started is as the inductive invariant says.
LEMMA RecordingsStart == ASSUME RecordingsInit PROVE RecordingsInv
<1>1. \A w \in Writers : wr[w] = Unused /\ wr[w].pc = "unused"
  BY DEF RecordingsInit, Unused
<1>2. RecordingsTypeOK
  <2>1. \A e \in Seq(Nat) :
          [pc |-> "unused", chan |-> e, buf |-> e, linked |-> TRUE, dropped |-> "no"] \in Writer
    BY DEF Writer, Places, Linked
  <2>2. <<>> \in Seq(Nat)
    OBVIOUS
  <2>3. Unused \in Writer
    BY <2>1, <2>2, Zenon DEF Unused
  <2> QED BY <2>2, <2>3 DEF RecordingsInit, RecordingsTypeOK
<1>3. Counted = {}
  BY <1>1 DEF Counted
<1> QED BY <1>1, <1>2, <1>3, FS_EmptySet
        DEF RecordingsInit, RecordingsInv, CountInv, UnusedInv, StageInv, KeptInv

\* Every behaviour of the recordings keeps the inductive invariant.
THEOREM RecordingsKeepInv == RecordingsSpec => []RecordingsInv
<1>1. RecordingsInit => RecordingsInv
  BY RecordingsStart
<1>2. RecordingsInv /\ [RecordingsNext]_recVars => RecordingsInv'
  BY RecordingsNextInv
<1> QED BY <1>1, <1>2, PTL DEF RecordingsSpec

\* When the count is zero no writer is under way.
LEMMA CountedOut == ASSUME RecordingsInv PROVE DrainedIsOnDisk
<1> SUFFICES ASSUME active_writers = 0, ~ioFailed, NEW i \in accepted
             PROVE  Occurs(i, file)
  BY DEF DrainedIsOnDisk, Occurs
<1>1. Counted = {}
  BY CountedFinite, FS_EmptySet DEF RecordingsInv, CountInv
<1>2. \A w \in Writers : wr[w].chan = <<>> /\ wr[w].buf = <<>>
  BY <1>1 DEF Counted, RecordingsInv, StageInv, UnusedInv, Unused
<1>3. \A w \in Writers : ~Occurs(i, wr[w].chan) /\ ~Occurs(i, wr[w].buf)
  BY <1>2 DEF Occurs
<1> QED BY <1>3 DEF RecordingsInv, KeptInv

-----------------------------------------------------------------------------
(* The websocket of an exec, and the recording it writes. *)

\* The messages are numbers, and the two pumps are where they can be.
ExecTypeOK ==
    /\ execPc \in {"none", "upgrade", "answered"} /\ recorder \in {"off", "on", "end"}
    /\ toRecorder \in Seq(Nat) /\ relayed \subseteq Nat
    /\ pump \in [Pumps -> [pc : {"read", "record", "send", "end"}, msg : Nat]]
    /\ msgs \in Seq({"stdin", "text", "stdout", "stderr"})

\* The recorder runs as long as a pump does, and holds the first writer until it ends.
RunInv ==
    /\ execPc = "none" => recorder = "off"
    /\ execPc \in {"none", "upgrade"} =>
         relayed = {} /\ recorder # "end" /\ \A p \in Pumps : pump[p].pc = "end"
    /\ \A p \in Pumps : pump[p].pc # "end" => recorder # "end"
    /\ recorder = "off" => \A w \in Writers : wr[w].pc = "unused"
    /\ recorder # "off" => 1 \in Writers /\ wr[1].pc # "unused"
    /\ recorder = "on" => wr[1].dropped = "no"

\* Only messages that were sent are relayed.
SentInv ==
    /\ relayed \subseteq 1..Len(msgs)
    /\ \A p \in Pumps : pump[p].pc \in {"record", "send"} => pump[p].msg \in 1..Len(msgs)

\* What was relayed, and what a pump is about to relay, was taken or waits for the recorder.
PassInv ==
    recorder # "off" /\ ~ioFailed /\ wr[1].linked =>
      \A m \in 1..Len(msgs) :
        Recorded(m) /\ (m \in relayed \/ \E p \in Pumps : pump[p].pc = "send" /\ pump[p].msg = m)
          => m \in accepted \/ Occurs(m, toRecorder)

ExecInv == RecordingsInv /\ ExecTypeOK /\ RunInv /\ SentInv /\ PassInv

\* What no step takes back from a writer that was started, except that its recording is
\* removed.
Frame ==
    /\ \A w \in Writers : wr[w].pc # "unused" => wr'[w].pc # "unused"
    /\ 1 \in Writers /\ wr[1].dropped = "no" => wr'[1].dropped = "no"
    /\ 1 \in Writers /\ wr[1].pc # "unused" /\ wr'[1].linked =>
         wr[1].linked /\ accepted \subseteq accepted'
    /\ ~ioFailed' => ~ioFailed

\* Only a start gets a writer out of its unused state.
Unstarted == \A w \in Writers : wr[w].pc = "unused" => wr'[w].pc = "unused"

\* The task of a writer keeps what was started, and drops nothing.
LEMMA WriterTaskFrame ==
    ASSUME RecordingsInv, NEW w \in Writers, WriterTask(w) \/ LiveRemoved(w)
    PROVE  Frame /\ Unstarted /\ accepted' = accepted
<1>1. wr[w] \in Writer /\ wr[w].pc # "unused" /\ accepted' = accepted
  BY DEF WriterTask, Receive, PeriodicFlush, WriteFails, LoopEnds, FinalFlush, EndRow, Uncount,
         LiveRemoved, Countable, RecordingsInv, RecordingsTypeOK, UnusedInv, Unused
<1>2. /\ \A v \in Writers \ {w} : wr'[v] = wr[v]
      /\ wr'[w].pc # "unused" /\ wr'[w].linked = wr[w].linked
      /\ wr'[w].dropped \in {wr[w].dropped, "seen"}
      /\ wr[w].dropped = "no" => wr'[w].dropped = "no"
  BY <1>1
     DEF WriterTask, Receive, PeriodicFlush, WriteFails, LoopEnds, FinalFlush, EndRow, Uncount,
         LiveRemoved, RecordingsInv, RecordingsTypeOK, Writer
<1>3. ~ioFailed' => ~ioFailed
  BY DEF WriterTask, Receive, PeriodicFlush, WriteFails, LoopEnds, FinalFlush, EndRow, Uncount,
         LiveRemoved
<1> QED BY <1>1, <1>2, <1>3 DEF Frame, Unstarted

\* After a removal the recording of a started writer is linked no more.
LEMMA RemoveFrame ==
    ASSUME RecordingsInv, RemoveRecording
    PROVE  Frame /\ Unstarted
<1>1. \A w \in Writers : wr'[w].pc = wr[w].pc /\ wr'[w].dropped = wr[w].dropped
  BY DEF RemoveRecording, RecordingsInv, RecordingsTypeOK, Writer
<1>2. \A w \in Writers : wr[w].pc # "unused" => ~wr'[w].linked
  BY DEF RemoveRecording, RecordingsInv, RecordingsTypeOK, Writer
<1>3. ~ioFailed' => ~ioFailed
  BY DEF RemoveRecording
<1> QED BY <1>1, <1>2, <1>3 DEF Frame, Unstarted

\* Another writer of the same recording leaves the first as it is.
LEMMA OtherFrame ==
    ASSUME RecordingsInv, NEW w \in Writers, w # 1,
           \/ StartRecording(w) \/ DropWriter(w) \/ \E item \in Nat : WriteItem(w, item)
    PROVE  Frame
<1>1. \A v \in Writers \ {w} : wr'[v] = wr[v]
  BY DEF StartRecording, DropWriter, WriteItem, RecordingsInv, RecordingsTypeOK
<1>2. wr[w].pc # "unused" => wr'[w].pc # "unused"
  BY DEF StartRecording, NextWriter, DropWriter, WriteItem, RecordingsInv, RecordingsTypeOK, Writer
<1>3. accepted \subseteq accepted' /\ (~ioFailed' => ~ioFailed)
  BY DEF StartRecording, DropWriter, WriteItem
<1> QED BY <1>1, <1>2, <1>3 DEF Frame

\* A step of the recording alone keeps what relates it to the pumps.
LEMMA FrameStep ==
    ASSUME ExecInv, Frame, Unstarted \/ recorder # "off",
           UNCHANGED <<execPc, recorder, toRecorder, pump, relayed, msgs>>
    PROVE  ExecTypeOK' /\ RunInv' /\ SentInv' /\ PassInv'
<1> USE DEF ExecInv
<1>1. ExecTypeOK' /\ SentInv'
  BY DEF ExecTypeOK, SentInv
<1>2. RunInv'
  BY DEF RunInv, Frame, Unstarted
<1>3. PassInv'
  <2>1. recorder # "off" /\ ~ioFailed' /\ wr'[1].linked =>
          ~ioFailed /\ wr[1].linked /\ accepted \subseteq accepted'
    BY DEF RunInv, Frame
  <2> QED BY <2>1 DEF PassInv, Recorded, Occurs
<1> QED BY <1>1, <1>2, <1>3

\* A step of the pumps that relays nothing new and takes nothing from the recorder.
LEMMA PumpStep ==
    ASSUME ExecInv, UNCHANGED <<recVars, execPc, recorder>>, execPc = "answered",
           ExecTypeOK', SentInv',
           \A p \in Pumps : pump'[p].pc # "end" => recorder # "end",
           Len(msgs') >= Len(msgs), \A m \in 1..Len(msgs) : msgs'[m] = msgs[m],
           \A m \in 1..Len(msgs) : Occurs(m, toRecorder) => Occurs(m, toRecorder'),
           \A m \in relayed' : m \in relayed \/ \E p \in Pumps : pump[p].pc = "send" /\ pump[p].msg = m,
           \A p \in Pumps : pump'[p].pc = "send" =>
             /\ pump'[p].msg \in 1..Len(msgs)
             /\ \/ pump[p].pc = "send" /\ pump[p].msg = pump'[p].msg
                \/ recorder = "on" /\ Recorded(pump'[p].msg) => Occurs(pump'[p].msg, toRecorder')
    PROVE  RecordingsInv' /\ RunInv' /\ PassInv'
<1> USE DEF ExecInv
<1>1. RecordingsInv'
  BY DEF RecordingsInv, RecordingsTypeOK, CountInv, Counted, UnusedInv, StageInv, KeptInv, Occurs,
         recVars
<1>2. RunInv'
  BY DEF RunInv, recVars
<1>3. PassInv'
  <2> SUFFICES ASSUME recorder # "off", ~ioFailed, wr[1].linked, NEW m \in 1..Len(msgs'),
                      msgs'[m] \in {"stdin", "stdout"},
                      m \in relayed' \/ \E p \in Pumps : pump'[p].pc = "send" /\ pump'[p].msg = m
               PROVE  m \in accepted \/ Occurs(m, toRecorder')
    BY DEF PassInv, Recorded, recVars, Occurs
  <2>1. m \in 1..Len(msgs)
    BY DEF SentInv, ExecTypeOK
  <2>2. Recorded(m)
    BY <2>1 DEF Recorded
  <2>3. CASE m \in relayed \/ \E p \in Pumps : pump[p].pc = "send" /\ pump[p].msg = m
    BY <2>1, <2>2, <2>3 DEF PassInv
  <2>4. ASSUME NEW p \in Pumps, pump'[p].pc = "send", pump'[p].msg = m,
               recorder = "on" /\ Recorded(m) => Occurs(m, toRecorder')
        PROVE  Occurs(m, toRecorder')
    BY <2>2, <2>4 DEF ExecTypeOK
  <2> QED BY <2>3, <2>4
<1> QED BY <1>1, <1>2, <1>3

\* Every step of an exec is a step of the recording, or leaves it alone.
LEMMA ExecStepRecords ==
    ASSUME ExecInv, [ExecNext]_execVars
    PROVE  [RecordingsNext]_recVars
<1> USE DEF ExecInv
<1>1. CASE HandleWebsocket
  BY <1>1 DEF HandleWebsocket, RecordingsNext
<1>2. CASE Upgrade \/ \E p \in Pumps : PumpReads(p) \/ PumpRecords(p) \/ PumpSends(p) \/ PumpEnds(p)
  BY <1>2 DEF Upgrade, PumpReads, PumpRecords, SendToRecorder, PumpSends, PumpEnds
<1>3. CASE RecorderWrites
  <2>1. 1 \in Writers /\ Head(toRecorder) \in Nat
    BY <1>3 DEF RecorderWrites, RunInv, ExecTypeOK
  <2> QED BY <1>3, <2>1 DEF RecorderWrites, RecordingsNext
<1>4. CASE RecorderEnds
  BY <1>4 DEF RecorderEnds, RunInv, RecordingsNext
<1>5. ASSUME NEW w \in Writers, OtherWriter(w) PROVE RecordingsNext
  <2>1. MAX_MSGS + w \in Nat
    BY KubeExecAssumption, RecordingsAssumption DEF Writers
  <2> QED BY <1>5, <2>1 DEF OtherWriter, RecordingsNext
<1>6. CASE Background
  BY <1>6 DEF Background, RecordingsNext
<1>7. CASE UNCHANGED execVars
  BY <1>7 DEF execVars
<1> QED BY <1>1, <1>2, <1>3, <1>4, <1>5, <1>6, <1>7 DEF ExecNext

\* Every step of an exec keeps the inductive invariant.
LEMMA ExecNextInv ==
    ASSUME ExecInv, [ExecNext]_execVars
    PROVE  ExecInv'
<1> USE DEF ExecInv
<1>0. RecordingsInv'
  BY ExecStepRecords, RecordingsNextInv
<1> DEFINE Rest == ExecTypeOK' /\ RunInv' /\ SentInv' /\ PassInv'
<1>1. CASE HandleWebsocket
  <2>1. /\ execPc = "none" /\ execPc' = "upgrade" /\ recorder = "off" /\ relayed = {}
        /\ UNCHANGED <<toRecorder, pump, relayed, msgs>>
        /\ \A p \in Pumps : pump[p].pc = "end"
        /\ \A w \in Writers : wr[w].pc = "unused"
    BY <1>1 DEF HandleWebsocket, RunInv
  <2>2. ASSUME recorder' = "off", UNCHANGED wr PROVE Rest
    BY <2>1, <2>2 DEF ExecTypeOK, RunInv, SentInv, PassInv
  <2>3. ASSUME recorder' = "on", NEW w \in Writers, StartRecording(w) PROVE Rest
    <3>1. w = 1
      BY <2>1, <2>3, RecordingsAssumption DEF StartRecording, NextWriter, Writers
    <3>2. wr'[1].pc = "open" /\ wr'[1].dropped = "no"
      BY <2>3, <3>1 DEF StartRecording, RecordingsInv, RecordingsTypeOK, Unused
    <3>3. ExecTypeOK' /\ RunInv' /\ SentInv'
      BY <2>1, <2>3, <3>1, <3>2 DEF ExecTypeOK, RunInv, SentInv
    <3>4. PassInv'
      BY <2>1 DEF PassInv
    <3> QED BY <3>3, <3>4
  <2> QED BY <1>0, <1>1, <2>2, <2>3 DEF HandleWebsocket, recVars, StartFails
<1>2. CASE Upgrade
  <2>1. /\ execPc = "upgrade" /\ execPc' = "answered" /\ recorder # "end" /\ relayed = {}
        /\ UNCHANGED <<recVars, recorder, toRecorder, relayed, msgs>>
        /\ \A p \in Pumps : pump[p].pc = "end" /\ pump'[p].pc \in {"read", "end"}
    BY <1>2 DEF Upgrade, RunInv
  <2>2. ExecTypeOK'
    BY <1>2 DEF Upgrade, ExecTypeOK
  <2>3. RunInv' /\ SentInv' /\ PassInv'
    BY <2>1 DEF RunInv, SentInv, PassInv, recVars
  <2> QED BY <1>0, <2>2, <2>3
<1>3. \A p \in Pumps : pump[p].pc # "end" => execPc = "answered" /\ recorder # "end"
  BY DEF RunInv, ExecTypeOK
<1>4. ASSUME NEW p \in Pumps, PumpReads(p) PROVE Rest
  <2>1. PICK k \in {"stdin", "text", "stdout", "stderr"} : msgs' = Append(msgs, k)
    <3>1. Kinds["up"] = {"stdin", "text"} /\ Kinds["down"] = {"stdout", "stderr"}
      BY DEF Kinds
    <3>2. Kinds[p] \subseteq {"stdin", "text", "stdout", "stderr"}
      BY <3>1 DEF Pumps
    <3>3. PICK k \in Kinds[p] : msgs' = Append(msgs, k)
      BY <1>4 DEF PumpReads
    <3> QED BY <3>2, <3>3
  <2>2. /\ Len(msgs') = Len(msgs) + 1 /\ Len(msgs) \in Nat
        /\ \A m \in 1..Len(msgs) : msgs'[m] = msgs[m]
        /\ msgs' \in Seq({"stdin", "text", "stdout", "stderr"})
    BY <2>1 DEF ExecTypeOK
  <2>3. /\ \A q \in Pumps \ {p} : pump'[q] = pump[q]
        /\ pump'[p].pc = "record" /\ pump'[p].msg = Len(msgs) + 1
        /\ pump' \in [Pumps -> [pc : {"read", "record", "send", "end"}, msg : Nat]]
    BY <1>4, <2>2 DEF PumpReads, ExecTypeOK
  <2>4. ExecTypeOK' /\ SentInv'
    BY <1>4, <2>2, <2>3 DEF PumpReads, ExecTypeOK, SentInv
  <2>5. /\ UNCHANGED <<recVars, execPc, recorder, toRecorder, relayed>> /\ pump[p].pc = "read"
    BY <1>4 DEF PumpReads
  <2>6. \A q \in Pumps : pump'[q].pc = "send" => pump[q].pc = "send" /\ pump[q].msg = pump'[q].msg
                                               /\ pump'[q].msg \in 1..Len(msgs)
    BY <2>3 DEF SentInv
  <2>7. RunInv' /\ PassInv'
    BY <1>3, <2>2, <2>3, <2>4, <2>5, <2>6, PumpStep DEF Occurs
  <2> QED BY <2>4, <2>7
<1>5. ASSUME NEW p \in Pumps, PumpRecords(p) PROVE Rest
  <2> DEFINE m == pump[p].msg
  <2>1. /\ pump[p].pc = "record" /\ m \in 1..Len(msgs) /\ m \in Nat
        /\ UNCHANGED <<recVars, execPc, recorder, relayed, msgs>>
    BY <1>5 DEF PumpRecords, SendToRecorder, SentInv, ExecTypeOK
  <2>2. /\ \A q \in Pumps \ {p} : pump'[q] = pump[q]
        /\ pump'[p].pc = "send" /\ pump'[p].msg = m
        /\ pump' \in [Pumps -> [pc : {"read", "record", "send", "end"}, msg : Nat]]
    BY <1>5 DEF PumpRecords, SendToRecorder, ExecTypeOK
  <2>3. /\ toRecorder' \in Seq(Nat) /\ \A n : Occurs(n, toRecorder) => Occurs(n, toRecorder')
        /\ recorder = "on" /\ Recorded(m) => Occurs(m, toRecorder')
    <3>1. CASE msgs[m] = "text" \/ recorder # "on"
      BY <1>5, <3>1 DEF PumpRecords, SendToRecorder, ExecTypeOK, Recorded
    <3>2. CASE ~(msgs[m] = "text" \/ recorder # "on")
      <4>1. toRecorder' = Append(toRecorder, m) /\ toRecorder \in Seq(Nat)
        BY <1>5, <3>2 DEF PumpRecords, SendToRecorder, ExecTypeOK
      <4>2. \A n : Occurs(n, toRecorder) \/ n = m => Occurs(n, toRecorder')
        BY <2>1, <4>1, OccursAppend
      <4> QED BY <2>1, <4>1, <4>2
    <3> QED BY <3>1, <3>2
  <2>4. ExecTypeOK' /\ SentInv'
    BY <2>1, <2>2, <2>3 DEF ExecTypeOK, SentInv
  <2>5. Len(msgs) \in Nat
    BY DEF ExecTypeOK
  <2>6. \A q \in Pumps : pump'[q].pc = "send" =>
          /\ pump'[q].msg \in 1..Len(msgs)
          /\ \/ pump[q].pc = "send" /\ pump[q].msg = pump'[q].msg
             \/ recorder = "on" /\ Recorded(pump'[q].msg) => Occurs(pump'[q].msg, toRecorder')
    BY <2>1, <2>2, <2>3 DEF SentInv
  <2>7. RunInv' /\ PassInv'
    BY <1>3, <2>1, <2>2, <2>3, <2>4, <2>5, <2>6, PumpStep
  <2> QED BY <2>4, <2>7
<1>6. ASSUME NEW p \in Pumps, PumpSends(p) \/ PumpEnds(p) PROVE Rest
  <2>1. /\ pump[p].pc \in {"send", "read"}
        /\ UNCHANGED <<recVars, execPc, recorder, toRecorder, msgs>>
        /\ relayed' = relayed
           \/ (pump[p].pc = "send" /\ relayed' = relayed \cup {pump[p].msg})
    BY <1>6 DEF PumpSends, PumpEnds
  <2>2. /\ \A q \in Pumps \ {p} : pump'[q] = pump[q]
        /\ pump'[p].pc \in {"read", "end"}
        /\ pump' \in [Pumps -> [pc : {"read", "record", "send", "end"}, msg : Nat]]
    BY <1>6 DEF PumpSends, PumpEnds, ExecTypeOK
  <2>3. ExecTypeOK' /\ SentInv'
    BY <2>1, <2>2 DEF ExecTypeOK, SentInv
  <2>4. Len(msgs) \in Nat
    BY DEF ExecTypeOK
  <2>5. \A q \in Pumps : pump'[q].pc = "send" =>
          /\ pump'[q].msg \in 1..Len(msgs)
          /\ pump[q].pc = "send" /\ pump[q].msg = pump'[q].msg
    BY <2>1, <2>2 DEF SentInv
  <2>6. RunInv' /\ PassInv'
    BY <1>3, <2>1, <2>2, <2>3, <2>4, <2>5, PumpStep DEF Occurs
  <2> QED BY <2>3, <2>6
<1>7. CASE RecorderWrites
  <2> DEFINE m == Head(toRecorder)
  <2>1. /\ recorder = "on" /\ 1 \in Writers /\ wr[1].pc # "unused" /\ wr[1].dropped = "no"
        /\ UNCHANGED <<execPc, recorder, pump, relayed, msgs>>
        /\ toRecorder \in Seq(Nat) /\ toRecorder # <<>> /\ toRecorder' = Tail(toRecorder)
        /\ toRecorder' \in Seq(Nat)
    BY <1>7 DEF RecorderWrites, RunInv, ExecTypeOK
  <2>2. /\ wr'[1].pc # "unused" /\ wr'[1].dropped = "no" /\ wr'[1].linked = wr[1].linked
        /\ accepted \subseteq accepted' /\ (~ioFailed' => ~ioFailed)
        /\ ~ioFailed /\ wr[1].linked /\ Recorded(m) => m \in accepted'
    <3>1. CASE UNCHANGED recVars /\ ~Recorded(m)
      BY <2>1, <3>1 DEF recVars
    <3>2. CASE WriteItem(1, m)
      <4>1. ~ioFailed => wr[1].pc # "gone"
        BY <2>1 DEF RecordingsInv, StageInv
      <4>2. wr'[1].pc # "unused" /\ wr'[1].dropped = "no" /\ wr'[1].linked = wr[1].linked
        BY <2>1, <3>2 DEF WriteItem, RecordingsInv, RecordingsTypeOK, Writer
      <4>3. accepted \subseteq accepted' /\ (~ioFailed' => ~ioFailed)
        BY <3>2 DEF WriteItem
      <4> QED BY <3>2, <4>1, <4>2, <4>3 DEF WriteItem
    <3> QED BY <1>7, <3>1, <3>2 DEF RecorderWrites
  <2>3. \A n : Occurs(n, toRecorder) => n = m \/ Occurs(n, toRecorder')
    BY <2>1, OccursTail
  <2> HIDE DEF m
  <2>4. ExecTypeOK' /\ SentInv'
    BY <2>1 DEF ExecTypeOK, SentInv
  <2>5. RunInv'
    BY <2>1, <2>2 DEF RunInv
  <2>6. PassInv'
    <3> SUFFICES ASSUME ~ioFailed', wr'[1].linked, NEW n \in 1..Len(msgs), Recorded(n),
                        n \in relayed \/ \E p \in Pumps : pump[p].pc = "send" /\ pump[p].msg = n
                 PROVE  n \in accepted' \/ Occurs(n, toRecorder')
      BY <2>1 DEF PassInv, Recorded, Occurs
    <3>1. n \in accepted \/ Occurs(n, toRecorder)
      BY <2>1, <2>2 DEF PassInv
    <3> QED BY <2>2, <2>3, <3>1
  <2> QED BY <1>0, <2>4, <2>5, <2>6
<1>8. CASE RecorderEnds
  <2>1. /\ recorder = "on" /\ recorder' = "end" /\ execPc = "answered"
        /\ \A p \in Pumps : pump[p].pc = "end"
        /\ 1 \in Writers /\ wr[1].pc # "unused"
        /\ UNCHANGED <<execPc, toRecorder, pump, relayed, msgs, accepted, ioFailed>>
    BY <1>8 DEF RecorderEnds, DropWriter, RunInv, ExecTypeOK
  <2>2. wr'[1].pc = wr[1].pc /\ wr'[1].linked = wr[1].linked
    BY <1>8, <2>1 DEF RecorderEnds, DropWriter, RecordingsInv, RecordingsTypeOK, Writer
  <2>3. ExecTypeOK' /\ SentInv' /\ RunInv'
    BY <2>1, <2>2 DEF ExecTypeOK, SentInv, RunInv
  <2>4. PassInv'
    BY <2>1, <2>2 DEF PassInv, Recorded, Occurs
  <2> QED BY <1>0, <2>3, <2>4
<1>9. ASSUME NEW w \in Writers, OtherWriter(w) PROVE Rest
  <2>1. MAX_MSGS + w \in Nat
    BY KubeExecAssumption, RecordingsAssumption DEF Writers
  <2>2. Frame
    BY <1>9, <2>1, OtherFrame DEF OtherWriter
  <2> QED BY <1>9, <2>2, FrameStep DEF OtherWriter
<1>10. CASE Background
  <2>1. Frame /\ Unstarted
    BY <1>10, WriterTaskFrame, RemoveFrame DEF Background
  <2> QED BY <1>0, <1>10, <2>1, FrameStep DEF Background
<1>11. CASE UNCHANGED execVars
  BY <1>0, <1>11
     DEF execVars, recVars, ExecTypeOK, RunInv, SentInv, PassInv, Recorded, Occurs
<1> QED BY <1>0, <1>1, <1>2, <1>4, <1>5, <1>6, <1>7, <1>8, <1>9, <1>10, <1>11 DEF ExecNext

\* The inductive invariant holds in every state of an exec.
THEOREM ExecKeepsInv == ExecSpec => []ExecInv
<1>1. ExecInit => ExecInv
  <2> SUFFICES ASSUME ExecInit PROVE ExecInv
    OBVIOUS
  <2>1. RecordingsInv
    BY RecordingsStart DEF ExecInit
  <2>2. \A w \in Writers : wr[w].pc = "unused"
    BY DEF ExecInit, RecordingsInit, Unused
  <2> QED BY <2>1, <2>2 DEF ExecInit, ExecInv, ExecTypeOK, RunInv, SentInv, PassInv
<1>2. ExecInv /\ [ExecNext]_execVars => ExecInv'
  BY ExecNextInv
<1> QED BY <1>1, <1>2, PTL DEF ExecSpec

\* An exec uses its recording as the recording's protocol allows: its behaviours, seen
\* through the variables of the recording, are behaviours of RecordingsSpec.
THEOREM ExecRefinesRecordings == ExecSpec => RecordingsSpec
<1>1. ExecInit => RecordingsInit
  BY DEF ExecInit
<1>2. ExecInv /\ [ExecNext]_execVars => [RecordingsNext]_recVars
  BY ExecStepRecords
<1> QED BY <1>1, <1>2, ExecKeepsInv, PTL DEF ExecSpec, RecordingsSpec

\* When no writer is counted, what write() took is in the file, for any number of writers,
\* items and sizes of the channels, in an exec and in any other use of a recording: the
\* process may exit (the shutdown of services.rs waits for this count).
THEOREM ExecDrainedIsOnDisk ==
    (RecordingsSpec => []DrainedIsOnDisk) /\ (ExecSpec => []DrainedIsOnDisk)
<1>1. RecordingsInv => DrainedIsOnDisk
  BY CountedOut
<1> QED BY <1>1, RecordingsKeepInv, ExecRefinesRecordings, PTL

\* A message of an exec is relayed after it was handed to its recording, for any number of
\* messages and any bounds of the two channels (websocket.rs).
THEOREM ExecMessagesRecorded == ExecSpec => []ExecRecorded
<1>1. ExecInv => ExecRecorded
  BY DEF ExecInv, PassInv, SentInv, ExecRecorded, Occurs
<1> QED BY <1>1, ExecKeepsInv, PTL

-----------------------------------------------------------------------------
(* The SFTP auditor: the inductive invariant. *)

\* An open file, what is open under each handle, and a line of the report.
OpenFile == [op : {"read", "write"}, path : Paths, bytes : Nat]
Table == [Handles -> OpenFile \cup {Nothing, Dir}]
Reports == [op : {"read", "write", "path"}, path : Paths, bytes : Nat, success : BOOLEAN]

AnyRequest ==
    [kind : {"open"}, path : Paths, write : BOOLEAN]
      \cup [kind : {"opendir"}]
      \cup [kind : {"read", "write", "close", "fsetstat"}, handle : Handles]
      \cup [kind : {"path"}, path : Paths]

Sendings == [id : Ids, q : AnyRequest]
Replies == [id : Ids, kind : {"handle", "failed", "data", "ok"},
            handle : Handles \cup {"none"}, truth : Reports \cup {Nothing}]

SftpTypeOK ==
    /\ toTarget \in Seq(Sendings) /\ toGateway \in Seq(Replies)
    /\ pending \in [Ids -> AnyRequest \cup {Nothing}]
    /\ files \in [Handles -> OpenFile \cup {Nothing}]
    /\ held \subseteq Handles /\ opened \in Table
    /\ sentCount \in 0..MAX_REQUESTS
    /\ outcomes \in Seq(Reports) /\ reported \in Seq(Reports)

\* A request has an id of its own, on its way there and back.
IdsApart ==
    /\ \A k \in 1..Len(toTarget) : toTarget[k].id \in 1..sentCount
    /\ \A i \in 1..Len(toGateway) : toGateway[i].id \in 1..sentCount
    /\ \A k, l \in 1..Len(toTarget) : k # l => toTarget[k].id # toTarget[l].id
    /\ \A i, j \in 1..Len(toGateway) : i # j => toGateway[i].id # toGateway[j].id
    /\ \A k \in 1..Len(toTarget), i \in 1..Len(toGateway) : toTarget[k].id # toGateway[i].id

OnHandle(q) == q.kind \in {"read", "write", "close", "fsetstat"}
Closes(q, h) == q.kind = "close" /\ q.handle = h

\* What the auditor remembers of a request, if the table is t when it is served.
Memory(q, t) ==
    IF q.kind = "opendir" THEN Nothing
    ELSE IF q.kind # "fsetstat" THEN q
    ELSE IF t[q.handle] = Dir THEN Nothing
    ELSE [kind |-> "path", path |-> t[q.handle].path]

Remembers == \A k \in 1..Len(toTarget) : pending[toTarget[k].id] = Memory(toTarget[k].q, opened)

\* The auditor's files, if t is what is open: it does not follow directories.
Seen(t) == [h \in Handles |-> IF t[h] = Dir THEN Nothing ELSE t[h]]

\* The report r after a reply m was seen.
Says(r, m) == IF m.truth = Nothing THEN r ELSE Append(r, m.truth)

\* Serving the request of which p is remembered took the table from t to t2, and m
\* answers it.
Serves(t, p, m, t2) ==
    \/ p = Nothing /\ m.truth = Nothing /\ m.kind # "handle" /\ t2 = t
    \/ /\ p = Nothing /\ m.truth = Nothing /\ m.kind = "handle"
       /\ m.handle \in Handles /\ t[m.handle] = Nothing
       /\ t2 = [t EXCEPT ![m.handle] = Dir]
    \/ /\ p # Nothing /\ p.kind = "open" /\ m.kind = "handle" /\ m.truth = Nothing
       /\ m.handle \in Handles /\ t[m.handle] = Nothing
       /\ t2 = [t EXCEPT ![m.handle] = File(p.path, p.write)]
    \/ /\ p # Nothing /\ p.kind = "open" /\ m.kind = "failed" /\ t2 = t
       /\ m.truth = FileReport(File(p.path, p.write), FALSE)
    \/ /\ p # Nothing /\ p.kind \in {"read", "write"} /\ m.kind = "failed"
       /\ m.truth = Nothing /\ t2 = t
    \/ /\ p # Nothing /\ p.kind \in {"read", "write"} /\ m.kind \in {"data", "ok"}
       /\ m.truth = Nothing /\ p.handle \in Handles /\ t[p.handle] \in OpenFile
       /\ t2 = [t EXCEPT ![p.handle].bytes = @ + 1]
    \/ /\ p # Nothing /\ p.kind = "close" /\ m.kind \in {"ok", "failed"}
       /\ p.handle \in Handles /\ t[p.handle] # Nothing
       /\ m.truth = IF t[p.handle] = Dir THEN Nothing
                    ELSE FileReport(t[p.handle], m.kind = "ok")
       /\ t2 = [t EXCEPT ![p.handle] = Nothing]
    \/ /\ p # Nothing /\ p.kind = "path" /\ m.kind \in {"ok", "failed"} /\ t2 = t
       /\ m.truth = Report("path", p.path, 0, m.kind = "ok")

\* The same file, or a directory, whatever has been transferred.
Alike(a, b) == (a = Dir <=> b = Dir) /\ a.path = b.path

\* v has the file of h that is open now, from place i on.
OpenSince(v, i, h) ==
    \A j \in i..Len(toGateway) : v[j][h] # Nothing /\ Alike(v[j][h], opened[h])

\* The auditor is behind the target by the replies on their way: v has the tables and r
\* the reports it goes through while it sees them, up to what is the case now.
Replay(v, r) ==
    /\ v \in [0..Len(toGateway) -> Table] /\ r \in [0..Len(toGateway) -> Seq(Reports)]
    /\ files = Seen(v[0]) /\ reported = r[0]
    /\ v[Len(toGateway)] = opened /\ r[Len(toGateway)] = outcomes
    /\ \A i \in 1..Len(toGateway) :
         /\ Serves(v[i - 1], pending[toGateway[i].id], toGateway[i], v[i])
         /\ r[i] = Says(r[i - 1], toGateway[i])
         /\ toGateway[i].kind = "handle" => OpenSince(v, i, toGateway[i].handle)

\* A handle the client holds, or has used in a request on its way, names the same file
\* all along, and no close is before the use.
Uses(v) ==
    /\ \A h \in held : /\ OpenSince(v, 0, h)
                       /\ \A k \in 1..Len(toTarget) : ~Closes(toTarget[k].q, h)
    /\ \A k \in 1..Len(toTarget) : OnHandle(toTarget[k].q) =>
         /\ OpenSince(v, 0, toTarget[k].q.handle)
         /\ \A l \in 1..(k - 1) : ~Closes(toTarget[l].q, toTarget[k].q.handle)

Audits ==
    /\ SftpTypeOK /\ IdsApart /\ Remembers
    /\ \E v, r : Replay(v, r) /\ Uses(v)

\* The inductive invariant: as long as the auditor works.
SftpInv == channel = "open" /\ ~disabled => Audits

-----------------------------------------------------------------------------
(* The records of the model. *)

\* No file is a directory, or nothing; no request is nothing.
LEMMA RecordsApart ==
    /\ Nothing # Dir
    /\ \A f \in OpenFile : f # Nothing /\ f # Dir
    /\ \A q \in AnyRequest : q # Nothing
    /\ \A x \in Reports : x # Nothing
<1>1. Nothing.op = "nothing" /\ Dir.op = "dir"
  BY DEF Nothing, Dir
<1>2. Nothing # Dir
  BY <1>1
<1>3. \A f \in OpenFile : f # Nothing /\ f # Dir
  BY <1>1 DEF OpenFile
<1>4. \A x \in Reports : x # Nothing
  BY <1>1 DEF Reports
<1>5. ASSUME NEW q \in AnyRequest PROVE q # Nothing
  <2>1. "kind" \in DOMAIN q
    BY DEF AnyRequest
  <2>2. "kind" \notin DOMAIN Nothing
    BY DEF Nothing
  <2> QED BY <2>1, <2>2
<1> QED BY <1>2, <1>3, <1>4, <1>5

\* What a request carries.
LEMMA RequestFacts ==
    ASSUME NEW q \in AnyRequest
    PROVE  /\ q.kind \in {"open", "opendir", "read", "write", "close", "fsetstat", "path"}
           /\ q.kind = "open" => q.path \in Paths /\ q.write \in BOOLEAN
           /\ OnHandle(q) => q.handle \in Handles
           /\ q.kind = "path" => q.path \in Paths
BY DEF AnyRequest, OnHandle

\* The reports and files that the model builds have their types.
LEMMA BuiltTypes ==
    /\ \A path \in Paths, w \in BOOLEAN : File(path, w) \in OpenFile
    /\ \A f \in OpenFile, ok \in BOOLEAN : FileReport(f, ok) \in Reports
    /\ \A path \in Paths, ok \in BOOLEAN : Report("path", path, 0, ok) \in Reports
<1>1. ASSUME NEW path \in Paths, NEW w \in BOOLEAN PROVE File(path, w) \in OpenFile
  BY DEF File, OpenFile
<1>2. ASSUME NEW f \in OpenFile, NEW ok \in BOOLEAN PROVE FileReport(f, ok) \in Reports
  BY DEF FileReport, Report, OpenFile, Reports
<1>3. ASSUME NEW path \in Paths, NEW ok \in BOOLEAN PROVE Report("path", path, 0, ok) \in Reports
  BY DEF Report, Reports
<1> QED BY <1>1, <1>2, <1>3

\* Alike is transitive, and transferring a byte keeps a file alike.
LEMMA AlikeFacts ==
    /\ \A a : Alike(a, a)
    /\ \A a, b, c : Alike(a, b) /\ Alike(b, c) => Alike(a, c)
    /\ \A f \in OpenFile : /\ [f EXCEPT !.bytes = @ + 1] \in OpenFile
                           /\ Alike(f, [f EXCEPT !.bytes = @ + 1])
<1>1. (\A a : Alike(a, a)) /\ \A a, b, c : Alike(a, b) /\ Alike(b, c) => Alike(a, c)
  BY DEF Alike
<1>2. ASSUME NEW f \in OpenFile
      PROVE  /\ [f EXCEPT !.bytes = @ + 1] \in OpenFile
             /\ Alike(f, [f EXCEPT !.bytes = @ + 1])
  <2>1. [f EXCEPT !.bytes = @ + 1] \in OpenFile /\ [f EXCEPT !.bytes = @ + 1].path = f.path
    BY DEF OpenFile
  <2> QED BY <2>1, RecordsApart DEF Alike
<1> QED BY <1>1, <1>2
-----------------------------------------------------------------------------
(* One step of each side. *)

\* The auditor does with a reply what serving the request did.
LEMMA AuditorFollows ==
    ASSUME NEW t \in Table, NEW t2, NEW m \in Replies, NEW p \in AnyRequest \cup {Nothing},
           Serves(t, p, m, t2), files = Seen(t),
           IF p = Nothing THEN UNCHANGED <<files, reported>> ELSE reply(p, m)
    PROVE  files' = Seen(t2) /\ reported' = Says(reported, m)
<1>1. CASE p = Nothing /\ m.truth = Nothing /\ m.kind # "handle" /\ t2 = t
  BY <1>1 DEF Says
<1>2. CASE /\ p = Nothing /\ m.truth = Nothing /\ m.kind = "handle"
           /\ m.handle \in Handles /\ t[m.handle] = Nothing
           /\ t2 = [t EXCEPT ![m.handle] = Dir]
  BY <1>2, RecordsApart DEF Says, Seen, Table
<1> SUFFICES ASSUME p # Nothing, ~(p = Nothing) PROVE files' = Seen(t2) /\ reported' = Says(reported, m)
  BY <1>1, <1>2 DEF Serves
<1>0. reply(p, m) /\ p \in AnyRequest
  OBVIOUS
<1>3. CASE /\ p.kind = "open" /\ m.kind = "handle" /\ m.truth = Nothing
           /\ m.handle \in Handles /\ t[m.handle] = Nothing
           /\ t2 = [t EXCEPT ![m.handle] = File(p.path, p.write)]
  <2>1. files' = [files EXCEPT ![m.handle] = File(p.path, p.write)] /\ reported' = reported
    BY <1>0, <1>3 DEF reply
  <2>2. File(p.path, p.write) # Dir
    BY <1>0, <1>3, RequestFacts, BuiltTypes, RecordsApart
  <2> QED BY <1>3, <2>1, <2>2 DEF Says, Seen, Table
<1>4. CASE /\ p.kind = "open" /\ m.kind = "failed" /\ t2 = t
           /\ m.truth = FileReport(File(p.path, p.write), FALSE)
  <2>1. reported' = Append(reported, FileReport(File(p.path, p.write), FALSE)) /\ files' = files
    BY <1>0, <1>4 DEF reply
  <2>2. m.truth # Nothing
    BY <1>0, <1>4, RequestFacts, BuiltTypes, RecordsApart
  <2> QED BY <1>4, <2>1, <2>2 DEF Says
<1>5. CASE /\ p.kind \in {"read", "write"} /\ m.kind = "failed"
           /\ m.truth = Nothing /\ t2 = t
  <2>1. reported' = reported /\ files' = files
    BY <1>0, <1>5 DEF reply
  <2> QED BY <1>5, <2>1 DEF Says
<1>6. CASE /\ p.kind \in {"read", "write"} /\ m.kind \in {"data", "ok"}
           /\ m.truth = Nothing /\ p.handle \in Handles /\ t[p.handle] \in OpenFile
           /\ t2 = [t EXCEPT ![p.handle].bytes = @ + 1]
  <2>1. files[p.handle] = t[p.handle] /\ files[p.handle] # Nothing
    BY <1>6, RecordsApart DEF Seen
  <2>2. reported' = reported /\ files' = [files EXCEPT ![p.handle].bytes = @ + 1]
    BY <1>0, <1>6, <2>1 DEF reply
  <2> DEFINE f == [t[p.handle] EXCEPT !.bytes = @ + 1]
  <2>3. files' = [files EXCEPT ![p.handle] = f] /\ t2 = [t EXCEPT ![p.handle] = f]
    BY <1>6, <2>1, <2>2
  <2>4. f \in OpenFile /\ f # Dir
    BY <1>6, AlikeFacts, RecordsApart
  <2> HIDE DEF f
  <2> QED BY <1>6, <2>2, <2>3, <2>4 DEF Says, Seen, Table
<1>7. CASE /\ p.kind = "close" /\ m.kind \in {"ok", "failed"}
           /\ p.handle \in Handles /\ t[p.handle] # Nothing
           /\ m.truth = IF t[p.handle] = Dir THEN Nothing
                        ELSE FileReport(t[p.handle], m.kind = "ok")
           /\ t2 = [t EXCEPT ![p.handle] = Nothing]
  <2>1. /\ reported' = IF files[p.handle] = Nothing THEN reported
                       ELSE Append(reported, FileReport(files[p.handle], m.kind = "ok"))
        /\ files' = [files EXCEPT ![p.handle] = Nothing]
    BY <1>0, <1>7 DEF reply
  <2>2. files' = Seen(t2)
    BY <1>7, <2>1, RecordsApart DEF Seen, Table
  <2>3. CASE t[p.handle] = Dir
    BY <1>7, <2>1, <2>2, <2>3 DEF Seen, Says
  <2>4. CASE t[p.handle] # Dir
    <3>1. t[p.handle] \in OpenFile /\ files[p.handle] = t[p.handle] /\ files[p.handle] # Nothing
      BY <1>7, <2>4 DEF Seen, Table
    <3>2. m.truth = FileReport(t[p.handle], m.kind = "ok") /\ (m.kind = "ok") \in BOOLEAN
      BY <1>7, <2>4
    <3>3. m.truth # Nothing
      BY <3>1, <3>2, BuiltTypes, RecordsApart
    <3> QED BY <2>1, <2>2, <3>1, <3>2, <3>3 DEF Says
  <2> QED BY <2>3, <2>4
<1>8. CASE /\ p.kind = "path" /\ m.kind \in {"ok", "failed"} /\ t2 = t
           /\ m.truth = Report("path", p.path, 0, m.kind = "ok")
  <2>1. reported' = Append(reported, Report("path", p.path, 0, m.kind = "ok")) /\ files' = files
    BY <1>0, <1>8 DEF reply
  <2>2. p.path \in Paths /\ (m.kind = "ok") \in BOOLEAN
    BY <1>0, <1>8, RequestFacts
  <2>3. m.truth # Nothing
    BY <1>8, <2>2, BuiltTypes, RecordsApart
  <2> QED BY <1>8, <2>1, <2>3 DEF Says
<1> QED BY <1>3, <1>4, <1>5, <1>6, <1>7, <1>8 DEF Serves

\* The target serves the oldest request as Serves says, and leaves every open file open
\* that the request does not close.
LEMMA TargetServes ==
    ASSUME SftpTypeOK, Remembers, TargetHandles,
           OnHandle(Head(toTarget).q) => opened[Head(toTarget).q.handle] # Nothing
    PROVE  \E m \in Replies :
             /\ m.id = Head(toTarget).id
             /\ toGateway' = Append(toGateway, m) /\ outcomes' = Says(outcomes, m)
             /\ opened' \in Table
             /\ Serves(opened, pending[m.id], m, opened')
             /\ m.kind = "handle" => m.handle \in Handles /\ opened'[m.handle] # Nothing
             /\ \A h \in Handles : opened[h] # Nothing /\ ~Closes(Head(toTarget).q, h) =>
                  opened'[h] # Nothing /\ Alike(opened[h], opened'[h])
<1> DEFINE q == Head(toTarget).q
           id == Head(toTarget).id
           p == pending[id]
           Leaves == \A h \in Handles : opened[h] # Nothing /\ ~Closes(q, h) =>
                       opened'[h] # Nothing /\ Alike(opened[h], opened'[h])
           Answered(m) == /\ m \in Replies /\ m.id = id
                          /\ toGateway' = Append(toGateway, m) /\ outcomes' = Says(outcomes, m)
                          /\ opened' \in Table
                          /\ Serves(opened, p, m, opened')
                          /\ m.kind = "handle" => m.handle \in Handles /\ opened'[m.handle] # Nothing
                          /\ Leaves
<1>1. Head(toTarget) \in Sendings /\ Head(toTarget) = toTarget[1] /\ 1 \in 1..Len(toTarget)
  BY DEF TargetHandles, SftpTypeOK
<1>2. q \in AnyRequest /\ id \in Ids
  BY <1>1 DEF Sendings
<1>3. p = Memory(q, opened)
  BY <1>1 DEF Remembers
<1>4. OnHandle(q) => q.handle \in Handles /\ opened[q.handle] # Nothing
  BY <1>2, RequestFacts
<1>5. opened \in Table
  BY DEF SftpTypeOK
<1>6. q # Nothing
  BY <1>2, RecordsApart
<1>7. /\ q.kind \in {"open", "opendir", "read", "write", "close", "fsetstat", "path"}
      /\ q.kind = "open" => q.path \in Paths /\ q.write \in BOOLEAN
      /\ q.kind = "path" => q.path \in Paths
  BY <1>2, RequestFacts
<1>8. /\ q.kind \in {"open", "opendir"} => TargetOpens(id, q)
      /\ q.kind \in {"read", "write"} => TargetTransfers(id, q)
      /\ q.kind = "close" => TargetCloses(id, q)
      /\ q.kind \in {"path", "fsetstat"} => TargetDoes(id, q)
  BY <1>7 DEF TargetHandles
<1> HIDE DEF q, id, p
<1>9. ASSUME NEW kind \in {"handle", "failed", "data", "ok"}, NEW h \in Handles \cup {"none"},
             NEW truth \in Reports \cup {Nothing}, Reply(id, kind, h, truth)
      PROVE  \E m \in Replies : /\ m.id = id /\ m.kind = kind /\ m.handle = h /\ m.truth = truth
                                /\ toGateway' = Append(toGateway, m)
                                /\ outcomes' = Says(outcomes, m)
  <2> DEFINE m == [id |-> id, kind |-> kind, handle |-> h, truth |-> truth]
  <2>1. m \in Replies
    BY <1>2 DEF Replies
  <2> QED BY <1>9, <2>1 DEF Reply, Says
<1>10. opened' = opened => opened' \in Table /\ Leaves
  BY <1>5, AlikeFacts
<1>11. ASSUME opened' = opened, NEW m \in Replies, m.id = id, m.kind # "handle",
              toGateway' = Append(toGateway, m), outcomes' = Says(outcomes, m),
              Serves(opened, p, m, opened)
       PROVE  Answered(m)
  BY <1>10, <1>11
<1> HIDE DEF Leaves
<1>12. CASE q.kind \in {"open", "opendir"}
  <2> DEFINE new == IF q.kind = "open" THEN File(q.path, q.write) ELSE Dir
             fail == IF q.kind = "open" THEN FileReport(File(q.path, q.write), FALSE) ELSE Nothing
  <2>0. p = (IF q.kind = "open" THEN q ELSE Nothing)
    BY <1>3, <1>12 DEF Memory
  <2>1. new \in OpenFile \cup {Dir} /\ new # Nothing /\ fail \in Reports \cup {Nothing}
    BY <1>7, <1>12, BuiltTypes, RecordsApart
  <2>2. CASE \E h \in Handles : /\ opened[h] = Nothing /\ opened' = [opened EXCEPT ![h] = new]
                                /\ Reply(id, "handle", h, Nothing)
    <3>1. PICK h \in Handles : /\ opened[h] = Nothing /\ opened' = [opened EXCEPT ![h] = new]
                               /\ Reply(id, "handle", h, Nothing)
      BY <2>2
    <3>2. PICK m \in Replies : /\ m.id = id /\ m.kind = "handle" /\ m.handle = h /\ m.truth = Nothing
                               /\ toGateway' = Append(toGateway, m)
                               /\ outcomes' = Says(outcomes, m)
      BY <1>9, <3>1
    <3>3. Serves(opened, p, m, opened')
      BY <1>6, <1>12, <2>0, <3>1, <3>2 DEF Serves
    <3> HIDE DEF new
    <3>4. opened' \in Table /\ opened'[h] = new /\ \A g \in Handles : g # h => opened'[g] = opened[g]
      BY <1>5, <2>1, <3>1 DEF Table
    <3>5. Leaves
      BY <3>1, <3>4, AlikeFacts DEF Leaves
    <3>6. Answered(m)
      BY <2>1, <3>2, <3>3, <3>4, <3>5
    <3> QED BY <3>6 DEF Leaves, q, id, p
  <2>3. CASE Reply(id, "failed", "none", fail) /\ UNCHANGED opened
    <3> HIDE DEF new, fail
    <3>1. PICK m \in Replies : /\ m.id = id /\ m.kind = "failed" /\ m.handle = "none" /\ m.truth = fail
                               /\ toGateway' = Append(toGateway, m)
                               /\ outcomes' = Says(outcomes, m)
      BY <1>9, <2>1, <2>3
    <3>2. Serves(opened, p, m, opened)
      BY <1>6, <1>12, <2>0, <3>1 DEF Serves, fail
    <3>3. Answered(m)
      BY <1>11, <2>3, <3>1, <3>2
    <3> QED BY <3>3 DEF Leaves, q, id, p
  <2> QED BY <1>8, <1>12, <2>2, <2>3 DEF TargetOpens
<1>13. CASE q.kind \in {"read", "write"}
  <2>0. p = q /\ OnHandle(q) /\ q.handle \in Handles
    BY <1>3, <1>4, <1>13 DEF Memory, OnHandle
  <2>1. CASE /\ opened[q.handle] \notin {Nothing, Dir}
             /\ opened' = [opened EXCEPT ![q.handle].bytes = @ + 1]
             /\ Reply(id, IF q.kind = "read" THEN "data" ELSE "ok", "none", Nothing)
    <3>0. PICK kind \in {"data", "ok"} : Reply(id, kind, "none", Nothing)
      BY <2>1
    <3>1. PICK m \in Replies : /\ m.id = id /\ m.kind \in {"data", "ok"} /\ m.truth = Nothing
                               /\ toGateway' = Append(toGateway, m)
                               /\ outcomes' = Says(outcomes, m)
      BY <1>9, <3>0
    <3>2. opened[q.handle] \in OpenFile
      BY <1>5, <2>0, <2>1 DEF Table
    <3>3. Serves(opened, p, m, opened')
      BY <1>6, <1>13, <2>0, <2>1, <3>1, <3>2 DEF Serves
    <3> DEFINE f == [opened[q.handle] EXCEPT !.bytes = @ + 1]
    <3>4. opened' = [opened EXCEPT ![q.handle] = f]
      BY <2>1
    <3>5. f \in OpenFile /\ Alike(opened[q.handle], f) /\ f # Nothing
      BY <3>2, AlikeFacts, RecordsApart
    <3> HIDE DEF f
    <3>6. /\ opened' \in Table /\ opened'[q.handle] = f
          /\ \A g \in Handles : g # q.handle => opened'[g] = opened[g]
      BY <1>5, <2>0, <3>4, <3>5 DEF Table
    <3>7. Leaves
      BY <3>5, <3>6, AlikeFacts DEF Leaves
    <3>8. Answered(m)
      BY <3>1, <3>3, <3>6, <3>7
    <3> QED BY <3>8 DEF Leaves, q, id, p
  <2>2. CASE Reply(id, "failed", "none", Nothing) /\ UNCHANGED opened
    <3>1. PICK m \in Replies : /\ m.id = id /\ m.kind = "failed" /\ m.truth = Nothing
                               /\ toGateway' = Append(toGateway, m)
                               /\ outcomes' = Says(outcomes, m)
      BY <1>9, <2>2
    <3>2. Serves(opened, p, m, opened)
      BY <1>6, <1>13, <2>0, <3>1 DEF Serves
    <3>3. Answered(m)
      BY <1>11, <2>2, <3>1, <3>2
    <3> QED BY <3>3 DEF Leaves, q, id, p
  <2> QED BY <1>8, <1>13, <2>1, <2>2 DEF TargetTransfers
<1>14. CASE q.kind = "close"
  <2>0. p = q /\ q.handle \in Handles /\ opened[q.handle] # Nothing
    BY <1>3, <1>4, <1>14 DEF Memory, OnHandle
  <2>1. PICK ok \in BOOLEAN :
          /\ Reply(id, IF ok THEN "ok" ELSE "failed", "none",
                   IF opened[q.handle] = Dir THEN Nothing ELSE FileReport(opened[q.handle], ok))
          /\ opened' = [opened EXCEPT ![q.handle] = Nothing]
    BY <1>8, <1>14 DEF TargetCloses
  <2> DEFINE truth == IF opened[q.handle] = Dir THEN Nothing ELSE FileReport(opened[q.handle], ok)
             kind == IF ok THEN "ok" ELSE "failed"
  <2>2. truth \in Reports \cup {Nothing}
    BY <1>5, <2>0, BuiltTypes DEF Table
  <2>3. kind \in {"handle", "failed", "data", "ok"} /\ kind \in {"ok", "failed"}
        /\ (kind = "ok") = ok /\ kind # "handle"
    OBVIOUS
  <2>4. Reply(id, kind, "none", truth)
    BY <2>1
  <2> HIDE DEF truth, kind
  <2>5. PICK m \in Replies : /\ m.id = id /\ m.kind = kind /\ m.handle = "none" /\ m.truth = truth
                             /\ toGateway' = Append(toGateway, m)
                             /\ outcomes' = Says(outcomes, m)
    BY <1>9, <2>2, <2>3, <2>4
  <2>6. Serves(opened, p, m, opened')
    <3>1. m.truth = IF opened[p.handle] = Dir THEN Nothing
                    ELSE FileReport(opened[p.handle], m.kind = "ok")
      BY <2>0, <2>3, <2>5 DEF truth
    <3>2. /\ p # Nothing /\ p.kind = "close" /\ m.kind \in {"ok", "failed"}
          /\ p.handle \in Handles /\ opened[p.handle] # Nothing
          /\ opened' = [opened EXCEPT ![p.handle] = Nothing]
      BY <1>6, <1>14, <2>0, <2>1, <2>3, <2>5
    <3> QED BY <3>1, <3>2 DEF Serves
  <2>7. opened' \in Table /\ \A g \in Handles : g # q.handle => opened'[g] = opened[g]
    BY <1>5, <2>0, <2>1 DEF Table
  <2>8. Leaves
    BY <1>14, <2>7, AlikeFacts DEF Leaves, Closes
  <2>9. Answered(m)
    BY <2>3, <2>5, <2>6, <2>7, <2>8
  <2> QED BY <2>9 DEF Leaves, q, id, p
<1>15. CASE q.kind \in {"path", "fsetstat"}
  <2>1. PICK ok \in BOOLEAN :
          /\ Reply(id, IF ok THEN "ok" ELSE "failed", "none",
                   IF q.kind = "path" THEN Report("path", q.path, 0, ok)
                   ELSE IF opened[q.handle] = Dir THEN Nothing
                   ELSE Report("path", opened[q.handle].path, 0, ok))
          /\ UNCHANGED opened
    BY <1>8, <1>15 DEF TargetDoes
  <2> DEFINE truth == IF p = Nothing THEN Nothing ELSE Report("path", p.path, 0, ok)
             kind == IF ok THEN "ok" ELSE "failed"
  <2>2. p = Nothing \/ (p # Nothing /\ p.kind = "path" /\ p.path \in Paths)
    <3>1. CASE q.kind = "path"
      BY <1>3, <1>6, <1>7, <3>1 DEF Memory
    <3>2. CASE q.kind = "fsetstat" /\ opened[q.handle] = Dir
      BY <1>3, <3>2 DEF Memory
    <3>3. CASE q.kind = "fsetstat" /\ opened[q.handle] # Dir
      <4>1. p = [kind |-> "path", path |-> opened[q.handle].path]
        BY <1>3, <3>3 DEF Memory
      <4>2. opened[q.handle] \in OpenFile
        BY <1>4, <1>5, <3>3 DEF OnHandle, Table
      <4>3. opened[q.handle].path \in Paths
        BY <4>2 DEF OpenFile
      <4>4. p \in AnyRequest
        BY <4>1, <4>3 DEF AnyRequest
      <4> QED BY <4>1, <4>3, <4>4, RecordsApart
    <3> QED BY <1>15, <3>1, <3>2, <3>3
  <2>3. Reply(id, kind, "none", truth)
    <3>1. CASE q.kind = "path"
      BY <1>3, <1>6, <2>1, <3>1 DEF Memory
    <3>2. CASE q.kind = "fsetstat" /\ opened[q.handle] = Dir
      BY <1>3, <2>1, <3>2 DEF Memory
    <3>3. CASE q.kind = "fsetstat" /\ opened[q.handle] # Dir
      <4>1. p = [kind |-> "path", path |-> opened[q.handle].path]
        BY <1>3, <3>3 DEF Memory
      <4>2. p # Nothing /\ p.path = opened[q.handle].path
        BY <4>1 DEF Nothing
      <4> QED BY <2>1, <3>3, <4>2
    <3> QED BY <1>15, <3>1, <3>2, <3>3
  <2>4. truth \in Reports \cup {Nothing}
    BY <2>2, BuiltTypes
  <2>5. kind \in {"handle", "failed", "data", "ok"} /\ kind \in {"ok", "failed"}
        /\ (kind = "ok") = ok /\ kind # "handle"
    OBVIOUS
  <2> HIDE DEF truth, kind
  <2>6. PICK m \in Replies : /\ m.id = id /\ m.kind = kind /\ m.handle = "none" /\ m.truth = truth
                             /\ toGateway' = Append(toGateway, m)
                             /\ outcomes' = Says(outcomes, m)
    BY <1>9, <2>3, <2>4, <2>5
  <2>7. Serves(opened, p, m, opened)
    BY <2>2, <2>5, <2>6 DEF Serves, truth
  <2>8. Answered(m)
    BY <1>11, <2>1, <2>5, <2>6, <2>7
  <2> QED BY <2>8 DEF Leaves, q, id, p
<1> QED BY <1>7, <1>12, <1>13, <1>14, <1>15
\* Appending to a sequence, and taking its first element.
LEMMA QueueFacts ==
    ASSUME NEW S, NEW s \in Seq(S)
    PROVE  /\ Len(s) \in Nat /\ \A i \in 1..Len(s) : s[i] \in S
           /\ \A e \in S : /\ Append(s, e) \in Seq(S) /\ Len(Append(s, e)) = Len(s) + 1
                           /\ Append(s, e)[Len(s) + 1] = e
                           /\ \A i \in 1..Len(s) : Append(s, e)[i] = s[i]
           /\ s # <<>> => /\ Len(s) >= 1 /\ Head(s) = s[1] /\ Tail(s) \in Seq(S)
                          /\ Len(Tail(s)) = Len(s) - 1
                          /\ \A i \in 1..(Len(s) - 1) : Tail(s)[i] = s[i + 1]
OBVIOUS

\* What is remembered of a request is a request, or nothing.
LEMMA MemoryType ==
    ASSUME NEW t \in Table, NEW q \in AnyRequest, OnHandle(q) => t[q.handle] # Nothing
    PROVE  Memory(q, t) \in AnyRequest \cup {Nothing}
<1>1. CASE q.kind = "fsetstat" /\ t[q.handle] # Dir
  <2>1. q.handle \in Handles /\ t[q.handle] # Nothing
    BY <1>1, RequestFacts DEF OnHandle
  <2>2. t[q.handle] \in OpenFile
    BY <1>1, <2>1 DEF Table
  <2>3. t[q.handle].path \in Paths
    BY <2>2 DEF OpenFile
  <2>4. [kind |-> "path", path |-> t[q.handle].path] \in AnyRequest
    BY <2>3 DEF AnyRequest
  <2> QED BY <1>1, <2>4 DEF Memory
<1>2. CASE ~(q.kind = "fsetstat" /\ t[q.handle] # Dir)
  BY <1>2 DEF Memory
<1> QED BY <1>1, <1>2

\* A request sent keeps Audits: what the auditor remembers of it is what serving it will
\* need, because the handle names the same file at both ends.
LEMMA ClientKeeps ==
    ASSUME Audits, ~disabled, ClientSends
    PROVE  Audits'
<1>1. PICK v, r : Replay(v, r) /\ Uses(v)
  BY DEF Audits
<1>2. PICK q \in SftpRequests :
        /\ request(sentCount + 1, q)
        /\ toTarget' = Append(toTarget, [id |-> sentCount + 1, q |-> q])
        /\ held' = IF q.kind = "close" THEN held \ {q.handle} ELSE held
  BY DEF ClientSends
<1> DEFINE id == sentCount + 1
           new == [id |-> id, q |-> q]
           n == Len(toTarget)
<1>3. SftpTypeOK /\ IdsApart /\ Remembers
  BY DEF Audits
<1>4. /\ sentCount \in Nat /\ id \in Ids /\ id \notin 1..sentCount
      /\ sentCount' \in 0..MAX_REQUESTS /\ id \in 1..sentCount' /\ sentCount' \in Nat
      /\ \A i \in 1..sentCount : i \in 1..sentCount'
  BY <1>3, SftpAssumption DEF SftpTypeOK, ClientSends, Ids
<1>5. q \in AnyRequest
  BY <1>3 DEF SftpTypeOK, SftpRequests, AnyRequest
<1>6. OnHandle(q) => q.handle \in held /\ q.handle \in Handles
  BY <1>3 DEF SftpRequests, OnHandle, SftpTypeOK
<1>7. new \in Sendings /\ new.id = id /\ new.q = q
  BY <1>4, <1>5 DEF Sendings
<1>8. UNCHANGED <<toGateway, opened, outcomes, files, reported>>
  BY <1>2 DEF ClientSends, request
<1>9. \A h \in held : v[0][h] # Nothing /\ opened[h] # Nothing /\ Alike(v[0][h], opened[h])
  <2>1. Len(toGateway) \in Nat /\ v[Len(toGateway)] = opened
    BY <1>1, <1>3, QueueFacts DEF SftpTypeOK, Replay
  <2>2. 0 \in 0..Len(toGateway) /\ Len(toGateway) \in 0..Len(toGateway)
    BY <2>1
  <2> QED BY <1>1, <2>1, <2>2 DEF Uses, OpenSince
<1>10. pending' = [pending EXCEPT ![id] = Memory(q, opened)]
  <2>1. pending' = [pending EXCEPT ![id] =
           IF q.kind = "opendir" THEN Nothing
           ELSE IF q.kind # "fsetstat" THEN q
           ELSE IF files[q.handle] = Nothing THEN Nothing
           ELSE [kind |-> "path", path |-> files[q.handle].path]]
    BY <1>2 DEF request
  <2>2. CASE q.kind # "fsetstat"
    BY <2>1, <2>2 DEF Memory
  <2>3. CASE q.kind = "fsetstat"
    <3>1. q.handle \in held /\ q.handle \in Handles
      BY <1>6, <2>3 DEF OnHandle
    <3>2. files[q.handle] = IF v[0][q.handle] = Dir THEN Nothing ELSE v[0][q.handle]
      BY <1>1, <3>1 DEF Replay, Seen
    <3>3. files[q.handle] = Nothing <=> opened[q.handle] = Dir
      BY <1>9, <3>1, <3>2 DEF Alike
    <3>4. files[q.handle] # Nothing => files[q.handle].path = opened[q.handle].path
      BY <1>9, <3>1, <3>2 DEF Alike
    <3> QED BY <2>1, <2>3, <3>3, <3>4 DEF Memory
  <2> QED BY <2>2, <2>3
<1>11. Memory(q, opened) \in AnyRequest \cup {Nothing}
  BY <1>3, <1>5, <1>6, <1>9, MemoryType DEF SftpTypeOK
<1>12. /\ n \in Nat /\ toTarget' \in Seq(Sendings) /\ Len(toTarget') = n + 1
       /\ toTarget'[n + 1] = new /\ \A i \in 1..n : toTarget'[i] = toTarget[i]
       /\ Len(toGateway) \in Nat
  BY <1>2, <1>3, <1>7, QueueFacts DEF SftpTypeOK
<1> HIDE DEF new, n, id
<1>13. pending' \in [Ids -> AnyRequest \cup {Nothing}] /\ pending'[id] = Memory(q, opened)
       /\ \A i \in 1..sentCount : pending'[i] = pending[i]
  BY <1>3, <1>4, <1>10, <1>11 DEF SftpTypeOK
<1>14. SftpTypeOK'
  BY <1>2, <1>3, <1>4, <1>8, <1>12, <1>13 DEF SftpTypeOK
<1>15. IdsApart'
  <2>1. \A k \in 1..(n + 1) : k = n + 1 \/ k \in 1..n
    BY <1>12
  <2>2. \A k \in 1..n : toTarget[k].id \in 1..sentCount
    BY <1>3 DEF IdsApart, n
  <2>3. \A i \in 1..Len(toGateway) : toGateway[i].id \in 1..sentCount
    BY <1>3 DEF IdsApart
  <2>4. /\ \A k, l \in 1..n : k # l => toTarget[k].id # toTarget[l].id
        /\ \A k \in 1..n, i \in 1..Len(toGateway) : toTarget[k].id # toGateway[i].id
        /\ \A i, j \in 1..Len(toGateway) : i # j => toGateway[i].id # toGateway[j].id
    BY <1>3 DEF IdsApart, n
  <2>5. toTarget'[n + 1].id = id /\ \A k \in 1..n : toTarget'[k].id = toTarget[k].id
    BY <1>7, <1>12
  <2>6. \A k \in 1..(n + 1) : toTarget'[k].id \in 1..sentCount'
    BY <1>4, <2>1, <2>2, <2>5
  <2>7. ASSUME NEW k \in 1..(n + 1), NEW l \in 1..(n + 1), k # l
        PROVE  toTarget'[k].id # toTarget'[l].id
    BY <1>4, <2>1, <2>2, <2>4, <2>5, <2>7
  <2>8. ASSUME NEW k \in 1..(n + 1), NEW i \in 1..Len(toGateway)
        PROVE  toTarget'[k].id # toGateway[i].id
    BY <1>4, <2>1, <2>3, <2>4, <2>5
  <2>9. \A i \in 1..Len(toGateway) : toGateway[i].id \in 1..sentCount'
    BY <1>4, <2>3
  <2> QED BY <1>8, <1>12, <2>4, <2>6, <2>7, <2>8, <2>9 DEF IdsApart
<1>16. Remembers'
  <2> SUFFICES ASSUME NEW k \in 1..(n + 1)
               PROVE  pending'[toTarget'[k].id] = Memory(toTarget'[k].q, opened)
    BY <1>8, <1>12 DEF Remembers
  <2>1. CASE k = n + 1
    BY <1>7, <1>12, <1>13, <2>1
  <2>2. CASE k # n + 1
    <3>1. k \in 1..n
      BY <1>12, <2>2
    <3>2. toTarget[k].id \in 1..sentCount /\ pending[toTarget[k].id] = Memory(toTarget[k].q, opened)
      BY <1>3, <3>1 DEF IdsApart, Remembers, n
    <3> QED BY <1>12, <1>13, <3>1, <3>2
  <2> QED BY <2>1, <2>2
<1>17. Replay(v, r)'
  <2>1. \A i \in 1..Len(toGateway) : pending'[toGateway[i].id] = pending[toGateway[i].id]
    BY <1>3, <1>13 DEF IdsApart
  <2> QED BY <1>1, <1>8, <2>1 DEF Replay, OpenSince
<1>18. Uses(v)'
  <2>1. \A h : OpenSince(v, 0, h)' <=> OpenSince(v, 0, h)
    BY <1>8 DEF OpenSince
  <2>2. /\ \A h \in held : OpenSince(v, 0, h) /\ \A k \in 1..n : ~Closes(toTarget[k].q, h)
        /\ \A k \in 1..n : OnHandle(toTarget[k].q) =>
             /\ OpenSince(v, 0, toTarget[k].q.handle)
             /\ \A l \in 1..(k - 1) : ~Closes(toTarget[l].q, toTarget[k].q.handle)
    BY <1>1 DEF Uses, n
  <2>3. ASSUME NEW h \in held', NEW k \in 1..(n + 1) PROVE ~Closes(toTarget'[k].q, h)
    <3>1. h \in held /\ ~Closes(q, h)
      BY <1>2 DEF Closes
    <3>2. k = n + 1 \/ k \in 1..n
      BY <1>12
    <3> QED BY <1>7, <1>12, <2>2, <3>1, <3>2
  <2>4. ASSUME NEW k \in 1..(n + 1), OnHandle(toTarget'[k].q)
        PROVE  /\ OpenSince(v, 0, toTarget'[k].q.handle)
               /\ \A l \in 1..(k - 1) : ~Closes(toTarget'[l].q, toTarget'[k].q.handle)
    <3>1. CASE k = n + 1
      <4>1. toTarget'[k].q = q /\ q.handle \in held
        BY <1>6, <1>7, <1>12, <2>4, <3>1
      <4>2. \A l \in 1..(k - 1) : toTarget'[l] = toTarget[l] /\ l \in 1..n
        BY <1>12, <3>1
      <4> QED BY <2>2, <4>1, <4>2
    <3>2. CASE k # n + 1
      <4>1. k \in 1..n /\ toTarget'[k] = toTarget[k]
        BY <1>12, <3>2
      <4>2. \A l \in 1..(k - 1) : toTarget'[l] = toTarget[l]
        BY <1>12, <4>1
      <4> QED BY <2>2, <2>4, <4>1, <4>2
    <3> QED BY <3>1, <3>2
  <2>5. held' \subseteq held
    BY <1>2
  <2> QED BY <1>12, <2>1, <2>2, <2>3, <2>4, <2>5 DEF Uses
<1> QED BY <1>14, <1>15, <1>16, <1>17, <1>18 DEF Audits
\* A reply with a handle is about one that named nothing before.
LEMMA HandleIsNew ==
    ASSUME NEW t, NEW p, NEW m, NEW t2, Serves(t, p, m, t2), m.kind = "handle"
    PROVE  m.handle \in Handles /\ t[m.handle] = Nothing
BY DEF Serves

\* A request served keeps Audits: the replay is longer by one table and one report.
LEMMA TargetKeeps ==
    ASSUME Audits, TargetHandles
    PROVE  Audits'
<1>1. PICK v, r : Replay(v, r) /\ Uses(v)
  BY DEF Audits
<1> DEFINE n == Len(toGateway)
           size == Len(toTarget)
           q == Head(toTarget).q
<1>2. SftpTypeOK /\ IdsApart /\ Remembers
  BY DEF Audits
<1>3. toTarget # <<>> /\ toTarget' = Tail(toTarget)
      /\ UNCHANGED <<pending, files, held, sentCount, reported>>
  BY DEF TargetHandles
<1>4. /\ n \in Nat /\ size \in Nat /\ size >= 1 /\ Head(toTarget) = toTarget[1]
      /\ toTarget' \in Seq(Sendings) /\ Len(toTarget') = size - 1
      /\ \A k \in 1..(size - 1) : toTarget'[k] = toTarget[k + 1]
      /\ \A k \in 1..size : toTarget[k] \in Sendings
      /\ \A i \in 1..n : toGateway[i] \in Replies
  BY <1>2, <1>3, QueueFacts DEF SftpTypeOK
<1>5. /\ v \in [0..n -> Table] /\ r \in [0..n -> Seq(Reports)]
      /\ files = Seen(v[0]) /\ reported = r[0] /\ v[n] = opened /\ r[n] = outcomes
      /\ \A i \in 1..n : /\ Serves(v[i - 1], pending[toGateway[i].id], toGateway[i], v[i])
                         /\ r[i] = Says(r[i - 1], toGateway[i])
                         /\ toGateway[i].kind = "handle" => OpenSince(v, i, toGateway[i].handle)
  BY <1>1 DEF Replay
<1>6. /\ \A h \in held : OpenSince(v, 0, h) /\ \A k \in 1..size : ~Closes(toTarget[k].q, h)
      /\ \A k \in 1..size : OnHandle(toTarget[k].q) =>
           /\ OpenSince(v, 0, toTarget[k].q.handle)
           /\ \A l \in 1..(k - 1) : ~Closes(toTarget[l].q, toTarget[k].q.handle)
  BY <1>1 DEF Uses
<1>7. \A i \in 0..n : \A h : OpenSince(v, i, h) => opened[h] # Nothing
  BY <1>4, <1>5 DEF OpenSince
<1>8. q = toTarget[1].q /\ 1 \in 1..size /\ 0 \in 0..n
  BY <1>4
<1>9. OnHandle(q) => OpenSince(v, 0, q.handle) /\ opened[q.handle] # Nothing
  BY <1>6, <1>7, <1>8
<1>10. PICK m \in Replies :
         /\ m.id = Head(toTarget).id
         /\ toGateway' = Append(toGateway, m) /\ outcomes' = Says(outcomes, m)
         /\ opened' \in Table
         /\ Serves(opened, pending[m.id], m, opened')
         /\ m.kind = "handle" => m.handle \in Handles /\ opened'[m.handle] # Nothing
         /\ \A h \in Handles : opened[h] # Nothing /\ ~Closes(q, h) =>
              opened'[h] # Nothing /\ Alike(opened[h], opened'[h])
  BY <1>2, <1>9, TargetServes
<1>11. /\ toGateway' \in Seq(Replies) /\ Len(toGateway') = n + 1 /\ toGateway'[n + 1] = m
       /\ \A i \in 1..n : toGateway'[i] = toGateway[i]
  BY <1>2, <1>10, QueueFacts DEF SftpTypeOK
<1> HIDE DEF n, size, q
<1>12. PICK w : w = [i \in 0..(n + 1) |-> IF i = n + 1 THEN opened' ELSE v[i]]
  OBVIOUS
<1>13. PICK s : s = [i \in 0..(n + 1) |-> IF i = n + 1 THEN outcomes' ELSE r[i]]
  OBVIOUS
<1>14. /\ w[n + 1] = opened' /\ s[n + 1] = outcomes'
       /\ \A i \in 0..n : w[i] = v[i] /\ s[i] = r[i]
  BY <1>4, <1>12, <1>13
<1>15. outcomes \in Seq(Reports) /\ outcomes' \in Seq(Reports)
  <2>1. outcomes \in Seq(Reports) /\ m.truth \in Reports \cup {Nothing}
    BY <1>2 DEF SftpTypeOK, Replies
  <2> QED BY <1>10, <2>1, QueueFacts DEF Says
<1>16. w \in [0..(n + 1) -> Table] /\ s \in [0..(n + 1) -> Seq(Reports)]
  <2>1. \A i \in 0..(n + 1) : i = n + 1 \/ i \in 0..n
    BY <1>4
  <2> QED BY <1>5, <1>10, <1>12, <1>13, <1>15, <2>1
<1> DEFINE Since(i, h) == \A j \in i..(n + 1) : w[j][h] # Nothing /\ Alike(w[j][h], opened'[h])
\* A file that is open, and is not closed now, is the same file one table later.
<1>17. ASSUME NEW i \in 0..n, NEW h \in Handles, OpenSince(v, i, h), ~Closes(q, h)
       PROVE  Since(i, h) /\ opened[h] # Nothing /\ Alike(opened[h], opened'[h])
  <2>1. opened[h] # Nothing
    BY <1>7, <1>17
  <2>2. opened'[h] # Nothing /\ Alike(opened[h], opened'[h])
    BY <1>10, <1>17, <2>1
  <2>3. ASSUME NEW j \in i..(n + 1) PROVE w[j][h] # Nothing /\ Alike(w[j][h], opened'[h])
    <3>1. CASE j = n + 1
      BY <1>14, <2>2, <3>1, AlikeFacts
    <3>2. CASE j # n + 1
      <4>1. j \in i..n /\ j \in 0..n
        BY <1>4, <3>2
      <4>2. v[j][h] # Nothing /\ Alike(v[j][h], opened[h])
        BY <1>17, <4>1 DEF OpenSince, n
      <4> QED BY <1>14, <2>2, <4>1, <4>2, AlikeFacts
    <3> QED BY <3>1, <3>2
  <2> QED BY <2>1, <2>2, <2>3
<1>18. Replay(w, s)'
  <2>1. files' = Seen(w[0]) /\ reported' = s[0]
    BY <1>3, <1>5, <1>8, <1>14
  <2>2. ASSUME NEW i \in 1..(n + 1)
        PROVE  /\ Serves(w[i - 1], pending[toGateway'[i].id], toGateway'[i], w[i])
               /\ s[i] = Says(s[i - 1], toGateway'[i])
               /\ toGateway'[i].kind = "handle" => Since(i, toGateway'[i].handle)
    <3>1. CASE i = n + 1
      <4>1. w[i - 1] = opened /\ s[i - 1] = outcomes /\ w[i] = opened' /\ s[i] = outcomes'
        <5>1. i - 1 = n /\ n \in 0..n
          BY <1>4, <3>1
        <5> QED BY <1>5, <1>14, <3>1, <5>1
      <4>2. toGateway'[i] = m
        BY <1>11, <3>1
      <4>3. m.kind = "handle" => Since(i, m.handle)
        <5> SUFFICES ASSUME m.kind = "handle", NEW j \in i..(n + 1)
                     PROVE  w[j][m.handle] # Nothing /\ Alike(w[j][m.handle], opened'[m.handle])
          OBVIOUS
        <5>1. j = n + 1
          BY <1>4, <3>1
        <5> QED BY <1>10, <1>14, <5>1, AlikeFacts
      <4> QED BY <1>10, <4>1, <4>2, <4>3
    <3>2. CASE i # n + 1
      <4>1. i \in 1..n /\ i \in 0..n /\ i - 1 \in 0..n
        BY <1>4, <3>2
      <4>2. /\ w[i - 1] = v[i - 1] /\ w[i] = v[i] /\ s[i - 1] = r[i - 1] /\ s[i] = r[i]
            /\ toGateway'[i] = toGateway[i]
        BY <1>11, <1>14, <4>1
      <4>3. /\ Serves(v[i - 1], pending[toGateway[i].id], toGateway[i], v[i])
            /\ r[i] = Says(r[i - 1], toGateway[i])
            /\ toGateway[i].kind = "handle" => OpenSince(v, i, toGateway[i].handle)
        BY <1>5, <4>1
      <4>4. ASSUME toGateway[i].kind = "handle" PROVE Since(i, toGateway[i].handle)
        <5>1. toGateway[i].handle \in Handles /\ v[i - 1][toGateway[i].handle] = Nothing
          BY <4>3, <4>4, HandleIsNew
        <5>2. ~Closes(q, toGateway[i].handle)
          <6> SUFFICES ASSUME Closes(q, toGateway[i].handle) PROVE FALSE
            OBVIOUS
          <6>1. OpenSince(v, 0, toGateway[i].handle)
            BY <1>9 DEF Closes, OnHandle
          <6> QED BY <4>1, <5>1, <6>1 DEF OpenSince, n
        <5>3. OpenSince(v, i, toGateway[i].handle)
          BY <4>3, <4>4
        <5> QED BY <1>17, <4>1, <5>1, <5>2, <5>3
      <4> QED BY <4>2, <4>3, <4>4
    <3> QED BY <3>1, <3>2
  <2> QED BY <1>3, <1>11, <1>14, <1>16, <2>1, <2>2 DEF Replay, OpenSince
<1>19. Uses(w)'
  <2>1. ASSUME NEW h \in held'
        PROVE  /\ Since(0, h)
               /\ \A k \in 1..(size - 1) : ~Closes(toTarget'[k].q, h)
    <3>1. h \in held /\ h \in Handles
      BY <1>2, <1>3 DEF SftpTypeOK
    <3>2. OpenSince(v, 0, h) /\ ~Closes(q, h)
      BY <1>6, <1>8, <3>1
    <3>3. \A k \in 1..(size - 1) : k + 1 \in 1..size
      BY <1>4
    <3> QED BY <1>4, <1>6, <1>8, <1>17, <3>1, <3>2, <3>3
  <2>2. ASSUME NEW k \in 1..(size - 1), OnHandle(toTarget'[k].q)
        PROVE  /\ Since(0, toTarget'[k].q.handle)
               /\ \A l \in 1..(k - 1) : ~Closes(toTarget'[l].q, toTarget'[k].q.handle)
    <3>1. k + 1 \in 1..size /\ toTarget'[k] = toTarget[k + 1] /\ 1 \in 1..((k + 1) - 1)
      BY <1>4
    <3>2. toTarget[k + 1].q.handle \in Handles
      <4>1. toTarget[k + 1].q \in AnyRequest
        BY <1>4, <3>1 DEF Sendings
      <4> QED BY <2>2, <3>1, <4>1, RequestFacts
    <3>3. /\ OpenSince(v, 0, toTarget[k + 1].q.handle)
          /\ \A l \in 1..((k + 1) - 1) : ~Closes(toTarget[l].q, toTarget[k + 1].q.handle)
      BY <1>6, <2>2, <3>1
    <3>4. ~Closes(q, toTarget[k + 1].q.handle)
      BY <1>8, <3>1, <3>3
    <3>5. Since(0, toTarget[k + 1].q.handle)
      BY <1>8, <1>17, <3>2, <3>3, <3>4
    <3>6. \A l \in 1..(k - 1) : l \in 1..(size - 1) /\ l + 1 \in 1..((k + 1) - 1)
      BY <1>4
    <3> QED BY <1>4, <3>1, <3>3, <3>5, <3>6
  <2> QED BY <1>4, <1>11, <2>1, <2>2 DEF Uses, OpenSince
<1>20. SftpTypeOK'
  BY <1>2, <1>3, <1>4, <1>10, <1>11, <1>15 DEF SftpTypeOK
<1>21. IdsApart'
  <2>1. /\ \A k \in 1..size : toTarget[k].id \in 1..sentCount
        /\ \A i \in 1..n : toGateway[i].id \in 1..sentCount
        /\ \A k, l \in 1..size : k # l => toTarget[k].id # toTarget[l].id
        /\ \A i, j \in 1..n : i # j => toGateway[i].id # toGateway[j].id
        /\ \A k \in 1..size, i \in 1..n : toTarget[k].id # toGateway[i].id
    BY <1>2 DEF IdsApart, n, size
  <2>2. /\ \A k \in 1..(size - 1) : k + 1 \in 1..size /\ toTarget'[k].id = toTarget[k + 1].id
        /\ \A i \in 1..(n + 1) : i = n + 1 \/ i \in 1..n
        /\ \A i \in 1..n : toGateway'[i].id = toGateway[i].id
        /\ toGateway'[n + 1].id = toTarget[1].id /\ 1 \in 1..size
    BY <1>4, <1>10, <1>11
  <2>3. \A k \in 1..(size - 1) : toTarget'[k].id \in 1..sentCount
    BY <2>1, <2>2
  <2>4. \A i \in 1..(n + 1) : toGateway'[i].id \in 1..sentCount
    BY <2>1, <2>2
  <2>5. ASSUME NEW k \in 1..(size - 1), NEW l \in 1..(size - 1), k # l
        PROVE  toTarget'[k].id # toTarget'[l].id
    <3>1. k + 1 # l + 1
      BY <1>4, <2>5
    <3> QED BY <2>1, <2>2, <3>1
  <2>6. ASSUME NEW i \in 1..(n + 1), NEW j \in 1..(n + 1), i # j
        PROVE  toGateway'[i].id # toGateway'[j].id
    BY <2>1, <2>2, <2>6
  <2>7. ASSUME NEW k \in 1..(size - 1), NEW i \in 1..(n + 1)
        PROVE  toTarget'[k].id # toGateway'[i].id
    <3>1. k + 1 # 1
      BY <1>4
    <3> QED BY <2>1, <2>2, <3>1
  <2> QED BY <1>3, <1>4, <1>11, <2>3, <2>4, <2>5, <2>6, <2>7 DEF IdsApart
<1>22. Remembers'
  <2> SUFFICES ASSUME NEW k \in 1..(size - 1)
               PROVE  pending[toTarget'[k].id] = Memory(toTarget'[k].q, opened')
    BY <1>3, <1>4 DEF Remembers
  <2>1. k + 1 \in 1..size /\ toTarget'[k] = toTarget[k + 1] /\ 1 \in 1..((k + 1) - 1)
    BY <1>4
  <2> DEFINE u == toTarget[k + 1].q
  <2>2. pending[toTarget[k + 1].id] = Memory(u, opened)
    BY <1>2, <2>1 DEF Remembers, size
  <2>3. u \in AnyRequest
    BY <1>4, <2>1 DEF Sendings
  <2>4. u.kind = "fsetstat" => Alike(opened[u.handle], opened'[u.handle])
    <3> SUFFICES ASSUME u.kind = "fsetstat" PROVE Alike(opened[u.handle], opened'[u.handle])
      OBVIOUS
    <3>1. OnHandle(u) /\ u.handle \in Handles
      BY <2>3, RequestFacts DEF OnHandle
    <3>2. OpenSince(v, 0, u.handle) /\ ~Closes(q, u.handle)
      BY <1>6, <1>8, <2>1, <3>1
    <3> QED BY <1>8, <1>17, <3>1, <3>2
  <2>5. Memory(u, opened) = Memory(u, opened')
    BY <2>4 DEF Memory, Alike
  <2> QED BY <2>1, <2>2, <2>5
<1> QED BY <1>18, <1>19, <1>20, <1>21, <1>22 DEF Audits
\* A reply seen keeps Audits: the replay begins one place later, and the handle the
\* reply gives the client names the same file from there on.
LEMMA GatewayKeeps ==
    ASSUME Audits, ~disabled, GatewayReplies
    PROVE  Audits'
<1>1. PICK v, r : Replay(v, r) /\ Uses(v)
  BY DEF Audits
<1> DEFINE n == Len(toGateway)
           size == Len(toTarget)
           m == Head(toGateway)
           p == pending[m.id]
<1>2. SftpTypeOK /\ IdsApart /\ Remembers
  BY DEF Audits
<1>3. /\ toGateway # <<>> /\ toGateway' = Tail(toGateway)
      /\ UNCHANGED <<toTarget, opened, sentCount, outcomes>>
      /\ pending' = [pending EXCEPT ![m.id] = Nothing]
      /\ held' = IF m.kind = "handle" THEN held \cup {m.handle} ELSE held
      /\ IF p = Nothing THEN UNCHANGED <<files, reported>> ELSE reply(p, m)
  BY DEF GatewayReplies
<1>4. /\ n \in Nat /\ n >= 1 /\ n - 1 \in Nat /\ m = toGateway[1] /\ size \in Nat
      /\ toGateway' \in Seq(Replies) /\ Len(toGateway') = n - 1
      /\ \A i \in 1..(n - 1) : toGateway'[i] = toGateway[i + 1]
      /\ \A i \in 1..n : toGateway[i] \in Replies
      /\ \A k \in 1..size : toTarget[k] \in Sendings
  BY <1>2, <1>3, QueueFacts DEF SftpTypeOK
<1>5. /\ v \in [0..n -> Table] /\ r \in [0..n -> Seq(Reports)]
      /\ files = Seen(v[0]) /\ reported = r[0] /\ v[n] = opened /\ r[n] = outcomes
      /\ \A i \in 1..n : /\ Serves(v[i - 1], pending[toGateway[i].id], toGateway[i], v[i])
                         /\ r[i] = Says(r[i - 1], toGateway[i])
                         /\ toGateway[i].kind = "handle" => OpenSince(v, i, toGateway[i].handle)
  BY <1>1 DEF Replay
<1>6. /\ \A h \in held : OpenSince(v, 0, h) /\ \A k \in 1..size : ~Closes(toTarget[k].q, h)
      /\ \A k \in 1..size : OnHandle(toTarget[k].q) =>
           /\ OpenSince(v, 0, toTarget[k].q.handle)
           /\ \A l \in 1..(k - 1) : ~Closes(toTarget[l].q, toTarget[k].q.handle)
  BY <1>1 DEF Uses
<1>7. /\ 1 \in 1..n /\ 1 - 1 = 0 /\ 0 \in 0..n /\ 1 \in 0..n
      /\ m \in Replies /\ m.id \in Ids
  BY <1>4 DEF Replies
<1>8. p \in AnyRequest \cup {Nothing}
  BY <1>2, <1>7 DEF SftpTypeOK
<1> HIDE DEF n, size, m, p
<1>9. /\ Serves(v[0], p, m, v[1]) /\ r[1] = Says(r[0], m)
      /\ m.kind = "handle" => OpenSince(v, 1, m.handle)
  <2>1. /\ Serves(v[1 - 1], pending[toGateway[1].id], toGateway[1], v[1])
        /\ r[1] = Says(r[1 - 1], toGateway[1])
        /\ toGateway[1].kind = "handle" => OpenSince(v, 1, toGateway[1].handle)
    BY <1>5, <1>7
  <2> QED BY <1>4, <1>7, <2>1 DEF p
<1>10. files' = Seen(v[1]) /\ reported' = r[1]
  <2>1. v[0] \in Table
    BY <1>5, <1>7
  <2> QED BY <1>3, <1>5, <1>7, <1>8, <1>9, <2>1, AuditorFollows
<1>11. PICK w : w = [i \in 0..(n - 1) |-> v[i + 1]]
  OBVIOUS
<1>12. PICK s : s = [i \in 0..(n - 1) |-> r[i + 1]]
  OBVIOUS
<1>13. \A i \in 0..(n - 1) : i + 1 \in 0..n /\ i + 1 \in 1..n /\ w[i] = v[i + 1] /\ s[i] = r[i + 1]
  BY <1>4, <1>11, <1>12
<1>14. /\ w \in [0..(n - 1) -> Table] /\ s \in [0..(n - 1) -> Seq(Reports)]
       /\ files' = Seen(w[0]) /\ reported' = s[0]
       /\ w[n - 1] = opened /\ s[n - 1] = outcomes
  <2>1. w \in [0..(n - 1) -> Table] /\ s \in [0..(n - 1) -> Seq(Reports)]
    BY <1>5, <1>11, <1>12, <1>13
  <2>2. 0 \in 0..(n - 1) /\ n - 1 \in 0..(n - 1) /\ 0 + 1 = 1 /\ (n - 1) + 1 = n
    BY <1>4
  <2>3. w[0] = v[1] /\ s[0] = r[1] /\ w[n - 1] = v[n] /\ s[n - 1] = r[n]
    BY <1>13, <2>2
  <2> QED BY <1>5, <1>10, <2>1, <2>3
<1> DEFINE Since(i, h) == \A j \in i..(n - 1) : w[j][h] # Nothing /\ Alike(w[j][h], opened[h])
<1>15. ASSUME NEW i \in 0..(n - 1), NEW h, OpenSince(v, i + 1, h) PROVE Since(i, h)
  <2> SUFFICES ASSUME NEW j \in i..(n - 1)
               PROVE  w[j][h] # Nothing /\ Alike(w[j][h], opened[h])
    OBVIOUS
  <2>1. j \in 0..(n - 1) /\ j + 1 \in (i + 1)..n
    BY <1>4
  <2>2. v[j + 1][h] # Nothing /\ Alike(v[j + 1][h], opened[h])
    BY <1>15, <2>1 DEF OpenSince, n
  <2> QED BY <1>13, <2>1, <2>2
<1>16. ASSUME NEW h, OpenSince(v, 0, h) PROVE Since(0, h)
  <2>1. 0 \in 0..(n - 1) /\ OpenSince(v, 0 + 1, h)
    BY <1>4, <1>16 DEF OpenSince, n
  <2> QED BY <1>15, <2>1
<1>17. \A i \in 1..(n - 1) : toGateway'[i].id # m.id /\ pending'[toGateway'[i].id] = pending[toGateway[i + 1].id]
  <2> SUFFICES ASSUME NEW i \in 1..(n - 1)
               PROVE  toGateway'[i].id # m.id /\ pending'[toGateway'[i].id] = pending[toGateway[i + 1].id]
    OBVIOUS
  <2>1. i + 1 \in 1..n /\ i + 1 # 1 /\ toGateway'[i] = toGateway[i + 1]
    BY <1>4
  <2>2. toGateway[i + 1].id # m.id
    BY <1>2, <1>4, <1>7, <2>1 DEF IdsApart, n
  <2>3. toGateway[i + 1].id \in Ids
    BY <1>4, <2>1 DEF Replies
  <2> QED BY <1>2, <1>3, <1>7, <2>1, <2>2, <2>3 DEF SftpTypeOK
<1>18. Replay(w, s)'
  <2>1. ASSUME NEW i \in 1..(n - 1)
        PROVE  /\ Serves(w[i - 1], pending'[toGateway'[i].id], toGateway'[i], w[i])
               /\ s[i] = Says(s[i - 1], toGateway'[i])
               /\ toGateway'[i].kind = "handle" => Since(i, toGateway'[i].handle)
    <3>1. /\ i \in 0..(n - 1) /\ i - 1 \in 0..(n - 1) /\ i + 1 \in 1..n
          /\ (i + 1) - 1 = i /\ (i - 1) + 1 = i
      BY <1>4
    <3>2. w[i - 1] = v[i] /\ w[i] = v[i + 1] /\ s[i - 1] = r[i] /\ s[i] = r[i + 1]
      BY <1>13, <3>1
    <3>3. /\ Serves(v[(i + 1) - 1], pending[toGateway[i + 1].id], toGateway[i + 1], v[i + 1])
          /\ r[i + 1] = Says(r[(i + 1) - 1], toGateway[i + 1])
          /\ toGateway[i + 1].kind = "handle" => OpenSince(v, i + 1, toGateway[i + 1].handle)
      BY <1>5, <3>1
    <3>4. toGateway'[i] = toGateway[i + 1]
      BY <1>4
    <3>5. toGateway[i + 1].kind = "handle" => Since(i, toGateway[i + 1].handle)
      BY <1>15, <3>1, <3>3
    <3> HIDE DEF Since
    <3> QED BY <1>17, <3>1, <3>2, <3>3, <3>4, <3>5
  <2> QED BY <1>3, <1>4, <1>14, <2>1 DEF Replay, OpenSince
<1>19. Uses(w)'
  <2>1. ASSUME NEW h \in held'
        PROVE  Since(0, h) /\ \A k \in 1..size : ~Closes(toTarget[k].q, h)
    <3>1. CASE h \in held
      BY <1>6, <1>16, <3>1
    <3>2. CASE h \notin held
      <4>1. m.kind = "handle" /\ h = m.handle
        BY <1>3, <2>1, <3>2
      <4>2. v[0][h] = Nothing
        BY <1>9, <4>1, HandleIsNew
      <4>3. Since(0, h)
        <5>1. 0 \in 0..(n - 1) /\ OpenSince(v, 0 + 1, h)
          BY <1>4, <1>9, <4>1
        <5> QED BY <1>15, <5>1
      <4>4. ASSUME NEW k \in 1..size, Closes(toTarget[k].q, h) PROVE FALSE
        <5>1. OpenSince(v, 0, h)
          BY <1>6, <4>4 DEF Closes, OnHandle
        <5> QED BY <1>7, <4>2, <5>1 DEF OpenSince, n
      <4> QED BY <4>3, <4>4
    <3> QED BY <3>1, <3>2
  <2>2. \A k \in 1..size : OnHandle(toTarget[k].q) =>
          /\ Since(0, toTarget[k].q.handle)
          /\ \A l \in 1..(k - 1) : ~Closes(toTarget[l].q, toTarget[k].q.handle)
    BY <1>6, <1>16
  <2> QED BY <1>3, <1>4, <2>1, <2>2 DEF Uses, OpenSince, size
<1>20. SftpTypeOK'
  <2>1. files' \in [Handles -> OpenFile \cup {Nothing}] /\ reported' \in Seq(Reports)
    <3>1. v[1] \in Table /\ r[1] \in Seq(Reports)
      BY <1>5, <1>7
    <3> QED BY <1>10, <3>1 DEF Seen, Table
  <2>2. held' \subseteq Handles
    BY <1>2, <1>3, <1>9, HandleIsNew DEF SftpTypeOK
  <2>3. pending' \in [Ids -> AnyRequest \cup {Nothing}]
    BY <1>2, <1>3 DEF SftpTypeOK
  <2> QED BY <1>2, <1>3, <1>4, <2>1, <2>2, <2>3 DEF SftpTypeOK
<1>21. IdsApart'
  <2>1. /\ \A k \in 1..size : toTarget[k].id \in 1..sentCount
        /\ \A i \in 1..n : toGateway[i].id \in 1..sentCount
        /\ \A k, l \in 1..size : k # l => toTarget[k].id # toTarget[l].id
        /\ \A i, j \in 1..n : i # j => toGateway[i].id # toGateway[j].id
        /\ \A k \in 1..size, i \in 1..n : toTarget[k].id # toGateway[i].id
    BY <1>2 DEF IdsApart, n, size
  <2>2. \A i \in 1..(n - 1) : i + 1 \in 1..n /\ toGateway'[i].id = toGateway[i + 1].id
    BY <1>4
  <2>3. ASSUME NEW i \in 1..(n - 1), NEW j \in 1..(n - 1), i # j
        PROVE  toGateway'[i].id # toGateway'[j].id
    <3>1. i + 1 # j + 1
      BY <1>4, <2>3
    <3> QED BY <2>1, <2>2, <3>1
  <2>4. /\ \A i \in 1..(n - 1) : toGateway'[i].id \in 1..sentCount
        /\ \A k \in 1..size, i \in 1..(n - 1) : toTarget[k].id # toGateway'[i].id
    BY <2>1, <2>2
  <2> QED BY <1>3, <1>4, <2>1, <2>3, <2>4 DEF IdsApart, size
<1>22. Remembers'
  <2>1. \A k \in 1..size : pending'[toTarget[k].id] = pending[toTarget[k].id]
    <3> SUFFICES ASSUME NEW k \in 1..size PROVE pending'[toTarget[k].id] = pending[toTarget[k].id]
      OBVIOUS
    <3>1. toTarget[k].id # m.id
      BY <1>2, <1>4, <1>7 DEF IdsApart, n, size
    <3>2. toTarget[k].id \in Ids
      BY <1>4 DEF Sendings
    <3> QED BY <1>2, <1>3, <1>7, <3>1, <3>2 DEF SftpTypeOK
  <2> QED BY <1>2, <1>3, <2>1 DEF Remembers, size
<1> QED BY <1>18, <1>19, <1>20, <1>21, <1>22 DEF Audits

-----------------------------------------------------------------------------
(* What Shown computes, and the theorem. *)

\* A set of numbers that is not empty has a smallest one.
LEMMA LeastNat ==
    ASSUME NEW T, T \subseteq Nat, T # {}
    PROVE  \E x \in T : \A y \in T : x <= y
<1> DEFINE R == OpToRel(<, Nat)
<1>1. IsWellFoundedOn(R, Nat)
  BY NatLessThanWellFounded
<1>2. R = {ss \in Nat \X Nat : ss[1] < ss[2]}
  BY DEF OpToRel
<1> HIDE DEF R
<1>3. PICK x \in T : \A y \in T : ~(<<y, x>> \in R)
  BY <1>1, WFMin
<1>4. \A y \in T : x <= y
  <2> SUFFICES ASSUME NEW y \in T, ~(x <= y) PROVE FALSE
    OBVIOUS
  <2>1. y \in Nat /\ x \in Nat /\ y < x
    OBVIOUS
  <2> DEFINE ss == <<y, x>>
  <2>2. ss \in Nat \X Nat /\ ss[1] = y /\ ss[2] = x
    BY <2>1
  <2>3. ss \in R
    BY <1>2, <2>1, <2>2
  <2> QED BY <1>3, <2>3
<1> QED BY <1>4

\* f has the reports after what is said and each of the n replies.
GoesThrough(f, n, said, replies) ==
    /\ f = [i \in 0..n |-> f[i]] /\ f[0] = said
    /\ \A i \in 1..n : f[i] = Says(f[i - 1], replies[i])

\* Shown is the end of any run through the replies that begins with what is said.
LEMMA ShownIs ==
    ASSUME NEW said, NEW replies, NEW n \in Nat, n = Len(replies), NEW f,
           GoesThrough(f, n, said, replies)
    PROVE  Shown(said, replies) = f[n]
<1>0. /\ f = [i \in 0..n |-> f[i]] /\ f[0] = said
      /\ \A i \in 1..n : f[i] = Says(f[i - 1], replies[i])
  BY DEF GoesThrough
<1> DEFINE body(g) == [i \in 0..Len(replies) |->
                         IF i = 0 THEN said
                         ELSE IF replies[i].truth = Nothing THEN g[i - 1]
                         ELSE Append(g[i - 1], replies[i].truth)]
           upto == CHOOSE g : g = body(g)
<1>1. f = body(f)
  <2>1. ASSUME NEW i \in 0..n PROVE f[i] = body(f)[i]
    <3>1. CASE i = 0
      BY <1>0, <3>1
    <3>2. CASE i # 0
      <4>1. i \in 1..n
        BY <3>2
      <4>2. f[i] = Says(f[i - 1], replies[i])
        BY <1>0, <4>1
      <4> QED BY <3>2, <4>2, Zenon DEF Says
    <3> QED BY <3>1, <3>2
  <2>2. [i \in 0..n |-> f[i]] = [i \in 0..n |-> body(f)[i]]
    BY <2>1, Zenon
  <2>3. body(f) = [i \in 0..n |-> body(f)[i]]
    OBVIOUS
  <2> QED BY <1>0, <2>2, <2>3
<1>2. upto = body(upto)
  BY <1>1, Zenon
<1>3. Shown(said, replies) = upto[Len(replies)]
  BY Zenon DEF Shown
<1> HIDE DEF upto
<1>4. upto[0] = said
  BY <1>2
<1>5. ASSUME NEW i \in 1..n PROVE upto[i] = Says(upto[i - 1], replies[i])
  <2>1. i \in 0..Len(replies) /\ i # 0
    OBVIOUS
  <2>2. body(upto)[i] = Says(upto[i - 1], replies[i])
    BY <2>1, Zenon DEF Says
  <2> QED BY <1>2, <2>2, Zenon
<1> HIDE DEF body
\* The least place where the two differ would have a predecessor where they do.
<1> DEFINE T == {k \in 0..n : f[k] # upto[k]}
<1>6. ASSUME T # {} PROVE FALSE
  <2>1. T \subseteq Nat
    OBVIOUS
  <2>2. PICK x \in T : \A y \in T : x <= y
    BY <1>6, <2>1, LeastNat
  <2>3. x # 0
    BY <1>0, <1>4, <2>2
  <2>4. x \in 1..n /\ x - 1 \in 0..n /\ ~(x <= x - 1)
    BY <2>2, <2>3
  <2>5. f[x - 1] = upto[x - 1]
    BY <2>2, <2>4
  <2>6. f[x] = Says(f[x - 1], replies[x]) /\ upto[x] = Says(upto[x - 1], replies[x])
    BY <1>0, <1>5, <2>4
  <2> QED BY <2>2, <2>5, <2>6
<1>7. n \in 0..n
  OBVIOUS
<1> QED BY <1>3, <1>6, <1>7

\* SftpInv is inductive.
LEMMA SftpNextInv == SftpInv /\ [SftpNext]_sftpVars => SftpInv'
<1> SUFFICES ASSUME SftpInv, [SftpNext]_sftpVars, channel' = "open", ~disabled' PROVE Audits'
  BY DEF SftpInv
<1>1. CASE ClientSends
  BY <1>1, ClientKeeps DEF SftpInv, ClientSends
<1>2. CASE TargetHandles
  BY <1>2, TargetKeeps DEF SftpInv, TargetHandles
<1>3. CASE GatewayReplies
  BY <1>3, GatewayKeeps DEF SftpInv, GatewayReplies
<1>4. CASE Disable \/ CloseChannel
  BY <1>4 DEF Disable, CloseChannel
<1>5. CASE UNCHANGED sftpVars
  <2>1. Audits
    BY <1>5 DEF SftpInv, sftpVars
  <2>2. PICK v, r : Replay(v, r) /\ Uses(v)
    BY <2>1 DEF Audits
  <2>3. SftpTypeOK'
    BY <1>5, <2>1 DEF Audits, SftpTypeOK, sftpVars
  <2>4. IdsApart'
    BY <1>5, <2>1 DEF Audits, IdsApart, sftpVars
  <2>5. Remembers'
    BY <1>5, <2>1 DEF Audits, Remembers, sftpVars
  <2>6. Replay(v, r)'
    BY <1>5, <2>2 DEF Replay, OpenSince, sftpVars
  <2>7. Uses(v)'
    BY <1>5, <2>2 DEF Uses, OpenSince, sftpVars
  <2> QED BY <2>3, <2>4, <2>5, <2>6, <2>7 DEF Audits
<1> QED BY <1>1, <1>2, <1>3, <1>4, <1>5 DEF SftpNext

\* SftpInv holds in every state of an SFTP channel: the auditor is behind the target by
\* exactly the replies on their way.
THEOREM SftpKeepsInv == SftpSpec => []SftpInv
<1>1. SftpInit => SftpInv
  <2> SUFFICES ASSUME SftpInit PROVE Audits
    BY DEF SftpInv
  <2>1. /\ toTarget = <<>> /\ toGateway = <<>> /\ Len(toTarget) = 0 /\ Len(toGateway) = 0
        /\ held = {} /\ sentCount = 0
    BY DEF SftpInit
  <2>2. opened \in Table /\ files = Seen(opened) /\ files \in [Handles -> OpenFile \cup {Nothing}]
    BY RecordsApart DEF SftpInit, Table, Seen
  <2>3. SftpTypeOK
    BY <2>1, <2>2, SftpAssumption DEF SftpInit, SftpTypeOK
  <2>4. IdsApart /\ Remembers
    BY <2>1 DEF IdsApart, Remembers
  <2>5. PICK v : v = [i \in 0..0 |-> opened]
    OBVIOUS
  <2>6. PICK r : r = [i \in 0..0 |-> <<>>]
    OBVIOUS
  <2>7. /\ v \in [0..0 -> Table] /\ r \in [0..0 -> Seq(Reports)]
        /\ v[0] = opened /\ r[0] = <<>>
    <3>1. <<>> \in Seq(Reports)
      OBVIOUS
    <3> QED BY <2>2, <2>5, <2>6, <3>1
  <2>8. outcomes = <<>> /\ reported = <<>>
    BY DEF SftpInit
  <2>9. Replay(v, r)
    BY <2>1, <2>2, <2>7, <2>8 DEF Replay
  <2>10. Uses(v)
    BY <2>1 DEF Uses
  <2> QED BY <2>3, <2>4, <2>9, <2>10 DEF Audits
<1> QED BY <1>1, SftpNextInv, PTL DEF SftpSpec

\* The auditor of an SFTP channel reports what the target did, in order and with nothing
\* left out, for any number of paths, handles and pipelined requests, as long as the
\* channel is open and no packet has stopped the auditor (sftp_audit.rs).
THEOREM TransfersAreReported == SftpSpec => []TransferReported
<1>1. SftpInv => TransferReported
  <2> SUFFICES ASSUME Audits PROVE Shown(reported, toGateway) = outcomes
    BY DEF SftpInv, TransferReported
  <2>1. PICK v, r : Replay(v, r)
    BY DEF Audits
  <2>2. PICK n \in Nat : n = Len(toGateway)
    BY DEF Audits, SftpTypeOK
  <2>3. PICK replies : replies = toGateway
    OBVIOUS
  <2>4. PICK said : said = reported
    OBVIOUS
  <2>5. GoesThrough(r, n, said, replies) /\ r[n] = outcomes
    BY <2>1, <2>2, <2>3, <2>4 DEF Replay, GoesThrough
  <2>6. n = Len(replies)
    BY <2>2, <2>3
  <2>7. Shown(said, replies) = r[n]
    BY <2>2, <2>5, <2>6, ShownIs, Zenon
  <2> QED BY <2>3, <2>4, <2>5, <2>7
<1> QED BY <1>1, SftpKeepsInv, PTL

-----------------------------------------------------------------------------
\* The checked composition is a behaviour of each of its parts, whose theorems hold of it:
\* what the instance shows of four properties at once is so for every value of the constants.
THEOREM TrafficComposes == TrafficSpec => HttpSpec /\ ExecSpec /\ SftpSpec
<1>1. TrafficInit => HttpInit /\ ExecInit /\ SftpInit
  BY DEF TrafficInit
<1>2. [TrafficNext]_trafficVars => [HttpNext]_httpVars
  BY DEF TrafficNext, trafficVars
<1>3. [TrafficNext]_trafficVars => [ExecNext]_execVars
  BY DEF TrafficNext, trafficVars
<1>4. [TrafficNext]_trafficVars => [SftpNext]_sftpVars
  BY DEF TrafficNext, trafficVars
<1> QED BY <1>1, <1>2, <1>3, <1>4, PTL DEF TrafficSpec, HttpSpec, ExecSpec, SftpSpec
=============================================================================
