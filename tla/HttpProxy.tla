----------------------------- MODULE HttpProxy ------------------------------
(***************************************************************************)
(* The HTTP proxy: a request names its target in a header or by its host,  *)
(* proves who its user is by a token or a certificate, is authorized, gets *)
(* a session and is passed to the upstream with the target's credential.   *)
(* A generic target has a session per request.  For a Kubernetes target    *)
(* the requests of one user, target and address share one, kept by the     *)
(* correlator until a vacuum finds it too old.                             *)
(***************************************************************************)
EXTENDS Naturals, FiniteSets

CONSTANTS Users, Targets, Addresses,
          Flavor,         \* [Targets -> {"generic", "kubernetes"}]
          UpstreamAuth,   \* [Targets -> header names as configured, in mixed case]
          UpstreamUrl,    \* [Targets -> [scheme, tls]]
          RequestHeaders, \* the sets of headers the client may send
          NUM_REQUESTS

ASSUME HttpAssumption ==
    /\ Flavor \in [Targets -> {"generic", "kubernetes"}]
    /\ NUM_REQUESTS \in Nat
    /\ "none" \notin Users \cup Targets

VARIABLES rq,          \* the requests
          sess,        \* the sessions, by number: their user and target
          registered,  \* numbers of the sessions in the registry
          handles,     \* the correlator: key -> number of a session, 0 if none
          tokens,      \* users whose API token is valid
          certs,       \* users whose certificate is valid
          granted      \* [user, target] pairs the roles allow

httpVars == <<rq, sess, registered, handles, tokens, certs, granted>>

Requests == 1..NUM_REQUESTS
Keys == [user : Users, target : Targets, ip : Addresses]
Grants == [user : Users, target : Targets]

Idle == [pc |-> "idle"]

HttpInit ==
    /\ rq = [r \in Requests |-> Idle]
    /\ sess = [s \in Requests |-> [user |-> "none", target |-> "none"]]
    /\ registered = {}
    /\ handles = [k \in Keys |-> 0]
    /\ tokens = Users /\ certs = Users
    /\ granted = Grants

-----------------------------------------------------------------------------
(* What the request asks for. *)

\* target_name_from_request: the header wins, though it may be empty or malformed; then
\* the label in front of the base domain.
NamedTarget(q) == IF q.header # "absent" THEN q.header ELSE q.host

\* The user of a token, of a certificate whose serial is known and not revoked.
validate_api_token(u) == IF u \in tokens THEN {u} ELSE {}
validate_client_certificate(u) == IF u \in certs THEN {u} ELSE {}

\* authenticate_request: bearer token, token in the query, client certificate.
Authenticated(q) ==
    LET bearer == validate_api_token(q.bearer)
        query == validate_api_token(q.query) IN
    IF bearer # {} THEN bearer
    ELSE IF query # {} THEN query ELSE validate_client_certificate(q.cert)

Arrive(r) ==
    /\ rq[r].pc = "idle"
    /\ \E h \in RequestHeaders, ip \in Addresses, ws \in BOOLEAN,
          header \in Targets \cup {"absent", "invalid"}, host \in Targets \cup {"none"},
          bearer, cert \in Users \cup {"none"} :
         /\ header # "absent" => host = "none"
         /\ bearer # "none" => cert = "none"
         /\ \E query \in {"none", bearer} :
              rq' = [rq EXCEPT ![r] =
                [pc |-> "resolve", header |-> header, host |-> host, ip |-> ip, ws |-> ws,
                 bearer |-> IF query = "none" THEN bearer ELSE "none", query |-> query,
                 cert |-> cert, hdrs |-> h, user |-> "none", target |-> "none",
                 sid |-> 0, sent |-> {}, answer |-> "none"]]
    /\ UNCHANGED <<sess, registered, handles, tokens, certs, granted>>

\* Every refusal before a session exists is one answer.
Refuse(r, how) == rq' = [rq EXCEPT ![r] = [pc |-> "done", answer |-> how]]

\* cors: a preflight is answered here.
Preflight(r) ==
    /\ rq[r].pc = "idle" /\ Refuse(r, "preflight")
    /\ UNCHANGED <<sess, registered, handles, tokens, certs, granted>>

Resolve(r) ==
    /\ rq[r].pc = "resolve"
    /\ LET t == NamedTarget(rq[r]) IN
       IF t \in Targets
       THEN rq' = [rq EXCEPT ![r].pc = "authenticate", ![r].target = t,
                             ![r].header = "absent", ![r].host = "none"]
       ELSE Refuse(r, "401")
    /\ UNCHANGED <<sess, registered, handles, tokens, certs, granted>>

Authenticate(r) ==
    /\ rq[r].pc = "authenticate"
    /\ \/ \E u \in Authenticated(rq[r]) :
            rq' = [rq EXCEPT ![r].pc = "authorize", ![r].user = u,
                             ![r].bearer = "none", ![r].query = "none", ![r].cert = "none"]
       \/ Authenticated(rq[r]) = {} /\ Refuse(r, "401")
    /\ UNCHANGED <<sess, registered, handles, tokens, certs, granted>>

Authorize(r) ==
    /\ rq[r].pc = "authorize"
    /\ IF [user |-> rq[r].user, target |-> rq[r].target] \in granted
       THEN rq' = [rq EXCEPT ![r].pc = "account"]
       ELSE Refuse(r, "401")
    /\ UNCHANGED <<sess, registered, handles, tokens, certs, granted>>

\* dispatch: the credential of the target's account, which may not be found.
LoadAccount(r) ==
    /\ rq[r].pc = "account"
    /\ rq' = [rq EXCEPT ![r].pc = "session"] \/ Refuse(r, "502")
    /\ UNCHANGED <<sess, registered, handles, tokens, certs, granted>>

-----------------------------------------------------------------------------
(* Its session. *)

\* Plausible slip: the requests of a user from an address share a session.
correlation_key_NoTarget(q) ==
    [user |-> q.user, target |-> CHOOSE t \in Targets : TRUE, ip |-> q.ip]

correlation_key_for_request(q) == [user |-> q.user, target |-> q.target, ip |-> q.ip]

\* register_session: a number no request has had, as session r of request r.
SessionFor(r) ==
    /\ rq[r].pc = "session"
    /\ LET k == correlation_key_for_request(rq[r])
           shared == Flavor[rq[r].target] = "kubernetes"
           found == shared /\ handles[k] # 0 IN
       \/ /\ found
          /\ rq' = [rq EXCEPT ![r].pc = "describe", ![r].sid = handles[k]]
          /\ UNCHANGED <<registered, handles>>
       \/ /\ ~found
          /\ rq' = [rq EXCEPT ![r].pc = "describe", ![r].sid = r]
          /\ registered' = registered \cup {r}
          /\ handles' = IF shared THEN [handles EXCEPT ![k] = r] ELSE handles
       \/ /\ ~found /\ Refuse(r, "500")
          /\ UNCHANGED <<registered, handles>>
    /\ UNCHANGED <<sess, tokens, certs, granted>>

\* Another request holds session s, or the correlator does once it has forgotten `old'.
HeldByRequest(s, r) ==
    \E q \in Requests \ {r} : rq[q].pc \notin {"idle", "done"} /\ rq[q].sid = s
HeldByCorrelator(s, old) == \E k \in Keys \ old : handles[k] = s

\* The handle is dropped: GatedServerHandle::drop removes the session with the last.
Finish(r, how) ==
    /\ Refuse(r, how)
    /\ registered' = IF HeldByRequest(rq[r].sid, r) \/ HeldByCorrelator(rq[r].sid, {})
                     THEN registered ELSE registered \ {rq[r].sid}

\* set_target and set_user_info under the handle's lock; a database error ends the request.
Describe(r) ==
    /\ rq[r].pc = "describe"
    /\ \/ /\ sess' = [sess EXCEPT ![rq[r].sid] =
                       [user |-> rq[r].user, target |-> rq[r].target]]
          /\ rq' = [rq EXCEPT ![r].pc = "send"]
          /\ UNCHANGED registered
       \/ Finish(r, "500") /\ UNCHANGED sess
    /\ UNCHANGED <<handles, tokens, certs, granted>>

\* vacuum: the correlator forgets the handles older than the session window.  A request
\* in progress keeps its own.
Vacuum ==
    /\ \E n \in Requests :
         LET old == {k \in Keys : handles[k] \in 1..n} IN
         /\ old # {}
         /\ handles' = [k \in Keys |-> IF k \in old THEN 0 ELSE handles[k]]
         /\ registered' = {s \in registered : HeldByRequest(s, 0) \/ HeldByCorrelator(s, old)}
    /\ UNCHANGED <<rq, sess, tokens, certs, granted>>

-----------------------------------------------------------------------------
(* The engine. *)

Lower(name) == IF name = "X-Api-Key" THEN "x-api-key" ELSE name

injected_header_names(t) == {Lower(n) : n \in UpstreamAuth[t]}

\* The names in DONT_FORWARD_HEADERS, Gated's own, the client's credential and the
\* Kubernetes impersonation headers stay here, and what the target's own would collide with.
collect_forwarded_headers(hdrs, t) ==
    (hdrs \ ({"host", "connection", "authorization", "x-gated-target", "x-gated-token",
              "impersonate-user"}
             \cup IF Flavor[t] = "kubernetes" THEN {} ELSE {"accept-encoding"}))
      \ injected_header_names(t)

\* build_http_client: the scheme must agree with the TLS mode.
ClientBuilt(t) ==
    /\ UpstreamUrl[t].scheme \in {"http", "https"}
    /\ ~(UpstreamUrl[t].tls = "required" /\ UpstreamUrl[t].scheme = "http")
    /\ ~(UpstreamUrl[t].tls = "disabled" /\ UpstreamUrl[t].scheme = "https")

\* A header as the upstream sees it: from the client, or the target's own credential.
Sent(q) ==
    [name : collect_forwarded_headers(q.hdrs, q.target), from : {"client"}]
      \cup [name : {Lower(n) : n \in UpstreamAuth[q.target]}, from : {"target"}]

\* construct_target_url: the path of a generic target may not climb.
UrlBuilt(t, climbs) == Flavor[t] = "generic" => ~climbs

\* The client or the URL is not built or the body is over the limit: nothing is sent.
Send(r) ==
    /\ rq[r].pc = "send"
    /\ \E climbs, big \in BOOLEAN :
         rq' = IF ClientBuilt(rq[r].target) /\ UrlBuilt(rq[r].target, climbs) /\ ~big
               THEN [rq EXCEPT ![r].pc = "wait", ![r].sent = Sent(rq[r])]
               ELSE [rq EXCEPT ![r].pc = "touch", ![r].answer = "error"]
    /\ UNCHANGED <<sess, registered, handles, tokens, certs, granted>>

\* A body over the limit is an error; one that is passed on as it comes is cut there.
CappedBody(streamed, big) ==
    IF streamed THEN (IF big THEN "cut" ELSE "body") ELSE (IF big THEN "error" ELSE "body")

\* The upstream fails, upgrades a Kubernetes websocket, or answers with a body, which is
\* streamed if it is chunked or a watch.
UpstreamAnswers(r) ==
    /\ rq[r].pc = "wait"
    /\ \/ \E streamed, big \in BOOLEAN :
            rq' = [rq EXCEPT ![r].pc = "touch", ![r].answer = CappedBody(streamed, big)]
       \/ /\ rq[r].ws /\ Flavor[rq[r].target] = "kubernetes"
          /\ rq' = [rq EXCEPT ![r].pc = "touch", ![r].answer = "upgraded"]
    /\ UNCHANGED <<sess, registered, handles, tokens, certs, granted>>

\* update_account_last_used_at: if it fails the answer is lost; then the handle is dropped.
Touch(r) ==
    /\ rq[r].pc = "touch"
    /\ \E a \in {rq[r].answer, "500"} : Finish(r, a)
    /\ UNCHANGED <<sess, handles, tokens, certs, granted>>

-----------------------------------------------------------------------------
(* The administrator. *)

\* A token is issued or deleted.
IssueToken ==
    /\ \E u \in Users \ tokens : tokens' = tokens \cup {u}
    /\ UNCHANGED <<rq, sess, registered, handles, certs, granted>>
RevokeToken ==
    /\ \E u \in tokens : tokens' = tokens \ {u}
    /\ UNCHANGED <<rq, sess, registered, handles, certs, granted>>

\* A certificate is issued, or its serial put on the revocation list and its row deleted.
IssueCertificate ==
    /\ \E u \in Users \ certs : certs' = certs \cup {u}
    /\ UNCHANGED <<rq, sess, registered, handles, tokens, granted>>
RevokeCertificate ==
    /\ \E u \in certs : certs' = certs \ {u}
    /\ UNCHANGED <<rq, sess, registered, handles, tokens, granted>>

RevokeGrant ==
    /\ \E g \in granted : granted' = granted \ {g}
    /\ UNCHANGED <<rq, sess, registered, handles, tokens, certs>>

HttpNext ==
    \/ \E r \in Requests : \/ Arrive(r) \/ Preflight(r) \/ Resolve(r) \/ Authenticate(r) \/ Authorize(r)
                           \/ LoadAccount(r) \/ SessionFor(r) \/ Describe(r) \/ Send(r)
                           \/ UpstreamAnswers(r) \/ Touch(r)
    \/ Vacuum
    \/ IssueToken \/ RevokeToken \/ IssueCertificate \/ RevokeCertificate \/ RevokeGrant

HttpSpec == HttpInit /\ [][HttpNext]_httpVars

-----------------------------------------------------------------------------
\* While a request is with the upstream, the session it runs under is registered and is
\* described by this request's user and target, whatever requests share it and whenever
\* the vacuum runs: an administrator who looks at the live sessions sees who is doing what.
ServedByOwnSession ==
    \A r \in Requests : rq[r].pc = "wait" =>
      /\ rq[r].sid \in registered
      /\ sess[rq[r].sid] = [user |-> rq[r].user, target |-> rq[r].target]

=============================================================================
