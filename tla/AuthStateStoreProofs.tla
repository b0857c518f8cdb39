------------------------- MODULE AuthStateStoreProofs -------------------------
(***************************************************************************)
(* Proofs about AuthStateStore, for every set of connections, browsers,    *)
(* portals, users, credentials and policies.                               *)
(*                                                                         *)
(* The lemmas on AuthPolicy say what each operation does to one AuthState; *)
(* StatesStep says what a step of the system may do to all of them; the    *)
(* inductive invariant IndInv then follows action by action.  OwnInv, for  *)
(* the decisions of the portal, is inductive beside it.                    *)
(***************************************************************************)
EXTENDS AuthStateStore, TLAPS

-----------------------------------------------------------------------------
(* One AuthState. *)

\* s2 is s after a credential was added or it was rejected.
Evolves(s, s2) ==
    s2.user = s.user /\ s2.protocol = s.protocol /\ s.valid \subseteq s2.valid

\* get_credential_policy yields a policy over the known credential kinds.
LEMMA PolicyType ==
    ASSUME NEW u \in Users, NEW p \in Protocols
    PROVE  get_credential_policy(u, p) \in Policies
<1>1. Supported[p] \subseteq Kinds
  BY DEF Supported, Kinds, Protocols
<1>2. DefaultKinds(u, p) \subseteq Kinds
  BY <1>1 DEF DefaultKinds
<1>3. Require[u][p] # NoPolicy => Require[u][p] \in SUBSET Kinds
  BY PolicyAssumption
<1> QED BY <1>2, <1>3 DEF get_credential_policy, Policies

\* A new AuthState is well formed (AuthStateStore::create, AuthState::new).
LEMMA GoodNew ==
    ASSUME NEW u \in Users, NEW p \in Protocols
    PROVE  /\ Good(NewAuthState(u, p))
           /\ NewAuthState(u, p).user = u
           /\ NewAuthState(u, p) # NoState
<1>1. NewAuthState(u, p) \in AuthStates
  BY PolicyType DEF NewAuthState, AuthStates
<1> QED BY <1>1, StoreAssumption DEF NewAuthState, Good

\* Adding one of its user's own credentials keeps an AuthState well formed.
LEMMA GoodAdd ==
    ASSUME NEW s, Good(s), NEW k \in Creds[s.user] \cup {"WebUserApproval"}
    PROVE  Good(add_valid_credential(s, k)) /\ Evolves(s, add_valid_credential(s, k))
<1>1. k \in Kinds
  BY PolicyAssumption DEF Good, AuthStates, Kinds
<1> QED BY <1>1 DEF Good, AuthStates, add_valid_credential, Evolves

\* So does a credential that was validated, or none when it was wrong.
LEMMA GoodWithCred ==
    ASSUME NEW s, Good(s), NEW k \in Creds[s.user] \cup {NoCred}
    PROVE  Good(WithCred(s, k)) /\ Evolves(s, WithCred(s, k))
<1>1. CASE k = NoCred
  BY <1>1 DEF WithCred, Evolves
<1>2. CASE k # NoCred
  BY <1>2, GoodAdd DEF WithCred
<1> QED BY <1>1, <1>2

\* So does a rejection.
LEMMA GoodReject ==
    ASSUME NEW s, Good(s)
    PROVE  Good(reject(s)) /\ Evolves(s, reject(s))
BY DEF Good, AuthStates, reject, Evolves

\* An Accepted verdict means what the stored policy says, and no rejection.
LEMMA AcceptedMeetsPolicy ==
    ASSUME NEW s, Good(s), verify(s) = "Accepted"
    PROVE  PolicyMet(s) /\ ~s.rejected
<1>1. s.user \in Users /\ s.protocol \in Protocols /\ s.valid \in SUBSET Kinds
  BY DEF Good, AuthStates
<1>2. ~s.rejected /\ is_sufficient(s.policy, s.valid).ok
  BY DEF verify
<1>3. CASE Require[s.user][s.protocol] = NoPolicy
  <2>1. s.policy.rule = "any"
    BY <1>3 DEF Good, get_credential_policy
  <2> QED BY <2>1, <1>2, <1>3 DEF is_sufficient, AnySingleSufficient, Need, Ok, PolicyMet
<1>4. CASE Require[s.user][s.protocol] # NoPolicy
  <2>1. s.policy.rule = "all" /\ s.policy.kinds = Require[s.user][s.protocol]
    BY <1>4 DEF Good, get_credential_policy
  <2> QED BY <2>1, <1>2, <1>4 DEF is_sufficient, AllSufficient, Need, Ok, PolicyMet
<1> QED BY <1>2, <1>3, <1>4

\* More credentials never take an acceptance away: a policy once met stays met.
LEMMA PolicyMetStable ==
    ASSUME NEW s, NEW s2, Evolves(s, s2), PolicyMet(s)
    PROVE  PolicyMet(s2)
BY DEF Evolves, PolicyMet

\* A well-formed AuthState is not the absence of one.
LEMMA GoodIsState == ASSUME NEW s, Good(s) PROVE s # NoState
BY StoreAssumption DEF Good

\* The requests and receivers the actions build have their types.
LEMMA RequestTypes ==
    /\ NoReq \in Requests /\ NoReq.cred = NoCred
    /\ \A v \in Verbs, u \in Users : \A k \in Creds[u] \cup {NoCred} :
         [verb |-> v, user |-> u, cred |-> k] \in Requests
<1>1. (CHOOSE u \in Users : TRUE) \in Users
  BY PolicyAssumption
<1>2. \A u \in Users : Creds[u] \subseteq Kinds
  BY PolicyAssumption
<1> QED BY <1>1, <1>2 DEF NoReq, Verbs, Requests

\* The receivers that subscribe, a signal and a dropped sender leave.
LEMMA ReceiverTypes ==
    /\ NoRx \in Receivers
    /\ \A id \in Ids : [id |-> id, got |-> "open"] \in Receivers
    /\ TypeOK => \A gone : \A got \in {"closed"} \cup Results :
                    Signalled(gone, got) \in [Waiters -> Receivers]
<1>1. ASSUME NEW r \in Receivers, NEW got \in {"closed"} \cup Results
      PROVE  [r EXCEPT !.got = got] \in Receivers
  BY DEF Receivers
<1> QED BY <1>1 DEF NoRx, Receivers, Signalled, TypeOK

\* What verify returns, and what complete sends.
LEMMA VerdictType == \A s : verify(s) \in Results
BY DEF verify, Results

\* complete keeps the signals and the receivers in their types.
LEMMA CompleteType ==
    ASSUME TypeOK, NEW id, NEW s, complete(id, s)
    PROVE  rx' \in [Waiters -> Receivers] /\ sigs' \subseteq Ids
<1>1. CASE HasSignal(id)
  <2>1. Signalled({id}, verify(s)) \in [Waiters -> Receivers]
    BY ReceiverTypes, VerdictType
  <2> QED BY <1>1, <2>1 DEF complete, TakeSignal, TypeOK
<1>2. CASE ~HasSignal(id)
  BY <1>2 DEF complete, TypeOK
<1> QED BY <1>1, <1>2

-----------------------------------------------------------------------------
(* All AuthStates: a step creates new ones and lets existing ones evolve, and *)
(* only while nobody holds their lock. *)

StatesStep ==
    /\ states' \in [Ids -> AuthStates \cup {NoState}]
    /\ \A id \in Ids :
         \/ states'[id] = states[id]
         \/ states[id] = NoState /\ Good(states'[id])
         \/ /\ states[id] # NoState /\ Free(id)
            /\ Good(states'[id]) /\ Evolves(states[id], states'[id])

\* Filling a free id with a well-formed AuthState is such a step.
LEMMA StatesStepNew ==
    ASSUME TypeOK, NEW i \in Ids, states[i] = NoState, NEW s2, Good(s2),
           states' = [states EXCEPT ![i] = s2]
    PROVE  StatesStep
BY DEF StatesStep, TypeOK, Good

\* So is letting an unlocked AuthState evolve.
LEMMA StatesStepEvolve ==
    ASSUME TypeOK, NEW i \in Ids, states[i] # NoState, Free(i), NEW s2, Good(s2),
           Evolves(states[i], s2), states' = [states EXCEPT ![i] = s2]
    PROVE  StatesStep
BY DEF StatesStep, TypeOK, Good

\* What StatesStep preserves by itself.
LEMMA StatesStepGood ==
    ASSUME TypeOK, AllGood, StatesStep
    PROVE  /\ AllGood'
           /\ \A id \in Ids : states[id] # NoState =>
                /\ states'[id] # NoState
                /\ states'[id].user = states[id].user
                /\ PolicyMet(states[id]) => PolicyMet(states'[id])
                /\ ~Free(id) => states'[id] = states[id]
<1>1. AllGood'
  BY DEF AllGood, StatesStep, TypeOK
<1>2. ASSUME NEW id \in Ids, states[id] # NoState
      PROVE  /\ states'[id] # NoState
             /\ states'[id].user = states[id].user
             /\ PolicyMet(states[id]) => PolicyMet(states'[id])
             /\ ~Free(id) => states'[id] = states[id]
  <2>1. CASE states'[id] = states[id]
    BY <1>2, <2>1
  <2>2. CASE /\ Free(id) /\ Good(states'[id]) /\ Evolves(states[id], states'[id])
    <3>1. PolicyMet(states[id]) => PolicyMet(states'[id])
      BY <2>2, PolicyMetStable
    <3> QED BY <3>1, <2>2, GoodIsState DEF Evolves
  <2> QED BY <1>2, <2>1, <2>2 DEF StatesStep
<1> QED BY <1>1, <1>2

\* A browser login gives its verdict on a well-formed AuthState: a new one, or
\* the session's own with the presented credential added.
LEMMA HttpLoginVerdict ==
    ASSUME IndInv, NEW b \in Browsers, HttpLogin(b)
    PROVE  \E id \in Ids, s \in AuthStates :
             /\ HttpVerdict(b, id, s) /\ Good(s)
             /\ \/ states[id] = NoState
                \/ states[id] # NoState /\ Free(id) /\ Evolves(states[id], s)
<1> USE DEF IndInv
<1>0. req[b].user \in Users /\ req[b].cred \in Creds[req[b].user] \cup {NoCred}
  BY DEF TypeOK, Requests, RightUser, Tasks
<1>1. CASE InStore(b) /\ states[at[b]].user = req[b].user
  <2>1. at[b] \in Ids /\ states[at[b]] # NoState /\ Good(states[at[b]]) /\ Free(at[b])
    BY <1>1 DEF HttpLogin, InStore, TypeOK, References, AllGood
  <2>2. HttpVerdict(b, at[b], WithCred(states[at[b]], req[b].cred))
    BY <1>1 DEF HttpLogin
  <2> QED BY <1>0, <1>1, <2>1, <2>2, GoodWithCred DEF Good
<1>2. CASE ~(InStore(b) /\ states[at[b]].user = req[b].user)
  <2> DEFINE new == NewAuthState(req[b].user, "HTTP")
  <2>1. PICK id \in Fresh : HttpVerdict(b, id, WithCred(new, req[b].cred))
    BY <1>2 DEF HttpLogin
  <2>2. Good(new) /\ new.user = req[b].user
    BY <1>0, GoodNew DEF Protocols
  <2>3. Good(WithCred(new, req[b].cred))
    BY <2>2, <1>0, GoodWithCred
  <2> QED BY <2>1, <2>3 DEF Fresh, Good
<1> QED BY <1>1, <1>2

\* Every step is a StatesStep.
LEMMA NextStatesStep ==
    ASSUME IndInv, [Next]_vars
    PROVE  StatesStep
<1> USE DEF IndInv
<1>0. ASSUME UNCHANGED states PROVE StatesStep
  BY <1>0 DEF StatesStep, TypeOK
<1>1. ASSUME NEW t, NEW id \in Fresh, NEW u \in Users, NEW p \in Protocols,
             create(t, id, u, p)
      PROVE  StatesStep
  BY <1>1, GoodNew, StatesStepNew DEF create, Fresh
<1>2. ASSUME NEW c \in SshConns, SshGetAuthState(c) PROVE StatesStep
  <2>1. req[c].user \in Users /\ "SSH" \in Protocols
    BY DEF TypeOK, Requests, Tasks, Conns, Protocols
  <2> QED BY <1>0, <1>1, <1>2, <2>1 DEF SshGetAuthState
<1>3. ASSUME NEW c \in SshConns, SshVerify(c) PROVE StatesStep
  <2>1. at[c] \in Ids /\ states[at[c]] # NoState /\ Good(states[at[c]])
        /\ req[c].cred \in Creds[states[at[c]].user] \cup {NoCred}
    BY <1>3 DEF SshVerify, TypeOK, References, RightUser, AllGood, Tasks, Conns
  <2>2. states' = [states EXCEPT ![at[c]] = WithCred(states[at[c]], req[c].cred)]
        /\ Free(at[c])
    BY <1>3 DEF SshVerify
  <2> QED BY <2>1, <2>2, GoodWithCred, StatesStepEvolve
<1>4. ASSUME NEW c \in PgConns, NEW u \in Users, PgConnect(c, u) PROVE StatesStep
  BY <1>1, <1>4 DEF PgConnect, Protocols
<1>5. ASSUME NEW c \in PgConns, PgPassword(c) PROVE StatesStep
  <2>1. at[c] \in Ids /\ states[at[c]] # NoState /\ Good(states[at[c]])
    BY <1>5 DEF PgPassword, TypeOK, References, AllGood, Tasks, Conns
  <2>2. CASE UNCHANGED states
    BY <1>0, <2>2
  <2>3. CASE /\ "Password" \in Creds[states[at[c]].user]
             /\ states' = [states EXCEPT ![at[c]] = add_valid_credential(@, "Password")]
    <3>1. states' = [states EXCEPT ![at[c]] =
                        add_valid_credential(states[at[c]], "Password")]
      BY <2>3, <2>1 DEF TypeOK
    <3>2. Free(at[c])
      BY <1>5 DEF PgPassword
    <3> QED BY <3>1, <3>2, <2>1, <2>3, GoodAdd, StatesStepEvolve
  <2> QED BY <1>5, <2>2, <2>3 DEF PgPassword
<1>6. ASSUME NEW c \in MyConns, NEW u \in Users, MyConnect(c, u) PROVE StatesStep
  BY <1>1, <1>6 DEF MyConnect, Protocols
<1>7. ASSUME NEW c \in MyConns, MyVerify(c) PROVE StatesStep
  <2>1. at[c] \in Ids /\ states[at[c]] # NoState /\ Good(states[at[c]])
        /\ req[c].cred \in Creds[states[at[c]].user] \cup {NoCred}
    BY <1>7 DEF MyVerify, TypeOK, References, RightUser, AllGood, Tasks, Conns
  <2>2. states' = [states EXCEPT ![at[c]] = WithCred(states[at[c]], req[c].cred)]
        /\ Free(at[c])
    BY <1>7 DEF MyVerify
  <2> QED BY <2>1, <2>2, GoodWithCred, StatesStepEvolve
<1>8. ASSUME NEW b \in Browsers, HttpLogin(b) PROVE StatesStep
  <2>1. PICK id \in Ids, s \in AuthStates :
          /\ HttpVerdict(b, id, s) /\ Good(s)
          /\ \/ states[id] = NoState
             \/ states[id] # NoState /\ Free(id) /\ Evolves(states[id], s)
    BY <1>8, HttpLoginVerdict
  <2>2. states' = [states EXCEPT ![id] = s]
    BY <2>1 DEF HttpVerdict
  <2> QED BY <2>1, <2>2, StatesStepNew, StatesStepEvolve
<1>9. ASSUME NEW b \in Browsers, HttpCancel(b) PROVE StatesStep
  <2>1. at[b] \in Ids /\ states[at[b]] # NoState /\ Good(states[at[b]]) /\ Free(at[b])
    BY <1>9 DEF HttpCancel, InStore, TypeOK, References, AllGood
  <2>2. states' = [states EXCEPT ![at[b]] = reject(states[at[b]])]
    BY <1>9 DEF HttpCancel
  <2> QED BY <2>1, <2>2, GoodReject, StatesStepEvolve
<1>10. ASSUME NEW w \in Portals, PortalAct(w) PROVE StatesStep
  <2>1. at[w] \in Ids /\ states[at[w]] # NoState /\ Good(states[at[w]]) /\ Free(at[w])
    BY <1>10 DEF PortalAct, TypeOK, References, AllGood, Tasks
  <2>2. PICK s2 \in {add_valid_credential(states[at[w]], "WebUserApproval"),
                     reject(states[at[w]])} : states' = [states EXCEPT ![at[w]] = s2]
    BY <1>10 DEF PortalAct
  <2> QED BY <2>1, <2>2, GoodReject, GoodAdd, StatesStepEvolve
<1> QED
  BY <1>0, <1>2, <1>3, <1>4, <1>5, <1>6, <1>7, <1>8, <1>9, <1>10
  DEF Next, vars, Outside, SshStep, PgStep, MyStep, HttpStep, PortalStep,
      SshRequest, SshReceive, SshSubscribe, HoldComplete, SshAuthorize,
      SshDisconnect, PgVerify, PgSubscribe, PgReceive, PgLockStore, PgComplete,
      PgAuthorize, MyAuthorize, MyEnd, HttpBegin, HttpContinue, HttpReturn,
      HttpLogout, PortalBegin, PortalScan, PortalListed, PortalPeek,
      PortalComplete, CompleteSend, Vacuum, Abort, shared, locks

-----------------------------------------------------------------------------
(* Type correctness. *)

\* Every step keeps every variable in its type.
LEMMA NextTypeOK ==
    ASSUME IndInv, [Next]_vars
    PROVE  TypeOK'
<1> USE DEF IndInv, TypeOK, Goto, Hold, Release, Answered, shared, locks
<1>0. states' \in [Ids -> AuthStates \cup {NoState}]
  BY NextStatesStep DEF StatesStep
<1>a. SshConns \subseteq Tasks /\ PgConns \subseteq Tasks /\ MyConns \subseteq Tasks
      /\ Browsers \subseteq Tasks /\ Portals \subseteq Tasks
      /\ SshConns \subseteq Waiters /\ PgConns \subseteq Waiters
  BY DEF Tasks, Conns, Waiters
<1> USE <1>0, <1>a
<1>1. ASSUME NEW c \in SshConns, NEW u \in Users, SshRequest(c, u)
      PROVE  TypeOK'
  <2>1. pc' \in [Tasks -> Places]
    BY <1>1
    DEF SshRequest, Places
  <2>2. req' \in [Tasks -> Requests]
    BY <1>1, RequestTypes
    DEF SshRequest, Verbs
  <2>3. kbd' \in [SshConns -> {"None", "OtpRequested", "WebAuthRequested"}]
    BY <1>1
    DEF SshRequest
  <2> QED BY <1>1, <2>1, <2>2, <2>3 DEF SshRequest
<1>2. ASSUME NEW c \in SshConns, SshReceive(c)
      PROVE  TypeOK'
  BY <1>2, RequestTypes, ReceiverTypes, VerdictType
  DEF SshReceive, Places
<1>3. ASSUME NEW c \in SshConns, SshGetAuthState(c)
      PROVE  TypeOK'
  BY <1>3, RequestTypes, ReceiverTypes, VerdictType
  DEF SshGetAuthState, create, Fresh, Places
<1>4. ASSUME NEW c \in SshConns, SshVerify(c)
      PROVE  TypeOK'
  BY <1>4, RequestTypes, ReceiverTypes, VerdictType
  DEF SshVerify, Places
<1>5. ASSUME NEW c \in SshConns, SshSubscribe(c)
      PROVE  TypeOK'
  <2>1. pc' \in [Tasks -> Places]
    BY <1>5
    DEF SshSubscribe, subscribe, Places
  <2>2. rx' \in [Waiters -> Receivers]
    BY <1>5, ReceiverTypes, VerdictType
    DEF SshSubscribe, subscribe, References
  <2>3. kbd' \in [SshConns -> {"None", "OtpRequested", "WebAuthRequested"}]
    BY <1>5
    DEF SshSubscribe, subscribe
  <2>4. store' \subseteq Ids /\ sigs' \subseteq Ids
    BY <1>5
    DEF SshSubscribe, subscribe, References
  <2> QED BY <1>5, <2>1, <2>2, <2>3, <2>4 DEF SshSubscribe, subscribe
<1>6. ASSUME NEW c \in SshConns \cup MyConns, HoldComplete(c)
      PROVE  TypeOK'
  BY <1>6, RequestTypes, ReceiverTypes, VerdictType
  DEF HoldComplete, TakeSignal, Places
<1>7. ASSUME NEW c \in SshConns, SshAuthorize(c)
      PROVE  TypeOK'
  <2>1. pc' \in [Tasks -> Places]
    BY <1>7
    DEF SshAuthorize, Places
  <2>2. req' \in [Tasks -> Requests]
    BY <1>7, RequestTypes
    DEF SshAuthorize
  <2>3. sLock' \in [Ids -> Tasks \cup {NoTask}]
    BY <1>7
    DEF SshAuthorize
  <2>4. letIn' \in [Tasks -> Ids \cup {NoId}]
    BY <1>7
    DEF SshAuthorize
  <2> QED BY <1>7, <2>1, <2>2, <2>3, <2>4 DEF SshAuthorize
<1>8. ASSUME NEW c \in SshConns, SshDisconnect(c)
      PROVE  TypeOK'
  BY <1>8, RequestTypes, ReceiverTypes, VerdictType
  DEF SshDisconnect, Places
<1>9. ASSUME NEW c \in PgConns, NEW u \in Users, PgConnect(c, u)
      PROVE  TypeOK'
  BY <1>9, RequestTypes, ReceiverTypes, VerdictType
  DEF PgConnect, create, Fresh, Places
<1>10. ASSUME NEW c \in PgConns, PgVerify(c)
      PROVE  TypeOK'
  BY <1>10, RequestTypes, ReceiverTypes, VerdictType
  DEF PgVerify, Places
<1>11. ASSUME NEW c \in PgConns, PgPassword(c)
      PROVE  TypeOK'
  BY <1>11, RequestTypes, ReceiverTypes, VerdictType
  DEF PgPassword, Places
<1>12. ASSUME NEW c \in PgConns, PgSubscribe(c)
      PROVE  TypeOK'
  <2>1. pc' \in [Tasks -> Places]
    BY <1>12
    DEF PgSubscribe, subscribe, Places
  <2>2. rx' \in [Waiters -> Receivers]
    BY <1>12, ReceiverTypes, VerdictType
    DEF PgSubscribe, subscribe, References
  <2>3. store' \subseteq Ids /\ sigs' \subseteq Ids
    BY <1>12
    DEF PgSubscribe, subscribe, References
  <2> QED BY <1>12, <2>1, <2>2, <2>3 DEF PgSubscribe, subscribe
<1>13. ASSUME NEW c \in PgConns, PgReceive(c)
      PROVE  TypeOK'
  BY <1>13, RequestTypes, ReceiverTypes, VerdictType
  DEF PgReceive, Places
<1>14. ASSUME NEW c \in PgConns, PgLockStore(c)
      PROVE  TypeOK'
  BY <1>14, RequestTypes, ReceiverTypes, VerdictType
  DEF PgLockStore, Places
<1>15. ASSUME NEW c \in PgConns, PgComplete(c)
      PROVE  TypeOK'
  BY <1>15, RequestTypes, ReceiverTypes, VerdictType
  DEF PgComplete, TakeSignal, Places
<1>16. ASSUME NEW c \in PgConns, PgAuthorize(c)
      PROVE  TypeOK'
  BY <1>16, RequestTypes, ReceiverTypes, VerdictType
  DEF PgAuthorize, Places
<1>17. ASSUME NEW c \in MyConns, NEW u \in Users, MyConnect(c, u)
      PROVE  TypeOK'
  <2>1. pc' \in [Tasks -> Places]
    BY <1>17
    DEF MyConnect, create, Fresh, Places
  <2>2. req' \in [Tasks -> Requests]
    BY <1>17, RequestTypes
    DEF MyConnect, create, Fresh, Verbs
  <2>3. at' \in [Tasks -> Ids \cup {NoId}]
    BY <1>17
    DEF MyConnect, create, Fresh
  <2>4. store' \subseteq Ids /\ sigs' \subseteq Ids
    BY <1>17
    DEF MyConnect, create, Fresh
  <2> QED BY <1>17, <2>1, <2>2, <2>3, <2>4 DEF MyConnect, create, Fresh
<1>18. ASSUME NEW c \in MyConns, MyVerify(c)
      PROVE  TypeOK'
  BY <1>18, RequestTypes, ReceiverTypes, VerdictType
  DEF MyVerify, Places
<1>19. ASSUME NEW c \in MyConns, MyAuthorize(c)
      PROVE  TypeOK'
  BY <1>19, RequestTypes, ReceiverTypes, VerdictType
  DEF MyAuthorize, Places
<1>20. ASSUME NEW c \in MyConns, MyEnd(c)
      PROVE  TypeOK'
  BY <1>20, RequestTypes, ReceiverTypes, VerdictType
  DEF MyEnd, Places
<1>21. ASSUME NEW b \in Browsers, NEW u \in Users, HttpBegin(b, u)
      PROVE  TypeOK'
  <2>1. pc' \in [Tasks -> Places]
    BY <1>21
    DEF HttpBegin, Places
  <2>2. req' \in [Tasks -> Requests]
    BY <1>21, RequestTypes
    DEF HttpBegin, Verbs
  <2> QED BY <1>21, <2>1, <2>2 DEF HttpBegin
<1>22. ASSUME NEW b \in Browsers, HttpLogin(b)
      PROVE  TypeOK'
  BY <1>22, RequestTypes, ReceiverTypes, VerdictType
  DEF HttpLogin, HttpVerdict, TakeSignal, Fresh, InStore, Places
<1>23. ASSUME NEW b \in Browsers, HttpContinue(b)
      PROVE  TypeOK'
  <2>1. pc' \in [Tasks -> Places]
    BY <1>23
    DEF HttpContinue, InStore, Places
  <2>2. req' \in [Tasks -> Requests]
    BY <1>23, RequestTypes
    DEF HttpContinue, InStore
  <2>3. rx' \in [Waiters -> Receivers]
    BY <1>23, CompleteType
    DEF HttpContinue, InStore
  <2>4. at' \in [Tasks -> Ids \cup {NoId}]
    BY <1>23
    DEF HttpContinue, InStore
  <2>5. letIn' \in [Tasks -> Ids \cup {NoId}]
    BY <1>23
    DEF HttpContinue, InStore
  <2>6. store' \subseteq Ids /\ sigs' \subseteq Ids
    BY <1>23, CompleteType
    DEF HttpContinue, InStore
  <2> QED BY <1>23, <2>1, <2>2, <2>3, <2>4, <2>5, <2>6 DEF HttpContinue, InStore
<1>24. ASSUME NEW b \in Browsers, HttpCancel(b)
      PROVE  TypeOK'
  <2>1. pc' \in [Tasks -> Places]
    BY <1>24
    DEF HttpCancel, InStore, Places
  <2>2. req' \in [Tasks -> Requests]
    BY <1>24, RequestTypes
    DEF HttpCancel, InStore
  <2>3. rx' \in [Waiters -> Receivers]
    BY <1>24, CompleteType
    DEF HttpCancel, InStore
  <2>4. at' \in [Tasks -> Ids \cup {NoId}]
    BY <1>24
    DEF HttpCancel, InStore
  <2>5. store' \subseteq Ids /\ sigs' \subseteq Ids
    BY <1>24, CompleteType
    DEF HttpCancel, InStore
  <2> QED BY <1>24, <2>1, <2>2, <2>3, <2>4, <2>5 DEF HttpCancel, InStore
<1>25. ASSUME NEW b \in Browsers, HttpReturn(b)
      PROVE  TypeOK'
  BY <1>25, RequestTypes, ReceiverTypes, VerdictType
  DEF HttpReturn, Places
<1>26. ASSUME NEW b \in Browsers, HttpLogout(b)
      PROVE  TypeOK'
  BY <1>26, RequestTypes, ReceiverTypes, VerdictType
  DEF HttpLogout, Places
<1>27. ASSUME NEW w \in Portals, NEW verb \in {"list", "approve", "reject"}, NEW id,
              PortalBegin(w, verb, id)
      PROVE  TypeOK'
  <2>1. pc' \in [Tasks -> Places]
    BY <1>27
    DEF PortalBegin, Places
  <2>2. req' \in [Tasks -> Requests]
    BY <1>27, RequestTypes, StoreAssumption
    DEF PortalBegin, Verbs
  <2>3. at' \in [Tasks -> Ids \cup {NoId}]
    BY <1>27
    DEF PortalBegin
  <2> QED BY <1>27, <2>1, <2>2, <2>3 DEF PortalBegin
<1>28. ASSUME NEW w \in Portals, NEW id \in Ids, PortalScan(w, id)
      PROVE  TypeOK'
  BY <1>28, RequestTypes, ReceiverTypes, VerdictType
  DEF PortalScan, Places
<1>29. ASSUME NEW w \in Portals, PortalListed(w)
      PROVE  TypeOK'
  BY <1>29, RequestTypes, ReceiverTypes, VerdictType
  DEF PortalListed, PortalDone, Places
<1>30. ASSUME NEW w \in Portals, PortalPeek(w)
      PROVE  TypeOK'
  BY <1>30, RequestTypes, ReceiverTypes, VerdictType
  DEF PortalPeek, PortalDone, Places
<1>31. ASSUME NEW w \in Portals, PortalAct(w)
      PROVE  TypeOK'
  BY <1>31, RequestTypes, ReceiverTypes, VerdictType
  DEF PortalAct, PortalDone, Places
<1>32. ASSUME NEW w \in Portals, PortalComplete(w)
      PROVE  TypeOK'
  BY <1>32, RequestTypes, ReceiverTypes, VerdictType
  DEF PortalComplete, PortalDone, TakeSignal, Places
<1>33. ASSUME NEW t \in Tasks, CompleteSend(t)
      PROVE  TypeOK'
  <2>1. pc' \in [Tasks -> Places]
    BY <1>33
    DEF CompleteSend, PortalDone, Places
  <2>2. req' \in [Tasks -> Requests]
    BY <1>33, RequestTypes
    DEF CompleteSend, PortalDone
  <2>3. rx' \in [Waiters -> Receivers]
    BY <1>33, ReceiverTypes, VerdictType
    DEF CompleteSend, PortalDone
  <2>4. at' \in [Tasks -> Ids \cup {NoId}]
    BY <1>33
    DEF CompleteSend, PortalDone
  <2> QED BY <1>33, <2>1, <2>2, <2>3, <2>4 DEF CompleteSend, PortalDone
<1>34. ASSUME NEW old \in SUBSET Ids, NEW oldSigs \in SUBSET Ids, Vacuum(old, oldSigs)
      PROVE  TypeOK'
  BY <1>34, RequestTypes, ReceiverTypes, VerdictType
  DEF Vacuum, Places
<1>35. CASE UNCHANGED vars
  BY <1>35 DEF vars
<1>36. ASSUME NEW t \in Abortable, Abort(t)
      PROVE  TypeOK'
  <2> t \in Tasks /\ t \notin SshConns
    BY StoreAssumption DEF Tasks, Conns
  <2>1. pc' \in [Tasks -> Places]
    BY <1>36 DEF Abort, Places
  <2>2. req' \in [Tasks -> Requests]
    BY <1>36, RequestTypes DEF Abort
  <2>3. rx' \in [Waiters -> Receivers]
    <3> DEFINE gone == IF pc[t] = "relock" THEN {at[t]} ELSE {}
    <3>1. Signalled(gone, "closed") \in [Waiters -> Receivers]
      BY ReceiverTypes
    <3>2. rx' = [c \in Waiters |-> IF c = t THEN NoRx ELSE Signalled(gone, "closed")[c]]
      BY <1>36 DEF Abort
    <3> QED BY <3>1, <3>2, ReceiverTypes
  <2>4. at' \in [Tasks -> Ids \cup {NoId}] /\ todo' \in [Portals -> SUBSET Ids]
    BY <1>36 DEF Abort
  <2> QED BY <1>36, <2>1, <2>2, <2>3, <2>4 DEF Abort
<1> QED
  BY <1>1, <1>2, <1>3, <1>4, <1>5, <1>6, <1>7, <1>8, <1>9, <1>10, <1>11, <1>12, <1>13,
     <1>14, <1>15, <1>16, <1>17, <1>18, <1>19, <1>20, <1>21, <1>22, <1>23, <1>24, <1>25,
     <1>26, <1>27, <1>28, <1>29, <1>30, <1>31, <1>32, <1>33, <1>34, <1>35, <1>36
  DEF Next, Outside, SshStep, PgStep, MyStep, HttpStep, PortalStep

-----------------------------------------------------------------------------
(* The inductive invariant, task by task. *)

\* What IndInv says of one task.
TaskInv(t) ==
    /\ at[t] # NoId => states[at[t]] # NoState
    /\ pc[t] \in {"lock", "complete", "relock", "authorize", "sub", "loop",
                  "pw", "complete2", "peek", "act", "fin", "live"} => at[t] # NoId
    /\ t \in PgConns /\ pc[t] = "recv" => at[t] # NoId
    /\ req[t].cred \in Creds[req[t].user] \cup {NoCred}
    /\ letIn[t] # NoId =>
         /\ states[letIn[t]] # NoState
         /\ PolicyMet(states[letIn[t]])
         /\ t \in SshConns => /\ states[letIn[t]].user = req[t].user
                              /\ pc[t] \in {"live", "gone"}
    /\ t \in SshConns /\ pc[t] \in {"lock", "complete", "relock", "authorize"}
         => states[at[t]].user = req[t].user
    /\ t \in MyConns /\ pc[t] = "lock" => states[at[t]].user = req[t].user
    /\ t \in SshConns \cup MyConns /\ pc[t] \in {"complete", "relock", "authorize"}
         => sLock[at[t]] = t /\ verify(states[at[t]]) = "Accepted"
    /\ t \in MyConns /\ pc[t] = "live" => sLock[at[t]] = t
    /\ t \in PgConns /\ pc[t] \in {"complete", "complete2", "relock", "authorize"}
         => PolicyMet(states[at[t]])

StoreRefs == \A id \in store : states[id] # NoState

\* IndInv, regrouped: the parts on shared state, and one part per task.
LEMMA TaskInvs ==
    IndInv <=> TypeOK /\ AllGood /\ StoreRefs /\ \A t \in Tasks : TaskInv(t)
BY DEF IndInv, References, RightUser, Guarded, PgMet, LetInMeetsPolicy, TaskInv,
       StoreRefs, Tasks, Conns

\* A step leaves task t alone: its own variables stay, and so does a lock it
\* holds on its AuthState.
Frame(t) ==
    /\ pc'[t] = pc[t] /\ at'[t] = at[t] /\ req'[t] = req[t] /\ letIn'[t] = letIn[t]
    /\ at[t] \in Ids /\ sLock[at[t]] = t => sLock'[at[t]] = t

\* Other tasks' steps cannot spoil what t relies on: an AuthState t holds does
\* not change, and one it does not hold only gains credentials or a rejection.
LEMMA FrameInv ==
    ASSUME IndInv, StatesStep, NEW t \in Tasks, Frame(t)
    PROVE  TaskInv(t)'
<1>1. TypeOK /\ AllGood /\ TaskInv(t)
  BY TaskInvs
<1>2. at[t] \in Ids \cup {NoId} /\ letIn[t] \in Ids \cup {NoId} /\ t # NoTask
  BY <1>1, StoreAssumption DEF TypeOK
<1>3. \A id \in Ids : states[id] # NoState =>
        /\ states'[id] # NoState
        /\ states'[id].user = states[id].user
        /\ PolicyMet(states[id]) => PolicyMet(states'[id])
        /\ ~Free(id) => states'[id] = states[id]
  BY <1>1, StatesStepGood
<1> QED BY <1>1, <1>2, <1>3 DEF TaskInv, Frame, Free

\* The step is t's: it leaves every other task alone, re-establishes TaskInv for
\* t, and takes t live only from its target check.
StepOf(t) ==
    /\ \A t2 \in Tasks : t2 # t => Frame(t2)
    /\ TaskInv(t)'
    /\ pc'[t] = "live" /\ pc[t] # "live" => pc[t] = "authorize"

\* Every step is a task's own, or touches no task (the vacuum).
LEMMA NextStepOf ==
    ASSUME IndInv, [Next]_vars
    PROVE  \/ \E t \in Tasks : StepOf(t)
           \/ \A t \in Tasks : Frame(t)
<1>0. TypeOK /\ AllGood /\ StoreRefs /\ (\A t \in Tasks : TaskInv(t)) /\ StatesStep
  BY TaskInvs, NextStatesStep
<1>a. SshConns \subseteq Tasks /\ PgConns \subseteq Tasks /\ MyConns \subseteq Tasks
      /\ Browsers \subseteq Tasks /\ Portals \subseteq Tasks /\ Abortable \subseteq Tasks
  BY StoreAssumption DEF Tasks, Conns
<1>b. NoTask \notin Tasks /\ NoId \notin Ids
  BY StoreAssumption
<1>c. \A id \in Ids : states[id] # NoState =>
        /\ states'[id] # NoState
        /\ states'[id].user = states[id].user
        /\ PolicyMet(states[id]) => PolicyMet(states'[id])
  BY <1>0, StatesStepGood
<1>d. AllGood'
  BY <1>0, StatesStepGood
<1>e. /\ \A t \in Browsers \cup Portals : t \notin SshConns \cup MyConns \cup PgConns
      /\ SshConns \cap (PgConns \cup MyConns) = {} /\ PgConns \cap MyConns = {}
  BY StoreAssumption
<1>f. \A t \in Tasks : at[t] \in Ids \cup {NoId} /\ letIn[t] \in Ids \cup {NoId}
                       /\ req[t].user \in Users
  BY <1>0 DEF TypeOK, Requests
<1>g. \A id \in Ids : states[id] # NoState => Good(states[id])
  BY <1>0 DEF AllGood
<1> USE <1>0, <1>a, <1>b
<1> USE DEF TypeOK, Goto, Hold, Release, Answered, shared, locks, Free
<1>1. ASSUME NEW c \in SshConns, NEW u \in Users, SshRequest(c, u)
      PROVE  StepOf(c)
  <2>1. \A t2 \in Tasks : t2 # c => Frame(t2)
    BY <1>1 DEF SshRequest, Frame, TaskInv
  <2>2. TaskInv(c)'
    BY <1>1, <1>c, <1>e, <1>f, RequestTypes DEF SshRequest, TaskInv
  <2> QED BY <1>1, <2>1, <2>2 DEF SshRequest, StepOf
<1>2. ASSUME NEW c \in SshConns, SshReceive(c)
      PROVE  StepOf(c)
  <2>1. \A t2 \in Tasks : t2 # c => Frame(t2)
    BY <1>2 DEF SshReceive, Frame, TaskInv
  <2>2. TaskInv(c)'
    BY <1>2, <1>c, <1>e, <1>f, RequestTypes DEF SshReceive, TaskInv
  <2> QED BY <1>2, <2>1, <2>2 DEF SshReceive, StepOf
<1>3. ASSUME NEW c \in SshConns, SshGetAuthState(c)
      PROVE  StepOf(c)
  <2>1. \A t2 \in Tasks : t2 # c => Frame(t2)
    BY <1>3 DEF SshGetAuthState, create, Frame, TaskInv
  <2>2. TaskInv(c)'
    <3>1. CASE SameUser(c)
      BY <1>3, <3>1, <1>c, <1>e, <1>f DEF SshGetAuthState, SameUser, TaskInv
    <3>2. CASE ~SameUser(c)
      <4>1. PICK id \in Fresh : create(c, id, req[c].user, "SSH")
        BY <1>3, <3>2 DEF SshGetAuthState
      <4>2. at'[c] = id /\ id \in Ids /\ states'[id] = NewAuthState(req[c].user, "SSH")
        BY <4>1 DEF create, Fresh
      <4>3. states'[id] # NoState /\ states'[id].user = req[c].user
        BY <4>2, <1>f, GoodNew DEF Protocols
      <4>4. pc'[c] = "lock" /\ req'[c] = req[c] /\ letIn'[c] = NoId
        BY <1>3, <1>f DEF SshGetAuthState, TaskInv
      <4> QED BY <4>2, <4>3, <4>4, <1>e DEF TaskInv
    <3> QED BY <3>1, <3>2
  <2> QED BY <1>3, <2>1, <2>2 DEF SshGetAuthState, create, StepOf
<1>4. ASSUME NEW c \in SshConns, SshVerify(c)
      PROVE  StepOf(c)
  <2>1. \A t2 \in Tasks : t2 # c => Frame(t2)
    BY <1>4 DEF SshVerify, Frame, TaskInv
  <2>2. TaskInv(c)'
    BY <1>4, <1>c, <1>e, <1>f, RequestTypes DEF SshVerify, TaskInv
  <2> QED BY <1>4, <2>1, <2>2 DEF SshVerify, StepOf
<1>5. ASSUME NEW c \in SshConns, SshSubscribe(c)
      PROVE  StepOf(c)
  <2>1. \A t2 \in Tasks : t2 # c => Frame(t2)
    BY <1>5 DEF SshSubscribe, subscribe, Frame, TaskInv
  <2>2. TaskInv(c)'
    BY <1>5, <1>c, <1>e, <1>f, RequestTypes DEF SshSubscribe, subscribe, TaskInv
  <2> QED BY <1>5, <2>1, <2>2 DEF SshSubscribe, subscribe, StepOf
<1>6. ASSUME NEW c \in SshConns \cup MyConns, HoldComplete(c)
      PROVE  StepOf(c)
  <2>1. \A t2 \in Tasks : t2 # c => Frame(t2)
    BY <1>6 DEF HoldComplete, TakeSignal, Frame, TaskInv
  <2>2. TaskInv(c)'
    BY <1>6, <1>c, <1>e, <1>f, RequestTypes DEF HoldComplete, TakeSignal, TaskInv
  <2> QED BY <1>6, <2>1, <2>2 DEF HoldComplete, TakeSignal, StepOf
<1>7. ASSUME NEW c \in SshConns, SshAuthorize(c)
      PROVE  StepOf(c)
  <2>1. \A t2 \in Tasks : t2 # c => Frame(t2)
    BY <1>7 DEF SshAuthorize, Frame, TaskInv
  <2>2. TaskInv(c)'
    <3>1. at[c] \in Ids /\ states[at[c]] # NoState /\ PolicyMet(states[at[c]])
          /\ (c \in SshConns => states[at[c]].user = req[c].user)
      BY <1>7, <1>f, <1>g, AcceptedMeetsPolicy DEF SshAuthorize, TaskInv
    <3>2. states' = states /\ at' = at
      BY <1>7 DEF SshAuthorize
    <3> QED BY <1>7, <3>1, <3>2, <1>e, RequestTypes DEF SshAuthorize, TaskInv
  <2> QED BY <1>7, <2>1, <2>2 DEF SshAuthorize, StepOf
<1>8. ASSUME NEW c \in SshConns, SshDisconnect(c)
      PROVE  StepOf(c)
  <2>1. \A t2 \in Tasks : t2 # c => Frame(t2)
    BY <1>8 DEF SshDisconnect, Frame, TaskInv
  <2>2. TaskInv(c)'
    BY <1>8, <1>c, <1>e, <1>f, RequestTypes DEF SshDisconnect, TaskInv
  <2> QED BY <1>8, <2>1, <2>2 DEF SshDisconnect, StepOf
<1>9. ASSUME NEW c \in PgConns, NEW u \in Users, PgConnect(c, u)
      PROVE  StepOf(c)
  <2>1. \A t2 \in Tasks : t2 # c => Frame(t2)
    BY <1>9 DEF PgConnect, create, Frame, TaskInv
  <2>2. TaskInv(c)'
    <3>1. PICK id \in Fresh : create(c, id, u, "PostgreSQL")
      BY <1>9 DEF PgConnect
    <3>2. at'[c] = id /\ id \in Ids /\ states'[id] = NewAuthState(u, "PostgreSQL")
      BY <3>1 DEF create, Fresh
    <3>3. states'[id] # NoState /\ states'[id].user = u
      BY <3>2, GoodNew DEF Protocols
    <3> QED BY <1>9, <3>2, <3>3, <1>c, <1>e, <1>f DEF PgConnect, TaskInv
  <2> QED BY <1>9, <2>1, <2>2 DEF PgConnect, create, StepOf
<1>10. ASSUME NEW c \in PgConns, PgVerify(c)
      PROVE  StepOf(c)
  <2>1. \A t2 \in Tasks : t2 # c => Frame(t2)
    BY <1>10 DEF PgVerify, Frame, TaskInv
  <2>2. TaskInv(c)'
    <3>1. at[c] \in Ids /\ (verify(states[at[c]]) = "Accepted" => PolicyMet(states[at[c]]))
      BY <1>10, <1>f, <1>g, AcceptedMeetsPolicy DEF PgVerify, TaskInv
    <3>2. pc'[c] \in {"complete", "complete2", "relock", "authorize"}
          => verify(states[at[c]]) = "Accepted"
      BY <1>10 DEF PgVerify
    <3>3. pc'[c] # "lock" /\ UNCHANGED <<states, at, req, letIn, sLock>> /\ at[c] # NoId
      BY <1>10 DEF PgVerify, TaskInv
    <3> QED BY <3>1, <3>2, <3>3, <1>e DEF TaskInv
  <2> QED BY <1>10, <2>1, <2>2 DEF PgVerify, StepOf
<1>11. ASSUME NEW c \in PgConns, PgPassword(c)
      PROVE  StepOf(c)
  <2>1. \A t2 \in Tasks : t2 # c => Frame(t2)
    BY <1>11 DEF PgPassword, Frame, TaskInv
  <2>2. TaskInv(c)'
    BY <1>11, <1>c, <1>e, <1>f, RequestTypes DEF PgPassword, TaskInv
  <2> QED BY <1>11, <2>1, <2>2 DEF PgPassword, StepOf
<1>12. ASSUME NEW c \in PgConns, PgSubscribe(c)
      PROVE  StepOf(c)
  <2>1. \A t2 \in Tasks : t2 # c => Frame(t2)
    BY <1>12 DEF PgSubscribe, subscribe, Frame, TaskInv
  <2>2. TaskInv(c)'
    BY <1>12, <1>c, <1>e, <1>f, RequestTypes DEF PgSubscribe, subscribe, TaskInv
  <2> QED BY <1>12, <2>1, <2>2 DEF PgSubscribe, subscribe, StepOf
<1>13. ASSUME NEW c \in PgConns, PgReceive(c)
      PROVE  StepOf(c)
  <2>1. \A t2 \in Tasks : t2 # c => Frame(t2)
    BY <1>13 DEF PgReceive, Frame, TaskInv
  <2>2. TaskInv(c)'
    BY <1>13, <1>c, <1>e, <1>f, RequestTypes DEF PgReceive, TaskInv
  <2> QED BY <1>13, <2>1, <2>2 DEF PgReceive, StepOf
<1>14. ASSUME NEW c \in PgConns, PgLockStore(c)
      PROVE  StepOf(c)
  <2>1. \A t2 \in Tasks : t2 # c => Frame(t2)
    BY <1>14 DEF PgLockStore, Frame, TaskInv
  <2>2. TaskInv(c)'
    BY <1>14, <1>c, <1>e, <1>f, RequestTypes DEF PgLockStore, TaskInv
  <2> QED BY <1>14, <2>1, <2>2 DEF PgLockStore, StepOf
<1>15. ASSUME NEW c \in PgConns, PgComplete(c)
      PROVE  StepOf(c)
  <2>1. \A t2 \in Tasks : t2 # c => Frame(t2)
    BY <1>15 DEF PgComplete, TakeSignal, Frame, TaskInv
  <2>2. TaskInv(c)'
    BY <1>15, <1>c, <1>e, <1>f, RequestTypes DEF PgComplete, TakeSignal, TaskInv
  <2> QED BY <1>15, <2>1, <2>2 DEF PgComplete, TakeSignal, StepOf
<1>16. ASSUME NEW c \in PgConns, PgAuthorize(c)
      PROVE  StepOf(c)
  <2>1. \A t2 \in Tasks : t2 # c => Frame(t2)
    BY <1>16 DEF PgAuthorize, Frame, TaskInv
  <2>2. TaskInv(c)'
    BY <1>16, <1>c, <1>e, <1>f, RequestTypes DEF PgAuthorize, TaskInv
  <2> QED BY <1>16, <2>1, <2>2 DEF PgAuthorize, StepOf
<1>17. ASSUME NEW c \in MyConns, NEW u \in Users, MyConnect(c, u)
      PROVE  StepOf(c)
  <2>1. \A t2 \in Tasks : t2 # c => Frame(t2)
    BY <1>17 DEF MyConnect, create, Frame, TaskInv
  <2>2. TaskInv(c)'
    <3>1. PICK id \in Fresh : create(c, id, u, "MySQL")
      BY <1>17 DEF MyConnect
    <3>2. at'[c] = id /\ id \in Ids /\ states'[id] = NewAuthState(u, "MySQL")
      BY <3>1 DEF create, Fresh
    <3>3. states'[id] # NoState /\ states'[id].user = u
      BY <3>2, GoodNew DEF Protocols
    <3> QED BY <1>17, <3>2, <3>3, <1>c, <1>e, <1>f DEF MyConnect, TaskInv
  <2> QED BY <1>17, <2>1, <2>2 DEF MyConnect, create, StepOf
<1>18. ASSUME NEW c \in MyConns, MyVerify(c)
      PROVE  StepOf(c)
  <2>1. \A t2 \in Tasks : t2 # c => Frame(t2)
    BY <1>18 DEF MyVerify, Frame, TaskInv
  <2>2. TaskInv(c)'
    BY <1>18, <1>c, <1>e, <1>f, RequestTypes DEF MyVerify, TaskInv
  <2> QED BY <1>18, <2>1, <2>2 DEF MyVerify, StepOf
<1>19. ASSUME NEW c \in MyConns, MyAuthorize(c)
      PROVE  StepOf(c)
  <2>1. \A t2 \in Tasks : t2 # c => Frame(t2)
    BY <1>19 DEF MyAuthorize, Frame, TaskInv
  <2>2. TaskInv(c)'
    <3>1. at[c] \in Ids /\ states[at[c]] # NoState /\ PolicyMet(states[at[c]])
          /\ (c \in SshConns => states[at[c]].user = req[c].user)
      BY <1>19, <1>f, <1>g, AcceptedMeetsPolicy DEF MyAuthorize, TaskInv
    <3>2. states' = states /\ at' = at
      BY <1>19 DEF MyAuthorize
    <3> QED BY <1>19, <3>1, <3>2, <1>e, RequestTypes DEF MyAuthorize, TaskInv
  <2> QED BY <1>19, <2>1, <2>2 DEF MyAuthorize, StepOf
<1>20. ASSUME NEW c \in MyConns, MyEnd(c)
      PROVE  StepOf(c)
  <2>1. \A t2 \in Tasks : t2 # c => Frame(t2)
    BY <1>20 DEF MyEnd, Frame, TaskInv
  <2>2. TaskInv(c)'
    BY <1>20, <1>c, <1>e, <1>f, RequestTypes DEF MyEnd, TaskInv
  <2> QED BY <1>20, <2>1, <2>2 DEF MyEnd, StepOf
<1>21. ASSUME NEW b \in Browsers, NEW u \in Users, HttpBegin(b, u)
      PROVE  StepOf(b)
  <2>1. \A t2 \in Tasks : t2 # b => Frame(t2)
    BY <1>21 DEF HttpBegin, Frame, TaskInv
  <2>2. TaskInv(b)'
    BY <1>21, <1>c, <1>e, <1>f, RequestTypes DEF HttpBegin, TaskInv
  <2> QED BY <1>21, <2>1, <2>2 DEF HttpBegin, StepOf
<1>22. ASSUME NEW b \in Browsers, HttpLogin(b)
      PROVE  StepOf(b)
  <2>1. \A t2 \in Tasks : t2 # b => Frame(t2)
    BY <1>22 DEF HttpLogin, HttpVerdict, Fresh, InStore, Frame, TaskInv
  <2>2. TaskInv(b)'
    <3>1. PICK id \in Ids, s \in AuthStates : HttpVerdict(b, id, s) /\ Good(s)
      BY <1>22, HttpLoginVerdict
    <3>2. states'[id] = s /\ at'[b] = id /\ pc'[b] \in {"relock", "idle"}
          /\ req'[b] \in {req[b], NoReq}
          /\ letIn'[b] \in {letIn[b]} \cup (IF verify(s) = "Accepted" THEN {id} ELSE {})
      BY <3>1 DEF HttpVerdict
    <3>3. s # NoState /\ (verify(s) = "Accepted" => PolicyMet(s))
      BY <3>1, AcceptedMeetsPolicy, GoodIsState
    <3> QED BY <3>2, <3>3, <1>c, <1>e, <1>f, RequestTypes DEF TaskInv
  <2> QED BY <1>22, <2>1, <2>2 DEF HttpLogin, HttpVerdict, Fresh, InStore, StepOf
<1>23. ASSUME NEW b \in Browsers, HttpContinue(b)
      PROVE  StepOf(b)
  <2>1. \A t2 \in Tasks : t2 # b => Frame(t2)
    BY <1>23 DEF HttpContinue, Frame, TaskInv
  <2>2. TaskInv(b)'
    <3>1. at[b] \in Ids /\ (verify(states[at[b]]) = "Accepted" => PolicyMet(states[at[b]]))
          /\ states[at[b]] # NoState
      BY <1>23, <1>f, <1>g, AcceptedMeetsPolicy DEF HttpContinue, InStore, StoreRefs
    <3>2. at'[b] \in {at[b], NoId} /\ pc'[b] = "idle" /\ req'[b] = NoReq /\ states' = states
          /\ letIn'[b] \in {letIn[b]} \cup
                (IF verify(states[at[b]]) = "Accepted" THEN {at[b]} ELSE {})
      BY <1>23 DEF HttpContinue
    <3> QED BY <3>1, <3>2, <1>e, RequestTypes DEF TaskInv
  <2> QED BY <1>23, <2>1, <2>2 DEF HttpContinue, StepOf
<1>24. ASSUME NEW b \in Browsers, HttpCancel(b)
      PROVE  StepOf(b)
  <2>1. \A t2 \in Tasks : t2 # b => Frame(t2)
    BY <1>24 DEF HttpCancel, InStore, Frame, TaskInv
  <2>2. TaskInv(b)'
    BY <1>24, <1>c, <1>e, <1>f, RequestTypes DEF HttpCancel, InStore, TaskInv
  <2> QED BY <1>24, <2>1, <2>2 DEF HttpCancel, InStore, StepOf
<1>25. ASSUME NEW b \in Browsers, HttpReturn(b)
      PROVE  StepOf(b)
  <2>1. \A t2 \in Tasks : t2 # b => Frame(t2)
    BY <1>25 DEF HttpReturn, Frame, TaskInv
  <2>2. TaskInv(b)'
    BY <1>25, <1>c, <1>e, <1>f, RequestTypes DEF HttpReturn, TaskInv
  <2> QED BY <1>25, <2>1, <2>2 DEF HttpReturn, StepOf
<1>26. ASSUME NEW b \in Browsers, HttpLogout(b)
      PROVE  StepOf(b)
  <2>1. \A t2 \in Tasks : t2 # b => Frame(t2)
    BY <1>26 DEF HttpLogout, Frame, TaskInv
  <2>2. TaskInv(b)'
    BY <1>26, <1>c, <1>e, <1>f, RequestTypes DEF HttpLogout, TaskInv
  <2> QED BY <1>26, <2>1, <2>2 DEF HttpLogout, StepOf
<1>27. ASSUME NEW w \in Portals, NEW verb \in {"list", "approve", "reject"}, NEW id,
              PortalBegin(w, verb, id)
      PROVE  StepOf(w)
  <2>1. \A t2 \in Tasks : t2 # w => Frame(t2)
    BY <1>27 DEF PortalBegin, Frame, TaskInv
  <2>2. TaskInv(w)'
    <3>1. at'[w] # NoId => states'[at'[w]] # NoState
      BY <1>27 DEF PortalBegin, StoreRefs, TaskInv
    <3>2. req'[w].cred = NoCred /\ pc'[w] \in {"list", "peek"} /\ letIn' = letIn /\ states' = states
          /\ (pc'[w] = "peek" => at'[w] # NoId)
      BY <1>27 DEF PortalBegin
    <3> QED BY <3>1, <3>2, <1>e DEF TaskInv
  <2> QED BY <1>27, <2>1, <2>2 DEF PortalBegin, StepOf
<1>28. ASSUME NEW w \in Portals, NEW id \in Ids, PortalScan(w, id)
      PROVE  StepOf(w)
  <2>1. \A t2 \in Tasks : t2 # w => Frame(t2)
    BY <1>28 DEF PortalScan, Frame, TaskInv
  <2>2. TaskInv(w)'
    BY <1>28, <1>c, <1>e, <1>f, RequestTypes DEF PortalScan, TaskInv
  <2> QED BY <1>28, <2>1, <2>2 DEF PortalScan, StepOf
<1>29. ASSUME NEW w \in Portals, PortalListed(w)
      PROVE  StepOf(w)
  <2>1. \A t2 \in Tasks : t2 # w => Frame(t2)
    BY <1>29 DEF PortalListed, PortalDone, Frame, TaskInv
  <2>2. TaskInv(w)'
    BY <1>29, <1>c, <1>e, <1>f, RequestTypes DEF PortalListed, PortalDone, TaskInv
  <2> QED BY <1>29, <2>1, <2>2 DEF PortalListed, PortalDone, StepOf
<1>30. ASSUME NEW w \in Portals, PortalPeek(w)
      PROVE  StepOf(w)
  <2>1. \A t2 \in Tasks : t2 # w => Frame(t2)
    BY <1>30 DEF PortalPeek, PortalDone, Frame, TaskInv
  <2>2. TaskInv(w)'
    BY <1>30, <1>c, <1>e, <1>f, RequestTypes DEF PortalPeek, PortalDone, TaskInv
  <2> QED BY <1>30, <2>1, <2>2 DEF PortalPeek, PortalDone, StepOf
<1>31. ASSUME NEW w \in Portals, PortalAct(w)
      PROVE  StepOf(w)
  <2>1. \A t2 \in Tasks : t2 # w => Frame(t2)
    BY <1>31 DEF PortalAct, PortalDone, Frame, TaskInv
  <2>2. TaskInv(w)'
    BY <1>31, <1>c, <1>e, <1>f, RequestTypes DEF PortalAct, PortalDone, TaskInv
  <2> QED BY <1>31, <2>1, <2>2 DEF PortalAct, PortalDone, StepOf
<1>32. ASSUME NEW w \in Portals, PortalComplete(w)
      PROVE  StepOf(w)
  <2>1. \A t2 \in Tasks : t2 # w => Frame(t2)
    BY <1>32 DEF PortalComplete, PortalDone, TakeSignal, Frame, TaskInv
  <2>2. TaskInv(w)'
    BY <1>32, <1>c, <1>e, <1>f, RequestTypes DEF PortalComplete, PortalDone, TakeSignal,
       TaskInv
  <2> QED BY <1>32, <2>1, <2>2 DEF PortalComplete, PortalDone, TakeSignal, StepOf
<1>33. ASSUME NEW t \in Tasks, CompleteSend(t)
      PROVE  StepOf(t)
  <2>1. \A t2 \in Tasks : t2 # t => Frame(t2)
    BY <1>33 DEF CompleteSend, PortalDone, Frame, TaskInv
  <2>2. TaskInv(t)'
    BY <1>33, <1>c, <1>e, <1>f, RequestTypes DEF CompleteSend, PortalDone, TaskInv
  <2> QED BY <1>33, <2>1, <2>2 DEF CompleteSend, PortalDone, StepOf
<1>34. ASSUME NEW old \in SUBSET Ids, NEW oldSigs \in SUBSET Ids, Vacuum(old, oldSigs)
      PROVE  \A t \in Tasks : Frame(t)
  BY <1>34 DEF Vacuum, Frame
<1>35. CASE UNCHANGED vars
  BY <1>35 DEF vars, Frame
<1>36. ASSUME NEW t \in Abortable, Abort(t)
      PROVE  StepOf(t)
  <2> t \in Tasks /\ t \notin SshConns
    BY StoreAssumption
  <2>1. \A t2 \in Tasks : t2 # t => Frame(t2)
    BY <1>36 DEF Abort, Frame
  <2>2. TaskInv(t)'
    BY <1>36, <1>c, <1>e, <1>f, RequestTypes DEF Abort, TaskInv, Tasks, Conns
  <2> QED BY <1>36, <2>1, <2>2 DEF Abort, StepOf
<1> QED
  BY <1>1, <1>2, <1>3, <1>4, <1>5, <1>6, <1>7, <1>8, <1>9, <1>10, <1>11, <1>12, <1>13,
     <1>14, <1>15, <1>16, <1>17, <1>18, <1>19, <1>20, <1>21, <1>22, <1>23, <1>24, <1>25,
     <1>26, <1>27, <1>28, <1>29, <1>30, <1>31, <1>32, <1>33, <1>34, <1>35, <1>36
  DEF Next, Outside, SshStep, PgStep, MyStep, HttpStep, PortalStep

-----------------------------------------------------------------------------
(* The theorems. *)

\* Every id in the store names an AuthState after every step, too.
LEMMA NextStoreRefs ==
    ASSUME IndInv, [Next]_vars
    PROVE  StoreRefs'
<1> USE DEF IndInv, StoreRefs
<1>1. \A id \in store : states'[id] # NoState
  <2>1. StatesStep /\ \A id \in store : id \in Ids /\ states[id] # NoState
    BY NextStatesStep DEF References, TypeOK
  <2> QED BY <2>1, StatesStepGood
<1>2. ASSUME store' \subseteq store PROVE StoreRefs'
  BY <1>1, <1>2
<1>3. ASSUME NEW t, NEW id \in Fresh, NEW u \in Users, NEW p \in Protocols,
             create(t, id, u, p)
      PROVE  StoreRefs'
  <2>1. states'[id] # NoState
    BY <1>3, GoodNew DEF create, Fresh, TypeOK
  <2> QED BY <1>1, <1>3, <2>1 DEF create
<1>4. ASSUME NEW c \in SshConns, SshGetAuthState(c) PROVE StoreRefs'
  <2>1. req[c].user \in Users /\ "SSH" \in Protocols
    BY DEF TypeOK, Requests, Tasks, Conns, Protocols
  <2> QED BY <1>2, <1>3, <1>4, <2>1 DEF SshGetAuthState
<1>5. ASSUME NEW c \in PgConns, NEW u \in Users, PgConnect(c, u) PROVE StoreRefs'
  BY <1>3, <1>5 DEF PgConnect, Protocols
<1>6. ASSUME NEW c \in MyConns, NEW u \in Users, MyConnect(c, u) PROVE StoreRefs'
  BY <1>3, <1>6 DEF MyConnect, Protocols
<1>7. ASSUME NEW b \in Browsers, HttpLogin(b) PROVE StoreRefs'
  <2>1. CASE UNCHANGED store
    BY <1>2, <2>1
  <2>2. CASE ~UNCHANGED store
    <3> DEFINE s == WithCred(NewAuthState(req[b].user, "HTTP"), req[b].cred)
    <3>1. PICK id \in Fresh : states' = [states EXCEPT ![id] = s] /\ store' = store \cup {id}
      BY <1>7, <2>2 DEF HttpLogin, HttpVerdict
    <3>2. req[b].user \in Users /\ req[b].cred \in Creds[req[b].user] \cup {NoCred}
      BY DEF TypeOK, Requests, RightUser, Tasks
    <3>3. s # NoState
      BY <3>2, GoodNew, GoodWithCred, GoodIsState DEF Protocols
    <3> QED BY <1>1, <3>1, <3>3 DEF Fresh, TypeOK
  <2> QED BY <2>1, <2>2
<1> QED
  BY <1>2, <1>4, <1>5, <1>6, <1>7
  DEF Next, vars, Outside, SshStep, PgStep, MyStep, HttpStep, PortalStep,
      SshRequest, SshReceive, SshVerify, SshSubscribe, HoldComplete, SshAuthorize,
      SshDisconnect, PgVerify, PgPassword, PgSubscribe, PgReceive, PgLockStore,
      PgComplete, PgAuthorize, MyVerify, MyAuthorize, MyEnd, HttpBegin,
      HttpContinue, HttpCancel, HttpReturn, HttpLogout, PortalBegin, PortalScan,
      PortalListed, PortalPeek, PortalAct, PortalComplete, CompleteSend, Vacuum,
      Abort, shared, locks

\* The initial state of the store, with no login in flight, satisfies IndInv.
LEMMA InitIndInv == Init => IndInv
<1> SUFFICES ASSUME Init PROVE IndInv
  OBVIOUS
<1>1. TypeOK
  BY RequestTypes, ReceiverTypes DEF Init, TypeOK, Places
<1>2. AllGood /\ StoreRefs
  BY DEF Init, AllGood, StoreRefs
<1>3. \A t \in Tasks : TaskInv(t)
  BY RequestTypes DEF Init, TaskInv
<1> QED BY <1>1, <1>2, <1>3, TaskInvs

\* IndInv is inductive.
LEMMA NextIndInv == IndInv /\ [Next]_vars => IndInv'
<1> SUFFICES ASSUME IndInv, [Next]_vars PROVE IndInv'
  OBVIOUS
<1>1. StatesStep /\ TypeOK' /\ StoreRefs'
  BY NextStatesStep, NextTypeOK, NextStoreRefs
<1>2. AllGood'
  BY <1>1, StatesStepGood DEF IndInv
<1>3. \A t \in Tasks : TaskInv(t)'
  BY <1>1, NextStepOf, FrameInv DEF StepOf
<1>4. (TypeOK /\ AllGood /\ StoreRefs /\ \A t \in Tasks : TaskInv(t))' => IndInv'
  BY TaskInvs, PTL
<1> QED BY <1>1, <1>2, <1>3, <1>4

\* IndInv is an invariant: whatever the logins, the portal and the vacuum do next,
\* each task's position still agrees with the AuthState it stands on.
THEOREM IndInvHolds == Spec => []IndInv
BY InitIndInv, NextIndInv, PTL DEF Spec

\* Type correctness: the store, the receivers, the locks and the position of
\* every task of AuthStateStore stay in their domains.
THEOREM TypeCorrect == Spec => []TypeOK
<1>1. IndInv => TypeOK
  BY DEF IndInv
<1> QED BY <1>1, IndInvHolds, PTL

\* Nobody is let in by SSH, PostgreSQL, MySQL or a browser login on an AuthState
\* that does not meet the stored policy of its user, however the logins, the
\* approvals and the vacuum interleave.
THEOREM PolicyEnforced == Spec => []LetInMeetsPolicy
<1>1. IndInv => LetInMeetsPolicy
  BY DEF IndInv
<1> QED BY <1>1, IndInvHolds, PTL

\* A validated credential is only ever recorded on an AuthState of the user who
\* enrolled it.
THEOREM CredentialsStayWithUser == Spec => []CredentialsBelongToUser
<1>1. IndInv => CredentialsBelongToUser
  BY DEF IndInv, AllGood, Good, CredentialsBelongToUser
<1> QED BY <1>1, IndInvHolds, PTL

\* No SSH or MySQL session goes live on a login that was rejected: the guard
\* held from verify() on keeps a late rejection out.
THEOREM RejectionWins == Spec => RejectedNeverGoesLive
<1>1. ASSUME IndInv, [Next]_vars
      PROVE  \A c \in SshConns \cup MyConns :
               pc'[c] = "live" /\ pc[c] # "live" => ~states[at[c]].rejected
  <2> SUFFICES ASSUME NEW c \in SshConns \cup MyConns, pc'[c] = "live", pc[c] # "live"
               PROVE  ~states[at[c]].rejected
    OBVIOUS
  <2>1. c \in Tasks
    BY DEF Tasks, Conns
  <2>2. pc[c] = "authorize"
    BY <1>1, <2>1, NextStepOf DEF StepOf, Frame
  <2>3. at[c] \in Ids /\ Good(states[at[c]]) /\ verify(states[at[c]]) = "Accepted"
    BY <1>1, <2>1, <2>2 DEF IndInv, Guarded, References, AllGood, TypeOK
  <2> QED BY <2>3, AcceptedMeetsPolicy
<1>2. IndInv /\ [Next]_vars =>
        [\A c \in SshConns \cup MyConns :
           pc'[c] = "live" /\ pc[c] # "live" => ~states[at[c]].rejected]_vars
  BY <1>1
<1> QED BY <1>2, IndInvHolds, PTL DEF Spec, RejectedNeverGoesLive
-----------------------------------------------------------------------------
(* Who decides a login. *)

\* s2 is s after a decision: an approval was added, or it was rejected.
Decided(s, s2) ==
    \/ "WebUserApproval" \in s2.valid \ s.valid
    \/ s2.rejected /\ ~s.rejected

\* A portal request that is about to act stands on a login of its own user, and
\* the AuthState a browser session remembers is one of a browser login.
OwnInv ==
    /\ \A w \in Portals : pc[w] = "act" => states[at[w]].user = PortalUser[w]
    /\ \A b \in Browsers : at[b] # NoId => states[at[b]].protocol = "HTTP"

\* Presenting a credential decides nothing: nobody has enrolled an approval.
LEMMA CredIsNoDecision ==
    ASSUME NEW s, Good(s), NEW k \in Creds[s.user] \cup {NoCred}
    PROVE  ~Decided(s, WithCred(s, k))
<1>1. "WebUserApproval" \notin Creds[s.user]
  BY PolicyAssumption DEF Good, AuthStates
<1>2. CASE k = NoCred
  BY <1>2 DEF WithCred, Decided
<1>3. CASE k # NoCred
  BY <1>1, <1>3 DEF WithCred, add_valid_credential, Decided, Good, AuthStates
<1> QED BY <1>2, <1>3

\* What a browser login leaves: its AuthState is of the protocol HTTP, and a login
\* that existed before has not been decided.
LEMMA HttpLoginOwn ==
    ASSUME IndInv, OwnInv, NEW b \in Browsers, HttpLogin(b)
    PROVE  \E id \in Ids, s \in AuthStates :
             /\ states' = [states EXCEPT ![id] = s] /\ at' = [at EXCEPT ![b] = id]
             /\ s.protocol = "HTTP"
             /\ states[id] # NoState => ~Decided(states[id], s)
<1> USE DEF IndInv
<1>0. req[b].user \in Users /\ req[b].cred \in Creds[req[b].user] \cup {NoCred}
  BY DEF TypeOK, Requests, RightUser, Tasks
<1>1. CASE InStore(b) /\ states[at[b]].user = req[b].user
  <2> DEFINE s == WithCred(states[at[b]], req[b].cred)
  <2>1. at[b] \in Ids /\ states[at[b]] # NoState /\ Good(states[at[b]])
    BY <1>1 DEF HttpLogin, InStore, TypeOK, References, AllGood
  <2>2. HttpVerdict(b, at[b], s)
    BY <1>1 DEF HttpLogin
  <2>3. Good(s) /\ Evolves(states[at[b]], s) /\ ~Decided(states[at[b]], s)
    BY <1>0, <1>1, <2>1, GoodWithCred, CredIsNoDecision
  <2>4. states[at[b]].protocol = "HTTP"
    BY <2>1, StoreAssumption DEF OwnInv
  <2> HIDE DEF s
  <2>5. s \in AuthStates /\ s.protocol = "HTTP"
    BY <2>3, <2>4 DEF Good, Evolves
  <2>6. states' = [states EXCEPT ![at[b]] = s] /\ at' = [at EXCEPT ![b] = at[b]]
    BY <2>2 DEF HttpVerdict
  <2> QED BY <2>1, <2>3, <2>5, <2>6
<1>2. CASE ~(InStore(b) /\ states[at[b]].user = req[b].user)
  <2> DEFINE new == NewAuthState(req[b].user, "HTTP")
             s == WithCred(new, req[b].cred)
  <2>1. PICK id \in Fresh : HttpVerdict(b, id, s)
    BY <1>2 DEF HttpLogin
  <2>2. Good(new) /\ new.user = req[b].user /\ new.protocol = "HTTP"
    BY <1>0, GoodNew DEF Protocols, NewAuthState
  <2>3. Good(s) /\ Evolves(new, s)
    BY <2>2, <1>0, GoodWithCred
  <2> HIDE DEF s, new
  <2>4. s \in AuthStates /\ s.protocol = "HTTP"
    BY <2>2, <2>3 DEF Good, Evolves
  <2>5. states' = [states EXCEPT ![id] = s] /\ at' = [at EXCEPT ![b] = id]
    BY <2>1 DEF HttpVerdict
  <2>6. id \in Ids /\ states[id] = NoState
    BY DEF Fresh
  <2> QED BY <2>4, <2>5, <2>6
<1> QED BY <1>1, <1>2

\* A step that decides a login is a portal's PortalAct on it, or the cancellation
\* of the browser session's own login.
LEMMA NextDecides ==
    ASSUME IndInv, OwnInv, [Next]_vars, NEW id \in Ids, states[id] # NoState,
           Decided(states[id], states'[id])
    PROVE  \/ \E w \in Portals : PortalAct(w) /\ at[w] = id
           \/ \E b \in Browsers : /\ HttpCancel(b) /\ at[b] = id
                                  /\ states'[id] = reject(states[id])
<1> USE DEF IndInv
<1> DEFINE Claim == \/ \E w \in Portals : PortalAct(w) /\ at[w] = id
                    \/ \E b \in Browsers : /\ HttpCancel(b) /\ at[b] = id
                                           /\ states'[id] = reject(states[id])
<1>0. states'[id] # states[id]
  BY DEF Decided
<1>1. ASSUME NEW t, NEW i \in Fresh, NEW u, NEW p, create(t, i, u, p)
      PROVE  FALSE
  BY <1>0, <1>1 DEF create, Fresh, TypeOK
<1>2. ASSUME NEW c \in SshConns, SshGetAuthState(c) PROVE FALSE
  BY <1>0, <1>1, <1>2 DEF SshGetAuthState
<1>3. ASSUME NEW c \in SshConns, SshVerify(c) PROVE FALSE
  <2>1. at[c] \in Ids /\ states[at[c]] # NoState /\ Good(states[at[c]])
        /\ req[c].cred \in Creds[states[at[c]].user] \cup {NoCred}
    BY <1>3 DEF SshVerify, TypeOK, References, RightUser, AllGood, Tasks, Conns
  <2>2. states' = [states EXCEPT ![at[c]] = WithCred(states[at[c]], req[c].cred)]
    BY <1>3 DEF SshVerify
  <2>3. ~Decided(states[at[c]], WithCred(states[at[c]], req[c].cred))
    BY <2>1, CredIsNoDecision
  <2> QED BY <1>0, <2>1, <2>2, <2>3 DEF TypeOK
<1>4. ASSUME NEW c \in PgConns, NEW u \in Users, PgConnect(c, u) PROVE FALSE
  BY <1>1, <1>4 DEF PgConnect
<1>5. ASSUME NEW c \in PgConns, PgPassword(c) PROVE FALSE
  <2>1. at[c] \in Ids /\ Good(states[at[c]])
    BY <1>5 DEF PgPassword, TypeOK, References, AllGood, Tasks, Conns
  <2>2. "Password" \in Creds[states[at[c]].user]
        /\ states' = [states EXCEPT ![at[c]] = add_valid_credential(states[at[c]], "Password")]
    BY <1>0, <1>5, <2>1 DEF PgPassword, TypeOK
  <2>3. ~Decided(states[at[c]], add_valid_credential(states[at[c]], "Password"))
    BY <2>1 DEF Decided, add_valid_credential, Good, AuthStates
  <2> QED BY <1>0, <2>1, <2>2, <2>3 DEF TypeOK
<1>6. ASSUME NEW c \in MyConns, NEW u \in Users, MyConnect(c, u) PROVE FALSE
  BY <1>1, <1>6 DEF MyConnect
<1>7. ASSUME NEW c \in MyConns, MyVerify(c) PROVE FALSE
  <2>1. at[c] \in Ids /\ states[at[c]] # NoState /\ Good(states[at[c]])
        /\ req[c].cred \in Creds[states[at[c]].user] \cup {NoCred}
    BY <1>7 DEF MyVerify, TypeOK, References, RightUser, AllGood, Tasks, Conns
  <2>2. states' = [states EXCEPT ![at[c]] = WithCred(states[at[c]], req[c].cred)]
    BY <1>7 DEF MyVerify
  <2>3. ~Decided(states[at[c]], WithCred(states[at[c]], req[c].cred))
    BY <2>1, CredIsNoDecision
  <2> QED BY <1>0, <2>1, <2>2, <2>3 DEF TypeOK
<1>8. ASSUME NEW b \in Browsers, HttpLogin(b) PROVE FALSE
  <2>1. PICK i \in Ids, s \in AuthStates :
          /\ states' = [states EXCEPT ![i] = s]
          /\ states[i] # NoState => ~Decided(states[i], s)
    BY <1>8, HttpLoginOwn
  <2> QED BY <1>0, <2>1 DEF TypeOK
<1>9. ASSUME NEW b \in Browsers, HttpCancel(b) PROVE Claim
  <2>1. at[b] \in Ids /\ states' = [states EXCEPT ![at[b]] = reject(states[at[b]])]
    BY <1>9 DEF HttpCancel, InStore, TypeOK
  <2>2. at[b] = id /\ states'[id] = reject(states[id])
    BY <1>0, <2>1 DEF TypeOK
  <2> QED BY <1>9, <2>2
<1>10. ASSUME NEW w \in Portals, PortalAct(w) PROVE Claim
  <2>1. at[w] \in Ids /\ \E s : states' = [states EXCEPT ![at[w]] = s]
    BY <1>10 DEF PortalAct, TypeOK, References, Tasks
  <2>2. at[w] = id
    BY <1>0, <2>1 DEF TypeOK
  <2> QED BY <1>10, <2>2
<1> HIDE DEF Claim
<1>11. Claim
  BY <1>0, <1>2, <1>3, <1>4, <1>5, <1>6, <1>7, <1>8, <1>9, <1>10
  DEF Next, vars, Outside, SshStep, PgStep, MyStep, HttpStep, PortalStep,
      SshRequest, SshReceive, SshSubscribe, HoldComplete, SshAuthorize,
      SshDisconnect, PgVerify, PgSubscribe, PgReceive, PgLockStore, PgComplete,
      PgAuthorize, MyAuthorize, MyEnd, HttpBegin, HttpContinue, HttpReturn,
      HttpLogout, PortalBegin, PortalScan, PortalListed, PortalPeek,
      PortalComplete, CompleteSend, Vacuum, Abort, shared, locks
<1> QED BY <1>11 DEF Claim

\* What a step changes of what OwnInv speaks of: a portal comes to act only after it
\* compared the owner, on the same AuthState; a browser session comes to remember
\* another AuthState only if that is of the protocol HTTP.
LEMMA NextOwn ==
    ASSUME IndInv, OwnInv, [Next]_vars
    PROVE  /\ \A w \in Portals : pc'[w] = "act" =>
                /\ at'[w] = at[w] /\ pc[w] \in {"act", "peek"}
                /\ pc[w] = "act" \/ states[at[w]].user = PortalUser[w]
           /\ \A b \in Browsers : at'[b] # NoId =>
                at'[b] = at[b] \/ (at'[b] \in Ids /\ states'[at'[b]].protocol = "HTTP")
<1> DEFINE POk == \A w \in Portals : pc'[w] = "act" =>
                    /\ at'[w] = at[w] /\ pc[w] \in {"act", "peek"}
                    /\ pc[w] = "act" \/ states[at[w]].user = PortalUser[w]
           BOk == \A b \in Browsers : at'[b] # NoId =>
                    at'[b] = at[b] \/ (at'[b] \in Ids /\ states'[at'[b]].protocol = "HTTP")
<1>a. /\ pc \in [Tasks -> Places] /\ at \in [Tasks -> Ids \cup {NoId}]
      /\ Browsers \subseteq Tasks /\ Portals \subseteq Tasks
      /\ SshConns \subseteq Tasks /\ PgConns \subseteq Tasks /\ MyConns \subseteq Tasks
      /\ Abortable \subseteq Tasks /\ Browsers \cap Portals = {}
      /\ \A c \in SshConns \cup PgConns \cup MyConns : c \notin Browsers \cup Portals
  BY StoreAssumption DEF IndInv, TypeOK, Tasks, Conns
<1> HIDE DEF POk, BOk
<1>b. ASSUME \A x \in Browsers \cup Portals : pc'[x] = pc[x] /\ at'[x] = at[x]
      PROVE  POk /\ BOk
  BY <1>b DEF POk, BOk
<1> USE DEF Goto, Answered, PortalDone, shared, locks
<1>1. ASSUME NEW c \in SshConns,
             \/ SshStep(c) \/ SshDisconnect(c) \/ \E u \in Users : SshRequest(c, u)
      PROVE  POk /\ BOk
  <2>1. CASE SshStep(c)
    BY <2>1, <1>a, <1>b
    DEF SshStep, SshReceive, SshGetAuthState, create, SshVerify, SshSubscribe,
        HoldComplete, SshAuthorize
  <2>2. CASE SshDisconnect(c) \/ \E u \in Users : SshRequest(c, u)
    BY <2>2, <1>a, <1>b DEF SshDisconnect, SshRequest
  <2> QED BY <1>1, <2>1, <2>2
<1>2. ASSUME NEW c \in PgConns,
             \/ PgStep(c) \/ PgPassword(c) \/ \E u \in Users : PgConnect(c, u)
      PROVE  POk /\ BOk
  BY <1>2, <1>a, <1>b
  DEF PgStep, PgVerify, PgSubscribe, PgReceive, PgLockStore, PgComplete, PgAuthorize,
      PgPassword, PgConnect, create
<1>3. ASSUME NEW c \in MyConns,
             \/ MyStep(c) \/ MyEnd(c) \/ \E u \in Users : MyConnect(c, u)
      PROVE  POk /\ BOk
  BY <1>3, <1>a, <1>b
  DEF MyStep, MyVerify, HoldComplete, MyAuthorize, MyEnd, MyConnect, create
<1>4. ASSUME NEW b \in Browsers, HttpLogin(b)
      PROVE  POk /\ BOk
  <2>1. \A w \in Portals : pc'[w] = pc[w] /\ at'[w] = at[w]
    BY <1>4, <1>a DEF HttpLogin, HttpVerdict
  <2>2. PICK i \in Ids, s \in AuthStates :
          /\ states' = [states EXCEPT ![i] = s] /\ at' = [at EXCEPT ![b] = i]
          /\ s.protocol = "HTTP"
    BY <1>4, HttpLoginOwn
  <2>3. at'[b] = i /\ states'[i] = s
    BY <2>2, <1>a DEF IndInv, TypeOK
  <2>4. \A b2 \in Browsers : b2 # b => at'[b2] = at[b2]
    BY <2>2, <1>a
  <2> QED BY <2>1, <2>2, <2>3, <2>4 DEF POk, BOk
<1>5. ASSUME NEW b \in Browsers,
             \/ HttpContinue(b) \/ HttpCancel(b) \/ HttpReturn(b) \/ HttpLogout(b)
             \/ \E u \in Users : HttpBegin(b, u)
      PROVE  POk /\ BOk
  <2>1. \A w \in Portals : pc'[w] = pc[w] /\ at'[w] = at[w]
    BY <1>5, <1>a DEF HttpContinue, HttpCancel, HttpReturn, HttpLogout, HttpBegin
  <2>2. at' \in {at, [at EXCEPT ![b] = NoId]}
    BY <1>5 DEF HttpContinue, HttpCancel, HttpReturn, HttpLogout, HttpBegin
  <2> QED BY <2>1, <2>2, <1>a DEF POk, BOk
<1>6. ASSUME NEW w \in Portals, PortalPeek(w)
      PROVE  POk /\ BOk
  <2>1. \A x \in Browsers \cup Portals : x # w => pc'[x] = pc[x] /\ at'[x] = at[x]
    BY <1>6, <1>a DEF PortalPeek
  <2>2. pc'[w] = "act" =>
          at'[w] = at[w] /\ pc[w] = "peek" /\ states[at[w]].user = PortalUser[w]
    BY <1>6, <1>a DEF PortalPeek
  <2> QED BY <2>1, <2>2, <1>a DEF POk, BOk
<1>7. ASSUME NEW w \in Portals,
             \/ PortalListed(w) \/ PortalAct(w) \/ PortalComplete(w)
             \/ \E id \in Ids : PortalScan(w, id)
             \/ \E verb, id : PortalBegin(w, verb, id)
      PROVE  POk /\ BOk
  <2>1. \A x \in Browsers \cup Portals : x # w => pc'[x] = pc[x] /\ at'[x] = at[x]
    BY <1>7, <1>a DEF PortalListed, PortalAct, PortalComplete, PortalScan, PortalBegin
  <2>2. pc'[w] # "act"
    BY <1>7, <1>a DEF PortalListed, PortalAct, PortalComplete, PortalScan, PortalBegin
  <2> QED BY <2>1, <2>2, <1>a DEF POk, BOk
<1>8. ASSUME NEW t \in Tasks, CompleteSend(t)
      PROVE  POk /\ BOk
  <2>1. \A x \in Browsers \cup Portals : x # t => pc'[x] = pc[x] /\ at'[x] = at[x]
    BY <1>8, <1>a DEF CompleteSend
  <2>2. pc'[t] # "act" /\ (t \in Browsers => at'[t] = at[t])
    BY <1>8, <1>a DEF CompleteSend
  <2> QED BY <2>1, <2>2, <1>a DEF POk, BOk
<1>9. ASSUME NEW t \in Abortable, Abort(t)
      PROVE  POk /\ BOk
  <2>1. \A x \in Browsers \cup Portals : x # t => pc'[x] = pc[x] /\ at'[x] = at[x]
    BY <1>9, <1>a DEF Abort
  <2>2. pc'[t] # "act" /\ (t \in Browsers => at'[t] = at[t])
    BY <1>9, <1>a DEF Abort, Conns
  <2> QED BY <2>1, <2>2, <1>a DEF POk, BOk
<1>10. ASSUME NEW old \in SUBSET Ids, NEW oldSigs \in SUBSET Ids, Vacuum(old, oldSigs)
       PROVE  POk /\ BOk
  BY <1>10, <1>b DEF Vacuum
<1>11. ASSUME UNCHANGED vars PROVE POk /\ BOk
  BY <1>11, <1>b DEF vars
<1>12. ASSUME Outside PROVE POk /\ BOk
  <2>1. ASSUME \/ \E w \in Portals, id \in Ids : PortalBegin(w, "approve", id)
               \/ \E w \in Portals, id \in Ids : PortalBegin(w, "reject", id)
               \/ \E w \in Portals : PortalBegin(w, "list", NoId)
        PROVE  POk /\ BOk
    BY <2>1, <1>7, Zenon
  <2>2. ASSUME NEW u \in Users,
               \/ \E c \in SshConns : SshRequest(c, u)
               \/ \E c \in PgConns : PgConnect(c, u)
               \/ \E c \in MyConns : MyConnect(c, u)
               \/ \E b \in Browsers : HttpBegin(b, u)
        PROVE  POk /\ BOk
    BY <1>1, <1>2, <1>3, <1>5, <2>2
  <2>3. ASSUME \/ \E c \in SshConns : SshDisconnect(c)
               \/ \E c \in PgConns : PgPassword(c)
               \/ \E c \in MyConns : MyEnd(c)
               \/ \E b \in Browsers : HttpLogout(b)
        PROVE  POk /\ BOk
    BY <1>1, <1>2, <1>3, <1>5, <2>3
  <2> QED BY <1>9, <1>12, <2>1, <2>2, <2>3 DEF Outside
<1>13. ASSUME NEW w \in Portals, PortalStep(w)
       PROVE  POk /\ BOk
  BY <1>6, <1>7, <1>13 DEF PortalStep
<1>14. ASSUME NEW b \in Browsers, HttpStep(b)
       PROVE  POk /\ BOk
  BY <1>4, <1>5, <1>14 DEF HttpStep
<1>15. ASSUME \/ \E c \in SshConns : SshStep(c)
              \/ \E c \in PgConns : PgStep(c)
              \/ \E c \in MyConns : MyStep(c)
       PROVE  POk /\ BOk
  BY <1>1, <1>2, <1>3, <1>15
<1>16. POk /\ BOk
  BY <1>8, <1>10, <1>11, <1>12, <1>13, <1>14, <1>15 DEF Next
<1> QED BY <1>16 DEF POk, BOk

\* OwnInv is inductive beside IndInv: an AuthState keeps its user and protocol, so
\* the owner compared in PortalPeek is still the owner when PortalAct runs, though
\* both guards were dropped in between.
LEMMA NextOwnInv == IndInv /\ OwnInv /\ [Next]_vars => OwnInv'
<1> SUFFICES ASSUME IndInv, OwnInv, [Next]_vars PROVE OwnInv'
  OBVIOUS
<1>0. TypeOK /\ AllGood /\ StatesStep /\ NoId \notin Ids
      /\ Portals \subseteq Tasks /\ Browsers \subseteq Tasks
  BY NextStatesStep, StoreAssumption DEF IndInv, Tasks
<1>1. \A id \in Ids : states[id] # NoState =>
        states'[id].user = states[id].user /\ states'[id].protocol = states[id].protocol
  BY <1>0 DEF StatesStep, Evolves
<1>2. ASSUME NEW w \in Portals, pc'[w] = "act" PROVE states'[at'[w]].user = PortalUser[w]
  <2>1. at'[w] = at[w] /\ states[at[w]].user = PortalUser[w]
    BY <1>2, NextOwn DEF OwnInv
  <2>2. at[w] \in Ids /\ states[at[w]] # NoState
    <3>1. pc[w] \in {"act", "peek"} /\ w \in Tasks
      BY <1>0, <1>2, NextOwn
    <3> QED BY <3>1, <1>0 DEF IndInv, References, TypeOK
  <2> QED BY <1>1, <2>1, <2>2
<1>3. ASSUME NEW b \in Browsers, at'[b] # NoId PROVE states'[at'[b]].protocol = "HTTP"
  <2>1. CASE at'[b] = at[b]
    <3>1. at[b] \in Ids /\ states[at[b]] # NoState /\ states[at[b]].protocol = "HTTP"
      BY <1>0, <1>3, <2>1 DEF IndInv, References, TypeOK, OwnInv
    <3> QED BY <1>1, <2>1, <3>1
  <2>2. CASE at'[b] # at[b]
    BY <1>3, <2>2, NextOwn
  <2> QED BY <2>1, <2>2
<1> QED BY <1>2, <1>3 DEF OwnInv

\* Approving or rejecting a pending SSH or database login, and approving any login, is done
\* only by a portal request of the login's own user, although get_auth_state drops
\* the guards under which it compared the owner before the handler acts.
THEOREM OwnersDecide == Spec => OnlyOwnerDecides
<1> DEFINE Step ==
      \A id \in Ids :
         states[id] # NoState /\ states'[id] # states[id]
         /\ ("WebUserApproval" \in states'[id].valid \ states[id].valid
             \/ (states'[id].rejected /\ ~states[id].rejected
                 /\ states[id].protocol # "HTTP"))
         => \E w \in Portals : /\ pc[w] = "act" /\ at[w] = id
                               /\ PortalUser[w] = states[id].user
<1>1. ASSUME IndInv, OwnInv, [Next]_vars PROVE Step
  <2> SUFFICES ASSUME NEW id \in Ids, states[id] # NoState,
                      \/ "WebUserApproval" \in states'[id].valid \ states[id].valid
                      \/ (states'[id].rejected /\ ~states[id].rejected
                          /\ states[id].protocol # "HTTP")
               PROVE  \E w \in Portals : /\ pc[w] = "act" /\ at[w] = id
                                         /\ PortalUser[w] = states[id].user
    OBVIOUS
  <2>1. Decided(states[id], states'[id])
    BY DEF Decided
  <2>2. CASE \E w \in Portals : PortalAct(w) /\ at[w] = id
    BY <1>1, <2>2 DEF PortalAct, OwnInv
  <2>3. CASE \E b \in Browsers : at[b] = id /\ states'[id] = reject(states[id])
    <3>1. states[id].protocol = "HTTP"
      BY <1>1, <2>3, StoreAssumption DEF OwnInv
    <3>2. states'[id].valid = states[id].valid
      BY <1>1, <2>3 DEF reject, IndInv, TypeOK, AuthStates
    <3> QED BY <3>1, <3>2
  <2> QED BY <1>1, <2>1, <2>2, <2>3, NextDecides
<1>2. IndInv /\ OwnInv /\ [Next]_vars => [Step]_vars
  BY <1>1
<1>3. Init => OwnInv
  BY DEF Init, OwnInv, Tasks
<1>4. Spec => []OwnInv
  BY <1>3, NextOwnInv, IndInvHolds, PTL DEF Spec
<1> QED BY <1>2, <1>4, IndInvHolds, PTL DEF Spec, OnlyOwnerDecides
=============================================================================
