--------------------------- MODULE DirectoryProofs ---------------------------
(***************************************************************************)
(* Theorems about Directory, for any accounts, targets, roles, users, hosts *)
(* and any number of administrators whose requests do not overlap on a     *)
(* target.  The handlers read in one statement and write in a later one    *)
(* without a lock, so requests that do overlap can break what is proved    *)
(* here; where they may not overlap is stated with every theorem.          *)
(***************************************************************************)
EXTENDS Directory, SequenceTheorems, TLAPS

-----------------------------------------------------------------------------
(* What is assumed of the administrators. *)

\* The requests that name a target.
TargetOps == {"create_target", "update_target", "delete_hosts", "forget_host", "delete_target",
              "add_target_role", "set_role_account"}

\* No two requests under way are about the same target.
Apart ==
    \A x, y \in Admins :
      x # y /\ admin[x].op \in TargetOps /\ admin[y].op \in TargetOps => admin[x].t # admin[y].t

\* No target is being written while a delete is about to forget a host key.
ForgetsAlone ==
    \A x, y \in Admins :
      admin[x].op = "forget_host" => admin[y].op \notin {"create_target", "update_target"}

-----------------------------------------------------------------------------
(* The inductive invariant. *)

Logins == Accounts \cup {None}

RowsOK ==
    /\ target \in [Targets -> UNION {Bodies(t) \cup {None} : t \in Targets}]
    /\ \A t \in Targets : target[t] \in Bodies(t) \cup {None}
    /\ binding \in [Targets -> SUBSET (Accounts \X BindRoles)]
    /\ grant \in [Targets \X Roles -> Seq(Logins)]
    /\ DOMAIN admin = Admins

\* What a handler carries from its reads to its write.
RequestOK(q) ==
    /\ q.op \in TargetOps => q.t \in Targets
    /\ q.op \in {"create_target", "update_target"} =>
         q.options \in Bodies(q.t) /\ q.accounts \in BindingLists
    /\ q.op \in {"delete_hosts", "forget_host"} =>
         q \in [op : {"delete_hosts", "forget_host"}, t : Targets, host : Hosts]
    /\ q.op \in {"add_target_role", "set_role_account"} => q.r \in Roles
    /\ q.op = "set_role_account" => q.a \in Logins

RequestsOK == \A x \in Admins : RequestOK(admin[x])

TypeOK == RowsOK /\ RequestsOK

\* The accounts the roles name are bound, and so is the one a request will write.
GrantsBound ==
    \A tr \in Targets \X Roles : \A i \in 1..Len(grant[tr]) :
      grant[tr][i] \in Bound(tr[1]) \cup {None}

WritesBound ==
    \A x \in Admins : admin[x].op = "set_role_account" =>
      admin[x].a \in Bound(admin[x].t) \cup {None}

\* A target that needs a key it does not have has an account, and keeps it until a request
\* that relies on it has written.
KeysHeld ==
    \A t \in Targets : target[t] # None /\ missing_ssh_private_key(t, target[t]) =>
      binding[t] # {}

WritesKeyed ==
    \A x \in Admins :
      /\ admin[x].op \in {"create_target", "update_target"}
      /\ missing_ssh_private_key(admin[x].t, admin[x].options)
      => \/ admin[x].accounts \notin {Omitted, {}}
         \/ admin[x].accounts = Omitted /\ binding[admin[x].t] # {}

\* The host key that a delete is about to forget is no other target's.
ForgetInv ==
    \A x \in Admins : admin[x].op = "forget_host" =>
      ~ssh_endpoint_still_referenced(admin[x].t, admin[x].host)

-----------------------------------------------------------------------------
(* Requests about users, roles and accounts. *)

\* A step that leaves the tables of targets alone and begins no request about one.
Quiet ==
    /\ UNCHANGED <<target, binding, grant>> /\ DOMAIN admin' = Admins
    /\ \A y \in Admins : admin'[y] = admin[y] \/ admin'[y].op \notin TargetOps

OtherRequest(x) ==
    \/ \E r \in Roles : api_create_role(x, r) \/ api_delete_role(x, r)
    \/ \E u \in Users :
          \/ api_create_user(x, u) \/ api_delete_user(x, u)
          \/ \E r \in Roles : api_add_user_role(x, u, r) \/ api_delete_user_role(x, u, r)
    \/ DeleteUserRow(x) \/ AddUserRoleInsert(x)
    \/ \E a \in Accounts :
          \/ \E s \in Secrets \cup {Blank} : \/ api_create_account(x, a, s)
                                             \/ api_update_account(x, a, s)
          \/ api_delete_account(x, a)
    \/ StepUpRefused(x) \/ insert_account(x) \/ DeleteAccountRow(x)

\* These requests, a crash and a connection that trusts a host are quiet.
LEMMA QuietSteps ==
    ASSUME RowsOK,
           \/ \E x \in Admins : OtherRequest(x)
           \/ \E t \in Targets : TrustHost(t)
           \/ Crash \/ UNCHANGED vars
    PROVE  Quiet
<1> USE DEF RowsOK, Quiet, TargetOps, Goes, Answered, Idle, tables
<1>1. ASSUME NEW x \in Admins, NEW q, q.op \notin TargetOps, admin' = [admin EXCEPT ![x] = q]
      PROVE  /\ DOMAIN admin' = Admins
             /\ \A y \in Admins : admin'[y] = admin[y] \/ admin'[y].op \notin TargetOps
  BY <1>1
<1>2. ASSUME NEW x \in Admins, OtherRequest(x) PROVE Quiet
  <2>1. ASSUME NEW r \in Roles, api_create_role(x, r) \/ api_delete_role(x, r) PROVE Quiet
    BY <2>1 DEF api_create_role, api_delete_role
  <2>2. ASSUME NEW u \in Users, api_create_user(x, u) \/ api_delete_user(x, u) PROVE Quiet
    BY <2>2 DEF api_create_user, api_delete_user
  <2>3. ASSUME NEW u \in Users, NEW r \in Roles, api_add_user_role(x, u, r) \/ api_delete_user_role(x, u, r)
        PROVE  Quiet
    BY <2>3 DEF api_add_user_role, api_delete_user_role
  <2>4. ASSUME DeleteUserRow(x) \/ AddUserRoleInsert(x) PROVE Quiet
    BY <2>4 DEF DeleteUserRow, AddUserRoleInsert
  <2>5. ASSUME NEW a \in Accounts, NEW s \in Secrets \cup {Blank},
               api_create_account(x, a, s) \/ api_update_account(x, a, s)
        PROVE  Quiet
    BY <2>5 DEF api_create_account, api_update_account
  <2>6. ASSUME NEW a \in Accounts, api_delete_account(x, a) PROVE Quiet
    BY <2>6 DEF api_delete_account
  <2>7. ASSUME StepUpRefused(x) \/ insert_account(x) \/ DeleteAccountRow(x) PROVE Quiet
    BY <2>7 DEF StepUpRefused, insert_account, DeleteAccountRow
  <2> HIDE DEF Quiet
  <2> QED BY <1>2, <2>1, <2>2, <2>3, <2>4, <2>5, <2>6, <2>7 DEF OtherRequest
<1>3. ASSUME NEW t \in Targets, TrustHost(t) PROVE Quiet
  BY <1>3 DEF TrustHost
<1>4. CASE Crash
  BY <1>4 DEF Crash
<1>5. CASE UNCHANGED vars
  BY <1>5 DEF vars
<1> QED BY <1>2, <1>3, <1>4, <1>5

-----------------------------------------------------------------------------
(* The options a handler writes. *)

\* They are options of the target's kind, whatever was sent and stored.
LEMMA WrittenOptions ==
    ASSUME NEW t \in Targets, NEW body \in Bodies(t), NEW stored \in Bodies(t) \cup {None},
           NEW accounts, OptionsToWrite(t, body, accounts, stored) # None
    PROVE  OptionsToWrite(t, body, accounts, stored) \in Bodies(t)
<1>1. clear_inline_credentials(t, body) \in Bodies(t)
  <2>1. KindOf[t] \in {"ssh", "db", "http"}
    BY KindAssumption
  <2> QED BY <2>1 DEF clear_inline_credentials, Bodies, MethodsOf
<1>2. stored # None => keep_stored_secrets(body, stored) \in Bodies(t)
  BY DEF keep_stored_secrets, Bodies
<1> QED BY <1>1, <1>2 DEF OptionsToWrite

\* A body that leaves an SSH target without its key is written with accounts, or over
\* bindings that stay.
LEMMA WrittenKeyed ==
    ASSUME NEW t \in Targets, NEW body \in Bodies(t), NEW stored \in Bodies(t) \cup {None},
           NEW accounts, OptionsToWrite(t, body, accounts, stored) # None,
           missing_ssh_private_key(t, OptionsToWrite(t, body, accounts, stored))
    PROVE  accounts \notin {Omitted, {}} \/ (accounts = Omitted /\ binding[t] # {})
BY DEF OptionsToWrite

-----------------------------------------------------------------------------
(* The types. *)

\* Every step keeps the types.
LEMMA NextTypeOK ==
    ASSUME TypeOK, [Next]_vars
    PROVE  TypeOK'
<1> USE DEF TypeOK
<1>1. ASSUME NEW x \in Admins, NEW q, RequestOK(q), Goes(x, q)
      PROVE  DOMAIN admin' = Admins /\ RequestsOK'
  BY <1>1 DEF Goes, RowsOK, RequestsOK, RequestOK
<1>2. ASSUME NEW x \in Admins, Answered(x) PROVE DOMAIN admin' = Admins /\ RequestsOK'
  <2>1. RequestOK(Idle) /\ Goes(x, Idle)
    BY <1>2 DEF RequestOK, Idle, TargetOps, Goes, Answered
  <2> QED BY <1>1, <2>1
<1>3. ASSUME Quiet PROVE TypeOK'
  BY <1>3 DEF Quiet, RowsOK, RequestsOK, RequestOK, TargetOps
<1>4. ASSUME NEW x \in Admins, NEW t \in Targets, NEW body \in Bodies(t),
             NEW accounts \in BindingLists,
             api_create_target(x, t, body, accounts) \/ api_update_target(x, t, body, accounts)
      PROVE  TypeOK'
  <2> DEFINE options == OptionsToWrite(t, body, accounts, target[t])
  <2>1. PICK op \in {"create_target", "update_target"} : TargetChecks(x, op, t, body, accounts)
    BY <1>4 DEF api_create_target, api_update_target
  <2>2. options \in Bodies(t)
    BY <2>1, WrittenOptions DEF TargetChecks, RowsOK
  <2> HIDE DEF options
  <2>3. RequestOK([op |-> op, t |-> t, options |-> options, accounts |-> accounts])
    BY <2>2 DEF RequestOK, TargetOps
  <2>4. DOMAIN admin' = Admins /\ RequestsOK'
    BY <1>1, <2>1, <2>3 DEF TargetChecks, options
  <2> QED BY <2>1, <2>4 DEF TargetChecks, RowsOK, tables
<1>5. ASSUME NEW x \in Admins, TargetCommit(x) PROVE TypeOK'
  <2> DEFINE q == admin[x]
  <2>1. q.t \in Targets /\ q.options \in Bodies(q.t) /\ q.accounts \in BindingLists
    BY <1>5 DEF TargetCommit, RequestsOK, RequestOK, TargetOps
  <2>2. DOMAIN admin' = Admins /\ RequestsOK'
    BY <1>2, <1>5 DEF TargetCommit
  <2> HIDE DEF q
  <2>3. target' \in {target, [target EXCEPT ![q.t] = q.options]}
    BY <1>5 DEF TargetCommit, q
  <2>4. /\ target' \in [Targets -> UNION {Bodies(t) \cup {None} : t \in Targets}]
        /\ \A t \in Targets : target'[t] \in Bodies(t) \cup {None}
    <3>1. CASE target' = [target EXCEPT ![q.t] = q.options]
      BY <2>1, <3>1 DEF RowsOK
    <3> QED BY <2>3, <3>1 DEF RowsOK
  <2>5. ASSUME replace_target_accounts(q.t, q.accounts), q.accounts # Omitted
        PROVE  /\ binding' \in [Targets -> SUBSET (Accounts \X BindRoles)]
               /\ grant' \in [Targets \X Roles -> Seq(Logins)]
    <3> DEFINE kept == {b[1] : b \in q.accounts}
               g(tr) == IF tr[1] # q.t THEN grant[tr]
                        ELSE [i \in DOMAIN grant[tr] |->
                                IF grant[tr][i] \in kept THEN grant[tr][i] ELSE None]
    <3>1. binding' \in [Targets -> SUBSET (Accounts \X BindRoles)]
      BY <2>1, <2>5 DEF RowsOK, replace_target_accounts, BindingLists
    <3> HIDE DEF kept
    <3>2. ASSUME NEW tr \in Targets \X Roles PROVE g(tr) \in Seq(Logins)
      <4>1. grant[tr] \in Seq(Logins)
        BY DEF RowsOK
      <4>2. DOMAIN grant[tr] = 1..Len(grant[tr]) /\ Len(grant[tr]) \in Nat
        BY <4>1
      <4>3. \A i \in 1..Len(grant[tr]) :
              (IF grant[tr][i] \in kept THEN grant[tr][i] ELSE None) \in Logins
        BY <4>1 DEF Logins
      <4>4. [i \in 1..Len(grant[tr]) |->
               IF grant[tr][i] \in kept THEN grant[tr][i] ELSE None] \in Seq(Logins)
        BY <4>2, <4>3, IsASeq
      <4> QED BY <4>1, <4>2, <4>4
    <3>3. grant' = [tr \in Targets \X Roles |-> g(tr)]
      BY <2>5 DEF replace_target_accounts, kept
    <3> HIDE DEF g
    <3> QED BY <3>1, <3>2, <3>3
  <2>6. /\ binding' \in [Targets -> SUBSET (Accounts \X BindRoles)]
        /\ grant' \in [Targets \X Roles -> Seq(Logins)]
    BY <1>5, <2>5 DEF TargetCommit, RowsOK, q
  <2> QED BY <2>2, <2>4, <2>6 DEF RowsOK
<1>6. ASSUME NEW x \in Admins, NEW t \in Targets, api_delete_target(x, t) PROVE TypeOK'
  <2> DEFINE op == IF KindOf[t] = "ssh" THEN "delete_hosts" ELSE "delete_target"
  <2>1. target[t].host \in Hosts
    BY <1>6 DEF api_delete_target, RowsOK, Bodies
  <2>2. op \in {"delete_hosts", "delete_target"}
    OBVIOUS
  <2> HIDE DEF op
  <2>3. RequestOK([op |-> op, t |-> t, host |-> target[t].host])
    BY <2>1, <2>2 DEF RequestOK, TargetOps
  <2>4. DOMAIN admin' = Admins /\ RequestsOK'
    BY <1>1, <1>6, <2>3 DEF api_delete_target, op
  <2>5. <<>> \in Seq(Logins)
    OBVIOUS
  <2>6. grant' \in [Targets \X Roles -> Seq(Logins)]
    BY <1>6, <2>5 DEF api_delete_target, RowsOK
  <2> QED BY <1>6, <2>4, <2>6 DEF api_delete_target, RowsOK
<1>7. ASSUME NEW x \in Admins, DeleteTargetSiblings(x) PROVE TypeOK'
  <2> DEFINE q == admin[x]
             op == IF ssh_endpoint_still_referenced(q.t, q.host) THEN "delete_target"
                   ELSE "forget_host"
  <2>1. q.t \in Targets /\ q.host \in Hosts
    BY <1>7 DEF DeleteTargetSiblings, RequestsOK, RequestOK, TargetOps
  <2>2. op \in {"delete_target", "forget_host"}
    OBVIOUS
  <2> HIDE DEF op
  <2>3. RequestOK([op |-> op, t |-> q.t, host |-> q.host])
    BY <2>1, <2>2 DEF RequestOK, TargetOps
  <2>4. DOMAIN admin' = Admins /\ RequestsOK'
    BY <1>1, <1>7, <2>3 DEF DeleteTargetSiblings, op
  <2> QED BY <1>7, <2>4 DEF DeleteTargetSiblings, RowsOK, tables
<1>8. ASSUME NEW x \in Admins, DeleteTargetHosts(x) PROVE TypeOK'
  <2> DEFINE q == admin[x]
  <2>1. q \in [op : {"delete_hosts", "forget_host"}, t : Targets, host : Hosts]
    BY <1>8 DEF DeleteTargetHosts, RequestsOK, RequestOK
  <2> HIDE DEF q
  <2>2. /\ [q EXCEPT !.op = "delete_target"].op = "delete_target"
        /\ [q EXCEPT !.op = "delete_target"].t \in Targets
    BY <2>1
  <2>3. RequestOK([q EXCEPT !.op = "delete_target"])
    BY <2>2 DEF RequestOK, TargetOps
  <2>4. DOMAIN admin' = Admins /\ RequestsOK'
    BY <1>1, <1>8, <2>3 DEF DeleteTargetHosts, q
  <2> QED BY <1>8, <2>4 DEF DeleteTargetHosts, RowsOK
<1>9. ASSUME NEW x \in Admins, DeleteTargetRow(x) PROVE TypeOK'
  <2> DEFINE t == admin[x].t
  <2>1. t \in Targets
    BY <1>9 DEF DeleteTargetRow, RequestsOK, RequestOK, TargetOps
  <2>2. DOMAIN admin' = Admins /\ RequestsOK'
    BY <1>2, <1>9 DEF DeleteTargetRow
  <2> HIDE DEF t
  <2>3. /\ target' \in [Targets -> UNION {Bodies(s) \cup {None} : s \in Targets}]
        /\ \A s \in Targets : target'[s] \in Bodies(s) \cup {None}
    <3>1. CASE target' = [target EXCEPT ![t] = None]
      BY <2>1, <3>1 DEF RowsOK
    <3> QED BY <1>9, <3>1 DEF DeleteTargetRow, RowsOK, t
  <2>4. binding' \in [Targets -> SUBSET (Accounts \X BindRoles)]
    BY <1>9, <2>1 DEF DeleteTargetRow, RowsOK, t
  <2> QED BY <1>9, <2>2, <2>3, <2>4 DEF DeleteTargetRow, RowsOK
<1>10. ASSUME NEW x \in Admins, NEW t \in Targets, NEW r \in Roles, api_add_target_role(x, t, r)
       PROVE  TypeOK'
  <2>1. RequestOK([op |-> "add_target_role", t |-> t, r |-> r])
    BY DEF RequestOK, TargetOps
  <2>2. DOMAIN admin' = Admins /\ RequestsOK'
    BY <1>1, <1>10, <2>1 DEF api_add_target_role
  <2> QED BY <1>10, <2>2 DEF api_add_target_role, RowsOK, tables
<1>11. ASSUME NEW x \in Admins, AddTargetRoleInsert(x) PROVE TypeOK'
  <2> DEFINE tr == <<admin[x].t, admin[x].r>>
  <2>1. tr \in Targets \X Roles
    BY <1>11 DEF AddTargetRoleInsert, RequestsOK, RequestOK, TargetOps
  <2>2. DOMAIN admin' = Admins /\ RequestsOK'
    BY <1>2, <1>11 DEF AddTargetRoleInsert
  <2>3. Append(grant[tr], None) \in Seq(Logins)
    BY <2>1 DEF RowsOK, Logins
  <2>4. grant' \in {grant, [grant EXCEPT ![tr] = Append(grant[tr], None)]}
    BY <1>11 DEF AddTargetRoleInsert
  <2> HIDE DEF tr
  <2>5. grant' \in [Targets \X Roles -> Seq(Logins)]
    BY <2>1, <2>3, <2>4 DEF RowsOK
  <2> QED BY <1>11, <2>2, <2>5 DEF AddTargetRoleInsert, RowsOK
<1>12. ASSUME NEW x \in Admins, NEW t \in Targets, NEW r \in Roles,
              api_delete_target_role(x, t, r)
       PROVE  TypeOK'
  <2> DEFINE rows == grant[<<t, r>>]
  <2>1. PICK i \in DOMAIN rows : grant' = [grant EXCEPT ![<<t, r>>] = RemoveAt(rows, i)]
    BY <1>12 DEF api_delete_target_role
  <2>2. RemoveAt(rows, i) \in Seq(Logins)
    BY DEF RemoveAt, RowsOK
  <2>3. grant' \in [Targets \X Roles -> Seq(Logins)]
    BY <2>1, <2>2 DEF RowsOK
  <2> QED BY <1>12, <2>3 DEF api_delete_target_role, RowsOK, RequestsOK, RequestOK
<1>13. ASSUME NEW x \in Admins, NEW t \in Targets, NEW r \in Roles, NEW a \in Accounts \cup {None},
              api_set_target_role_account(x, t, r, a)
       PROVE  TypeOK'
  <2>1. RequestOK([op |-> "set_role_account", t |-> t, r |-> r, a |-> a])
    BY DEF RequestOK, TargetOps, Logins
  <2>2. DOMAIN admin' = Admins /\ RequestsOK'
    BY <1>1, <1>13, <2>1 DEF api_set_target_role_account
  <2> QED BY <1>13, <2>2 DEF api_set_target_role_account, RowsOK, tables
<1>14. ASSUME NEW x \in Admins, SetTargetRoleAccountWrite(x) PROVE TypeOK'
  <2> DEFINE tr == <<admin[x].t, admin[x].r>>
             a == admin[x].a
  <2>1. tr \in Targets \X Roles /\ a \in Logins
    BY <1>14 DEF SetTargetRoleAccountWrite, RequestsOK, RequestOK, TargetOps
  <2>2. DOMAIN admin' = Admins /\ RequestsOK'
    BY <1>2, <1>14 DEF SetTargetRoleAccountWrite
  <2>3. grant[tr] # <<>> => [grant[tr] EXCEPT ![1] = a] \in Seq(Logins)
    BY <2>1, ExceptSeq DEF RowsOK
  <2>4. \/ grant' = grant
        \/ grant[tr] # <<>> /\ grant' = [grant EXCEPT ![tr] = [grant[tr] EXCEPT ![1] = a]]
    BY <1>14 DEF SetTargetRoleAccountWrite
  <2> HIDE DEF tr, a
  <2>5. grant' \in [Targets \X Roles -> Seq(Logins)]
    BY <2>1, <2>3, <2>4 DEF RowsOK
  <2> QED BY <1>14, <2>2, <2>5 DEF SetTargetRoleAccountWrite, RowsOK
<1> HIDE DEF TypeOK
<1> QED
  BY <1>3, <1>4, <1>5, <1>6, <1>7, <1>8, <1>9, <1>10, <1>11, <1>12, <1>13, <1>14, QuietSteps
  DEF Next, AdminNext, OtherRequest, TypeOK

-----------------------------------------------------------------------------
(* The grants of the roles name bound accounts. *)

\* A step that leaves the bindings alone keeps the invariant if the rows and the request
\* it writes are bound.
LEMMA GrantStep ==
    ASSUME TypeOK, GrantsBound, WritesBound, UNCHANGED binding,
           \A tr \in Targets \X Roles : \A i \in 1..Len(grant'[tr]) :
             grant'[tr][i] \in Bound(tr[1]) \cup {None},
           \A y \in Admins : \/ admin'[y] = admin[y]
                             \/ admin'[y].op # "set_role_account"
                             \/ admin'[y].a \in Bound(admin'[y].t) \cup {None}
    PROVE  GrantsBound' /\ WritesBound'
<1>1. \A t : Bound(t)' = Bound(t)
  BY DEF Bound
<1> QED BY <1>1 DEF GrantsBound, WritesBound

\* A step that replaces the bindings of target t, which no other request is about.
LEMMA RebindStep ==
    ASSUME TypeOK, GrantsBound, WritesBound, Apart, NEW x \in Admins, admin[x].op \in TargetOps,
           Answered(x), NEW accounts, binding' = [binding EXCEPT ![admin[x].t] = accounts],
           \A tr \in Targets \X Roles : tr[1] # admin[x].t => grant'[tr] = grant[tr],
           \A tr \in Targets \X Roles : tr[1] = admin[x].t =>
             \A i \in 1..Len(grant'[tr]) : grant'[tr][i] \in {b[1] : b \in accounts} \cup {None}
    PROVE  GrantsBound' /\ WritesBound'
<1>1. PICK t \in Targets : t = admin[x].t
  BY DEF TypeOK, RequestsOK, RequestOK
<1>2. DOMAIN binding = Targets
  BY DEF TypeOK, RowsOK
<1>3. /\ \A s \in Targets \ {t} : Bound(s)' = Bound(s)
      /\ Bound(t)' = {b[1] : b \in accounts}
  BY <1>1, <1>2 DEF Bound
<1>4. GrantsBound'
  BY <1>1, <1>3 DEF GrantsBound
<1>5. ASSUME NEW y \in Admins, admin'[y].op = "set_role_account"
      PROVE  (admin[y].a \in Bound(admin[y].t) \cup {None})'
  <2>1. y # x /\ admin'[y] = admin[y]
    BY <1>5 DEF Answered, TypeOK, RowsOK, Idle
  <2>2. admin[y].t \in Targets \ {t}
    BY <1>1, <1>5, <2>1 DEF Apart, TargetOps, TypeOK, RequestsOK, RequestOK
  <2>3. admin[y].a \in Bound(admin[y].t) \cup {None}
    BY <1>5, <2>1 DEF WritesBound
  <2>4. binding'[admin[y].t] = binding[admin[y].t]
    BY <1>1, <1>2, <2>2
  <2> QED BY <2>1, <2>3, <2>4 DEF Bound
<1> QED BY <1>4, <1>5 DEF WritesBound

\* Every step keeps the grants bound, while requests are apart.
LEMMA NextGrantsBound ==
    ASSUME TypeOK, GrantsBound, WritesBound, Apart, [Next]_vars
    PROVE  GrantsBound' /\ WritesBound'
<1> DEFINE Kept == GrantsBound' /\ WritesBound'
<1>1. ASSUME NEW x \in Admins, NEW q, Goes(x, q), UNCHANGED binding,
             \/ q.op # "set_role_account" \/ q.a \in Bound(q.t) \cup {None},
             \A tr \in Targets \X Roles : \A i \in 1..Len(grant'[tr]) :
               grant'[tr][i] \in Bound(tr[1]) \cup {None}
      PROVE  Kept
  <2>1. \A y \in Admins : admin'[y] = IF y = x THEN q ELSE admin[y]
    BY <1>1 DEF Goes, TypeOK, RowsOK
  <2> QED BY <1>1, <2>1, GrantStep
<1>2. ASSUME NEW x \in Admins, NEW q, Goes(x, q), UNCHANGED <<binding, grant>>,
             \/ q.op # "set_role_account" \/ q.a \in Bound(q.t) \cup {None}
      PROVE  Kept
  BY <1>1, <1>2 DEF GrantsBound
<1>3. ASSUME Quiet PROVE Kept
  <2>1. \A y \in Admins : admin'[y] = admin[y] \/ admin'[y].op # "set_role_account"
    BY <1>3 DEF Quiet, TargetOps
  <2> QED BY <1>3, <2>1, GrantStep DEF Quiet, GrantsBound
<1>4. ASSUME NEW x \in Admins, NEW t \in Targets, NEW body \in Bodies(t),
             NEW accounts \in BindingLists,
             api_create_target(x, t, body, accounts) \/ api_update_target(x, t, body, accounts)
      PROVE  Kept
  <2> DEFINE options == OptionsToWrite(t, body, accounts, target[t])
  <2>1. PICK op \in {"create_target", "update_target"} : TargetChecks(x, op, t, body, accounts)
    BY <1>4 DEF api_create_target, api_update_target
  <2>2. [op |-> op, t |-> t, options |-> options, accounts |-> accounts].op # "set_role_account"
    OBVIOUS
  <2> QED BY <1>2, <2>1, <2>2 DEF TargetChecks, tables
<1>5. ASSUME NEW x \in Admins, TargetCommit(x) PROVE Kept
  <2> DEFINE q == admin[x]
  <2>1. q.op \in TargetOps /\ Answered(x)
    BY <1>5 DEF TargetCommit, TargetOps
  <2>2. CASE UNCHANGED <<binding, grant>>
    <3>1. Goes(x, Idle) /\ Idle.op # "set_role_account"
      BY <2>1 DEF Goes, Answered, Idle
    <3> QED BY <1>2, <2>2, <3>1
  <2>3. CASE replace_target_accounts(q.t, q.accounts)
    <3> DEFINE kept == {b[1] : b \in q.accounts}
    <3>1. \A tr \in Targets \X Roles : tr[1] # q.t => grant'[tr] = grant[tr]
      BY <2>3 DEF replace_target_accounts
    <3>2. ASSUME NEW tr \in Targets \X Roles, tr[1] = q.t, NEW i \in 1..Len(grant'[tr])
          PROVE  grant'[tr][i] \in kept \cup {None}
      <4>1. grant'[tr] = [n \in DOMAIN grant[tr] |->
                            IF grant[tr][n] \in kept THEN grant[tr][n] ELSE None]
        BY <2>3, <3>2 DEF replace_target_accounts
      <4>2. grant'[tr] \in Seq(Logins)
        BY NextTypeOK DEF TypeOK, RowsOK
      <4>3. i \in DOMAIN grant[tr]
        BY <3>2, <4>1, <4>2
      <4> HIDE DEF kept
      <4> QED BY <4>1, <4>3
    <3>3. binding' = [binding EXCEPT ![q.t] = q.accounts]
      BY <2>3 DEF replace_target_accounts
    <3> QED BY <2>1, <3>1, <3>2, <3>3, RebindStep
  <2> QED BY <1>5, <2>2, <2>3 DEF TargetCommit
<1>6. ASSUME NEW x \in Admins, NEW t \in Targets, api_delete_target(x, t) PROVE Kept
  <2> DEFINE q == [op |-> IF KindOf[t] = "ssh" THEN "delete_hosts" ELSE "delete_target",
                   t |-> t, host |-> target[t].host]
  <2>1. Goes(x, q) /\ q.op # "set_role_account"
    BY <1>6 DEF api_delete_target
  <2>2. \A tr \in Targets \X Roles : grant'[tr] = <<>> \/ grant'[tr] = grant[tr]
    BY <1>6 DEF api_delete_target
  <2>3. \A tr \in Targets \X Roles : \A i \in 1..Len(grant'[tr]) :
          grant'[tr][i] \in Bound(tr[1]) \cup {None}
    BY <2>2 DEF GrantsBound
  <2> HIDE DEF q
  <2> QED BY <1>1, <1>6, <2>1, <2>3 DEF api_delete_target
<1>7. ASSUME NEW x \in Admins, DeleteTargetSiblings(x) PROVE Kept
  <2> DEFINE q == [op |-> IF ssh_endpoint_still_referenced(admin[x].t, admin[x].host)
                          THEN "delete_target" ELSE "forget_host",
                   t |-> admin[x].t, host |-> admin[x].host]
  <2>1. Goes(x, q) /\ q.op # "set_role_account"
    BY <1>7 DEF DeleteTargetSiblings
  <2> HIDE DEF q
  <2> QED BY <1>2, <1>7, <2>1 DEF DeleteTargetSiblings, tables
<1>8. ASSUME NEW x \in Admins, DeleteTargetHosts(x) PROVE Kept
  <2> DEFINE q == [admin[x] EXCEPT !.op = "delete_target"]
  <2>1. Goes(x, q) /\ q.op # "set_role_account"
    BY <1>8 DEF DeleteTargetHosts, TypeOK, RequestsOK, RequestOK
  <2> HIDE DEF q
  <2> QED BY <1>2, <1>8, <2>1 DEF DeleteTargetHosts
<1>9. ASSUME NEW x \in Admins, DeleteTargetRow(x) PROVE Kept
  <2> DEFINE t == admin[x].t
             held == \E r \in Roles : grant[<<t, r>>] # <<>>
  <2>1. admin[x].op \in TargetOps /\ Answered(x) /\ UNCHANGED grant
    BY <1>9 DEF DeleteTargetRow, TargetOps
  <2>2. CASE held
    <3>1. Goes(x, Idle) /\ Idle.op # "set_role_account"
      BY <2>1 DEF Goes, Answered, Idle
    <3> QED BY <1>2, <1>9, <2>1, <2>2, <3>1 DEF DeleteTargetRow
  <2>3. CASE ~held
    <3>1. binding' = [binding EXCEPT ![t] = {}]
      BY <1>9, <2>3 DEF DeleteTargetRow
    <3>2. \A tr \in Targets \X Roles : tr[1] = t => grant[tr] = <<>>
      BY <2>3
    <3>3. \A tr \in Targets \X Roles : tr[1] = t =>
            \A i \in 1..Len(grant[tr]) : grant[tr][i] \in {b[1] : b \in {}} \cup {None}
      BY <3>2
    <3> QED BY <2>1, <3>1, <3>3, RebindStep
  <2> QED BY <2>2, <2>3
<1>10. ASSUME NEW x \in Admins, NEW t \in Targets, NEW r \in Roles, api_add_target_role(x, t, r)
       PROVE  Kept
  <2>1. [op |-> "add_target_role", t |-> t, r |-> r].op # "set_role_account"
    OBVIOUS
  <2> QED BY <1>2, <1>10, <2>1 DEF api_add_target_role, tables
<1>11. ASSUME NEW x \in Admins, NEW tr \in Targets \X Roles, NEW rows \in Seq(Logins),
              grant' = [grant EXCEPT ![tr] = rows], UNCHANGED binding,
              \A i \in 1..Len(rows) : rows[i] \in Bound(tr[1]) \cup {None},
              Answered(x) \/ UNCHANGED admin
       PROVE  Kept
  <2>1. \A ur \in Targets \X Roles : grant'[ur] = IF ur = tr THEN rows ELSE grant[ur]
    BY <1>11 DEF TypeOK, RowsOK
  <2>2. \A ur \in Targets \X Roles : \A i \in 1..Len(grant'[ur]) :
          grant'[ur][i] \in Bound(ur[1]) \cup {None}
    BY <1>11, <2>1 DEF GrantsBound
  <2>3. \A y \in Admins : admin'[y] = admin[y] \/ admin'[y].op # "set_role_account"
    BY <1>11 DEF Answered, Idle, TypeOK, RowsOK
  <2> QED BY <1>11, <2>2, <2>3, GrantStep
<1>12. ASSUME NEW x \in Admins, Answered(x), UNCHANGED <<binding, grant>> PROVE Kept
  <2>1. Goes(x, Idle) /\ Idle.op # "set_role_account"
    BY <1>12 DEF Goes, Answered, Idle
  <2> QED BY <1>2, <1>12, <2>1
<1>13. ASSUME NEW x \in Admins, AddTargetRoleInsert(x) PROVE Kept
  <2> DEFINE tr == <<admin[x].t, admin[x].r>>
  <2>1. tr \in Targets \X Roles /\ grant[tr] \in Seq(Logins)
    BY <1>13 DEF AddTargetRoleInsert, TypeOK, RowsOK, RequestsOK, RequestOK, TargetOps
  <2>2. \A i \in 1..Len(grant[tr]) : grant[tr][i] \in Bound(tr[1]) \cup {None}
    BY <2>1 DEF GrantsBound
  <2>3. \/ UNCHANGED grant \/ grant' = [grant EXCEPT ![tr] = Append(grant[tr], None)]
    BY <1>13 DEF AddTargetRoleInsert
  <2> HIDE DEF tr
  <2>4. /\ Append(grant[tr], None) \in Seq(Logins)
        /\ \A i \in 1..Len(Append(grant[tr], None)) :
             Append(grant[tr], None)[i] \in Bound(tr[1]) \cup {None}
    BY <2>1, <2>2 DEF Logins
  <2> QED BY <1>11, <1>12, <1>13, <2>1, <2>3, <2>4 DEF AddTargetRoleInsert
<1>14. ASSUME NEW x \in Admins, NEW t \in Targets, NEW r \in Roles,
              api_delete_target_role(x, t, r)
       PROVE  Kept
  <2> DEFINE tr == <<t, r>>
             rows == grant[tr]
  <2>1. PICK n \in DOMAIN rows : grant' = [grant EXCEPT ![tr] = RemoveAt(rows, n)]
    BY <1>14 DEF api_delete_target_role
  <2>2. tr \in Targets \X Roles /\ rows \in Seq(Logins)
    BY DEF TypeOK, RowsOK
  <2>3. \A i \in 1..Len(rows) : rows[i] \in Bound(tr[1]) \cup {None}
    BY <2>2 DEF GrantsBound
  <2> HIDE DEF rows, tr
  <2>4. RemoveAt(rows, n) \in Seq(Logins)
    BY <2>2 DEF RemoveAt
  <2> DEFINE S == Bound(tr[1]) \cup {None}
  <2>5. \A i \in 1..Len(rows) : rows[i] \in S
    BY <2>3
  <2> HIDE DEF S
  <2>6. rows \in Seq(S)
    BY <2>2, <2>5
  <2>7. RemoveAt(rows, n) \in Seq(S)
    BY <2>6 DEF RemoveAt
  <2>8. \A i \in 1..Len(RemoveAt(rows, n)) : RemoveAt(rows, n)[i] \in Bound(tr[1]) \cup {None}
    BY <2>7 DEF S
  <2> QED BY <1>11, <1>14, <2>1, <2>2, <2>4, <2>8 DEF api_delete_target_role
<1>15. ASSUME NEW x \in Admins, NEW t \in Targets, NEW r \in Roles, NEW a \in Accounts \cup {None},
              api_set_target_role_account(x, t, r, a)
       PROVE  Kept
  <2> DEFINE q == [op |-> "set_role_account", t |-> t, r |-> r, a |-> a]
  <2>1. Goes(x, q) /\ q.a \in Bound(q.t) \cup {None}
    BY <1>15 DEF api_set_target_role_account
  <2> HIDE DEF q
  <2> QED BY <1>2, <1>15, <2>1 DEF api_set_target_role_account, tables
<1>16. ASSUME NEW x \in Admins, SetTargetRoleAccountWrite(x) PROVE Kept
  <2> DEFINE tr == <<admin[x].t, admin[x].r>>
             a == admin[x].a
             rows == [grant[tr] EXCEPT ![1] = a]
  <2>1. tr \in Targets \X Roles /\ a \in Logins /\ grant[tr] \in Seq(Logins)
    BY <1>16 DEF SetTargetRoleAccountWrite, TypeOK, RowsOK, RequestsOK, RequestOK, TargetOps
  <2>2. a \in Bound(tr[1]) \cup {None}
    BY <1>16 DEF SetTargetRoleAccountWrite, WritesBound
  <2>3. \A i \in 1..Len(grant[tr]) : grant[tr][i] \in Bound(tr[1]) \cup {None}
    BY <2>1 DEF GrantsBound
  <2>4. \/ UNCHANGED grant
        \/ grant[tr] # <<>> /\ grant' = [grant EXCEPT ![tr] = rows]
    BY <1>16 DEF SetTargetRoleAccountWrite
  <2> HIDE DEF tr, a
  <2>5. ASSUME grant[tr] # <<>>
        PROVE  /\ rows \in Seq(Logins)
               /\ \A i \in 1..Len(rows) : rows[i] \in Bound(tr[1]) \cup {None}
    BY <2>1, <2>2, <2>3, <2>5, ExceptSeq
  <2> HIDE DEF rows
  <2> QED BY <1>11, <1>12, <1>16, <2>1, <2>4, <2>5 DEF SetTargetRoleAccountWrite
<1> HIDE DEF Kept
<1> QED
  BY <1>3, <1>4, <1>5, <1>6, <1>7, <1>8, <1>9, <1>10, <1>13, <1>14, <1>15, <1>16, QuietSteps
  DEF Next, AdminNext, OtherRequest, Kept, TypeOK

-----------------------------------------------------------------------------
(* An SSH target without a key of its own has an account. *)

\* A step that begins or ends a request and leaves targets and bindings alone.
LEMMA KeyRequestStep ==
    ASSUME TypeOK, KeysHeld, WritesKeyed, UNCHANGED <<target, binding>>,
           \A y \in Admins :
             \/ admin'[y] = admin[y]
             \/ admin'[y].op \notin {"create_target", "update_target"}
             \/ ~missing_ssh_private_key(admin'[y].t, admin'[y].options)
             \/ admin'[y].accounts \notin {Omitted, {}}
             \/ admin'[y].accounts = Omitted /\ binding[admin'[y].t] # {}
    PROVE  KeysHeld' /\ WritesKeyed'
BY DEF KeysHeld, WritesKeyed, missing_ssh_private_key

\* A step that answers the only request about target t and writes the row of t.
LEMMA KeyWriteStep ==
    ASSUME TypeOK, KeysHeld, WritesKeyed, Apart, NEW x \in Admins, admin[x].op \in TargetOps,
           Answered(x), NEW t \in Targets, t = admin[x].t,
           \A s \in Targets \ {t} : target'[s] = target[s] /\ binding'[s] = binding[s],
           target'[t] = None \/ ~missing_ssh_private_key(t, target'[t]) \/ binding'[t] # {}
    PROVE  KeysHeld' /\ WritesKeyed'
<1>1. KeysHeld'
  BY DEF KeysHeld, missing_ssh_private_key
<1>2. ASSUME NEW y \in Admins, admin'[y].op \in {"create_target", "update_target"}
      PROVE  admin'[y] = admin[y] /\ admin[y].t \in Targets \ {t}
  <2>1. y # x /\ admin'[y] = admin[y]
    BY <1>2 DEF Answered, TypeOK, RowsOK, Idle
  <2> QED BY <1>2, <2>1 DEF Apart, TargetOps, TypeOK, RequestsOK, RequestOK
<1>3. WritesKeyed'
  BY <1>2 DEF WritesKeyed, missing_ssh_private_key
<1> QED BY <1>1, <1>3

\* Every step keeps the keys held, while requests are apart.
LEMMA NextKeysHeld ==
    ASSUME TypeOK, KeysHeld, WritesKeyed, Apart, [Next]_vars
    PROVE  KeysHeld' /\ WritesKeyed'
<1> DEFINE Kept == KeysHeld' /\ WritesKeyed'
<1>1. ASSUME NEW x \in Admins, NEW q, Goes(x, q), UNCHANGED <<target, binding>>,
             q.op \notin {"create_target", "update_target"}
      PROVE  Kept
  <2>1. \A y \in Admins : admin'[y] = IF y = x THEN q ELSE admin[y]
    BY <1>1 DEF Goes, TypeOK, RowsOK
  <2> QED BY <1>1, <2>1, KeyRequestStep
<1>2. ASSUME NEW x \in Admins, Answered(x), UNCHANGED <<target, binding>> PROVE Kept
  <2>1. Goes(x, Idle) /\ Idle.op \notin {"create_target", "update_target"}
    BY <1>2 DEF Goes, Answered, Idle
  <2> QED BY <1>1, <1>2, <2>1
<1>3. ASSUME Quiet PROVE Kept
  <2>1. \A y \in Admins : admin'[y] = admin[y] \/ admin'[y].op \notin {"create_target", "update_target"}
    BY <1>3 DEF Quiet, TargetOps
  <2> QED BY <1>3, <2>1, KeyRequestStep DEF Quiet
<1>4. ASSUME NEW x \in Admins, NEW t \in Targets, NEW body \in Bodies(t),
             NEW accounts \in BindingLists,
             api_create_target(x, t, body, accounts) \/ api_update_target(x, t, body, accounts)
      PROVE  Kept
  <2> DEFINE options == OptionsToWrite(t, body, accounts, target[t])
  <2>1. PICK op \in {"create_target", "update_target"} : TargetChecks(x, op, t, body, accounts)
    BY <1>4 DEF api_create_target, api_update_target
  <2> DEFINE q == [op |-> op, t |-> t, options |-> options, accounts |-> accounts]
  <2>2. missing_ssh_private_key(t, options) =>
          accounts \notin {Omitted, {}} \/ (accounts = Omitted /\ binding[t] # {})
    BY <2>1, WrittenKeyed DEF TargetChecks, TypeOK, RowsOK
  <2>3. Goes(x, q) /\ UNCHANGED <<target, binding>>
    BY <2>1 DEF TargetChecks, tables
  <2> HIDE DEF options
  <2>4. /\ q.t = t /\ q.options = options /\ q.accounts = accounts
        /\ \A y \in Admins : admin'[y] = IF y = x THEN q ELSE admin[y]
    BY <2>3 DEF Goes, TypeOK, RowsOK
  <2> HIDE DEF q
  <2> QED BY <2>2, <2>3, <2>4, KeyRequestStep
<1>5. ASSUME NEW x \in Admins, TargetCommit(x) PROVE Kept
  <2>1. PICK t \in Targets : t = admin[x].t
    BY <1>5 DEF TargetCommit, TypeOK, RequestsOK, RequestOK, TargetOps
  <2>2. admin[x].op \in TargetOps /\ Answered(x)
    BY <1>5 DEF TargetCommit, TargetOps
  <2>3. CASE UNCHANGED <<target, binding>>
    BY <1>2, <2>2, <2>3
  <2>4. ASSUME target' = [target EXCEPT ![t] = admin[x].options],
               \/ admin[x].accounts = Omitted /\ UNCHANGED binding
               \/ admin[x].accounts # Omitted /\ binding' = [binding EXCEPT ![t] = admin[x].accounts]
        PROVE  Kept
    <3>1. /\ \A s \in Targets \ {t} : target'[s] = target[s] /\ binding'[s] = binding[s]
          /\ target'[t] = admin[x].options
          /\ binding'[t] = IF admin[x].accounts = Omitted THEN binding[t] ELSE admin[x].accounts
      BY <2>4 DEF TypeOK, RowsOK
    <3>2. ~missing_ssh_private_key(t, target'[t]) \/ binding'[t] # {}
      BY <1>5, <2>1, <3>1 DEF TargetCommit, WritesKeyed
    <3> QED BY <2>1, <2>2, <3>1, <3>2, KeyWriteStep
  <2> QED BY <1>5, <2>1, <2>3, <2>4 DEF TargetCommit, replace_target_accounts
<1>6. ASSUME NEW x \in Admins, NEW t \in Targets, api_delete_target(x, t) PROVE Kept
  <2> DEFINE q == [op |-> IF KindOf[t] = "ssh" THEN "delete_hosts" ELSE "delete_target",
                   t |-> t, host |-> target[t].host]
  <2>1. Goes(x, q) /\ q.op \notin {"create_target", "update_target"}
    BY <1>6 DEF api_delete_target
  <2> HIDE DEF q
  <2> QED BY <1>1, <1>6, <2>1 DEF api_delete_target
<1>7. ASSUME NEW x \in Admins, DeleteTargetSiblings(x) PROVE Kept
  <2> DEFINE q == [op |-> IF ssh_endpoint_still_referenced(admin[x].t, admin[x].host)
                          THEN "delete_target" ELSE "forget_host",
                   t |-> admin[x].t, host |-> admin[x].host]
  <2>1. Goes(x, q) /\ q.op \notin {"create_target", "update_target"}
    BY <1>7 DEF DeleteTargetSiblings
  <2> HIDE DEF q
  <2> QED BY <1>1, <1>7, <2>1 DEF DeleteTargetSiblings, tables
<1>8. ASSUME NEW x \in Admins, DeleteTargetHosts(x) PROVE Kept
  <2> DEFINE q == [admin[x] EXCEPT !.op = "delete_target"]
  <2>1. Goes(x, q) /\ q.op \notin {"create_target", "update_target"}
    BY <1>8 DEF DeleteTargetHosts, TypeOK, RequestsOK, RequestOK
  <2> HIDE DEF q
  <2> QED BY <1>1, <1>8, <2>1 DEF DeleteTargetHosts
<1>9. ASSUME NEW x \in Admins, DeleteTargetRow(x) PROVE Kept
  <2>1. PICK t \in Targets : t = admin[x].t
    BY <1>9 DEF DeleteTargetRow, TypeOK, RequestsOK, RequestOK, TargetOps
  <2>2. admin[x].op \in TargetOps /\ Answered(x)
    BY <1>9 DEF DeleteTargetRow, TargetOps
  <2>3. CASE UNCHANGED <<target, binding>>
    BY <1>2, <2>2, <2>3
  <2>4. ASSUME target' = [target EXCEPT ![t] = None], binding' = [binding EXCEPT ![t] = {}]
        PROVE  Kept
    <3>1. /\ \A s \in Targets \ {t} : target'[s] = target[s] /\ binding'[s] = binding[s]
          /\ target'[t] = None
      BY <2>4 DEF TypeOK, RowsOK
    <3> QED BY <2>1, <2>2, <3>1, KeyWriteStep
  <2> QED BY <1>9, <2>1, <2>3, <2>4 DEF DeleteTargetRow
<1>10. ASSUME NEW x \in Admins, NEW t \in Targets, NEW r \in Roles,
              \/ api_add_target_role(x, t, r)
              \/ \E a \in Accounts \cup {None} : api_set_target_role_account(x, t, r, a)
       PROVE  Kept
  <2>1. [op |-> "add_target_role", t |-> t, r |-> r].op \notin {"create_target", "update_target"}
    OBVIOUS
  <2>2. \A a : [op |-> "set_role_account", t |-> t, r |-> r, a |-> a].op
                 \notin {"create_target", "update_target"}
    OBVIOUS
  <2> QED BY <1>1, <1>10, <2>1, <2>2 DEF api_add_target_role, api_set_target_role_account, tables
<1>11. ASSUME NEW x \in Admins, AddTargetRoleInsert(x) \/ SetTargetRoleAccountWrite(x) PROVE Kept
  BY <1>2, <1>11 DEF AddTargetRoleInsert, SetTargetRoleAccountWrite
<1>12. ASSUME NEW x \in Admins, NEW t \in Targets, NEW r \in Roles, api_delete_target_role(x, t, r)
       PROVE  Kept
  BY <1>12, KeyRequestStep DEF api_delete_target_role
<1> HIDE DEF Kept
<1> QED
  BY <1>3, <1>4, <1>5, <1>6, <1>7, <1>8, <1>9, <1>10, <1>11, <1>12, QuietSteps
  DEF Next, AdminNext, OtherRequest, Kept, TypeOK

-----------------------------------------------------------------------------
(* A host key that is about to be forgotten is no other target's. *)

\* A step that adds no target to an endpoint and begins no forgetting.
LEMMA ForgetStep ==
    ASSUME ForgetInv, \A s \in Targets : target'[s] = target[s] \/ target'[s] = None,
           \A y \in Admins : admin'[y] = admin[y] \/ admin'[y].op # "forget_host"
    PROVE  ForgetInv'
BY DEF ForgetInv, ssh_endpoint_still_referenced

\* Every step keeps it, while no target is written under a delete that forgets.
LEMMA NextForgetInv ==
    ASSUME TypeOK, ForgetInv, ForgetsAlone, [Next]_vars
    PROVE  ForgetInv'
<1>1. ASSUME NEW x \in Admins, NEW q, Goes(x, q), UNCHANGED target, q.op # "forget_host"
      PROVE  ForgetInv'
  <2>1. \A y \in Admins : admin'[y] = IF y = x THEN q ELSE admin[y]
    BY <1>1 DEF Goes, TypeOK, RowsOK
  <2> QED BY <1>1, <2>1, ForgetStep
<1>2. ASSUME NEW x \in Admins, Answered(x), UNCHANGED target PROVE ForgetInv'
  <2>1. Goes(x, Idle) /\ Idle.op # "forget_host"
    BY <1>2 DEF Goes, Answered, Idle
  <2> QED BY <1>1, <1>2, <2>1
<1>3. ASSUME Quiet PROVE ForgetInv'
  <2>1. \A y \in Admins : admin'[y] = admin[y] \/ admin'[y].op # "forget_host"
    BY <1>3 DEF Quiet, TargetOps
  <2> QED BY <1>3, <2>1, ForgetStep DEF Quiet
<1>4. ASSUME NEW x \in Admins, NEW t \in Targets, NEW body \in Bodies(t),
             NEW accounts \in BindingLists,
             api_create_target(x, t, body, accounts) \/ api_update_target(x, t, body, accounts)
      PROVE  ForgetInv'
  <2> DEFINE options == OptionsToWrite(t, body, accounts, target[t])
  <2>1. PICK op \in {"create_target", "update_target"} : TargetChecks(x, op, t, body, accounts)
    BY <1>4 DEF api_create_target, api_update_target
  <2>2. [op |-> op, t |-> t, options |-> options, accounts |-> accounts].op # "forget_host"
    OBVIOUS
  <2> QED BY <1>1, <2>1, <2>2 DEF TargetChecks, tables
<1>5. ASSUME NEW x \in Admins, TargetCommit(x) PROVE ForgetInv'
  <2>1. \A y \in Admins : admin[y].op # "forget_host"
    BY <1>5 DEF TargetCommit, ForgetsAlone
  <2>2. \A y \in Admins : admin'[y] = IF y = x THEN Idle ELSE admin[y]
    BY <1>5 DEF TargetCommit, Answered, TypeOK, RowsOK
  <2> QED BY <2>1, <2>2 DEF ForgetInv, Idle
<1>6. ASSUME NEW x \in Admins, NEW t \in Targets, api_delete_target(x, t) PROVE ForgetInv'
  <2> DEFINE q == [op |-> IF KindOf[t] = "ssh" THEN "delete_hosts" ELSE "delete_target",
                   t |-> t, host |-> target[t].host]
  <2>1. Goes(x, q) /\ q.op # "forget_host"
    BY <1>6 DEF api_delete_target
  <2> HIDE DEF q
  <2> QED BY <1>1, <1>6, <2>1 DEF api_delete_target
<1>7. ASSUME NEW x \in Admins, DeleteTargetSiblings(x) PROVE ForgetInv'
  <2> DEFINE referenced == ssh_endpoint_still_referenced(admin[x].t, admin[x].host)
             q == [op |-> IF referenced THEN "delete_target" ELSE "forget_host",
                   t |-> admin[x].t, host |-> admin[x].host]
  <2>1. Goes(x, q) /\ UNCHANGED target
    BY <1>7 DEF DeleteTargetSiblings, tables
  <2>2. q.op = "forget_host" => ~ssh_endpoint_still_referenced(q.t, q.host)
    OBVIOUS
  <2> HIDE DEF q
  <2>3. \A y \in Admins : admin'[y] = IF y = x THEN q ELSE admin[y]
    BY <2>1 DEF Goes, TypeOK, RowsOK
  <2> QED BY <2>1, <2>2, <2>3 DEF ForgetInv, ssh_endpoint_still_referenced
<1>8. ASSUME NEW x \in Admins, DeleteTargetHosts(x) PROVE ForgetInv'
  <2> DEFINE q == [admin[x] EXCEPT !.op = "delete_target"]
  <2>1. Goes(x, q) /\ q.op # "forget_host"
    BY <1>8 DEF DeleteTargetHosts, TypeOK, RequestsOK, RequestOK
  <2> HIDE DEF q
  <2> QED BY <1>1, <1>8, <2>1 DEF DeleteTargetHosts
<1>9. ASSUME NEW x \in Admins, DeleteTargetRow(x) PROVE ForgetInv'
  <2>1. \A s \in Targets : target'[s] = target[s] \/ target'[s] = None
    BY <1>9 DEF DeleteTargetRow, TypeOK, RowsOK, RequestsOK, RequestOK, TargetOps
  <2>2. \A y \in Admins : admin'[y] = admin[y] \/ admin'[y].op # "forget_host"
    BY <1>9 DEF DeleteTargetRow, Answered, Idle, TypeOK, RowsOK
  <2> QED BY <2>1, <2>2, ForgetStep
<1>10. ASSUME NEW x \in Admins, NEW t \in Targets, NEW r \in Roles,
              \/ api_add_target_role(x, t, r)
              \/ \E a \in Accounts \cup {None} : api_set_target_role_account(x, t, r, a)
       PROVE  ForgetInv'
  <2>1. [op |-> "add_target_role", t |-> t, r |-> r].op # "forget_host"
    OBVIOUS
  <2>2. \A a : [op |-> "set_role_account", t |-> t, r |-> r, a |-> a].op # "forget_host"
    OBVIOUS
  <2> QED BY <1>1, <1>10, <2>1, <2>2 DEF api_add_target_role, api_set_target_role_account, tables
<1>11. ASSUME NEW x \in Admins, AddTargetRoleInsert(x) \/ SetTargetRoleAccountWrite(x) PROVE ForgetInv'
  BY <1>2, <1>11 DEF AddTargetRoleInsert, SetTargetRoleAccountWrite
<1>12. ASSUME NEW x \in Admins, NEW t \in Targets, NEW r \in Roles, api_delete_target_role(x, t, r)
       PROVE  ForgetInv'
  BY <1>12, ForgetStep DEF api_delete_target_role
<1> QED
  BY <1>3, <1>4, <1>5, <1>6, <1>7, <1>8, <1>9, <1>10, <1>11, <1>12, QuietSteps
  DEF Next, AdminNext, OtherRequest, TypeOK

-----------------------------------------------------------------------------
(* The theorems. *)

\* The empty tables satisfy every part of the invariant.
LEMMA InitHolds ==
    ASSUME Init
    PROVE  TypeOK /\ GrantsBound /\ WritesBound /\ KeysHeld /\ WritesKeyed /\ ForgetInv
<1>1. /\ \A x \in Admins : admin[x] = Idle
      /\ \A t \in Targets : target[t] = None
      /\ \A tr \in Targets \X Roles : grant[tr] = <<>>
  BY DEF Init
<1>2. \A x \in Admins : RequestOK(admin[x])
  BY <1>1 DEF RequestOK, Idle, TargetOps
<1>3. <<>> \in Seq(Logins)
  OBVIOUS
<1>4. RowsOK
  BY <1>3 DEF RowsOK, Init
<1>5. GrantsBound
  BY <1>1 DEF GrantsBound
<1>6. WritesBound /\ KeysHeld /\ WritesKeyed /\ ForgetInv
  BY <1>1 DEF WritesBound, KeysHeld, WritesKeyed, ForgetInv, Idle
<1> QED BY <1>2, <1>4, <1>5, <1>6 DEF TypeOK, RequestsOK

\* The rows and the requests keep their types, whatever the administrators do at once.
THEOREM DirectoryTypes == Spec => []TypeOK
<1>1. TypeOK /\ [Next]_vars => TypeOK'
  BY NextTypeOK
<1> QED BY InitHolds, <1>1, PTL DEF Spec

\* With bound grants a login is bound: it is one the grants name, or the primary account.
LEMMA LoginsBound ==
    ASSUME TypeOK, GrantsBound
    PROVE  LoginIsBound
<1>1. ASSUME NEW u, NEW t \in Targets, NEW p \in Bound(t) \cup {None}
      PROVE  login_choices(u, t, p) \subseteq Bound(t) \cup {None}
  <2>1. ASSUME NEW r \in Roles, NEW g \in ToSet(grant[<<t, r>>]) PROVE g \in Bound(t) \cup {None}
    <3>1. <<t, r>> \in Targets \X Roles /\ grant[<<t, r>>] \in Seq(Logins)
      BY DEF TypeOK, RowsOK
    <3>2. PICK i \in 1..Len(grant[<<t, r>>]) : g = grant[<<t, r>>][i]
      BY <3>1 DEF ToSet
    <3> QED BY <3>1, <3>2 DEF GrantsBound
  <2> QED BY <2>1 DEF login_choices
<1>2. \A t \in Targets : primary_account_ids(t) \subseteq Bound(t) \cup {None}
  BY DEF primary_account_ids, Bound
<1>3. ASSUME NEW u \in user, NEW t \in Targets, NEW a \in Accounts \cup {None}
      PROVE  select_login(u, t, a) \subseteq Bound(t) \cup {None}
  <2>1. SUFFICES ASSUME NEW p \in primary_account_ids(t), NEW l,
               LET choices == login_choices(u, t, p)
                   named == choices \ {None}
               IN l \in IF \E c \in named : account[c] = None THEN {}
                        ELSE IF a # None THEN {a} \cap named
                        ELSE IF choices = {} THEN {None}
                        ELSE IF Cardinality(choices) = 1 THEN choices ELSE {}
        PROVE  l \in Bound(t) \cup {None}
    BY DEF select_login
  <2>2. login_choices(u, t, p) \subseteq Bound(t) \cup {None}
    BY <1>1, <1>2
  <2>3. l \in login_choices(u, t, p) \cup {None}
    BY <2>1
  <2> QED BY <2>2, <2>3
<1> QED BY <1>3 DEF LoginIsBound

\* No connection is signed in with an account that is not bound to its target, whatever the
\* roles, the requests of the administrators and the crashes between their statements, as
\* long as no two requests about one target overlap (select_login, replace_target_accounts,
\* api_set_target_role_account).
THEOREM DirectoryLoginIsBound == Spec /\ []Apart => []LoginIsBound
<1> DEFINE Inv == TypeOK /\ GrantsBound /\ WritesBound
<1>1. Init => Inv
  BY InitHolds
<1>2. Inv /\ Apart /\ [Next]_vars => Inv'
  BY NextTypeOK, NextGrantsBound
<1>3. Inv => LoginIsBound
  BY LoginsBound
<1> HIDE DEF Inv
<1> QED BY <1>1, <1>2, <1>3, PTL DEF Spec

\* What a read endpoint returned can be sent back: it is never refused, and it leaves a target
\* without accounts as it was, its secret included, as long as no two requests about one
\* target overlap (keep_stored_secrets, target_config_with_accounts, OptionsToWrite).
THEOREM DirectoryRoundTrip == Spec /\ []Apart => []RoundTripKeepsTarget
<1> DEFINE Inv == TypeOK /\ KeysHeld /\ WritesKeyed
<1>1. Init => Inv
  BY InitHolds
<1>2. Inv /\ Apart /\ [Next]_vars => Inv'
  BY NextTypeOK, NextKeysHeld
<1>3. Inv => RoundTripKeepsTarget
  <2> SUFFICES ASSUME Inv, NEW t \in Targets, target[t] # None,
                      NEW sent, sent = target_config_with_accounts(t),
                      NEW written, written = OptionsToWrite(t, sent, Omitted, target[t])
               PROVE  written # None /\ (binding[t] = {} => written = target[t])
    BY DEF RoundTripKeepsTarget
  <2>1. target[t] \in Bodies(t) /\ KindOf[t] \in {"ssh", "db", "http"}
    BY KindAssumption DEF TypeOK, RowsOK
  <2>2. sent \in Bodies(t)
    BY <2>1 DEF target_config_with_accounts, redact_inline_secrets, clear_inline_credentials,
                Bodies, MethodsOf
  <2>3. keep_stored_secrets(sent, target[t]) \in Bodies(t)
    BY <2>1, <2>2 DEF keep_stored_secrets, Bodies
  <2>4. CASE binding[t] # {}
    <3>1. written = keep_stored_secrets(sent, target[t])
      BY <2>4 DEF OptionsToWrite
    <3> QED BY <2>3, <2>4, <3>1, OptionsAssumption
  <2>5. CASE binding[t] = {}
    <3>1. keep_stored_secrets(sent, target[t]) = target[t]
      BY <2>1, <2>5 DEF target_config_with_accounts, redact_inline_secrets, keep_stored_secrets,
                        Bodies
    <3>2. ~missing_ssh_private_key(t, target[t])
      BY <2>5 DEF KeysHeld
    <3>3. written = target[t]
      BY <3>1, <3>2 DEF OptionsToWrite
    <3> QED BY <3>3
  <2> QED BY <2>4, <2>5
<1> HIDE DEF Inv
<1> QED BY <1>1, <1>2, <1>3, PTL DEF Spec

\* A delete takes a known host key away only when its endpoint has no other SSH target, as
\* long as no target is created or updated while a delete stands between its look for
\* siblings and the forgetting (api_delete_target).
THEOREM DirectoryHostKeyKept == Spec /\ []ForgetsAlone => HostKeyKept
<1> DEFINE Inv == TypeOK /\ ForgetInv
           Step == \A h \in host \ host' : \A t \in Targets :
                     target[t] # None /\ KindOf[t] = "ssh" /\ target[t].host = h
                        => \E x \in Admins : admin[x].op = "forget_host" /\ admin[x].t = t
<1>1. Init => Inv
  BY InitHolds
<1>2. Inv /\ ForgetsAlone /\ [Next]_vars => Inv'
  BY NextTypeOK, NextForgetInv
<1>3. Inv /\ [Next]_vars => [Step]_vars
  <2> SUFFICES ASSUME Inv, [Next]_vars, ~UNCHANGED host PROVE Step
    BY DEF vars
  <2>1. ASSUME NEW x \in Admins, AdminNext(x), ~DeleteTargetHosts(x) PROVE UNCHANGED host
    BY <2>1 DEF AdminNext, tables, api_create_target, api_update_target,
         TargetChecks, api_delete_target, api_add_target_role, api_delete_target_role,
         api_set_target_role_account, TargetCommit, DeleteTargetSiblings, DeleteTargetRow,
         AddTargetRoleInsert, SetTargetRoleAccountWrite, api_create_role, api_delete_role,
         api_create_user, api_delete_user, api_add_user_role, api_delete_user_role,
         DeleteUserRow, AddUserRoleInsert, api_create_account, api_update_account,
         api_delete_account, StepUpRefused, insert_account, DeleteAccountRow
  <2>2. ASSUME NEW t \in Targets, TrustHost(t) PROVE host \subseteq host'
    BY <2>2 DEF TrustHost
  <2>3. ASSUME NEW x \in Admins, DeleteTargetHosts(x) PROVE Step
    <3>1. admin[x].op = "forget_host" /\ host \ host' \subseteq {admin[x].host}
      BY <2>3 DEF DeleteTargetHosts
    <3>2. ~ssh_endpoint_still_referenced(admin[x].t, admin[x].host)
      BY <3>1 DEF ForgetInv
    <3> QED BY <3>1, <3>2 DEF ssh_endpoint_still_referenced
  <2> QED BY <2>1, <2>2, <2>3 DEF Next, Crash, tables, vars
<1> HIDE DEF Inv
<1> QED BY <1>1, <1>2, <1>3, PTL DEF Spec, HostKeyKept

\* With a single administrator, requests never overlap.
LEMMA AloneApart ==
    ASSUME NEW one, Admins = {one}
    PROVE  Apart /\ ForgetsAlone
BY DEF Apart, ForgetsAlone

\* What the checked instance shows of one administrator holds for any number of accounts,
\* targets, roles, users and hosts.
COROLLARY DirectoryAlone ==
    ASSUME NEW CONSTANT one, Admins = {one}
    PROVE  Spec => []LoginIsBound /\ []RoundTripKeepsTarget /\ HostKeyKept
<1>1. Apart /\ ForgetsAlone
  BY AloneApart
<1> QED BY <1>1, DirectoryLoginIsBound, DirectoryRoundTrip, DirectoryHostKeyKept, PTL
=============================================================================
