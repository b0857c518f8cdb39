------------------------------ MODULE Directory ------------------------------
(* The administration of targets, the accounts that hold their upstream     *)
(* credentials, the roles that grant them and the users that have the roles *)
(* (gated-admin/src/api/{targets,accounts,roles,users}.rs), together with   *)
(* the choice of the login a connection uses                                *)
(* (gated-core/src/account_credentials.rs).                                 *)
(*                                                                          *)
(* A row's name is its identity: names are unique, so a second create with  *)
(* a name fails either at the handler's check or at the unique index.  Each *)
(* administrator has one request under way; a handler is one action when it *)
(* decides and writes in one statement or transaction, and several when it  *)
(* reads in one statement and writes in a later one.                        *)
EXTENDS Naturals, Sequences, FiniteSets, SequencesExt

CONSTANTS
    Accounts, Targets, Roles, Users, Hosts, Admins,
    Secrets,        \* the secret values an administrator may supply
    KindOf,         \* "ssh", "db" or "http" of every account and target
    BuiltinRole,    \* the role of BUILTIN_ADMIN_ROLE_NAME
    Blank,          \* an empty secret
    None,
    Omitted         \* a request body without the accounts field

ASSUME KindAssumption == KindOf \in [Accounts \cup Targets -> {"ssh", "db", "http"}]
ASSUME RoleAssumption == BuiltinRole \in Roles
ASSUME ValuesAssumption ==
    /\ Blank \notin Secrets
    /\ None \notin Accounts \cup Targets \cup Roles \cup Users \cup Hosts

VARIABLES
    account,    \* [Accounts -> the secret of the row, or None]
    target,     \* [Targets -> the options of the row, or None]
    binding,    \* [Targets -> set of <<account, role of the binding>>]
    grant,      \* [Targets \X Roles -> the target_roles rows: a sequence of
                \*  the account each row names, None for the default login]
    role,       \* the roles that exist
    user,       \* the users that exist
    member,     \* [Users \X Roles -> number of user_roles rows]
    host,       \* the endpoints with a known host key
    admin       \* [Admins -> the request under way]

vars == <<account, target, binding, grant, role, user, member, host, admin>>

BindRoles == {"primary", "fallback"}
Idle == [op |-> "idle"]

----------------------------------------------------------------------------
(* Target options: the authentication method, its secret and the endpoint.  *)

MethodsOf(kind) ==
    CASE kind = "ssh" -> {"password", "key"}
      [] kind = "db" -> {"password"}
      [] kind = "http" -> {"none", "token"}

has_inline_credentials(options) == options.secret # Blank

\* SSH public-key authentication with no key needs a bound account.
missing_ssh_private_key(t, options) ==
    KindOf[t] = "ssh" /\ options.method = "key" /\ options.secret = Blank

clear_inline_credentials(t, options) ==
    [options EXCEPT
        !.secret = Blank,
        !.method = CASE KindOf[t] = "ssh" -> "key"
                     [] KindOf[t] = "db" -> "password"
                     [] KindOf[t] = "http" -> "none"]

redact_inline_secrets(options) == [options EXCEPT !.secret = Blank]

\* What the read endpoints return: no secret ever leaves.
target_config_with_accounts(t) ==
    IF binding[t] = {} THEN redact_inline_secrets(target[t])
                       ELSE clear_inline_credentials(t, target[t])

\* Mutant: the comparison of the methods is the wrong way round.
DropBlankSecret(options, stored) ==
    IF options.secret = Blank /\ options.method # stored.method
    THEN [options EXCEPT !.secret = stored.secret]
    ELSE options

\* A blank secret keeps the stored one while the method is unchanged.
keep_stored_secrets(options, stored) ==
    IF options.secret = Blank /\ options.method = stored.method
    THEN [options EXCEPT !.secret = stored.secret]
    ELSE options

account_kind_matches_target(a, t) == KindOf[a] = KindOf[t]

validate_target_accounts(t, accounts) ==
    /\ \E b \in accounts : b[2] = "primary"
    /\ \A b \in accounts : /\ account[b[1]] # None
                           /\ account_kind_matches_target(b[1], t)

Bodies(t) == [method : MethodsOf(KindOf[t]), secret : Secrets \cup {Blank}, host : Hosts]
BindingLists == {Omitted} \cup SUBSET (Accounts \X BindRoles)

\* A missing row is told apart from any options.
ASSUME OptionsAssumption == \A t \in Targets : None \notin Bodies(t)

Bound(t) == {b[1] : b \in binding[t]}

----------------------------------------------------------------------------
Init ==
    /\ account = [a \in Accounts |-> None]
    /\ target = [t \in Targets |-> None]
    /\ binding = [t \in Targets |-> {}]
    /\ grant = [tr \in Targets \X Roles |-> <<>>]
    /\ role = {BuiltinRole}
    /\ user = {}
    /\ member = [ur \in Users \X Roles |-> 0]
    /\ host = {}
    /\ admin = [x \in Admins |-> Idle]

Answered(x) == admin' = [admin EXCEPT ![x] = Idle]
Goes(x, request) == admin' = [admin EXCEPT ![x] = request]
tables == <<account, target, binding, grant, role, user, member, host>>

(* Targets ****************************************************************)

\* The options a handler goes on to write, given the stored row (None when
\* the target is being created), or None when it refuses the body.
OptionsToWrite(t, body, accounts, stored) ==
    LET mode == accounts \notin {Omitted, {}}
        kept == IF stored = None THEN body ELSE keep_stored_secrets(body, stored)
        keeps_bindings == stored # None /\ accounts = Omitted /\ binding[t] # {}
    IN IF mode
       THEN IF has_inline_credentials(body) THEN None
            ELSE clear_inline_credentials(t, body)
       ELSE IF missing_ssh_private_key(t, kept) /\ ~keeps_bindings THEN None
            ELSE kept

\* Everything the handlers of create and update read before their transaction.
TargetChecks(x, op, t, body, accounts) ==
    LET options == OptionsToWrite(t, body, accounts, target[t])
    IN /\ admin[x] = Idle
       /\ options # None
       /\ accounts \notin {Omitted, {}} => validate_target_accounts(t, accounts)
       /\ Goes(x, [op |-> op, t |-> t, options |-> options, accounts |-> accounts])
       /\ UNCHANGED tables

api_create_target(x, t, body, accounts) ==
    target[t] = None /\ TargetChecks(x, "create_target", t, body, accounts)

api_update_target(x, t, body, accounts) ==
    target[t] # None /\ TargetChecks(x, "update_target", t, body, accounts)

\* Mutant: the roles keep accounts that are no longer bound.
ReplaceBindingsOnly(t, accounts) ==
    /\ binding' = [binding EXCEPT ![t] = accounts]
    /\ UNCHANGED grant

\* The new bindings of t; a role keeps an account only if it stays bound.
replace_target_accounts(t, accounts) ==
    LET kept == {b[1] : b \in accounts}
    IN /\ binding' = [binding EXCEPT ![t] = accounts]
       /\ grant' = [tr \in Targets \X Roles |->
                      IF tr[1] # t THEN grant[tr]
                      ELSE [i \in DOMAIN grant[tr] |->
                              IF grant[tr][i] \in kept THEN grant[tr][i] ELSE None]]

\* The transaction: the row, then the bindings; any failure rolls both back.
TargetCommit(x) ==
    LET q == admin[x]
        present == (target[q.t] # None) = (q.op = "update_target")
        found == q.accounts = Omitted \/ \A b \in q.accounts : account[b[1]] # None
    IN /\ q.op \in {"create_target", "update_target"}
       /\ IF present /\ found
          THEN /\ target' = [target EXCEPT ![q.t] = q.options]
               /\ IF q.accounts = Omitted
                  THEN UNCHANGED <<binding, grant>>
                  ELSE replace_target_accounts(q.t, q.accounts)
          ELSE UNCHANGED <<target, binding, grant>>
       /\ Answered(x)
       /\ UNCHANGED <<account, role, user, member, host>>

\* Mutant: siblings on the endpoint are not looked for.
NoSiblings(t, h) == FALSE


ssh_endpoint_still_referenced(t, h) ==
    \E s \in Targets \ {t} : KindOf[s] = "ssh" /\ target[s] # None /\ target[s].host = h

\* delete_target, statement by statement: the grants ...
api_delete_target(x, t) ==
    /\ admin[x] = Idle
    /\ target[t] # None
    /\ grant' = [tr \in Targets \X Roles |-> IF tr[1] = t THEN <<>> ELSE grant[tr]]
    /\ Goes(x, [op |-> IF KindOf[t] = "ssh" THEN "delete_hosts" ELSE "delete_target",
                t |-> t, host |-> target[t].host])
    /\ UNCHANGED <<account, target, binding, role, user, member, host>>

\* ... the look for a sibling on the same endpoint ...
DeleteTargetSiblings(x) ==
    LET q == admin[x]
    IN /\ q.op = "delete_hosts"
       /\ Goes(x, [op |-> IF ssh_endpoint_still_referenced(q.t, q.host)
                          THEN "delete_target" ELSE "forget_host",
                   t |-> q.t, host |-> q.host])
       /\ UNCHANGED tables

\* ... its known host key ...
DeleteTargetHosts(x) ==
    LET q == admin[x]
    IN /\ q.op = "forget_host"
       /\ host' = host \ {q.host}
       /\ Goes(x, [q EXCEPT !.op = "delete_target"])
       /\ UNCHANGED <<account, target, binding, grant, role, user, member>>

\* ... and its row, which a grant added meanwhile still holds back.
DeleteTargetRow(x) ==
    LET t == admin[x].t
        held == \E r \in Roles : grant[<<t, r>>] # <<>>
    IN /\ admin[x].op = "delete_target"
       /\ target' = IF held THEN target ELSE [target EXCEPT ![t] = None]
       /\ binding' = IF held THEN binding ELSE [binding EXCEPT ![t] = {}]
       /\ Answered(x)
       /\ UNCHANGED <<account, grant, role, user, member, host>>

\* A connection that meets a new host key records it (client/handler.rs).
TrustHost(t) ==
    /\ target[t] # None /\ KindOf[t] = "ssh"
    /\ host' = host \cup {target[t].host}
    /\ UNCHANGED <<account, target, binding, grant, role, user, member, admin>>

(* Roles and grants *******************************************************)

api_add_target_role(x, t, r) ==
    /\ admin[x] = Idle
    /\ grant[<<t, r>>] = <<>>
    /\ Goes(x, [op |-> "add_target_role", t |-> t, r |-> r])
    /\ UNCHANGED tables

\* target_roles has no unique index: an insert fails only on a missing row.
AddTargetRoleInsert(x) ==
    LET q == admin[x]
        valid == target[q.t] # None /\ q.r \in role
    IN /\ q.op = "add_target_role"
       /\ grant' = IF valid THEN [grant EXCEPT ![<<q.t, q.r>>] = Append(@, None)] ELSE grant
       /\ Answered(x)
       /\ UNCHANGED <<account, target, binding, role, user, member, host>>

\* One row goes, whichever the query returns first.
api_delete_target_role(x, t, r) ==
    /\ admin[x] = Idle
    /\ target[t] # None /\ r \in role
    /\ \E i \in DOMAIN grant[<<t, r>>] :
          grant' = [grant EXCEPT ![<<t, r>>] = RemoveAt(@, i)]
    /\ UNCHANGED <<account, target, binding, role, user, member, host, admin>>

api_set_target_role_account(x, t, r, a) ==
    /\ admin[x] = Idle
    /\ grant[<<t, r>>] # <<>>
    /\ a # None => a \in Bound(t)
    /\ Goes(x, [op |-> "set_role_account", t |-> t, r |-> r, a |-> a])
    /\ UNCHANGED tables

SetTargetRoleAccountWrite(x) ==
    LET q == admin[x]
    IN /\ q.op = "set_role_account"
       /\ grant' = IF grant[<<q.t, q.r>>] = <<>> THEN grant
                   ELSE [grant EXCEPT ![<<q.t, q.r>>][1] = q.a]
       /\ Answered(x)
       /\ UNCHANGED <<account, target, binding, role, user, member, host>>

api_create_role(x, r) ==
    /\ admin[x] = Idle
    /\ r \notin role
    /\ role' = role \cup {r}
    /\ UNCHANGED <<account, target, binding, grant, user, member, host, admin>>

\* The row's foreign keys refuse the delete while the role is in use.
api_delete_role(x, r) ==
    /\ admin[x] = Idle
    /\ r \in role \ {BuiltinRole}
    /\ \A t \in Targets : grant[<<t, r>>] = <<>>
    /\ \A u \in Users : member[<<u, r>>] = 0
    /\ role' = role \ {r}
    /\ UNCHANGED <<account, target, binding, grant, user, member, host, admin>>

(* Users ******************************************************************)

api_create_user(x, u) ==
    /\ admin[x] = Idle
    /\ u \notin user
    /\ user' = user \cup {u}
    /\ UNCHANGED <<account, target, binding, grant, role, member, host, admin>>

api_delete_user(x, u) ==
    /\ admin[x] = Idle
    /\ u \in user
    /\ member' = [ur \in Users \X Roles |-> IF ur[1] = u THEN 0 ELSE member[ur]]
    /\ Goes(x, [op |-> "delete_user", u |-> u])
    /\ UNCHANGED <<account, target, binding, grant, role, user, host>>

\* A role given to the user between the two statements keeps the row.
DeleteUserRow(x) ==
    LET u == admin[x].u
    IN /\ admin[x].op = "delete_user"
       /\ user' = IF \E r \in Roles : member[<<u, r>>] > 0 THEN user ELSE user \ {u}
       /\ Answered(x)
       /\ UNCHANGED <<account, target, binding, grant, role, member, host>>

api_add_user_role(x, u, r) ==
    /\ admin[x] = Idle
    /\ member[<<u, r>>] = 0
    /\ Goes(x, [op |-> "add_user_role", u |-> u, r |-> r])
    /\ UNCHANGED tables

AddUserRoleInsert(x) ==
    LET q == admin[x]
    IN /\ q.op = "add_user_role"
       /\ member' = IF q.u \in user /\ q.r \in role
                    THEN [member EXCEPT ![<<q.u, q.r>>] = @ + 1] ELSE member
       /\ Answered(x)
       /\ UNCHANGED <<account, target, binding, grant, role, user, host>>

api_delete_user_role(x, u, r) ==
    /\ admin[x] = Idle
    /\ u \in user /\ r \in role
    /\ member[<<u, r>>] > 0
    /\ member' = [member EXCEPT ![<<u, r>>] = @ - 1]
    /\ UNCHANGED <<account, target, binding, grant, role, user, host, admin>>

(* Accounts ***************************************************************)

validate_required_credentials(secret) == secret # Blank
merge_credentials(stored, incoming) == IF incoming = Blank THEN stored ELSE incoming

\* Create and update read, then confirm the administrator's identity, then
\* write; a refused confirmation drops the request.
api_create_account(x, a, secret) ==
    /\ admin[x] = Idle
    /\ account[a] = None
    /\ validate_required_credentials(secret)
    /\ Goes(x, [op |-> "create_account", a |-> a, secret |-> secret])
    /\ UNCHANGED tables

api_update_account(x, a, secret) ==
    /\ admin[x] = Idle
    /\ account[a] # None
    /\ validate_required_credentials(merge_credentials(account[a], secret))
    /\ Goes(x, [op |-> "update_account", a |-> a,
                secret |-> merge_credentials(account[a], secret)])
    /\ UNCHANGED tables

StepUpRefused(x) ==
    /\ admin[x].op \in {"create_account", "update_account"}
    /\ Answered(x)
    /\ UNCHANGED tables

insert_account(x) ==
    LET q == admin[x]
        present == (account[q.a] # None) = (q.op = "update_account")
    IN /\ q.op \in {"create_account", "update_account"}
       /\ account' = IF present THEN [account EXCEPT ![q.a] = q.secret] ELSE account
       /\ Answered(x)
       /\ UNCHANGED <<target, binding, grant, role, user, member, host>>

account_references(a) == {t \in Targets : a \in Bound(t)}

api_delete_account(x, a) ==
    /\ admin[x] = Idle
    /\ account[a] # None
    /\ account_references(a) = {}
    /\ Goes(x, [op |-> "delete_account", a |-> a])
    /\ UNCHANGED tables

\* The foreign key of target_accounts restricts the delete of a bound account.
FkRestricts(a) == account_references(a) # {}

DeleteAccountRow(x) ==
    LET a == admin[x].a
    IN /\ admin[x].op = "delete_account"
       /\ account' = IF FkRestricts(a) THEN account ELSE [account EXCEPT ![a] = None]
       /\ Answered(x)
       /\ UNCHANGED <<target, binding, grant, role, user, member, host>>

(* Connections ************************************************************)

\* .one() picks any of several primary bindings.
primary_account_ids(t) ==
    LET p == {b[1] : b \in {x \in binding[t] : x[2] = "primary"}}
    IN IF p = {} THEN {None} ELSE p

\* The logins the user's roles allow, when the target's primary is p.
login_choices(u, t, p) ==
    LET rows == UNION {ToSet(grant[<<t, r>>]) : r \in {r \in Roles : member[<<u, r>>] > 0}}
    IN {IF g = None THEN p ELSE g : g \in rows}

\* A requested account must be a choice; with none requested a single choice
\* is taken, no grant (a ticket) means the default login and several refuse.
\* The set of logins the call may return, empty when it is an error.
select_login(u, t, requested) ==
    UNION {LET choices == login_choices(u, t, p)
               named == choices \ {None}
           IN IF \E a \in named : account[a] = None THEN {}
              ELSE IF requested # None THEN {requested} \cap named
              ELSE IF choices = {} THEN {None}
              ELSE IF Cardinality(choices) = 1 THEN choices ELSE {}
           : p \in primary_account_ids(t)}

\* A process crash: the requests under way are gone, the tables stay.
Crash ==
    /\ admin' = [x \in Admins |-> Idle]
    /\ UNCHANGED tables

----------------------------------------------------------------------------
AdminNext(x) ==
    \/ \E t \in Targets :
          \/ \E body \in Bodies(t), accounts \in BindingLists :
                \/ api_create_target(x, t, body, accounts)
                \/ api_update_target(x, t, body, accounts)
          \/ api_delete_target(x, t)
          \/ \E r \in Roles :
                \/ api_add_target_role(x, t, r)
                \/ api_delete_target_role(x, t, r)
                \/ \E a \in Accounts \cup {None} : api_set_target_role_account(x, t, r, a)
    \/ TargetCommit(x)
    \/ DeleteTargetSiblings(x) \/ DeleteTargetHosts(x) \/ DeleteTargetRow(x)
    \/ AddTargetRoleInsert(x) \/ SetTargetRoleAccountWrite(x)
    \/ \E r \in Roles : api_create_role(x, r) \/ api_delete_role(x, r)
    \/ \E u \in Users :
          \/ api_create_user(x, u) \/ api_delete_user(x, u)
          \/ \E r \in Roles : api_add_user_role(x, u, r) \/ api_delete_user_role(x, u, r)
    \/ DeleteUserRow(x) \/ AddUserRoleInsert(x)
    \/ \E a \in Accounts :
          \/ \E s \in Secrets \cup {Blank} : \/ api_create_account(x, a, s)
                                             \/ api_update_account(x, a, s)
          \/ api_delete_account(x, a)
    \/ StepUpRefused(x) \/ insert_account(x) \/ DeleteAccountRow(x)

Next ==
    \/ \E x \in Admins : AdminNext(x)
    \/ \E t \in Targets : TrustHost(t)
    \/ Crash

Spec == Init /\ [][Next]_vars

----------------------------------------------------------------------------
(* Properties                                                              *)

\* A connection is never signed in with an account that is not bound to its
\* target: neither by its user's roles nor by its own request (login_choices,
\* select_login, and everything that maintains the rows they read).
LoginIsBound ==
    \A u \in user, t \in Targets, a \in Accounts \cup {None} :
        target[t] # None => select_login(u, t, a) \subseteq Bound(t) \cup {None}

\* Sending back what a read endpoint returned is never refused, and leaves a
\* target without bindings as it is: no secret is wiped by a round trip
\* (keep_stored_secrets, redact_inline_secrets, clear_inline_credentials).
RoundTripKeepsTarget ==
    \A t \in Targets :
        target[t] # None =>
            LET written == OptionsToWrite(t, target_config_with_accounts(t), Omitted, target[t])
            IN /\ written # None
               /\ binding[t] = {} => written = target[t]

\* Deleting a target takes a known host key away only when no other SSH
\* target still uses the endpoint (api_delete_target).
HostKeyKept ==
    [][\A h \in host \ host' : \A t \in Targets :
          target[t] # None /\ KindOf[t] = "ssh" /\ target[t].host = h
             => \E x \in Admins : admin[x].op = "forget_host" /\ admin[x].t = t]_vars
=============================================================================
