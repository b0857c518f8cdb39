------------------------------ MODULE AuthPolicy ------------------------------
(***************************************************************************)
(* Credential policies and the verdict of one login attempt.               *)
(*                                                                         *)
(* Translated from gated-common/src/auth/{policy,state}.rs and from        *)
(* get_credential_policy in gated-core/src/config_providers/db.rs.  The    *)
(* data is abstracted to credential KINDS: AnySingleCredentialPolicy asks  *)
(* only whether some credential was validated, AllCredentialsPolicy only   *)
(* which kinds were.  The Certificate kind (Kubernetes only) is left out.  *)
(***************************************************************************)
EXTENDS FiniteSets, Naturals

Kinds == {"Password", "PublicKey", "Totp", "Sso", "WebUserApproval"}

Protocols == {"SSH", "HTTP", "MySQL", "PostgreSQL"}

CONSTANTS
    Users,      \* user names known to the config provider
    Creds,      \* Creds[u]: the kinds of credential u has enrolled
    Require,    \* Require[u][p]: the kinds u's stored policy demands on p ...
    NoPolicy    \* ... or NoPolicy when the stored policy is silent about p

ASSUME PolicyAssumption ==
    /\ Users # {}
    /\ Creds \in [Users -> SUBSET (Kinds \ {"WebUserApproval"})]
    /\ \A kinds \in SUBSET Kinds : NoPolicy # kinds
    /\ Require \in [Users -> [Protocols -> (SUBSET Kinds) \cup {NoPolicy}]]

(***************************************************************************)
(* The `supported_credential_types` each protocol passes to `create`.      *)
(***************************************************************************)
Supported ==
    [p \in Protocols |->
        CASE p = "SSH"  -> {"Password", "PublicKey", "Totp", "WebUserApproval"}
          [] p = "HTTP" -> {"Password", "Sso", "Totp"}
          [] OTHER      -> {"Password"}]

Policies == [rule : {"any", "all"}, kinds : SUBSET Kinds]

(***************************************************************************)
(* get_credential_policy, resolved for the one protocol the AuthState is   *)
(* created for (PerProtocolCredentialPolicy looks up `protocol` and falls  *)
(* back to the default policy).                                            *)
(***************************************************************************)
DefaultKinds(u, p) ==
    LET supported == Supported[p] \cap (Creds[u] \cup {"WebUserApproval"})
    IN  IF Cardinality(supported) > 1 THEN supported \ {"WebUserApproval"}
                                      ELSE supported

get_credential_policy(u, p) ==
    IF Require[u][p] = NoPolicy
    THEN [rule |-> "any", kinds |-> DefaultKinds(u, p)]
    ELSE [rule |-> "all", kinds |-> Require[u][p]]

(***************************************************************************)
(* is_sufficient: `ok`, or the kinds still needed.  An empty required set  *)
(* fails closed.                                                           *)
(***************************************************************************)
Ok == [ok |-> TRUE, need |-> {}]
Need(kinds) == [ok |-> FALSE, need |-> kinds]

AnySingleSufficient(supported, valid) ==
    IF valid = {} THEN Need(supported) ELSE Ok

\* Mutant: the emptiness guard of AllCredentialsPolicy is missing.
AllSufficient_NoEmptyGuard(required, valid) ==
    IF required \subseteq valid THEN Ok ELSE Need(required \ valid)

AllSufficient(required, valid) ==
    IF required = {} THEN Need({})
    ELSE IF valid # {} /\ required \subseteq valid THEN Ok
    ELSE Need(required \ valid)

is_sufficient(policy, valid) ==
    IF policy.rule = "any" THEN AnySingleSufficient(policy.kinds, valid)
                           ELSE AllSufficient(policy.kinds, valid)

(***************************************************************************)
(* AuthState and its verdict.  `valid` stands for the list of validated    *)
(* credentials, of which only the kinds matter.                            *)
(***************************************************************************)
AuthStates ==
    [user : Users, protocol : Protocols, policy : Policies,
     valid : SUBSET Kinds, rejected : BOOLEAN]

NewAuthState(u, p) ==
    [user |-> u, protocol |-> p, policy |-> get_credential_policy(u, p),
     valid |-> {}, rejected |-> FALSE]

Results == {"Accepted", "Need", "Rejected"}

verify(s) ==
    IF s.rejected THEN "Rejected"
    ELSE IF is_sufficient(s.policy, s.valid).ok THEN "Accepted" ELSE "Need"

Needs(s) ==
    IF verify(s) = "Need" THEN is_sufficient(s.policy, s.valid).need ELSE {}

add_valid_credential(s, kind) == [s EXCEPT !.valid = @ \cup {kind}]

reject(s) == [s EXCEPT !.rejected = TRUE]
=============================================================================
