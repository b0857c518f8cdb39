----------------------------- MODULE MCDbProxy -----------------------------
(***************************************************************************)
(* The two database proxies.  Their sessions share no state, so each       *)
(* behaviour is one connection of one of them: `engine' says which.        *)
(***************************************************************************)
EXTENDS PostgresProxy, MySqlProxy

VARIABLE engine

dbProxyVars == <<engine, pgVars, myVars>>

\* Every TLS mode of a target is tried for the handshake, one for the relay.
DbProxyInit ==
    /\ engine \in {"postgres", "mysql"}
    /\ PostgresInit /\ MySqlInit
    /\ sent.left > 0 => pgLink.mode = "required" /\ pgLink.password
    /\ IF engine = "postgres" THEN myUp.mode = "disabled" /\ ~myUp.password
       ELSE sent.left > 0

DbProxyNext ==
    \/ engine = "postgres" /\ PostgresNext /\ UNCHANGED <<engine, myVars>>
    \/ engine = "mysql" /\ MySqlNext /\ UNCHANGED <<engine, pgVars>>

DbProxySpec == DbProxyInit /\ [][DbProxyNext]_dbProxyVars

\* No stored password crosses a plain link that was meant to be TLS, whatever the target
\* offers or asks for, and no user is asked for one there (both client.rs, connect()).
SecretsOverTls == PostgresSecretKept /\ MySqlSecretKept
=============================================================================
