----------------------------- MODULE MCTraffic ------------------------------
(***************************************************************************)
(* What is recorded and reported of the traffic that is passed through:    *)
(* requests of the HTTP proxy, a websocket to a Kubernetes pod with its    *)
(* recording, and an SFTP channel.  The three share no state, so a         *)
(* behaviour is one of them: `front' says which.                           *)
(***************************************************************************)
EXTENDS HttpProxy, KubeExec, SftpAuditor

VARIABLE front

\* Two Kubernetes targets that a user may mix up, and a generic one.
MCFlavor == [t \in Targets |-> IF t = "web" THEN "generic" ELSE "kubernetes"]

\* One target's credential is a header, configured in mixed case.
MCUpstreamAuth == [t \in Targets |-> IF t = "kube1" THEN {"X-Api-Key"} ELSE {}]

MCUpstreamUrl ==
    [t \in Targets |-> IF t = "web" THEN [scheme |-> "http", tls |-> "preferred"]
                       ELSE [scheme |-> "https", tls |-> "required"]]

MCRequestHeaders == {{"x-api-key", "authorization", "accept-encoding"}}

trafficVars == <<front, httpVars, execVars, sftpVars>>

TrafficInit ==
    /\ front \in {"http", "exec", "sftp"}
    /\ HttpInit /\ ExecInit /\ SftpInit

TrafficNext ==
    \/ front = "http" /\ HttpNext /\ UNCHANGED <<front, execVars, sftpVars>>
    \/ front = "exec" /\ ExecNext /\ UNCHANGED <<front, httpVars, sftpVars>>
    \/ front = "sftp" /\ SftpNext /\ UNCHANGED <<front, httpVars, execVars>>

TrafficSpec == TrafficInit /\ [][TrafficNext]_trafficVars
=============================================================================
