----------------------------- MODULE MCServices -----------------------------
(***************************************************************************)
(* What the process does in the background until it is told to stop: it    *)
(* re-authorizes sessions, closes them, shuts down, and renews the         *)
(* certificates of its listeners.  The sessions and the certificates share *)
(* no state: `service' says which of the two a behaviour is about.         *)
(***************************************************************************)
EXTENDS SessionRegistry, TlsCertificates

VARIABLE service

servicesVars == <<service, vars, tlsVars>>

ServicesInit == service \in {"sessions", "certificates"} /\ Init /\ TlsInit

ServicesNext ==
    \/ service = "sessions" /\ Next /\ UNCHANGED <<service, tlsVars>>
    \/ service = "certificates" /\ TlsNext /\ UNCHANGED <<service, vars>>

ServicesSpec ==
    /\ ServicesInit /\ [][ServicesNext]_servicesVars
    /\ \/ service = "sessions" /\ Fairness
       \/ service = "certificates" /\ TlsFairness
=============================================================================
