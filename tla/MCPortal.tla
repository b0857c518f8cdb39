------------------------------ MODULE MCPortal ------------------------------
(***************************************************************************)
(* The portal under twelve workloads.  Each behaviour starts with a browser  *)
(* of "alice" signed in (or a fresh installation) and lets a handful of    *)
(* requests run in two slots, in any order and overlapping anyhow.         *)
(***************************************************************************)
EXTENDS Portal, TLC

None0 == [k \in RequestKinds \cup Events |-> 0]

Workloads == {
    "login" :> 1 @@ "logout" :> 1 @@ "lifetime" :> 1 @@ "poll" :> 1,
    "login" :> 1 @@ "lifetime" :> 1 @@ "foreign" :> 1 @@ "lapse" :> 1 @@ "auditFails" :> 1,
    "login" :> 1 @@ "password" :> 1 @@ "revoke" :> 1 @@ "poll" :> 1,
    "otpLogin" :> 2 @@ "reveal" :> 1 @@ "tick" :> 2,
    "reveal" :> 2 @@ "tick" :> 3 @@ "restart" :> 1,
    "beginOtp" :> 1 @@ "createOtp" :> 2 @@ "deleteOtp" :> 1 @@ "password" :> 1,
    "poll" :> 2 @@ "dropTicket" :> 1 @@ "useTicket" :> 1,
    "mint" :> 1 @@ "poll" :> 1 @@ "useTicket" :> 1,
    "setup" :> 3,
    "reveal" :> 2 @@ "logout" :> 1 @@ "login" :> 1,
    "ssoStart" :> 1 @@ "ssoReturn" :> 2,
    "continue" :> 1 @@ "cancel" :> 1 @@ "login" :> 1 @@ "expire" :> 1 }

FirstTickets == {
    [t \in Tickets |-> [live |-> left["mint"] = 0, user |-> "bob", uses |-> n, granted |-> n]] : n \in {-1, 1, Unlimited}}

SignedInEntries == [NoEntries EXCEPT !.auth = [kind |-> "user", user |-> "alice"], !.sid = 1, !.state = 1]

MCInit ==
    /\ \E w \in Workloads : left = w @@ None0
    /\ otp = [u \in Users |-> IF u = "alice" /\ left["tick"] > 0 THEN {1} ELSE {}]
    /\ LET fresh == left["setup"] > 0
           ticketed == left["useTicket"] > 0
       IN /\ cookies = [c \in Cookies |-> IF c = "c1" /\ ~fresh THEN SignedInEntries ELSE NotStored]
          /\ handles = IF fresh THEN <<>> ELSE [h \in {1} |-> "alice"]
          /\ states = IF fresh THEN <<>> ELSE <<[user |-> "alice", policy |-> "any", have |-> {"pw"}]>>
          /\ tickets \in IF ticketed THEN FirstTickets ELSE {CHOOSE f \in FirstTickets : TRUE}
          /\ setup = [done |-> ~fresh, token |-> fresh, lock |-> None]
          /\ seen = [ids |-> IF fresh THEN 1 ELSE 2, over |-> {}, uses |-> [t \in Tickets |-> 0],
                     codes |-> [c \in Codes |-> 0], keys |-> IF otp["alice"] = {} THEN 1 ELSE 2]
    /\ policy = [u \in Users |-> IF otp[u] = {} THEN "any" ELSE "pwotp"]
    /\ idle = {} /\ cp = None /\ now = 1
    /\ pw = [u \in Users |-> {"old"}]
    /\ pending = [u \in Users |-> NoId]
    /\ consumed = {} /\ guard = NoGuard /\ audit = [u \in Users |-> Never]
    /\ req = [r \in Requests |-> Idle]

RequestSymmetry == Permutations(Requests)

MCSpec == MCInit /\ [][PortalNext]_portalVars
=============================================================================
