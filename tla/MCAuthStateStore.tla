--------------------------- MODULE MCAuthStateStore ---------------------------
(* Small instances of AuthStateStore for TLC. *)
EXTENDS AuthStateStore, TLC

\* alice and everybody else, each with a policy of its own.
CONSTANT alice

\* The others have enrolled no public key.
MCCreds ==
    [u \in Users |-> IF u = alice THEN {"Password", "PublicKey"} ELSE {"Password"}]

\* alice needs her browser's approval everywhere but on MySQL; the stored policy
\* of the others names MySQL with an empty list, which must admit nobody.
MCRequire ==
    [u \in Users |-> [p \in Protocols |->
        CASE u # alice /\ p = "MySQL" -> {}
          [] u = alice /\ p = "SSH"   -> {"PublicKey", "WebUserApproval"}
          [] u = alice /\ p \in {"HTTP", "PostgreSQL"}
                                      -> {"Password", "WebUserApproval"}
          [] OTHER                    -> NoPolicy]]

\* Every portal is alice's.
MCPortalUser == [w \in Portals |-> alice]

IdSymmetry == Permutations(Ids)
=============================================================================
