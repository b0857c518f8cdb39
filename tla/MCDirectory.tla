----------------------------- MODULE MCDirectory -----------------------------
(* Instances of Directory: SSH targets that share an endpoint and accounts  *)
(* of the same kind, one role beside the built-in one.                      *)
EXTENDS Directory, TLC

MCKindOf == [v \in Accounts \cup Targets |-> "ssh"]

\* No action and no property tells one target or account from another.
Interchangeable == Permutations(Targets) \cup Permutations(Accounts)
=============================================================================
