---------------------------- MODULE MCAuthAccounts -----------------------------
(* AuthAccounts on small instances. *)
EXTENDS AuthAccounts, TLC

CONSTANTS e1, e2, e3, s1

\* One provider subject, whose email may also sign up with a password.
MCEmailOf == s1 :> e1

\* One prefix just fits, one does not.
MCPrefixLength == (e1 :> 5) @@ (e2 :> 93) @@ (e3 :> 94)

Symmetry == Permutations(Procs) \cup Permutations(Usernames)
================================================================================
