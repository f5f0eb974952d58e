---------------------------- MODULE MCAuthSessions -----------------------------
(* AuthSessions on small instances. *)
EXTENDS AuthSessions, TLC

\* Users and handlers are interchangeable.
Symmetry == Permutations(Users) \cup Permutations(Procs)
================================================================================
