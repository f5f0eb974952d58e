-------------------------- MODULE MCSessionValidation --------------------------
(* SessionValidation on small instances. *)
EXTENDS SessionValidation, TLC

\* Users and requests are interchangeable; only the safety run says so.
Symmetry == Permutations(Users) \cup Permutations(Requests)
================================================================================
