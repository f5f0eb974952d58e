---------------------------- MODULE TokenLifecycle -----------------------------
(***************************************************************************)
(* What the session service promises the holder of a token, whatever cache *)
(* is plugged in and whatever fails: a token is issued once, and from then *)
(* on it can only go from accepted to refused.  Nothing ever makes a       *)
(* refused token good again, neither a concurrent refresh that writes to   *)
(* the same row nor a cache entry that reappears.                          *)
(***************************************************************************)
CONSTANT Tokens

VARIABLE status

Status == {"unissued", "accepted", "refused"}

TypeOK == status \in [Tokens -> Status]

Init == status = [t \in Tokens |-> "unissued"]

\* A handler returns a new token: good, unless its session has gone meanwhile.
Issue ==
    \E t \in Tokens, s \in Status \ {"unissued"} :
        /\ status[t] = "unissued"
        /\ status' = [status EXCEPT ![t] = s]

\* Logout, refresh, expiry, eviction, deletion of the user: some tokens die.
Refuse ==
    \E S \in SUBSET {t \in Tokens : status[t] = "accepted"} :
        status' = [t \in Tokens |-> IF t \in S THEN "refused" ELSE status[t]]

Next == Refuse \/ Issue

Spec == Init /\ [][Next]_status
================================================================================
