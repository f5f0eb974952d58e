--------------------------- MODULE SessionRepository ---------------------------
(***************************************************************************)
(* repository/session.go over the `sessions` table of                      *)
(* migrations/0001_initial_schema.up.sql.                                  *)
(*                                                                         *)
(* A table is a set of rows.  Every method is one SQL statement, hence     *)
(* atomic: it is an operator from the table before to the table after, or  *)
(* to the set of rows it selects.  A statement that matches no row is not  *)
(* an error in this code: Exec's row count is discarded.                   *)
(***************************************************************************)
EXTENDS Integers

\* A row.  deleted_at is only ever compared with NULL, so it is a Boolean.
SessionRow(Id, User, Hash, Time) ==
    [id: Id, userID: User, tokenHash: Hash, expiresAt: Time, deleted: BOOLEAN]

\* INSERT: the new row starts with deleted_at NULL.
Create(table, id, userID, tokenHash, expiresAt) ==
    table \cup {[id |-> id, userID |-> userID, tokenHash |-> tokenHash,
                 expiresAt |-> expiresAt, deleted |-> FALSE]}

\* SELECT: expiry is not part of the WHERE clause.
GetByTokenHash(table, tokenHash) ==
    {r \in table : r.tokenHash = tokenHash /\ ~r.deleted}

\* Mutant of Update: token_hash is not among the columns that are set.
Update_KeepsHash(table, session) ==
    {IF r.id = session.id THEN [session EXCEPT !.tokenHash = r.tokenHash] ELSE r : r \in table}

\* UPDATE ... WHERE id: overwrites every column, deleted_at included.
Update(table, session) ==
    {IF r.id = session.id THEN session ELSE r : r \in table}

\* UPDATE ... SET deleted_at WHERE id.
SoftDelete(table, id) ==
    {IF r.id = id THEN [r EXCEPT !.deleted = TRUE] ELSE r : r \in table}

\* UPDATE ... SET deleted_at WHERE user_id.
SoftDeleteByUserID(table, userID) ==
    {IF r.userID = userID THEN [r EXCEPT !.deleted = TRUE] ELSE r : r \in table}

\* DELETE ... WHERE id.
Delete(table, id) == {r \in table : r.id # id}

\* The worker's DELETE: strictly past expires_at, or soft-deleted.
DeleteExpiredAndSoftDeleted(table, now) ==
    {r \in table : ~(r.expiresAt < now \/ r.deleted)}

\* The owners of the rows that make the token valid: none, or its user.
IsTokenValid(table, tokenHash, now) ==
    {r.userID : r \in {s \in table : /\ s.tokenHash = tokenHash
                                     /\ s.expiresAt > now
                                     /\ ~s.deleted}}

\* ON DELETE CASCADE from users(id).
CascadeDeleteUser(table, userID) == {r \in table : r.userID # userID}
================================================================================
