------------------------------ MODULE UsersTable ------------------------------
(***************************************************************************)
(* The table "users" of fastapi_app/models.py and the SQL statements that  *)
(* main.py runs on it.  PostgreSQL executes each statement in a            *)
(* transaction of its own, so each is one function of the table.           *)
(* A row keeps the columns main.py decides on; name and created_at are     *)
(* only displayed.                                                         *)
(***************************************************************************)
EXTENDS Credentials

CONSTANTS UserId, Email

Role == {"admin", "normal"}

User == [user_id : UserId, email : Email, password : Stored, role : Role]

\* The identifiers and the addresses of a set of rows.
Ids(T) == {u.user_id : u \in T}
Emails(T) == {u.email : u \in T}

\* SELECT ... FROM users WHERE email = e.
ByEmail(T, e) == {u \in T : u.email = e}

\* SELECT ... FROM users WHERE user_id = i.
ById(T, i) == {u \in T : u.user_id = i}

\* Mutant of ViolatesUnique: the column lost its UNIQUE constraint.
ViolatesUnique_dropped(T, e) == FALSE

\* email VARCHAR(255) UNIQUE NOT NULL: the INSERT raises UniqueViolationError.
ViolatesUnique(T, e) == e \in Emails(T)

\* Mutant of NewRow: the role is taken from the request as "admin".
NewRow_admin(i, e, s) ==
    [user_id |-> i, email |-> e, password |-> s, role |-> "admin"]

\* INSERT INTO users (...) VALUES (..., 'normal') with the generated user_id.
NewRow(i, e, s) ==
    [user_id |-> i, email |-> e, password |-> s, role |-> "normal"]

\* Mutant of Updated: the WHERE clause is missing.
Updated_all(T, i, s) == {[u EXCEPT !.password = s] : u \in T}

\* Mutant of Updated: the row is written anew, with the role of a new account.
Updated_replace(T, i, s) ==
    {u \in T : u.user_id # i}
      \cup {NewRow(i, u.email, s) : u \in ById(T, i)}

\* UPDATE users SET password = s WHERE user_id = i.
Updated(T, i, s) ==
    {u \in T : u.user_id # i} \cup {[u EXCEPT !.password = s] : u \in ById(T, i)}

\* Mutant of Deleted: the WHERE clause is missing.
Deleted_all(T, i) == {}

\* DELETE FROM users WHERE user_id = i.
Deleted(T, i) == {u \in T : u.user_id # i}
=============================================================================
