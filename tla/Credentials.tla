----------------------------- MODULE Credentials -----------------------------
(***************************************************************************)
(* How fastapi_app/main.py treats a password: the length check, the bcrypt *)
(* hash it stores, and the check of a presented password against what is   *)
(* stored.  A password is a value; the two facts the code distinguishes    *)
(* about its text are its length (Short) and whether encoding or hashing   *)
(* it raises (Unhashable).                                                 *)
(***************************************************************************)
CONSTANTS
    Password,     \* the passwords a client can present
    Short,        \* those with len(password) < 6
    Unhashable,   \* those on which str.encode or bcrypt raises ValueError
    Blank,        \* the empty string; a missing JSON field is treated alike
    HashedPwd     \* the literal text "hashed_pwd" of demonstration rows

ASSUME CredentialsAssumption ==
    /\ Short \subseteq Password
    /\ Unhashable \subseteq Password
    /\ Blank \in Short \ Unhashable
    /\ HashedPwd \in Password \ (Short \cup Unhashable)

\* The text of users.password: a bcrypt hash of some password, or a text that
\* is no bcrypt hash.  The salt is left out: no code compares two hashes.
Stored == [scheme : {"bcrypt", "raw"}, text : Password]

\* len(password) < 6.
TooShort(p) == p \in Short

\* hashpw(encode(p)) raises an exception.
HashFails(p) == p \in Unhashable

\* Mutant of hashpw: the text itself goes to the table.
hashpw_forgotten(p) == p

\* bcrypt.hashpw(p.encode(), gensalt()).decode().
hashpw(p) == [scheme |-> "bcrypt", text |-> p]

\* checkpw raises ValueError: what is stored is no hash, or p does not encode.
CheckRaises(p, s) == s.scheme = "raw" \/ p \in Unhashable

\* The except-branch of the check: stored_password == "hashed_pwd" or the two
\* texts are equal.  It is reached with a hash stored only when p does not
\* encode, and such a p differs from every hash.
PlainMatch(p, s) == s.scheme = "raw" /\ (s.text = HashedPwd \/ s.text = p)

\* valid_password of login_user and change_password.
ValidPassword(p, s) ==
    IF CheckRaises(p, s) THEN PlainMatch(p, s) ELSE s.text = p
=============================================================================
