-------------------------- MODULE MCAccountService --------------------------
(* Instances of the account service for TLC. *)
EXTENDS AccountProperties, TLC

CONSTANTS u1, u2, u3, e1, e2, blank, hashed_pwd, good, other, tiny, nul

MCUserId == {u1, u2, u3}
MCEmail == {e1, e2}
MCPassword == {blank, hashed_pwd, good, other, tiny, nul}
MCShort == {blank, tiny}
MCUnhashable == {nul}

\* An administrator whose row was written by hand, as demonstration rows are.
MCSeed == {[user_id |-> u1, email |-> e1,
            password |-> [scheme |-> "raw", text |-> hashed_pwd], role |-> "admin"]}

Register(e, p) == [op |-> "register_user", email |-> e, user_id |-> NoId,
                   password |-> p, new |-> blank]
Login(e, p) == [Register(e, p) EXCEPT !.op = "login_user"]
ForId(op, i) == [op |-> op, email |-> NoEmail, user_id |-> i,
                 password |-> blank, new |-> blank]
Change(i, p, n) == [ForId("change_password", i) EXCEPT !.password = p, !.new = n]

\* Every operation and every early refusal.
FullMenu ==
    {Register(e2, p) : p \in {good, tiny, nul}} \cup {Register(e1, good)}
    \cup {Login(e2, good), Login(e2, other), Login(e1, nul), Login(e1, other)}
    \cup {ForId("get_user_info", i) : i \in {u1, u2, NoId, BadId}}
    \cup {ForId("list_all_users", i) : i \in {u1, u2, NoId, BadId}}
    \cup {ForId("delete_account", i) : i \in {u1, u2, NoId, BadId}}
    \cup {Change(u2, good, other), Change(u2, other, good), Change(u1, good, other),
          Change(u1, good, nul), Change(u1, good, tiny), Change(u1, blank, good),
          Change(NoId, good, other), Change(BadId, good, other)}
    \cup {ForId(op, NoId) : op \in {"get_model_accuracy", "logout_user", "root"}}

\* The requests that write, and the two that depend on what was written.
WriteMenu ==
    {Register(e2, good), Register(e2, other), Login(e2, good),
     ForId("list_all_users", u2), ForId("delete_account", u1), ForId("delete_account", u2),
     Change(u2, good, other), Change(u2, other, good), Change(u1, good, other)}

\* An account, and requests that meet on it.
ContendedMenu ==
    {Register(e2, good), ForId("delete_account", u2),
     Change(u2, good, other), Change(u2, good, hashed_pwd)}

Symmetry == Permutations(Request) \cup Permutations(Conn)
=============================================================================
