------------------------------ MODULE MCUsersHeap ------------------------------
(* Three backends, one account in the table, and the combinations of      *)
(* statements that meet on one row or on one address.                     *)
EXTENDS UsersHeapHistory, TLC

CONSTANTS x1, x2, x3, id1, a1, a2, p1, p2, blank, hashed

MCUserId == Xact \cup {id1}
MCInitialRows == <<NewRow(id1, a1, hashpw(p1))>>

ins(e) == [op |-> "insert", email |-> e, password |-> hashpw(p1)]
upd(p) == [op |-> "update", user_id |-> id1, password |-> hashpw(p)]
del == [op |-> "delete", user_id |-> id1]
byId == [op |-> "select_id", user_id |-> id1]
byEmail(e) == [op |-> "select_email", email |-> e]

Run(s1, s2, s3) == (x1 :> s1) @@ (x2 :> s2) @@ (x3 :> s3)

MCWorkload ==
    {Run(ins(a2), ins(a2), byEmail(a2)),   \* two registrations of one address
     Run(ins(a1), upd(p2), del),           \* a registration of a row's address
     Run(ins(a1), ins(a1), del),
     Run(upd(p1), upd(p2), del),           \* writers of one row
     Run(upd(p1), upd(p2), upd(hashed)),
     Run(upd(p2), del, del),
     Run(upd(p2), del, byId)}
=============================================================================
