-------------------------- MODULE AccountProperties --------------------------
(***************************************************************************)
(* What the account API of fastapi_app/main.py guarantees, over all        *)
(* interleavings of its handlers, failing statements, lost answers,        *)
(* shutdowns and crashes of AccountService.                                *)
(***************************************************************************)
EXTENDS AccountService, FiniteSets

\* The answer of r has reached its client.
Got200(r, op) == pc[r] = "done" /\ req[r].op = op /\ reply[r].status = 200

\* A request of this operation for this user_id that has been received.
Asked(r, op, i) == pc[r] # "new" /\ req[r].op = op /\ req[r].user_id = i

\* p opens a row that stores s: it is the password stored, in clear or hashed,
\* or the row is a demonstration row.
Opens(p, s) == p = s.text \/ s = [scheme |-> "raw", text |-> HashedPwd]

-----------------------------------------------------------------------------
\* No two rows share an address or an identifier, although register_user looks
\* for the address and inserts the row in two separate statements.
UniqueKeys ==
    \A u, v \in users : u.user_id = v.user_id \/ u.email = v.email => u = v

\* While there is a pool, each connection is free or held by exactly one
\* handler, and a handler holds one exactly while it is inside its
\* "async with" block; no return, exception or failing release leaks one.
PoolConserved ==
    /\ \A r \in Request : conn[r] # NoConn <=> pc[r] \in {"query", "release"}
    /\ \A r, s \in Request : conn[r] = conn[s] /\ conn[r] # NoConn => r = s
    /\ \A r \in Request : conn[r] \notin idle
    /\ idle \cup {conn[r] : r \in Request} \subseteq Conn \cup {NoConn}
    /\ pool => \A c \in Conn : c \in idle \/ \E r \in Request : conn[r] = c

\* Every password the table has ever stored, other than in the rows it started
\* with, is the hash of a long enough password that a registration of that
\* address, or a change for that identifier, asked for.
PasswordProvenance ==
    \A h \in history \ Seed :
        /\ h.password.scheme = "bcrypt"
        /\ h.password.text \notin Short \cup Unhashable
        /\ \E r \in Request :
             \/ /\ req[r].op = "register_user" /\ req[r].email = h.email
                /\ req[r].password = h.password.text
             \/ /\ Asked(r, "change_password", h.user_id)
                /\ req[r].new = h.password.text

\* A registration answered 200 names one account, under the address it asked
\* for, that no other registration was answered with; the account is there, with
\* the password asked for, until a deletion or a change for it is received.
\* Crashes, lost answers and other requests do not take it away.
AcknowledgedAccountsLast ==
    \A r \in Request : Got200(r, "register_user") =>
        \E i \in UserId :
            /\ reply[r].ids = {i}
            /\ \A s \in Request \ {r} : Got200(s, "register_user") => reply[s].ids # {i}
            /\ \/ \E d \in Request : Asked(d, "delete_account", i)
               \/ \E u \in ById(users, i) :
                    /\ u.email = req[r].email
                    /\ \/ u.password = hashpw(req[r].password)
                       \/ \E c \in Request : Asked(c, "change_password", i)

\* A registration refused with 400 made no account: never were there more
\* accounts of an address than registrations of it that were not refused.
RefusedRegistersNothing ==
    \A e \in Email :
        Cardinality(Ids(ByEmail(history \ Seed, e)) \ Ids(Seed))
          <= Cardinality({r \in Request : /\ req[r].op = "register_user"
                                          /\ req[r].email = e
                                          /\ reply[r].status # 400})

\* After a deletion was answered 200 the account is gone, whatever change or
\* second deletion was in flight.
DeletedIsGone ==
    \A r \in Request : Got200(r, "delete_account") => req[r].user_id \notin Ids(users)

\* A login answered 200 names an account that had the address, and that the
\* presented password opened, at some moment; an info answer names the account
\* asked for.
AnswersNameTheirAccount ==
    \A r \in Request :
        /\ Got200(r, "login_user") =>
             \E h \in history : /\ h.email = req[r].email
                                /\ Opens(req[r].password, h.password)
                                /\ reply[r].ids = {h.user_id}
        /\ Got200(r, "get_user_info") => reply[r].ids = {req[r].user_id}

\* A password is replaced only for a client that presented a password that
\* opened the account at some moment, whatever became of the row in between.
ChangeWasAuthorised ==
    \A r \in Request : sql[r] = "update" \/ Got200(r, "change_password") =>
        \E h \in history : /\ h.user_id = req[r].user_id
                           /\ Opens(req[r].password, h.password)

\* The list of all users goes only to an administrator the table started with:
\* no sequence of requests makes another.
AdminListSound ==
    \A r \in Request : Got200(r, "list_all_users") =>
        \E u \in Seed : u.user_id = req[r].user_id /\ u.role = "admin"

-----------------------------------------------------------------------------
\* Once a row of the table is deleted, no row has its identifier again: an
\* UPDATE that arrives late does not bring it back.
DeletedStaysDeleted ==
    [][\A i \in Ids(history) \ Ids(users) : i \notin Ids(users')]_vars

\* A row keeps its address and its role for as long as it lives.
RowsKeepAddressAndRole ==
    [][\A u \in users, v \in users' : u.user_id = v.user_id =>
          u.email = v.email /\ u.role = v.role]_vars

-----------------------------------------------------------------------------
(* What the code says of itself and does not keep. *)

\* The step in which r's handler answers 200 to a statement st.
Acknowledges(r, st) == sql[r] = st /\ pc'[r] = "release" /\ reply'[r].status = 200

\* main.py:149 answers 400 to a registration of an address that is taken.  For
\* one whose SELECT found the address this says that the answer is a 400.
DuplicateAnswered400 ==
    [][\A r \in Request :
          Resumes(r, "register_user", "select_email") /\ Fetched(r) /\ pc'[r] = "release"
            => reply'[r].status = 400]_vars

\* main.py:402 reports a changed password: the UPDATE it acknowledges found a
\* row.
ChangeAckMeansChanged ==
    [][\A r \in Request : Acknowledges(r, "update") => result[r].rows # {}]_vars

\* main.py:373 verifies the current password: the UPDATE replaces a password
\* that the client presented.
CurrentPasswordReplaced ==
    [][\A r \in Request : sql[r] = "update" /\ Pending(r) /\ users' # users =>
          \A u \in ById(users, req[r].user_id) :
              u \notin users' => Opens(req[r].password, u.password)]_vars

-----------------------------------------------------------------------------
\* Every request received is answered, unless the process crashes first: no
\* handler waits for ever for a connection.
EveryRequestAnswered ==
    \A r \in Request : Running(r) ~> pc[r] \in {"done", "lost"}

\* A shutdown comes to its end: the handlers in flight finish and lifespan
\* closes the pool.
ShutdownCompletes == life = "draining" ~> life = "stopped"
=============================================================================
