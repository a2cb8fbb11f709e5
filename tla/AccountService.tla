---------------------------- MODULE AccountService ----------------------------
(***************************************************************************)
(* The account API of fastapi_app/main.py.  One asyncio event loop runs    *)
(* the request handlers; a handler runs without interruption from one      *)
(* await to the next, so each of its steps between two awaits is one       *)
(* action.  The awaits are: acquiring a connection of the asyncpg pool, a  *)
(* statement sent to PostgreSQL, and giving the connection back.  The      *)
(* database executes a statement at some moment between its issue and the  *)
(* handler's resumption, in any order with those of other requests; it can *)
(* fail, and its answer can be lost after it took effect.  The process can *)
(* be shut down, crash and be started again; the table survives.           *)
(***************************************************************************)
EXTENDS UsersTable, Naturals

CONSTANTS
    Request,      \* the HTTP requests that may arrive, each handled once
    Menu,         \* what a request may ask for
    Seed,         \* the rows the table holds before the first start
    Conn,         \* the connections of the pool (asyncpg: 10)
    NoConn, NoId, BadId,  \* no connection; a missing and a malformed user_id
    NoEmail,      \* the e-mail address of a request that carries none
    MaxFaults,    \* bound on failing statements, acquisitions and startups
    MaxBoots      \* bound on process starts

Op == {"register_user", "login_user", "get_user_info", "change_password",
       "delete_account", "list_all_users", "get_model_accuracy",
       "logout_user", "root"}

\* A request after FastAPI parsed it.  password is the (current) password,
\* new the new one; a field the operation does not have is Blank or NoId.
Query == [op : Op, email : Email \cup {NoEmail}, user_id : UserId \cup {NoId, BadId},
          password : Password, new : Password]

ASSUME ServiceAssumption ==
    /\ Menu \subseteq Query
    /\ \A q \in Menu : q.op \in {"register_user", "login_user"} => q.email \in Email
    /\ Seed \subseteq User
    /\ \A u, v \in Seed : u.user_id = v.user_id \/ u.email = v.email => u = v
    /\ NoConn \notin Conn
    /\ NoId \notin UserId /\ BadId \notin UserId /\ NoEmail \notin Email
    /\ MaxFaults \in Nat /\ MaxBoots \in Nat

VARIABLES
    users,     \* the table
    history,   \* auxiliary: every row version the table has ever held
    req,       \* what each request asks for
    pc,        \* where its handler is
    sql,       \* the statement it has sent, "none" if there is none
    result,    \* the database's answer to that statement
    reply,     \* the HTTP answer the handler has decided on
    conn,      \* the connection it holds
    idle,      \* the pool's queue of free connections
    pool,      \* whether app.state.db_pool exists
    life,      \* the phase of the process
    boots, faults

vars == <<users, history, req, pc, sql, result, reply, conn, idle, pool, life,
          boots, faults>>

dbVars == <<users, history>>
poolVars == <<conn, idle>>
procVars == <<pool, life, boots>>

Statement == {"none", "select_email", "select_id", "insert", "update",
              "delete", "select_all", "accuracy"}
Status == {0, 200, 400, 401, 403, 404, 500}

NoQuery == [op |-> "root", email |-> NoEmail, user_id |-> NoId,
            password |-> Blank, new |-> Blank]
NoResult == [tag |-> "none", rows |-> {}]
Rows(S) == [tag |-> "rows", rows |-> S]
UniqueViolation == [tag |-> "unique", rows |-> {}]
DbError == [tag |-> "error", rows |-> {}]

\* An HTTP answer: its status and the accounts its body names.
Answer(status, ids) == [status |-> status, ids |-> ids]
NoReply == Answer(0, {})

Running(r) == pc[r] \in {"acquire", "reacquire", "query", "release"}

TypeOK ==
    /\ users \subseteq User
    /\ history \subseteq User
    /\ req \in [Request -> Menu \cup {NoQuery}]
    /\ pc \in [Request -> {"new", "acquire", "reacquire", "query", "release",
                           "done", "lost"}]
    /\ sql \in [Request -> Statement]
    /\ result \in [Request -> [tag : {"none", "rows", "unique", "error"},
                               rows : SUBSET User]]
    /\ reply \in [Request -> [status : Status, ids : SUBSET UserId]]
    /\ conn \in [Request -> Conn \cup {NoConn}]
    /\ idle \subseteq Conn
    /\ pool \in BOOLEAN
    /\ life \in {"starting", "serving", "draining", "stopped"}
    /\ boots \in 0..MaxBoots
    /\ faults \in 0..MaxFaults

Init ==
    /\ users = Seed
    /\ history = Seed
    /\ req = [r \in Request |-> NoQuery]
    /\ pc = [r \in Request |-> "new"]
    /\ sql = [r \in Request |-> "none"]
    /\ result = [r \in Request |-> NoResult]
    /\ reply = [r \in Request |-> NoReply]
    /\ conn = [r \in Request |-> NoConn]
    /\ idle = {}
    /\ pool = FALSE
    /\ life = "starting"
    /\ boots = 0
    /\ faults = 0

Fault == faults < MaxFaults /\ faults' = faults + 1

-----------------------------------------------------------------------------
(* The process: lifespan and get_db, under uvicorn. *)

\* get_db returned a pool and lifespan stored it: the server accepts requests.
lifespan_connected ==
    /\ life = "starting"
    /\ life' = "serving"
    /\ pool' = TRUE
    /\ idle' = Conn
    /\ UNCHANGED <<dbVars, req, pc, sql, result, reply, conn, boots, faults>>

\* get_db caught an exception and returned None; lifespan logs it and the
\* server accepts requests all the same, without app.state.db_pool.
lifespan_unconnected ==
    /\ life = "starting"
    /\ Fault
    /\ life' = "serving"
    /\ pool' = FALSE
    /\ UNCHANGED <<dbVars, req, pc, sql, result, reply, conn, idle, boots>>

\* SIGTERM: uvicorn accepts no further request.
ShutdownSignal ==
    /\ life = "serving"
    /\ life' = "draining"
    /\ UNCHANGED <<dbVars, req, pc, sql, result, reply, conn, idle, pool, boots, faults>>

\* Every handler has finished: lifespan resumes after its yield and closes
\* the pool if there is one.
lifespan_close ==
    /\ life = "draining"
    /\ \A r \in Request : ~Running(r)
    /\ life' = "stopped"
    /\ pool' = FALSE
    /\ idle' = {}
    /\ UNCHANGED <<dbVars, req, pc, sql, result, reply, conn, boots, faults>>

\* start_api.sh is run again.
Restart ==
    /\ life = "stopped"
    /\ boots < MaxBoots
    /\ boots' = boots + 1
    /\ life' = "starting"
    /\ UNCHANGED <<dbVars, req, pc, sql, result, reply, conn, idle, pool, faults>>

\* The process dies.  Its handlers are gone, and their clients get no answer;
\* a statement already sent stays with the database and may yet be executed.
Crash ==
    /\ life \in {"serving", "draining"}
    /\ boots < MaxBoots
    /\ life' = "stopped"
    /\ pc' = [r \in Request |-> IF Running(r) THEN "lost" ELSE pc[r]]
    /\ conn' = [r \in Request |-> NoConn]
    /\ idle' = {}
    /\ pool' = FALSE
    /\ UNCHANGED <<dbVars, req, sql, result, reply, boots, faults>>

-----------------------------------------------------------------------------
(* PostgreSQL. *)

Pending(r) == sql[r] # "none" /\ result[r].tag = "none"

\* The statement of r has been executed with outcome out; if lost, the
\* connection broke before the answer arrived and the handler gets an error.
Answered(r, out, lost) ==
    /\ result' = [result EXCEPT ![r] = IF lost THEN DbError ELSE out]
    /\ IF lost THEN Fault ELSE UNCHANGED faults

\* A statement that reads: the three SELECTs on users and the accuracy query.
\* A user_id that is no UUID makes asyncpg raise DataError.
DbSelect(r, lost) ==
    /\ \/ sql[r] = "select_email" /\ Answered(r, Rows(ByEmail(users, req[r].email)), lost)
       \/ /\ sql[r] = "select_id" /\ req[r].user_id # BadId
          /\ Answered(r, Rows(ById(users, req[r].user_id)), lost)
       \/ sql[r] = "select_id" /\ req[r].user_id = BadId /\ Answered(r, DbError, lost)
       \/ sql[r] = "select_all" /\ Answered(r, Rows(users), lost)
       \/ sql[r] = "accuracy" /\ Answered(r, Rows({}), lost)
    /\ UNCHANGED dbVars

\* gen_random_uuid() returns an identifier no row has ever had.
DbInsert(r, lost) ==
    /\ sql[r] = "insert"
    /\ IF ViolatesUnique(users, req[r].email)
       THEN Answered(r, UniqueViolation, lost) /\ UNCHANGED dbVars
       ELSE \E i \in UserId \ Ids(history) :
                LET u == NewRow(i, req[r].email, hashpw(req[r].password))
                IN  /\ users' = users \cup {u}
                    /\ history' = history \cup {u}
                    /\ Answered(r, Rows({u}), lost)

\* Mutant of DbUpdate: the row that was read is saved back whole, as an ORM
\* session would, so that it comes back after a concurrent DELETE.
DbUpdate_save(r, lost) ==
    LET read == CHOOSE h \in history : h.user_id = req[r].user_id
    IN  /\ sql[r] = "update"
        /\ users' = Deleted(users, read.user_id)
                      \cup {[read EXCEPT !.password = hashpw(req[r].new)]}
        /\ history' = history \cup users'
        /\ Answered(r, Rows({read}), lost)

DbUpdate(r, lost) ==
    /\ sql[r] = "update"
    /\ users' = Updated(users, req[r].user_id, hashpw(req[r].new))
    /\ history' = history \cup users'
    /\ Answered(r, Rows(ById(users', req[r].user_id)), lost)

DbDelete(r, lost) ==
    /\ sql[r] = "delete"
    /\ users' = Deleted(users, req[r].user_id)
    /\ Answered(r, Rows(ById(users, req[r].user_id)), lost)
    /\ UNCHANGED history

DbExecute(r) ==
    /\ Pending(r)
    /\ \E lost \in BOOLEAN : \/ DbSelect(r, lost) \/ DbInsert(r, lost)
                             \/ DbUpdate(r, lost) \/ DbDelete(r, lost)
    /\ UNCHANGED <<req, pc, sql, reply, poolVars, procVars>>

\* The statement is not executed: the connection broke first, or the database
\* refused it (a name over 100 characters, a lock timeout, a full disk).
DbRefuse(r) ==
    /\ Pending(r)
    /\ Fault
    /\ result' = [result EXCEPT ![r] = DbError]
    /\ UNCHANGED <<dbVars, req, pc, sql, reply, poolVars, procVars>>

-----------------------------------------------------------------------------
(* A request arrives: a handler up to its first await. *)

\* The answer a handler gives before it needs the database; 0 if none.
EarlyStatus(q) ==
    CASE q.op = "register_user" /\ TooShort(q.password) -> 400
      [] q.op = "register_user" /\ ~TooShort(q.password) /\ HashFails(q.password) -> 500
      [] q.op \in {"get_user_info", "list_all_users"} /\ q.user_id = NoId -> 401
      [] q.op = "change_password"
           /\ (q.user_id = NoId \/ q.password = Blank \/ TooShort(q.new)) -> 400
      [] q.op = "delete_account" /\ q.user_id = NoId -> 400
      [] q.op \in {"logout_user", "root"} -> 200
      [] OTHER -> 0

\* Without app.state.db_pool the attribute access raises, which every handler
\* or FastAPI itself turns into a 500.
Accept(r) ==
    /\ life = "serving"
    /\ pc[r] = "new"
    /\ \E q \in Menu :
         /\ req' = [req EXCEPT ![r] = q]
         /\ \/ /\ EarlyStatus(q) # 0
               /\ reply' = [reply EXCEPT ![r] = Answer(EarlyStatus(q), {})]
               /\ pc' = [pc EXCEPT ![r] = "done"]
            \/ /\ EarlyStatus(q) = 0 /\ ~pool
               /\ reply' = [reply EXCEPT ![r] = Answer(500, {})]
               /\ pc' = [pc EXCEPT ![r] = "done"]
            \/ /\ EarlyStatus(q) = 0 /\ pool
               /\ pc' = [pc EXCEPT ![r] = "acquire"]
               /\ UNCHANGED reply
    /\ UNCHANGED <<dbVars, sql, result, poolVars, procVars, faults>>

-----------------------------------------------------------------------------
(* The pool: "async with app.state.db_pool.acquire() as conn". *)

\* The statement a handler sends first on the connection it got.
FirstStatement(r) ==
    CASE pc[r] = "reacquire" -> "select_all"
      [] pc[r] = "acquire" /\ req[r].op \in {"register_user", "login_user"} -> "select_email"
      [] pc[r] = "acquire" /\ req[r].op = "get_model_accuracy" -> "accuracy"
      [] OTHER -> "select_id"

\* A free connection is handed out; with none, the handler waits without limit.
Acquire(r) ==
    /\ pc[r] \in {"acquire", "reacquire"}
    /\ \E c \in idle : conn' = [conn EXCEPT ![r] = c] /\ idle' = idle \ {c}
    /\ pc' = [pc EXCEPT ![r] = "query"]
    /\ sql' = [sql EXCEPT ![r] = FirstStatement(r)]
    /\ UNCHANGED <<dbVars, req, result, reply, procVars, faults>>

\* The free connection was broken and reconnecting fails: acquire raises.
AcquireFails(r) ==
    /\ pc[r] \in {"acquire", "reacquire"}
    /\ idle # {}
    /\ Fault
    /\ pc' = [pc EXCEPT ![r] = "done"]
    /\ reply' = [reply EXCEPT ![r] = Answer(500, {})]
    /\ UNCHANGED <<dbVars, req, sql, result, poolVars, procVars>>

\* Mutant of GiveBack: an early return forgets the connection.
GiveBack_leak(r) ==
    /\ conn' = [conn EXCEPT ![r] = NoConn]
    /\ idle' = IF reply[r].status = 404 THEN idle ELSE idle \cup {conn[r]}

\* __aexit__: the connection goes back to the pool on every path out.
GiveBack(r) ==
    /\ conn' = [conn EXCEPT ![r] = NoConn]
    /\ idle' = idle \cup {conn[r]}

\* Mutant of Release: the connection admin_only used is kept while
\* list_all_users waits for another one.
Release_nested(r) ==
    /\ pc[r] = "release"
    /\ IF reply[r] = NoReply THEN UNCHANGED poolVars ELSE GiveBack(r)
    /\ pc' = [pc EXCEPT ![r] = IF reply[r] = NoReply THEN "reacquire" ELSE "done"]
    /\ UNCHANGED <<dbVars, req, sql, result, reply, procVars, faults>>

\* The block ends: the answer goes out, or, when admin_only has let the request
\* through, list_all_users acquires a connection of its own.
Release(r) ==
    /\ pc[r] = "release"
    /\ GiveBack(r)
    /\ pc' = [pc EXCEPT ![r] = IF reply[r] = NoReply THEN "reacquire" ELSE "done"]
    /\ UNCHANGED <<dbVars, req, sql, result, reply, procVars, faults>>

\* Resetting the connection fails: __aexit__ raises in place of the answer.
ReleaseFails(r) ==
    /\ pc[r] = "release"
    /\ Fault
    /\ GiveBack(r)
    /\ pc' = [pc EXCEPT ![r] = "done"]
    /\ reply' = [reply EXCEPT ![r] = Answer(500, {})]
    /\ UNCHANGED <<dbVars, req, sql, result, procVars>>

-----------------------------------------------------------------------------
(* The handlers, from the answer to a statement to their next await. *)

Resumes(r, op, st) == pc[r] = "query" /\ req[r].op = op /\ sql[r] = st

Got(r, tag) == result[r].tag = tag

\* The row a SELECT, or INSERT ... RETURNING, came back with.
Fetched(r) == Got(r, "rows") /\ result[r].rows # {}
FetchedNone(r) == Got(r, "rows") /\ result[r].rows = {}

\* The handler returns or raises; the connection is released next.
Respond(r, status, ids) ==
    /\ reply' = [reply EXCEPT ![r] = Answer(status, ids)]
    /\ pc' = [pc EXCEPT ![r] = "release"]
    /\ sql' = [sql EXCEPT ![r] = "none"]
    /\ result' = [result EXCEPT ![r] = NoResult]

\* The handler sends a further statement on the same connection.
Execute(r, st) ==
    /\ sql' = [sql EXCEPT ![r] = st]
    /\ result' = [result EXCEPT ![r] = NoResult]
    /\ UNCHANGED <<reply, pc>>

handlerFrame == UNCHANGED <<dbVars, req, poolVars, procVars, faults>>

\* Mutant of register_user: the INSERT is retried after an error.
register_user_retry(r) ==
    /\ \/ /\ Resumes(r, "register_user", "select_email")
          /\ \/ Fetched(r) /\ Respond(r, 500, {})
             \/ FetchedNone(r) /\ Execute(r, "insert")
             \/ Got(r, "error") /\ Respond(r, 500, {})
       \/ /\ Resumes(r, "register_user", "insert")
          /\ \/ Fetched(r) /\ Respond(r, 200, Ids(result[r].rows))
             \/ Got(r, "unique") /\ Respond(r, 400, {})
             \/ Got(r, "error") /\ Execute(r, "insert")
    /\ handlerFrame

\* The HTTPException(400) raised for an existing address is caught by the
\* "except Exception" of the same try block, which raises a 500.
register_user(r) ==
    /\ \/ /\ Resumes(r, "register_user", "select_email")
          /\ \/ Fetched(r) /\ Respond(r, 500, {})
             \/ FetchedNone(r) /\ Execute(r, "insert")
             \/ Got(r, "error") /\ Respond(r, 500, {})
       \/ /\ Resumes(r, "register_user", "insert")
          /\ \/ Fetched(r) /\ Respond(r, 200, Ids(result[r].rows))
             \/ Got(r, "unique") /\ Respond(r, 400, {})
             \/ Got(r, "error") /\ Respond(r, 500, {})
    /\ handlerFrame

\* Mutant of Verified: the user exists, and that is taken for proof.
Verified_any(r) == result[r].rows # {}

\* The presented password passes against the row the SELECT returned.
Verified(r) == \E u \in result[r].rows : ValidPassword(req[r].password, u.password)

login_user(r) ==
    /\ Resumes(r, "login_user", "select_email")
    /\ \/ FetchedNone(r) /\ Respond(r, 400, {})
       \/ Fetched(r) /\ ~Verified(r) /\ Respond(r, 400, {})
       \/ Fetched(r) /\ Verified(r) /\ Respond(r, 200, Ids(result[r].rows))
       \/ Got(r, "error") /\ Respond(r, 500, {})
    /\ handlerFrame

get_user_info(r) ==
    /\ Resumes(r, "get_user_info", "select_id")
    /\ \/ FetchedNone(r) /\ Respond(r, 404, {})
       \/ Fetched(r) /\ Respond(r, 200, Ids(result[r].rows))
       \/ Got(r, "error") /\ Respond(r, 500, {})
    /\ handlerFrame

\* The result of the UPDATE is not looked at: it may have met no row.
change_password(r) ==
    /\ \/ /\ Resumes(r, "change_password", "select_id")
          /\ \/ FetchedNone(r) /\ Respond(r, 404, {})
             \/ Fetched(r) /\ ~Verified(r) /\ Respond(r, 400, {})
             \/ Fetched(r) /\ Verified(r) /\ HashFails(req[r].new) /\ Respond(r, 500, {})
             \/ Fetched(r) /\ Verified(r) /\ ~HashFails(req[r].new) /\ Execute(r, "update")
             \/ Got(r, "error") /\ Respond(r, 500, {})
       \/ /\ Resumes(r, "change_password", "update")
          /\ \/ Got(r, "rows") /\ Respond(r, 200, {})
             \/ Got(r, "error") /\ Respond(r, 500, {})
    /\ handlerFrame

delete_account(r) ==
    /\ \/ /\ Resumes(r, "delete_account", "select_id")
          /\ \/ FetchedNone(r) /\ Respond(r, 404, {})
             \/ Fetched(r) /\ Execute(r, "delete")
             \/ Got(r, "error") /\ Respond(r, 500, {})
       \/ /\ Resumes(r, "delete_account", "delete")
          /\ \/ Got(r, "rows") /\ Respond(r, 200, {})
             \/ Got(r, "error") /\ Respond(r, 500, {})
    /\ handlerFrame

\* The dependency of list_all_users.  Letting the request through ends its
\* "async with" block without an answer.
admin_only(r) ==
    /\ Resumes(r, "list_all_users", "select_id")
    /\ \/ FetchedNone(r) /\ Respond(r, 404, {})
       \/ Fetched(r) /\ (\E u \in result[r].rows : u.role # "admin") /\ Respond(r, 403, {})
       \/ Fetched(r) /\ (\A u \in result[r].rows : u.role = "admin") /\ Respond(r, 0, {})
       \/ Got(r, "error") /\ Respond(r, 500, {})
    /\ handlerFrame

list_all_users(r) ==
    /\ Resumes(r, "list_all_users", "select_all")
    /\ \/ Got(r, "rows") /\ Respond(r, 200, Ids(result[r].rows))
       \/ Got(r, "error") /\ Respond(r, 500, {})
    /\ handlerFrame

get_model_accuracy(r) ==
    /\ Resumes(r, "get_model_accuracy", "accuracy")
    /\ \/ Got(r, "rows") /\ Respond(r, 200, {})
       \/ Got(r, "error") /\ Respond(r, 500, {})
    /\ handlerFrame

Handle(r) ==
    \/ register_user(r)
    \/ login_user(r)
    \/ get_user_info(r)
    \/ change_password(r)
    \/ delete_account(r)
    \/ admin_only(r)
    \/ list_all_users(r)
    \/ get_model_accuracy(r)

\* Nothing is left to happen within the bounds.
Terminated ==
    /\ life = "stopped"
    /\ boots = MaxBoots
    /\ UNCHANGED vars

Next ==
    \/ lifespan_connected
    \/ lifespan_unconnected
    \/ ShutdownSignal
    \/ lifespan_close
    \/ Restart
    \/ Crash
    \/ Terminated
    \/ \E r \in Request :
         \/ Accept(r)
         \/ Acquire(r)
         \/ AcquireFails(r)
         \/ DbExecute(r)
         \/ DbRefuse(r)
         \/ Handle(r)
         \/ Release(r)
         \/ ReleaseFails(r)

Spec == Init /\ [][Next]_vars

\* The event loop runs every handler that can run, the database answers every
\* statement of a live handler, and uvicorn starts and stops as it was told.
\* Nothing obliges a client to send a request or the process to stop.
Fairness ==
    /\ WF_vars(lifespan_connected \/ lifespan_unconnected)
    /\ WF_vars(lifespan_close)
    /\ \A r \in Request :
         /\ WF_vars(Acquire(r) \/ AcquireFails(r))
         /\ WF_vars(pc[r] = "query" /\ (DbExecute(r) \/ DbRefuse(r)))
         /\ WF_vars(Handle(r))
         /\ WF_vars(Release(r) \/ ReleaseFails(r))

FairSpec == Spec /\ Fairness
=============================================================================
