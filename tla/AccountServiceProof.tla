------------------------- MODULE AccountServiceProof -------------------------
(***************************************************************************)
(* Proofs about the account service for every number of requests and       *)
(* connections, every menu of requests and every initial table.  The       *)
(* inductive invariant is built in layers, each proved from the ones       *)
(* before:                                                                 *)
(*   FlowInv    which statement, request and answer go with which pc;      *)
(*   PoolInv    who holds a connection, and when there is a pool;          *)
(*   TableInv   what rows the table has held;                              *)
(*   ResultInv  what the answer to a statement still says by the time its  *)
(*              handler resumes, and what an HTTP answer goes on saying.   *)
(***************************************************************************)
EXTENDS AccountProperties, TLAPS

\* The statements a handler of an operation sends.
Sends(op, st) ==
    /\ st = "select_email" => op \in {"register_user", "login_user"}
    /\ st = "select_id" => op \in {"get_user_info", "change_password",
                                   "delete_account", "list_all_users"}
    /\ st = "insert" => op = "register_user"
    /\ st = "update" => op = "change_password"
    /\ st = "delete" => op = "delete_account"
    /\ st = "select_all" => op = "list_all_users"
    /\ st = "accuracy" => op = "get_model_accuracy"

FlowOf(r) ==
    /\ pc[r] = "new" => req[r] = NoQuery /\ reply[r] = NoReply
    /\ pc[r] # "new" => req[r] \in Menu
    /\ sql[r] # "none" => pc[r] \in {"query", "lost"}
    /\ pc[r] = "query" => sql[r] # "none"
    /\ Running(r) \/ sql[r] # "none" => EarlyStatus(req[r]) = 0
    /\ pc[r] \in {"acquire", "reacquire"} \/ sql[r] # "none" => reply[r] = NoReply
    /\ pc[r] = "reacquire" => req[r].op = "list_all_users"
    /\ pc[r] = "release" /\ reply[r] = NoReply => req[r].op = "list_all_users"
    /\ Sends(req[r].op, sql[r])
    /\ sql[r] = "update" => ~HashFails(req[r].new)
    /\ conn[r] # NoConn <=> pc[r] \in {"query", "release"}

FlowInv == \A r \in Request : FlowOf(r)

PoolInv ==
    /\ PoolConserved
    /\ \A r \in Request : Running(r) => pool
    /\ life \in {"starting", "stopped"} => ~pool
    /\ ~pool => idle = {}

-----------------------------------------------------------------------------
(* Facts about the operators. *)

\* What a request that needs the database has passed: the length and hashing
\* checks of register_user, the length check of change_password.
LEMMA EarlyZero ==
    ASSUME NEW q \in Query, EarlyStatus(q) = 0
    PROVE  /\ q.op \notin {"logout_user", "root"}
           /\ q.op = "register_user" => ~TooShort(q.password) /\ ~HashFails(q.password)
           /\ q.op = "change_password" => ~TooShort(q.new) /\ q.user_id # NoId
           /\ q.op \in {"get_user_info", "list_all_users", "delete_account"} => q.user_id # NoId
BY SMTT(60) DEF EarlyStatus, Query, Op

\* EarlyStatus is an HTTP status.
LEMMA EarlyType ==
    ASSUME NEW q \in Query
    PROVE  EarlyStatus(q) \in Status
BY SMTT(60) DEF EarlyStatus, Status, Query, Op

\* The statements keep the table within its type.
LEMMA StatementTypes ==
    ASSUME NEW T \in SUBSET User, NEW i, NEW s \in Stored
    PROVE  /\ Updated(T, i, s) \subseteq User
           /\ Deleted(T, i) \subseteq User
           /\ ById(T, i) \subseteq User
           /\ \A e : ByEmail(T, e) \subseteq User
           /\ Ids(T) \subseteq UserId
           /\ \A n \in UserId, e \in Email : NewRow(n, e, s) \in User
BY SMTT(60) DEF Updated, Deleted, ById, ByEmail, Ids, NewRow, User, Role, Stored

\* A stored hash has its type.
LEMMA HashType == \A p \in Password : hashpw(p) \in Stored
BY Zenon DEF hashpw, Stored

\* Requests of the menu are queries, and so is the placeholder.
LEMMA MenuType ==
    /\ Menu \cup {NoQuery} \subseteq Query
    /\ \A q \in Menu \cup {NoQuery} : q.password \in Password /\ q.new \in Password
    /\ NoQuery.op = "root"
    /\ \A q \in Menu : q.op = "register_user" => q.email \in Email
BY SMTT(60), ServiceAssumption, CredentialsAssumption DEF NoQuery, Query, Op

\* No connection is not a connection.
LEMMA NoConnFact == NoConn \notin Conn
BY Zenon, ServiceAssumption

\* The fault counter stays within its bound.
LEMMA FaultType ==
    ASSUME TypeOK, Fault
    PROVE  faults' \in 0..MaxFaults
<1>1. faults \in 0..MaxFaults /\ MaxFaults \in Nat /\ faults < MaxFaults /\ faults' = faults + 1
  BY Zenon, ServiceAssumption DEF TypeOK, Fault
<1> QED BY SMTT(60), <1>1

-----------------------------------------------------------------------------
(* Layer 1: types and control flow. *)

\* The layer holds at the start.
LEMMA FlowInit == Init => TypeOK /\ FlowInv
<1> SUFFICES ASSUME Init PROVE TypeOK /\ FlowInv
  OBVIOUS
<1>1. TypeOK
  <2>1. Seed \subseteq User /\ 0 \in 0..MaxBoots /\ 0 \in 0..MaxFaults
    BY SMTT(60), ServiceAssumption
  <2>2. /\ NoResult \in [tag : {"none", "rows", "unique", "error"}, rows : SUBSET User]
        /\ NoReply \in [status : Status, ids : SUBSET UserId]
    BY ZenonT(60) DEF NoResult, NoReply, Answer, Status
  <2> QED BY Zenon, <2>1, <2>2 DEF Init, TypeOK, Statement
<1>2. FlowInv
  BY Zenon, MenuType DEF Init, FlowInv, FlowOf, Running, Sends
<1> QED BY Zenon, <1>1, <1>2

\* Every step of the process keeps it.
LEMMA FlowProcess ==
    ASSUME TypeOK, FlowInv,
           lifespan_connected \/ lifespan_unconnected \/ ShutdownSignal \/ lifespan_close
             \/ Restart \/ Crash \/ UNCHANGED vars
    PROVE  TypeOK' /\ FlowInv'
<1>1. CASE lifespan_connected
  BY Zenon, <1>1 DEF lifespan_connected, TypeOK, FlowInv, FlowOf, Running, dbVars
<1>2. CASE lifespan_unconnected
  BY Zenon, <1>2, FaultType DEF lifespan_unconnected, TypeOK, FlowInv, FlowOf, Running, dbVars
<1>3. CASE ShutdownSignal
  BY Zenon, <1>3 DEF ShutdownSignal, TypeOK, FlowInv, FlowOf, Running, dbVars
<1>4. CASE lifespan_close
  BY ZenonT(60), <1>4 DEF lifespan_close, TypeOK, FlowInv, FlowOf, Running, dbVars
<1>5. CASE Restart
  BY SMTT(60), <1>5, ServiceAssumption DEF Restart, TypeOK, FlowInv, FlowOf, Running, dbVars
<1>6. CASE Crash
  BY Zenon, <1>6 DEF Crash, TypeOK, FlowInv, FlowOf, Running, dbVars
<1>7. CASE UNCHANGED vars
  BY Zenon, <1>7 DEF vars, TypeOK, FlowInv, FlowOf, Running, dbVars
<1> QED BY Zenon, <1>1, <1>2, <1>3, <1>4, <1>5, <1>6, <1>7

\* So does the arrival of a request.
LEMMA FlowAccept ==
    ASSUME TypeOK, FlowInv, NEW r \in Request, Accept(r)
    PROVE  TypeOK' /\ FlowInv'
<1>1. PICK q \in Menu :
         /\ req' = [req EXCEPT ![r] = q]
         /\ \/ /\ EarlyStatus(q) # 0
               /\ reply' = [reply EXCEPT ![r] = Answer(EarlyStatus(q), {})]
               /\ pc' = [pc EXCEPT ![r] = "done"]
            \/ /\ EarlyStatus(q) = 0 /\ ~pool
               /\ reply' = [reply EXCEPT ![r] = Answer(500, {})]
               /\ pc' = [pc EXCEPT ![r] = "done"]
            \/ /\ EarlyStatus(q) = 0 /\ pool
               /\ pc' = [pc EXCEPT ![r] = "acquire"]
               /\ UNCHANGED reply
  BY Zenon DEF Accept
<1>2. EarlyStatus(q) \in Status
  BY Zenon, MenuType, EarlyType
<1>3. TypeOK'
  <2>1. req' \in [Request -> Menu \cup {NoQuery}]
    BY Zenon, <1>1 DEF TypeOK
  <2>2. Answer(EarlyStatus(q), {}) \in [status : Status, ids : SUBSET UserId]
    BY Zenon, <1>2 DEF Answer
  <2>3. Answer(500, {}) \in [status : Status, ids : SUBSET UserId]
    BY SMTT(60) DEF Answer, Status
  <2>4. reply' \in [Request -> [status : Status, ids : SUBSET UserId]]
    BY SMTT(60), <1>1, <2>2, <2>3 DEF TypeOK
  <2>5. pc' \in [Request -> {"new", "acquire", "reacquire", "query", "release", "done", "lost"}]
    BY Zenon, <1>1 DEF TypeOK
  <2> QED BY Zenon, <2>1, <2>4, <2>5 DEF Accept, TypeOK, dbVars, poolVars, procVars
<1>4. sql[r] = "none"
  BY Zenon DEF Accept, FlowInv, FlowOf
<1>5. FlowOf(r)'
  BY ZenonT(60), <1>1, <1>4 DEF Accept, TypeOK, FlowInv, FlowOf, Running, Sends, Answer, NoReply, poolVars
<1>6. ASSUME NEW s \in Request, s # r PROVE FlowOf(s)'
  BY SMTT(60), <1>1, <1>6 DEF Accept, TypeOK, FlowInv, FlowOf, Running, poolVars
<1> QED BY Zenon, <1>3, <1>5, <1>6 DEF FlowInv

\* A step that leaves a request's own state alone keeps its control flow.
LEMMA FlowFrame ==
    ASSUME FlowInv, NEW s \in Request, pc'[s] = pc[s], req'[s] = req[s],
           sql'[s] = sql[s], reply'[s] = reply[s], conn'[s] = conn[s]
    PROVE  FlowOf(s)'
BY Zenon DEF FlowInv, FlowOf, Running

\* The statement sent on a fresh connection is one of the operation's.
LEMMA FirstStatementFact ==
    ASSUME TypeOK, FlowInv, NEW r \in Request, pc[r] \in {"acquire", "reacquire"}
    PROVE  /\ FirstStatement(r) \in Statement \ {"none", "insert", "update", "delete"}
           /\ Sends(req[r].op, FirstStatement(r))
           /\ FirstStatement(r) = "select_all" <=> pc[r] = "reacquire"
<1>1. req[r] \in Query /\ EarlyStatus(req[r]) = 0
  BY Zenon, MenuType DEF TypeOK, FlowInv, FlowOf, Running
<1>2. req[r].op \in Op \ {"logout_user", "root"}
  BY Zenon, <1>1, EarlyZero DEF Query
<1>3. pc[r] = "reacquire" => req[r].op = "list_all_users"
  BY Zenon DEF FlowInv, FlowOf
<1> QED BY Zenon, <1>2, <1>3 DEF FirstStatement, Sends, Statement, Op

\* Giving back a connection keeps the types of the pool's state.
LEMMA PoolTyped ==
    ASSUME TypeOK, FlowInv, NEW r \in Request, pc[r] = "release", GiveBack(r)
    PROVE  conn' \in [Request -> Conn \cup {NoConn}] /\ idle' \subseteq Conn /\ conn'[r] = NoConn
BY ZenonT(60) DEF TypeOK, FlowInv, FlowOf, GiveBack

\* Acquiring and releasing a connection keep the layer.
LEMMA FlowPool ==
    ASSUME TypeOK, FlowInv, NEW r \in Request,
           Acquire(r) \/ AcquireFails(r) \/ Release(r) \/ ReleaseFails(r)
    PROVE  TypeOK' /\ FlowInv'
<1>0. /\ Answer(500, {}) \in [status : Status, ids : SUBSET UserId]
      /\ Answer(500, {}) # NoReply
  BY SMTT(60) DEF Answer, Status, NoReply
<1>1. CASE Acquire(r)
  <2>1. /\ FirstStatement(r) \in Statement \ {"none", "insert", "update", "delete"}
        /\ Sends(req[r].op, FirstStatement(r))
    BY Zenon, <1>1, FirstStatementFact DEF Acquire
  <2>2. TypeOK'
    BY Zenon, <1>1, <2>1 DEF Acquire, TypeOK, dbVars, procVars
  <2>3. FlowOf(r)'
    BY ZenonT(60), <1>1, <2>1, NoConnFact DEF Acquire, TypeOK, FlowInv, FlowOf, Running
  <2>4. \A s \in Request : s # r => FlowOf(s)'
    BY Zenon, <1>1, FlowFrame DEF Acquire, TypeOK
  <2> QED BY Zenon, <2>2, <2>3, <2>4 DEF FlowInv
<1>2. CASE AcquireFails(r)
  <2>1. TypeOK'
    BY ZenonT(60), <1>0, <1>2, FaultType DEF AcquireFails, TypeOK, dbVars, procVars, poolVars
  <2>2. FlowOf(r)'
    BY SMTT(60), <1>0, <1>2 DEF AcquireFails, TypeOK, FlowInv, FlowOf, Running, poolVars
  <2>3. \A s \in Request : s # r => FlowOf(s)'
    BY ZenonT(60), <1>2, FlowFrame DEF AcquireFails, TypeOK, poolVars
  <2> QED BY Zenon, <2>1, <2>2, <2>3 DEF FlowInv
<1>3. CASE Release(r)
  <2>1. pc[r] = "release" /\ GiveBack(r)
    BY Zenon, <1>3 DEF Release
  <2>2. TypeOK'
    BY Zenon, <1>3, <2>1, PoolTyped DEF Release, TypeOK, dbVars, procVars
  <2>3. FlowOf(r)'
    BY Zenon, <1>3, <2>1, PoolTyped DEF Release, TypeOK, FlowInv, FlowOf, Running
  <2>4. \A s \in Request : s # r => FlowOf(s)'
    BY Zenon, <1>3, FlowFrame DEF Release, TypeOK, GiveBack
  <2> QED BY Zenon, <2>2, <2>3, <2>4 DEF FlowInv
<1>4. CASE ReleaseFails(r)
  <2>1. TypeOK'
    BY ZenonT(60), <1>0, <1>4, PoolTyped, FaultType DEF ReleaseFails, TypeOK, dbVars, procVars
  <2>2. FlowOf(r)'
    BY SMTT(60), <1>0, <1>4, PoolTyped DEF ReleaseFails, TypeOK, FlowInv, FlowOf, Running
  <2>3. \A s \in Request : s # r => FlowOf(s)'
    BY ZenonT(60), <1>4, FlowFrame DEF ReleaseFails, TypeOK, GiveBack
  <2> QED BY Zenon, <2>1, <2>2, <2>3 DEF FlowInv
<1> QED BY Zenon, <1>1, <1>2, <1>3, <1>4

\* What the database can answer.
ResultType == [tag : {"none", "rows", "unique", "error"}, rows : SUBSET User]

\* An answer keeps the types of the result and of the fault counter.
LEMMA AnsweredType ==
    ASSUME TypeOK, NEW r \in Request, NEW out \in ResultType, NEW lost \in BOOLEAN,
           Answered(r, out, lost)
    PROVE  result' \in [Request -> ResultType] /\ faults' \in 0..MaxFaults
<1>1. DbError \in ResultType
  BY Zenon DEF DbError, ResultType
<1>2. result' \in [Request -> ResultType]
  BY Zenon, <1>1 DEF Answered, TypeOK, ResultType
<1>3. faults' \in 0..MaxFaults
  BY Zenon, FaultType DEF Answered, TypeOK
<1> QED BY Zenon, <1>2, <1>3

\* Executing a statement keeps the types of the table and of the result.
LEMMA DbTypes ==
    ASSUME TypeOK, FlowInv, NEW r \in Request, DbExecute(r)
    PROVE  /\ users' \subseteq User /\ history' \subseteq User
           /\ result' \in [Request -> ResultType] /\ faults' \in 0..MaxFaults
<1>0. /\ users \subseteq User /\ history \subseteq User
      /\ req[r].password \in Password /\ req[r].new \in Password
      /\ hashpw(req[r].password) \in Stored /\ hashpw(req[r].new) \in Stored
  BY Zenon, MenuType, HashType DEF TypeOK
<1>1. \A T \in SUBSET User : Rows(T) \in ResultType
  BY Zenon DEF Rows, ResultType
<1>2. DbError \in ResultType /\ UniqueViolation \in ResultType
  BY Zenon DEF DbError, UniqueViolation, ResultType
<1>3. PICK lost \in BOOLEAN :
         DbSelect(r, lost) \/ DbInsert(r, lost) \/ DbUpdate(r, lost) \/ DbDelete(r, lost)
  BY Zenon DEF DbExecute
<1>4. CASE DbSelect(r, lost)
  <2>1. PICK out \in ResultType : Answered(r, out, lost)
    <3>1. /\ Rows(ByEmail(users, req[r].email)) \in ResultType
          /\ Rows(ById(users, req[r].user_id)) \in ResultType
          /\ Rows(users) \in ResultType
          /\ Rows({}) \in ResultType
      BY Zenon, <1>0, <1>1, StatementTypes
    <3> QED BY Zenon, <1>2, <1>4, <3>1 DEF DbSelect
  <2> QED BY Zenon, <1>0, <1>4, <2>1, AnsweredType DEF DbSelect, dbVars
<1>5. CASE DbInsert(r, lost)
  <2>1. CASE ViolatesUnique(users, req[r].email)
    BY Zenon, <1>0, <1>2, <1>5, <2>1, AnsweredType DEF DbInsert, dbVars
  <2>2. CASE ~ViolatesUnique(users, req[r].email)
    <3>1. PICK i \in UserId \ Ids(history) :
             /\ users' = users \cup {NewRow(i, req[r].email, hashpw(req[r].password))}
             /\ history' = history \cup {NewRow(i, req[r].email, hashpw(req[r].password))}
             /\ Answered(r, Rows({NewRow(i, req[r].email, hashpw(req[r].password))}), lost)
      BY Zenon, <1>5, <2>2 DEF DbInsert
    <3>2. req[r].email \in Email
      BY Zenon, <1>5, MenuType DEF DbInsert, FlowInv, FlowOf, Sends, TypeOK
    <3>3. NewRow(i, req[r].email, hashpw(req[r].password)) \in User
      BY Zenon, <1>0, <3>2, StatementTypes
    <3>4. Rows({NewRow(i, req[r].email, hashpw(req[r].password))}) \in ResultType
      BY Zenon, <1>1, <3>3
    <3> QED BY Zenon, <1>0, <3>1, <3>3, <3>4, AnsweredType
  <2> QED BY Zenon, <2>1, <2>2
<1>6. CASE DbUpdate(r, lost)
  <2>1. users' \subseteq User
    BY Zenon, <1>0, <1>6, StatementTypes DEF DbUpdate
  <2>2. Rows(ById(users', req[r].user_id)) \in ResultType
    BY Zenon, <1>0, <1>1, <2>1, StatementTypes
  <2> QED BY Zenon, <1>0, <1>6, <2>1, <2>2, AnsweredType DEF DbUpdate
<1>7. CASE DbDelete(r, lost)
  <2>1. users' \subseteq User /\ Rows(ById(users, req[r].user_id)) \in ResultType
    BY Zenon, <1>0, <1>1, <1>7, StatementTypes DEF DbDelete
  <2> QED BY Zenon, <1>0, <1>7, <2>1, AnsweredType DEF DbDelete
<1> QED BY Zenon, <1>3, <1>4, <1>5, <1>6, <1>7

\* The database's steps keep the layer.
LEMMA FlowDb ==
    ASSUME TypeOK, FlowInv, NEW r \in Request, DbExecute(r) \/ DbRefuse(r)
    PROVE  TypeOK' /\ FlowInv'
<1>1. \A s \in Request : FlowOf(s)'
  BY Zenon, FlowFrame DEF DbExecute, DbRefuse, poolVars
<1>2. CASE DbExecute(r)
  BY Zenon, <1>1, <1>2, DbTypes DEF DbExecute, TypeOK, FlowInv, ResultType, poolVars, procVars
<1>3. CASE DbRefuse(r)
  <2>1. DbError \in ResultType
    BY Zenon DEF DbError, ResultType
  <2>2. result' \in [Request -> ResultType] /\ faults' \in 0..MaxFaults
    BY Zenon, <1>3, <2>1, FaultType DEF DbRefuse, TypeOK, ResultType
  <2> QED BY Zenon, <1>1, <1>3, <2>2 DEF DbRefuse, TypeOK, FlowInv, ResultType, dbVars, poolVars, procVars
<1> QED BY Zenon, <1>2, <1>3

\* What a handler does when it resumes: it decides on an answer, which is empty
\* only when admin_only lets the request through, or sends its second statement.
LEMMA HandleCases ==
    ASSUME TypeOK, FlowInv, NEW r \in Request, Handle(r)
    PROVE  /\ pc[r] = "query" /\ handlerFrame
           /\ \/ \E status \in Status, ids \in SUBSET UserId :
                   /\ Respond(r, status, ids)
                   /\ status = 0 => req[r].op = "list_all_users" /\ ids = {}
              \/ /\ Resumes(r, "register_user", "select_email") /\ FetchedNone(r)
                 /\ Execute(r, "insert")
              \/ /\ Resumes(r, "change_password", "select_id") /\ Fetched(r)
                 /\ Verified(r) /\ ~HashFails(req[r].new)
                 /\ Execute(r, "update")
              \/ /\ Resumes(r, "delete_account", "select_id") /\ Fetched(r)
                 /\ Execute(r, "delete")
<1>1. /\ {} \in SUBSET UserId /\ Ids(result[r].rows) \in SUBSET UserId
  BY SMTT(60) DEF TypeOK, Ids, User
<1>2. {0, 200, 400, 401, 403, 404, 500} = Status
  BY Zenon DEF Status
<1>3. CASE register_user(r)
  BY SMTT(60), <1>1, <1>2, <1>3 DEF register_user, Resumes
<1>4. CASE login_user(r)
  BY SMTT(60), <1>1, <1>2, <1>4 DEF login_user, Resumes
<1>5. CASE get_user_info(r)
  BY SMTT(60), <1>1, <1>2, <1>5 DEF get_user_info, Resumes
<1>6. CASE change_password(r)
  BY SMTT(60), <1>1, <1>2, <1>6 DEF change_password, Resumes
<1>7. CASE delete_account(r)
  BY SMTT(60), <1>1, <1>2, <1>7 DEF delete_account, Resumes
<1>8. CASE admin_only(r)
  BY SMTT(60), <1>1, <1>2, <1>8 DEF admin_only, Resumes
<1>9. CASE list_all_users(r)
  BY SMTT(60), <1>1, <1>2, <1>9 DEF list_all_users, Resumes
<1>10. CASE get_model_accuracy(r)
  BY SMTT(60), <1>1, <1>2, <1>10 DEF get_model_accuracy, Resumes
<1> QED BY Zenon, <1>3, <1>4, <1>5, <1>6, <1>7, <1>8, <1>9, <1>10 DEF Handle

\* A handler's step keeps the layer.
LEMMA FlowHandle ==
    ASSUME TypeOK, FlowInv, NEW r \in Request, Handle(r)
    PROVE  TypeOK' /\ FlowInv'
<1>1. pc[r] = "query" /\ handlerFrame
  BY Zenon, HandleCases
<1>2. NoResult \in ResultType
  BY Zenon DEF NoResult, ResultType
<1>3. ASSUME NEW status \in Status, NEW ids \in SUBSET UserId, Respond(r, status, ids),
             status = 0 => req[r].op = "list_all_users" /\ ids = {}
      PROVE  TypeOK' /\ FlowInv'
  <2>1. Answer(status, ids) \in [status : Status, ids : SUBSET UserId]
    BY Zenon DEF Answer
  <2>2. TypeOK'
    BY Zenon, <1>1, <1>2, <1>3, <2>1
       DEF Respond, handlerFrame, TypeOK, ResultType, Statement, dbVars, poolVars, procVars
  <2>3. Answer(status, ids) = NoReply => req[r].op = "list_all_users"
    BY Zenon, <1>3 DEF Answer, NoReply
  <2>4. FlowOf(r)'
    BY Zenon, <1>1, <1>3, <2>3 DEF Respond, handlerFrame, TypeOK, FlowInv, FlowOf, Running, Sends, poolVars
  <2>5. \A s \in Request : s # r => FlowOf(s)'
    BY Zenon, <1>1, <1>3, FlowFrame DEF Respond, handlerFrame, TypeOK, poolVars
  <2> QED BY Zenon, <2>2, <2>4, <2>5 DEF FlowInv
<1>4. ASSUME NEW st \in Statement \ {"none"}, Execute(r, st), Sends(req[r].op, st),
             st = "update" => ~HashFails(req[r].new)
      PROVE  TypeOK' /\ FlowInv'
  <2>1. TypeOK'
    BY Zenon, <1>1, <1>2, <1>4
       DEF Execute, handlerFrame, TypeOK, ResultType, dbVars, poolVars, procVars
  <2>2. FlowOf(r)'
    BY Zenon, <1>1, <1>4 DEF Execute, handlerFrame, TypeOK, FlowInv, FlowOf, Running, poolVars
  <2>3. \A s \in Request : s # r => FlowOf(s)'
    BY Zenon, <1>1, <1>4, FlowFrame DEF Execute, handlerFrame, TypeOK, poolVars
  <2> QED BY Zenon, <2>1, <2>2, <2>3 DEF FlowInv
<1>5. /\ {"insert", "update", "delete"} \subseteq Statement \ {"none"}
      /\ Sends("register_user", "insert") /\ Sends("change_password", "update")
      /\ Sends("delete_account", "delete")
  BY Zenon DEF Statement, Sends
<1> QED BY Zenon, <1>3, <1>4, <1>5, HandleCases DEF Resumes

\* Every step keeps the types and the control flow.
LEMMA FlowStep ==
    ASSUME TypeOK, FlowInv, [Next]_vars
    PROVE  TypeOK' /\ FlowInv'
BY Zenon, FlowProcess, FlowAccept, FlowPool, FlowDb, FlowHandle DEF Next, Terminated

\* The state of the account service is always well-typed: in particular every
\* row that register_user inserts and change_password updates is one of the
\* table's, with a hashed password and an address a client gave.
THEOREM TypeCorrect == Spec => []TypeOK
<1>1. Init => TypeOK /\ FlowInv
  BY Zenon, FlowInit
<1>2. (TypeOK /\ FlowInv) /\ [Next]_vars => (TypeOK /\ FlowInv)'
  BY Zenon, FlowStep
<1> QED BY <1>1, <1>2, PTL DEF Spec

\* The control-flow layer is an invariant.
LEMMA FlowAlways == Spec => [](TypeOK /\ FlowInv)
<1>1. (TypeOK /\ FlowInv) /\ [Next]_vars => (TypeOK /\ FlowInv)'
  BY Zenon, FlowStep
<1> QED BY <1>1, FlowInit, PTL DEF Spec

-----------------------------------------------------------------------------
(* Layer 2: the pool. *)

\* The layer holds at the start.
LEMMA PoolInit == Init => PoolInv
BY ZenonT(60) DEF Init, PoolInv, PoolConserved, Running

\* Every step keeps it.
LEMMA PoolStep ==
    ASSUME TypeOK, FlowInv, PoolInv, [Next]_vars
    PROVE  PoolInv'
<1>0. /\ NoConn \notin Conn /\ idle \subseteq Conn /\ conn \in [Request -> Conn \cup {NoConn}]
      /\ pc \in [Request -> {"new", "acquire", "reacquire", "query", "release", "done", "lost"}]
  BY Zenon, NoConnFact DEF TypeOK
<1>1. ASSUME UNCHANGED <<pc, conn, idle, pool, life>> PROVE PoolInv'
  BY SMTT(60), <1>1 DEF PoolInv, PoolConserved, Running
<1>2. CASE lifespan_connected
  <2>1. \A r \in Request : ~Running(r) /\ conn[r] = NoConn
    BY Zenon, <1>2 DEF lifespan_connected, PoolInv, PoolConserved, Running
  <2> QED BY Zenon, <1>0, <1>2, <2>1 DEF lifespan_connected, PoolInv, PoolConserved, Running
<1>3. CASE lifespan_unconnected
  BY Zenon, <1>3 DEF lifespan_unconnected, PoolInv, PoolConserved, Running
<1>4. CASE ShutdownSignal \/ Restart
  BY SMTT(60), <1>4 DEF ShutdownSignal, Restart, PoolInv, PoolConserved, Running
<1>5. CASE lifespan_close
  <2>1. \A r \in Request : conn[r] = NoConn
    BY Zenon, <1>5 DEF lifespan_close, PoolInv, PoolConserved, Running
  <2> QED BY ZenonT(60), <1>0, <1>5, <2>1 DEF lifespan_close, PoolInv, PoolConserved, Running
<1>6. CASE Crash
  BY ZenonT(60), <1>0, <1>6 DEF Crash, PoolInv, PoolConserved, Running
<1>7. ASSUME NEW r \in Request, Accept(r) PROVE PoolInv'
  BY SMTT(60), <1>0, <1>7 DEF Accept, PoolInv, PoolConserved, Running, poolVars, procVars
<1>8. ASSUME NEW r \in Request, Acquire(r) PROVE PoolInv'
  BY SMTT(60), <1>0, <1>8 DEF Acquire, PoolInv, PoolConserved, Running, procVars
<1>9. ASSUME NEW r \in Request, AcquireFails(r) PROVE PoolInv'
  BY SMTT(60), <1>0, <1>9 DEF AcquireFails, PoolInv, PoolConserved, Running, poolVars, procVars
<1>10. ASSUME NEW r \in Request, Release(r) \/ ReleaseFails(r) PROVE PoolInv'
  <2>1. /\ pc[r] = "release" /\ GiveBack(r) /\ UNCHANGED <<pool, life>>
        /\ \/ pc' = [pc EXCEPT ![r] = "reacquire"]
           \/ pc' = [pc EXCEPT ![r] = "done"]
    BY Zenon, <1>10 DEF Release, ReleaseFails, procVars
  <2> QED BY SMTT(60), <1>0, <2>1 DEF GiveBack, PoolInv, PoolConserved, Running
<1>11. ASSUME NEW r \in Request, DbExecute(r) \/ DbRefuse(r) PROVE PoolInv'
  BY Zenon, <1>1, <1>11 DEF DbExecute, DbRefuse, poolVars, procVars
<1>12. ASSUME NEW r \in Request, Handle(r) PROVE PoolInv'
  <2>1. pc[r] = "query" /\ UNCHANGED <<conn, idle, pool, life>>
    BY Zenon, <1>12, HandleCases DEF handlerFrame, poolVars, procVars
  <2>2. UNCHANGED pc \/ pc' = [pc EXCEPT ![r] = "release"]
    BY Zenon, <1>12, HandleCases DEF Respond, Execute
  <2> QED BY SMTT(60), <1>0, <1>1, <2>1, <2>2 DEF PoolInv, PoolConserved, Running
<1>13. CASE UNCHANGED vars
  BY Zenon, <1>1, <1>13 DEF vars
<1> QED BY Zenon, <1>2, <1>3, <1>4, <1>5, <1>6, <1>7, <1>8, <1>9, <1>10, <1>11, <1>12, <1>13
        DEF Next, Terminated

\* No path through a handler leaks or shares a connection, whatever number of
\* requests is in flight and however statements, acquisitions and releases fail.
THEOREM PoolIsConserved == Spec => []PoolConserved
<1>1. (TypeOK /\ FlowInv /\ PoolInv) /\ [Next]_vars => (TypeOK /\ FlowInv /\ PoolInv)'
  BY Zenon, FlowStep, PoolStep
<1>2. Init => TypeOK /\ FlowInv /\ PoolInv
  BY Zenon, FlowInit, PoolInit
<1>3. PoolInv => PoolConserved
  BY Zenon DEF PoolInv
<1> QED BY <1>1, <1>2, <1>3, PTL DEF Spec

-----------------------------------------------------------------------------
(* Layer 3: the rows of the table. *)

Administrator(i) == \E u \in Seed : u.user_id = i /\ u.role = "admin"

\* Where a stored password came from: one row of PasswordProvenance.
Provenance(h) ==
    /\ h.password.scheme = "bcrypt"
    /\ h.password.text \notin Short \cup Unhashable
    /\ \E r \in Request :
         \/ /\ req[r].op = "register_user" /\ req[r].email = h.email
            /\ req[r].password = h.password.text
         \/ /\ Asked(r, "change_password", h.user_id)
            /\ req[r].new = h.password.text

\* What is known of each row version the table has held.
HistoryInv ==
    /\ users \subseteq history
    /\ Seed \subseteq history
    /\ \A g, h \in history : g.user_id = h.user_id => g.email = h.email /\ g.role = h.role
    /\ \A h \in history : h.role = "admin" => Administrator(h.user_id)
    /\ \A h \in history \ Seed : Provenance(h)

TableInv == UniqueKeys /\ HistoryInv

-----------------------------------------------------------------------------
(* How a step changes the table and the requests. *)

\* The row that register_user's INSERT adds.
RowFor(r, i) == NewRow(i, req[r].email, hashpw(req[r].password))

Inserts(r, i) ==
    /\ sql[r] = "insert" /\ result[r].tag = "none"
    /\ i \in UserId \ Ids(history)
    /\ ~ViolatesUnique(users, req[r].email)
    /\ users' = users \cup {RowFor(r, i)}
    /\ history' = history \cup {RowFor(r, i)}
    /\ result' \in {[result EXCEPT ![r] = Rows({RowFor(r, i)})],
                    [result EXCEPT ![r] = DbError]}

Updates(r) ==
    /\ sql[r] = "update" /\ result[r].tag = "none"
    /\ users' = Updated(users, req[r].user_id, hashpw(req[r].new))
    /\ history' = history \cup users'
    /\ result' \in {[result EXCEPT ![r] = Rows(ById(users', req[r].user_id))],
                    [result EXCEPT ![r] = DbError]}

Deletes(r) ==
    /\ sql[r] = "delete" /\ result[r].tag = "none"
    /\ users' = Deleted(users, req[r].user_id)
    /\ history' = history
    /\ result' \in {[result EXCEPT ![r] = Rows(ById(users, req[r].user_id))],
                    [result EXCEPT ![r] = DbError]}

\* The answer to a statement that changes no row.
Reads(r) ==
    /\ sql[r] # "none" /\ result[r].tag = "none"
    /\ UNCHANGED <<users, history>>
    /\ \/ result' \in {[result EXCEPT ![r] = DbError], [result EXCEPT ![r] = UniqueViolation]}
       \/ sql[r] = "select_email"
            /\ result' = [result EXCEPT ![r] = Rows(ByEmail(users, req[r].email))]
       \/ sql[r] = "select_id"
            /\ result' = [result EXCEPT ![r] = Rows(ById(users, req[r].user_id))]
       \/ sql[r] = "select_all" /\ result' = [result EXCEPT ![r] = Rows(users)]
       \/ sql[r] = "accuracy" /\ result' = [result EXCEPT ![r] = Rows({})]

\* The database executes one of the four kinds of statement.
LEMMA DbCases ==
    ASSUME NEW r \in Request, DbExecute(r) \/ DbRefuse(r)
    PROVE  /\ UNCHANGED <<req, pc, sql, reply>>
           /\ \/ \E i \in UserId : Inserts(r, i)
              \/ Updates(r) \/ Deletes(r) \/ Reads(r)
<1>1. CASE DbRefuse(r)
  BY Zenon, <1>1 DEF DbRefuse, Reads, Pending, dbVars
<1>2. CASE DbExecute(r)
  <2>1. PICK lost \in BOOLEAN :
           DbSelect(r, lost) \/ DbInsert(r, lost) \/ DbUpdate(r, lost) \/ DbDelete(r, lost)
    BY Zenon, <1>2 DEF DbExecute
  <2>2. Pending(r) /\ UNCHANGED <<req, pc, sql, reply>>
    BY Zenon, <1>2 DEF DbExecute
  <2>3. CASE DbSelect(r, lost)
    BY Zenon, <2>2, <2>3 DEF DbSelect, Answered, Reads, Pending, dbVars
  <2>4. CASE DbInsert(r, lost)
    BY Zenon, <2>2, <2>4 DEF DbInsert, Answered, Reads, Inserts, RowFor, Pending, dbVars
  <2>5. CASE DbUpdate(r, lost)
    BY Zenon, <2>2, <2>5 DEF DbUpdate, Answered, Updates, Pending
  <2>6. CASE DbDelete(r, lost)
    BY Zenon, <2>2, <2>6 DEF DbDelete, Answered, Deletes, Pending
  <2> QED BY Zenon, <2>1, <2>2, <2>3, <2>4, <2>5, <2>6
<1> QED BY Zenon, <1>1, <1>2

\* Only the database changes the table.
LEMMA TableCases ==
    ASSUME TypeOK, FlowInv, [Next]_vars
    PROVE  \/ UNCHANGED <<users, history>>
           \/ \E r \in Request :
                 \/ \E i \in UserId : Inserts(r, i)
                 \/ Updates(r) \/ Deletes(r)
<1>1. CASE \E r \in Request : DbExecute(r) \/ DbRefuse(r)
  BY Zenon, <1>1, DbCases DEF Reads
<1>2. CASE \E r \in Request : Handle(r)
  BY Zenon, <1>2, HandleCases DEF handlerFrame, dbVars
<1>3. CASE \E r \in Request : Accept(r) \/ Acquire(r) \/ AcquireFails(r) \/ Release(r) \/ ReleaseFails(r)
  BY ZenonT(60), <1>3 DEF Accept, Acquire, AcquireFails, Release, ReleaseFails, dbVars
<1>4. CASE \/ lifespan_connected \/ lifespan_unconnected \/ ShutdownSignal
           \/ lifespan_close \/ Restart \/ Crash \/ UNCHANGED vars
  BY Zenon, <1>4 DEF lifespan_connected, lifespan_unconnected, ShutdownSignal, lifespan_close,
              Restart, Crash, vars, dbVars
<1> QED BY Zenon, <1>1, <1>2, <1>3, <1>4 DEF Next, Terminated

\* A request that has been received stays what it is.
LEMMA RequestStable ==
    ASSUME TypeOK, FlowInv, [Next]_vars, NEW r \in Request, pc[r] # "new"
    PROVE  req'[r] = req[r] /\ pc'[r] # "new"
<1>1. ASSUME NEW s \in Request, DbExecute(s) \/ DbRefuse(s) PROVE req'[r] = req[r] /\ pc'[r] # "new"
  BY Zenon, <1>1, DbCases
<1>2. ASSUME NEW s \in Request, Handle(s) PROVE req'[r] = req[r] /\ pc'[r] # "new"
  BY Zenon, <1>2, HandleCases DEF handlerFrame, Respond, Execute, TypeOK
<1>3. ASSUME NEW s \in Request,
             Accept(s) \/ Acquire(s) \/ AcquireFails(s) \/ Release(s) \/ ReleaseFails(s)
      PROVE  req'[r] = req[r] /\ pc'[r] # "new"
  BY ZenonT(60), <1>3 DEF Accept, Acquire, AcquireFails, Release, ReleaseFails, TypeOK
<1>4. CASE \/ lifespan_connected \/ lifespan_unconnected \/ ShutdownSignal
           \/ lifespan_close \/ Restart \/ Crash \/ UNCHANGED vars
  BY Zenon, <1>4 DEF lifespan_connected, lifespan_unconnected, ShutdownSignal, lifespan_close,
              Restart, Crash, vars, TypeOK
<1> QED BY Zenon, <1>1, <1>2, <1>3, <1>4 DEF Next, Terminated

-----------------------------------------------------------------------------
(* That every step keeps layer 3. *)

\* An UPDATE removes no row, and leaves those it does not name as they are.
LEMMA UpdatedKeeps ==
    ASSUME NEW T \in SUBSET User, NEW i, NEW s, NEW u \in T
    PROVE  \E v \in Updated(T, i, s) : /\ v.user_id = u.user_id /\ v.email = u.email
                                       /\ v.user_id # i => v = u
<1>1. CASE u.user_id # i
  BY Zenon, <1>1 DEF Updated
<1>2. CASE u.user_id = i
  <2>1. [u EXCEPT !.password = s] \in Updated(T, i, s)
    BY Zenon, <1>2 DEF Updated, ById
  <2> QED BY Zenon, <1>2, <2>1 DEF User
<1> QED BY Zenon, <1>1, <1>2

\* An UPDATE keeps every row's identifier, address and role, and changes the
\* password of the rows it names only.
LEMMA UpdatedRows ==
    ASSUME NEW T \in SUBSET User, NEW i, NEW s, NEW v \in Updated(T, i, s)
    PROVE  \E u \in T : /\ v.user_id = u.user_id /\ v.email = u.email /\ v.role = u.role
                        /\ v = u \/ (u.user_id = i /\ v.password = s)
<1>1. CASE v \in T
  BY Zenon, <1>1
<1>2. CASE v \notin T
  <2>1. PICK u \in T : u.user_id = i /\ v = [u EXCEPT !.password = s]
    BY Zenon, <1>2 DEF Updated, ById
  <2> QED BY Zenon, <2>1 DEF User
<1> QED BY Zenon, <1>1, <1>2

\* An UPDATE neither adds nor removes an identifier.
LEMMA UpdatedIds ==
    ASSUME NEW T \in SUBSET User, NEW i, NEW s
    PROVE  Ids(Updated(T, i, s)) = Ids(T)
<1>1. \A v \in Updated(T, i, s) : \E u \in T : v.user_id = u.user_id
  BY SMTT(60), UpdatedRows
<1>2. \A u \in T : \E v \in Updated(T, i, s) : v.user_id = u.user_id
  BY SMTT(60), UpdatedKeeps
<1> QED BY SMTT(60), <1>1, <1>2 DEF Ids

\* The new row of an INSERT.
LEMMA RowForFields ==
    ASSUME NEW r \in Request, NEW i
    PROVE  /\ RowFor(r, i).user_id = i /\ RowFor(r, i).email = req[r].email
           /\ RowFor(r, i).role = "normal"
           /\ RowFor(r, i).password = hashpw(req[r].password)
BY Zenon DEF RowFor, NewRow

\* A deleted identifier stays deleted, and rows keep their address and role.
LEMMA RowsStep ==
    ASSUME TypeOK, FlowInv, TableInv, [Next]_vars
    PROVE  /\ history \subseteq history'
           /\ \A j \in Ids(history) \ Ids(users) : j \notin Ids(users')
           /\ \A u \in users, v \in users' : u.user_id = v.user_id =>
                u.email = v.email /\ u.role = v.role
<1>0. users \subseteq User /\ users \subseteq history
  BY Zenon DEF TypeOK, TableInv, HistoryInv
<1>1. CASE UNCHANGED <<users, history>>
  BY Zenon, <1>0, <1>1 DEF TableInv, HistoryInv
<1>2. ASSUME NEW r \in Request, NEW i \in UserId, Inserts(r, i)
      PROVE  /\ history \subseteq history'
             /\ \A j \in Ids(history) \ Ids(users) : j \notin Ids(users')
             /\ \A u \in users, v \in users' : u.user_id = v.user_id =>
                  u.email = v.email /\ u.role = v.role
  BY SMTT(60), <1>0, <1>2, RowForFields DEF Inserts, Ids, TableInv, HistoryInv
<1>3. ASSUME NEW r \in Request, Updates(r)
      PROVE  /\ history \subseteq history'
             /\ \A j \in Ids(history) \ Ids(users) : j \notin Ids(users')
             /\ \A u \in users, v \in users' : u.user_id = v.user_id =>
                  u.email = v.email /\ u.role = v.role
  <2>1. Ids(users') = Ids(users)
    BY Zenon, <1>0, <1>3, UpdatedIds DEF Updates
  <2>2. \A v \in users' : \E u \in users : v.user_id = u.user_id /\ v.email = u.email /\ v.role = u.role
    BY SMTT(60), <1>0, <1>3, UpdatedRows DEF Updates
  <2> QED BY SMTT(60), <1>0, <1>3, <2>1, <2>2 DEF Updates, TableInv, HistoryInv
<1>4. ASSUME NEW r \in Request, Deletes(r)
      PROVE  /\ history \subseteq history'
             /\ \A j \in Ids(history) \ Ids(users) : j \notin Ids(users')
             /\ \A u \in users, v \in users' : u.user_id = v.user_id =>
                  u.email = v.email /\ u.role = v.role
  BY Zenon, <1>0, <1>4 DEF Deletes, Deleted, Ids, TableInv, HistoryInv
<1> QED BY Zenon, <1>1, <1>2, <1>3, <1>4, TableCases

\* The requests that account for a password are not forgotten.
LEMMA ProvenanceStable ==
    ASSUME TypeOK, FlowInv, [Next]_vars, NEW h, Provenance(h)
    PROVE  Provenance(h)'
<1>1. \A r \in Request : req[r].op = "register_user" => pc[r] # "new"
  BY Zenon, MenuType DEF FlowInv, FlowOf
<1> QED BY Zenon, <1>1, RequestStable DEF Provenance, Asked

\* An INSERT stores a password that its registration asked for.
LEMMA InsertProvenance ==
    ASSUME TypeOK, FlowInv, NEW r \in Request, NEW i \in UserId, sql[r] = "insert"
    PROVE  Provenance(RowFor(r, i))
<1>1. req[r].op = "register_user" /\ EarlyStatus(req[r]) = 0 /\ req[r] \in Query
  BY Zenon, MenuType DEF FlowInv, FlowOf, Sends, TypeOK
<1>2. req[r].password \notin Short \cup Unhashable
  BY Zenon, <1>1, EarlyZero DEF TooShort, HashFails
<1> DEFINE h == RowFor(r, i)
<1>3. h.email = req[r].email /\ h.password.scheme = "bcrypt" /\ h.password.text = req[r].password
  BY Zenon DEF RowFor, NewRow, hashpw
<1> HIDE DEF h
<1>4. Provenance(h)
  BY Zenon, <1>1, <1>2, <1>3 DEF Provenance
<1> QED BY Zenon, <1>4 DEF h

\* An UPDATE stores a password that its change asked for.
LEMMA UpdateProvenance ==
    ASSUME TypeOK, FlowInv, NEW r \in Request, sql[r] = "update",
           NEW h, h.user_id = req[r].user_id, h.password = hashpw(req[r].new)
    PROVE  Provenance(h)
<1>1. /\ req[r].op = "change_password" /\ EarlyStatus(req[r]) = 0 /\ req[r] \in Query
      /\ pc[r] # "new" /\ ~HashFails(req[r].new)
  BY Zenon, MenuType DEF FlowInv, FlowOf, Sends, TypeOK
<1>2. req[r].new \notin Short \cup Unhashable
  BY Zenon, <1>1, EarlyZero DEF TooShort, HashFails
<1> QED BY SMTT(60), <1>1, <1>2 DEF Provenance, hashpw, Asked

\* The layer holds at the start.
LEMMA TableInit == Init => TableInv
BY Zenon, ServiceAssumption DEF Init, TableInv, HistoryInv, Administrator, UniqueKeys

\* Every step keeps the keys of the table.
LEMMA KeysStep ==
    ASSUME TypeOK, FlowInv, TableInv, [Next]_vars
    PROVE  UniqueKeys'
<1>0. users \subseteq User /\ users \subseteq history /\ UniqueKeys
  BY Zenon DEF TypeOK, TableInv, HistoryInv
<1>1. CASE UNCHANGED <<users, history>>
  BY Zenon, <1>0, <1>1 DEF UniqueKeys
<1>2. ASSUME NEW r \in Request, NEW i \in UserId, Inserts(r, i) PROVE UniqueKeys'
  <2>1. \A u \in users : u.user_id # i /\ u.email # req[r].email
    BY Zenon, <1>0, <1>2 DEF Inserts, Ids, ViolatesUnique, Emails
  <2> QED BY SMTT(60), <1>0, <1>2, <2>1, RowForFields DEF Inserts, UniqueKeys
<1>3. ASSUME NEW r \in Request, Updates(r) PROVE UniqueKeys'
  <2> DEFINE s == hashpw(req[r].new)
  <2> SUFFICES ASSUME NEW v \in users', NEW w \in users',
                      v.user_id = w.user_id \/ v.email = w.email
               PROVE  v = w
    BY Zenon DEF UniqueKeys
  <2>1. v \in Updated(users, req[r].user_id, s) /\ w \in Updated(users, req[r].user_id, s)
    BY Zenon, <1>3 DEF Updates
  <2>2. CASE v \in users /\ v.user_id # req[r].user_id
    BY Zenon, <1>0, <2>1, <2>2 DEF Updated, ById, UniqueKeys, User
  <2>3. CASE ~(v \in users /\ v.user_id # req[r].user_id)
    <3>1. PICK u \in users : u.user_id = req[r].user_id /\ v = [u EXCEPT !.password = s]
      BY Zenon, <2>1, <2>3 DEF Updated, ById
    <3>2. v.user_id = u.user_id /\ v.email = u.email
      BY Zenon, <1>0, <3>1 DEF User
    <3>3. CASE w \in users /\ w.user_id # req[r].user_id
      BY Zenon, <1>0, <3>1, <3>2, <3>3 DEF UniqueKeys
    <3>4. CASE ~(w \in users /\ w.user_id # req[r].user_id)
      <4>1. PICK x \in users : x.user_id = req[r].user_id /\ w = [x EXCEPT !.password = s]
        BY Zenon, <2>1, <3>4 DEF Updated, ById
      <4> QED BY Zenon, <1>0, <3>1, <4>1 DEF UniqueKeys
    <3> QED BY Zenon, <3>3, <3>4
  <2> QED BY Zenon, <2>2, <2>3
<1>4. ASSUME NEW r \in Request, Deletes(r) PROVE UniqueKeys'
  BY Zenon, <1>0, <1>4 DEF Deletes, Deleted, UniqueKeys
<1> QED BY Zenon, <1>1, <1>2, <1>3, <1>4, TableCases

\* Every step keeps what is known of the rows ever held.
LEMMA HistoryStep ==
    ASSUME TypeOK, FlowInv, TableInv, [Next]_vars
    PROVE  HistoryInv'
<1>0. users \subseteq User /\ users \subseteq history
  BY Zenon DEF TypeOK, TableInv, HistoryInv
<1>1. \A h \in history \ Seed : Provenance(h)'
  BY Zenon, ProvenanceStable DEF TableInv, HistoryInv
<1>2. CASE UNCHANGED <<users, history>>
  BY Zenon, <1>1, <1>2 DEF TableInv, HistoryInv, Administrator
<1>3. ASSUME NEW r \in Request, NEW i \in UserId, Inserts(r, i) PROVE HistoryInv'
  <2>2. \A h \in history : h.user_id # i
    BY Zenon, <1>3 DEF Inserts, Ids
  <2>3. /\ users' = users \cup {RowFor(r, i)} /\ history' = history \cup {RowFor(r, i)}
    BY Zenon, <1>3 DEF Inserts
  <2>4. RowFor(r, i).user_id = i /\ RowFor(r, i).role = "normal"
    BY Zenon, RowForFields
  <2>5. \A h \in history' \ Seed : Provenance(h)'
    BY Zenon, <1>1, <1>3, <2>3, ProvenanceStable, InsertProvenance DEF Inserts
  <2> QED BY SMTT(60), <2>2, <2>3, <2>4, <2>5 DEF TableInv, HistoryInv, Administrator
<1>4. ASSUME NEW r \in Request, Updates(r) PROVE HistoryInv'
  <2>1. /\ users' = Updated(users, req[r].user_id, hashpw(req[r].new))
        /\ history' = history \cup users'
    BY Zenon, <1>4 DEF Updates
  <2>2. \A v \in users' : \E u \in history :
           v.user_id = u.user_id /\ v.email = u.email /\ v.role = u.role
    <3>1. \A v \in users' : \E u \in users :
             v.user_id = u.user_id /\ v.email = u.email /\ v.role = u.role
      BY SMTT(60), <1>0, <1>4, UpdatedRows DEF Updates
    <3> QED BY Zenon, <1>0, <3>1
  <2>3. ASSUME NEW v \in users' PROVE v \in users \/ Provenance(v)'
    <3>1. PICK u \in users : \/ v = u
                             \/ /\ u.user_id = req[r].user_id /\ v.user_id = u.user_id
                                /\ v.password = hashpw(req[r].new)
      BY SMTT(60), <1>0, <2>1, UpdatedRows
    <3> QED BY Zenon, <1>4, <3>1, UpdateProvenance, ProvenanceStable DEF Updates
  <2>4. \A h \in history' \ Seed : Provenance(h)'
    BY Zenon, <1>0, <1>1, <2>1, <2>3
  <2> QED BY SMTT(60), <1>0, <2>1, <2>2, <2>4 DEF TableInv, HistoryInv, Administrator
<1>5. ASSUME NEW r \in Request, Deletes(r) PROVE HistoryInv'
  BY Zenon, <1>1, <1>5 DEF Deletes, Deleted, TableInv, HistoryInv, Administrator
<1> QED BY Zenon, <1>2, <1>3, <1>4, <1>5, TableCases

\* Every step keeps the layer.
LEMMA TableStep ==
    ASSUME TypeOK, FlowInv, TableInv, [Next]_vars
    PROVE  TableInv'
BY Zenon, KeysStep, HistoryStep DEF TableInv, HistoryInv

\* TableInv contains PasswordProvenance.
LEMMA ProvenanceOfAll == TableInv => PasswordProvenance
BY Zenon DEF TableInv, HistoryInv, PasswordProvenance, Provenance

\* The invariant proved so far.
BaseInv == TypeOK /\ FlowInv /\ TableInv

\* It is one.
LEMMA BaseAlways == Spec => []BaseInv
<1>1. Init => BaseInv
  BY Zenon, FlowInit, TableInit DEF BaseInv
<1>2. BaseInv /\ [Next]_vars => BaseInv'
  BY Zenon, FlowStep, TableStep DEF BaseInv
<1> QED BY <1>1, <1>2, PTL DEF Spec

\* No interleaving of registrations gives two accounts one address or one
\* identifier.
THEOREM KeysAreUnique == Spec => []UniqueKeys
<1>1. BaseInv => UniqueKeys
  BY Zenon DEF BaseInv, TableInv
<1> QED BY <1>1, BaseAlways, PTL

\* Every password the table ever stores was asked for, is long enough and is
\* hashed.
THEOREM PasswordsHaveProvenance == Spec => []PasswordProvenance
<1>1. BaseInv => PasswordProvenance
  BY Zenon, ProvenanceOfAll DEF BaseInv
<1> QED BY <1>1, BaseAlways, PTL

\* No late statement brings a deleted account back.
THEOREM DeletionIsFinal == Spec => DeletedStaysDeleted
<1>1. BaseInv /\ [Next]_vars => [\A i \in Ids(history) \ Ids(users) : i \notin Ids(users')]_vars
  BY Zenon, RowsStep DEF BaseInv
<1> QED BY <1>1, BaseAlways, PTL DEF Spec, DeletedStaysDeleted

\* No statement changes the address or the role of an account.
THEOREM AddressAndRoleAreFixed == Spec => RowsKeepAddressAndRole
<1>1. BaseInv /\ [Next]_vars =>
        [\A u \in users, v \in users' : u.user_id = v.user_id =>
            u.email = v.email /\ u.role = v.role]_vars
  BY Zenon, RowsStep DEF BaseInv
<1> QED BY <1>1, BaseAlways, PTL DEF Spec, RowsKeepAddressAndRole

-----------------------------------------------------------------------------
(* Layer 4: the answers.  A handler acts on what a SELECT told it some steps ago;
   ResultInv is what is still true of the table by then, and what an answer of
   200 goes on saying about it. *)

\* An identifier that the table has held and holds no more.
Gone(i) == i \in Ids(history) /\ i \notin Ids(users)

\* The password r presents has opened the account it names.
Authorised(r) == \E h \in history : /\ h.user_id = req[r].user_id
                                    /\ Opens(req[r].password, h.password)

ResultOf(r) ==
    /\ result[r].rows \subseteq history
    /\ sql[r] = "none" => result[r] = NoResult
    /\ result[r].tag # "rows" => result[r].rows = {}
    /\ sql[r] = "select_id" => \A u \in result[r].rows : u.user_id = req[r].user_id
    /\ sql[r] = "select_email" =>
         /\ \A u \in result[r].rows : u.email = req[r].email
         /\ \A u, v \in result[r].rows : u = v
    /\ sql[r] = "insert" /\ result[r].tag = "rows" => \E u \in User : result[r].rows = {u}
    /\ sql[r] = "delete" => req[r].user_id \in Ids(history)
    /\ sql[r] = "delete" /\ result[r].tag = "rows" => Gone(req[r].user_id)
    /\ sql[r] = "update" => Authorised(r)
    /\ sql[r] = "select_all" \/ pc[r] = "reacquire" => Administrator(req[r].user_id)
    /\ pc[r] = "release" /\ reply[r] = NoReply => Administrator(req[r].user_id)

ReplyOf(r) ==
    reply[r].status = 200 =>
        /\ req[r].op = "delete_account" => Gone(req[r].user_id)
        /\ req[r].op = "change_password" => Authorised(r)
        /\ req[r].op = "list_all_users" => Administrator(req[r].user_id)
        /\ req[r].op = "get_user_info" => reply[r].ids = {req[r].user_id}
        /\ req[r].op = "login_user" =>
             \E h \in history : /\ h.email = req[r].email
                                /\ Opens(req[r].password, h.password)
                                /\ reply[r].ids = {h.user_id}
        /\ req[r].op = "register_user" => \E i \in UserId : reply[r].ids = {i}

ResultInv == \A r \in Request : ResultOf(r) /\ ReplyOf(r)

-----------------------------------------------------------------------------
\* The password check accepts only what opens the row.
LEMMA ValidOpens ==
    ASSUME NEW p, NEW s \in Stored, ValidPassword(p, s)
    PROVE  Opens(p, s)
<1>1. CASE CheckRaises(p, s)
  BY Zenon, <1>1 DEF ValidPassword, PlainMatch, Opens, Stored
<1>2. CASE ~CheckRaises(p, s)
  BY Zenon, <1>2 DEF ValidPassword, Opens
<1> QED BY Zenon, <1>1, <1>2

\* What was gone stays gone, and what once opened an account is remembered.
LEMMA Monotone ==
    ASSUME BaseInv, [Next]_vars
    PROVE  /\ history \subseteq history'
           /\ Ids(history) \subseteq Ids(history)'
           /\ \A i : Gone(i) => Gone(i)'
           /\ \A r \in Request : Authorised(r) /\ req'[r] = req[r] => Authorised(r)'
<1>1. /\ history \subseteq history'
      /\ \A j \in Ids(history) \ Ids(users) : j \notin Ids(users')
  BY Zenon, RowsStep DEF BaseInv
<1>2. Ids(history) \subseteq Ids(history')
  BY Zenon, <1>1 DEF Ids
<1> QED BY Zenon, <1>1, <1>2 DEF Gone, Authorised

\* A step that does not concern a request, or in which it is lost, keeps what
\* its result and its answer say.
LEMMA ResultFrame ==
    ASSUME BaseInv, [Next]_vars, NEW s \in Request, ResultOf(s), ReplyOf(s),
           pc'[s] = pc[s] \/ pc'[s] = "lost",
           req'[s] = req[s], sql'[s] = sql[s], result'[s] = result[s], reply'[s] = reply[s]
    PROVE  ResultOf(s)' /\ ReplyOf(s)'
<1>1. /\ history \subseteq history'
      /\ Ids(history) \subseteq Ids(history)'
      /\ Gone(req[s].user_id) => Gone(req[s].user_id)'
      /\ Authorised(s) => Authorised(s)'
  BY Zenon, Monotone
<1>2. ResultOf(s)'
  BY ZenonT(60), <1>1 DEF ResultOf, Gone, Administrator
<1>3. ReplyOf(s)'
  BY SMTT(60), <1>1 DEF ReplyOf, Gone, Administrator
<1> QED BY Zenon, <1>2, <1>3

\* The layer holds at the start.
LEMMA ResultInit == Init => ResultInv
BY SMTT(60) DEF Init, ResultInv, ResultOf, ReplyOf, NoResult, NoReply, Answer

\* The step of an action of r leaves every other request alone.
LEMMA OthersFrame ==
    ASSUME BaseInv, ResultInv, [Next]_vars, NEW r \in Request,
           \A s \in Request : s # r =>
               /\ pc'[s] = pc[s] /\ req'[s] = req[s] /\ sql'[s] = sql[s]
               /\ result'[s] = result[s] /\ reply'[s] = reply[s],
           ResultOf(r)' /\ ReplyOf(r)'
    PROVE  ResultInv'
<1>1. \A s \in Request : s # r => ResultOf(s)' /\ ReplyOf(s)'
  BY Zenon, ResultFrame DEF ResultInv
<1> QED BY Zenon, <1>1 DEF ResultInv

\* Steps of the process keep the layer.
LEMMA ResultProcess ==
    ASSUME BaseInv, ResultInv, [Next]_vars,
           \/ lifespan_connected \/ lifespan_unconnected \/ ShutdownSignal
           \/ lifespan_close \/ Restart \/ Crash \/ UNCHANGED vars
    PROVE  ResultInv'
<1>1. \A s \in Request :
         /\ pc'[s] = pc[s] \/ pc'[s] = "lost"
         /\ req'[s] = req[s] /\ sql'[s] = sql[s] /\ result'[s] = result[s] /\ reply'[s] = reply[s]
  BY Zenon DEF lifespan_connected, lifespan_unconnected, ShutdownSignal, lifespan_close,
         Restart, Crash, vars
<1> QED BY Zenon, <1>1, ResultFrame DEF ResultInv

\* So does the arrival of a request: the only early 200s are of logout and root.
LEMMA ResultAccept ==
    ASSUME BaseInv, ResultInv, [Next]_vars, NEW r \in Request, Accept(r)
    PROVE  ResultInv'
<1>0. TypeOK /\ FlowOf(r) /\ ResultOf(r)
  BY Zenon DEF BaseInv, FlowInv, ResultInv
<1>1. PICK q \in Menu :
         /\ req' = [req EXCEPT ![r] = q]
         /\ \/ /\ EarlyStatus(q) # 0
               /\ reply' = [reply EXCEPT ![r] = Answer(EarlyStatus(q), {})]
               /\ pc' = [pc EXCEPT ![r] = "done"]
            \/ /\ EarlyStatus(q) = 0 /\ ~pool
               /\ reply' = [reply EXCEPT ![r] = Answer(500, {})]
               /\ pc' = [pc EXCEPT ![r] = "done"]
            \/ /\ EarlyStatus(q) = 0 /\ pool
               /\ pc' = [pc EXCEPT ![r] = "acquire"]
               /\ UNCHANGED reply
  BY ZenonT(60) DEF Accept
<1>2. sql[r] = "none" /\ reply[r].status = 0 /\ result[r] = NoResult /\ UNCHANGED <<sql, result, history>>
  BY SMTT(60), <1>0 DEF Accept, FlowOf, ResultOf, NoReply, Answer, dbVars
<1>3. q \in Query /\ (EarlyStatus(q) = 200 => q.op \in {"logout_user", "root"})
  BY SMTT(60), MenuType DEF EarlyStatus, Query, Op
<1>4. req'[r] = q /\ pc'[r] \in {"done", "acquire"}
  BY ZenonT(60), <1>0, <1>1 DEF TypeOK
<1>5. reply'[r].status = 200 => EarlyStatus(q) = 200
  BY SMTT(60), <1>0, <1>1, <1>2 DEF TypeOK, Answer
<1>6. ResultOf(r)'
  BY SMTT(60), <1>2, <1>4 DEF ResultOf, NoResult
<1>7. ReplyOf(r)'
  BY Zenon, <1>3, <1>4, <1>5 DEF ReplyOf
<1>8. \A s \in Request : s # r =>
         /\ pc'[s] = pc[s] /\ req'[s] = req[s] /\ sql'[s] = sql[s]
         /\ result'[s] = result[s] /\ reply'[s] = reply[s]
  BY SMTT(60), <1>0, <1>1, <1>2 DEF TypeOK
<1> QED BY Zenon, <1>6, <1>7, <1>8, OthersFrame

\* Acquiring a connection keeps it: what was learnt before release still holds.
LEMMA ResultPool ==
    ASSUME BaseInv, ResultInv, [Next]_vars, NEW r \in Request,
           Acquire(r) \/ AcquireFails(r) \/ Release(r) \/ ReleaseFails(r)
    PROVE  ResultInv'
<1>0. TypeOK /\ FlowInv /\ FlowOf(r) /\ ResultOf(r) /\ ReplyOf(r)
  BY Zenon DEF BaseInv, FlowInv, ResultInv
<1>1. sql[r] = "none" /\ result[r] = NoResult /\ UNCHANGED <<result, users, history, req>>
  BY ZenonT(60), <1>0 DEF Acquire, AcquireFails, Release, ReleaseFails, FlowOf, ResultOf, dbVars
<1>2. \A s \in Request : s # r =>
         /\ pc'[s] = pc[s] /\ req'[s] = req[s] /\ sql'[s] = sql[s]
         /\ result'[s] = result[s] /\ reply'[s] = reply[s]
  BY SMTT(60), <1>0, <1>1 DEF Acquire, AcquireFails, Release, ReleaseFails, TypeOK
<1>3. CASE Acquire(r)
  <2>1. /\ sql'[r] = FirstStatement(r) /\ pc'[r] = "query" /\ reply'[r] = reply[r]
        /\ reply[r] = NoReply
    BY Zenon, <1>0, <1>3 DEF Acquire, TypeOK, FlowOf
  <2>2. /\ sql'[r] \notin {"none", "insert", "update", "delete"}
        /\ sql'[r] = "select_all" => pc[r] = "reacquire"
    BY ZenonT(60), <1>0, <1>3, <2>1, FirstStatementFact DEF Acquire
  <2>3. ResultOf(r)'
    BY SMTT(60), <1>0, <1>1, <2>1, <2>2 DEF ResultOf, NoResult, Administrator
  <2>4. ReplyOf(r)'
    BY SMTT(60), <2>1 DEF ReplyOf, NoReply, Answer
  <2> QED BY Zenon, <1>2, <2>3, <2>4, OthersFrame
<1>4. CASE AcquireFails(r) \/ ReleaseFails(r)
  <2>1. sql' = sql /\ pc'[r] = "done" /\ reply'[r].status = 500
    BY SMTT(60), <1>0, <1>4 DEF AcquireFails, ReleaseFails, TypeOK, Answer
  <2>2. ResultOf(r)'
    BY SMTT(60), <1>1, <2>1 DEF ResultOf, NoResult
  <2>3. ReplyOf(r)'
    BY SMTT(60), <2>1 DEF ReplyOf
  <2> QED BY Zenon, <1>2, <2>2, <2>3, OthersFrame
<1>5. CASE Release(r)
  <2>1. /\ sql' = sql /\ reply' = reply
        /\ pc[r] = "release" /\ pc'[r] = IF reply[r] = NoReply THEN "reacquire" ELSE "done"
    BY Zenon, <1>0, <1>5 DEF Release, TypeOK
  <2>2. ResultOf(r)'
    BY Zenon, <1>0, <1>1, <2>1 DEF ResultOf, NoResult, Administrator
  <2>3. ReplyOf(r)'
    BY ZenonT(60), <1>0, <1>1, <2>1 DEF ReplyOf, Gone, Authorised, Administrator
  <2> QED BY Zenon, <1>2, <2>2, <2>3, OthersFrame
<1> QED BY Zenon, <1>3, <1>4, <1>5

\* The answer to a statement tells of the table at the moment it was executed.
LEMMA ResultDb ==
    ASSUME BaseInv, ResultInv, [Next]_vars, NEW r \in Request, DbExecute(r) \/ DbRefuse(r)
    PROVE  ResultInv'
<1>0. /\ TypeOK /\ FlowOf(r) /\ ResultOf(r) /\ ReplyOf(r) /\ UniqueKeys /\ users \subseteq history
      /\ users \subseteq User /\ result \in [Request -> ResultType]
  BY Zenon DEF BaseInv, FlowInv, ResultInv, TableInv, HistoryInv, TypeOK, ResultType
<1>1. UNCHANGED <<req, pc, sql, reply>>
  BY Zenon, DbCases
<1>2. /\ history \subseteq history'
      /\ Ids(history) \subseteq Ids(history)'
      /\ Gone(req[r].user_id) => Gone(req[r].user_id)'
      /\ Authorised(r) => Authorised(r)'
  BY Zenon, <1>1, Monotone
<1>3. ReplyOf(r)'
  BY ZenonT(60), <1>0, <1>1, <1>2 DEF ReplyOf, Gone, Administrator
<1>4. ASSUME NEW out, result' = [result EXCEPT ![r] = out], sql[r] # "none",
             out.rows \subseteq history',
             out.tag # "rows" => out.rows = {},
             sql[r] = "select_id" => \A u \in out.rows : u.user_id = req[r].user_id,
             sql[r] = "select_email" => /\ \A u \in out.rows : u.email = req[r].email
                                        /\ \A u, v \in out.rows : u = v,
             sql[r] = "insert" /\ out.tag = "rows" => \E u \in User : out.rows = {u},
             sql[r] = "delete" /\ out.tag = "rows" => Gone(req[r].user_id)'
      PROVE  ResultInv'
  <2>1. result'[r] = out
    BY Zenon, <1>0, <1>4
  <2>2. \A s \in Request : s # r => result'[s] = result[s]
    BY Zenon, <1>0, <1>4
  <2>3. ResultOf(r)'
    BY ZenonT(60), <1>0, <1>1, <1>2, <1>4, <2>1 DEF ResultOf, Administrator, Gone
  <2> QED BY Zenon, <1>1, <1>3, <2>2, <2>3, OthersFrame
<1>5. /\ DbError.tag = "error" /\ DbError.rows = {}
      /\ UniqueViolation.tag = "unique" /\ UniqueViolation.rows = {}
      /\ \A S : Rows(S).tag = "rows" /\ Rows(S).rows = S
  BY Zenon DEF DbError, UniqueViolation, Rows
<1>6. ASSUME sql[r] # "none", result' = [result EXCEPT ![r] = DbError]
             \/ result' = [result EXCEPT ![r] = UniqueViolation]
      PROVE  ResultInv'
  BY Zenon, <1>4, <1>5, <1>6
<1>7. ASSUME NEW i \in UserId, Inserts(r, i) PROVE ResultInv'
  <2>1. RowFor(r, i) \in User
    <3>1. history' \subseteq User
      BY Zenon, FlowStep DEF BaseInv, TypeOK
    <3> QED BY Zenon, <1>7, <3>1 DEF Inserts
  <2>2. CASE result' = [result EXCEPT ![r] = Rows({RowFor(r, i)})]
    <3> DEFINE out == Rows({RowFor(r, i)})
    <3>1. out.tag = "rows" /\ out.rows = {RowFor(r, i)}
      BY Zenon, <1>5
    <3>2. sql[r] = "insert" /\ out.rows \subseteq history' /\ result' = [result EXCEPT ![r] = out]
      BY Zenon, <1>7, <2>2, <3>1 DEF Inserts
    <3> HIDE DEF out
    <3> QED BY Zenon, <1>4, <2>1, <3>1, <3>2
  <2> QED BY Zenon, <1>6, <1>7, <2>2 DEF Inserts
<1>8. CASE Updates(r)
  <2>1. CASE result' = [result EXCEPT ![r] = Rows(ById(users', req[r].user_id))]
    BY SMTT(60), <1>4, <1>5, <1>8, <2>1 DEF Updates, ById
  <2> QED BY Zenon, <1>6, <1>8, <2>1 DEF Updates
<1>9. CASE Deletes(r)
  <2>1. Gone(req[r].user_id)'
    BY Zenon, <1>0, <1>1, <1>9 DEF Deletes, Deleted, Gone, Ids, ResultOf
  <2>2. CASE result' = [result EXCEPT ![r] = Rows(ById(users, req[r].user_id))]
    BY SMTT(60), <1>0, <1>4, <1>5, <1>9, <2>1, <2>2 DEF Deletes, ById
  <2> QED BY Zenon, <1>6, <1>9, <2>2 DEF Deletes
<1>10. CASE Reads(r)
  <2>1. CASE sql[r] = "select_email"
             /\ result' = [result EXCEPT ![r] = Rows(ByEmail(users, req[r].email))]
    BY SMTT(60), <1>0, <1>2, <1>4, <1>5, <2>1 DEF ByEmail, UniqueKeys
  <2>2. CASE sql[r] = "select_id"
             /\ result' = [result EXCEPT ![r] = Rows(ById(users, req[r].user_id))]
    BY SMTT(60), <1>0, <1>2, <1>4, <1>5, <2>2 DEF ById
  <2>3. CASE sql[r] = "select_all" /\ result' = [result EXCEPT ![r] = Rows(users)]
    <3> DEFINE out == Rows(users)
    <3>1. out.tag = "rows" /\ out.rows \subseteq history' /\ result' = [result EXCEPT ![r] = out]
      BY Zenon, <1>0, <1>2, <1>5, <2>3
    <3> HIDE DEF out
    <3> QED BY Zenon, <1>4, <2>3, <3>1
  <2>4. CASE sql[r] = "accuracy" /\ result' = [result EXCEPT ![r] = Rows({})]
    BY Zenon, <1>4, <1>5, <2>4
  <2> QED BY Zenon, <1>6, <1>10, <2>1, <2>2, <2>3, <2>4 DEF Reads
<1> QED BY Zenon, <1>7, <1>8, <1>9, <1>10, DbCases

\* A handler answers and sends statements according to what it was told.
LEMMA ResultHandle ==
    ASSUME BaseInv, ResultInv, [Next]_vars, NEW r \in Request, Handle(r)
    PROVE  ResultInv'
<1>0. /\ TypeOK /\ FlowInv /\ FlowOf(r) /\ ResultOf(r) /\ ReplyOf(r) /\ HistoryInv
      /\ result[r].rows \subseteq User
  BY Zenon DEF BaseInv, FlowInv, ResultInv, TableInv, TypeOK
<1>1. pc[r] = "query" /\ UNCHANGED <<users, history, req>>
  BY Zenon, <1>0, HandleCases DEF handlerFrame, dbVars
<1>2. \A s \in Request : s # r =>
         /\ pc'[s] = pc[s] /\ req'[s] = req[s] /\ sql'[s] = sql[s]
         /\ result'[s] = result[s] /\ reply'[s] = reply[s]
  BY SMTT(60), <1>0, <1>1, HandleCases DEF Respond, Execute, TypeOK
<1>3. ASSUME NEW status, NEW ids, Respond(r, status, ids),
             status = 0 => Administrator(req[r].user_id),
             status = 200 =>
               /\ req[r].op = "delete_account" => Gone(req[r].user_id)
               /\ req[r].op = "change_password" => Authorised(r)
               /\ req[r].op = "list_all_users" => Administrator(req[r].user_id)
               /\ req[r].op = "get_user_info" => ids = {req[r].user_id}
               /\ req[r].op = "login_user" =>
                    \E h \in history : /\ h.email = req[r].email
                                       /\ Opens(req[r].password, h.password)
                                       /\ ids = {h.user_id}
               /\ req[r].op = "register_user" => \E i \in UserId : ids = {i}
      PROVE  ResultInv'
  <2>1. /\ reply'[r].status = status /\ reply'[r].ids = ids
        /\ pc'[r] = "release" /\ sql'[r] = "none" /\ result'[r] = NoResult
    BY Zenon, <1>0, <1>3 DEF Respond, TypeOK, Answer
  <2>2. reply'[r] = NoReply => status = 0
    BY SMTT(60), <2>1 DEF NoReply, Answer
  <2>3. ResultOf(r)'
    BY SMTT(60), <1>1, <1>3, <2>1, <2>2 DEF ResultOf, NoResult, Administrator
  <2>4. ReplyOf(r)'
    BY ZenonT(60), <1>1, <1>3, <2>1 DEF ReplyOf, Gone, Authorised, Administrator
  <2> QED BY Zenon, <1>2, <2>3, <2>4, OthersFrame
<1>4. ASSUME NEW st \in {"insert", "update", "delete"}, Execute(r, st),
             st = "update" => Authorised(r),
             st = "delete" => req[r].user_id \in Ids(history)
      PROVE  ResultInv'
  <2>1. /\ reply'[r] = reply[r] /\ pc'[r] = "query" /\ sql'[r] = st /\ result'[r] = NoResult
    BY Zenon, <1>0, <1>1, <1>4 DEF Execute, TypeOK
  <2>2. /\ st = "update" => Authorised(r)'
        /\ st = "delete" => req'[r].user_id \in Ids(history)'
    BY ZenonT(60), <1>1, <1>4 DEF Authorised
  <2>3. ResultOf(r)'
    BY SMTT(60), <1>4, <2>1, <2>2 DEF ResultOf, NoResult
  <2>4. reply[r].status # 200
    <3>1. reply[r] = NoReply
      BY Zenon, <1>0, <1>1 DEF FlowOf
    <3> QED BY SMTT(60), <3>1 DEF NoReply, Answer
  <2>5. ReplyOf(r)'
    BY ZenonT(60), <2>1, <2>4 DEF ReplyOf
  <2> QED BY Zenon, <1>2, <2>3, <2>5, OthersFrame
<1>5. \A u \in result[r].rows : u \in history /\ u \in User /\ u.user_id \in UserId
  BY Zenon, <1>0 DEF ResultOf, User
<1>6. sql[r] = "select_id" /\ Verified(r) => Authorised(r)
  <2> SUFFICES ASSUME sql[r] = "select_id", Verified(r) PROVE Authorised(r)
    OBVIOUS
  <2>1. PICK u \in result[r].rows : ValidPassword(req[r].password, u.password)
    BY Zenon DEF Verified
  <2>2. u \in history /\ u.user_id = req[r].user_id /\ u.password \in Stored
    BY ZenonT(60), <1>0, <1>5 DEF ResultOf, User
  <2> QED BY Zenon, <2>1, <2>2, ValidOpens DEF Authorised
<1>7. CASE register_user(r)
  <2>1. Resumes(r, "register_user", "insert") /\ Fetched(r)
          => \E i \in UserId : Ids(result[r].rows) = {i}
    <3> SUFFICES ASSUME sql[r] = "insert", Fetched(r)
                 PROVE  \E i \in UserId : Ids(result[r].rows) = {i}
      BY Zenon DEF Resumes
    <3>1. PICK u \in User : result[r].rows = {u}
      BY Zenon, <1>0 DEF ResultOf, Fetched, Got
    <3>2. Ids(result[r].rows) = {u.user_id} /\ u.user_id \in UserId
      BY Zenon, <3>1 DEF Ids, User
    <3> QED BY Zenon, <3>2
  <2> QED BY SMTT(60), <1>3, <1>4, <1>7, <2>1 DEF register_user, Resumes
<1>8. CASE login_user(r)
  <2>1. Resumes(r, "login_user", "select_email") /\ Verified(r)
          => \E h \in history : /\ h.email = req[r].email
                                /\ Opens(req[r].password, h.password)
                                /\ Ids(result[r].rows) = {h.user_id}
    <3> SUFFICES ASSUME sql[r] = "select_email", Verified(r)
                 PROVE  \E h \in history : /\ h.email = req[r].email
                                           /\ Opens(req[r].password, h.password)
                                           /\ Ids(result[r].rows) = {h.user_id}
      BY Zenon DEF Resumes
    <3>1. PICK u \in result[r].rows : ValidPassword(req[r].password, u.password)
      BY Zenon DEF Verified
    <3>2. /\ u \in history /\ u.email = req[r].email /\ u.password \in Stored
          /\ \A v \in result[r].rows : v = u
      BY Zenon, <1>0, <1>5 DEF ResultOf, User
    <3>3. Ids(result[r].rows) = {u.user_id}
      BY ZenonT(60), <3>2 DEF Ids
    <3> QED BY Zenon, <3>1, <3>2, <3>3, ValidOpens
  <2> QED BY SMTT(60), <1>3, <1>8, <2>1 DEF login_user, Resumes
<1>9. CASE get_user_info(r)
  <2>1. Resumes(r, "get_user_info", "select_id") /\ Fetched(r)
          => Ids(result[r].rows) = {req[r].user_id}
    BY ZenonT(60), <1>0 DEF Resumes, Fetched, ResultOf, Ids
  <2> QED BY SMTT(60), <1>3, <1>9, <2>1 DEF get_user_info, Resumes
<1>10. CASE change_password(r)
  <2>1. sql[r] = "update" => Authorised(r)
    BY ZenonT(60), <1>0 DEF ResultOf
  <2> QED BY SMTT(60), <1>3, <1>4, <1>6, <1>10, <2>1 DEF change_password, Resumes
<1>11. CASE delete_account(r)
  <2>1. sql[r] = "delete" /\ Got(r, "rows") => Gone(req[r].user_id)
    BY Zenon, <1>0 DEF ResultOf, Got
  <2>2. sql[r] = "select_id" /\ Fetched(r) => req[r].user_id \in Ids(history)
    BY Zenon, <1>0, <1>5 DEF ResultOf, Fetched, Ids
  <2> QED BY SMTT(60), <1>3, <1>4, <1>11, <2>1, <2>2 DEF delete_account, Resumes
<1>12. CASE admin_only(r)
  <2>1. sql[r] = "select_id" /\ Fetched(r) /\ (\A u \in result[r].rows : u.role = "admin")
          => Administrator(req[r].user_id)
    BY Zenon, <1>0, <1>5 DEF ResultOf, Fetched, HistoryInv
  <2> QED BY SMTT(60), <1>3, <1>12, <2>1 DEF admin_only, Resumes
<1>13. CASE list_all_users(r)
  <2>1. sql[r] = "select_all" => Administrator(req[r].user_id)
    BY Zenon, <1>0 DEF ResultOf
  <2> QED BY ZenonT(60), <1>3, <1>13, <2>1 DEF list_all_users, Resumes
<1>14. CASE get_model_accuracy(r)
  BY SMTT(60), <1>3, <1>14 DEF get_model_accuracy, Resumes
<1> QED BY ZenonT(60), <1>7, <1>8, <1>9, <1>10, <1>11, <1>12, <1>13, <1>14 DEF Handle

\* Every step keeps the layer.
LEMMA ResultStep ==
    ASSUME BaseInv, ResultInv, [Next]_vars
    PROVE  ResultInv'
BY Zenon, ResultProcess, ResultAccept, ResultPool, ResultDb, ResultHandle DEF Next, Terminated

\* It is an invariant.
LEMMA ResultAlways == Spec => [](BaseInv /\ ResultInv)
<1>1. BaseInv /\ ResultInv /\ [Next]_vars => ResultInv'
  BY Zenon, ResultStep
<1> QED BY <1>1, BaseAlways, ResultInit, PTL DEF Spec

\* A deletion that was acknowledged has removed the account for good.
THEOREM AcknowledgedDeletionHolds == Spec => []DeletedIsGone
<1>1. ResultInv => DeletedIsGone
  BY Zenon DEF ResultInv, ReplyOf, DeletedIsGone, Got200, Gone
<1> QED BY <1>1, ResultAlways, PTL

\* Successful logins and info answers name the right account.
THEOREM AnswersAreRight == Spec => []AnswersNameTheirAccount
<1>1. ResultInv => AnswersNameTheirAccount
  BY Zenon DEF ResultInv, ReplyOf, AnswersNameTheirAccount, Got200
<1> QED BY <1>1, ResultAlways, PTL

\* A password is replaced only after a password that opened the account was
\* presented, though the row may have changed since.
THEOREM ChangesAreAuthorised == Spec => []ChangeWasAuthorised
<1>1. ResultInv => ChangeWasAuthorised
  BY Zenon DEF ResultInv, ReplyOf, ResultOf, ChangeWasAuthorised, Got200, Authorised
<1> QED BY <1>1, ResultAlways, PTL

\* The list of users goes to administrators of the initial table only.
THEOREM ListIsForAdministrators == Spec => []AdminListSound
<1>1. ResultInv => AdminListSound
  BY Zenon DEF ResultInv, ReplyOf, AdminListSound, Got200, Administrator
<1> QED BY <1>1, ResultAlways, PTL
=============================================================================
