------------------------- MODULE AccountLastingProof -------------------------
(***************************************************************************)
(* What a client may conclude from the answer to a registration, over the  *)
(* layers of AccountServiceProof.                                          *)
(*   LastInv   follows an account from the moment its INSERT is executed:  *)
(*             a registration that was answered 200 has its account.       *)
(*   MakerInv  knows a registration of its own for every account that was  *)
(*             made: one that was answered 400 made none.                  *)
(***************************************************************************)
EXTENDS AccountServiceProof, FiniteSetTheorems

\* The account a registration has made, once the database has said so.
Made(r) == IF sql[r] = "insert" /\ result[r].tag = "rows" THEN Ids(result[r].rows)
           ELSE IF req[r].op = "register_user" /\ reply[r].status = 200 THEN reply[r].ids
           ELSE {}

\* The account i that r made is there with what r asked for, or was asked to go
\* or to change.
Lasts(r, i) ==
    \/ \E d \in Request : Asked(d, "delete_account", i)
    \/ \E u \in ById(users, i) :
         /\ u.email = req[r].email
         /\ \/ u.password = hashpw(req[r].password)
            \/ \E c \in Request : Asked(c, "change_password", i)

LastInv ==
    /\ \A r \in Request : \A i \in Made(r) : i \in Ids(history) /\ Lasts(r, i)
    /\ \A r, s \in Request : r # s => Made(r) \cap Made(s) = {}

-----------------------------------------------------------------------------
\* Only registrations that were received have made an account.
LEMMA MadeByRegister ==
    ASSUME BaseInv, NEW r \in Request, Made(r) # {}
    PROVE  pc[r] # "new" /\ req[r].op = "register_user"
BY Zenon, MenuType DEF BaseInv, FlowInv, FlowOf, Sends, Made

\* The state Made depends on.
LEMMA MadeFrame ==
    ASSUME NEW r \in Request, req'[r] = req[r], sql'[r] = sql[r],
           reply'[r] = reply[r], sql[r] # "insert" \/ result'[r] = result[r]
    PROVE  Made(r)' = Made(r)
BY SMTT(60) DEF Made

\* A step leaves a registration with the account it made, or with none, unless
\* it is the INSERT.
LEMMA MadeCases ==
    ASSUME BaseInv, ResultInv, [Next]_vars, NEW r \in Request
    PROVE  \/ Made(r)' \subseteq Made(r)
           \/ \E i \in UserId : Inserts(r, i) /\ Made(r)' \subseteq {i}
<1>0. TypeOK /\ FlowInv /\ FlowOf(r) /\ ResultOf(r)
  BY Zenon DEF BaseInv, FlowInv, ResultInv
<1>1. CASE \/ lifespan_connected \/ lifespan_unconnected \/ ShutdownSignal
           \/ lifespan_close \/ Restart \/ Crash \/ UNCHANGED vars
  <2>1. UNCHANGED <<req, sql, reply, result>>
    BY Zenon, <1>1 DEF lifespan_connected, lifespan_unconnected, ShutdownSignal, lifespan_close,
                Restart, Crash, vars
  <2> QED BY Zenon, <2>1 DEF Made
<1>2. ASSUME NEW s \in Request, s # r,
             \/ Accept(s) \/ Acquire(s) \/ AcquireFails(s) \/ Release(s) \/ ReleaseFails(s)
             \/ DbExecute(s) \/ DbRefuse(s) \/ Handle(s)
      PROVE  Made(r)' = Made(r)
  <2>1. CASE Accept(s) \/ Acquire(s) \/ AcquireFails(s) \/ Release(s) \/ ReleaseFails(s)
    <3>1. req'[r] = req[r] /\ sql'[r] = sql[r] /\ result'[r] = result[r] /\ reply'[r] = reply[r]
      BY SMTT(60), <1>0, <1>2, <2>1 DEF Accept, Acquire, AcquireFails, Release, ReleaseFails, TypeOK
    <3> QED BY Zenon, <3>1, MadeFrame
  <2>2. CASE DbExecute(s) \/ DbRefuse(s)
    <3>1. UNCHANGED <<req, sql, reply>>
      BY Zenon, <2>2, DbCases
    <3>2. \E out : result' = [result EXCEPT ![s] = out]
      BY Zenon, <2>2, DbCases DEF Inserts, Updates, Deletes, Reads
    <3>3. result'[r] = result[r]
      BY Zenon, <1>0, <1>2, <3>2 DEF TypeOK
    <3> QED BY Zenon, <3>1, <3>3, MadeFrame
  <2>3. CASE Handle(s)
    <3>1. req'[r] = req[r] /\ sql'[r] = sql[r] /\ result'[r] = result[r] /\ reply'[r] = reply[r]
      BY SMTT(60), <1>0, <1>2, <2>3, HandleCases DEF handlerFrame, Respond, Execute, TypeOK
    <3> QED BY Zenon, <3>1, MadeFrame
  <2> QED BY Zenon, <1>2, <2>1, <2>2, <2>3
<1>3. CASE Accept(r)
  <2>1. PICK q \in Menu :
           /\ req' = [req EXCEPT ![r] = q]
           /\ \/ reply' = [reply EXCEPT ![r] = Answer(EarlyStatus(q), {})]
              \/ reply' = [reply EXCEPT ![r] = Answer(500, {})]
              \/ UNCHANGED reply
    BY ZenonT(60), <1>3 DEF Accept
  <2>2. sql'[r] = "none" /\ reply[r].ids = {}
    BY SMTT(60), <1>0, <1>3 DEF Accept, FlowOf, NoReply, Answer
  <2>3. reply'[r].ids = {}
    BY SMTT(60), <1>0, <2>1, <2>2 DEF TypeOK, Answer
  <2> QED BY Zenon, <2>2, <2>3 DEF Made
<1>4. CASE Acquire(r) \/ AcquireFails(r)
  <2>1. reply[r].ids = {}
    BY SMTT(60), <1>0, <1>4 DEF Acquire, AcquireFails, FlowOf, NoReply, Answer
  <2>2. sql'[r] # "insert"
    BY Zenon, <1>0, <1>4, FirstStatementFact DEF Acquire, AcquireFails, FlowOf, TypeOK
  <2>3. reply'[r].ids = {}
    BY SMTT(60), <1>0, <1>4, <2>1 DEF Acquire, AcquireFails, TypeOK, Answer
  <2> QED BY Zenon, <2>2, <2>3 DEF Made
<1>5. CASE Release(r)
  BY Zenon, <1>5, MadeFrame DEF Release
<1>6. CASE ReleaseFails(r)
  <2>1. sql'[r] = "none" /\ reply'[r].ids = {}
    BY Zenon, <1>0, <1>6 DEF ReleaseFails, FlowOf, TypeOK, Answer
  <2> QED BY Zenon, <2>1 DEF Made
<1>7. CASE DbExecute(r) \/ DbRefuse(r)
  <2>0. UNCHANGED <<req, sql, reply>> /\ (sql[r] # "none" => reply[r].ids = {})
    BY SMTT(60), <1>0, <1>7, DbCases DEF FlowOf, NoReply, Answer
  <2>1. ASSUME NEW i \in UserId, Inserts(r, i) PROVE Made(r)' \subseteq {i}
    <3>1. result'[r] \in {Rows({RowFor(r, i)}), DbError}
      BY Zenon, <1>0, <2>1 DEF Inserts, TypeOK
    <3>2. Ids({RowFor(r, i)}) = {i}
      BY Zenon, RowForFields DEF Ids
    <3>3. CASE result'[r] = Rows({RowFor(r, i)})
      BY SMTT(60), <2>0, <2>1, <3>2, <3>3 DEF Made, Rows, Inserts
    <3>4. CASE result'[r] = DbError
      BY SMTT(60), <2>0, <2>1, <3>4 DEF Made, DbError, Inserts
    <3> QED BY Zenon, <3>1, <3>3, <3>4
  <2>2. CASE Updates(r) \/ Deletes(r)
    BY Zenon, <2>0, <2>2, MadeFrame DEF Updates, Deletes
  <2>3. CASE Reads(r)
    <3>1. CASE sql[r] = "insert"
      <4>1. result'[r] \in {DbError, UniqueViolation}
        BY Zenon, <1>0, <2>3, <3>1 DEF Reads, TypeOK
      <4> QED BY SMTT(60), <2>0, <3>1, <4>1 DEF Made, DbError, UniqueViolation
    <3>2. CASE sql[r] # "insert"
      BY Zenon, <2>0, <3>2, MadeFrame
    <3> QED BY Zenon, <3>1, <3>2
  <2> QED BY Zenon, <1>7, <2>1, <2>2, <2>3, DbCases
<1>8. CASE Handle(r)
  <2>0. req' = req /\ pc[r] = "query" /\ sql[r] # "none" /\ reply[r].ids = {}
    BY SMTT(60), <1>0, <1>8, HandleCases DEF handlerFrame, FlowOf, NoReply, Answer
  <2>1. ASSUME NEW st, Execute(r, st) PROVE Made(r)' = {}
    BY Zenon, <1>0, <2>0, <2>1 DEF Execute, Made, NoResult, TypeOK
  <2>2. ASSUME NEW status, NEW ids, Respond(r, status, ids),
               \/ ids = {} \/ req[r].op # "register_user"
               \/ sql[r] = "insert" /\ Got(r, "rows") /\ ids = Ids(result[r].rows)
        PROVE  Made(r)' \subseteq Made(r)
    <3>1. sql'[r] = "none" /\ reply'[r].ids = ids
      BY Zenon, <1>0, <2>2 DEF Respond, Answer, TypeOK
    <3> QED BY Zenon, <2>0, <2>2, <3>1 DEF Made, Got
  <2>3. CASE req[r].op # "register_user"
    BY ZenonT(60), <1>0, <1>8, <2>1, <2>2, <2>3, HandleCases
  <2>4. CASE req[r].op = "register_user"
    <3>1. register_user(r)
      BY Zenon, <1>8, <2>4 DEF Handle, login_user, get_user_info, change_password, delete_account,
                        admin_only, list_all_users, get_model_accuracy, Resumes
    <3> QED BY ZenonT(60), <2>1, <2>2, <3>1 DEF register_user, Resumes, Fetched
  <2> QED BY Zenon, <2>3, <2>4
<1> QED BY Zenon, <1>1, <1>2, <1>3, <1>4, <1>5, <1>6, <1>7, <1>8 DEF Next, Terminated

\* Requests to delete or to change are not forgotten.
LEMMA AskedStable ==
    ASSUME BaseInv, [Next]_vars, NEW d \in Request, NEW op, NEW i, Asked(d, op, i)
    PROVE  Asked(d, op, i)'
BY Zenon, RequestStable DEF BaseInv, Asked

\* An account lasts through every step.
LEMMA LastsStable ==
    ASSUME BaseInv, [Next]_vars, NEW r \in Request, pc[r] # "new", NEW i, Lasts(r, i)
    PROVE  Lasts(r, i)'
<1>0. TypeOK /\ FlowInv /\ users \subseteq User /\ req'[r] = req[r]
  BY Zenon, RequestStable DEF BaseInv, TypeOK
<1>1. CASE \E d \in Request : Asked(d, "delete_account", i)
  BY Zenon, <1>1, AskedStable DEF Lasts
<1>2. CASE ~\E d \in Request : Asked(d, "delete_account", i)
  <2>1. PICK u \in users : /\ u.user_id = i /\ u.email = req[r].email
                           /\ \/ u.password = hashpw(req[r].password)
                              \/ \E c \in Request : Asked(c, "change_password", i)
    BY Zenon, <1>2 DEF Lasts, ById
  <2>2. (\E c \in Request : Asked(c, "change_password", i))
          => \E c \in Request : Asked(c, "change_password", i)'
    BY Zenon, AskedStable
  <2>3. CASE u \in users'
    BY Zenon, <1>0, <2>1, <2>2, <2>3 DEF Lasts, ById, hashpw
  <2>4. ASSUME NEW s \in Request, Updates(s), u \notin users' PROVE Lasts(r, i)'
    <3>1. PICK v \in users' : /\ v.user_id = u.user_id /\ v.email = u.email
                              /\ v.user_id # req[s].user_id => v = u
      <4> DEFINE p == hashpw(req[s].new)
      <4>1. users' = Updated(users, req[s].user_id, p)
        BY Zenon, <2>4 DEF Updates
      <4> HIDE DEF p
      <4>2. \A w \in users : \E v \in Updated(users, req[s].user_id, p) :
               /\ v.user_id = w.user_id /\ v.email = w.email
               /\ v.user_id # req[s].user_id => v = w
        BY SMTT(60), <1>0, UpdatedKeeps
      <4> QED BY Zenon, <4>1, <4>2
    <3>2. Asked(s, "change_password", i)
      BY Zenon, <1>0, <2>1, <2>4, <3>1 DEF Updates, Asked, FlowInv, FlowOf, Sends
    <3>3. Asked(s, "change_password", i)'
      BY Zenon, <3>2, AskedStable
    <3> QED BY Zenon, <1>0, <2>1, <3>1, <3>3 DEF Lasts, ById
  <2>5. ASSUME NEW s \in Request, Deletes(s), u \notin users' PROVE FALSE
    <3>1. req[s].user_id = i /\ sql[s] = "delete"
      BY Zenon, <2>1, <2>5 DEF Deletes, Deleted
    <3> QED BY Zenon, <1>0, <1>2, <3>1 DEF Asked, FlowInv, FlowOf, Sends
  <2> QED BY Zenon, <1>0, <2>1, <2>3, <2>4, <2>5, TableCases DEF Inserts
<1> QED BY Zenon, <1>1, <1>2

\* The INSERT makes an account that is there.
LEMMA InsertLasts ==
    ASSUME BaseInv, [Next]_vars, NEW r \in Request, NEW i \in UserId, Inserts(r, i)
    PROVE  i \in Ids(history)' /\ Lasts(r, i)'
<1>1. pc[r] # "new"
  BY Zenon DEF BaseInv, FlowInv, FlowOf, Inserts
<1>2. req'[r] = req[r]
  BY Zenon, <1>1, RequestStable DEF BaseInv
<1>3. RowFor(r, i) \in users' /\ RowFor(r, i) \in history'
  BY Zenon DEF Inserts
<1>4. i \in Ids(history')
  BY SMTT(60), <1>3, RowForFields DEF Ids
<1>5. Lasts(r, i)'
  BY SMTT(60), <1>2, <1>3, RowForFields DEF Lasts, ById, hashpw
<1> QED BY Zenon, <1>4, <1>5

\* The layer holds at the start.
LEMMA LastInit == Init => LastInv
BY SMTT(60) DEF Init, LastInv, Made, NoReply, Answer

\* Every step keeps it.
LEMMA LastStep ==
    ASSUME BaseInv, ResultInv, LastInv, [Next]_vars
    PROVE  LastInv'
<1>1. Ids(history) \subseteq Ids(history)'
  BY Zenon, Monotone
<1>2. ASSUME NEW r \in Request, NEW i \in Made(r)' PROVE (i \in Ids(history) /\ Lasts(r, i))'
  <2>1. CASE i \in Made(r)
    <3>1. pc[r] # "new" /\ i \in Ids(history) /\ Lasts(r, i)
      BY Zenon, <2>1, MadeByRegister DEF LastInv
    <3>2. Lasts(r, i)'
      BY Zenon, <3>1, LastsStable
    <3> QED BY Zenon, <1>1, <3>1, <3>2
  <2>2. CASE i \notin Made(r)
    <3>1. PICK j \in UserId : Inserts(r, j) /\ Made(r)' \subseteq {j}
      BY Zenon, <1>2, <2>2, MadeCases
    <3>2. i = j
      BY Zenon, <1>2, <3>1
    <3> QED BY Zenon, <3>1, <3>2, InsertLasts
  <2> QED BY Zenon, <2>1, <2>2
<1>3. ASSUME NEW r \in Request, NEW s \in Request, r # s, NEW i \in Made(r)' \cap Made(s)'
      PROVE  FALSE
  <2>1. ASSUME NEW p \in Request, NEW q \in Request, p # q, NEW j \in UserId, Inserts(p, j),
               i = j, i \in Made(q)'
        PROVE  FALSE
    <3>1. ~\E k \in UserId : Inserts(q, k)
      <4> SUFFICES ASSUME NEW k \in UserId, Inserts(q, k) PROVE FALSE
        OBVIOUS
      <4>1. result \in [Request -> ResultType] /\ result[q].tag = "none"
        BY Zenon DEF BaseInv, TypeOK, ResultType, Inserts
      <4>2. result'[q] = result[q]
        BY Zenon, <2>1, <4>1 DEF Inserts
      <4>3. result'[q] \in {Rows({RowFor(q, k)}), DbError}
        BY Zenon, <4>1 DEF Inserts
      <4>4. Rows({RowFor(q, k)}).tag = "rows" /\ DbError.tag = "error"
        BY Zenon DEF Rows, DbError
      <4> QED BY Zenon, <4>1, <4>2, <4>3, <4>4
    <3>2. i \in Made(q)
      BY Zenon, <2>1, <3>1, MadeCases
    <3> QED BY Zenon, <2>1, <3>2 DEF LastInv, Inserts
  <2>2. CASE i \in Made(r) /\ i \in Made(s)
    BY Zenon, <1>3, <2>2 DEF LastInv
  <2>3. CASE i \notin Made(r)
    <3>1. PICK j \in UserId : Inserts(r, j) /\ Made(r)' \subseteq {j}
      BY Zenon, <1>3, <2>3, MadeCases
    <3> QED BY Zenon, <1>3, <2>1, <3>1
  <2>4. CASE i \notin Made(s)
    <3>1. PICK j \in UserId : Inserts(s, j) /\ Made(s)' \subseteq {j}
      BY Zenon, <1>3, <2>4, MadeCases
    <3> QED BY Zenon, <1>3, <2>1, <3>1
  <2> QED BY Zenon, <2>2, <2>3, <2>4
<1> QED BY Zenon, <1>2, <1>3 DEF LastInv

\* The account a registration was told of is its own, and is there, with the
\* password asked for, until someone asks to delete or to change it: no crash,
\* lost answer, failed release or concurrent request takes it away.
THEOREM RegistrationsLast == Spec => []AcknowledgedAccountsLast
<1>1. BaseInv /\ ResultInv /\ LastInv /\ [Next]_vars => LastInv'
  BY Zenon, LastStep
<1>2. ASSUME BaseInv, ResultInv, LastInv PROVE AcknowledgedAccountsLast
  <2> SUFFICES ASSUME NEW r \in Request, Got200(r, "register_user")
               PROVE  \E i \in UserId :
                        /\ reply[r].ids = {i}
                        /\ \A s \in Request \ {r} : Got200(s, "register_user") => reply[s].ids # {i}
                        /\ Lasts(r, i)
    BY Zenon DEF AcknowledgedAccountsLast, Lasts
  <2>1. \A s \in Request : Got200(s, "register_user") => Made(s) = reply[s].ids
    BY ZenonT(60), <1>2 DEF BaseInv, FlowInv, FlowOf, Got200, Made
  <2>2. PICK i \in UserId : reply[r].ids = {i}
    BY Zenon, <1>2 DEF ResultInv, ReplyOf, Got200
  <2>3. i \in Made(r)
    BY Zenon, <2>1, <2>2
  <2>4. Lasts(r, i)
    BY Zenon, <1>2, <2>3 DEF LastInv
  <2>5. \A s \in Request \ {r} : Got200(s, "register_user") => reply[s].ids # {i}
    BY Zenon, <1>2, <2>1, <2>3 DEF LastInv
  <2> QED BY Zenon, <2>2, <2>4, <2>5
<1>3. BaseInv /\ ResultInv /\ LastInv => AcknowledgedAccountsLast
  BY Zenon, <1>2
<1> QED BY <1>1, <1>3, ResultAlways, LastInit, PTL DEF Spec

-----------------------------------------------------------------------------

\* How a registration ends whose INSERT met no violated key.
InsertEnds == {200, 500}

\* Registration r has had its INSERT answered, and not by a violated key: it
\* may have made an account, and will not send another INSERT.
Spent(r) ==
    /\ pc[r] # "new" /\ req[r].op = "register_user"
    /\ \/ sql[r] = "insert" /\ result[r].tag \in {"rows", "error"}
       \/ reply[r].status \in InsertEnds

\* The accounts made since the first start.
NewIds(hist) == Ids(hist) \ Ids(Seed)

\* f tells which registration made each account.
MakersOf(f, hist, query) ==
    /\ f \in [NewIds(hist) -> Request]
    /\ \A i, j \in NewIds(hist) : f[i] = f[j] => i = j
    /\ \A h \in hist : h.user_id \in NewIds(hist) => query[f[h.user_id]].email = h.email

MakerInv == \E f : MakersOf(f, history, req) /\ \A i \in NewIds(history) : Spent(f[i])

-----------------------------------------------------------------------------
\* A registration that waits for its INSERT is not spent, and a refused one
\* has not made an account.
LEMMA SpentFacts ==
    ASSUME BaseInv, NEW r \in Request
    PROVE  /\ sql[r] = "insert" /\ result[r].tag = "none" => ~Spent(r)
           /\ Spent(r) => reply[r].status # 400
<1>1. FlowOf(r)
  BY Zenon DEF BaseInv, FlowInv
<1> QED BY SMTT(60), <1>1 DEF FlowOf, Spent, InsertEnds, NoReply, Answer

\* The state Spent depends on.
LEMMA SpentFrame ==
    ASSUME NEW r \in Request, Spent(r), pc'[r] # "new", req'[r] = req[r], sql'[r] = sql[r],
           reply'[r] = reply[r], result'[r] = result[r]
    PROVE  Spent(r)'
BY Zenon DEF Spent

\* A spent registration stays spent.
LEMMA SpentStable ==
    ASSUME BaseInv, [Next]_vars, NEW r \in Request, Spent(r)
    PROVE  Spent(r)'
<1>0. TypeOK /\ FlowInv /\ FlowOf(r)
  BY Zenon DEF BaseInv, FlowInv
<1>a. pc'[r] # "new" /\ req'[r] = req[r]
  BY Zenon, <1>0, RequestStable DEF Spent
<1>b. reply[r] = NoReply => sql[r] = "insert" /\ result[r].tag \in {"rows", "error"}
  BY SMTT(60) DEF Spent, InsertEnds, NoReply, Answer
<1>c. req[r].op = "register_user" /\ pc[r] # "new"
  BY Zenon DEF Spent
<1>d. sql[r] # "none" => reply[r] = NoReply
  BY Zenon, <1>0 DEF FlowOf
<1>e. 200 \in InsertEnds /\ 500 \in InsertEnds
  BY SMT DEF InsertEnds
<1>1. CASE \/ lifespan_connected \/ lifespan_unconnected \/ ShutdownSignal
           \/ lifespan_close \/ Restart \/ Crash \/ UNCHANGED vars
  <2>1. UNCHANGED <<req, sql, reply, result>>
    BY Zenon, <1>1 DEF lifespan_connected, lifespan_unconnected, ShutdownSignal, lifespan_close,
                Restart, Crash, vars
  <2> QED BY Zenon, <1>a, <2>1, SpentFrame
<1>2. ASSUME NEW s \in Request, s # r,
             \/ Accept(s) \/ Acquire(s) \/ AcquireFails(s) \/ Release(s) \/ ReleaseFails(s)
             \/ DbExecute(s) \/ DbRefuse(s) \/ Handle(s)
      PROVE  Spent(r)'
  <2>1. CASE Accept(s) \/ Acquire(s) \/ AcquireFails(s) \/ Release(s) \/ ReleaseFails(s)
    <3>1. sql'[r] = sql[r] /\ result'[r] = result[r] /\ reply'[r] = reply[r]
      BY SMTT(60), <1>0, <1>2, <2>1 DEF Accept, Acquire, AcquireFails, Release, ReleaseFails, TypeOK
    <3> QED BY ZenonT(60), <1>a, <3>1, SpentFrame
  <2>2. CASE DbExecute(s) \/ DbRefuse(s)
    <3>1. UNCHANGED <<req, sql, reply>>
      BY Zenon, <2>2, DbCases
    <3>2. \E out : result' = [result EXCEPT ![s] = out]
      BY Zenon, <2>2, DbCases DEF Inserts, Updates, Deletes, Reads
    <3>3. result'[r] = result[r]
      BY ZenonT(60), <1>0, <1>2, <3>2 DEF TypeOK
    <3> QED BY Zenon, <1>a, <3>1, <3>3, SpentFrame
  <2>3. CASE Handle(s)
    <3>1. sql'[r] = sql[r] /\ result'[r] = result[r] /\ reply'[r] = reply[r]
      BY SMTT(60), <1>0, <1>2, <2>3, HandleCases DEF handlerFrame, Respond, Execute, TypeOK
    <3> QED BY Zenon, <1>a, <3>1, SpentFrame
  <2> QED BY Zenon, <1>2, <2>1, <2>2, <2>3
<1>3. ~(Accept(r) \/ Acquire(r) \/ AcquireFails(r) \/ DbExecute(r) \/ DbRefuse(r))
  <2>1. sql[r] # "insert" => sql[r] = "none"
    BY Zenon, <1>b, <1>d
  <2>2. pc[r] \notin {"acquire", "reacquire"}
    BY Zenon, <1>0, <1>b DEF FlowOf
  <2>3. ~Pending(r)
    BY Zenon, <1>b, <1>d DEF Pending
  <2> QED BY Zenon, <1>c, <2>2, <2>3 DEF Accept, Acquire, AcquireFails, DbExecute, DbRefuse
<1>4. CASE Release(r)
  BY Zenon, <1>a, <1>4, SpentFrame DEF Release
<1>5. CASE ReleaseFails(r)
  <2>1. reply'[r].status = 500
    BY ZenonT(60), <1>0, <1>5 DEF ReleaseFails, TypeOK, Answer
  <2> QED BY Zenon, <1>a, <1>c, <1>e, <2>1 DEF Spent
<1>6. CASE Handle(r)
  <2>1. sql[r] = "insert" /\ result[r].tag \in {"rows", "error"}
    BY Zenon, <1>0, <1>6, <1>b, <1>d, HandleCases DEF FlowOf
  <2>2. register_user(r)
    BY Zenon, <1>6, <1>c DEF Handle, login_user, get_user_info, change_password, delete_account,
                      admin_only, list_all_users, get_model_accuracy, Resumes
  <2>3. \E ids : Respond(r, 200, ids) \/ Respond(r, 500, ids)
    BY ZenonT(60), <2>1, <2>2 DEF register_user, Resumes, Got
  <2>4. ASSUME NEW status, NEW ids, Respond(r, status, ids) PROVE reply'[r].status = status
    BY Zenon, <1>0, <2>4 DEF Respond, Answer, TypeOK
  <2>5. reply'[r].status \in InsertEnds
    BY ZenonT(60), <1>e, <2>3, <2>4
  <2> QED BY Zenon, <1>a, <1>c, <2>5 DEF Spent
<1> QED BY Zenon, <1>1, <1>2, <1>3, <1>4, <1>5, <1>6 DEF Next, Terminated

\* At the start no account has been made.
LEMMA MakerInit == Init => MakerInv
<1> SUFFICES ASSUME Init PROVE MakerInv
  BY Zenon
<1>1. NewIds(history) = {}
  BY Zenon DEF Init, NewIds
<1>2. PICK f : f = [i \in {} |-> i]
  BY Zenon
<1>3. MakersOf(f, history, req)
  BY Zenon, <1>1, <1>2 DEF MakersOf
<1> QED BY Zenon, <1>1, <1>3 DEF MakerInv

\* The makers stay known while no account is made.
LEMMA MakersKept ==
    ASSUME BaseInv, [Next]_vars, MakerInv, NewIds(history') = NewIds(history),
           \A h \in history' : \E g \in history : g.user_id = h.user_id /\ g.email = h.email
    PROVE  MakerInv'
<1>1. PICK f : MakersOf(f, history, req) /\ \A i \in NewIds(history) : Spent(f[i])
  BY Zenon DEF MakerInv
<1>2. \A i \in NewIds(history) : f[i] \in Request
  BY Zenon, <1>1 DEF MakersOf
<1>3. \A i \in NewIds(history) : Spent(f[i])'
  BY Zenon, <1>1, <1>2, SpentStable
<1>4. ASSUME NEW i \in NewIds(history) PROVE req'[f[i]] = req[f[i]]
  <2>1. pc[f[i]] # "new"
    BY Zenon, <1>1 DEF Spent
  <2> QED BY Zenon, <1>2, <2>1, RequestStable DEF BaseInv
<1>5. MakersOf(f, history', req')
  <2>1. ASSUME NEW h \in history', h.user_id \in NewIds(history)
        PROVE  req'[f[h.user_id]].email = h.email
    <3>1. PICK g \in history : g.user_id = h.user_id /\ g.email = h.email
      BY Zenon
    <3>2. req[f[h.user_id]].email = h.email
      BY Zenon, <1>1, <2>1, <3>1 DEF MakersOf
    <3> QED BY Zenon, <1>4, <2>1, <3>2
  <2> QED BY Zenon, <1>1, <2>1 DEF MakersOf
<1> QED BY Zenon, <1>3, <1>5 DEF MakerInv

\* An INSERT's registration, not spent before, is the new account's maker.
LEMMA MakersInsert ==
    ASSUME BaseInv, [Next]_vars, MakerInv, NEW r \in Request, NEW j \in UserId, Inserts(r, j),
           DbExecute(r) \/ DbRefuse(r)
    PROVE  MakerInv'
<1>0. TypeOK /\ FlowInv /\ FlowOf(r) /\ Seed \subseteq history
  BY Zenon DEF BaseInv, FlowInv, TableInv, HistoryInv
<1>1. PICK f : MakersOf(f, history, req) /\ \A i \in NewIds(history) : Spent(f[i])
  BY Zenon DEF MakerInv
<1>2. \A i \in NewIds(history) : f[i] \in Request /\ f[i] # r
  BY ZenonT(60), <1>1, SpentFacts DEF MakersOf, Inserts
<1>3. UNCHANGED <<req, pc, sql, reply>> /\ sql[r] = "insert"
  BY Zenon, DbCases DEF Inserts
<1>4. j \notin NewIds(history) /\ NewIds(history') = NewIds(history) \cup {j}
  <2>1. j \notin Ids(history) /\ Ids(Seed) \subseteq Ids(history)
    BY Zenon, <1>0 DEF Inserts, Ids
  <2>2. Ids(history') = Ids(history) \cup {j}
    BY SMTT(60), RowForFields DEF Inserts, Ids
  <2> QED BY Zenon, <2>1, <2>2 DEF NewIds
<1>5. PICK g : g = [i \in NewIds(history) \cup {j} |-> IF i = j THEN r ELSE f[i]]
  BY Zenon
<1>6. g[j] = r /\ \A i \in NewIds(history) : g[i] = f[i]
  BY Zenon, <1>4, <1>5
<1>7. MakersOf(g, history', req')
  <2>1. g \in [NewIds(history') -> Request]
    BY Zenon, <1>2, <1>4, <1>5
  <2>2. \A i, k \in NewIds(history') : g[i] = g[k] => i = k
    BY Zenon, <1>1, <1>2, <1>4, <1>6 DEF MakersOf
  <2>3. ASSUME NEW h \in history', h.user_id \in NewIds(history')
        PROVE  req'[g[h.user_id]].email = h.email
    <3>1. CASE h = RowFor(r, j)
      <4>1. h.user_id = j /\ h.email = req[r].email
        BY Zenon, <3>1, RowForFields
      <4> QED BY Zenon, <1>3, <1>6, <4>1
    <3>2. CASE h \in history
      <4>1. h.user_id # j
        BY Zenon, <3>2 DEF Inserts, Ids
      <4>2. h.user_id \in NewIds(history)
        BY Zenon, <1>4, <2>3, <4>1
      <4>3. req[f[h.user_id]].email = h.email
        BY Zenon, <1>1, <3>2, <4>2 DEF MakersOf
      <4> QED BY Zenon, <1>3, <1>6, <4>2, <4>3
    <3> QED BY Zenon, <3>1, <3>2 DEF Inserts
  <2> QED BY Zenon, <2>1, <2>2, <2>3 DEF MakersOf
<1>8. ASSUME NEW i \in NewIds(history') PROVE Spent(g[i])'
  <2>1. CASE i = j
    <3>1. pc'[r] # "new" /\ req'[r].op = "register_user"
      <4>1. pc[r] # "new"
        BY Zenon, <1>0, <1>3 DEF FlowOf
      <4>2. req[r].op = "register_user"
        BY Zenon, <1>0, <1>3 DEF FlowOf, Sends
      <4> QED BY Zenon, <1>3, <4>1, <4>2
    <3>2. result'[r].tag \in {"rows", "error"}
      <4>1. result'[r] \in {Rows({RowFor(r, j)}), DbError}
        BY Zenon, <1>0 DEF Inserts, TypeOK
      <4> QED BY SMTT(60), <4>1 DEF Rows, DbError
    <3>3. Spent(r)'
      BY Zenon, <1>3, <3>1, <3>2 DEF Spent
    <3> QED BY Zenon, <1>6, <2>1, <3>3
  <2>2. CASE i \in NewIds(history)
    <3>1. Spent(f[i])'
      BY Zenon, <1>1, <1>2, <2>2, SpentStable
    <3> QED BY Zenon, <1>6, <2>2, <3>1
  <2> QED BY Zenon, <1>4, <2>1, <2>2
<1> QED BY Zenon, <1>7, <1>8 DEF MakerInv

\* Every step keeps the makers known.
LEMMA MakerStep ==
    ASSUME BaseInv, MakerInv, [Next]_vars
    PROVE  MakerInv'
<1>0. TypeOK /\ FlowInv /\ users \subseteq User /\ users \subseteq history
  BY Zenon DEF BaseInv, TypeOK, TableInv, HistoryInv
<1>1. CASE history' = history
  BY Zenon, <1>1, MakersKept
<1>2. ASSUME NEW r \in Request, DbExecute(r) \/ DbRefuse(r) PROVE MakerInv'
  <2>1. ASSUME NEW i \in UserId, Inserts(r, i) PROVE MakerInv'
    BY Zenon, <1>2, <2>1, MakersInsert
  <2>2. CASE Updates(r)
    <3>1. Ids(users') = Ids(users)
      BY Zenon, <1>0, <2>2, UpdatedIds DEF Updates
    <3>2. \A v \in users' : \E u \in users : u.user_id = v.user_id /\ u.email = v.email
      BY SMTT(60), <1>0, <2>2, UpdatedRows DEF Updates
    <3>3. history' = history \cup users'
      BY Zenon, <2>2 DEF Updates
    <3>4. \A h \in history' : \E g \in history : g.user_id = h.user_id /\ g.email = h.email
      BY Zenon, <1>0, <3>2, <3>3
    <3>5. NewIds(history') = NewIds(history)
      BY Zenon, <3>3, <3>4 DEF NewIds, Ids
    <3> QED BY Zenon, <3>4, <3>5, MakersKept
  <2>3. CASE Deletes(r) \/ Reads(r)
    BY Zenon, <1>1, <2>3 DEF Deletes, Reads
  <2> QED BY Zenon, <1>2, <2>1, <2>2, <2>3, DbCases
<1>3. CASE ~\E r \in Request : DbExecute(r) \/ DbRefuse(r)
  <2>1. CASE \E r \in Request : Handle(r)
    BY Zenon, <1>0, <1>1, <2>1, HandleCases DEF handlerFrame, dbVars
  <2>2. CASE \E r \in Request : Accept(r) \/ Acquire(r) \/ AcquireFails(r) \/ Release(r) \/ ReleaseFails(r)
    BY ZenonT(60), <1>1, <2>2 DEF Accept, Acquire, AcquireFails, Release, ReleaseFails, dbVars
  <2>3. CASE \/ lifespan_connected \/ lifespan_unconnected \/ ShutdownSignal
             \/ lifespan_close \/ Restart \/ Crash \/ UNCHANGED vars
    BY Zenon, <1>1, <2>3 DEF lifespan_connected, lifespan_unconnected, ShutdownSignal, lifespan_close,
                Restart, Crash, vars, dbVars
  <2> QED BY Zenon, <1>3, <2>1, <2>2, <2>3 DEF Next, Terminated
<1> QED BY Zenon, <1>2, <1>3

\* Counting: an account of an address has a maker of its own among the
\* registrations of that address that were not refused.
LEMMA MakersCount ==
    ASSUME BaseInv, MakerInv, IsFiniteSet(Request)
    PROVE  RefusedRegistersNothing
<1> SUFFICES ASSUME NEW e \in Email
             PROVE  Cardinality(Ids(ByEmail(history \ Seed, e)) \ Ids(Seed))
                      <= Cardinality({r \in Request : /\ req[r].op = "register_user"
                                                      /\ req[r].email = e
                                                      /\ reply[r].status # 400})
  BY Zenon DEF RefusedRegistersNothing
<1>1. PICK f : MakersOf(f, history, req) /\ \A i \in NewIds(history) : Spent(f[i])
  BY Zenon DEF MakerInv
<1>2. PICK A : A = Ids(ByEmail(history \ Seed, e)) \ Ids(Seed)
  BY Zenon
<1>3. PICK B : B = {r \in Request : /\ req[r].op = "register_user" /\ req[r].email = e
                                    /\ reply[r].status # 400}
  BY Zenon
<1>4. PICK g : g = [i \in A |-> f[i]]
  BY Zenon
<1>5. ASSUME NEW i \in A PROVE i \in NewIds(history) /\ f[i] \in B
  <2>1. PICK h \in history : h.email = e /\ h.user_id = i
    BY Zenon, <1>2, <1>5 DEF Ids, ByEmail
  <2>2. i \in NewIds(history)
    BY Zenon, <1>2, <1>5, <2>1 DEF NewIds, Ids
  <2>3. f[i] \in Request /\ req[f[i]].email = e /\ Spent(f[i])
    BY Zenon, <1>1, <2>1, <2>2 DEF MakersOf
  <2>4. req[f[i]].op = "register_user" /\ reply[f[i]].status # 400
    BY ZenonT(60), <2>3, SpentFacts DEF Spent
  <2> QED BY Zenon, <1>3, <2>2, <2>3, <2>4
<1>6. g \in Injection(A, B)
  <2>1. g \in [A -> B]
    BY Zenon, <1>4, <1>5
  <2>2. \A i, j \in A : g[i] = g[j] => i = j
    BY Zenon, <1>1, <1>4, <1>5 DEF MakersOf
  <2> QED BY Zenon, <2>1, <2>2 DEF Injection, IsInjective
<1>7. IsFiniteSet(B)
  BY ZenonT(60), <1>3, FS_Subset
<1>8. Cardinality(A) <= Cardinality(B)
  BY Zenon, <1>6, <1>7, FS_Injection
<1> QED BY Zenon, <1>2, <1>3, <1>8

\* Registrations refused with 400 make no account, for any finite number of
\* requests.
THEOREM RefusalsRegisterNothing ==
    ASSUME IsFiniteSet(Request)
    PROVE  Spec => []RefusedRegistersNothing
<1>1. Init => MakerInv
  BY MakerInit
<1>2. BaseInv /\ MakerInv /\ [Next]_vars => MakerInv'
  BY MakerStep
<1>3. BaseInv /\ MakerInv => RefusedRegistersNothing
  BY MakersCount
<1> QED BY <1>1, <1>2, <1>3, BaseAlways, PTL DEF Spec
=============================================================================
