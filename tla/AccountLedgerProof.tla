-------------------------- MODULE AccountLedgerProof --------------------------
(***************************************************************************)
(* The account service implements AccountLedger, for every number of       *)
(* requests and connections, every menu and every initial table.           *)
(*                                                                         *)
(* EffectInv ties the history variable to the handler's state: nothing is  *)
(* written for a request before its statement is executed, the answer to   *)
(* an INSERT names what was written, and an answer once decided on tells   *)
(* the truth about it.                                                     *)
(***************************************************************************)
EXTENDS AccountServiceProof, AccountHistory

Writers == {"register_user", "change_password", "delete_account"}
Refused == {400, 401, 403, 404}

EffectOf(r) ==
    /\ effect[r] # {} =>
         /\ pc[r] \in {"query", "release", "done", "lost"}
         /\ req[r].op \in Writers
         /\ sql[r] = "none" \/ (sql[r] \in Writes /\ result[r].tag # "none")
    /\ sql[r] = "insert" /\ result[r].tag = "unique" => effect[r] = {}
    /\ sql[r] = "insert" /\ result[r].tag = "rows" => effect[r] = Ids(result[r].rows)
    /\ reply[r].status \in Refused => effect[r] = {} /\ reply[r].ids = {}
    /\ reply[r].status = 200 /\ req[r].op = "register_user" =>
         effect[r] # {} /\ reply[r].ids = effect[r]
    /\ reply[r].status = 0 => reply[r] = NoReply

EffectInv ==
    /\ effect \in [Request -> SUBSET UserId]
    /\ \A r \in Request : EffectOf(r)

ServiceInv == BaseInv /\ ResultInv

\* What the invariant of the service says of one request.
LEMMA ServiceFacts ==
    ASSUME ServiceInv, NEW r \in Request
    PROVE  /\ TypeOK /\ FlowInv /\ FlowOf(r) /\ ResultOf(r) /\ ReplyOf(r)
           /\ UniqueKeys /\ HistoryInv
BY Zenon DEF ServiceInv, BaseInv, FlowInv, ResultInv, TableInv

\* A step that does not change the table writes nothing for anybody.
LEMMA NothingWritten ==
    ASSUME EffectInv, HistoryNext, users' = users
    PROVE  effect' = effect
BY Zenon DEF EffectInv, HistoryNext, Takes

\* What EffectOf depends on.
LEMMA EffectFrame ==
    ASSUME NEW s \in Request, EffectOf(s), effect'[s] = effect[s],
           pc'[s] = pc[s] \/ pc'[s] = "lost",
           req'[s] = req[s], sql'[s] = sql[s], result'[s] = result[s], reply'[s] = reply[s]
    PROVE  EffectOf(s)'
BY ZenonT(60) DEF EffectOf

\* What AccountLedger sees of a request.
LEMMA ClientFrame ==
    ASSUME NEW s \in Request, pc'[s] = pc[s], reply'[s] = reply[s]
    PROVE  ClientState(s)' = ClientState(s) /\ ClientAnswer(s)' = ClientAnswer(s)
BY Zenon DEF ClientState, ClientAnswer

\* The steps of the process.
LEMMA LedgerProcess ==
    ASSUME ServiceInv, EffectInv, HistoryNext,
           \/ lifespan_connected \/ lifespan_unconnected \/ ShutdownSignal
           \/ lifespan_close \/ Restart \/ Crash \/ UNCHANGED vars
    PROVE  EffectInv' /\ [Ledger!Next]_(Ledger!vars)
<1>1. /\ UNCHANGED <<users, history, req, sql, result, reply>>
      /\ \/ pc' = pc
         \/ pc' = [r \in Request |-> IF Running(r) THEN "lost" ELSE pc[r]]
  BY Zenon DEF lifespan_connected, lifespan_unconnected, ShutdownSignal, lifespan_close,
         Restart, Crash, vars, dbVars
<1>2. effect' = effect
  BY Zenon, <1>1, NothingWritten
<1>3. EffectInv'
  BY Zenon, <1>1, <1>2, EffectFrame DEF EffectInv
<1>4. CASE pc' = pc
  <2>1. /\ [r \in Request |-> ClientState(r)]' = [r \in Request |-> ClientState(r)]
        /\ [r \in Request |-> ClientAnswer(r)]' = [r \in Request |-> ClientAnswer(r)]
    BY Zenon, <1>1, <1>4, ClientFrame
  <2> QED BY Zenon, <1>1, <1>2, <1>3, <2>1 DEF Ledger!vars
<1>5. CASE pc' = [r \in Request |-> IF Running(r) THEN "lost" ELSE pc[r]]
  <2>1. \A r \in Request :
           /\ ClientState(r)' = IF ClientState(r) = "open" THEN "lost" ELSE ClientState(r)
           /\ ClientAnswer(r)' = ClientAnswer(r)
    BY Zenon, <1>1, <1>5 DEF ClientState, ClientAnswer, Running, TypeOK, ServiceInv, BaseInv
  <2>2. Ledger!Lose
    BY Zenon, <1>1, <1>2, <2>1 DEF Ledger!Lose
  <2> QED BY Zenon, <1>3, <2>2 DEF Ledger!Next
<1> QED BY Zenon, <1>1, <1>4, <1>5

\* An action of r that leaves the table alone disturbs the invariant only at r.
LEMMA EffectOthers ==
    ASSUME EffectInv, HistoryNext, users' = users, NEW r \in Request,
           \A s \in Request : s # r =>
               /\ pc'[s] = pc[s] /\ req'[s] = req[s] /\ sql'[s] = sql[s]
               /\ result'[s] = result[s] /\ reply'[s] = reply[s],
           EffectOf(r)'
    PROVE  EffectInv'
<1>1. effect' = effect
  BY Zenon, NothingWritten
<1>2. \A s \in Request : s # r => EffectOf(s)'
  BY Zenon, <1>1, EffectFrame DEF EffectInv
<1> QED BY Zenon, <1>1, <1>2 DEF EffectInv

\* What a client sees of an action of r.
LEMMA ClientOthers ==
    ASSUME NEW r \in Request,
           \A s \in Request : s # r => pc'[s] = pc[s] /\ reply'[s] = reply[s]
    PROVE  /\ [s \in Request |-> ClientState(s)]'
                = [[s \in Request |-> ClientState(s)] EXCEPT ![r] = ClientState(r)']
           /\ [s \in Request |-> ClientAnswer(s)]'
                = [[s \in Request |-> ClientAnswer(s)] EXCEPT ![r] = ClientAnswer(r)']
<1>1. \A s \in Request : s # r =>
         ClientState(s)' = ClientState(s) /\ ClientAnswer(s)' = ClientAnswer(s)
  BY Zenon, ClientFrame
<1> QED BY Zenon, <1>1

\* The arrival of a request.
LEMMA LedgerAccept ==
    ASSUME ServiceInv, EffectInv, HistoryNext, NEW r \in Request, Accept(r)
    PROVE  EffectInv' /\ [Ledger!Next]_(Ledger!vars)
<1>0. TypeOK /\ FlowOf(r) /\ EffectOf(r) /\ pc[r] = "new"
  BY Zenon, ServiceFacts DEF EffectInv, Accept
<1>1. PICK q \in Menu :
         /\ req' = [req EXCEPT ![r] = q]
         /\ \/ /\ EarlyStatus(q) # 0
               /\ reply' = [reply EXCEPT ![r] = Answer(EarlyStatus(q), {})]
               /\ pc' = [pc EXCEPT ![r] = "done"]
            \/ /\ EarlyStatus(q) = 0 /\ ~pool
               /\ reply' = [reply EXCEPT ![r] = Answer(500, {})]
               /\ pc' = [pc EXCEPT ![r] = "done"]
            \/ /\ EarlyStatus(q) = 0 /\ pool
               /\ pc' = [pc EXCEPT ![r] = "acquire"]
               /\ UNCHANGED reply
  BY Zenon DEF Accept
<1>2. /\ UNCHANGED <<users, history, sql, result>>
      /\ reply[r] = NoReply /\ effect[r] = {} /\ sql[r] = "none"
  BY Zenon, <1>0 DEF Accept, FlowOf, EffectOf, dbVars
<1>3. effect' = effect
  BY Zenon, <1>2, NothingWritten
<1>4. /\ EarlyStatus(q) \in {0, 200, 400, 401, 500}
      /\ EarlyStatus(q) = 200 => q.op \in {"logout_user", "root"}
  BY SMTT(60), MenuType DEF EarlyStatus, Query, Op
<1>5. \A s \in Request : s # r =>
         /\ pc'[s] = pc[s] /\ req'[s] = req[s] /\ sql'[s] = sql[s]
         /\ result'[s] = result[s] /\ reply'[s] = reply[s]
  BY Zenon, <1>0, <1>1, <1>2 DEF TypeOK
<1>6. req'[r] = q
  BY Zenon, <1>0, <1>1 DEF TypeOK
<1>7. CASE pc' = [pc EXCEPT ![r] = "done"]
  <2>1. PICK st \in {200, 400, 401, 500} :
           /\ reply' = [reply EXCEPT ![r] = Answer(st, {})]
           /\ st = 200 => q.op \in {"logout_user", "root"}
    BY SMTT(60), <1>0, <1>1, <1>4, <1>7 DEF TypeOK
  <2>2. reply'[r] = Answer(st, {}) /\ pc'[r] = "done"
    BY SMTT(60), <1>0, <1>7, <2>1 DEF TypeOK
  <2>3. EffectOf(r)'
    BY SMTT(60), <1>2, <1>3, <1>6, <2>1, <2>2 DEF EffectOf, Answer, Refused
  <2>4. EffectInv'
    BY Zenon, <1>2, <1>5, <2>3, EffectOthers
  <2>5. /\ ClientState(r) = "new" /\ ClientState(r)' = "answered"
        /\ ClientAnswer(r)' = [status |-> st, ids |-> {}]
    BY ZenonT(60), <1>0, <2>2 DEF ClientState, ClientAnswer, Answer
  <2>6. Ledger!Allowed(q, {}, users, [status |-> st, ids |-> {}])
    BY SMTT(60), <2>1 DEF Ledger!Allowed, Ledger!Refusals
  <2>7. /\ [s \in Request |-> ClientState(s)]'
             = [[s \in Request |-> ClientState(s)] EXCEPT ![r] = "answered"]
        /\ [s \in Request |-> ClientAnswer(s)]'
             = [[s \in Request |-> ClientAnswer(s)] EXCEPT ![r] = [status |-> st, ids |-> {}]]
    BY ZenonT(60), <1>5, <2>5, ClientOthers
  <2>8. [s \in Request |-> ClientAnswer(s)]'[r] = [status |-> st, ids |-> {}]
    BY SMTT(60), <2>7
  <2>9. [s \in Request |-> ClientAnswer(s)]' \in
            {[[s \in Request |-> ClientAnswer(s)] EXCEPT ![r] = [status |-> n, ids |-> {}]]
               : n \in Ledger!Refusals \cup {200, 500}}
    <3>1. st \in Ledger!Refusals \cup {200, 500}
      BY SMTT(60) DEF Ledger!Refusals
    <3> QED BY ZenonT(60), <2>7, <3>1
  <2>10. Ledger!Allowed(req'[r], {}, users, [s \in Request |-> ClientAnswer(s)]'[r])
    BY Zenon, <1>6, <2>6, <2>8
  <2>11. [s \in Request |-> ClientState(s)][r] = "new"
    BY ZenonT(60), <2>5
  <2>12. Ledger!AnswerAtOnce(r)
    BY ZenonT(60), <1>1, <1>2, <1>3, <2>7, <2>9, <2>10, <2>11 DEF Ledger!AnswerAtOnce
  <2> QED BY ZenonT(60), <2>4, <2>12 DEF Ledger!Next
<1>8. CASE pc' = [pc EXCEPT ![r] = "acquire"] /\ UNCHANGED reply
  <2>1. pc'[r] = "acquire"
    BY Zenon, <1>0, <1>8 DEF TypeOK
  <2>2. EffectOf(r)'
    BY SMTT(60), <1>2, <1>3, <1>8, <2>1 DEF EffectOf, NoReply, Answer, Refused
  <2>3. EffectInv'
    BY Zenon, <1>2, <1>5, <2>2, EffectOthers
  <2>4. /\ ClientState(r) = "new" /\ ClientState(r)' = "open"
        /\ ClientAnswer(r)' = ClientAnswer(r)
    BY Zenon, <1>0, <2>1 DEF ClientState, ClientAnswer
  <2>5. Ledger!Receive(r)
    BY Zenon, <1>1, <1>2, <1>3, <1>5, <2>4, ClientOthers DEF Ledger!Receive
  <2> QED BY Zenon, <2>3, <2>5 DEF Ledger!Next
<1> QED BY ZenonT(60), <1>1, <1>7, <1>8

\* What a handler has decided on is an answer the ledger allows.
LEMMA DecidedIsAllowed ==
    ASSUME ServiceInv, EffectInv, NEW r \in Request, reply[r] # NoReply
    PROVE  Ledger!Allowed(req[r], effect[r], users, reply[r])
<1>1. TypeOK /\ EffectOf(r) /\ ReplyOf(r)
  BY Zenon, ServiceFacts DEF EffectInv
<1>2. reply[r].status \in {200, 500} \cup Refused
  BY SMTT(60), <1>1 DEF TypeOK, Status, EffectOf, Refused
<1>3. CASE reply[r].status = 200
  <2>1. req[r].op = "delete_account" => req[r].user_id \notin Ledger!Ids(users)
    BY Zenon, <1>1, <1>3 DEF ReplyOf, Gone, Ids, Ledger!Ids
  <2> QED BY Zenon, <1>1, <1>3, <2>1 DEF EffectOf, Writers, Ledger!Allowed
<1>4. CASE reply[r].status \in Refused
  BY ZenonT(60), <1>1, <1>4 DEF EffectOf, Refused, Ledger!Allowed, Ledger!Refusals
<1>5. CASE reply[r].status = 500
  BY Zenon, <1>5 DEF Ledger!Allowed
<1> QED BY ZenonT(60), <1>2, <1>3, <1>4, <1>5

\* An answer goes out.
LEMMA LedgerAnswers ==
    ASSUME NEW r \in Request, ClientState(r) = "open",
           NEW a \in [status : Status \ {0}, ids : SUBSET UserId],
           Ledger!Allowed(req[r], effect[r], users, a),
           pc'[r] = "done", reply'[r] = a,
           \A s \in Request : s # r => pc'[s] = pc[s] /\ reply'[s] = reply[s],
           UNCHANGED <<users, history, req, effect>>
    PROVE  Ledger!AnswerLater(r)
<1>1. ClientState(r)' = "answered" /\ ClientAnswer(r)' = a
  BY Zenon DEF ClientState, ClientAnswer
<1>2. /\ [s \in Request |-> ClientState(s)]'
           = [[s \in Request |-> ClientState(s)] EXCEPT ![r] = "answered"]
      /\ [s \in Request |-> ClientAnswer(s)]'
           = [[s \in Request |-> ClientAnswer(s)] EXCEPT ![r] = a]
  BY Zenon, <1>1, ClientOthers
<1>3. /\ a = [status |-> a.status, ids |-> a.ids]
      /\ a.status \in Ledger!Refusals \cup {200, 500} /\ a.ids \in SUBSET UserId
  BY Zenon DEF Status, Ledger!Refusals
<1>4. [s \in Request |-> ClientState(s)][r] = "open"
  OBVIOUS
<1>5. \E n \in Ledger!Refusals \cup {200, 500}, S \in SUBSET UserId :
         /\ [s \in Request |-> ClientAnswer(s)]'
              = [[s \in Request |-> ClientAnswer(s)] EXCEPT ![r] = [status |-> n, ids |-> S]]
         /\ Ledger!Allowed(req[r], effect[r], users, [status |-> n, ids |-> S])
  <2>1. PICK n \in Ledger!Refusals \cup {200, 500}, S \in SUBSET UserId :
           a = [status |-> n, ids |-> S]
    BY SMTT(60), <1>3
  <2>2. /\ [s \in Request |-> ClientAnswer(s)]'
             = [[s \in Request |-> ClientAnswer(s)] EXCEPT ![r] = [status |-> n, ids |-> S]]
        /\ Ledger!Allowed(req[r], effect[r], users, [status |-> n, ids |-> S])
    BY SMTT(60), <1>2, <2>1
  <2> QED BY ZenonT(60), <2>2
<1> QED BY ZenonT(60), <1>2, <1>4, <1>5 DEF Ledger!AnswerLater

\* A step in which the client of r sees nothing is a stutter of the ledger.
LEMMA LedgerQuiet ==
    ASSUME TypeOK, TypeOK', NEW r \in Request, Running(r), Running(r)',
           \A s \in Request : s # r => pc'[s] = pc[s] /\ reply'[s] = reply[s],
           UNCHANGED <<users, history, req, effect>>
    PROVE  UNCHANGED Ledger!vars
<1>1. ClientState(r)' = ClientState(r) /\ ClientAnswer(r)' = ClientAnswer(r)
  BY Zenon DEF ClientState, ClientAnswer, Running
<1>2. \A s \in Request : ClientState(s)' = ClientState(s) /\ ClientAnswer(s)' = ClientAnswer(s)
  BY Zenon, <1>1, ClientFrame
<1>3. /\ [s \in Request |-> ClientState(s)]' = [s \in Request |-> ClientState(s)]
      /\ [s \in Request |-> ClientAnswer(s)]' = [s \in Request |-> ClientAnswer(s)]
  BY Zenon, <1>2
<1> QED BY Zenon, <1>3 DEF Ledger!vars

\* Acquiring and releasing a connection.
LEMMA LedgerPool ==
    ASSUME ServiceInv, EffectInv, HistoryNext, NEW r \in Request,
           Acquire(r) \/ AcquireFails(r) \/ Release(r) \/ ReleaseFails(r)
    PROVE  EffectInv' /\ [Ledger!Next]_(Ledger!vars)
<1>0. /\ TypeOK /\ FlowInv /\ FlowOf(r) /\ EffectOf(r)
      /\ pc \in [Request -> {"new", "acquire", "reacquire", "query", "release", "done", "lost"}]
      /\ UNCHANGED <<users, history, req, result>>
  BY Zenon, ServiceFacts
     DEF EffectInv, Acquire, AcquireFails, Release, ReleaseFails, dbVars, TypeOK
<1>1. effect' = effect /\ TypeOK'
  BY Zenon, <1>0, NothingWritten, FlowStep DEF HistoryNext
<1>2. \A s \in Request : s # r =>
         /\ pc'[s] = pc[s] /\ req'[s] = req[s] /\ sql'[s] = sql[s]
         /\ result'[s] = result[s] /\ reply'[s] = reply[s]
  BY SMTT(60), <1>0 DEF Acquire, AcquireFails, Release, ReleaseFails, dbVars, TypeOK
<1>3. CASE Acquire(r)
  <2>1. pc[r] \in {"acquire", "reacquire"} /\ pc'[r] = "query" /\ reply' = reply
    BY Zenon, <1>0, <1>3 DEF Acquire
  <2>2. sql'[r] \notin {"insert"} /\ effect[r] = {} /\ reply[r] = NoReply
    BY Zenon, <1>0, <1>3, <2>1, FirstStatementFact DEF Acquire, EffectOf, FlowOf, TypeOK
  <2>3. EffectOf(r)'
    BY ZenonT(60), <1>0, <1>1, <2>1, <2>2 DEF EffectOf, NoReply, Answer, Refused
  <2>4. Running(r) /\ Running(r)'
    BY Zenon, <2>1 DEF Running
  <2> QED BY Zenon, <1>0, <1>1, <1>2, <2>3, <2>4, EffectOthers, LedgerQuiet
<1>4. CASE AcquireFails(r) \/ ReleaseFails(r)
  <2>1. /\ pc[r] \in {"acquire", "reacquire", "release"} /\ pc'[r] = "done"
        /\ reply'[r] = Answer(500, {}) /\ sql' = sql
    BY SMTT(60), <1>0, <1>4 DEF AcquireFails, ReleaseFails, TypeOK
  <2>2. sql[r] = "none"
    <3>1. sql[r] # "none" => pc[r] \in {"query", "lost"}
      BY Zenon, <1>0 DEF FlowOf
    <3> QED
      BY Zenon, <2>1, <3>1
  <2>3. EffectOf(r)'
    BY SMTT(60), <1>0, <1>1, <2>1, <2>2 DEF EffectOf, Answer, Refused
  <2>4. /\ Answer(500, {}) \in [status : Status \ {0}, ids : SUBSET UserId]
        /\ Ledger!Allowed(req[r], effect[r], users, Answer(500, {}))
        /\ ClientState(r) = "open"
    BY SMTT(60), <2>1 DEF Answer, Status, Ledger!Allowed, ClientState
  <2>5. Ledger!AnswerLater(r)
    BY SMTT(60), <1>0, <1>1, <1>2, <2>1, <2>4, LedgerAnswers
  <2> QED BY Zenon, <1>0, <1>2, <2>3, <2>5, EffectOthers DEF Ledger!Next
<1>5. CASE Release(r)
  <2>1. /\ pc[r] = "release" /\ UNCHANGED <<reply, sql>>
        /\ pc'[r] = IF reply[r] = NoReply THEN "reacquire" ELSE "done"
    BY Zenon, <1>0, <1>5 DEF Release
  <2>2. CASE reply[r] = NoReply
    <3>1. effect[r] = {}
      BY Zenon, <1>0, <2>1, <2>2 DEF FlowOf, EffectOf, Writers
    <3>2. EffectOf(r)'
      BY ZenonT(60), <1>0, <1>1, <2>1, <2>2, <3>1 DEF EffectOf
    <3>3. Running(r) /\ Running(r)'
      BY ZenonT(60), <2>1, <2>2 DEF Running
    <3> QED BY Zenon, <1>0, <1>1, <1>2, <3>2, <3>3, EffectOthers, LedgerQuiet
  <2>3. CASE reply[r] # NoReply
    <3>1. EffectOf(r)'
      BY ZenonT(60), <1>0, <1>1, <2>1, <2>3 DEF EffectOf
    <3>2. ClientState(r) = "open" /\ pc'[r] = "done"
      BY Zenon, <2>1, <2>3 DEF ClientState
    <3>3. reply[r] \in [status : Status \ {0}, ids : SUBSET UserId]
      BY ZenonT(60), <1>0, <2>3 DEF TypeOK, EffectOf
    <3>4. Ledger!AnswerLater(r)
      BY ZenonT(60), <1>0, <1>1, <1>2, <2>1, <2>3, <3>2, <3>3, DecidedIsAllowed, LedgerAnswers
    <3> QED BY Zenon, <1>0, <1>2, <3>1, <3>4, EffectOthers DEF Ledger!Next
  <2> QED BY Zenon, <2>2, <2>3
<1> QED BY Zenon, <1>3, <1>4, <1>5

\* A handler decides on an answer.
LEMMA RespondEffect ==
    ASSUME TypeOK, NEW r \in Request, EffectOf(r), effect' = effect, req' = req,
           NEW st \in Status, NEW ids, Respond(r, st, ids),
           st \in Refused => effect[r] = {} /\ ids = {},
           st = 200 /\ req[r].op = "register_user" => effect[r] # {} /\ ids = effect[r],
           st = 0 => ids = {}
    PROVE  EffectOf(r)' /\ Running(r)'
<1>1. /\ reply'[r] = Answer(st, ids) /\ pc'[r] = "release" /\ sql'[r] = "none"
      /\ effect'[r] = effect[r] /\ req'[r] = req[r]
  BY Zenon DEF Respond, TypeOK
<1> QED BY SMTT(60), <1>1 DEF EffectOf, Answer, NoReply, Running

\* A handler that has written nothing sends a further statement.
LEMMA ExecuteEffect ==
    ASSUME TypeOK, NEW r \in Request, EffectOf(r), effect' = effect, req' = req,
           NEW st, Execute(r, st), pc[r] = "query", effect[r] = {}
    PROVE  EffectOf(r)' /\ Running(r)'
<1>1. /\ reply'[r] = reply[r] /\ pc'[r] = "query" /\ result'[r] = NoResult
      /\ effect'[r] = {} /\ req'[r] = req[r]
  BY Zenon DEF Execute, TypeOK
<1> QED BY SMTT(60), <1>1 DEF EffectOf, NoResult, Running

\* What each handler decides on says the truth about what was written for it.
LEMMA HandleEffect ==
    ASSUME ServiceInv, EffectInv, effect' = effect, req' = req, NEW r \in Request, Handle(r)
    PROVE  EffectOf(r)' /\ Running(r)'
<1>0. TypeOK /\ EffectOf(r) /\ ResultOf(r) /\ {0, 200, 400, 403, 404, 500} \subseteq Status
  BY SMTT(60), ServiceFacts DEF EffectInv, Status
<1>1. sql[r] \notin Writes /\ sql[r] # "none" => effect[r] = {}
  BY ZenonT(60), <1>0 DEF EffectOf
<1>2. ASSUME NEW ids, Respond(r, 500, ids) PROVE EffectOf(r)' /\ Running(r)'
  BY SMTT(60), <1>0, <1>2, RespondEffect DEF Refused
<1>3. ASSUME NEW st \in {400, 403, 404}, Respond(r, st, {}), effect[r] = {}
      PROVE  EffectOf(r)' /\ Running(r)'
  BY SMTT(60), <1>0, <1>3, RespondEffect
<1>4. ASSUME NEW ids, Respond(r, 200, ids), req[r].op # "register_user"
      PROVE  EffectOf(r)' /\ Running(r)'
  BY SMTT(60), <1>0, <1>4, RespondEffect DEF Refused
<1>5. ASSUME NEW st, Execute(r, st), pc[r] = "query", effect[r] = {}
      PROVE  EffectOf(r)' /\ Running(r)'
  BY SMTT(60), <1>0, <1>5, ExecuteEffect
<1>6. CASE register_user(r)
  <2>1. CASE Resumes(r, "register_user", "select_email")
    <3>1. effect[r] = {} /\ pc[r] = "query"
      BY Zenon, <1>1, <2>1 DEF Resumes, Writes
    <3>2. Respond(r, 500, {}) \/ Execute(r, "insert")
      BY Zenon, <1>6, <2>1 DEF register_user, Resumes
    <3> QED BY ZenonT(60), <1>2, <1>5, <3>1, <3>2
  <2>2. CASE Resumes(r, "register_user", "insert")
    <3>1. \/ Fetched(r) /\ Respond(r, 200, Ids(result[r].rows))
          \/ Got(r, "unique") /\ Respond(r, 400, {})
          \/ Respond(r, 500, {})
      BY ZenonT(60), <1>6, <2>2 DEF register_user, Resumes
    <3>2. CASE Fetched(r) /\ Respond(r, 200, Ids(result[r].rows))
      <4>1. effect[r] = Ids(result[r].rows) /\ effect[r] # {}
        BY SMTT(60), <1>0, <2>2, <3>2 DEF EffectOf, Resumes, Fetched, Got, Ids
      <4> QED BY SMTT(60), <1>0, <3>2, <4>1, RespondEffect DEF Refused
    <3>3. CASE Got(r, "unique") /\ Respond(r, 400, {})
      BY SMTT(60), <1>0, <1>3, <2>2, <3>3 DEF EffectOf, Resumes, Got
    <3> QED BY ZenonT(60), <1>2, <3>1, <3>2, <3>3
  <2> QED BY Zenon, <1>6, <2>1, <2>2 DEF register_user
<1>7. CASE login_user(r)
  <2>1. /\ effect[r] = {} /\ req[r].op # "register_user"
        /\ \/ Respond(r, 400, {}) \/ Respond(r, 500, {})
           \/ Respond(r, 200, Ids(result[r].rows))
    BY ZenonT(60), <1>1, <1>7 DEF login_user, Resumes, Writes
  <2> QED BY SMTT(60), <1>2, <1>3, <1>4, <2>1
<1>8. CASE get_user_info(r)
  <2>1. /\ effect[r] = {} /\ req[r].op # "register_user"
        /\ \/ Respond(r, 404, {}) \/ Respond(r, 500, {})
           \/ Respond(r, 200, Ids(result[r].rows))
    BY ZenonT(60), <1>1, <1>8 DEF get_user_info, Resumes, Writes
  <2> QED BY SMTT(60), <1>2, <1>3, <1>4, <2>1
<1>9. CASE change_password(r)
  <2>1. CASE Resumes(r, "change_password", "select_id")
    <3>1. /\ effect[r] = {} /\ pc[r] = "query"
          /\ \/ \E st \in {400, 404} : Respond(r, st, {})
             \/ Respond(r, 500, {}) \/ Execute(r, "update")
      BY SMTT(60), <1>1, <1>9, <2>1 DEF change_password, Resumes, Writes
    <3> QED BY SMTT(60), <1>2, <1>3, <1>5, <3>1
  <2>2. CASE Resumes(r, "change_password", "update")
    <3>1. req[r].op # "register_user" /\ (Respond(r, 200, {}) \/ Respond(r, 500, {}))
      BY Zenon, <1>9, <2>2 DEF change_password, Resumes
    <3> QED BY SMTT(60), <1>2, <1>4, <3>1
  <2> QED BY Zenon, <1>9, <2>1, <2>2 DEF change_password
<1>10. CASE delete_account(r)
  <2>1. CASE Resumes(r, "delete_account", "select_id")
    <3>1. /\ effect[r] = {} /\ pc[r] = "query"
          /\ Respond(r, 404, {}) \/ Respond(r, 500, {}) \/ Execute(r, "delete")
      BY Zenon, <1>1, <1>10, <2>1 DEF delete_account, Resumes, Writes
    <3> QED BY SMTT(60), <1>2, <1>3, <1>5, <3>1
  <2>2. CASE Resumes(r, "delete_account", "delete")
    <3>1. req[r].op # "register_user" /\ (Respond(r, 200, {}) \/ Respond(r, 500, {}))
      BY ZenonT(60), <1>10, <2>2 DEF delete_account, Resumes
    <3> QED BY SMTT(60), <1>2, <1>4, <3>1
  <2> QED BY Zenon, <1>10, <2>1, <2>2 DEF delete_account
<1>11. CASE admin_only(r)
  <2>1. /\ effect[r] = {}
        /\ \/ \E st \in {403, 404} : Respond(r, st, {})
           \/ Respond(r, 0, {}) \/ Respond(r, 500, {})
    BY SMTT(60), <1>1, <1>11 DEF admin_only, Resumes, Writes
  <2>2. CASE Respond(r, 0, {})
    BY SMTT(60), <1>0, <2>2, RespondEffect DEF Refused
  <2> QED BY SMTT(60), <1>2, <1>3, <2>1, <2>2
<1>12. CASE list_all_users(r)
  <2>1. /\ req[r].op # "register_user"
        /\ Respond(r, 200, Ids(result[r].rows)) \/ Respond(r, 500, {})
    BY ZenonT(60), <1>12 DEF list_all_users, Resumes
  <2> QED BY SMTT(60), <1>2, <1>4, <2>1
<1>13. CASE get_model_accuracy(r)
  <2>1. req[r].op # "register_user" /\ (Respond(r, 200, {}) \/ Respond(r, 500, {}))
    BY ZenonT(60), <1>13 DEF get_model_accuracy, Resumes
  <2> QED BY SMTT(60), <1>2, <1>4, <2>1
<1> QED BY Zenon, <1>6, <1>7, <1>8, <1>9, <1>10, <1>11, <1>12, <1>13 DEF Handle

\* The steps of the handlers: the client sees nothing of them.
LEMMA LedgerHandle ==
    ASSUME ServiceInv, EffectInv, HistoryNext, NEW r \in Request, Handle(r)
    PROVE  EffectInv' /\ [Ledger!Next]_(Ledger!vars)
<1>0. TypeOK /\ FlowInv
  BY Zenon DEF ServiceInv, BaseInv
<1>1. pc[r] = "query" /\ handlerFrame
  BY Zenon, <1>0, HandleCases
<1>2. UNCHANGED <<users, history, req>>
  BY Zenon, <1>1 DEF handlerFrame, dbVars
<1>3. effect' = effect /\ TypeOK'
  BY ZenonT(60), <1>0, <1>2, NothingWritten, FlowStep DEF HistoryNext
<1>4. EffectOf(r)' /\ Running(r)' /\ Running(r)
  BY ZenonT(60), <1>1, <1>2, <1>3, HandleEffect DEF Running
<1>5. \A s \in Request : s # r =>
         /\ pc'[s] = pc[s] /\ req'[s] = req[s] /\ sql'[s] = sql[s]
         /\ result'[s] = result[s] /\ reply'[s] = reply[s]
  BY SMTT(60), <1>0, <1>2, HandleCases DEF Respond, Execute, TypeOK
<1> QED BY Zenon, <1>0, <1>2, <1>3, <1>4, <1>5, EffectOthers, LedgerQuiet

\* The answer to a statement that changes no row.
LEMMA EffectQuietDb ==
    ASSUME ServiceInv, EffectInv, HistoryNext, NEW r \in Request,
           DbExecute(r) \/ DbRefuse(r), users' = users,
           sql[r] = "insert" => Reads(r)
    PROVE  EffectInv'
<1>1. /\ TypeOK /\ EffectOf(r) /\ FlowOf(r)
      /\ UNCHANGED <<req, pc, sql, reply>>
      /\ sql[r] # "none" /\ result[r].tag = "none"
  BY Zenon, ServiceFacts, DbCases DEF EffectInv, DbExecute, DbRefuse, Pending
<1>2. effect' = effect /\ effect[r] = {} /\ reply[r] = NoReply
  BY Zenon, <1>1, NothingWritten DEF EffectOf, FlowOf
<1>3. \A s \in Request : s # r => result'[s] = result[s]
  BY Zenon, <1>1, DbCases DEF Inserts, Updates, Deletes, Reads, TypeOK
<1>4. sql[r] = "insert" => result'[r].tag # "rows"
  <2>1. ASSUME sql[r] = "insert" PROVE result'[r].tag # "rows"
    <3>1. result' \in {[result EXCEPT ![r] = DbError], [result EXCEPT ![r] = UniqueViolation]}
      BY Zenon, <2>1 DEF Reads
    <3>2. result'[r] \in {DbError, UniqueViolation}
      BY ZenonT(60), <1>1, <3>1 DEF TypeOK
    <3> QED BY SMTT(60), <3>2 DEF DbError, UniqueViolation
  <2> QED BY Zenon, <2>1
<1>5. EffectOf(r)'
  BY ZenonT(60), <1>1, <1>2, <1>4 DEF EffectOf, NoReply, Answer, Refused
<1> QED BY Zenon, <1>1, <1>3, <1>5, EffectOthers

\* The answer to a statement that changed the table for r.
LEMMA EffectTaken ==
    ASSUME ServiceInv, EffectInv, NEW r \in Request, NEW i \in UserId,
           UNCHANGED <<req, pc, sql, reply>>,
           sql[r] \in Writes, result[r].tag = "none", result'[r].tag # "none",
           sql[r] = "insert" => /\ result'[r].tag # "unique"
                                /\ result'[r].tag = "rows" => Ids(result'[r].rows) = {i},
           \A s \in Request : s # r => result'[s] = result[s],
           effect' = [effect EXCEPT ![r] = {i}]
    PROVE  EffectInv'
<1>1. TypeOK /\ FlowOf(r) /\ effect \in [Request -> SUBSET UserId] /\ \A s \in Request : EffectOf(s)
  BY Zenon, ServiceFacts DEF EffectInv
<1>2. effect'[r] = {i} /\ effect' \in [Request -> SUBSET UserId]
  BY Zenon, <1>1
<1>3. /\ reply[r] = NoReply /\ pc[r] \in {"query", "lost"} /\ req[r].op \in Writers
  BY Zenon, <1>1 DEF FlowOf, Writes, Writers, Sends
<1>4. EffectOf(r)'
  BY SMTT(60), <1>2, <1>3 DEF EffectOf, NoReply, Answer, Refused
<1>5. \A s \in Request : s # r => EffectOf(s)'
  BY Zenon, <1>1, EffectFrame
<1> QED BY Zenon, <1>2, <1>4, <1>5 DEF EffectInv

\* In such a step nothing is written for anybody else.
LEMMA WrittenFor ==
    ASSUME EffectInv, HistoryNext, NEW r \in Request, users' # users,
           sql[r] \in Writes, Pending(r), result'[r].tag # "none",
           \A s \in Request : s # r => result'[s] = result[s]
    PROVE  effect' = [effect EXCEPT ![r] = Written(r)]
<1>1. \A s \in Request : Takes(s) <=> s = r
  BY Zenon DEF Takes, Pending
<1> QED BY Zenon, <1>1 DEF HistoryNext, EffectInv

\* The client sees nothing of what the database does.
LEMMA ClientDb ==
    ASSUME UNCHANGED <<pc, reply>>
    PROVE  /\ [s \in Request |-> ClientState(s)]' = [s \in Request |-> ClientState(s)]
           /\ [s \in Request |-> ClientAnswer(s)]' = [s \in Request |-> ClientAnswer(s)]
BY Zenon DEF ClientState, ClientAnswer

\* The statements of the ledger are those of the service.
LEMMA SameStatements ==
    ASSUME NEW T, NEW i, NEW e, NEW p, NEW st
    PROVE  /\ Ledger!Ids(T) = Ids(T) /\ Ledger!Emails(T) = Emails(T)
           /\ Ledger!NewRow(i, e, st) = NewRow(i, e, st) /\ Ledger!hashpw(p) = hashpw(p)
           /\ Ledger!Updated(T, i, st) = Updated(T, i, st)
           /\ Ledger!Deleted(T, i) = Deleted(T, i)
BY Zenon DEF Ids, Emails, NewRow, hashpw, Updated, Deleted, ById, Ledger!Ids, Ledger!Emails,
       Ledger!NewRow, Ledger!hashpw, Ledger!Updated, Ledger!Deleted, Ledger!ById

\* What a statement that changes the table is sent for.
LEMMA WriteFacts ==
    ASSUME ServiceInv, EffectInv, NEW r \in Request, sql[r] \in Writes, Pending(r)
    PROVE  /\ effect[r] = {} /\ ClientState(r) \in {"open", "lost"}
           /\ sql[r] = "insert" => req[r].op = "register_user"
           /\ sql[r] = "update" => req[r].op = "change_password" /\ Authorised(r)
           /\ sql[r] = "delete" => req[r].op = "delete_account"
           /\ TypeOK /\ users \subseteq User /\ users \subseteq history
<1>1. TypeOK /\ FlowOf(r) /\ ResultOf(r) /\ HistoryInv /\ EffectOf(r)
  BY Zenon, ServiceFacts DEF EffectInv
<1>2. pc[r] \in {"query", "lost"} /\ Sends(req[r].op, sql[r]) /\ effect[r] = {}
  BY Zenon, <1>1 DEF FlowOf, EffectOf, Writes, Pending
<1> QED BY Zenon, <1>1, <1>2 DEF Sends, ResultOf, ClientState, TypeOK, HistoryInv

\* An INSERT is the ledger's new row.
LEMMA LedgerInserts ==
    ASSUME ServiceInv, EffectInv, HistoryNext, NEW r \in Request, NEW i \in UserId,
           Inserts(r, i), UNCHANGED <<req, pc, sql, reply>>
    PROVE  EffectInv' /\ Ledger!Apply(r)
<1>1. /\ sql[r] = "insert" /\ sql[r] \in Writes /\ Pending(r)
      /\ i \notin Ids(history) /\ req[r].email \notin Emails(users)
      /\ users' = users \cup {RowFor(r, i)} /\ history' = history \cup {RowFor(r, i)}
  BY Zenon DEF Inserts, Writes, Pending, ViolatesUnique
<1>2. /\ effect[r] = {} /\ ClientState(r) \in {"open", "lost"} /\ req[r].op = "register_user"
      /\ TypeOK /\ users \subseteq User /\ users \subseteq history
  BY ZenonT(60), <1>1, WriteFacts
<1>3. /\ result'[r] \in {Rows({RowFor(r, i)}), DbError}
      /\ \A s \in Request : s # r => result'[s] = result[s]
  BY Zenon, <1>2 DEF Inserts, TypeOK
<1>4. RowFor(r, i).user_id = i
  BY Zenon DEF RowFor, NewRow
<1>5. /\ i \notin Ids(users) /\ Ids(users') \ Ids(users) = {i} /\ users' # users
  BY ZenonT(60), <1>1, <1>2, <1>4 DEF Ids
<1>6. /\ result'[r].tag \in {"rows", "error"}
      /\ result'[r].tag = "rows" => Ids(result'[r].rows) = {i}
  BY SMTT(60), <1>3, <1>4 DEF Rows, DbError, Ids
<1>7. effect' = [effect EXCEPT ![r] = {i}]
  BY Zenon, <1>1, <1>3, <1>5, <1>6, WrittenFor DEF Written
<1>8. EffectInv'
  BY ZenonT(60), <1>1, <1>3, <1>6, <1>7, EffectTaken DEF Pending
<1>9. /\ req[r].email \notin Ledger!Emails(users) /\ i \in UserId \ Ledger!Ids(history)
      /\ users' = users \cup {Ledger!NewRow(i, req[r].email, Ledger!hashpw(req[r].password))}
  BY SMTT(60), <1>1, SameStatements DEF RowFor
<1>10. history' = history \cup users'
  BY Zenon, <1>1, <1>2
<1>11. [s \in Request |-> ClientState(s)][r] \in {"open", "lost"}
  BY Zenon, <1>2
<1>12. Ledger!Apply(r)
  BY Zenon, <1>2, <1>7, <1>9, <1>10, <1>11, ClientDb DEF Ledger!Apply
<1> QED BY Zenon, <1>8, <1>12

\* An UPDATE that meets a row is the ledger's new password.
LEMMA LedgerUpdates ==
    ASSUME ServiceInv, EffectInv, HistoryNext, NEW r \in Request,
           Updates(r), users' # users, UNCHANGED <<req, pc, sql, reply>>
    PROVE  EffectInv' /\ Ledger!Apply(r)
<1>1. /\ sql[r] = "update" /\ sql[r] \in Writes /\ Pending(r)
      /\ users' = Updated(users, req[r].user_id, hashpw(req[r].new))
      /\ history' = history \cup users'
  BY Zenon DEF Updates, Writes, Pending
<1>2. /\ effect[r] = {} /\ ClientState(r) \in {"open", "lost"} /\ req[r].op = "change_password"
      /\ Authorised(r) /\ TypeOK /\ users \subseteq User
  BY ZenonT(60), <1>1, WriteFacts
<1>3. /\ result'[r].tag \in {"rows", "error"}
      /\ \A s \in Request : s # r => result'[s] = result[s]
  BY SMTT(60), <1>2 DEF Updates, TypeOK, Rows, DbError
<1>4. req[r].user_id \in Ids(users)
  BY Zenon, <1>1 DEF Updated, ById, Ids
<1>5. req[r].user_id \in UserId
  BY Zenon, <1>2, <1>4 DEF Ids, User
<1>6. effect' = [effect EXCEPT ![r] = {req[r].user_id}]
  BY Zenon, <1>1, <1>3, WrittenFor DEF Written
<1>7. EffectInv'
  BY Zenon, <1>1, <1>3, <1>5, <1>6, EffectTaken DEF Pending
<1>8. /\ req[r].user_id \in Ledger!Ids(users)
      /\ users' = Ledger!Updated(users, req[r].user_id, Ledger!hashpw(req[r].new))
  BY Zenon, <1>1, <1>4, SameStatements
<1>9. \E h \in history : /\ h.user_id = req[r].user_id
                         /\ \/ req[r].password = h.password.text
                            \/ h.password = [scheme |-> "raw", text |-> HashedPwd]
  BY Zenon, <1>2 DEF Authorised, Opens
<1>10. [s \in Request |-> ClientState(s)][r] \in {"open", "lost"}
  BY Zenon, <1>2
<1>11. Ledger!Apply(r)
  BY ZenonT(60), <1>1, <1>2, <1>6, <1>8, <1>9, <1>10, ClientDb DEF Ledger!Apply
<1> QED BY Zenon, <1>7, <1>11

\* A DELETE that meets a row is the ledger's end of an account.
LEMMA LedgerDeletes ==
    ASSUME ServiceInv, EffectInv, HistoryNext, NEW r \in Request,
           Deletes(r), users' # users, UNCHANGED <<req, pc, sql, reply>>
    PROVE  EffectInv' /\ Ledger!Apply(r)
<1>1. /\ sql[r] = "delete" /\ sql[r] \in Writes /\ Pending(r)
      /\ users' = Deleted(users, req[r].user_id) /\ history' = history
  BY Zenon DEF Deletes, Writes, Pending
<1>2. /\ effect[r] = {} /\ ClientState(r) \in {"open", "lost"} /\ req[r].op = "delete_account"
      /\ TypeOK /\ users \subseteq User /\ users \subseteq history
  BY ZenonT(60), <1>1, WriteFacts
<1>3. /\ result'[r].tag \in {"rows", "error"}
      /\ \A s \in Request : s # r => result'[s] = result[s]
  BY SMTT(60), <1>2 DEF Deletes, TypeOK, Rows, DbError
<1>4. req[r].user_id \in Ids(users)
  BY Zenon, <1>1 DEF Deleted, Ids
<1>5. req[r].user_id \in UserId
  BY Zenon, <1>2, <1>4 DEF Ids, User
<1>6. effect' = [effect EXCEPT ![r] = {req[r].user_id}]
  BY Zenon, <1>1, <1>3, WrittenFor DEF Written
<1>7. EffectInv'
  BY Zenon, <1>1, <1>3, <1>5, <1>6, EffectTaken DEF Pending
<1>8. /\ req[r].user_id \in Ledger!Ids(users)
      /\ users' = Ledger!Deleted(users, req[r].user_id)
  BY Zenon, <1>1, <1>4, SameStatements
<1>9. history' = history \cup users'
  BY Zenon, <1>1, <1>2 DEF Deleted
<1>10. [s \in Request |-> ClientState(s)][r] \in {"open", "lost"}
  BY Zenon, <1>2
<1>11. Ledger!Apply(r)
  BY Zenon, <1>1, <1>2, <1>6, <1>8, <1>9, <1>10, ClientDb DEF Ledger!Apply
<1> QED BY Zenon, <1>7, <1>11

\* The steps of the database.
LEMMA LedgerDb ==
    ASSUME ServiceInv, EffectInv, HistoryNext, NEW r \in Request, DbExecute(r) \/ DbRefuse(r)
    PROVE  EffectInv' /\ [Ledger!Next]_(Ledger!vars)
<1>1. /\ UNCHANGED <<req, pc, sql, reply>>
      /\ \/ \E i \in UserId : Inserts(r, i)
         \/ Updates(r) \/ Deletes(r) \/ Reads(r)
  BY Zenon, DbCases
<1>2. CASE \E i \in UserId : Inserts(r, i)
  BY ZenonT(60), <1>1, <1>2, LedgerInserts DEF Ledger!Next
<1>3. CASE (Updates(r) \/ Deletes(r)) /\ users' # users
  BY ZenonT(60), <1>1, <1>3, LedgerUpdates, LedgerDeletes DEF Ledger!Next
<1>4. CASE (Updates(r) \/ Deletes(r) \/ Reads(r)) /\ users' = users
  <2>1. sql[r] = "insert" => Reads(r)
    BY Zenon, <1>4 DEF Updates, Deletes
  <2>2. EffectInv' /\ effect' = effect
    BY Zenon, <1>4, <2>1, EffectQuietDb, NothingWritten
  <2>3. users \subseteq history
    BY Zenon, ServiceFacts DEF HistoryInv
  <2>4. history' = history
    BY Zenon, <1>4, <2>3 DEF Updates, Deletes, Reads
  <2>5. UNCHANGED Ledger!vars
    BY ZenonT(60), <1>1, <1>4, <2>2, <2>4, ClientDb DEF Ledger!vars
  <2> QED BY Zenon, <2>2, <2>5
<1> QED BY ZenonT(60), <1>1, <1>2, <1>3, <1>4 DEF Reads

\* Every step of the service is a step of the ledger, or none.
LEMMA LedgerStep ==
    ASSUME ServiceInv, EffectInv, [HistoryNext]_historyVars
    PROVE  EffectInv' /\ [Ledger!Next]_(Ledger!vars)
<1>1. CASE HistoryNext
  <2>1. Next
    BY Zenon, <1>1 DEF HistoryNext
  <2> QED BY ZenonT(60), <1>1, <2>1, LedgerProcess, LedgerAccept, LedgerPool, LedgerHandle, LedgerDb
          DEF Next, Terminated
<1>2. CASE UNCHANGED historyVars
  <2>1. UNCHANGED <<users, history, req, pc, sql, result, reply, effect>>
    BY Zenon, <1>2 DEF historyVars, vars
  <2>2. EffectInv'
    BY Zenon, <2>1, EffectFrame DEF EffectInv
  <2>3. UNCHANGED Ledger!vars
    BY Zenon, <2>1, ClientDb DEF Ledger!vars
  <2> QED BY Zenon, <2>2, <2>3
<1> QED BY Zenon, <1>1, <1>2

\* So it is at the start.
LEMMA LedgerStart == HistoryInit => Init /\ EffectInv /\ Ledger!Init
<1> SUFFICES ASSUME HistoryInit PROVE Init /\ EffectInv /\ Ledger!Init
  OBVIOUS
<1>1. Init /\ effect = [r \in Request |-> {}]
  BY Zenon DEF HistoryInit
<1>2. EffectInv
  BY SMTT(60), <1>1 DEF Init, EffectInv, EffectOf, NoReply, Answer, Refused
<1>3. /\ [r \in Request |-> ClientState(r)] = [r \in Request |-> "new"]
      /\ [r \in Request |-> ClientAnswer(r)] = [r \in Request |-> Ledger!NoAnswer]
  BY Zenon, <1>1 DEF Init, ClientState, ClientAnswer, NoReply, Answer, Ledger!NoAnswer
<1>4. Ledger!Init
  BY Zenon, <1>1, <1>3 DEF Init, Ledger!Init
<1> QED BY ZenonT(60), <1>1, <1>2, <1>4

\* The handlers of main.py implement the ledger for any number of concurrent
\* requests, any pool, lost answers, crashes and restarts: every request
\* changes the table at most once and before its answer, and the status of the
\* answer tells the truth about it.
THEOREM ServiceImplementsLedger == HistorySpec => ImplementsLedger
<1>1. HistoryInit => Init /\ EffectInv /\ Ledger!Init
  BY Zenon, LedgerStart
<1>2. [HistoryNext]_historyVars => [Next]_vars
  BY Zenon DEF HistoryNext, historyVars
<1>3. Spec => []ServiceInv
  BY Zenon, ResultAlways DEF ServiceInv
<1>4. ServiceInv /\ EffectInv /\ [HistoryNext]_historyVars
        => EffectInv' /\ [Ledger!Next]_(Ledger!vars)
  BY Zenon, LedgerStep
<1> QED BY <1>1, <1>2, <1>3, <1>4, PTL DEF HistorySpec, Spec, ImplementsLedger, Ledger!Spec
=============================================================================
