--------------------------- MODULE AtomicStatements ---------------------------
(***************************************************************************)
(* What AccountService assumes of the database: a statement takes effect   *)
(* on the table "users" in one instant between its arrival and its answer, *)
(* and the answer is the one that instant calls for.  A statement that     *)
(* changes nothing (a SELECT, no matching row, a refused INSERT) has only  *)
(* to be right about some instant in between.                              *)
(***************************************************************************)
EXTENDS UsersTable

CONSTANT Xact

VARIABLES
    stmt,     \* the statement of each transaction
    users,    \* the table
    phase,    \* "idle", "open", "applied" or "answered"
    seen,     \* the answers that would be right about some instant so far
    answer    \* the answer given; err is "pending" before

vars == <<stmt, users, phase, seen, answer>>

Says(err, rows) == [err |-> err, rows |-> rows]

\* The statement s of x changes nothing in table T.
Quiet(s, T) ==
    CASE s.op = "insert"               -> ViolatesUnique(T, s.email)
      [] s.op \in {"update", "delete"} -> ById(T, s.user_id) = {}
      [] OTHER                         -> TRUE

\* The table after the statement s of x, and the answer.
After(x, s, T) ==
    CASE s.op = "insert" -> T \cup {NewRow(x, s.email, s.password)}
      [] s.op = "update" -> Updated(T, s.user_id, s.password)
      [] s.op = "delete" -> Deleted(T, s.user_id)

AnswerOf(x, s, T) ==
    CASE s.op = "insert" /\ Quiet(s, T)  -> Says("unique", {})
      [] s.op = "insert" /\ ~Quiet(s, T) -> Says("none", {NewRow(x, s.email, s.password)})
      [] s.op = "update"                 -> Says("none", ById(After(x, s, T), s.user_id))
      [] s.op = "select_email"           -> Says("none", ByEmail(T, s.email))
      [] OTHER                           -> Says("none", ById(T, s.user_id))

\* What an instant with table T adds to the right answers of x.
Right(x, T) == IF Quiet(stmt[x], T) THEN {AnswerOf(x, stmt[x], T)} ELSE {}

Begin(x) ==
    /\ phase[x] = "idle"
    /\ phase' = [phase EXCEPT ![x] = "open"]
    /\ seen' = [seen EXCEPT ![x] = Right(x, users)]
    /\ UNCHANGED <<stmt, users, answer>>

Apply(x) ==
    /\ phase[x] = "open"
    /\ ~Quiet(stmt[x], users)
    /\ users' = After(x, stmt[x], users)
    /\ phase' = [phase EXCEPT ![x] = "applied"]
    /\ seen' = [y \in Xact |->
                  CASE y = x             -> {AnswerOf(x, stmt[x], users)}
                    [] phase[y] = "open" /\ y # x -> seen[y] \cup Right(y, users')
                    [] OTHER             -> seen[y]]
    /\ UNCHANGED <<stmt, answer>>

Answer(x) ==
    /\ phase[x] \in {"open", "applied"}
    /\ \/ answer' = [answer EXCEPT ![x] = Says("cancel", {})] /\ phase[x] = "open"
       \/ \E a \in seen[x] : answer' = [answer EXCEPT ![x] = a]
    /\ phase' = [phase EXCEPT ![x] = "answered"]
    /\ UNCHANGED <<stmt, users, seen>>

Init ==
    /\ phase = [x \in Xact |-> "idle"]
    /\ seen = [x \in Xact |-> {}]
    /\ answer = [x \in Xact |-> Says("pending", {})]

Next == \E x \in Xact : Begin(x) \/ Apply(x) \/ Answer(x)

Spec == Init /\ [][Next]_vars
=============================================================================
