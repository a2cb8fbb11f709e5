---------------------------- MODULE AccountHistory ----------------------------
(***************************************************************************)
(* AccountService with one history variable, and the mapping under which   *)
(* it implements AccountLedger.  The variable is needed because the answer *)
(* to a statement can be lost: the state of a handler that got an error    *)
(* does not tell whether its statement was executed.                       *)
(***************************************************************************)
EXTENDS AccountProperties

VARIABLE effect   \* the identifiers of the rows written for each request

historyVars == <<vars, effect>>

Writes == {"insert", "update", "delete"}

\* The identifier of the row that the statement of r writes in this step.
Written(r) ==
    IF sql[r] = "insert" THEN Ids(users') \ Ids(users) ELSE {req[r].user_id}

HistoryInit == Init /\ effect = [r \in Request |-> {}]

\* The statement of r is executed in this step and changes the table.
Takes(r) ==
    /\ users' /= users
    /\ sql[r] \in Writes /\ Pending(r) /\ result'[r].tag /= "none"

HistoryNext ==
    /\ Next
    /\ effect' = [r \in Request |-> IF Takes(r) THEN Written(r) ELSE effect[r]]

HistorySpec == HistoryInit /\ [][HistoryNext]_historyVars

\* What a client knows of a request.
ClientState(r) ==
    CASE pc[r] = "new"  -> "new"
      [] pc[r] = "done" -> "answered"
      [] pc[r] = "lost" -> "lost"
      [] OTHER          -> "open"

ClientAnswer(r) == IF pc[r] = "done" THEN reply[r] ELSE NoReply

Ledger == INSTANCE AccountLedger WITH
    ask    <- req,
    state  <- [r \in Request |-> ClientState(r)],
    answer <- [r \in Request |-> ClientAnswer(r)]

\* The handlers of main.py implement the ledger: whatever is interleaved, lost,
\* refused or crashed between their statements, each request changes the table
\* at most once and before its answer, and the status of the answer is true.
ImplementsLedger == Ledger!Spec
=============================================================================
