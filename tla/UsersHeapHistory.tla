--------------------------- MODULE UsersHeapHistory ---------------------------
(***************************************************************************)
(* UsersHeap with a history variable, its properties, and the mapping that *)
(* shows it implements AtomicStatements.                                   *)
(***************************************************************************)
EXTENDS UsersHeap

VARIABLE seen   \* the answers that would be right about some instant so far

\* The table "users" as a statement that began now would see it.
Live == {t \in Tid : HeapTupleSatisfiesMVCC(heap[t], GetSnapshotData)}
Rows == {heap[t].row : t \in Live}

\* A statement with an effect is applied when it leaves the procarray.
Phase(x) ==
    CASE At(x, "start") -> "idle"
      [] At(x, "done")  -> "answered"
      [] At(x, "release") /\ clog[x] = "committed" /\ tx[x].rows # {} -> "applied"
      [] OTHER          -> "open"

Reported(x) ==
    IF At(x, "done") THEN [err |-> tx[x].err, rows |-> tx[x].rows]
    ELSE [err |-> "pending", rows |-> {}]

Atomic == INSTANCE AtomicStatements WITH
    users <- Rows,
    phase <- [x \in Xact |-> Phase(x)],
    answer <- [x \in Xact |-> Reported(x)]

HistoryInit == Init /\ seen = [x \in Xact |-> {}]

\* Each statement that is open notes what the table says now.
Noted(x) ==
    CASE Phase(x)' = "applied" /\ Phase(x) = "open" -> {Atomic!AnswerOf(x, stmt[x], Rows)}
      [] Phase(x)' = "open"                         -> seen[x] \cup Atomic!Right(x, Rows)'
      [] OTHER                                      -> seen[x]

HistoryNext == Next /\ seen' = [x \in Xact |-> Noted(x)]

historyVars == <<vars, seen>>
HistorySpec == HistoryInit /\ [][HistoryNext]_historyVars /\ Fairness

-----------------------------------------------------------------------------
Xid == Xact \cup {NoXid}

HeapTuple ==
    [row : User, xmin : Xid, xmax : Xid, lockonly : BOOLEAN, ctid : Nat, heap_only : BOOLEAN]

Backend ==
    [pc : {"start", "scan", "xid", "modify", "tuplock", "xactwait", "lock", "fetch",
           "index", "commit", "abort", "recorded", "release", "done"},
     back : {"modify", "lock", "fetch", "index"},
     wait : Xid, tid : 0 .. Len(heap), prior : Xid, keys : Seq(UserId \cup Email),
     snap : SUBSET Xact, rows : SUBSET User, err : {"none", "unique", "cancel"}]

TypeOK ==
    /\ stmt \in Workload
    /\ heap \in Seq(HeapTuple)
    /\ \A t \in Tid : heap[t].ctid \in t .. Len(heap)
    /\ index \subseteq (UserId \cup Email) \X Tid
    /\ proc \in [Xact -> {"none", "running", "ended"}]
    /\ clog \in [Xact -> {"none", "committed", "aborted"}]
    /\ xlock = {x \in Xact : proc[x] = "running" \/ At(x, "release")}
    /\ tuplock \subseteq Tid \X Xact
    /\ tx \in [Xact -> Backend]

\* PRIMARY KEY (user_id) and UNIQUE (email) hold of what any statement sees:
\* no two live versions have one identifier or one address, however the
\* insertions, updates and deletions of the backends interleave
\* (_bt_check_unique with the waits of _bt_doinsert).
UniqueWhenSeen ==
    \A s, t \in Live :
        s # t => /\ heap[s].row.user_id # heap[t].row.user_id
                 /\ heap[s].row.email # heap[t].row.email

\* The errors PostgreSQL calls internal are unreachable: no statement of
\* main.py meets an invisible tuple where it wants to update, delete or lock
\* one, and on the update chain no version of another row, or one whose
\* inserter is still running (heap_update, heap_delete, heap_lock_tuple,
\* heapam_tuple_lock).
NoInternalError ==
    \A x \in Xact :
        LET v == heap[tx[x].tid]
        IN  /\ (At(x, "modify") /\ stmt[x].op # "insert") \/ At(x, "lock")
               => HeapTupleSatisfiesUpdate(tx[x].tid, x) # "invisible"
            /\ At(x, "fetch") => /\ v.xmin = tx[x].prior
                                 /\ ~TransactionIdIsInProgress(v.xmin)

\* Every statement takes effect in one instant, on the newest version of its
\* row, and its answer is right about an instant between its arrival and its
\* end: what DbExecute of AccountService assumes of the database.
StatementsAreAtomic == Atomic!Spec

\* Every statement that has arrived ends: no cycle of backends waits for each
\* other, and nobody waits for a transaction that is over.
EveryStatementEnds == \A x \in Xact : At(x, "scan") \/ At(x, "xid") ~> At(x, "done")
=============================================================================
