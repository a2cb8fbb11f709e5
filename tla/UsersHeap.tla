------------------------------- MODULE UsersHeap -------------------------------
(***************************************************************************)
(* How the PostgreSQL 16 of src/dataset/ runs the statements of main.py on *)
(* the table "users": row versions in a heap, the two unique indexes       *)
(* (user_id and email), transactions that end in several steps, and        *)
(* backends that wait for one another.  Every statement is a transaction   *)
(* of its own at READ COMMITTED, as asyncpg sends it.                      *)
(* One action is what a backend does while it holds one buffer lock or one *)
(* lock-manager call.  Hint bits are left out: they cache the final state  *)
(* of a transaction.  So are vacuum and pruning, multixacts and savepoints *)
(* (no statement of main.py needs them).                                   *)
(***************************************************************************)
EXTENDS UsersTable, Naturals, Sequences

CONSTANTS
    Xact,        \* the transactions, one statement each
    NoXid,       \* InvalidTransactionId as xmax, FrozenTransactionId as xmin
    Workload,    \* the statements they may run: functions from Xact
    InitialRows  \* a sequence: the rows committed before

Statement ==
    [op : {"insert"}, email : Email, password : Stored]
      \cup [op : {"update"}, user_id : UserId, password : Stored]
      \cup [op : {"delete", "select_id"}, user_id : UserId]
      \cup [op : {"select_email"}, email : Email]

ASSUME UsersHeapAssumption ==
    /\ NoXid \notin Xact
    /\ Xact \subseteq UserId      \* gen_random_uuid() never repeats a value
    /\ Workload \subseteq [Xact -> Statement]
    /\ InitialRows \in Seq(User)
    /\ \A s, t \in DOMAIN InitialRows :      \* PRIMARY KEY, UNIQUE
          s # t => /\ InitialRows[s].user_id # InitialRows[t].user_id
                   /\ InitialRows[s].email # InitialRows[t].email
    /\ \A t \in DOMAIN InitialRows : InitialRows[t].user_id \notin Xact
    /\ UserId \cap Email = {}    \* index holds the entries of both indexes

VARIABLES
    stmt,     \* the statement of each transaction
    heap,     \* the versions; a tuple identifier (tid) is a position
    index,    \* the entries <<key, tid>> of both unique indexes
    proc,     \* PGPROC.xid: "none" (not assigned), "running", "ended"
    clog,     \* pg_xact: "none", "committed", "aborted"
    xlock,    \* the transactions that hold the lock on their own xid
    tuplock,  \* the heavyweight tuple locks held: <<tid, transaction>>
    tx        \* the local state of each backend

vars == <<stmt, heap, index, proc, clog, xlock, tuplock, tx>>

Tid == 1 .. Len(heap)
Version(t, row, xmin, only) ==
    [row |-> row, xmin |-> xmin, xmax |-> NoXid, lockonly |-> FALSE,
     ctid |-> t, heap_only |-> only]
Keys(row) == <<row.user_id, row.email>>

-----------------------------------------------------------------------------
(* Transaction status and tuple visibility. *)

TransactionIdIsInProgress(y) == y # NoXid /\ proc[y] = "running"
TransactionIdDidCommit(y) == y = NoXid \/ clog[y] = "committed"

\* The transactions a snapshot taken now treats as in progress: those in the
\* procarray and those whose xid is still to come.
GetSnapshotData == {y \in Xact : proc[y] # "ended"}

\* HeapTupleSatisfiesMVCC, for a command that has written nothing yet.
HeapTupleSatisfiesMVCC(v, snap) ==
    /\ v.xmin \notin snap
    /\ TransactionIdDidCommit(v.xmin)
    /\ \/ v.xmax = NoXid
       \/ v.lockonly
       \/ v.xmax \in snap
       \/ ~TransactionIdDidCommit(v.xmax)

HeapTupleSatisfiesUpdate(t, x) ==
    LET v == heap[t]
    IN  IF TransactionIdIsInProgress(v.xmin) \/ ~TransactionIdDidCommit(v.xmin)
        THEN "invisible"
        ELSE IF v.xmax = NoXid THEN "ok"
        ELSE IF TransactionIdIsInProgress(v.xmax) THEN "being_modified"
        ELSE IF ~TransactionIdDidCommit(v.xmax) \/ v.lockonly THEN "ok"
        ELSE IF v.ctid # t THEN "updated"
        ELSE "deleted"

\* Mutant of HeapTupleSatisfiesDirty: another's open insertion is overlooked.
HeapTupleSatisfiesDirty_closed(v, x) ==
    /\ v.xmin = x \/ TransactionIdDidCommit(v.xmin)
    /\ \/ v.xmax = NoXid
       \/ v.lockonly
       \/ v.xmax # x /\ (TransactionIdIsInProgress(v.xmax) \/ ~TransactionIdDidCommit(v.xmax))

\* HeapTupleSatisfiesDirty: open transactions count; DirtyWait is the xmin or
\* the xmax in progress that it reports, NoXid if none.
HeapTupleSatisfiesDirty(v, x) ==
    /\ v.xmin = x \/ TransactionIdIsInProgress(v.xmin) \/ TransactionIdDidCommit(v.xmin)
    /\ \/ v.xmax = NoXid
       \/ v.lockonly
       \/ v.xmax # x /\ (TransactionIdIsInProgress(v.xmax) \/ ~TransactionIdDidCommit(v.xmax))

DirtyWait(v, x) ==
    IF v.xmin # x /\ TransactionIdIsInProgress(v.xmin) THEN v.xmin
    ELSE IF v.xmax # x /\ TransactionIdIsInProgress(v.xmax) /\ ~v.lockonly THEN v.xmax
    ELSE NoXid

\* heap_hot_search_buffer: the tuples of heap h an index entry for tid t stands
\* for, the least set with t that holds the heap-only successor of its members.
HotLink(h, s, r) ==
    /\ h[s].ctid = r /\ r # s
    /\ h[r].heap_only
    /\ h[r].xmin = h[s].xmax

HotClosed(h, C) == \A s \in C : \A r \in DOMAIN h : HotLink(h, s, r) => r \in C

HotChain(h, t) ==
    {s \in DOMAIN h : \A C \in SUBSET DOMAIN h : t \in C /\ HotClosed(h, C) => s \in C}

IndexScan(key) == UNION {HotChain(heap, e[2]) : e \in {f \in index : f[1] = key}}

-----------------------------------------------------------------------------
(* The statement begins, and finds its row. *)

Idle == [pc |-> "start", back |-> "modify", wait |-> NoXid, tid |-> 0, prior |-> NoXid,
         keys |-> <<>>, snap |-> {}, rows |-> {}, err |-> "none"]
Local(x, r) == tx' = [tx EXCEPT ![x] = r]
Goto(x, where) == Local(x, [tx[x] EXCEPT !.pc = where])
At(x, where) == tx[x].pc = where
Fail(x, err) == Local(x, [tx[x] EXCEPT !.pc = "abort", !.err = err, !.rows = {}])

\* The tuple locks once x has given its own back.
Unlocked(x) == {l \in tuplock : l[2] # x}

\* exec_simple_query / exec_execute_message: a snapshot, then the executor.
Begin(x) ==
    /\ At(x, "start")
    /\ IF stmt[x].op = "insert" THEN Goto(x, "xid")
       ELSE Local(x, [tx[x] EXCEPT !.pc = "scan", !.snap = GetSnapshotData])
    /\ UNCHANGED <<stmt, heap, index, proc, clog, xlock, tuplock>>

\* Mutant of Scan: the scan uses a dirty snapshot.
Scan_dirty(x) ==
    LET found == {t \in IndexScan(stmt[x].user_id) : HeapTupleSatisfiesDirty(heap[t], x)}
    IN  /\ At(x, "scan")
        /\ stmt[x].op \in {"update", "delete"}
        /\ \E t \in found : Local(x, [tx[x] EXCEPT !.pc = "xid", !.tid = t, !.snap = {}])
        /\ UNCHANGED <<stmt, heap, index, proc, clog, xlock, tuplock>>

\* The index scan under the snapshot.  What it finds does not depend on when
\* it runs: later index entries belong to versions the snapshot cannot see.
Scan(x) ==
    LET key == IF stmt[x].op = "select_email" THEN stmt[x].email ELSE stmt[x].user_id
        found == {t \in IndexScan(key) : HeapTupleSatisfiesMVCC(heap[t], tx[x].snap)}
    IN  /\ At(x, "scan")
        /\ \/ /\ stmt[x].op \in {"update", "delete"}
              /\ \E t \in found : Local(x, [tx[x] EXCEPT !.pc = "xid", !.tid = t, !.snap = {}])
           \/ /\ stmt[x].op \in {"select_id", "select_email"} \/ found = {}
              /\ Local(x, [tx[x] EXCEPT !.pc = "commit", !.snap = {},
                                        !.rows = {heap[t].row : t \in found}])
        /\ UNCHANGED <<stmt, heap, index, proc, clog, xlock, tuplock>>

\* GetCurrentTransactionId of heap_insert, heap_update and heap_delete.
AssignTransactionId(x) ==
    /\ At(x, "xid")
    /\ proc' = [proc EXCEPT ![x] = "running"]
    /\ xlock' = xlock \cup {x}
    /\ Goto(x, "modify")
    /\ UNCHANGED <<stmt, heap, index, clog, tuplock>>

-----------------------------------------------------------------------------
(* Waiting. *)

\* heap_update, heap_delete or heap_lock_tuple met a running xmax: it copies
\* the xid, lets the buffer go, and queues for the tuple lock if it has none.
Sleep(x, back) ==
    /\ HeapTupleSatisfiesUpdate(tx[x].tid, x) = "being_modified"
    /\ heap[tx[x].tid].xmax # x
    /\ Local(x, [tx[x] EXCEPT
                    !.pc = IF <<tx[x].tid, x>> \in tuplock THEN "xactwait" ELSE "tuplock",
                    !.back = back, !.wait = heap[tx[x].tid].xmax])
    /\ UNCHANGED <<heap, tuplock>>

heap_acquire_tuplock(x) ==
    /\ At(x, "tuplock")
    /\ \A y \in Xact : <<tx[x].tid, y>> \notin tuplock
    /\ tuplock' = tuplock \cup {<<tx[x].tid, x>>}
    /\ Goto(x, "xactwait")
    /\ UNCHANGED <<stmt, heap, index, proc, clog, xlock>>

\* Mutant of XactLockTableWait: only a commit wakes the sleeper.
XactLockTableWait_committed(x) ==
    /\ At(x, "xactwait")
    /\ tx[x].wait \notin xlock /\ TransactionIdDidCommit(tx[x].wait)
    /\ Local(x, [tx[x] EXCEPT !.pc = tx[x].back, !.wait = NoXid])
    /\ UNCHANGED <<stmt, heap, index, proc, clog, xlock, tuplock>>

\* The caller then looks at the tuple again: an xmax that changed, aborted or
\* only locked, and one that updated or deleted, are told apart there.
XactLockTableWait(x) ==
    /\ At(x, "xactwait")
    /\ tx[x].wait \notin xlock
    /\ ~TransactionIdIsInProgress(tx[x].wait)
    /\ Local(x, [tx[x] EXCEPT !.pc = tx[x].back, !.wait = NoXid])
    /\ UNCHANGED <<stmt, heap, index, proc, clog, xlock, tuplock>>

-----------------------------------------------------------------------------
(* Changing the heap.  The branches that raise an internal error (the tuple
   is invisible, the update chain is broken) are no actions: NoInternalError
   of UsersHeapHistory says that they are never taken. *)

heap_insert(x) ==
    LET row == NewRow(x, stmt[x].email, stmt[x].password)
        new == Len(heap) + 1
    IN  /\ At(x, "modify")
        /\ stmt[x].op = "insert"
        /\ heap' = Append(heap, Version(new, row, x, FALSE))
        /\ Local(x, [tx[x] EXCEPT !.pc = "index", !.tid = new,
                                  !.keys = Keys(row), !.rows = {row}])
        /\ UNCHANGED <<stmt, index, proc, clog, xlock, tuplock>>

\* The tuple may be written: nobody else holds it, or it is our own lock.
Writable(x) ==
    \/ HeapTupleSatisfiesUpdate(tx[x].tid, x) = "ok"
    \/ HeapTupleSatisfiesUpdate(tx[x].tid, x) = "being_modified" /\ heap[tx[x].tid].xmax = x

Stamped(v, x, lockonly, ctid) == [v EXCEPT !.xmax = x, !.lockonly = lockonly, !.ctid = ctid]

\* A statement whose row is gone ends with no row.
NoRow(x) == Local(x, [tx[x] EXCEPT !.pc = "commit", !.rows = {}])

\* A password is no indexed column, so the update is heap-only if the page
\* has room.
PutUpdate(x, hot) ==
    LET t == tx[x].tid
        new == Len(heap) + 1
        row == [heap[t].row EXCEPT !.password = stmt[x].password]
    IN  /\ heap' = Append([heap EXCEPT ![t] = Stamped(@, x, FALSE, new)],
                          Version(new, row, x, hot))
        /\ tuplock' = Unlocked(x)
        /\ Local(x, [tx[x] EXCEPT !.pc = IF hot THEN "commit" ELSE "index", !.tid = new,
                                  !.keys = IF hot THEN <<>> ELSE Keys(row), !.rows = {row}])

\* The page is full: the old tuple is only locked while another page is
\* fetched, and heap_update goes on as the owner of that lock.
LockForPage(x) ==
    /\ heap[tx[x].tid].xmax # x
    /\ heap' = [heap EXCEPT ![tx[x].tid] = Stamped(@, x, TRUE, tx[x].tid)]
    /\ UNCHANGED <<tuplock, tx>>

PutDelete(x) ==
    LET t == tx[x].tid
    IN  /\ heap' = [heap EXCEPT ![t] = Stamped(@, x, FALSE, t)]
        /\ tuplock' = Unlocked(x)
        /\ Local(x, [tx[x] EXCEPT !.pc = "commit", !.rows = {heap[t].row}])

\* Mutant of Gone: a row that was updated meanwhile is given up.
Gone_updated(x) ==
    /\ HeapTupleSatisfiesUpdate(tx[x].tid, x) \in {"updated", "deleted"}
    /\ NoRow(x)
    /\ tuplock' = Unlocked(x)
    /\ UNCHANGED heap

\* TM_Updated: ExecUpdate and ExecDelete go and lock the last version.
\* TM_Deleted: they return no row.
Gone(x) ==
    /\ tuplock' = Unlocked(x)
    /\ \/ HeapTupleSatisfiesUpdate(tx[x].tid, x) = "updated" /\ Goto(x, "lock")
       \/ HeapTupleSatisfiesUpdate(tx[x].tid, x) = "deleted" /\ NoRow(x)
    /\ UNCHANGED heap

heap_update(x) ==
    /\ At(x, "modify")
    /\ stmt[x].op = "update"
    /\ \/ Writable(x) /\ \E hot \in BOOLEAN : PutUpdate(x, hot)
       \/ Writable(x) /\ LockForPage(x)
       \/ Sleep(x, "modify")
       \/ Gone(x)
    /\ UNCHANGED <<stmt, index, proc, clog, xlock>>

heap_delete(x) ==
    /\ At(x, "modify")
    /\ stmt[x].op = "delete"
    /\ \/ Writable(x) /\ PutDelete(x)
       \/ Sleep(x, "modify")
       \/ Gone(x)
    /\ UNCHANGED <<stmt, index, proc, clog, xlock>>

-----------------------------------------------------------------------------
(* The row was updated by a transaction that committed meanwhile. *)

\* On to the next version: tid = t_ctid, priorXmax = the updater.
FollowChain(x) ==
    Local(x, [tx[x] EXCEPT !.pc = "fetch", !.tid = heap[tx[x].tid].ctid,
                           !.prior = heap[tx[x].tid].xmax])

\* heap_lock_tuple, and on success EvalPlanQual: the WHERE clause again.
heap_lock_tuple(x) ==
    LET t == tx[x].tid
        result == HeapTupleSatisfiesUpdate(t, x)
    IN  /\ At(x, "lock")
        /\ \/ /\ Writable(x)
              /\ heap' = [heap EXCEPT ![t] = Stamped(@, x, TRUE, t)]
              /\ tuplock' = Unlocked(x)
              /\ Goto(x, IF heap[t].row.user_id = stmt[x].user_id THEN "modify" ELSE "commit")
           \/ Sleep(x, "lock")
           \/ /\ result = "updated"
              /\ tuplock' = Unlocked(x)
              /\ FollowChain(x)
              /\ UNCHANGED heap
           \/ result = "deleted" /\ tuplock' = Unlocked(x) /\ NoRow(x) /\ UNCHANGED heap
        /\ UNCHANGED <<stmt, index, proc, clog, xlock>>

\* The loop of heapam_tuple_lock that looks for the last version.
heapam_tuple_lock(x) ==
    LET v == heap[tx[x].tid]
        dirty == HeapTupleSatisfiesDirty(v, x)
        xwait == DirtyWait(v, x)
    IN  /\ At(x, "fetch")
        /\ \/ dirty /\ xwait = NoXid /\ Goto(x, "lock")
           \/ /\ dirty /\ xwait # NoXid
              /\ Local(x, [tx[x] EXCEPT !.pc = "xactwait", !.back = "fetch", !.wait = xwait])
           \/ ~dirty /\ v.ctid = tx[x].tid /\ NoRow(x)
           \/ ~dirty /\ v.ctid # tx[x].tid /\ FollowChain(x)
        /\ UNCHANGED <<stmt, heap, index, proc, clog, xlock, tuplock>>

-----------------------------------------------------------------------------
(* The unique indexes. *)

\* _bt_check_unique: the live tuples with this key, one for each entry.  The
\* leaf page stays locked, so no entry with the key appears meanwhile.
Duplicates(key, x) ==
    LET live(t) == {s \in HotChain(heap, t) : HeapTupleSatisfiesDirty(heap[s], x)}
        first(t) == CHOOSE s \in live(t) : \A r \in live(t) : s <= r
    IN  {first(e[2]) : e \in {f \in index : f[1] = key /\ live(f[2]) # {}}}

\* One index after the other; the check and the insertion are under one lock.
bt_doinsert(x) ==
    LET key == Head(tx[x].keys)
        rest == Tail(tx[x].keys)
        dups == Duplicates(key, x)
    IN  /\ At(x, "index")
        /\ \/ /\ dups = {}
              /\ index' = index \cup {<<key, tx[x].tid>>}
              /\ Local(x, [tx[x] EXCEPT !.pc = IF rest = <<>> THEN "commit" ELSE "index",
                                        !.keys = rest])
           \/ \E t \in dups :
                /\ IF DirtyWait(heap[t], x) # NoXid
                   THEN Local(x, [tx[x] EXCEPT !.pc = "xactwait", !.back = "index",
                                              !.wait = DirtyWait(heap[t], x)])
                   ELSE Fail(x, "unique")
                /\ UNCHANGED index
        /\ UNCHANGED <<stmt, heap, proc, clog, xlock, tuplock>>

-----------------------------------------------------------------------------
(* The end of a transaction. *)

\* The backend forgets all but the answer.
Answered(x) ==
    Local(x, [Idle EXCEPT !.pc = "done", !.rows = tx[x].rows, !.err = tx[x].err])

\* CommitTransaction and AbortTransaction of a transaction without an xid.
EndWithoutXid(x) ==
    /\ At(x, "commit") \/ At(x, "abort")
    /\ proc[x] = "none"
    /\ Answered(x)
    /\ UNCHANGED <<stmt, heap, index, proc, clog, xlock, tuplock>>

RecordTransactionEnd(x) ==
    /\ At(x, "commit") \/ At(x, "abort")
    /\ proc[x] = "running"
    /\ clog' = [clog EXCEPT ![x] = IF At(x, "commit") THEN "committed" ELSE "aborted"]
    /\ Goto(x, "recorded")
    /\ UNCHANGED <<stmt, heap, index, proc, xlock, tuplock>>

ProcArrayEndTransaction(x) ==
    /\ At(x, "recorded")
    /\ proc' = [proc EXCEPT ![x] = "ended"]
    /\ Goto(x, "release")
    /\ UNCHANGED <<stmt, heap, index, clog, xlock, tuplock>>

\* Mutant of ResourceOwnerRelease: the lock on the own xid stays.
ResourceOwnerRelease_tuples(x) ==
    /\ At(x, "release")
    /\ tuplock' = Unlocked(x)
    /\ Answered(x)
    /\ UNCHANGED <<stmt, heap, index, proc, clog, xlock>>

ResourceOwnerRelease(x) ==
    /\ At(x, "release")
    /\ xlock' = xlock \ {x}
    /\ tuplock' = Unlocked(x)
    /\ Answered(x)
    /\ UNCHANGED <<stmt, heap, index, proc, clog>>

\* CHECK_FOR_INTERRUPTS finds a cancel request or a timeout: in the executor
\* (ExecModifyTable asks again after the row it changed) and in the sleep for
\* a lock.  Extending an index can fail too.
ProcessInterrupts(x) ==
    /\ tx[x].pc \in {"scan", "tuplock", "xactwait", "index", "commit"}
    /\ Fail(x, "cancel")
    /\ UNCHANGED <<stmt, heap, index, proc, clog, xlock, tuplock>>

-----------------------------------------------------------------------------
Init ==
    /\ stmt \in Workload
    /\ heap = [t \in 1 .. Len(InitialRows) |-> Version(t, InitialRows[t], NoXid, FALSE)]
    /\ index = UNION {{<<InitialRows[t].user_id, t>>, <<InitialRows[t].email, t>>}
                        : t \in 1 .. Len(InitialRows)}
    /\ proc = [x \in Xact |-> "none"]
    /\ clog = [x \in Xact |-> "none"]
    /\ xlock = {}
    /\ tuplock = {}
    /\ tx = [x \in Xact |-> Idle]

\* What a backend does by itself once the statement has arrived.
Step(x) ==
    \/ Scan(x) \/ AssignTransactionId(x)
    \/ heap_acquire_tuplock(x) \/ XactLockTableWait(x)
    \/ heap_insert(x) \/ heap_update(x) \/ heap_delete(x)
    \/ heap_lock_tuple(x) \/ heapam_tuple_lock(x)
    \/ bt_doinsert(x)
    \/ EndWithoutXid(x) \/ RecordTransactionEnd(x)
    \/ ProcArrayEndTransaction(x) \/ ResourceOwnerRelease(x)

Next == \E x \in Xact : Begin(x) \/ Step(x) \/ ProcessInterrupts(x)

Spec == Init /\ [][Next]_vars

\* The operating system schedules every backend; nothing obliges a client to
\* send a statement or to cancel one.
Fairness == \A x \in Xact : WF_vars(Step(x))
FairSpec == Spec /\ Fairness
=============================================================================
