---------------------------- MODULE UsersHeapProof ----------------------------
(***************************************************************************)
(* Proofs about UsersHeap, for any number of backends, statements and rows.*)
(***************************************************************************)
EXTENDS UsersHeapHistory, SequenceTheorems, TLAPS

\* Where a backend with local state r is, its sleeps aside.
PlaceOf(r) == IF r.pc \in {"tuplock", "xactwait"} THEN r.back ELSE r.pc
Place(x) == PlaceOf(tx[x])

\* The two ways a transaction can be over.
Settled(y) == y = NoXid \/ (proc[y] = "ended" /\ clog[y] = "committed")
Aborted(y) == y # NoXid /\ proc[y] = "ended" /\ clog[y] = "aborted"

\* The invariant of a backend x whose local state is r.  Its place tells the
\* state of its transaction; a snapshot leaves out only transactions that are
\* over.
PhaseOK(x, r) ==
    /\ PlaceOf(r) \in {"start", "scan", "xid"} => proc[x] = "none"
    /\ PlaceOf(r) \in {"modify", "lock", "fetch", "index", "recorded"} => proc[x] = "running"
    /\ PlaceOf(r) \in {"commit", "abort"} => proc[x] # "ended"
    /\ PlaceOf(r) = "release" => proc[x] = "ended"
    /\ PlaceOf(r) = "done" => proc[x] # "running"
    /\ clog[x] = "none" <=> proc[x] = "none" \/ (proc[x] = "running" /\ PlaceOf(r) # "recorded")
    /\ PlaceOf(r) \in {"scan", "lock", "fetch"} => stmt[x].op # "insert"
    /\ PlaceOf(r) = "scan" => \A y \in Xact \ r.snap : proc[y] = "ended"

\* The keys still to be entered in the indexes.
KeysOK(x, r) ==
    /\ PlaceOf(r) \notin {"index", "abort", "recorded", "release"} => r.keys = <<>>
    /\ PlaceOf(r) = "index" => r.keys # <<>>
    /\ clog[x] = "committed" => r.keys = <<>>

\* x has found the row that it is to update or delete, and not written yet.
Seeks(x, r) ==
    \/ PlaceOf(r) \in {"lock", "fetch"}
    \/ PlaceOf(r) \in {"xid", "modify"} /\ stmt[x].op # "insert"

\* The tuple a backend has in hand: a version that is committed while it seeks,
\* its own version while it enters keys.
TidOK(x, r) ==
    /\ r.pc = "tuplock" => r.tid \in Tid
    /\ Seeks(x, r) => r.tid \in Tid /\ Settled(heap[r.tid].xmin)
    /\ PlaceOf(r) = "fetch" => heap[r.tid].xmin = r.prior
    /\ PlaceOf(r) = "index" =>
          /\ r.tid \in Tid
          /\ heap[r.tid].xmin = x
          /\ \A t \in Tid : heap[t].xmax = x /\ ~heap[t].lockonly => heap[t].ctid = r.tid

LocalOK(x, r) == PhaseOK(x, r) /\ KeysOK(x, r) /\ TidOK(x, r)

BackendInv == \A x \in Xact : LocalOK(x, tx[x])

\* Where a backend may be once it has written a version.
AfterWrite == {"index", "commit", "abort", "recorded", "release", "done"}

Writes(x, t) ==
    heap[t].xmin = x \/ (heap[t].xmax = x /\ ~heap[t].lockonly)

\* A version: who may have written it, and what its ctid leads to.
VersionOf(t) ==
    /\ heap[t].xmax # NoXid => Settled(heap[t].xmin)
    /\ heap[t].ctid # t =>
          /\ heap[t].xmax # NoXid
          /\ ~heap[t].lockonly
          /\ heap[heap[t].ctid].xmin = heap[t].xmax
          /\ heap[heap[t].ctid].row.user_id = heap[t].row.user_id
          /\ heap[heap[t].ctid].row.email = heap[t].row.email
    /\ \A x \in Xact :
          /\ heap[t].xmin = x \/ heap[t].xmax = x => proc[x] # "none"
          /\ Writes(x, t) => Place(x) \in AfterWrite

VersionInv == \A t \in Tid : VersionOf(t)

Covered(k, t) == \E r \in DOMAIN heap : <<k, r>> \in index /\ t \in HotChain(heap, r)

Pending(k, t) ==
    \E x \in Xact : /\ heap[t].xmin = x
                    /\ tx[x].tid = t
                    /\ \E i \in DOMAIN tx[x].keys : tx[x].keys[i] = k

IndexInv ==
    \A t \in Tid : \A k \in {heap[t].row.user_id, heap[t].row.email} :
        Aborted(heap[t].xmin) \/ Covered(k, t) \/ Pending(k, t)

Alive(t) ==
    /\ ~Aborted(heap[t].xmin)
    /\ heap[t].xmax = NoXid \/ heap[t].lockonly \/ ~Settled(heap[t].xmax)

Replacing(s, t) ==
    heap[s].ctid = t /\ heap[s].xmax \in Xact /\ proc[heap[s].xmax] = "running"

UniqueInv ==
    \A k \in UserId \cup Email : \A s, t \in Tid :
        s # t /\ Covered(k, s) /\ Covered(k, t) /\ Alive(s) /\ Alive(t)
          => Replacing(s, t) \/ Replacing(t, s)

-----------------------------------------------------------------------------
(* The heap as a sequence of versions, and the local states. *)

\* Stamping a version changes xmax, lockonly and ctid of that version only.
LEMMA StampProperties ==
    ASSUME NEW S, NEW h \in Seq(S), NEW t \in 1 .. Len(h), NEW v \in S
    PROVE  /\ [h EXCEPT ![t] = v] \in Seq(S)
           /\ Len([h EXCEPT ![t] = v]) = Len(h)
           /\ [h EXCEPT ![t] = v][t] = v
           /\ \A u \in 1 .. Len(h) : u # t => [h EXCEPT ![t] = v][u] = h[u]
BY ExceptSeq, SMTT(60)

\* What Append returns.
LEMMA AppendIs ==
    ASSUME NEW S, NEW h \in Seq(S), NEW v \in S
    PROVE  /\ Append(h, v) \in Seq(S)
           /\ Len(Append(h, v)) = Len(h) + 1
           /\ Append(h, v)[Len(h) + 1] = v
           /\ \A u \in 1 .. Len(h) : Append(h, v)[u] = h[u]
BY SMTT(60)

\* The fields of a heap tuple have their types.
LEMMA TupleTyped ==
    ASSUME TypeOK, NEW t \in Tid
    PROVE  /\ heap[t] \in HeapTuple
           /\ heap[t].row \in User
           /\ heap[t].xmin \in Xid
           /\ heap[t].xmax \in Xid
           /\ heap[t].ctid \in Tid
           /\ heap[t].ctid >= t
<1>1. heap \in Seq(HeapTuple) /\ heap[t].ctid \in t .. Len(heap) /\ t \in 1 .. Len(heap)
  BY Zenon DEF TypeOK, Tid
<1>2. heap[t] \in HeapTuple
  BY <1>1, ElementOfSeq, Zenon
<1>3. heap[t].ctid \in 1 .. Len(heap) /\ heap[t].ctid >= t
  BY <1>1, SMT
<1> QED
  BY <1>2, <1>3, Zenon DEF HeapTuple, Tid

\* A step of x leaves the local states of the others alone.
LEMMA LocalStep ==
    ASSUME TypeOK, NEW x \in Xact, NEW r, Local(x, r)
    PROVE  /\ tx'[x] = r
           /\ \A y \in Xact : y # x => tx'[y] = tx[y]
           /\ \A y \in Xact : y # x => Place(y)' = Place(y)
<1>1. tx \in [Xact -> Backend]
  BY Zenon DEF TypeOK
<1>2. tx' = [tx EXCEPT ![x] = r]
  BY Zenon DEF Local
<1> QED
  BY <1>1, <1>2, Zenon DEF Place, PlaceOf

\* A step of one backend keeps the type of the local states.
LEMMA LocalType ==
    ASSUME TypeOK, NEW x \in Xact, NEW r, Local(x, r), r \in Backend',
           Len(heap) <= Len(heap'), Len(heap') \in Nat
    PROVE  tx' \in [Xact -> Backend']
<1>1. tx \in [Xact -> Backend] /\ Len(heap) \in Nat
  BY SMTT(60) DEF TypeOK
<1>2. tx' = [tx EXCEPT ![x] = r]
  BY Zenon DEF Local
<1>3. \A b \in Backend : b \in Backend'
  <2>1. 0 .. Len(heap) \subseteq 0 .. Len(heap')
    BY <1>1, SMT
  <2> QED
    BY <2>1, ZenonT(60) DEF Backend
<1> QED
  BY <1>1, <1>2, <1>3, Zenon
-----------------------------------------------------------------------------
(* What the visibility tests say. *)

\* HeapTupleSatisfiesUpdate tells the five cases apart.
LEMMA UpdateCases ==
    ASSUME NEW t, NEW x
    PROVE  LET v == heap[t]
               r == HeapTupleSatisfiesUpdate(t, x)
           IN  /\ r = "invisible" <=> \/ TransactionIdIsInProgress(v.xmin)
                                      \/ ~TransactionIdDidCommit(v.xmin)
               /\ r = "ok" => \/ v.xmax = NoXid
                              \/ /\ ~TransactionIdIsInProgress(v.xmax)
                                 /\ ~TransactionIdDidCommit(v.xmax) \/ v.lockonly
               /\ r = "being_modified" => TransactionIdIsInProgress(v.xmax)
               /\ r \in {"updated", "deleted"} =>
                     /\ v.xmax # NoXid
                     /\ ~TransactionIdIsInProgress(v.xmax)
                     /\ TransactionIdDidCommit(v.xmax)
                     /\ ~v.lockonly
               /\ r = "updated" => v.ctid # t
               /\ r = "deleted" => v.ctid = t
BY ZenonT(60) DEF HeapTupleSatisfiesUpdate

\* A transaction with an xid that runs no more has either committed or aborted.
LEMMA StatusKnown ==
    ASSUME TypeOK, BackendInv, NEW y \in Xid, y # NoXid => proc[y] # "none"
    PROVE  /\ TransactionIdIsInProgress(y) <=> y \in Xact /\ proc[y] = "running"
           /\ ~TransactionIdIsInProgress(y) => /\ TransactionIdDidCommit(y) <=> Settled(y)
                                               /\ ~TransactionIdDidCommit(y) <=> Aborted(y)
           /\ Settled(y) => ~TransactionIdIsInProgress(y) /\ ~Aborted(y)
<1>1. NoXid \notin Xact
  BY UsersHeapAssumption, Zenon
<1>2. CASE y = NoXid
  BY <1>1, <1>2, Zenon DEF TransactionIdIsInProgress, TransactionIdDidCommit, Settled, Aborted
<1>3. CASE y # NoXid
  <2>1. y \in Xact
    BY <1>3, Zenon DEF Xid
  <2>2. /\ proc[y] \in {"none", "running", "ended"}
        /\ clog[y] \in {"none", "committed", "aborted"}
        /\ proc[y] # "none"
    BY <1>3, <2>1, Zenon DEF TypeOK
  <2>3. clog[y] = "none" => proc[y] = "running"
    BY <2>1, <2>2, Zenon DEF BackendInv, LocalOK, PhaseOK, Place
  <2> QED
    BY <1>3, <2>1, <2>2, <2>3, SMT
       DEF TransactionIdIsInProgress, TransactionIdDidCommit, Settled, Aborted
<1> QED
  BY <1>2, <1>3, Zenon

\* A version a backend may write: committed, and nobody has replaced it or is
\* about to.
LEMMA WritableIs ==
    ASSUME TypeOK, BackendInv, VersionInv, NEW x \in Xact,
           tx[x].pc \in {"modify", "lock"}, Seeks(x, tx[x]), Writable(x)
    PROVE  LET v == heap[tx[x].tid]
           IN  /\ tx[x].tid \in Tid
               /\ Settled(v.xmin)
               /\ v.xmax = NoXid \/ v.lockonly \/ Aborted(v.xmax)
<1> DEFINE t == tx[x].tid
           v == heap[t]
<1>1. t \in Tid /\ Settled(v.xmin)
  BY Zenon DEF BackendInv, LocalOK, TidOK
<1>2. v \in HeapTuple
  BY <1>1, SMTT(60) DEF TypeOK, Tid
<1>3. v.xmax \in Xid
  BY <1>2, Zenon DEF HeapTuple
<1>4. v.xmax # NoXid => v.xmax \in Xact /\ proc[v.xmax] # "none"
  BY <1>1, <1>3, Zenon DEF VersionInv, VersionOf, Xid
<1>5. Place(x) \in {"modify", "lock"}
  BY Zenon DEF Place, PlaceOf
<1>6. v.xmax = x => v.lockonly
  BY <1>1, <1>5, Zenon DEF VersionInv, VersionOf, Writes, AfterWrite
<1>7. ~TransactionIdIsInProgress(v.xmax) => (~TransactionIdDidCommit(v.xmax) <=> Aborted(v.xmax))
  BY <1>3, <1>4, StatusKnown, Zenon
<1> QED
  BY <1>1, <1>6, <1>7, UpdateCases, Zenon DEF Writable

-----------------------------------------------------------------------------
(* What a step that writes the heap does to it. *)

\* x stamps version t, which nobody has replaced.
Rewritten(x, t) ==
    /\ Settled(heap[t].xmin)
    /\ heap[t].xmax = NoXid \/ heap[t].lockonly \/ Aborted(heap[t].xmax)
    /\ heap'[t].row = heap[t].row
    /\ heap'[t].xmin = heap[t].xmin
    /\ heap'[t].heap_only = heap[t].heap_only
    /\ heap'[t].xmax = x
    /\ ~heap'[t].lockonly => Place(x)' \in {"index", "commit"}
    /\ Place(x)' = "index" => heap'[t].ctid = tx'[x].tid
    /\ heap'[t].ctid # t =>
          /\ ~heap'[t].lockonly
          /\ heap'[t].ctid = Len(heap) + 1
          /\ Len(heap') = Len(heap) + 1
          /\ heap'[Len(heap')].row.user_id = heap[t].row.user_id
          /\ heap'[Len(heap')].row.email = heap[t].row.email

\* x appends version n: heap-only behind a version it has stamped, or with its
\* keys still to be entered.
Appended(x, n) ==
    /\ heap'[n].xmin = x
    /\ heap'[n].xmax = NoXid
    /\ heap'[n].ctid = n
    /\ Place(x)' \in {"index", "commit"}
    /\ heap'[n].heap_only => \E t \in Tid : HotLink(heap', t, n)
    /\ ~heap'[n].heap_only => /\ Place(x)' = "index"
                              /\ tx'[x].tid = n
                              /\ tx'[x].keys = Keys(heap'[n].row)

HeapStep(x) ==
    /\ heap' \in Seq(HeapTuple)
    /\ Len(heap') \in {Len(heap), Len(heap) + 1}
    /\ \A t \in Tid : heap'[t] # heap[t] => Rewritten(x, t)
    /\ \A n \in Tid' \ Tid : Appended(x, n)

\* The fields of a new version.
LEMMA VersionTyped ==
    ASSUME NEW t \in Nat, NEW row \in User, NEW x \in Xact, NEW only \in BOOLEAN
    PROVE  /\ Version(t, row, x, only) \in HeapTuple
           /\ Version(t, row, x, only).row = row
           /\ Version(t, row, x, only).xmin = x
           /\ Version(t, row, x, only).xmax = NoXid
           /\ Version(t, row, x, only).ctid = t
           /\ Version(t, row, x, only).heap_only = only
BY Zenon DEF Version, HeapTuple, Xid

\* The fields of a version that was stamped with an xmax.
LEMMA StampedTyped ==
    ASSUME NEW v \in HeapTuple, NEW x \in Xact, NEW lo \in BOOLEAN, NEW c \in Nat
    PROVE  /\ Stamped(v, x, lo, c) \in HeapTuple
           /\ Stamped(v, x, lo, c).row = v.row
           /\ Stamped(v, x, lo, c).xmin = v.xmin
           /\ Stamped(v, x, lo, c).heap_only = v.heap_only
           /\ Stamped(v, x, lo, c).xmax = x
           /\ Stamped(v, x, lo, c).lockonly = lo
           /\ Stamped(v, x, lo, c).ctid = c
<1>1. x \in Xid
  BY Zenon DEF Xid
<1> QED
  BY <1>1, ZenonT(60) DEF Stamped, HeapTuple

\* heap_insert.
LEMMA InsertIsHeapStep ==
    ASSUME TypeOK, BackendInv, VersionInv, NEW x \in Xact, heap_insert(x)
    PROVE  HeapStep(x)
<1> DEFINE row == NewRow(x, stmt[x].email, stmt[x].password)
           n == Len(heap) + 1
<1>1. /\ heap \in Seq(HeapTuple)
      /\ Len(heap) \in Nat
      /\ stmt[x] \in Statement
  BY UsersHeapAssumption, SMTT(60) DEF TypeOK
<1>2. row \in User
  <2>1. stmt[x].op = "insert"
    BY Zenon DEF heap_insert
  <2>2. stmt[x].email \in Email /\ stmt[x].password \in Stored
    BY <1>1, <2>1, SMT DEF Statement
  <2> QED
    BY <2>2, UsersHeapAssumption, Zenon DEF NewRow, User, Role
<1>3. /\ Version(n, row, x, FALSE) \in HeapTuple
      /\ Version(n, row, x, FALSE).row = row
      /\ Version(n, row, x, FALSE).xmin = x
      /\ Version(n, row, x, FALSE).xmax = NoXid
      /\ Version(n, row, x, FALSE).ctid = n
      /\ Version(n, row, x, FALSE).heap_only = FALSE
  <2>1. n \in Nat
    BY <1>1, SMTT(60)
  <2> QED
    BY <1>2, <2>1, VersionTyped, ZenonT(60)
<1>4. heap' = Append(heap, Version(n, row, x, FALSE))
  BY Zenon DEF heap_insert
<1>5. /\ heap' \in Seq(HeapTuple)
      /\ Len(heap') = Len(heap) + 1
      /\ heap'[n] = Version(n, row, x, FALSE)
      /\ \A u \in Tid : heap'[u] = heap[u]
  <2>1. PICK v \in HeapTuple : v = Version(n, row, x, FALSE)
    BY <1>3, Zenon
  <2>2. heap' = Append(heap, v)
    BY <1>4, <2>1, Zenon
  <2>3. /\ Append(heap, v) \in Seq(HeapTuple)
        /\ Len(Append(heap, v)) = Len(heap) + 1
        /\ Append(heap, v)[Len(heap) + 1] = v
        /\ \A u \in 1 .. Len(heap) : Append(heap, v)[u] = heap[u]
    BY <1>1, AppendIs, SMTT(60)
  <2> QED
    BY <2>1, <2>2, <2>3, Zenon DEF Tid
<1>6. /\ tx'[x].pc = "index"
      /\ tx'[x].tid = n
      /\ tx'[x].keys = Keys(row)
  <2>1. tx'[x] = [tx[x] EXCEPT !.pc = "index", !.tid = n, !.keys = Keys(row), !.rows = {row}]
    BY LocalStep, Zenon DEF heap_insert
  <2>2. tx[x] \in Backend
    BY Zenon DEF TypeOK
  <2> QED
    BY <2>1, <2>2, SMT DEF Backend
<1>7. Place(x)' = "index"
  BY <1>6, Zenon DEF Place, PlaceOf
<1>8. Tid' \ Tid = {n}
  BY <1>1, <1>5, SMTT(60) DEF Tid
<1>9. Appended(x, n)
  BY <1>3, <1>5, <1>6, <1>7, Zenon DEF Appended
<1> QED
  BY <1>5, <1>8, <1>9, Zenon DEF HeapStep

\* LockForPage, PutDelete, and heap_lock_tuple when it gets the tuple.
LEMMA StampIsHeapStep ==
    ASSUME TypeOK, BackendInv, VersionInv, NEW x \in Xact, NEW lo \in BOOLEAN,
           tx[x].pc \in {"modify", "lock"}, Seeks(x, tx[x]), Writable(x),
           heap' = [heap EXCEPT ![tx[x].tid] = Stamped(heap[tx[x].tid], x, lo, tx[x].tid)],
           lo \/ Place(x)' = "commit", Place(x)' # "index"
    PROVE  HeapStep(x)
<1> DEFINE t == tx[x].tid
           v == Stamped(heap[t], x, lo, t)
<1>1. /\ t \in Tid
      /\ Settled(heap[t].xmin)
      /\ heap[t].xmax = NoXid \/ heap[t].lockonly \/ Aborted(heap[t].xmax)
  BY WritableIs, Zenon
<1>2. heap \in Seq(HeapTuple) /\ heap[t] \in HeapTuple /\ t \in Nat /\ Len(heap) \in Nat
  BY <1>1, SMTT(60) DEF TypeOK, Tid
<1>3. /\ v \in HeapTuple
      /\ v.row = heap[t].row
      /\ v.xmin = heap[t].xmin
      /\ v.heap_only = heap[t].heap_only
      /\ v.xmax = x
      /\ v.lockonly = lo
      /\ v.ctid = t
  BY <1>2, StampedTyped, SMTT(60)
<1>4. /\ heap' \in Seq(HeapTuple)
      /\ Len(heap') = Len(heap)
      /\ heap'[t] = v
      /\ \A u \in Tid : u # t => heap'[u] = heap[u]
  <2>1. v \in HeapTuple /\ t \in 1 .. Len(heap)
    BY <1>1, <1>3, Zenon DEF Tid
  <2>2. heap' = [heap EXCEPT ![t] = v]
    BY Zenon
  <2> HIDE DEF v, t
  <2>3. /\ [heap EXCEPT ![t] = v] \in Seq(HeapTuple)
        /\ Len([heap EXCEPT ![t] = v]) = Len(heap)
        /\ [heap EXCEPT ![t] = v][t] = v
        /\ \A u \in 1 .. Len(heap) : u # t => [heap EXCEPT ![t] = v][u] = heap[u]
    BY <1>2, <2>1, StampProperties, SMTT(60)
  <2> QED
    BY <2>2, <2>3, Zenon DEF Tid
<1>5. Rewritten(x, t)
  BY <1>1, <1>3, <1>4, Zenon DEF Rewritten
<1>6. Tid' \ Tid = {}
  BY <1>4, Zenon DEF Tid
<1> QED
  BY <1>4, <1>5, <1>6, Zenon DEF HeapStep

\* PutUpdate.
LEMMA UpdateIsHeapStep ==
    ASSUME TypeOK, BackendInv, VersionInv, NEW x \in Xact, NEW hot \in BOOLEAN,
           At(x, "modify"), stmt[x].op = "update", Writable(x), PutUpdate(x, hot)
    PROVE  HeapStep(x)
<1> DEFINE t == tx[x].tid
           n == Len(heap) + 1
           row == [heap[t].row EXCEPT !.password = stmt[x].password]
           v == Stamped(heap[t], x, FALSE, n)
           w == Version(n, row, x, hot)
<1>1. tx[x].pc \in {"modify", "lock"} /\ Seeks(x, tx[x])
  BY Zenon DEF At, Seeks, PlaceOf
<1>2. /\ t \in Tid
      /\ Settled(heap[t].xmin)
      /\ heap[t].xmax = NoXid \/ heap[t].lockonly \/ Aborted(heap[t].xmax)
  BY <1>1, WritableIs, Zenon
<1>3. /\ heap \in Seq(HeapTuple)
      /\ heap[t] \in HeapTuple
      /\ t \in 1 .. Len(heap)
      /\ Len(heap) \in Nat
      /\ n \in Nat
  BY <1>2, SMTT(60) DEF TypeOK, Tid
<1>4. /\ row \in User
      /\ row.user_id = heap[t].row.user_id
      /\ row.email = heap[t].row.email
  <2>1. stmt[x] \in Statement
    BY UsersHeapAssumption, Zenon DEF TypeOK
  <2>2. stmt[x].password \in Stored
    BY <2>1, SMT DEF Statement
  <2>3. heap[t].row \in User
    BY <1>3, Zenon DEF HeapTuple
  <2> QED
    BY <2>2, <2>3, Zenon DEF User
<1>5. /\ v \in HeapTuple
      /\ v.row = heap[t].row
      /\ v.xmin = heap[t].xmin
      /\ v.heap_only = heap[t].heap_only
      /\ v.xmax = x
      /\ v.lockonly = FALSE
      /\ v.ctid = n
  <2>1. \A lo \in BOOLEAN : lo = FALSE =>
            /\ Stamped(heap[t], x, lo, n) \in HeapTuple
            /\ Stamped(heap[t], x, lo, n).row = heap[t].row
            /\ Stamped(heap[t], x, lo, n).xmin = heap[t].xmin
            /\ Stamped(heap[t], x, lo, n).heap_only = heap[t].heap_only
            /\ Stamped(heap[t], x, lo, n).xmax = x
            /\ Stamped(heap[t], x, lo, n).lockonly = lo
            /\ Stamped(heap[t], x, lo, n).ctid = n
    BY <1>3, StampedTyped, SMTT(60)
  <2> QED
    BY <2>1, Zenon
<1>6. /\ w \in HeapTuple
      /\ w.row = row
      /\ w.xmin = x
      /\ w.xmax = NoXid
      /\ w.ctid = n
      /\ w.heap_only = hot
  BY <1>3, <1>4, VersionTyped, SMTT(60)
<1>7. /\ heap' \in Seq(HeapTuple)
      /\ Len(heap') = n
      /\ heap'[n] = w
      /\ heap'[t] = v
      /\ \A u \in Tid : u # t => heap'[u] = heap[u]
  <2> DEFINE h == [heap EXCEPT ![t] = v]
  <2>1. v \in HeapTuple /\ w \in HeapTuple
    BY <1>5, <1>6, Zenon
  <2>2. heap' = Append(h, w)
    BY Zenon DEF PutUpdate
  <2> HIDE DEF v, w, t
  <2>3. /\ h \in Seq(HeapTuple)
        /\ Len(h) = Len(heap)
        /\ h[t] = v
        /\ \A u \in 1 .. Len(heap) : u # t => h[u] = heap[u]
    BY <1>3, <2>1, StampProperties, SMTT(60)
  <2> HIDE DEF h
  <2>4. /\ Append(h, w) \in Seq(HeapTuple)
        /\ Len(Append(h, w)) = Len(h) + 1
        /\ Append(h, w)[Len(h) + 1] = w
        /\ \A u \in 1 .. Len(h) : Append(h, w)[u] = h[u]
    BY <2>1, <2>3, AppendIs, SMTT(60)
  <2> QED
    BY <1>3, <2>2, <2>3, <2>4, Zenon DEF Tid
<1>8. /\ tx'[x].pc = (IF hot THEN "commit" ELSE "index")
      /\ tx'[x].tid = n
      /\ tx'[x].keys = (IF hot THEN <<>> ELSE Keys(row))
  <2>1. tx'[x] = [tx[x] EXCEPT !.pc = IF hot THEN "commit" ELSE "index", !.tid = n,
                               !.keys = IF hot THEN <<>> ELSE Keys(row), !.rows = {row}]
    BY LocalStep, Zenon DEF PutUpdate
  <2>2. tx[x] \in Backend
    BY Zenon DEF TypeOK
  <2> QED
    BY <2>1, <2>2, Zenon DEF Backend
<1>9. /\ hot => Place(x)' = "commit"
      /\ ~hot => Place(x)' = "index"
  BY <1>8, Zenon DEF Place, PlaceOf
<1>10. n # t /\ Tid' \ Tid = {n}
  BY <1>3, <1>7, SMTT(60) DEF Tid
<1>11. Rewritten(x, t)
  <2>1. /\ heap'[t].row = heap[t].row
        /\ heap'[t].xmin = heap[t].xmin
        /\ heap'[t].heap_only = heap[t].heap_only
        /\ heap'[t].xmax = x
        /\ heap'[t].ctid = n
        /\ ~heap'[t].lockonly
    BY <1>5, <1>7, Zenon
  <2>2. /\ heap'[n].row.user_id = heap[t].row.user_id
        /\ heap'[n].row.email = heap[t].row.email
    BY <1>4, <1>6, <1>7, Zenon
  <2>3. Place(x)' \in {"index", "commit"}
    BY <1>9, Zenon
  <2> QED
    BY <1>2, <1>7, <1>8, <2>1, <2>2, <2>3, Zenon DEF Rewritten
<1>12. Appended(x, n)
  <2>1. hot => HotLink(heap', t, n)
    BY <1>5, <1>6, <1>7, <1>10, Zenon DEF HotLink
  <2> QED
    BY <1>2, <1>6, <1>7, <1>8, <1>9, <2>1, Zenon DEF Appended
<1> QED
  BY <1>7, <1>10, <1>11, <1>12, Zenon DEF HeapStep

-----------------------------------------------------------------------------
(* VersionInv is kept. *)

\* Steps that leave the heap alone.
LEMMA VersionQuiet ==
    ASSUME TypeOK, VersionInv, heap' = heap,
           \A y \in Xid : Settled(y) => Settled(y)',
           \A y \in Xact : proc[y] # "none" => proc'[y] # "none",
           \A y \in Xact : Place(y) \in AfterWrite => Place(y)' \in AfterWrite
    PROVE  VersionInv'
<1> SUFFICES ASSUME NEW t \in Tid PROVE VersionOf(t)'
  BY Zenon DEF VersionInv, Tid
<1>1. VersionOf(t)
  BY Zenon DEF VersionInv
<1>2. heap[t].xmin \in Xid
  BY TupleTyped, Zenon
<1>3. Settled(heap[t].xmin) => Settled(heap[t].xmin)'
  BY <1>2, Zenon DEF Settled
<1>4. \A y \in Xact : Writes(y, t)' = Writes(y, t)
  BY Zenon DEF Writes
<1> QED
  BY <1>1, <1>3, <1>4, Zenon DEF VersionOf

\* Steps that write it.
LEMMA VersionHeapStep ==
    ASSUME TypeOK, BackendInv, VersionInv, NEW x \in Xact, HeapStep(x),
           Place(x) \in {"modify", "lock"},
           UNCHANGED <<proc, clog>>,
           \A y \in Xact : y # x => Place(y)' = Place(y)
    PROVE  VersionInv'
<1>1. \A y : Settled(y)' <=> Settled(y)
  BY Zenon DEF Settled
<1>2. /\ \A t \in Tid : VersionOf(t)
      /\ \A t \in Tid : heap[t].ctid \in Tid
      /\ \A t \in Tid : t \in Tid'
      /\ Len(heap) \in Nat
  BY SMT DEF VersionInv, TypeOK, HeapStep, Tid
<1>3. proc[x] = "running" /\ Place(x) \notin AfterWrite /\ NoXid \notin Xact
  BY UsersHeapAssumption, Zenon DEF BackendInv, LocalOK, PhaseOK, Place, AfterWrite
<1>4. \A t \in Tid : ~Writes(x, t)
  BY <1>2, <1>3, Zenon DEF VersionOf
<1>5. \A t \in Tid : /\ heap'[t].row = heap[t].row
                     /\ heap'[t].xmin = heap[t].xmin
  BY Zenon DEF HeapStep, Rewritten
<1> SUFFICES ASSUME NEW t \in Tid' PROVE VersionOf(t)'
  BY Zenon DEF VersionInv
<1>6. CASE t \in Tid /\ heap'[t] = heap[t]
  <2>1. VersionOf(t)
    BY <1>2, <1>6, Zenon
  <2>2. heap[t].ctid \in Tid
    BY <1>2, <1>6, Zenon
  <2>3. heap[t].ctid # t =>
            /\ heap'[heap[t].ctid].xmin = heap[heap[t].ctid].xmin
            /\ heap'[heap[t].ctid].row = heap[heap[t].ctid].row
    BY <1>5, <2>2, Zenon
  <2>4. \A y \in Xact : Writes(y, t)' => Writes(y, t) /\ y # x
    BY <1>4, <1>6, Zenon DEF Writes
  <2> QED
    BY <1>6, <2>1, <2>3, <2>4, Zenon DEF VersionOf, Settled
<1>7. CASE t \in Tid /\ heap'[t] # heap[t]
  <2>1. VersionOf(t) /\ Rewritten(x, t)
    BY <1>2, <1>7, Zenon DEF HeapStep
  <2>2. Settled(heap[t].xmin)'
    BY <2>1, Zenon DEF Rewritten, Settled
  <2>3. heap'[t].ctid # t =>
          /\ heap'[t].xmax # NoXid
          /\ ~heap'[t].lockonly
          /\ heap'[heap'[t].ctid].xmin = heap'[t].xmax
          /\ heap'[heap'[t].ctid].row.user_id = heap'[t].row.user_id
          /\ heap'[heap'[t].ctid].row.email = heap'[t].row.email
    <3> SUFFICES ASSUME heap'[t].ctid # t PROVE heap'[Len(heap')].xmin = x
      BY <1>3, <2>1, Zenon DEF Rewritten
    <3>1. Len(heap') = Len(heap) + 1
      BY <2>1, Zenon DEF Rewritten
    <3>2. Len(heap') \in Tid' \ Tid
      BY <1>2, <3>1, SMTT(60) DEF Tid
    <3> QED
      BY <3>2, Zenon DEF HeapStep, Appended
  <2>4. \A y \in Xact : heap'[t].xmin = y \/ heap'[t].xmax = y => proc'[y] # "none"
    BY <1>3, <2>1, Zenon DEF Rewritten, VersionOf
  <2>5. ASSUME NEW y \in Xact, Writes(y, t)'
        PROVE  Place(y)' \in AfterWrite
    <3>1. CASE y = x /\ heap[t].xmin # x
      BY <2>1, <2>5, <3>1, Zenon DEF Rewritten, Writes, AfterWrite
    <3>2. CASE y # x \/ heap[t].xmin = x
      <4>1. heap[t].xmin = y
        BY <2>1, <2>5, <3>2, Zenon DEF Rewritten, Writes
      <4>2. Writes(y, t)
        BY <4>1, Zenon DEF Writes
      <4> QED
        BY <1>4, <1>7, <2>1, <4>2, Zenon DEF VersionOf
    <3> QED
      BY <3>1, <3>2, Zenon
  <2> QED
    BY <2>2, <2>3, <2>4, <2>5, Zenon DEF VersionOf, Settled
<1>8. CASE t \notin Tid
  <2>1. Appended(x, t)
    BY <1>8, Zenon DEF HeapStep
  <2> QED
    <3>1. \A y \in Xact : y # heap'[t].xmax
      BY <1>3, <2>1, Zenon DEF Appended
    <3> QED
      BY <1>3, <2>1, <3>1, Zenon DEF Appended, VersionOf, Writes, AfterWrite
<1> QED
  BY <1>6, <1>7, <1>8, Zenon

-----------------------------------------------------------------------------
(* The chain of heap-only tuples behind an index entry. *)

\* A heap-only chain contains its root,
LEMMA ChainRoot ==
    ASSUME NEW h, NEW t \in DOMAIN h
    PROVE  t \in HotChain(h, t)
BY Zenon DEF HotChain

\* contains the heap-only successor of each of its members,
LEMMA ChainNext ==
    ASSUME NEW h, NEW t, NEW s \in HotChain(h, t), NEW r \in DOMAIN h, HotLink(h, s, r)
    PROVE  r \in HotChain(h, t)
BY Zenon DEF HotChain, HotClosed

\* and is the least such set.
LEMMA ChainLeast ==
    ASSUME NEW h, NEW t, NEW C \in SUBSET DOMAIN h, t \in C, HotClosed(h, C)
    PROVE  HotChain(h, t) \subseteq C
BY Zenon DEF HotChain

-----------------------------------------------------------------------------
(* Steps that change the local state of one backend and no version, no index
   entry and no transaction status. *)

UsersInv == TypeOK /\ BackendInv /\ VersionInv /\ IndexInv /\ UniqueInv

QuietRec(x, r) ==
    /\ r \in Backend
    /\ LocalOK(x, r)
    /\ Place(x) \in AfterWrite =>
          /\ PlaceOf(r) \in AfterWrite
          /\ PlaceOf(r) = "done" \/ (r.tid = tx[x].tid /\ r.keys = tx[x].keys)

\* A step that changes only the local state of one backend, and that state in
\* an allowed way, keeps the invariant.
LEMMA QuietStep ==
    ASSUME UsersInv, NEW x \in Xact, NEW r, QuietRec(x, r), Local(x, r),
           UNCHANGED <<stmt, heap, index, proc, clog>>,
           tuplock' \subseteq Tid \X Xact,
           xlock' = {y \in Xact : proc[y] = "running" \/ At(y, "release")'}
    PROVE  UsersInv'
<1>1. TypeOK /\ BackendInv /\ VersionInv /\ IndexInv /\ UniqueInv
  BY Zenon DEF UsersInv
<1>2. /\ tx'[x] = r
      /\ \A y \in Xact : y # x => tx'[y] = tx[y]
      /\ \A y \in Xact : y # x => Place(y)' = Place(y)
  BY <1>1, LocalStep, Zenon
<1>3. TypeOK'
  <2>1. tx' \in [Xact -> Backend']
    <3>1. Len(heap) \in Nat /\ heap' = heap
      BY <1>1, SMTT(60) DEF TypeOK
    <3>2. Len(heap) <= Len(heap') /\ Len(heap') \in Nat
      BY <3>1, SMT
    <3>3. r \in Backend'
      BY <3>1, Zenon DEF QuietRec, Backend
    <3> QED
      BY <1>1, <3>2, <3>3, LocalType, Zenon
  <2> QED
    BY <1>1, <2>1, Zenon DEF TypeOK, Tid, At
<1>4. BackendInv'
  <2>1. \A y \in Xact : LocalOK(y, tx'[y])
    BY <1>1, <1>2, Zenon DEF BackendInv, QuietRec
  <2>2. ASSUME NEW y \in Xact
        PROVE  LocalOK(y, tx[y])'
    <3>1. PhaseOK(y, tx'[y]) /\ KeysOK(y, tx'[y]) /\ TidOK(y, tx'[y])
      BY <2>1, Zenon DEF LocalOK
    <3>2. PhaseOK(y, tx[y])'
      BY <3>1, Zenon DEF PhaseOK
    <3>3. KeysOK(y, tx[y])'
      BY <3>1, Zenon DEF KeysOK
    <3>4. TidOK(y, tx[y])'
      BY <3>1, Zenon DEF TidOK, Seeks, Settled, Tid
    <3> QED
      BY <3>2, <3>3, <3>4, Zenon DEF LocalOK
  <2> QED
    BY <2>2, Zenon DEF BackendInv
<1>5. VersionInv'
  <2>1. \A y \in Xid : Settled(y) => Settled(y)'
    BY Zenon DEF Settled
  <2>2. \A y \in Xact : proc[y] # "none" => proc'[y] # "none"
    BY Zenon
  <2>3. \A y \in Xact : Place(y) \in AfterWrite => Place(y)' \in AfterWrite
    BY <1>2, Zenon DEF QuietRec, Place
  <2> QED
    BY <1>1, <2>1, <2>2, <2>3, VersionQuiet, Zenon
<1>6. UniqueInv'
  <2>1. /\ \A k, t : Covered(k, t)' => Covered(k, t)
        /\ \A t : Alive(t)' => Alive(t)
        /\ \A s, t : Replacing(s, t) => Replacing(s, t)'
    BY Zenon DEF Covered, Alive, Replacing, Settled, Aborted
  <2> QED
    BY <1>1, <2>1, Zenon DEF UniqueInv, Tid
<1>7. IndexInv'
  <2> SUFFICES ASSUME NEW t \in Tid, NEW k \in {heap[t].row.user_id, heap[t].row.email}
               PROVE  Aborted(heap[t].xmin) \/ Covered(k, t) \/ Pending(k, t)'
    BY Zenon DEF IndexInv, Tid, Aborted, Covered
  <2>1. Aborted(heap[t].xmin) \/ Covered(k, t) \/ Pending(k, t)
    BY <1>1, Zenon DEF IndexInv
  <2>2. CASE Pending(k, t) /\ ~Aborted(heap[t].xmin)
    <3>1. PICK y \in Xact : /\ heap[t].xmin = y
                            /\ tx[y].tid = t
                            /\ \E i \in DOMAIN tx[y].keys : tx[y].keys[i] = k
      BY <2>2, Zenon DEF Pending
    <3>2. CASE y # x
      BY <1>2, <3>1, <3>2, Zenon DEF Pending
    <3>3. CASE y = x
      <4>1. /\ VersionOf(t)
            /\ Writes(x, t)
        BY <1>1, <3>1, <3>3, Zenon DEF VersionInv, Writes
      <4>2. proc[x] # "none" /\ Place(x) \in AfterWrite
        BY <3>1, <3>3, <4>1, Zenon DEF VersionOf
      <4>3. PlaceOf(r) # "done"
        <5>1. SUFFICES ASSUME PlaceOf(r) = "done" PROVE FALSE
          BY Zenon
        <5>2. PhaseOK(x, r) /\ KeysOK(x, tx[x])
          BY <1>1, Zenon DEF QuietRec, LocalOK, BackendInv
        <5>3. /\ proc[x] \in {"none", "running", "ended"}
              /\ clog[x] \in {"none", "committed", "aborted"}
          BY <1>1, Zenon DEF TypeOK
        <5>4. proc[x] = "ended" /\ clog[x] # "none"
          BY <4>2, <5>1, <5>2, <5>3, Zenon DEF PhaseOK
        <5>5. x # NoXid
          BY UsersHeapAssumption, Zenon
        <5>6. clog[x] = "committed"
          BY <2>2, <3>1, <3>3, <5>3, <5>4, <5>5, Zenon DEF Aborted
        <5>7. tx[x].keys = <<>>
          BY <5>2, <5>6, Zenon DEF KeysOK
        <5> QED
          BY <3>1, <3>3, <5>7, SMTT(60)
      <4>4. r.tid = tx[x].tid /\ r.keys = tx[x].keys
        BY <4>2, <4>3, Zenon DEF QuietRec
      <4> QED
        BY <1>2, <3>1, <3>3, <4>4, Zenon DEF Pending
    <3> QED
      BY <3>2, <3>3, Zenon
  <2> QED
    BY <2>1, <2>2, Zenon
<1> QED
  BY <1>3, <1>4, <1>5, <1>6, <1>7, Zenon DEF UsersInv

\* The same for a step that is not the last one of ResourceOwnerRelease.
LEMMA QuietAction ==
    ASSUME UsersInv, NEW x \in Xact, NEW r, QuietRec(x, r), Local(x, r),
           UNCHANGED <<stmt, heap, index, proc, clog, xlock>>,
           tuplock' \subseteq Tid \X Xact, ~At(x, "release"), r.pc # "release"
    PROVE  UsersInv'
<1>1. TypeOK
  BY Zenon DEF UsersInv
<1>2. \A y \in Xact : At(y, "release")' <=> At(y, "release")
  BY <1>1, LocalStep, Zenon DEF At
<1>3. xlock' = {y \in Xact : proc[y] = "running" \/ At(y, "release")'}
  BY <1>1, <1>2, Zenon DEF TypeOK
<1> QED
  BY <1>3, QuietStep, Zenon

\* What is known of the local state before a step.
LEMMA LocalFacts ==
    ASSUME UsersInv, NEW x \in Xact
    PROVE  /\ tx[x] \in Backend
           /\ PhaseOK(x, tx[x])
           /\ KeysOK(x, tx[x])
           /\ TidOK(x, tx[x])
           /\ tuplock \subseteq Tid \X Xact
           /\ Unlocked(x) \subseteq Tid \X Xact
BY Zenon DEF UsersInv, TypeOK, BackendInv, LocalOK, Unlocked

\* Taking the snapshot keeps it.
LEMMA BeginKeeps ==
    ASSUME UsersInv, NEW x \in Xact, Begin(x)
    PROVE  UsersInv'
<1>1. /\ tx[x] \in Backend
      /\ PhaseOK(x, tx[x])
      /\ KeysOK(x, tx[x])
      /\ tuplock \subseteq Tid \X Xact
  BY LocalFacts, Zenon
<1>2. /\ tx[x].pc = "start"
      /\ PlaceOf(tx[x]) = "start"
      /\ UNCHANGED <<stmt, heap, index, proc, clog, xlock, tuplock>>
  BY Zenon DEF Begin, At, PlaceOf
<1>3. /\ proc[x] = "none" /\ clog[x] = "none" /\ tx[x].keys = <<>>
      /\ Place(x) \notin AfterWrite
  BY <1>1, <1>2, Zenon DEF PhaseOK, KeysOK, AfterWrite, Place
<1>4. CASE stmt[x].op = "insert"
  <2> DEFINE r == [tx[x] EXCEPT !.pc = "xid"]
  <2>1. Local(x, r)
    BY <1>4, Zenon DEF Begin, Goto
  <2>2. r \in Backend /\ r.pc = "xid" /\ r.keys = <<>>
    BY <1>1, <1>3, Zenon DEF Backend
  <2>3. PlaceOf(r) = "xid"
    BY <2>2, Zenon DEF PlaceOf
  <2> HIDE DEF r
  <2>4. QuietRec(x, r)
    BY <1>3, <1>4, <2>2, <2>3, Zenon
       DEF QuietRec, LocalOK, PhaseOK, KeysOK, TidOK, Seeks
  <2> QED
    BY <1>1, <1>2, <2>1, <2>2, <2>4, QuietAction, Zenon DEF At
<1>5. CASE stmt[x].op # "insert"
  <2> DEFINE r == [tx[x] EXCEPT !.pc = "scan", !.snap = GetSnapshotData]
  <2>1. Local(x, r)
    BY <1>5, Zenon DEF Begin
  <2>2. r \in Backend /\ r.pc = "scan" /\ r.keys = <<>> /\ r.snap = GetSnapshotData
    <3>1. GetSnapshotData \in SUBSET Xact
      BY Zenon DEF GetSnapshotData
    <3> QED
      BY <1>1, <1>3, <3>1, Zenon DEF Backend
  <2>3. PlaceOf(r) = "scan"
    BY <2>2, Zenon DEF PlaceOf
  <2>4. \A y \in Xact \ r.snap : proc[y] = "ended"
    BY <2>2, Zenon DEF GetSnapshotData
  <2> HIDE DEF r
  <2>5. QuietRec(x, r)
    BY <1>3, <1>5, <2>2, <2>3, <2>4, Zenon
       DEF QuietRec, LocalOK, PhaseOK, KeysOK, TidOK, Seeks
  <2> QED
    BY <1>1, <1>2, <2>1, <2>2, <2>5, QuietAction, Zenon DEF At
<1> QED
  BY <1>4, <1>5, Zenon

\* Index scans return tuples of the heap.
LEMMA DomainIsTid ==
    ASSUME TypeOK
    PROVE  DOMAIN heap = Tid /\ \A k : IndexScan(k) \subseteq Tid
<1>1. DOMAIN heap = Tid
  BY LenProperties, Zenon DEF TypeOK, Tid
<1> QED
  BY <1>1, Zenon DEF IndexScan, HotChain

\* The index scan keeps it.
LEMMA ScanKeeps ==
    ASSUME UsersInv, NEW x \in Xact, Scan(x)
    PROVE  UsersInv'
<1> DEFINE key == IF stmt[x].op = "select_email" THEN stmt[x].email ELSE stmt[x].user_id
           found == {t \in IndexScan(key) : HeapTupleSatisfiesMVCC(heap[t], tx[x].snap)}
<1>1. /\ tx[x] \in Backend
      /\ PhaseOK(x, tx[x])
      /\ KeysOK(x, tx[x])
      /\ tuplock \subseteq Tid \X Xact
  BY LocalFacts, Zenon
<1>2. /\ tx[x].pc = "scan"
      /\ PlaceOf(tx[x]) = "scan"
      /\ UNCHANGED <<stmt, heap, index, proc, clog, xlock, tuplock>>
  BY Zenon DEF Scan, At, PlaceOf
<1>3. /\ proc[x] = "none" /\ clog[x] = "none" /\ tx[x].keys = <<>>
      /\ Place(x) \notin AfterWrite
      /\ stmt[x].op # "insert"
      /\ \A y \in Xact \ tx[x].snap : proc[y] = "ended"
  BY <1>1, <1>2, Zenon DEF PhaseOK, KeysOK, AfterWrite, Place
<1>4. \A t \in found : t \in Tid
  BY DomainIsTid, Zenon DEF UsersInv
<1>5. \A t \in found : Settled(heap[t].xmin)
  <2> SUFFICES ASSUME NEW t \in found PROVE Settled(heap[t].xmin)
    BY Zenon
  <2>1. heap[t].xmin \in Xid
    BY <1>4, TupleTyped, Zenon DEF UsersInv
  <2>2. heap[t].xmin \notin tx[x].snap /\ TransactionIdDidCommit(heap[t].xmin)
    BY Zenon DEF HeapTupleSatisfiesMVCC
  <2> QED
    BY <1>3, <2>1, <2>2, Zenon DEF Settled, Xid, TransactionIdDidCommit
<1>6. ASSUME NEW t \in found, Local(x, [tx[x] EXCEPT !.pc = "xid", !.tid = t, !.snap = {}])
      PROVE  UsersInv'
  <2> DEFINE r == [tx[x] EXCEPT !.pc = "xid", !.tid = t, !.snap = {}]
  <2>1. t \in Tid /\ Settled(heap[t].xmin) /\ t \in 0 .. Len(heap)
    BY <1>4, <1>5, <1>6, SMTT(60) DEF Tid
  <2>2. r \in Backend /\ r.pc = "xid" /\ r.keys = <<>> /\ r.tid = t
    BY <1>1, <1>3, <2>1, Zenon DEF Backend
  <2>3. PlaceOf(r) = "xid"
    BY <2>2, Zenon DEF PlaceOf
  <2> HIDE DEF r
  <2>4. QuietRec(x, r)
    BY <1>3, <2>1, <2>2, <2>3, Zenon
       DEF QuietRec, LocalOK, PhaseOK, KeysOK, TidOK
  <2>5. Local(x, r)
    BY <1>6, Zenon DEF r
  <2> QED
    BY <1>1, <1>2, <2>2, <2>4, <2>5, QuietAction, Zenon DEF At
<1>7. ASSUME Local(x, [tx[x] EXCEPT !.pc = "commit", !.snap = {},
                                    !.rows = {heap[t].row : t \in found}])
      PROVE  UsersInv'
  <2> DEFINE rows == {heap[t].row : t \in found}
             r == [tx[x] EXCEPT !.pc = "commit", !.snap = {}, !.rows = rows]
  <2>1. rows \in SUBSET User
    BY <1>4, TupleTyped, Zenon DEF UsersInv
  <2>2. r \in Backend /\ r.pc = "commit" /\ r.keys = <<>>
    <3> HIDE DEF rows
    <3> QED
      BY <1>1, <1>3, <2>1, Zenon DEF Backend
  <2>3. PlaceOf(r) = "commit"
    BY <2>2, Zenon DEF PlaceOf
  <2>4. Local(x, r)
    BY <1>7, Zenon
  <2> HIDE DEF r
  <2>5. QuietRec(x, r)
    BY <1>3, <2>2, <2>3, Zenon DEF QuietRec, LocalOK, PhaseOK, KeysOK, TidOK, Seeks
  <2> QED
    BY <1>1, <1>2, <2>2, <2>4, <2>5, QuietAction, Zenon DEF At
<1> QED
  BY <1>6, <1>7, Zenon DEF Scan

\* A sleep, the lock it waits for, and the wake-up leave the place as it is.
LEMMA SamePlace ==
    ASSUME UsersInv, NEW x \in Xact, NEW r \in Backend, PlaceOf(r) = Place(x),
           r.keys = tx[x].keys, r.tid = tx[x].tid, r.snap = tx[x].snap, r.prior = tx[x].prior,
           r.pc = "tuplock" => r.tid \in Tid
    PROVE  QuietRec(x, r)
<1>1. /\ PhaseOK(x, tx[x])
      /\ KeysOK(x, tx[x])
      /\ TidOK(x, tx[x])
      /\ PlaceOf(r) = PlaceOf(tx[x])
  BY LocalFacts, Zenon DEF Place
<1>2. PhaseOK(x, r)
  BY <1>1, Zenon DEF PhaseOK
<1>3. KeysOK(x, r)
  BY <1>1, Zenon DEF KeysOK
<1>4. TidOK(x, r)
  BY <1>1, Zenon DEF TidOK, Seeks
<1> QED
  BY <1>2, <1>3, <1>4, Zenon DEF QuietRec, LocalOK

\* Getting the tuple lock keeps it.
LEMMA AcquireKeeps ==
    ASSUME UsersInv, NEW x \in Xact, heap_acquire_tuplock(x)
    PROVE  UsersInv'
<1> DEFINE r == [tx[x] EXCEPT !.pc = "xactwait"]
<1>1. tx[x] \in Backend /\ tx[x].pc = "tuplock" /\ tuplock \subseteq Tid \X Xact
  BY LocalFacts, Zenon DEF heap_acquire_tuplock, At
<1>2. /\ r \in Backend /\ r.pc = "xactwait" /\ r.back = tx[x].back
      /\ r.keys = tx[x].keys /\ r.tid = tx[x].tid /\ r.snap = tx[x].snap
      /\ r.prior = tx[x].prior
  BY <1>1, Zenon DEF Backend
<1>3. /\ Local(x, r)
      /\ UNCHANGED <<stmt, heap, index, proc, clog, xlock>>
      /\ tuplock' = tuplock \cup {<<tx[x].tid, x>>}
  BY Zenon DEF heap_acquire_tuplock, Goto
<1> HIDE DEF r
<1>4. QuietRec(x, r)
  <2>1. PlaceOf(r) = Place(x)
    BY <1>1, <1>2, Zenon DEF PlaceOf, Place
  <2> QED
    BY <1>2, <2>1, SamePlace, Zenon
<1>5. tuplock' \subseteq Tid \X Xact
  <2>1. tx[x].tid \in Tid
    BY <1>1, LocalFacts, Zenon DEF TidOK
  <2> QED
    BY <1>1, <1>3, <2>1, SMTT(60)
<1> QED
  BY <1>1, <1>2, <1>3, <1>4, <1>5, QuietAction, Zenon DEF At

\* Waking from the wait for a transaction keeps it.
LEMMA WakeKeeps ==
    ASSUME UsersInv, NEW x \in Xact, XactLockTableWait(x)
    PROVE  UsersInv'
<1> DEFINE r == [tx[x] EXCEPT !.pc = tx[x].back, !.wait = NoXid]
<1>1. tx[x] \in Backend /\ tx[x].pc = "xactwait" /\ tuplock \subseteq Tid \X Xact
  BY LocalFacts, Zenon DEF XactLockTableWait, At
<1>2. /\ tx[x].back \in {"modify", "lock", "fetch", "index"}
      /\ NoXid \in Xid
  BY <1>1, Zenon DEF Backend, Xid
<1>3. /\ r \in Backend /\ r.pc = tx[x].back
      /\ r.keys = tx[x].keys /\ r.tid = tx[x].tid /\ r.snap = tx[x].snap
      /\ r.prior = tx[x].prior
  <2>1. tx[x].back \in {"start", "scan", "xid", "modify", "tuplock", "xactwait", "lock", "fetch",
           "index", "commit", "abort", "recorded", "release", "done"}
    BY <1>2, Zenon
  <2> QED
    BY <1>1, <1>2, <2>1, Zenon DEF Backend
<1>4. /\ Local(x, r)
      /\ UNCHANGED <<stmt, heap, index, proc, clog, xlock, tuplock>>
  BY Zenon DEF XactLockTableWait
<1> HIDE DEF r
<1>5. r.pc \notin {"tuplock", "xactwait", "release"}
  BY <1>2, <1>3, SMT
<1>6. QuietRec(x, r)
  <2>1. PlaceOf(r) = Place(x)
    BY <1>1, <1>3, <1>5, Zenon DEF PlaceOf, Place
  <2> QED
    BY <1>3, <1>5, <2>1, SamePlace, Zenon
<1> QED
  BY <1>1, <1>4, <1>5, <1>6, QuietAction, Zenon DEF At

\* Going to sleep on a transaction keeps it.
LEMMA SleepKeeps ==
    ASSUME UsersInv, NEW x \in Xact, NEW back \in {"modify", "lock"}, At(x, back),
           Seeks(x, tx[x]), Sleep(x, back),
           UNCHANGED <<stmt, index, proc, clog, xlock>>
    PROVE  UsersInv'
<1> DEFINE pc == IF <<tx[x].tid, x>> \in tuplock THEN "xactwait" ELSE "tuplock"
           wait == heap[tx[x].tid].xmax
           r == [tx[x] EXCEPT !.pc = pc, !.back = back, !.wait = wait]
<1>1. tx[x] \in Backend /\ tx[x].pc = back /\ tuplock \subseteq Tid \X Xact
  BY LocalFacts, Zenon DEF At
<1>2. tx[x].tid \in Tid
  BY LocalFacts, Zenon DEF TidOK
<1>3. /\ wait \in Xid
      /\ pc \in {"tuplock", "xactwait"}
      /\ back \in {"modify", "lock", "fetch", "index"}
  BY <1>2, TupleTyped, Zenon DEF UsersInv
<1>4. /\ Local(x, r)
      /\ UNCHANGED <<heap, tuplock>>
  BY Zenon DEF Sleep
<1>5. /\ r \in Backend /\ r.pc = pc /\ r.back = back
      /\ r.keys = tx[x].keys /\ r.tid = tx[x].tid /\ r.snap = tx[x].snap
      /\ r.prior = tx[x].prior
  <2> HIDE DEF pc, wait
  <2>1. pc \in {"start", "scan", "xid", "modify", "tuplock", "xactwait", "lock", "fetch",
           "index", "commit", "abort", "recorded", "release", "done"}
    BY <1>3, Zenon
  <2> QED
    BY <1>1, <1>3, <2>1, Zenon DEF Backend
<1> HIDE DEF r, pc, wait
<1>6. QuietRec(x, r)
  <2>1. PlaceOf(r) = Place(x)
    <3>1. back \notin {"tuplock", "xactwait"}
      BY SMT
    <3> QED
      BY <1>1, <1>3, <1>5, <3>1, Zenon DEF PlaceOf, Place
  <2> QED
    BY <1>2, <1>5, <2>1, SamePlace, Zenon
<1>7. r.pc # "release" /\ tx[x].pc # "release"
  BY <1>1, <1>3, <1>5, SMT
<1> QED
  BY <1>1, <1>4, <1>6, <1>7, QuietAction, Zenon DEF At

\* Ending a statement that meets no row keeps it.
LEMMA NoRowKeeps ==
    ASSUME UsersInv, NEW x \in Xact, tx[x].pc \in {"modify", "lock", "fetch"}, NoRow(x),
           UNCHANGED <<stmt, heap, index, proc, clog, xlock>>,
           tuplock' \subseteq Tid \X Xact
    PROVE  UsersInv'
<1> DEFINE r == [tx[x] EXCEPT !.pc = "commit", !.rows = {}]
<1>1. tx[x] \in Backend /\ PhaseOK(x, tx[x]) /\ KeysOK(x, tx[x])
  BY LocalFacts, Zenon
<1>2. PlaceOf(tx[x]) \in {"modify", "lock", "fetch"}
  BY Zenon DEF PlaceOf
<1>3. /\ proc[x] = "running" /\ clog[x] = "none" /\ tx[x].keys = <<>>
      /\ Place(x) \notin AfterWrite
  BY <1>1, <1>2, Zenon DEF PhaseOK, KeysOK, AfterWrite, Place
<1>4. r \in Backend /\ r.pc = "commit" /\ r.keys = <<>>
  BY <1>1, <1>3, Zenon DEF Backend
<1>5. PlaceOf(r) = "commit"
  BY <1>4, Zenon DEF PlaceOf
<1>6. Local(x, r)
  BY Zenon DEF NoRow
<1> HIDE DEF r
<1>7. QuietRec(x, r)
  BY <1>3, <1>4, <1>5, Zenon DEF QuietRec, LocalOK, PhaseOK, KeysOK, TidOK, Seeks
<1> QED
  BY <1>4, <1>6, <1>7, QuietAction, Zenon DEF At

\* Raising an error keeps it.
LEMMA FailKeeps ==
    ASSUME UsersInv, NEW x \in Xact, NEW err \in {"unique", "cancel"}, Fail(x, err),
           tx[x].pc \in {"scan", "tuplock", "xactwait", "index", "commit"},
           UNCHANGED <<stmt, heap, index, proc, clog, xlock, tuplock>>
    PROVE  UsersInv'
<1> DEFINE r == [tx[x] EXCEPT !.pc = "abort", !.err = err, !.rows = {}]
<1>1. /\ tx[x] \in Backend /\ PhaseOK(x, tx[x]) /\ KeysOK(x, tx[x])
      /\ tuplock \subseteq Tid \X Xact
  BY LocalFacts, Zenon
<1>2. PlaceOf(tx[x]) \in {"scan", "index", "commit", "modify", "lock", "fetch"}
  BY <1>1, Zenon DEF PlaceOf, Backend
<1>3. /\ proc[x] \in {"none", "running"} /\ clog[x] = "none"
  <2>1. proc[x] \in {"none", "running", "ended"}
    BY Zenon DEF UsersInv, TypeOK
  <2> QED
    BY <1>1, <1>2, <2>1, Zenon DEF PhaseOK
<1>4. /\ r \in Backend /\ r.pc = "abort" /\ r.keys = tx[x].keys
      /\ r.tid = tx[x].tid
  <2>1. err \in {"none", "unique", "cancel"}
    BY Zenon
  <2> QED
    BY <1>1, <2>1, Zenon DEF Backend
<1>5. PlaceOf(r) = "abort"
  BY <1>4, Zenon DEF PlaceOf
<1>6. Local(x, r)
  BY Zenon DEF Fail
<1> HIDE DEF r
<1>7. QuietRec(x, r)
  <2>1. PhaseOK(x, r)
    BY <1>3, <1>5, SMT DEF PhaseOK
  <2>2. KeysOK(x, r) /\ TidOK(x, r)
    BY <1>3, <1>4, <1>5, Zenon DEF KeysOK, TidOK, Seeks
  <2> QED
    BY <1>4, <1>5, <2>1, <2>2, Zenon DEF QuietRec, LocalOK, AfterWrite
<1> QED
  BY <1>1, <1>4, <1>6, <1>7, QuietAction, Zenon DEF At

\* The backend goes on to lock the version it has in hand.
LEMMA GotoLockKeeps ==
    ASSUME UsersInv, NEW x \in Xact, tx[x].pc \in {"modify", "fetch"}, Seeks(x, tx[x]),
           Goto(x, "lock"), UNCHANGED <<stmt, heap, index, proc, clog, xlock>>,
           tuplock' \subseteq Tid \X Xact
    PROVE  UsersInv'
<1> DEFINE r == [tx[x] EXCEPT !.pc = "lock"]
<1>1. tx[x] \in Backend /\ PhaseOK(x, tx[x]) /\ KeysOK(x, tx[x]) /\ TidOK(x, tx[x])
  BY LocalFacts, Zenon
<1>2. PlaceOf(tx[x]) \in {"modify", "fetch"}
  BY Zenon DEF PlaceOf
<1>3. /\ proc[x] = "running" /\ clog[x] = "none" /\ tx[x].keys = <<>>
      /\ Place(x) \notin AfterWrite
      /\ stmt[x].op # "insert"
      /\ tx[x].tid \in Tid /\ Settled(heap[tx[x].tid].xmin)
  BY <1>1, <1>2, Zenon DEF PhaseOK, KeysOK, TidOK, Seeks, AfterWrite, Place
<1>4. r \in Backend /\ r.pc = "lock" /\ r.keys = <<>> /\ r.tid = tx[x].tid
  BY <1>1, <1>3, Zenon DEF Backend
<1>5. PlaceOf(r) = "lock"
  BY <1>4, Zenon DEF PlaceOf
<1>6. Local(x, r)
  BY Zenon DEF Goto
<1> HIDE DEF r
<1>7. QuietRec(x, r)
  BY <1>3, <1>4, <1>5, Zenon DEF QuietRec, LocalOK, PhaseOK, KeysOK, TidOK
<1> QED
  BY <1>4, <1>6, <1>7, QuietAction, Zenon DEF At

\* Meeting a row that was updated or deleted keeps it.
LEMMA GoneKeeps ==
    ASSUME UsersInv, NEW x \in Xact, At(x, "modify"), Seeks(x, tx[x]), Gone(x),
           UNCHANGED <<stmt, index, proc, clog, xlock>>
    PROVE  UsersInv'
<1>1. UNCHANGED heap /\ tuplock' \subseteq Tid \X Xact
  BY LocalFacts, Zenon DEF Gone
<1> QED
  BY <1>1, GotoLockKeeps, NoRowKeeps, Zenon DEF Gone, At

\* The backend goes on to the next version of the row, which a transaction that
\* has committed made.
LEMMA NextVersionKeeps ==
    ASSUME UsersInv, NEW x \in Xact, tx[x].pc \in {"lock", "fetch"},
           heap[tx[x].tid].ctid # tx[x].tid, Settled(heap[tx[x].tid].xmax),
           FollowChain(x),
           UNCHANGED <<stmt, heap, index, proc, clog, xlock>>,
           tuplock' \subseteq Tid \X Xact
    PROVE  UsersInv'
<1> DEFINE t == tx[x].tid
           r == [tx[x] EXCEPT !.pc = "fetch", !.tid = heap[t].ctid, !.prior = heap[t].xmax]
<1>1. tx[x] \in Backend /\ PhaseOK(x, tx[x]) /\ KeysOK(x, tx[x]) /\ TidOK(x, tx[x])
  BY LocalFacts, Zenon
<1>2. PlaceOf(tx[x]) \in {"lock", "fetch"}
  BY Zenon DEF PlaceOf
<1>3. /\ proc[x] = "running" /\ clog[x] = "none" /\ tx[x].keys = <<>>
      /\ Place(x) \notin AfterWrite
      /\ stmt[x].op # "insert"
      /\ t \in Tid
  BY <1>1, <1>2, Zenon DEF PhaseOK, KeysOK, TidOK, Seeks, AfterWrite, Place
<1>4. /\ heap[t].ctid \in Tid
      /\ heap[t].xmax \in Xid
      /\ heap[heap[t].ctid].xmin = heap[t].xmax
  BY <1>3, TupleTyped, Zenon DEF UsersInv, VersionInv, VersionOf
<1>5. heap[t].ctid \in 0 .. Len(heap)
  BY <1>4, SMTT(60) DEF Tid
<1>6. /\ r \in Backend /\ r.pc = "fetch" /\ r.keys = <<>>
      /\ r.tid = heap[t].ctid /\ r.prior = heap[t].xmax
  BY <1>1, <1>3, <1>4, <1>5, Zenon DEF Backend
<1>7. PlaceOf(r) = "fetch"
  BY <1>6, Zenon DEF PlaceOf
<1>8. Local(x, r)
  BY Zenon DEF FollowChain
<1> HIDE DEF r
<1>9. QuietRec(x, r)
  <2>1. TidOK(x, r)
    BY <1>3, <1>4, <1>6, <1>7, Zenon DEF TidOK
  <2> QED
    BY <1>3, <1>6, <1>7, <2>1, Zenon DEF QuietRec, LocalOK, PhaseOK, KeysOK
<1> QED
  BY <1>6, <1>8, <1>9, QuietAction, Zenon DEF At

\* A version that the dirty test turns down, though a commit made it: a commit
\* has replaced or deleted it.
LEMMA NotDirtyIs ==
    ASSUME UsersInv, NEW x \in Xact, tx[x].pc = "fetch",
           ~HeapTupleSatisfiesDirty(heap[tx[x].tid], x)
    PROVE  /\ heap[tx[x].tid].xmax # NoXid
           /\ ~heap[tx[x].tid].lockonly
           /\ Settled(heap[tx[x].tid].xmax)
<1> DEFINE v == heap[tx[x].tid]
<1>1. TidOK(x, tx[x])
  BY LocalFacts, Zenon
<1>2. PlaceOf(tx[x]) = "fetch"
  BY Zenon DEF PlaceOf
<1>3. tx[x].tid \in Tid /\ Settled(v.xmin)
  BY <1>1, <1>2, Zenon DEF TidOK, Seeks
<1>4. TransactionIdDidCommit(v.xmin)
  BY <1>3, Zenon DEF Settled, TransactionIdDidCommit
<1>5. /\ v.xmax # NoXid /\ ~v.lockonly
      /\ v.xmax # x => /\ ~TransactionIdIsInProgress(v.xmax)
                       /\ TransactionIdDidCommit(v.xmax)
  BY <1>4, Zenon DEF HeapTupleSatisfiesDirty
<1>6. v.xmax \in Xid
  BY <1>3, TupleTyped, Zenon DEF UsersInv
<1>7. v.xmax \in Xact
  BY <1>5, <1>6, Zenon DEF Xid
<1>8. VersionOf(tx[x].tid)
  BY <1>3, Zenon DEF UsersInv, VersionInv
<1>9. v.xmax # x
  <2>1. Place(x) \notin AfterWrite
    BY <1>2, Zenon DEF Place, AfterWrite
  <2> QED
    BY <1>5, <1>8, <2>1, Zenon DEF VersionOf, Writes
<1>10. proc[v.xmax] # "none"
  BY <1>7, <1>8, Zenon DEF VersionOf
<1> QED
  BY <1>5, <1>6, <1>9, <1>10, StatusKnown, Zenon DEF UsersInv

\* Following the chain of versions keeps it.
LEMMA FetchKeeps ==
    ASSUME UsersInv, NEW x \in Xact, heapam_tuple_lock(x)
    PROVE  UsersInv'
<1> DEFINE v == heap[tx[x].tid]
           dirty == HeapTupleSatisfiesDirty(v, x)
           xwait == DirtyWait(v, x)
<1>1. /\ tx[x] \in Backend
      /\ tx[x].pc = "fetch"
      /\ tuplock \subseteq Tid \X Xact
      /\ UNCHANGED <<stmt, heap, index, proc, clog, xlock, tuplock>>
  BY LocalFacts, Zenon DEF heapam_tuple_lock, At
<1>2. PlaceOf(tx[x]) = "fetch" /\ Seeks(x, tx[x])
  BY <1>1, Zenon DEF PlaceOf, Seeks
<1>3. tx[x].tid \in Tid
  BY <1>2, LocalFacts, Zenon DEF TidOK
<1>4. CASE Goto(x, "lock")
  BY <1>1, <1>2, <1>4, GotoLockKeeps, Zenon
<1>5. CASE Local(x, [tx[x] EXCEPT !.pc = "xactwait", !.back = "fetch", !.wait = xwait])
  <2> DEFINE r == [tx[x] EXCEPT !.pc = "xactwait", !.back = "fetch", !.wait = xwait]
  <2>1. xwait \in Xid
    BY <1>3, TupleTyped, Zenon DEF UsersInv, DirtyWait, Xid
  <2>2. /\ r \in Backend /\ r.pc = "xactwait" /\ r.back = "fetch"
        /\ r.keys = tx[x].keys /\ r.tid = tx[x].tid /\ r.snap = tx[x].snap
        /\ r.prior = tx[x].prior
    <3> HIDE DEF xwait
    <3> QED
      BY <1>1, <2>1, Zenon DEF Backend
  <2>3. Local(x, r)
    BY <1>5, Zenon
  <2> HIDE DEF r
  <2>4. PlaceOf(r) = Place(x)
    BY <1>2, <2>2, Zenon DEF PlaceOf, Place
  <2>5. QuietRec(x, r)
    BY <1>3, <2>2, <2>4, SamePlace, Zenon
  <2> QED
    BY <1>1, <2>2, <2>3, <2>5, QuietAction, Zenon DEF At
<1>6. CASE NoRow(x)
  BY <1>1, <1>6, NoRowKeeps, Zenon
<1>7. CASE ~dirty /\ v.ctid # tx[x].tid /\ FollowChain(x)
  <2>1. Settled(v.xmax)
    BY <1>1, <1>7, NotDirtyIs, Zenon
  <2> QED
    BY <1>1, <1>7, <2>1, NextVersionKeeps, Zenon
<1> QED
  BY <1>4, <1>5, <1>6, <1>7, Zenon DEF heapam_tuple_lock

\* The answer is given when the transaction is over, or never had an xid.
LEMMA AnsweredRec ==
    ASSUME UsersInv, NEW x \in Xact, proc[x] # "running"
    PROVE  LET r == [Idle EXCEPT !.pc = "done", !.rows = tx[x].rows, !.err = tx[x].err]
           IN  QuietRec(x, r) /\ r.pc = "done"
<1> DEFINE r == [Idle EXCEPT !.pc = "done", !.rows = tx[x].rows, !.err = tx[x].err]
<1>1. tx[x] \in Backend /\ PhaseOK(x, tx[x])
  BY LocalFacts, Zenon
<1>2. tx[x].rows \in SUBSET User /\ tx[x].err \in {"none", "unique", "cancel"}
  BY <1>1, Zenon DEF Backend
<1>3. Idle \in Backend
  <2>1. 0 \in 0 .. Len(heap)
    BY SMTT(60) DEF UsersInv, TypeOK
  <2>2. <<>> \in Seq(UserId \cup Email)
    BY SMTT(60)
  <2> QED
    BY <2>1, <2>2, Zenon DEF Idle, Backend, Xid
<1>4. Idle.keys = <<>>
  BY Zenon DEF Idle
<1>5. r \in Backend /\ r.pc = "done" /\ r.keys = <<>>
  BY <1>2, <1>3, <1>4, Zenon DEF Backend
<1>6. PlaceOf(r) = "done"
  BY <1>5, Zenon DEF PlaceOf
<1> HIDE DEF r
<1>7. QuietRec(x, r)
  <2>1. clog[x] = "none" <=> proc[x] = "none"
    BY <1>1, Zenon DEF PhaseOK
  <2> QED
    BY <1>5, <1>6, <2>1, Zenon
       DEF QuietRec, LocalOK, PhaseOK, KeysOK, TidOK, Seeks, AfterWrite
<1> QED
  BY <1>5, <1>7, Zenon DEF r

\* The end of a transaction that has no xid keeps it.
LEMMA EndWithoutXidKeeps ==
    ASSUME UsersInv, NEW x \in Xact, EndWithoutXid(x)
    PROVE  UsersInv'
<1> DEFINE r == [Idle EXCEPT !.pc = "done", !.rows = tx[x].rows, !.err = tx[x].err]
<1>1. /\ proc[x] = "none"
      /\ ~At(x, "release")
      /\ Local(x, r)
      /\ UNCHANGED <<stmt, heap, index, proc, clog, xlock, tuplock>>
      /\ tuplock \subseteq Tid \X Xact
  BY LocalFacts, Zenon DEF EndWithoutXid, Answered, At
<1>2. QuietRec(x, r) /\ r.pc = "done"
  BY <1>1, AnsweredRec, Zenon
<1> HIDE DEF r
<1> QED
  BY <1>1, <1>2, QuietAction, Zenon

\* Releasing the locks of a transaction keeps it.
LEMMA ReleaseKeeps ==
    ASSUME UsersInv, NEW x \in Xact, ResourceOwnerRelease(x)
    PROVE  UsersInv'
<1> DEFINE r == [Idle EXCEPT !.pc = "done", !.rows = tx[x].rows, !.err = tx[x].err]
<1>1. /\ tx[x].pc = "release"
      /\ Local(x, r)
      /\ xlock' = xlock \ {x}
      /\ UNCHANGED <<stmt, heap, index, proc, clog>>
      /\ tuplock' \subseteq Tid \X Xact
  BY LocalFacts, Zenon DEF ResourceOwnerRelease, Answered, At
<1>2. proc[x] # "running"
  BY <1>1, LocalFacts, Zenon DEF PhaseOK, PlaceOf
<1>3. QuietRec(x, r) /\ r.pc = "done"
  BY <1>2, AnsweredRec, Zenon
<1> HIDE DEF r
<1>4. xlock' = {y \in Xact : proc[y] = "running" \/ At(y, "release")'}
  <2>1. TypeOK
    BY Zenon DEF UsersInv
  <2>2. tx'[x] = r /\ \A y \in Xact : y # x => tx'[y] = tx[y]
    BY <1>1, <2>1, LocalStep, Zenon
  <2>3. xlock = {y \in Xact : proc[y] = "running" \/ At(y, "release")}
    BY <2>1, Zenon DEF TypeOK
  <2> QED
    BY <1>1, <1>2, <1>3, <2>2, <2>3, Zenon DEF At
<1> QED
  BY <1>1, <1>3, <1>4, QuietStep, Zenon

\* A cancellation keeps it.
LEMMA InterruptKeeps ==
    ASSUME UsersInv, NEW x \in Xact, ProcessInterrupts(x)
    PROVE  UsersInv'
BY FailKeeps, Zenon DEF ProcessInterrupts

-----------------------------------------------------------------------------
(* Steps that change the status of a transaction. *)

\* A step that moves one transaction on (it gets its xid, is recorded, ends)
\* and leaves its tuple and keys alone keeps the invariant.
LEMMA StatusStep ==
    ASSUME UsersInv, NEW x \in Xact, NEW r \in Backend, Local(x, r),
           UNCHANGED <<stmt, heap, index, tuplock>>,
           proc' \in [Xact -> {"none", "running", "ended"}],
           clog' \in [Xact -> {"none", "committed", "aborted"}],
           xlock' = {y \in Xact : proc'[y] = "running" \/ At(y, "release")'},
           \A y \in Xact : y # x => proc'[y] = proc[y] /\ clog'[y] = clog[y],
           proc[x] # "ended", proc'[x] # "none",
           LocalOK(x, tx[x])',
           r.tid = tx[x].tid, r.keys = tx[x].keys,
           Place(x) \in AfterWrite => PlaceOf(r) \in AfterWrite
    PROVE  UsersInv'
<1>1. TypeOK /\ BackendInv /\ VersionInv /\ IndexInv /\ UniqueInv
  BY Zenon DEF UsersInv
<1>2. /\ tx'[x] = r
      /\ \A y \in Xact : y # x => tx'[y] = tx[y]
      /\ \A y \in Xact : y # x => Place(y)' = Place(y)
  BY <1>1, LocalStep, Zenon
<1>3. TypeOK'
  <2>1. tx' \in [Xact -> Backend']
    <3>1. Len(heap) \in Nat /\ heap' = heap
      BY <1>1, SMTT(60) DEF TypeOK
    <3>2. Len(heap) <= Len(heap') /\ Len(heap') \in Nat
      BY <3>1, SMT
    <3>3. r \in Backend'
      BY <3>1, Zenon DEF Backend
    <3> QED
      BY <1>1, <3>2, <3>3, LocalType, Zenon
  <2> QED
    BY <1>1, <2>1, Zenon DEF TypeOK, Tid
<1>4. /\ \A y \in Xid : Settled(y) => Settled(y)'
      /\ \A y \in Xid : Aborted(y) => Aborted(y)'
      /\ \A y \in Xact : proc[y] = "ended" => proc'[y] = "ended"
      /\ \A y \in Xact : proc[y] # "none" => proc'[y] # "none"
  BY Zenon DEF Settled, Aborted, Xid
<1>5. BackendInv'
  <2>1. ASSUME NEW y \in Xact, y # x
        PROVE  LocalOK(y, tx[y])'
    <3>1. PhaseOK(y, tx[y]) /\ KeysOK(y, tx[y]) /\ TidOK(y, tx[y])
      BY <1>1, Zenon DEF BackendInv, LocalOK
    <3>2. tx'[y] = tx[y] /\ proc'[y] = proc[y] /\ clog'[y] = clog[y]
      BY <1>2, <2>1, Zenon
    <3>3. PhaseOK(y, tx[y])'
      BY <1>4, <3>1, <3>2, Zenon DEF PhaseOK
    <3>4. KeysOK(y, tx[y])'
      BY <3>1, <3>2, Zenon DEF KeysOK
    <3>5. TidOK(y, tx[y])'
      <4>1. \A t \in Tid : Settled(heap[t].xmin) => Settled(heap[t].xmin)'
        BY <1>1, <1>4, TupleTyped, Zenon DEF Settled
      <4>2. /\ tx[y].pc = "tuplock" => tx[y].tid \in Tid
            /\ Seeks(y, tx[y]) => tx[y].tid \in Tid /\ Settled(heap[tx[y].tid].xmin)'
            /\ PlaceOf(tx[y]) = "fetch" => heap[tx[y].tid].xmin = tx[y].prior
            /\ PlaceOf(tx[y]) = "index" =>
                  /\ tx[y].tid \in Tid
                  /\ heap[tx[y].tid].xmin = y
                  /\ \A t \in Tid : heap[t].xmax = y /\ ~heap[t].lockonly
                                        => heap[t].ctid = tx[y].tid
        BY <3>1, <3>2, <4>1, ZenonT(60) DEF TidOK, Settled
      <4>3. heap' = heap /\ stmt' = stmt /\ Tid' = Tid
        BY Zenon DEF Tid
      <4>4. Seeks(y, tx[y])' => Seeks(y, tx[y])
        BY <3>2, <4>3, Zenon DEF Seeks
      <4> QED
        BY <3>2, <4>2, <4>3, <4>4, Zenon DEF TidOK, Settled
    <3> QED
      BY <3>3, <3>4, <3>5, Zenon DEF LocalOK
  <2> QED
    BY <2>1, Zenon DEF BackendInv
<1>6. VersionInv'
  <2>1. \A y \in Xact : Place(y) \in AfterWrite => Place(y)' \in AfterWrite
    BY <1>2, Zenon DEF Place
  <2> QED
    BY <1>1, <1>4, <2>1, VersionQuiet, Zenon
<1>7. IndexInv'
  <2> SUFFICES ASSUME NEW t \in Tid, NEW k \in {heap[t].row.user_id, heap[t].row.email}
               PROVE  Aborted(heap[t].xmin)' \/ Covered(k, t)' \/ Pending(k, t)'
    BY Zenon DEF IndexInv, Tid
  <2>1. Aborted(heap[t].xmin) \/ Covered(k, t) \/ Pending(k, t)
    BY <1>1, Zenon DEF IndexInv
  <2>2. Aborted(heap[t].xmin) => Aborted(heap[t].xmin)'
    BY <1>1, <1>4, TupleTyped, Zenon DEF Aborted
  <2>3. Covered(k, t) => Covered(k, t)'
    BY Zenon DEF Covered
  <2>4. Pending(k, t) => Pending(k, t)'
    <3>1. \A y \in Xact : tx'[y].tid = tx[y].tid /\ tx'[y].keys = tx[y].keys
      BY <1>2, Zenon
    <3>2. SUFFICES ASSUME Pending(k, t) PROVE Pending(k, t)'
      BY Zenon
    <3>3. PICK y \in Xact : /\ heap[t].xmin = y
                            /\ tx[y].tid = t
                            /\ \E i \in DOMAIN tx[y].keys : tx[y].keys[i] = k
      BY <3>2, Zenon DEF Pending
    <3>4. /\ heap'[t].xmin = y
          /\ tx'[y].tid = t
          /\ \E i \in DOMAIN tx'[y].keys : tx'[y].keys[i] = k
      BY <3>1, <3>3, Zenon
    <3> QED
      BY <3>4, Zenon DEF Pending
  <2> QED
    BY <2>1, <2>2, <2>3, <2>4, Zenon
<1>8. UniqueInv'
  <2> SUFFICES ASSUME NEW k \in UserId \cup Email, NEW s \in Tid, NEW t \in Tid, s # t,
                      Covered(k, s), Covered(k, t), Alive(s)', Alive(t)'
               PROVE  Replacing(s, t)' \/ Replacing(t, s)'
    BY Zenon DEF UniqueInv, Covered, Tid
  <2>1. \A u \in Tid : Alive(u)' => Alive(u)
    BY <1>1, <1>4, TupleTyped, Zenon DEF Alive, Settled, Aborted
  <2>2. Replacing(s, t) \/ Replacing(t, s)
    BY <1>1, <2>1, Zenon DEF UniqueInv
  <2>3. ASSUME NEW a \in Tid, NEW b \in Tid, a # b, Replacing(a, b), Alive(a)', Alive(b)'
        PROVE  Replacing(a, b)'
    <3>1. /\ heap[a].ctid = b
          /\ heap[a].xmax \in Xact
          /\ proc[heap[a].xmax] = "running"
      BY <2>3, Zenon DEF Replacing
    <3>2. CASE heap[a].xmax # x
      BY <3>1, <3>2, Zenon DEF Replacing
    <3>3. CASE heap[a].xmax = x
      <4>1. ~heap[a].lockonly /\ heap[b].xmin = x
        BY <1>1, <2>3, <3>1, <3>3, Zenon DEF VersionInv, VersionOf
      <4>2. x # NoXid
        BY UsersHeapAssumption, Zenon
      <4>3. ~Aborted(x)' /\ ~Settled(x)'
        BY <2>3, <3>3, <4>1, <4>2, Zenon DEF Alive, Aborted, Settled
      <4>4. proc'[x] = "ended" => clog'[x] # "none"
        BY Zenon DEF LocalOK, PhaseOK
      <4>5. /\ proc'[x] \in {"none", "running", "ended"}
            /\ clog'[x] \in {"none", "committed", "aborted"}
        BY Zenon
      <4>6. proc'[x] = "running"
        BY <4>2, <4>3, <4>4, <4>5, Zenon DEF Aborted, Settled
      <4> QED
        BY <3>1, <3>3, <4>6, Zenon DEF Replacing
    <3> QED
      BY <3>2, <3>3, Zenon
  <2> QED
    BY <2>2, <2>3, Zenon
<1> QED
  BY <1>3, <1>5, <1>6, <1>7, <1>8, ZenonT(60) DEF UsersInv

\* A backend that goes on without changing anything else of its local state.
LEMMA GotoRec ==
    ASSUME UsersInv, NEW x \in Xact, NEW where \in {"modify", "recorded", "release"},
           Goto(x, where)
    PROVE  \E r \in Backend :
              /\ Local(x, r) /\ tx'[x] = r
              /\ r.pc = where /\ r.tid = tx[x].tid /\ r.keys = tx[x].keys
              /\ PlaceOf(r) = where
              /\ \A y \in Xact : y # x => tx'[y] = tx[y]
<1> DEFINE r == [tx[x] EXCEPT !.pc = where]
<1>1. TypeOK /\ tx[x] \in Backend
  BY LocalFacts, Zenon DEF UsersInv
<1>2. r \in Backend /\ r.pc = where /\ r.tid = tx[x].tid /\ r.keys = tx[x].keys
  BY <1>1, Zenon DEF Backend
<1>3. Local(x, r)
  BY Zenon DEF Goto
<1> HIDE DEF r
<1>4. PlaceOf(r) = where
  BY <1>2, Zenon DEF PlaceOf
<1>5. tx'[x] = r /\ \A y \in Xact : y # x => tx'[y] = tx[y]
  BY <1>1, <1>3, LocalStep, Zenon
<1> QED
  BY <1>2, <1>3, <1>4, <1>5, Zenon

\* GetCurrentTransactionId.
LEMMA AssignKeeps ==
    ASSUME UsersInv, NEW x \in Xact, AssignTransactionId(x)
    PROVE  UsersInv'
<1>1. /\ tx[x].pc = "xid" /\ Goto(x, "modify")
      /\ proc' = [proc EXCEPT ![x] = "running"]
      /\ xlock' = xlock \cup {x}
      /\ UNCHANGED <<stmt, heap, index, clog, tuplock>>
  BY Zenon DEF AssignTransactionId, At
<1>2. PICK r \in Backend :
              /\ Local(x, r) /\ tx'[x] = r
              /\ r.pc = "modify" /\ r.tid = tx[x].tid /\ r.keys = tx[x].keys
              /\ PlaceOf(r) = "modify"
              /\ \A y \in Xact : y # x => tx'[y] = tx[y]
  BY <1>1, GotoRec, Zenon
<1>3. PlaceOf(tx[x]) = "xid"
  BY <1>1, Zenon DEF PlaceOf
<1>4. TypeOK /\ PhaseOK(x, tx[x]) /\ KeysOK(x, tx[x]) /\ TidOK(x, tx[x])
  BY LocalFacts, Zenon DEF UsersInv
<1>5. proc[x] = "none" /\ clog[x] = "none" /\ tx[x].keys = <<>>
  BY <1>3, <1>4, Zenon DEF PhaseOK, KeysOK
<1>6. /\ proc' \in [Xact -> {"none", "running", "ended"}]
      /\ clog' \in [Xact -> {"none", "committed", "aborted"}]
      /\ proc'[x] = "running"
      /\ \A y \in Xact : y # x => proc'[y] = proc[y] /\ clog'[y] = clog[y]
      /\ xlock = {y \in Xact : proc[y] = "running" \/ At(y, "release")}
  BY <1>1, <1>4, Zenon DEF TypeOK
<1>7. xlock' = {y \in Xact : proc'[y] = "running" \/ At(y, "release")'}
  BY <1>1, <1>2, <1>6, ZenonT(60) DEF At
<1>8. LocalOK(x, tx[x])'
  <2>1. PhaseOK(x, tx[x])'
    BY <1>1, <1>2, <1>5, <1>6, Zenon DEF PhaseOK
  <2>2. KeysOK(x, tx[x])'
    BY <1>1, <1>2, <1>5, <1>6, Zenon DEF KeysOK
  <2>3. TidOK(x, tx[x])'
    <3>1. stmt[x].op # "insert" => tx[x].tid \in Tid /\ Settled(heap[tx[x].tid].xmin)
      BY <1>3, <1>4, Zenon DEF TidOK, Seeks
    <3>2. stmt[x].op # "insert" => Settled(heap[tx[x].tid].xmin)'
      <4>1. \A y \in Xid : Settled(y) => Settled(y)'
        BY <1>1, <1>5, <1>6, Zenon DEF Settled, Xid
      <4>2. tx[x].tid \in Tid => heap[tx[x].tid].xmin \in Xid
        BY <1>4, TupleTyped, Zenon
      <4>3. stmt[x].op # "insert" => Settled(heap[tx[x].tid].xmin)
                                     /\ heap[tx[x].tid].xmin \in Xid
        BY <3>1, <4>2, Zenon
      <4> QED
        BY <1>1, <1>2, <4>1, <4>3, ZenonT(60) DEF Settled
    <3>3. Seeks(x, tx[x])' => stmt[x].op # "insert"
      BY <1>1, <1>2, Zenon DEF Seeks
    <3> QED
      BY <1>1, <1>2, <3>1, <3>2, <3>3, Zenon DEF TidOK, Tid, Settled
  <2> QED
    BY <2>1, <2>2, <2>3, Zenon DEF LocalOK
<1>9. Place(x) \notin AfterWrite
  BY <1>3, Zenon DEF Place, AfterWrite
<1>10. proc[x] # "ended" /\ proc'[x] # "none"
  BY <1>5, <1>6, Zenon
<1> QED
  BY <1>1, <1>2, <1>6, <1>7, <1>8, <1>9, <1>10, StatusStep, Zenon

\* RecordTransactionCommit and RecordTransactionAbort.
LEMMA RecordKeeps ==
    ASSUME UsersInv, NEW x \in Xact, RecordTransactionEnd(x)
    PROVE  UsersInv'
<1>1. /\ tx[x].pc \in {"commit", "abort"} /\ Goto(x, "recorded")
      /\ proc[x] = "running"
      /\ clog' = [clog EXCEPT ![x] = IF At(x, "commit") THEN "committed" ELSE "aborted"]
      /\ UNCHANGED <<stmt, heap, index, proc, xlock, tuplock>>
  BY Zenon DEF RecordTransactionEnd, At
<1>2. PICK r \in Backend :
              /\ Local(x, r) /\ tx'[x] = r
              /\ r.pc = "recorded" /\ r.tid = tx[x].tid /\ r.keys = tx[x].keys
              /\ PlaceOf(r) = "recorded"
              /\ \A y \in Xact : y # x => tx'[y] = tx[y]
  BY <1>1, GotoRec, Zenon
<1>3. PlaceOf(tx[x]) = tx[x].pc
  BY <1>1, Zenon DEF PlaceOf
<1>4. TypeOK /\ PhaseOK(x, tx[x]) /\ KeysOK(x, tx[x]) /\ TidOK(x, tx[x])
  BY LocalFacts, Zenon DEF UsersInv
<1>5. At(x, "commit") => tx[x].keys = <<>>
  BY <1>3, <1>4, Zenon DEF KeysOK, At
<1>6. /\ clog' \in [Xact -> {"none", "committed", "aborted"}]
      /\ clog'[x] = IF At(x, "commit") THEN "committed" ELSE "aborted"
      /\ proc' \in [Xact -> {"none", "running", "ended"}]
      /\ proc'[x] = "running"
      /\ \A y \in Xact : y # x => proc'[y] = proc[y] /\ clog'[y] = clog[y]
      /\ xlock = {y \in Xact : proc[y] = "running" \/ At(y, "release")}
  BY <1>1, <1>4, Zenon DEF TypeOK
<1>7. xlock' = {y \in Xact : proc'[y] = "running" \/ At(y, "release")'}
  <2>1. ~At(x, "release")' /\ ~At(x, "release")
    BY <1>1, <1>2, Zenon DEF At
  <2>2. \A y \in Xact : y # x => (At(y, "release")' <=> At(y, "release"))
    BY <1>2, Zenon DEF At
  <2> QED
    BY <1>1, <1>6, <2>1, <2>2, Zenon
<1>8. LocalOK(x, tx[x])'
  <2>1. PhaseOK(x, tx[x])'
    BY <1>1, <1>2, <1>5, <1>6, Zenon DEF PhaseOK
  <2>2. KeysOK(x, tx[x])'
    BY <1>1, <1>2, <1>5, <1>6, Zenon DEF KeysOK
  <2>3. TidOK(x, tx[x])'
    BY <1>1, <1>2, Zenon DEF TidOK, Seeks
  <2> QED
    BY <2>1, <2>2, <2>3, Zenon DEF LocalOK
<1>9. PlaceOf(r) \in AfterWrite
  BY <1>2, Zenon DEF AfterWrite
<1>10. proc[x] # "ended" /\ proc'[x] # "none"
  BY <1>1, <1>6, Zenon
<1> QED
  BY <1>1, <1>2, <1>6, <1>7, <1>8, <1>9, <1>10, StatusStep, Zenon

\* ProcArrayEndTransaction.
LEMMA ProcArrayKeeps ==
    ASSUME UsersInv, NEW x \in Xact, ProcArrayEndTransaction(x)
    PROVE  UsersInv'
<1>1. /\ tx[x].pc = "recorded" /\ Goto(x, "release")
      /\ proc' = [proc EXCEPT ![x] = "ended"]
      /\ UNCHANGED <<stmt, heap, index, clog, xlock, tuplock>>
  BY Zenon DEF ProcArrayEndTransaction, At
<1>2. PICK r \in Backend :
              /\ Local(x, r) /\ tx'[x] = r
              /\ r.pc = "release" /\ r.tid = tx[x].tid /\ r.keys = tx[x].keys
              /\ PlaceOf(r) = "release"
              /\ \A y \in Xact : y # x => tx'[y] = tx[y]
  BY <1>1, GotoRec, Zenon
<1>3. PlaceOf(tx[x]) = "recorded"
  BY <1>1, Zenon DEF PlaceOf
<1>4. TypeOK /\ PhaseOK(x, tx[x]) /\ KeysOK(x, tx[x]) /\ TidOK(x, tx[x])
  BY LocalFacts, Zenon DEF UsersInv
<1>5. proc[x] = "running" /\ clog[x] # "none"
  BY <1>3, <1>4, Zenon DEF PhaseOK
<1>6. /\ proc' \in [Xact -> {"none", "running", "ended"}]
      /\ clog' \in [Xact -> {"none", "committed", "aborted"}]
      /\ proc'[x] = "ended"
      /\ \A y \in Xact : y # x => proc'[y] = proc[y] /\ clog'[y] = clog[y]
      /\ xlock = {y \in Xact : proc[y] = "running" \/ At(y, "release")}
  BY <1>1, <1>4, Zenon DEF TypeOK
<1>7. xlock' = {y \in Xact : proc'[y] = "running" \/ At(y, "release")'}
  BY <1>1, <1>2, <1>5, <1>6, ZenonT(60) DEF At
<1>8. LocalOK(x, tx[x])'
  <2>1. PhaseOK(x, tx[x])'
    BY <1>1, <1>2, <1>5, <1>6, Zenon DEF PhaseOK
  <2>2. KeysOK(x, tx[x])'
    BY <1>1, <1>2, <1>4, <1>6, Zenon DEF KeysOK
  <2>3. TidOK(x, tx[x])'
    BY <1>1, <1>2, Zenon DEF TidOK, Seeks
  <2> QED
    BY <2>1, <2>2, <2>3, Zenon DEF LocalOK
<1>9. PlaceOf(r) \in AfterWrite
  BY <1>2, Zenon DEF AfterWrite
<1>10. proc[x] # "ended" /\ proc'[x] # "none"
  BY <1>5, <1>6, Zenon
<1> QED
  BY <1>1, <1>2, <1>6, <1>7, <1>8, <1>9, <1>10, StatusStep, Zenon
===============================================================================
