-------------------------- MODULE UsersHeapSafeProof --------------------------
(***************************************************************************)
(* Proofs about UsersHeap: the steps that enter keys in the unique indexes *)
(* and that write the heap keep UsersInv of UsersHeapProof, and what       *)
(* follows from UsersInv.                                                  *)
(***************************************************************************)
EXTENDS UsersHeapProof, WellFoundedInduction

\* A set of tuple identifiers has a least one.
LEMMA LeastTid ==
    ASSUME NEW T \in SUBSET Nat, T # {}
    PROVE  \E s \in T : \A r \in T : s <= r
<1> DEFINE R == OpToRel(<, Nat)
<1>1. IsWellFoundedOn(R, Nat)
  BY NatLessThanWellFounded, Zenon
<1>2. \A i, j \in Nat : i < j => <<i, j>> \in R
  BY SMT DEF OpToRel
<1> HIDE DEF R
<1>3. PICK s \in T : \A r \in T : ~(<<r, s>> \in R)
  BY <1>1, WFMin, Zenon
<1>4. \A r \in T : ~(r < s)
  BY <1>2, <1>3, Zenon
<1>5. \A r \in T : s <= r
  BY <1>4, SMT
<1> QED
  BY <1>5, Zenon

-----------------------------------------------------------------------------
(* The unique indexes. *)

\* The duplicates of a key are tuples of the heap.
LEMMA DuplicateTyped ==
    ASSUME TypeOK, NEW x, NEW key, NEW t \in Duplicates(key, x)
    PROVE  t \in Tid
<1> DEFINE live(r) == {s \in HotChain(heap, r) : HeapTupleSatisfiesDirty(heap[s], x)}
<1>1. PICK e \in index : /\ live(e[2]) # {}
                         /\ t = CHOOSE s \in live(e[2]) : \A r \in live(e[2]) : s <= r
  BY Zenon DEF Duplicates
<1> DEFINE L == live(e[2])
<1>2. DOMAIN heap = Tid
  BY DomainIsTid, Zenon
<1>3. L \subseteq Tid
  BY <1>2, Zenon DEF HotChain
<1>4. L \in SUBSET Nat
  BY <1>3, SMT DEF Tid
<1>5. t = CHOOSE s \in L : \A r \in L : s <= r
  BY <1>1, Zenon
<1>6. L # {}
  BY <1>1, Zenon
<1> HIDE DEF L
<1>7. \E s \in L : \A r \in L : s <= r
  BY <1>4, <1>6, LeastTid, Zenon
<1>8. t \in L
  BY <1>5, <1>7, Zenon
<1> QED
  BY <1>3, <1>8, Zenon

\* _bt_check_unique found nothing: no live tuple has the key in this index.
LEMMA NoDuplicate ==
    ASSUME NEW x, NEW key, Duplicates(key, x) = {}, NEW t, Covered(key, t)
    PROVE  ~HeapTupleSatisfiesDirty(heap[t], x)
<1> DEFINE live(r) == {s \in HotChain(heap, r) : HeapTupleSatisfiesDirty(heap[s], x)}
<1>1. PICK r \in DOMAIN heap : <<key, r>> \in index /\ t \in HotChain(heap, r)
  BY Zenon DEF Covered
<1>2. SUFFICES ASSUME HeapTupleSatisfiesDirty(heap[t], x) PROVE FALSE
  BY Zenon
<1> DEFINE e == <<key, r>>
<1>3. e[1] = key /\ e[2] = r /\ e \in index
  BY <1>1, Zenon
<1> HIDE DEF e
<1>4. live(e[2]) # {}
  BY <1>1, <1>2, <1>3, Zenon
<1>5. e \in {f \in index : f[1] = key /\ live(f[2]) # {}}
  BY <1>3, <1>4, Zenon
<1> DEFINE first(q) == CHOOSE s \in live(q) : \A u \in live(q) : s <= u
           E == {f \in index : f[1] = key /\ live(f[2]) # {}}
<1>6. Duplicates(key, x) = {first(f[2]) : f \in E}
  BY Zenon DEF Duplicates
<1>7. e \in E
  BY <1>5, Zenon
<1> HIDE DEF E, first
<1>8. first(e[2]) \in {first(f[2]) : f \in E}
  BY <1>7, Zenon
<1> QED
  BY <1>6, <1>8, Zenon

\* The version a backend enters in the indexes is its own and the last one.
LEMMA OwnVersion ==
    ASSUME UsersInv, NEW x \in Xact, tx[x].pc = "index"
    PROVE  LET t == tx[x].tid
           IN  /\ t \in Tid
               /\ heap[t].xmin = x
               /\ proc[x] = "running"
               /\ HotChain(heap, t) = {t}
               /\ \A s \in Tid : heap[s].xmax = x /\ ~heap[s].lockonly => heap[s].ctid = t
<1> DEFINE t == tx[x].tid
<1>1. PlaceOf(tx[x]) = "index"
  BY Zenon DEF PlaceOf
<1>2. TypeOK /\ PhaseOK(x, tx[x]) /\ TidOK(x, tx[x])
  BY LocalFacts, Zenon DEF UsersInv
<1>3. /\ t \in Tid
      /\ heap[t].xmin = x
      /\ proc[x] = "running"
      /\ \A s \in Tid : heap[s].xmax = x /\ ~heap[s].lockonly => heap[s].ctid = t
  BY <1>1, <1>2, Zenon DEF TidOK, PhaseOK
<1>4. x # NoXid
  BY UsersHeapAssumption, Zenon
<1>5. ~Settled(heap[t].xmin)
  BY <1>3, <1>4, Zenon DEF Settled
<1>6. heap[t].ctid = t
  BY <1>3, <1>5, Zenon DEF UsersInv, VersionInv, VersionOf
<1>7. DOMAIN heap = Tid
  BY <1>2, DomainIsTid, Zenon
<1>8. HotClosed(heap, {t})
  BY <1>6, Zenon DEF HotClosed, HotLink
<1>9. HotChain(heap, t) \subseteq {t}
  BY <1>3, <1>7, <1>8, ChainLeast, ZenonT(60)
<1>10. t \in HotChain(heap, t)
  BY <1>3, <1>7, ChainRoot, Zenon
<1> QED
  BY <1>3, <1>9, <1>10, Zenon

\* The check under the lock of the leaf page found no live tuple, so every
\* version with the key that is not dead is one the backend itself replaces.
LEMMA OnlyReplaced ==
    ASSUME UsersInv, NEW x \in Xact, tx[x].pc = "index", NEW key,
           Duplicates(key, x) = {}, NEW s \in Tid, Covered(key, s), Alive(s)
    PROVE  Replacing(s, tx[x].tid)
<1> DEFINE v == heap[s]
<1>1. ~HeapTupleSatisfiesDirty(v, x)
  BY NoDuplicate, Zenon
<1>2. TypeOK /\ BackendInv /\ VersionOf(s)
  BY Zenon DEF UsersInv, VersionInv
<1>3. v.xmin \in Xid /\ v.xmax \in Xid
  BY <1>2, TupleTyped, Zenon
<1>4. /\ v.xmin # NoXid => proc[v.xmin] # "none"
      /\ v.xmax # NoXid => proc[v.xmax] # "none"
  BY <1>2, <1>3, Zenon DEF VersionOf, Xid
<1>5. \/ TransactionIdIsInProgress(v.xmin)
      \/ TransactionIdDidCommit(v.xmin)
      \/ Aborted(v.xmin)
  BY <1>2, <1>3, <1>4, StatusKnown, Zenon
<1>6. /\ ~TransactionIdIsInProgress(v.xmax) /\ TransactionIdDidCommit(v.xmax) => Settled(v.xmax)
  BY <1>2, <1>3, <1>4, StatusKnown, Zenon
<1>7. v.xmax = x /\ ~v.lockonly
  BY <1>1, <1>5, <1>6, Zenon DEF Alive, HeapTupleSatisfiesDirty
<1> QED
  BY <1>7, OwnVersion, ZenonT(60) DEF Replacing

\* Entering a key that has no duplicate keeps the invariant.
LEMMA EnterKeeps ==
    ASSUME UsersInv, NEW x \in Xact, NEW key, NEW rest, tx[x].pc = "index",
           key = Head(tx[x].keys), rest = Tail(tx[x].keys),
           Duplicates(key, x) = {},
           index' = index \cup {<<key, tx[x].tid>>},
           Local(x, [tx[x] EXCEPT !.pc = IF rest = <<>> THEN "commit" ELSE "index",
                                  !.keys = rest]),
           UNCHANGED <<stmt, heap, proc, clog, xlock, tuplock>>
    PROVE  UsersInv'
<1> DEFINE r == [tx[x] EXCEPT !.pc = IF rest = <<>> THEN "commit" ELSE "index",
                              !.keys = rest]
<1> PICK t : t = tx[x].tid
  BY Zenon
<1>1. TypeOK /\ BackendInv /\ VersionInv /\ IndexInv /\ UniqueInv
  BY Zenon DEF UsersInv
<1>2. tx[x] \in Backend /\ PhaseOK(x, tx[x]) /\ KeysOK(x, tx[x]) /\ TidOK(x, tx[x])
  BY LocalFacts, Zenon
<1>3. PlaceOf(tx[x]) = "index"
  BY Zenon DEF PlaceOf
<1>4. tx[x].keys \in Seq(UserId \cup Email) /\ tx[x].keys # <<>>
  BY <1>2, <1>3, Zenon DEF KeysOK, Backend
<1>5. /\ key \in UserId \cup Email
      /\ rest \in Seq(UserId \cup Email)
      /\ \A i \in DOMAIN tx[x].keys :
            tx[x].keys[i] = key \/ \E j \in DOMAIN rest : rest[j] = tx[x].keys[i]
  <2> DEFINE K == tx[x].keys
  <2>1. K \in Seq(UserId \cup Email) /\ K # <<>> /\ key = Head(K) /\ rest = Tail(K)
    BY <1>4, Zenon
  <2> HIDE DEF K
  <2>2. /\ Head(K) \in UserId \cup Email
        /\ Tail(K) \in Seq(UserId \cup Email)
        /\ Len(Tail(K)) = Len(K)-1
        /\ \A i \in 1 .. Len(Tail(K)) : Tail(K)[i] = K[i+1]
    BY <2>1, HeadTailProperties, ZenonT(60)
  <2>3. Head(K) = K[1] /\ DOMAIN K = 1 .. Len(K) /\ DOMAIN Tail(K) = 1 .. Len(Tail(K))
        /\ Len(K) \in Nat
    BY <2>1, <2>2, SMTT(60)
  <2>4. ASSUME NEW i \in 1 .. Len(K), i # 1
        PROVE  (i - 1) \in 1 .. Len(Tail(K)) /\ Tail(K)[i - 1] = K[i]
    BY <2>2, <2>3, <2>4, SMTT(60)
  <2>5. \A i \in DOMAIN K : K[i] = key \/ \E j \in DOMAIN rest : rest[j] = K[i]
    BY <2>1, <2>3, <2>4, Zenon
  <2> QED
    BY <2>1, <2>2, <2>5, Zenon DEF K
<1>6. /\ t \in Tid
      /\ heap[t].xmin = x
      /\ proc[x] = "running"
      /\ HotChain(heap, t) = {t}
      /\ \A s \in Tid : heap[s].xmax = x /\ ~heap[s].lockonly => heap[s].ctid = t
  BY OwnVersion, ZenonT(60)
<1>7. /\ r \in Backend /\ r.keys = rest /\ r.tid = t
      /\ r.pc = IF rest = <<>> THEN "commit" ELSE "index"
  BY <1>2, <1>5, Zenon DEF Backend
<1>8. Local(x, r)
  BY Zenon
<1> HIDE DEF r
<1>9. /\ tx'[x] = r
      /\ \A y \in Xact : y # x => tx'[y] = tx[y]
      /\ \A y \in Xact : y # x => Place(y)' = Place(y)
  BY <1>1, <1>8, LocalStep, Zenon
<1>10. /\ PlaceOf(r) = IF rest = <<>> THEN "commit" ELSE "index"
       /\ r.pc \notin {"tuplock", "release"}
  BY <1>7, Zenon DEF PlaceOf
<1>11. TypeOK'
  <2>1. tx' \in [Xact -> Backend']
    <3>1. Len(heap) \in Nat /\ heap' = heap
      BY <1>1, SMTT(60) DEF TypeOK
    <3>2. Len(heap) <= Len(heap') /\ Len(heap') \in Nat
      BY <3>1, SMT
    <3>3. r \in Backend'
      BY <1>7, <3>1, Zenon DEF Backend
    <3> QED
      BY <1>1, <1>8, <3>2, <3>3, LocalType, ZenonT(60)
  <2>2. index' \subseteq (UserId \cup Email) \X Tid
    BY <1>1, <1>5, <1>6, SMTT(60) DEF TypeOK
  <2>3. xlock' = {y \in Xact : proc'[y] = "running" \/ At(y, "release")'}
    <3>1. \A y \in Xact : At(y, "release")' <=> At(y, "release")
      BY <1>9, <1>10, Zenon DEF At
    <3> QED
      BY <1>1, <3>1, Zenon DEF TypeOK
  <2> QED
    BY <1>1, <2>1, <2>2, <2>3, Zenon DEF TypeOK, Tid
<1>12. BackendInv'
  <2>1. LocalOK(x, r)
    <3>1. proc[x] = "running" /\ clog[x] = "none"
      BY <1>2, <1>3, <1>6, Zenon DEF PhaseOK
    <3>2. PhaseOK(x, r)
      BY <1>10, <3>1, Zenon DEF PhaseOK
    <3>3. KeysOK(x, r)
      BY <1>7, <1>10, <3>1, Zenon DEF KeysOK
    <3>4. TidOK(x, r)
      BY <1>6, <1>7, <1>10, Zenon DEF TidOK, Seeks
    <3> QED
      BY <3>2, <3>3, <3>4, ZenonT(60) DEF LocalOK
  <2>2. \A y \in Xact : LocalOK(y, tx'[y])
    BY <1>1, <1>9, <2>1, Zenon DEF BackendInv
  <2>3. ASSUME NEW y \in Xact
        PROVE  LocalOK(y, tx[y])'
    <3>1. PhaseOK(y, tx'[y]) /\ KeysOK(y, tx'[y]) /\ TidOK(y, tx'[y])
      BY <2>2, Zenon DEF LocalOK
    <3>2. PhaseOK(y, tx[y])'
      BY <3>1, Zenon DEF PhaseOK
    <3>3. KeysOK(y, tx[y])'
      BY <3>1, Zenon DEF KeysOK
    <3>4. TidOK(y, tx[y])'
      BY <3>1, Zenon DEF TidOK, Seeks, Settled, Tid
    <3> QED
      BY <3>2, <3>3, <3>4, ZenonT(60) DEF LocalOK
  <2> QED
    BY <2>3, Zenon DEF BackendInv
<1>13. VersionInv'
  <2>1. \A y \in Xid : Settled(y) => Settled(y)'
    BY Zenon DEF Settled
  <2>2. \A y \in Xact : proc[y] # "none" => proc'[y] # "none"
    BY Zenon
  <2>3. \A y \in Xact : Place(y) \in AfterWrite => Place(y)' \in AfterWrite
    BY <1>9, <1>10, Zenon DEF Place, AfterWrite
  <2> QED
    BY <1>1, <2>1, <2>2, <2>3, VersionQuiet, Zenon
<1>14. /\ \A k, s : Covered(k, s)' => Covered(k, s) \/ (k = key /\ s = t)
       /\ \A k, s : Covered(k, s) => Covered(k, s)'
       /\ Covered(key, t)'
  <2>1. DOMAIN heap = Tid
    BY <1>1, DomainIsTid, ZenonT(60)
  <2>2. ASSUME NEW k, NEW s, Covered(k, s)'
        PROVE  Covered(k, s) \/ (k = key /\ s = t)
    <3>1. PICK q \in DOMAIN heap : <<k, q>> \in index' /\ s \in HotChain(heap, q)
      BY <2>2, Zenon DEF Covered
    <3>2. CASE <<k, q>> \in index
      BY <3>1, <3>2, Zenon DEF Covered
    <3>3. CASE k = key /\ q = t
      BY <1>6, <3>1, <3>3, Zenon
    <3>4. <<k, q>> \in index \/ (k = key /\ q = t)
      BY <3>1, Zenon
    <3> QED
      BY <3>2, <3>3, <3>4, ZenonT(60)
  <2>3. ASSUME NEW k, NEW s, Covered(k, s)
        PROVE  Covered(k, s)'
    BY <2>3, Zenon DEF Covered
  <2>4. Covered(key, t)'
    <3>1. t \in DOMAIN heap' /\ <<key, t>> \in index' /\ t \in HotChain(heap', t)
      BY <1>6, <2>1, Zenon
    <3> QED
      BY <3>1, Zenon DEF Covered
  <2> QED
    BY <2>2, <2>3, <2>4, Zenon
<1>15. IndexInv'
  <2> SUFFICES ASSUME NEW s \in Tid, NEW k \in {heap[s].row.user_id, heap[s].row.email}
               PROVE  Aborted(heap[s].xmin) \/ Covered(k, s)' \/ Pending(k, s)'
    BY Zenon DEF IndexInv, Tid, Aborted
  <2>1. Aborted(heap[s].xmin) \/ Covered(k, s) \/ Pending(k, s)
    BY <1>1, Zenon DEF IndexInv
  <2>2. CASE Pending(k, s)
    <3>1. PICK y \in Xact : /\ heap[s].xmin = y
                            /\ tx[y].tid = s
                            /\ \E i \in DOMAIN tx[y].keys : tx[y].keys[i] = k
      BY <2>2, Zenon DEF Pending
    <3>2. CASE y # x
      BY <1>9, <3>1, <3>2, ZenonT(60) DEF Pending
    <3>3. CASE y = x
      <4>1. k = key \/ \E j \in DOMAIN rest : rest[j] = k
        BY <1>5, <3>1, <3>3, ZenonT(60)
      <4>2. ASSUME NEW j \in DOMAIN rest, rest[j] = k
            PROVE  Pending(k, s)'
        <5>1. heap'[s].xmin = x /\ tx'[x].tid = s /\ tx'[x].keys = rest
          BY <1>7, <1>9, <3>1, <3>3, Zenon
        <5>2. \E i \in DOMAIN tx'[x].keys : tx'[x].keys[i] = k
          BY <4>2, <5>1, Zenon
        <5> QED
          BY <5>1, <5>2, Zenon DEF Pending
      <4> QED
        BY <1>14, <3>1, <3>3, <4>1, <4>2, Zenon
    <3> QED
      BY <3>2, <3>3, Zenon
  <2> QED
    BY <1>14, <2>1, <2>2, Zenon
<1>16. UniqueInv'
  <2>1. /\ \A s : Alive(s)' => Alive(s)
        /\ \A s, u : Replacing(s, u) => Replacing(s, u)'
        /\ Tid' = Tid
    BY Zenon DEF Alive, Replacing, Settled, Aborted, Tid
  <2>2. ASSUME NEW k \in UserId \cup Email, NEW s \in Tid, NEW u \in Tid, s # u,
               Covered(k, s)', Covered(k, u)', Alive(s), Alive(u)
        PROVE  Replacing(s, u) \/ Replacing(u, s)
    <3>1. CASE Covered(k, s) /\ Covered(k, u)
      BY <1>1, <2>2, <3>1, Zenon DEF UniqueInv
    <3>2. CASE k = key /\ s = t /\ Covered(k, u)
      BY <2>2, <3>2, OnlyReplaced, Zenon
    <3>3. CASE k = key /\ u = t /\ Covered(k, s)
      BY <2>2, <3>3, OnlyReplaced, Zenon
    <3>4. Covered(k, s) \/ (k = key /\ s = t)
      BY <1>14, <2>2, Zenon
    <3>5. Covered(k, u) \/ (k = key /\ u = t)
      BY <1>14, <2>2, Zenon
    <3> QED
      BY <2>2, <3>1, <3>2, <3>3, <3>4, <3>5, Zenon
  <2> QED
    BY <2>1, <2>2, Zenon DEF UniqueInv
<1> QED
  BY <1>11, <1>12, <1>13, <1>15, <1>16, ZenonT(60) DEF UsersInv

\* The unique check with its insertion, wait or error keeps it.
LEMMA IndexKeeps ==
    ASSUME UsersInv, NEW x \in Xact, bt_doinsert(x)
    PROVE  UsersInv'
<1> DEFINE key == Head(tx[x].keys)
           rest == Tail(tx[x].keys)
<1>1. /\ tx[x] \in Backend
      /\ tx[x].pc = "index"
      /\ tuplock \subseteq Tid \X Xact
      /\ UNCHANGED <<stmt, heap, proc, clog, xlock, tuplock>>
  BY LocalFacts, Zenon DEF bt_doinsert, At
<1>2. CASE /\ Duplicates(key, x) = {}
           /\ index' = index \cup {<<key, tx[x].tid>>}
           /\ Local(x, [tx[x] EXCEPT !.pc = IF rest = <<>> THEN "commit" ELSE "index",
                                     !.keys = rest])
  <2>1. PICK k : k = key
    BY Zenon
  <2>2. PICK q : q = rest
    BY Zenon
  <2>3. /\ Duplicates(k, x) = {}
        /\ index' = index \cup {<<k, tx[x].tid>>}
        /\ Local(x, [tx[x] EXCEPT !.pc = IF q = <<>> THEN "commit" ELSE "index",
                                  !.keys = q])
    BY <1>2, <2>1, <2>2, ZenonT(60)
  <2> QED
    BY <1>1, <2>1, <2>2, <2>3, EnterKeeps, Zenon
<1>3. CASE \E t \in Duplicates(key, x) :
                /\ IF DirtyWait(heap[t], x) # NoXid
                   THEN Local(x, [tx[x] EXCEPT !.pc = "xactwait", !.back = "index",
                                              !.wait = DirtyWait(heap[t], x)])
                   ELSE Fail(x, "unique")
                /\ UNCHANGED index
  <2>1. PICK t \in Duplicates(key, x) :
                /\ IF DirtyWait(heap[t], x) # NoXid
                   THEN Local(x, [tx[x] EXCEPT !.pc = "xactwait", !.back = "index",
                                              !.wait = DirtyWait(heap[t], x)])
                   ELSE Fail(x, "unique")
                /\ UNCHANGED index
    BY <1>3, Zenon
  <2>2. CASE Fail(x, "unique")
    BY <1>1, <2>1, <2>2, FailKeeps, Zenon
  <2>3. CASE Local(x, [tx[x] EXCEPT !.pc = "xactwait", !.back = "index",
                                    !.wait = DirtyWait(heap[t], x)])
    <3> DEFINE xwait == DirtyWait(heap[t], x)
               r == [tx[x] EXCEPT !.pc = "xactwait", !.back = "index", !.wait = xwait]
    <3>1. TypeOK
      BY Zenon DEF UsersInv
    <3>2. t \in Tid
      <4>1. PICK k : k = key
        BY Zenon
      <4>2. t \in Duplicates(k, x)
        BY <4>1, Zenon
      <4> QED
        BY <3>1, <4>2, DuplicateTyped, Zenon
    <3>3. xwait \in Xid
      BY <3>1, <3>2, TupleTyped, Zenon DEF DirtyWait, Xid
    <3>4. /\ r \in Backend /\ r.pc = "xactwait" /\ r.back = "index"
          /\ r.keys = tx[x].keys /\ r.tid = tx[x].tid /\ r.snap = tx[x].snap
          /\ r.prior = tx[x].prior
      <4> HIDE DEF xwait
      <4> QED
        BY <1>1, <3>3, Zenon DEF Backend
    <3>5. Local(x, r)
      BY <2>3, Zenon
    <3> HIDE DEF r
    <3>6. PlaceOf(r) = Place(x)
      BY <1>1, <3>4, Zenon DEF PlaceOf, Place
    <3>7. QuietRec(x, r)
      BY <3>4, <3>6, SamePlace, Zenon
    <3> QED
      BY <1>1, <2>1, <3>4, <3>5, <3>7, QuietAction, Zenon DEF At
  <2> QED
    BY <2>1, <2>2, <2>3, ZenonT(60)
<1> QED
  BY <1>2, <1>3, Zenon DEF bt_doinsert

-----------------------------------------------------------------------------
(* Steps that write the heap. *)

\* What a heap step keeps.
LEMMA HeapStepFacts ==
    ASSUME TypeOK, BackendInv, VersionInv, NEW x \in Xact, HeapStep(x),
           UNCHANGED <<proc, clog>>
    PROVE  /\ Len(heap) \in Nat
           /\ DOMAIN heap = Tid
           /\ DOMAIN heap' = Tid'
           /\ Tid \subseteq Tid'
           /\ \A n \in Tid' \ Tid : n = Len(heap) + 1 /\ n = Len(heap')
           /\ \A y : Settled(y)' <=> Settled(y)
           /\ \A y : Aborted(y)' <=> Aborted(y)
           /\ \A t \in Tid : /\ heap'[t].row = heap[t].row
                             /\ heap'[t].xmin = heap[t].xmin
                             /\ heap'[t].heap_only = heap[t].heap_only
<1>1. /\ heap \in Seq(HeapTuple)
      /\ heap' \in Seq(HeapTuple)
      /\ Len(heap') \in {Len(heap), Len(heap) + 1}
  BY Zenon DEF TypeOK, HeapStep
<1>2. Len(heap) \in Nat /\ DOMAIN heap = 1 .. Len(heap) /\ DOMAIN heap' = 1 .. Len(heap')
  BY <1>1, SMTT(60)
<1>3. /\ Tid \subseteq Tid'
      /\ \A n \in Tid' \ Tid : n = Len(heap) + 1 /\ n = Len(heap')
  <2>1. PICK m : m = Len(heap)
    BY Zenon
  <2>2. PICK n : n = Len(heap')
    BY Zenon
  <2>3. m \in Nat /\ (n = m \/ n = m + 1)
    BY <1>1, <1>2, <2>1, <2>2, Zenon
  <2>4. 1 .. m \subseteq 1 .. n /\ \A i \in (1 .. n) \ (1 .. m) : i = m + 1 /\ i = n
    BY <2>3, SMT
  <2> QED
    BY <2>1, <2>2, <2>4, Zenon DEF Tid
<1>4. \A t \in Tid : /\ heap'[t].row = heap[t].row
                     /\ heap'[t].xmin = heap[t].xmin
                     /\ heap'[t].heap_only = heap[t].heap_only
  BY Zenon DEF HeapStep, Rewritten
<1>5. \A y : (Settled(y)' <=> Settled(y)) /\ (Aborted(y)' <=> Aborted(y))
  BY Zenon DEF Settled, Aborted
<1> QED
  BY <1>2, <1>3, <1>4, <1>5, Zenon DEF Tid

\* A version that a heap step stamps had no successor that may survive.
LEMMA RewrittenIs ==
    ASSUME TypeOK, BackendInv, VersionInv, NEW x \in Xact, NEW t \in Tid, Rewritten(x, t)
    PROVE  /\ Alive(t)
           /\ heap[t].ctid # t => Aborted(heap[t].xmax)
           /\ \A s \in Tid : s # t => ~Replacing(t, s) /\ ~Replacing(s, t)
<1>1. VersionOf(t) /\ \A s \in Tid : VersionOf(s)
  BY Zenon DEF VersionInv
<1>2. /\ Settled(heap[t].xmin)
      /\ heap[t].xmax = NoXid \/ heap[t].lockonly \/ Aborted(heap[t].xmax)
  BY Zenon DEF Rewritten
<1>3. \A y : Settled(y) => ~Aborted(y)
  BY Zenon DEF Settled, Aborted
<1>4. Alive(t)
  BY <1>2, <1>3, Zenon DEF Alive
<1>5. heap[t].ctid # t => Aborted(heap[t].xmax)
  BY <1>1, <1>2, Zenon DEF VersionOf
<1>6. NoXid \notin Xact
  BY UsersHeapAssumption, Zenon
<1>7. ASSUME NEW s \in Tid, s # t, Replacing(t, s)
      PROVE  FALSE
  BY <1>5, <1>7, Zenon DEF Replacing, Aborted
<1>8. ASSUME NEW s \in Tid, s # t, Replacing(s, t)
      PROVE  FALSE
  <2>1. heap[s].ctid = t /\ heap[s].xmax \in Xact /\ proc[heap[s].xmax] = "running"
    BY <1>8, Zenon DEF Replacing
  <2>2. heap[t].xmin = heap[s].xmax
    BY <1>1, <1>8, <2>1, Zenon DEF VersionOf
  <2> QED
    BY <1>2, <1>6, <2>1, <2>2, Zenon DEF Settled
<1> QED
  BY <1>4, <1>5, <1>7, <1>8, Zenon

\* A HOT chain keeps its members, those of aborted transactions aside.
LEMMA ChainKept ==
    ASSUME TypeOK, BackendInv, VersionInv, NEW x \in Xact, HeapStep(x),
           UNCHANGED <<proc, clog>>,
           NEW r \in Tid, NEW u \in HotChain(heap, r), ~Aborted(heap[u].xmin)
    PROVE  u \in HotChain(heap', r)
<1> DEFINE C == {q \in Tid : ~Aborted(heap[q].xmin) => q \in HotChain(heap', r)}
<1>1. /\ DOMAIN heap = Tid
      /\ DOMAIN heap' = Tid'
      /\ Tid \subseteq Tid'
      /\ \A t \in Tid : /\ heap'[t].xmin = heap[t].xmin
                        /\ heap'[t].heap_only = heap[t].heap_only
  BY HeapStepFacts, Zenon
<1>2. r \in C
  BY <1>1, ChainRoot, Zenon
<1>3. ASSUME NEW s \in C, NEW q \in Tid, HotLink(heap, s, q)
      PROVE  q \in C
  <2> SUFFICES ASSUME ~Aborted(heap[q].xmin)
               PROVE  q \in HotChain(heap', r)
    BY Zenon
  <2>1. /\ s \in Tid /\ heap[s].ctid = q /\ q # s
        /\ heap[q].heap_only /\ heap[q].xmin = heap[s].xmax
    BY <1>3, Zenon DEF HotLink
  <2>2. heap'[s] = heap[s]
    <3>1. ~Rewritten(x, s)
      BY <2>1, RewrittenIs, Zenon
    <3> QED
      BY <2>1, <3>1, Zenon DEF HeapStep
  <2>3. ~Aborted(heap[s].xmin)
    <3>1. Settled(heap[s].xmin)
      BY <2>1, Zenon DEF VersionInv, VersionOf
    <3> QED
      BY <3>1, Zenon DEF Settled, Aborted
  <2>4. s \in HotChain(heap', r)
    BY <2>3, Zenon
  <2>5. HotLink(heap', s, q)
    BY <1>1, <2>1, <2>2, Zenon DEF HotLink
  <2>6. q \in DOMAIN heap'
    BY <1>1, Zenon
  <2> QED
    BY <2>4, <2>5, <2>6, ChainNext, Zenon
<1>4. HotClosed(heap, C)
  BY <1>1, <1>3, Zenon DEF HotClosed
<1>5. C \in SUBSET DOMAIN heap
  BY <1>1, Zenon
<1>6. HotChain(heap, r) \subseteq C
  <2> HIDE DEF C
  <2> QED
    BY <1>2, <1>4, <1>5, ChainLeast, Zenon
<1> QED
  BY <1>6, Zenon

\* What an index entry leads to after a heap step: what it led to before, and
\* the heap-only version that the step put behind a member.
LEMMA ChainBack ==
    ASSUME TypeOK, BackendInv, VersionInv, NEW x \in Xact, HeapStep(x),
           UNCHANGED <<proc, clog>>,
           NEW r \in Tid, NEW u \in HotChain(heap', r)
    PROVE  \/ u \in Tid /\ u \in HotChain(heap, r)
           \/ /\ u \in Tid' \ Tid
              /\ \E s \in Tid : s \in HotChain(heap, r) /\ Rewritten(x, s) /\ heap'[s].ctid = u
<1> DEFINE Old(q) == q \in Tid /\ q \in HotChain(heap, r)
           New(q) == /\ q \in Tid' \ Tid
                     /\ \E s \in Tid : /\ s \in HotChain(heap, r)
                                       /\ Rewritten(x, s)
                                       /\ heap'[s].ctid = q
           C == {q \in Tid' : Old(q) \/ New(q)}
<1>1. /\ DOMAIN heap = Tid
      /\ DOMAIN heap' = Tid'
      /\ Tid \subseteq Tid'
      /\ \A n \in Tid' \ Tid : n = Len(heap) + 1
      /\ \A t \in Tid : /\ heap'[t].xmin = heap[t].xmin
                        /\ heap'[t].heap_only = heap[t].heap_only
  BY HeapStepFacts, Zenon
<1>2. r \in C
  BY <1>1, ChainRoot, Zenon
<1>3. ASSUME NEW s \in C, NEW q \in Tid', HotLink(heap', s, q)
      PROVE  q \in C
  <2>1. /\ heap'[s].ctid = q /\ q # s
        /\ heap'[q].heap_only /\ heap'[q].xmin = heap'[s].xmax
    BY <1>3, Zenon DEF HotLink
  <2>2. s \in Tid /\ s \in HotChain(heap, r)
    <3>1. SUFFICES ASSUME s \in Tid' \ Tid PROVE FALSE
      BY Zenon
    <3>2. Appended(x, s)
      BY <3>1, Zenon DEF HeapStep
    <3> QED
      BY <2>1, <3>2, Zenon DEF Appended
  <2>3. CASE heap'[s] = heap[s]
    <3>1. heap[s].ctid \in Tid
      BY <2>2, TupleTyped, Zenon
    <3>2. q \in Tid
      BY <2>1, <2>3, <3>1, Zenon
    <3>3. HotLink(heap, s, q)
      BY <1>1, <2>1, <2>3, <3>2, Zenon DEF HotLink
    <3>4. q \in HotChain(heap, r)
      BY <1>1, <2>2, <3>2, <3>3, ChainNext, Zenon
    <3> QED
      BY <3>2, <3>4, Zenon
  <2>4. CASE heap'[s] # heap[s]
    <3>1. Rewritten(x, s)
      BY <2>2, <2>4, Zenon DEF HeapStep
    <3>2. q = Len(heap) + 1
      BY <2>1, <3>1, Zenon DEF Rewritten
    <3>3. q \notin Tid
      <4>1. Len(heap) \in Nat
        BY HeapStepFacts, Zenon
      <4> QED
        BY <3>2, <4>1, SMT DEF Tid
    <3> QED
      BY <2>1, <2>2, <3>1, <3>3, Zenon
  <2> QED
    BY <2>3, <2>4, ZenonT(60)
<1>4. HotClosed(heap', C)
  BY <1>1, <1>3, Zenon DEF HotClosed
<1>5. C \in SUBSET DOMAIN heap'
  BY <1>1, Zenon
<1>6. HotChain(heap', r) \subseteq C
  <2> HIDE DEF C
  <2> QED
    BY <1>2, <1>4, <1>5, ChainLeast, Zenon
<1> QED
  BY <1>6, Zenon

\* A write to the heap leaves the tuples an index entry stands for reachable.
LEMMA CoveredKept ==
    ASSUME TypeOK, BackendInv, VersionInv, NEW x \in Xact, HeapStep(x),
           UNCHANGED <<index, proc, clog>>,
           NEW k, NEW u, Covered(k, u), ~Aborted(heap[u].xmin)
    PROVE  Covered(k, u)'
<1>1. DOMAIN heap = Tid /\ DOMAIN heap' = Tid' /\ Tid \subseteq Tid'
  BY HeapStepFacts, Zenon
<1>2. PICK r \in Tid : <<k, r>> \in index /\ u \in HotChain(heap, r)
  BY <1>1, Zenon DEF Covered
<1>3. u \in HotChain(heap', r)
  BY <1>2, ChainKept, Zenon
<1>4. r \in DOMAIN heap' /\ <<k, r>> \in index'
  BY <1>1, <1>2, Zenon
<1> QED
  BY <1>3, <1>4, Zenon DEF Covered

\* A tuple reachable after it was so before, or is the new version of one.
LEMMA CoveredBack ==
    ASSUME TypeOK, BackendInv, VersionInv, NEW x \in Xact, HeapStep(x),
           UNCHANGED <<index, proc, clog>>,
           NEW k, NEW u, Covered(k, u)'
    PROVE  \/ u \in Tid /\ Covered(k, u)
           \/ /\ u \in Tid' \ Tid
              /\ \E s \in Tid : Covered(k, s) /\ Rewritten(x, s) /\ heap'[s].ctid = u
<1>1. DOMAIN heap = Tid /\ DOMAIN heap' = Tid' /\ Tid \subseteq Tid'
  BY HeapStepFacts, Zenon
<1>2. PICK r \in DOMAIN heap' : <<k, r>> \in index' /\ u \in HotChain(heap', r)
  BY Zenon DEF Covered
<1>3. r \in Tid /\ <<k, r>> \in index
  <2>1. index \subseteq (UserId \cup Email) \X Tid /\ index' = index
    BY Zenon DEF TypeOK
  <2> QED
    BY <1>2, <2>1, ZenonT(60)
<1>4. \/ u \in Tid /\ u \in HotChain(heap, r)
      \/ /\ u \in Tid' \ Tid
         /\ \E s \in Tid : s \in HotChain(heap, r) /\ Rewritten(x, s) /\ heap'[s].ctid = u
  BY <1>2, <1>3, ChainBack, Zenon
<1>5. \A s : s \in HotChain(heap, r) => Covered(k, s)
  BY <1>1, <1>3, Zenon DEF Covered
<1> QED
  BY <1>4, <1>5, Zenon

\* Every live version is still led to from the indexes, or its backend has the
\* key in hand.
LEMMA HeapStepIndex ==
    ASSUME UsersInv, NEW x \in Xact, HeapStep(x), Place(x) \in {"modify", "lock"},
           UNCHANGED <<index, proc, clog>>,
           \A y \in Xact : y # x => tx'[y] = tx[y]
    PROVE  IndexInv'
<1>1. TypeOK /\ BackendInv /\ VersionInv /\ IndexInv
  BY Zenon DEF UsersInv
<1>2. /\ DOMAIN heap = Tid
      /\ DOMAIN heap' = Tid'
      /\ Tid \subseteq Tid'
      /\ \A n \in Tid' \ Tid : n = Len(heap) + 1 /\ n = Len(heap')
      /\ \A y : Aborted(y)' <=> Aborted(y)
      /\ \A t \in Tid : /\ heap'[t].row = heap[t].row
                        /\ heap'[t].xmin = heap[t].xmin
  BY <1>1, HeapStepFacts, Zenon
<1>3. ASSUME NEW t \in Tid, NEW k \in {heap[t].row.user_id, heap[t].row.email},
             ~Aborted(heap[t].xmin), ~Covered(k, t)
      PROVE  \E y \in Xact : /\ y # x
                             /\ heap[t].xmin = y
                             /\ tx[y].tid = t
                             /\ \E i \in DOMAIN tx[y].keys : tx[y].keys[i] = k
  <2>1. PICK y \in Xact : /\ heap[t].xmin = y
                          /\ tx[y].tid = t
                          /\ \E i \in DOMAIN tx[y].keys : tx[y].keys[i] = k
    BY <1>1, <1>3, Zenon DEF IndexInv, Pending
  <2>2. y # x
    <3>1. VersionOf(t) /\ Writes(y, t)
      BY <1>1, <2>1, Zenon DEF VersionInv, Writes
    <3>2. Place(y) \in AfterWrite
      BY <3>1, Zenon DEF VersionOf
    <3> QED
      BY <3>2, Zenon DEF AfterWrite
  <2> QED
    BY <2>1, <2>2, Zenon
<1>4. ASSUME NEW t \in Tid, NEW k \in {heap[t].row.user_id, heap[t].row.email},
             ~Aborted(heap[t].xmin)
      PROVE  Covered(k, t)' \/ Pending(k, t)'
  <2>1. CASE Covered(k, t)
    BY <1>1, <1>4, <2>1, CoveredKept, Zenon
  <2>2. CASE ~Covered(k, t)
    <3>1. PICK y \in Xact : /\ y # x
                            /\ heap[t].xmin = y
                            /\ tx[y].tid = t
                            /\ \E i \in DOMAIN tx[y].keys : tx[y].keys[i] = k
      BY <1>3, <1>4, <2>2, ZenonT(60)
    <3>2. tx'[y] = tx[y] /\ heap'[t].xmin = y
      BY <1>2, <3>1, Zenon
    <3> QED
      BY <3>1, <3>2, Zenon DEF Pending
  <2> QED
    BY <2>1, <2>2, ZenonT(60)
<1>5. ASSUME NEW n \in Tid' \ Tid, NEW k \in {heap'[n].row.user_id, heap'[n].row.email}
      PROVE  Covered(k, n)' \/ Pending(k, n)'
  <2>1. Appended(x, n)
    BY <1>5, Zenon DEF HeapStep
  <2>2. CASE ~heap'[n].heap_only
    <3>1. tx'[x].tid = n /\ tx'[x].keys = Keys(heap'[n].row) /\ heap'[n].xmin = x
      BY <2>1, <2>2, Zenon DEF Appended
    <3>2. tx'[x].keys = <<heap'[n].row.user_id, heap'[n].row.email>>
      BY <3>1, Zenon DEF Keys
    <3>3. \E i \in DOMAIN tx'[x].keys : tx'[x].keys[i] = k
      <4>1. 1 \in DOMAIN tx'[x].keys /\ 2 \in DOMAIN tx'[x].keys
        BY <3>2, SMTT(60)
      <4>2. tx'[x].keys[1] = heap'[n].row.user_id /\ tx'[x].keys[2] = heap'[n].row.email
        BY <3>2, SMTT(60)
      <4> QED
        BY <1>5, <4>1, <4>2, Zenon
    <3> QED
      BY <3>1, <3>3, Zenon DEF Pending
  <2>3. CASE heap'[n].heap_only
    <3>1. PICK s \in Tid : HotLink(heap', s, n)
      BY <2>1, <2>3, Zenon DEF Appended
    <3>2. heap'[s].ctid = n /\ n # s
      BY <3>1, Zenon DEF HotLink
    <3>3. Rewritten(x, s)
      <4>1. heap[s].ctid \in Tid
        BY <1>1, TupleTyped, Zenon
      <4>2. heap'[s] # heap[s]
        BY <1>5, <3>2, <4>1, Zenon
      <4> QED
        BY <4>2, Zenon DEF HeapStep
    <3>4. k \in {heap[s].row.user_id, heap[s].row.email} /\ Settled(heap[s].xmin)
      <4>1. n = Len(heap')
        BY <1>2, <1>5, ZenonT(60)
      <4> QED
        BY <1>5, <3>2, <3>3, <4>1, Zenon DEF Rewritten
    <3>5. ~Aborted(heap[s].xmin)
      BY <3>4, Zenon DEF Settled, Aborted
    <3>6. Covered(k, s)
      <4>1. SUFFICES ASSUME ~Covered(k, s) PROVE FALSE
        BY Zenon
      <4>2. PICK y \in Xact : /\ heap[s].xmin = y
                              /\ \E i \in DOMAIN tx[y].keys : tx[y].keys[i] = k
        BY <1>3, <3>4, <3>5, <4>1, SMTT(60)
      <4>3. y # NoXid
        BY UsersHeapAssumption, Zenon
      <4>4. clog[y] = "committed"
        BY <3>4, <4>2, <4>3, Zenon DEF Settled
      <4>5. tx[y].keys = <<>>
        BY <1>1, <4>4, Zenon DEF BackendInv, LocalOK, KeysOK
      <4> QED
        BY <4>2, <4>5, SMTT(60)
    <3>7. Covered(k, s)'
      BY <1>1, <3>5, <3>6, CoveredKept, Zenon
    <3>8. PICK r \in DOMAIN heap' : <<k, r>> \in index' /\ s \in HotChain(heap', r)
      BY <3>7, Zenon DEF Covered
    <3>9. n \in HotChain(heap', r)
      <4>1. n \in DOMAIN heap'
        BY <1>2, <1>5, ZenonT(60)
      <4> QED
        BY <3>1, <3>8, <4>1, ChainNext, Zenon
    <3> QED
      BY <3>8, <3>9, Zenon DEF Covered
  <2> QED
    BY <2>2, <2>3, ZenonT(60)
<1>6. ASSUME NEW t \in Tid', NEW k \in {heap'[t].row.user_id, heap'[t].row.email}
      PROVE  Aborted(heap[t].xmin)' \/ Covered(k, t)' \/ Pending(k, t)'
  <2>1. CASE t \in Tid
    <3>1. k \in {heap[t].row.user_id, heap[t].row.email} /\ heap'[t].xmin = heap[t].xmin
      BY <1>2, <1>6, <2>1, Zenon
    <3>2. Aborted(heap[t].xmin) => Aborted(heap[t].xmin)'
      BY <3>1, Zenon DEF Aborted
    <3> QED
      BY <1>4, <2>1, <3>1, <3>2, Zenon
  <2>2. CASE t \in Tid' \ Tid
    BY <1>5, <1>6, <2>2, Zenon
  <2> QED
    BY <2>1, <2>2, ZenonT(60)
<1> QED
  BY <1>6, Zenon DEF IndexInv

\* A stamped version was the only live one with its keys, and the version put
\* behind it is the one that replaces it.
LEMMA HeapStepUnique ==
    ASSUME UsersInv, NEW x \in Xact, HeapStep(x), proc[x] = "running",
           UNCHANGED <<index, proc, clog>>
    PROVE  UniqueInv'
<1>1. TypeOK /\ BackendInv /\ VersionInv /\ UniqueInv
  BY Zenon DEF UsersInv
<1>2. /\ Tid \subseteq Tid'
      /\ \A n \in Tid' \ Tid : n = Len(heap) + 1
      /\ \A y : Settled(y)' <=> Settled(y)
      /\ \A y : Aborted(y)' <=> Aborted(y)
  BY <1>1, HeapStepFacts, Zenon
<1>3. ASSUME NEW s \in Tid, NEW t \in Tid, s # t, NEW k \in UserId \cup Email,
             Rewritten(x, s), Covered(k, s), Covered(k, t), Alive(t)
      PROVE  FALSE
  <2>1. Alive(s) /\ ~Replacing(s, t) /\ ~Replacing(t, s)
    BY <1>1, <1>3, RewrittenIs, Zenon
  <2> QED
    BY <1>1, <1>3, <2>1, Zenon DEF UniqueInv
<1>4. ASSUME NEW s \in Tid, Alive(s)'
      PROVE  Alive(s)
  <2>1. CASE heap'[s] = heap[s]
    BY <1>2, <1>4, <2>1, Zenon DEF Alive, Settled, Aborted
  <2>2. CASE Rewritten(x, s)
    BY <1>1, <2>2, RewrittenIs, Zenon
  <2> QED
    BY <2>1, <2>2, Zenon DEF HeapStep
<1>5. ASSUME NEW k \in UserId \cup Email, NEW s \in Tid, NEW t \in Tid, s # t,
             Covered(k, s)', Covered(k, t)', Alive(s)', Alive(t)'
      PROVE  Replacing(s, t)' \/ Replacing(t, s)'
  <2>1. Covered(k, s) /\ Covered(k, t)
    BY <1>1, <1>5, CoveredBack, Zenon
  <2>2. Alive(s) /\ Alive(t)
    BY <1>4, <1>5, ZenonT(60)
  <2>3. heap'[s] = heap[s] /\ heap'[t] = heap[t]
    BY <1>3, <1>5, <2>1, <2>2, Zenon DEF HeapStep
  <2>4. Replacing(s, t) \/ Replacing(t, s)
    BY <1>1, <1>5, <2>1, <2>2, Zenon DEF UniqueInv
  <2> QED
    BY <2>3, <2>4, Zenon DEF Replacing
<1>6. ASSUME NEW k \in UserId \cup Email, NEW s \in Tid, NEW n \in Tid' \ Tid,
             Covered(k, s)', Covered(k, n)', Alive(s)'
      PROVE  Replacing(s, n)'
  <2>1. PICK w \in Tid : Covered(k, w) /\ Rewritten(x, w) /\ heap'[w].ctid = n
    BY <1>1, <1>6, CoveredBack, Zenon
  <2>2. Covered(k, s) /\ Alive(s)
    BY <1>1, <1>4, <1>6, CoveredBack, Zenon
  <2>3. s = w
    BY <1>3, <2>1, <2>2, Zenon
  <2>4. heap'[s].ctid = n /\ heap'[s].xmax = x /\ proc'[x] = "running"
    BY <2>1, <2>3, Zenon DEF Rewritten
  <2> QED
    BY <2>4, Zenon DEF Replacing
<1>7. ASSUME NEW k \in UserId \cup Email, NEW s \in Tid', NEW t \in Tid', s # t,
             Covered(k, s)', Covered(k, t)', Alive(s)', Alive(t)'
      PROVE  Replacing(s, t)' \/ Replacing(t, s)'
  <2>1. CASE s \in Tid /\ t \in Tid
    BY <1>5, <1>7, <2>1, Zenon
  <2>2. CASE s \in Tid /\ t \in Tid' \ Tid
    BY <1>6, <1>7, <2>2, Zenon
  <2>3. CASE t \in Tid /\ s \in Tid' \ Tid
    BY <1>6, <1>7, <2>3, Zenon
  <2>4. CASE s \in Tid' \ Tid /\ t \in Tid' \ Tid
    BY <1>2, <1>7, <2>4, Zenon
  <2> QED
    BY <2>1, <2>2, <2>3, <2>4, ZenonT(60)
<1> QED
  BY <1>7, Zenon DEF UniqueInv

\* The other backends keep what they know of the tuples they have in hand.
LEMMA HeapStepOthers ==
    ASSUME UsersInv, NEW x \in Xact, HeapStep(x), UNCHANGED <<stmt, proc, clog>>,
           NEW y \in Xact, y # x, tx'[y] = tx[y]
    PROVE  LocalOK(y, tx[y])'
<1>1. TypeOK /\ BackendInv /\ VersionInv
  BY Zenon DEF UsersInv
<1>2. /\ Tid \subseteq Tid'
      /\ \A z : Settled(z)' <=> Settled(z)
      /\ \A t \in Tid : heap'[t].xmin = heap[t].xmin
  BY <1>1, HeapStepFacts, Zenon
<1>3. PhaseOK(y, tx[y]) /\ KeysOK(y, tx[y]) /\ TidOK(y, tx[y])
  BY LocalFacts, Zenon
<1>4. PhaseOK(y, tx[y])'
  BY <1>3, Zenon DEF PhaseOK
<1>5. KeysOK(y, tx[y])'
  BY <1>3, Zenon DEF KeysOK
<1>6. TidOK(y, tx[y])'
  <2> DEFINE r == tx[y]
  <2>1. tx'[y] = r /\ (Seeks(y, tx[y])' => Seeks(y, r))
    BY Zenon DEF Seeks
  <2>2. Seeks(y, r) => /\ r.tid \in Tid'
                       /\ Settled(heap[r.tid].xmin)
                       /\ heap'[r.tid].xmin = heap[r.tid].xmin
    BY <1>2, <1>3, Zenon DEF TidOK
  <2>3. Seeks(y, r) => Settled(heap[r.tid].xmin)'
    BY <2>1, <2>2, Zenon DEF Settled
  <2>4. r.pc = "tuplock" => r.tid \in Tid'
    BY <1>2, <1>3, Zenon DEF TidOK
  <2>5. PlaceOf(r) = "fetch" => heap'[r.tid].xmin = r.prior
    BY <1>3, <2>2, Zenon DEF TidOK, Seeks
  <2>6. ASSUME PlaceOf(r) = "index"
        PROVE  /\ r.tid \in Tid'
               /\ heap'[r.tid].xmin = y
               /\ \A t \in Tid' : heap'[t].xmax = y /\ ~heap'[t].lockonly
                                    => heap'[t].ctid = r.tid
    <3>1. /\ r.tid \in Tid
          /\ heap[r.tid].xmin = y
          /\ \A t \in Tid : heap[t].xmax = y /\ ~heap[t].lockonly => heap[t].ctid = r.tid
      BY <1>3, <2>6, Zenon DEF TidOK
    <3>2. ASSUME NEW t \in Tid', heap'[t].xmax = y, ~heap'[t].lockonly
          PROVE  heap'[t].ctid = r.tid
      <4>1. CASE t \in Tid
        <5>1. heap'[t] = heap[t]
          BY <3>2, <4>1, Zenon DEF HeapStep, Rewritten
        <5> QED
          BY <3>1, <3>2, <4>1, <5>1, Zenon
      <4>2. CASE t \in Tid' \ Tid
        <5>1. heap'[t].xmax = NoXid
          BY <4>2, Zenon DEF HeapStep, Appended
        <5> QED
          BY <3>2, <5>1, UsersHeapAssumption, Zenon
      <4> QED
        BY <4>1, <4>2, ZenonT(60)
    <3> QED
      BY <1>2, <3>1, <3>2, Zenon
  <2> HIDE DEF r
  <2> QED
    BY <2>1, <2>2, <2>3, <2>4, <2>5, <2>6, Zenon DEF TidOK, Settled
<1> QED
  BY <1>4, <1>5, <1>6, ZenonT(60) DEF LocalOK

\* A write to the heap keeps the types.
LEMMA HeapStepType ==
    ASSUME UsersInv, NEW x \in Xact, HeapStep(x),
           UNCHANGED <<stmt, index, proc, clog, xlock>>,
           tx' \in [Xact -> Backend'],
           \A y \in Xact : At(y, "release")' <=> At(y, "release"),
           tuplock' \subseteq Tid \X Xact
    PROVE  TypeOK'
<1>1. TypeOK /\ BackendInv /\ VersionInv
  BY Zenon DEF UsersInv
<1>2. /\ Len(heap) \in Nat
      /\ Tid \subseteq Tid'
      /\ \A n \in Tid' \ Tid : n = Len(heap) + 1 /\ n = Len(heap')
  BY <1>1, HeapStepFacts, Zenon
<1>3. heap' \in Seq(HeapTuple) /\ Len(heap') \in {Len(heap), Len(heap) + 1}
  BY Zenon DEF HeapStep
<1>4. ASSUME NEW t \in Tid'
      PROVE  heap'[t].ctid \in t .. Len(heap')
  <2>1. t \in 1 .. Len(heap') /\ Len(heap') \in Nat
    BY <1>3, SMTT(60) DEF Tid
  <2>2. t \in t .. Len(heap') /\ Len(heap') \in t .. Len(heap')
    BY <2>1, SMT
  <2>3. CASE t \in Tid /\ heap'[t] = heap[t]
    <3>1. heap[t].ctid \in t .. Len(heap)
      BY <1>1, <2>3, ZenonT(60) DEF TypeOK
    <3>2. t .. Len(heap) \subseteq t .. Len(heap')
      <4>1. Len(heap') = Len(heap) \/ Len(heap') = Len(heap) + 1
        BY <1>3, Zenon
      <4> QED
        BY <1>2, <2>1, <4>1, SMTT(60)
    <3> QED
      BY <2>3, <3>1, <3>2, Zenon
  <2>4. CASE t \in Tid /\ Rewritten(x, t)
    <3>1. heap'[t].ctid = t \/ heap'[t].ctid = Len(heap')
      BY <2>4, Zenon DEF Rewritten
    <3> QED
      BY <2>2, <3>1, Zenon
  <2>5. CASE t \in Tid' \ Tid
    <3>1. heap'[t].ctid = t
      BY <2>5, Zenon DEF HeapStep, Appended
    <3> QED
      BY <2>2, <3>1, Zenon
  <2> QED
    BY <2>3, <2>4, <2>5, Zenon DEF HeapStep
<1>5. index' \subseteq (UserId \cup Email) \X Tid'
  BY <1>1, <1>2, ZenonT(60) DEF TypeOK
<1>6. tuplock' \subseteq Tid' \X Xact
  BY <1>2, Zenon
<1>7. xlock' = {y \in Xact : proc'[y] = "running" \/ At(y, "release")'}
  BY <1>1, Zenon DEF TypeOK
<1> QED
  BY <1>1, <1>3, <1>4, <1>5, <1>6, <1>7, Zenon DEF TypeOK

\* A write to the heap by the backend that may write keeps the invariant.
LEMMA HeapStepKeeps ==
    ASSUME UsersInv, NEW x \in Xact, HeapStep(x), tx[x].pc \in {"modify", "lock"},
           UNCHANGED <<stmt, index, proc, clog, xlock>>,
           tuplock' \subseteq Tid \X Xact,
           NEW r, Local(x, r), r \in Backend', r.pc # "release", LocalOK(x, tx[x])'
    PROVE  UsersInv'
<1>1. TypeOK /\ BackendInv /\ VersionInv
  BY Zenon DEF UsersInv
<1>2. /\ tx'[x] = r
      /\ \A y \in Xact : y # x => tx'[y] = tx[y]
      /\ \A y \in Xact : y # x => Place(y)' = Place(y)
  BY <1>1, LocalStep, Zenon
<1>3. Place(x) \in {"modify", "lock"}
  BY Zenon DEF Place, PlaceOf
<1>4. proc[x] = "running"
  BY <1>3, LocalFacts, Zenon DEF PhaseOK, Place
<1>5. TypeOK'
  <2>1. Len(heap) \in Nat /\ (Len(heap') = Len(heap) \/ Len(heap') = Len(heap) + 1)
    BY <1>1, HeapStepFacts, Zenon DEF HeapStep
  <2>2. Len(heap) <= Len(heap') /\ Len(heap') \in Nat
    BY <2>1, SMT
  <2>3. tx' \in [Xact -> Backend']
    BY <1>1, <2>2, LocalType, Zenon
  <2>4. \A y \in Xact : At(y, "release")' <=> At(y, "release")
    BY <1>2, Zenon DEF At
  <2> QED
    BY <2>3, <2>4, HeapStepType, Zenon
<1>6. BackendInv'
  BY <1>2, HeapStepOthers, Zenon DEF BackendInv
<1>7. VersionInv'
  BY <1>1, <1>2, <1>3, VersionHeapStep, Zenon
<1>8. IndexInv'
  BY <1>2, <1>3, HeapStepIndex, Zenon
<1>9. UniqueInv'
  BY <1>4, HeapStepUnique, Zenon
<1> QED
  BY <1>5, <1>6, <1>7, <1>8, <1>9, ZenonT(60) DEF UsersInv

\* The keys of a row: one or more identifiers or addresses.
LEMMA KeysTyped ==
    ASSUME NEW row \in User
    PROVE  Keys(row) \in Seq(UserId \cup Email) /\ Keys(row) # <<>>
<1>1. row.user_id \in UserId \cup Email /\ row.email \in UserId \cup Email
  BY Zenon DEF User
<1> QED
  BY <1>1, SMTT(60) DEF Keys

\* A backend that has written a version: it enters the keys or commits.
LEMMA WriteRec ==
    ASSUME UsersInv, NEW x \in Xact, tx[x].pc \in {"modify", "lock"}, HeapStep(x),
           UNCHANGED <<stmt, proc, clog>>,
           NEW r, Local(x, r), r.pc \in {"index", "commit"},
           r.pc = "commit" => r.keys = <<>>,
           r.pc = "index" => r.keys # <<>> /\ r.tid \in Tid' \ Tid
    PROVE  LocalOK(x, tx[x])'
<1>1. TypeOK /\ PhaseOK(x, tx[x]) /\ VersionInv
  BY LocalFacts, Zenon DEF UsersInv
<1>2. tx'[x] = r
  BY <1>1, LocalStep, Zenon
<1>3. PlaceOf(tx[x]) \in {"modify", "lock"} /\ PlaceOf(r) = r.pc
  BY Zenon DEF PlaceOf
<1>4. proc'[x] = "running" /\ clog'[x] = "none"
  BY <1>1, <1>3, Zenon DEF PhaseOK
<1>5. PhaseOK(x, tx[x])'
  BY <1>2, <1>3, <1>4, Zenon DEF PhaseOK
<1>6. KeysOK(x, tx[x])'
  BY <1>2, <1>3, <1>4, Zenon DEF KeysOK
<1>7. TidOK(x, tx[x])'
  <2>1. ASSUME r.pc = "index"
        PROVE  /\ r.tid \in Tid'
               /\ heap'[r.tid].xmin = x
               /\ \A t \in Tid' : heap'[t].xmax = x /\ ~heap'[t].lockonly
                                    => heap'[t].ctid = r.tid
    <3>1. r.tid \in Tid' /\ Appended(x, r.tid)
      BY <2>1, Zenon DEF HeapStep
    <3>2. ASSUME NEW t \in Tid', heap'[t].xmax = x, ~heap'[t].lockonly
          PROVE  heap'[t].ctid = r.tid
      <4>1. CASE t \in Tid
        <5>1. ~Writes(x, t)
          <6>1. Place(x) \notin AfterWrite
            BY <1>3, Zenon DEF Place, AfterWrite
          <6> QED
            BY <1>1, <4>1, <6>1, Zenon DEF VersionInv, VersionOf
        <5>2. heap'[t] # heap[t]
          BY <3>2, <5>1, Zenon DEF Writes
        <5>3. Rewritten(x, t)
          BY <4>1, <5>2, Zenon DEF HeapStep
        <5>4. Place(x)' = "index"
          BY <1>2, <1>3, <2>1, Zenon DEF Place
        <5> QED
          BY <1>2, <5>3, <5>4, Zenon DEF Rewritten
      <4>2. CASE t \in Tid' \ Tid
        <5>1. heap'[t].xmax = NoXid
          BY <4>2, Zenon DEF HeapStep, Appended
        <5> QED
          BY <3>2, <5>1, UsersHeapAssumption, Zenon
      <4> QED
        BY <4>1, <4>2, ZenonT(60)
    <3> QED
      BY <3>1, <3>2, Zenon DEF Appended
  <2>2. ~Seeks(x, tx[x])' /\ r.pc # "tuplock"
    BY <1>2, <1>3, Zenon DEF Seeks
  <2> QED
    BY <1>2, <1>3, <2>1, <2>2, Zenon DEF TidOK
<1> QED
  BY <1>5, <1>6, <1>7, ZenonT(60) DEF LocalOK

\* A backend that has locked the tuple: it goes on to write it.
LEMMA LockRec ==
    ASSUME UsersInv, NEW x \in Xact, tx[x].pc \in {"modify", "lock"}, Seeks(x, tx[x]),
           HeapStep(x), UNCHANGED <<stmt, proc, clog>>,
           NEW r, Local(x, r), r.pc = "modify", r.tid = tx[x].tid, r.keys = tx[x].keys
    PROVE  LocalOK(x, tx[x])'
<1>1. /\ TypeOK /\ BackendInv /\ VersionInv
      /\ PhaseOK(x, tx[x]) /\ KeysOK(x, tx[x]) /\ TidOK(x, tx[x])
  BY LocalFacts, Zenon DEF UsersInv
<1>2. tx'[x] = r
  BY <1>1, LocalStep, Zenon
<1>3. PlaceOf(tx[x]) \in {"modify", "lock"} /\ PlaceOf(r) = "modify"
  BY Zenon DEF PlaceOf
<1>4. proc'[x] = "running" /\ clog'[x] = "none" /\ r.keys = <<>>
  BY <1>1, <1>3, Zenon DEF PhaseOK, KeysOK
<1>5. PhaseOK(x, tx[x])'
  BY <1>2, <1>3, <1>4, Zenon DEF PhaseOK
<1>6. KeysOK(x, tx[x])'
  BY <1>2, <1>3, <1>4, Zenon DEF KeysOK
<1>7. TidOK(x, tx[x])'
  <2>1. r.tid \in Tid /\ Settled(heap[r.tid].xmin)
    BY <1>1, Zenon DEF TidOK
  <2>2. /\ r.tid \in Tid'
        /\ heap'[r.tid].xmin = heap[r.tid].xmin
    BY <1>1, <2>1, HeapStepFacts, Zenon
  <2>3. Settled(heap[r.tid].xmin)'
    BY <2>1, <2>2, Zenon DEF Settled
  <2> QED
    BY <1>2, <1>3, <2>2, <2>3, Zenon DEF TidOK, Settled
<1> QED
  BY <1>5, <1>6, <1>7, ZenonT(60) DEF LocalOK

\* Inserting a row keeps the invariant.
LEMMA InsertKeeps ==
    ASSUME UsersInv, NEW x \in Xact, heap_insert(x)
    PROVE  UsersInv'
<1> DEFINE row == NewRow(x, stmt[x].email, stmt[x].password)
           n == Len(heap) + 1
           r == [tx[x] EXCEPT !.pc = "index", !.tid = n, !.keys = Keys(row), !.rows = {row}]
<1>1. TypeOK /\ BackendInv /\ VersionInv /\ tx[x] \in Backend /\ tuplock \subseteq Tid \X Xact
  BY LocalFacts, Zenon DEF UsersInv
<1>2. HeapStep(x)
  BY <1>1, InsertIsHeapStep, Zenon
<1>3. /\ tx[x].pc = "modify" /\ stmt[x].op = "insert"
      /\ Local(x, r)
      /\ UNCHANGED <<stmt, index, proc, clog, xlock, tuplock>>
  BY Zenon DEF heap_insert, At
<1>4. row \in User
  <2>1. stmt[x] \in Statement
    BY <1>1, UsersHeapAssumption, ZenonT(60) DEF TypeOK
  <2>2. stmt[x].email \in Email /\ stmt[x].password \in Stored
    BY <1>3, <2>1, SMTT(60) DEF Statement
  <2> QED
    BY <2>2, UsersHeapAssumption, Zenon DEF NewRow, User, Role
<1>5. n \in Tid' \ Tid /\ n \in 0 .. Len(heap')
  <2>1. Len(heap') = n /\ Len(heap) \in Nat
    <3>1. heap \in Seq(HeapTuple)
      BY <1>1, Zenon DEF TypeOK
    <3>2. PICK v : heap' = Append(heap, v)
      BY Zenon DEF heap_insert
    <3> QED
      BY <3>1, <3>2, SMT
  <2> QED
    BY <2>1, SMT DEF Tid
<1>6. Keys(row) \in Seq(UserId \cup Email) /\ Keys(row) # <<>>
  <2>1. PICK w \in User : w = row
    BY <1>4, Zenon
  <2> QED
    BY <2>1, KeysTyped, Zenon
<1>7. /\ r \in Backend' /\ r.pc = "index" /\ r.tid = n /\ r.keys = Keys(row)
  <2> HIDE DEF row, n
  <2> QED
    BY <1>1, <1>4, <1>5, <1>6, Zenon DEF Backend
<1> HIDE DEF r, row, n
<1>8. LocalOK(x, tx[x])'
  BY <1>2, <1>3, <1>5, <1>6, <1>7, WriteRec, Zenon
<1> QED
  BY <1>1, <1>2, <1>3, <1>7, <1>8, HeapStepKeeps, ZenonT(60)

\* Writing the new version of an updated row keeps it.
LEMMA PutUpdateKeeps ==
    ASSUME UsersInv, NEW x \in Xact, NEW hot \in BOOLEAN,
           At(x, "modify"), stmt[x].op = "update", Writable(x), PutUpdate(x, hot),
           UNCHANGED <<stmt, index, proc, clog, xlock>>
    PROVE  UsersInv'
<1> DEFINE t == tx[x].tid
           n == Len(heap) + 1
           row == [heap[t].row EXCEPT !.password = stmt[x].password]
           pc == IF hot THEN "commit" ELSE "index"
           keys == IF hot THEN <<>> ELSE Keys(row)
           r == [tx[x] EXCEPT !.pc = pc, !.tid = n, !.keys = keys, !.rows = {row}]
<1>1. TypeOK /\ BackendInv /\ VersionInv /\ tx[x] \in Backend
      /\ Unlocked(x) \subseteq Tid \X Xact
  BY LocalFacts, Zenon DEF UsersInv
<1>2. HeapStep(x)
  BY <1>1, UpdateIsHeapStep, Zenon
<1>3. tx[x].pc = "modify" /\ Local(x, r) /\ tuplock' = Unlocked(x)
  BY Zenon DEF PutUpdate, At
<1>4. row \in User
  <2>1. stmt[x] \in Statement
    BY <1>1, UsersHeapAssumption, ZenonT(60) DEF TypeOK
  <2>2. stmt[x].password \in Stored
    BY <2>1, SMT DEF Statement
  <2>3. Seeks(x, tx[x])
    BY <1>3, Zenon DEF Seeks, PlaceOf
  <2>4. t \in Tid
    BY <2>3, LocalFacts, Zenon DEF TidOK
  <2>5. heap[t].row \in User
    BY <1>1, <2>4, TupleTyped, Zenon
  <2> QED
    BY <2>2, <2>5, Zenon DEF User
<1>5. n \in Tid' \ Tid /\ n \in 0 .. Len(heap')
  <2>1. heap \in Seq(HeapTuple) /\ Len(heap) \in Nat
    BY <1>1, SMTT(60) DEF TypeOK
  <2>2. Len(heap') = n
    <3>1. PICK v, w : heap' = Append([heap EXCEPT ![t] = v], w)
      BY Zenon DEF PutUpdate
    <3>2. Len([heap EXCEPT ![t] = v]) = Len(heap)
      <4>1. DOMAIN [heap EXCEPT ![t] = v] = DOMAIN heap
        BY Zenon
      <4> QED
        BY <2>1, <4>1, SMTT(60)
    <3> QED
      BY <3>1, <3>2, SMTT(60)
  <2> QED
    BY <2>1, <2>2, SMTT(60) DEF Tid
<1>6. keys \in Seq(UserId \cup Email) /\ (hot => keys = <<>>) /\ (~hot => keys # <<>>)
  <2>1. PICK w \in User : w = row
    BY <1>4, Zenon
  <2>2. Keys(row) \in Seq(UserId \cup Email) /\ Keys(row) # <<>>
    BY <2>1, KeysTyped, Zenon
  <2>3. <<>> \in Seq(UserId \cup Email)
    BY SMTT(60)
  <2> QED
    BY <2>2, <2>3, Zenon
<1>7. /\ pc \in {"commit", "index"} /\ (hot => pc = "commit") /\ (~hot => pc = "index")
  BY Zenon
<1>8. /\ r \in Backend' /\ r.pc = pc /\ r.tid = n /\ r.keys = keys
  <2> HIDE DEF row, n, keys, pc
  <2> QED
    BY <1>1, <1>4, <1>5, <1>6, <1>7, Zenon DEF Backend
<1> HIDE DEF r, row, n, keys, pc
<1>9. LocalOK(x, tx[x])'
  BY <1>2, <1>3, <1>5, <1>6, <1>7, <1>8, WriteRec, Zenon
<1>10. r.pc # "release"
  BY <1>7, <1>8, Zenon
<1> QED
  BY <1>1, <1>2, <1>3, <1>8, <1>9, <1>10, HeapStepKeeps, ZenonT(60)

\* Stamping a deleted row keeps it.
LEMMA PutDeleteKeeps ==
    ASSUME UsersInv, NEW x \in Xact, At(x, "modify"), Seeks(x, tx[x]), Writable(x),
           PutDelete(x), UNCHANGED <<stmt, index, proc, clog, xlock>>
    PROVE  UsersInv'
<1> DEFINE t == tx[x].tid
           r == [tx[x] EXCEPT !.pc = "commit", !.rows = {heap[t].row}]
<1>1. /\ TypeOK /\ BackendInv /\ VersionInv /\ tx[x] \in Backend
      /\ KeysOK(x, tx[x]) /\ Unlocked(x) \subseteq Tid \X Xact
      /\ t \in Tid
  BY LocalFacts, Zenon DEF UsersInv, TidOK
<1>2. /\ tx[x].pc = "modify" /\ Local(x, r) /\ tuplock' = Unlocked(x)
      /\ heap' = [heap EXCEPT ![t] = Stamped(heap[t], x, FALSE, t)]
  BY Zenon DEF PutDelete, At
<1>3. r \in Backend /\ r.pc = "commit" /\ r.keys = tx[x].keys
  <2>1. heap[t].row \in User
    BY <1>1, TupleTyped, Zenon
  <2> QED
    BY <1>1, <2>1, Zenon DEF Backend
<1> HIDE DEF r
<1>4. r.keys = <<>>
  BY <1>1, <1>2, <1>3, Zenon DEF KeysOK, PlaceOf
<1>5. Place(x)' = "commit"
  <2>1. tx'[x] = r
    BY <1>1, <1>2, LocalStep, Zenon
  <2> QED
    BY <1>3, <2>1, Zenon DEF Place, PlaceOf
<1>6. HeapStep(x)
  <2>1. PICK lo \in BOOLEAN : lo = FALSE
    BY Zenon
  <2>2. heap' = [heap EXCEPT ![t] = Stamped(heap[t], x, lo, t)]
    BY <1>2, <2>1, ZenonT(60)
  <2> QED
    BY <1>1, <1>2, <1>5, <2>2, StampIsHeapStep, Zenon
<1>7. r \in Backend'
  <2>1. \A b \in Backend : b \in Backend'
    <3>1. Len(heap') = Len(heap)
      <4>1. heap \in Seq(HeapTuple)
        BY <1>1, Zenon DEF TypeOK
      <4>2. DOMAIN heap' = DOMAIN heap
        BY <1>2, Zenon
      <4>3. heap' \in Seq(HeapTuple)
        BY <1>6, Zenon DEF HeapStep
      <4> QED
        BY <4>1, <4>2, <4>3, SMTT(60)
    <3> QED
      BY <3>1, Zenon DEF Backend
  <2> QED
    BY <1>3, <2>1, Zenon
<1>8. LocalOK(x, tx[x])'
  BY <1>2, <1>3, <1>4, <1>6, WriteRec, Zenon
<1> QED
  BY <1>1, <1>2, <1>3, <1>6, <1>7, <1>8, HeapStepKeeps, Zenon

\* A backend locks the tuple it has in hand, in heap_lock_tuple or before it
\* looks for another page, and goes on in state r.
LEMMA LockKeeps ==
    ASSUME UsersInv, NEW x \in Xact, tx[x].pc \in {"modify", "lock"}, Seeks(x, tx[x]),
           Writable(x), UNCHANGED <<stmt, index, proc, clog, xlock>>,
           heap' = [heap EXCEPT ![tx[x].tid] = Stamped(heap[tx[x].tid], x, TRUE, tx[x].tid)],
           tuplock' \subseteq Tid \X Xact,
           NEW r \in Backend, Local(x, r), r.pc \in {"modify", "commit"},
           r.tid = tx[x].tid, r.keys = tx[x].keys
    PROVE  UsersInv'
<1> DEFINE t == tx[x].tid
<1>1. /\ TypeOK /\ BackendInv /\ VersionInv /\ KeysOK(x, tx[x])
  BY LocalFacts, Zenon DEF UsersInv
<1>2. r.keys = <<>>
  BY <1>1, Zenon DEF KeysOK, PlaceOf
<1>3. Place(x)' \in {"modify", "commit"}
  <2>1. tx'[x] = r
    BY <1>1, LocalStep, Zenon
  <2> QED
    BY <2>1, Zenon DEF Place, PlaceOf
<1>4. HeapStep(x)
  <2>1. PICK lo \in BOOLEAN : lo = TRUE
    BY Zenon
  <2>2. heap' = [heap EXCEPT ![t] = Stamped(heap[t], x, lo, t)]
    BY <2>1, ZenonT(60)
  <2>3. Place(x)' # "index"
    BY <1>3, Zenon
  <2> QED
    BY <1>1, <2>1, <2>2, <2>3, StampIsHeapStep, Zenon
<1>5. r \in Backend'
  <2>1. \A b \in Backend : b \in Backend'
    <3>1. Len(heap') = Len(heap)
      <4>1. heap \in Seq(HeapTuple)
        BY <1>1, ZenonT(60) DEF TypeOK
      <4>2. DOMAIN heap' = DOMAIN heap
        BY Zenon
      <4>3. heap' \in Seq(HeapTuple)
        BY <1>4, Zenon DEF HeapStep
      <4> QED
        BY <4>1, <4>2, <4>3, SMTT(60)
    <3> QED
      BY <3>1, Zenon DEF Backend
  <2> QED
    BY <2>1, Zenon
<1>6. LocalOK(x, tx[x])'
  <2>1. CASE r.pc = "modify"
    BY <1>4, <2>1, LockRec, Zenon
  <2>2. CASE r.pc = "commit"
    BY <1>2, <1>4, <2>2, WriteRec, Zenon
  <2> QED
    BY <2>1, <2>2, ZenonT(60)
<1> QED
  BY <1>4, <1>5, <1>6, HeapStepKeeps, Zenon

\* Every branch of heap_update keeps it.
LEMMA UpdateKeeps ==
    ASSUME UsersInv, NEW x \in Xact, heap_update(x)
    PROVE  UsersInv'
<1>1. /\ tx[x].pc = "modify" /\ At(x, "modify") /\ stmt[x].op = "update"
      /\ UNCHANGED <<stmt, index, proc, clog, xlock>>
  BY Zenon DEF heap_update, At
<1>2. Seeks(x, tx[x])
  BY <1>1, Zenon DEF Seeks, PlaceOf
<1>3. ASSUME Writable(x), NEW hot \in BOOLEAN, PutUpdate(x, hot)
      PROVE  UsersInv'
  BY <1>1, <1>3, PutUpdateKeeps, Zenon
<1>4. CASE Writable(x) /\ LockForPage(x)
  <2>1. /\ heap' = [heap EXCEPT ![tx[x].tid] = Stamped(heap[tx[x].tid], x, TRUE, tx[x].tid)]
        /\ UNCHANGED <<tuplock, tx>>
    BY <1>4, Zenon DEF LockForPage
  <2>2. tx[x] \in Backend /\ tuplock' \subseteq Tid \X Xact
    BY <2>1, LocalFacts, Zenon
  <2>3. PICK r \in Backend : r = tx[x]
    BY <2>2, ZenonT(60)
  <2>4. Local(x, r)
    <3>1. tx \in [Xact -> Backend]
      BY Zenon DEF UsersInv, TypeOK
    <3> QED
      BY <2>1, <2>3, <3>1, SMTT(60) DEF Local
  <2> QED
    BY <1>1, <1>2, <1>4, <2>1, <2>2, <2>3, <2>4, LockKeeps, ZenonT(60)
<1>5. CASE Sleep(x, "modify")
  BY <1>1, <1>2, <1>5, SleepKeeps, Zenon
<1>6. CASE Gone(x)
  BY <1>1, <1>2, <1>6, GoneKeeps, Zenon
<1> QED
  BY <1>3, <1>4, <1>5, <1>6, Zenon DEF heap_update

\* Every branch of heap_delete keeps it.
LEMMA DeleteKeeps ==
    ASSUME UsersInv, NEW x \in Xact, heap_delete(x)
    PROVE  UsersInv'
<1>1. /\ tx[x].pc = "modify" /\ At(x, "modify") /\ stmt[x].op = "delete"
      /\ UNCHANGED <<stmt, index, proc, clog, xlock>>
  BY Zenon DEF heap_delete, At
<1>2. Seeks(x, tx[x])
  BY <1>1, Zenon DEF Seeks, PlaceOf
<1>3. CASE Writable(x) /\ PutDelete(x)
  BY <1>1, <1>2, <1>3, PutDeleteKeeps, Zenon
<1>4. CASE Sleep(x, "modify")
  BY <1>1, <1>2, <1>4, SleepKeeps, Zenon
<1>5. CASE Gone(x)
  BY <1>1, <1>2, <1>5, GoneKeeps, Zenon
<1> QED
  BY <1>3, <1>4, <1>5, Zenon DEF heap_delete

\* Every branch of heap_lock_tuple keeps it.
LEMMA LockTupleKeeps ==
    ASSUME UsersInv, NEW x \in Xact, heap_lock_tuple(x)
    PROVE  UsersInv'
<1> DEFINE t == tx[x].tid
           result == HeapTupleSatisfiesUpdate(t, x)
<1>1. /\ tx[x].pc = "lock" /\ At(x, "lock")
      /\ UNCHANGED <<stmt, index, proc, clog, xlock>>
  BY Zenon DEF heap_lock_tuple, At
<1>2. Seeks(x, tx[x])
  BY <1>1, Zenon DEF Seeks, PlaceOf
<1>3. tx[x] \in Backend /\ Unlocked(x) \subseteq Tid \X Xact /\ t \in Tid
  BY <1>2, LocalFacts, Zenon DEF TidOK
<1>4. CASE /\ Writable(x)
           /\ heap' = [heap EXCEPT ![t] = Stamped(heap[t], x, TRUE, t)]
           /\ tuplock' = Unlocked(x)
           /\ Goto(x, IF heap[t].row.user_id = stmt[x].user_id THEN "modify" ELSE "commit")
  <2> DEFINE pc == IF heap[t].row.user_id = stmt[x].user_id THEN "modify" ELSE "commit"
  <2>1. pc \in {"modify", "commit"}
    BY Zenon
  <2>2. PICK p \in {"modify", "commit"} : p = pc
    BY <2>1, ZenonT(60)
  <2> DEFINE r == [tx[x] EXCEPT !.pc = p]
  <2>3. r \in Backend /\ r.pc = p /\ r.tid = t /\ r.keys = tx[x].keys
    BY <1>3, Zenon DEF Backend
  <2>4. Local(x, r)
    BY <1>4, <2>2, ZenonT(60) DEF Goto
  <2> HIDE DEF r
  <2> QED
    BY <1>1, <1>2, <1>3, <1>4, <2>2, <2>3, <2>4, LockKeeps, ZenonT(60)
<1>5. CASE Sleep(x, "lock")
  BY <1>1, <1>2, <1>5, SleepKeeps, ZenonT(60)
<1>6. CASE /\ result = "updated"
           /\ tuplock' = Unlocked(x)
           /\ FollowChain(x)
           /\ UNCHANGED heap
  <2>1. /\ heap[t].xmax # NoXid /\ heap[t].ctid # t
        /\ ~TransactionIdIsInProgress(heap[t].xmax)
        /\ TransactionIdDidCommit(heap[t].xmax)
    BY <1>6, UpdateCases, Zenon
  <2>2. TypeOK /\ BackendInv /\ VersionOf(t)
    BY <1>3, ZenonT(60) DEF UsersInv, VersionInv
  <2>3. heap[t].xmax \in Xid
    BY <1>3, <2>2, TupleTyped, Zenon
  <2>4. proc[heap[t].xmax] # "none"
    BY <2>1, <2>2, <2>3, Zenon DEF VersionOf, Xid
  <2>5. Settled(heap[t].xmax)
    BY <2>1, <2>2, <2>3, <2>4, StatusKnown, Zenon
  <2> QED
    BY <1>1, <1>3, <1>6, <2>1, <2>5, NextVersionKeeps, ZenonT(60)
<1>7. CASE result = "deleted" /\ tuplock' = Unlocked(x) /\ NoRow(x) /\ UNCHANGED heap
  BY <1>1, <1>3, <1>7, NoRowKeeps, Zenon
<1> QED
  BY <1>4, <1>5, <1>6, <1>7, Zenon DEF heap_lock_tuple

-----------------------------------------------------------------------------
(* The initial state, and the theorems. *)

\* The invariant holds of a table of initial rows.
LEMMA UsersInit ==
    ASSUME Init
    PROVE  UsersInv
<1> DEFINE N == Len(InitialRows)
<1>1. /\ InitialRows \in Seq(User) /\ N \in Nat
      /\ DOMAIN InitialRows = 1 .. N
  BY UsersHeapAssumption, SMTT(60)
<1>2. NoXid \notin Xact /\ Xact \subseteq UserId /\ UserId \cap Email = {}
  BY UsersHeapAssumption, Zenon
<1>3. ASSUME NEW t \in 1 .. N
      PROVE  /\ InitialRows[t] \in User
             /\ InitialRows[t].user_id \in UserId
             /\ InitialRows[t].email \in Email
  <2>1. InitialRows[t] \in User
    BY <1>1, <1>3, SMTT(60)
  <2> QED
    BY <2>1, Zenon DEF User
<1>4. ASSUME NEW t \in 1 .. N
      PROVE  /\ Version(t, InitialRows[t], NoXid, FALSE) \in HeapTuple
             /\ Version(t, InitialRows[t], NoXid, FALSE).row = InitialRows[t]
             /\ Version(t, InitialRows[t], NoXid, FALSE).xmin = NoXid
             /\ Version(t, InitialRows[t], NoXid, FALSE).xmax = NoXid
             /\ Version(t, InitialRows[t], NoXid, FALSE).ctid = t
  <2>1. t \in Nat
    BY <1>1, <1>4, SMT
  <2> QED
    BY <1>3, <1>4, <2>1, Zenon DEF Version, HeapTuple, Xid
<1>5. heap = [t \in 1 .. N |-> Version(t, InitialRows[t], NoXid, FALSE)]
  BY Zenon DEF Init
<1>6. heap \in Seq(HeapTuple) /\ Len(heap) = N /\ DOMAIN heap = 1 .. N /\ Tid = 1 .. N
  <2>1. heap \in [1 .. N -> HeapTuple]
    BY <1>4, <1>5, Zenon
  <2>2. heap \in Seq(HeapTuple) /\ Len(heap) = N
    <3> HIDE DEF N
    <3> QED
      BY <1>1, <2>1, SMT
  <2> QED
    BY <2>1, <2>2, Zenon DEF Tid
<1>7. \A t \in Tid : /\ heap[t].row = InitialRows[t]
                     /\ heap[t].xmin = NoXid
                     /\ heap[t].xmax = NoXid
                     /\ heap[t].ctid = t
  BY <1>4, <1>5, <1>6, Zenon
<1>8. /\ index = UNION {{<<InitialRows[t].user_id, t>>, <<InitialRows[t].email, t>>}
                          : t \in 1 .. N}
      /\ proc = [x \in Xact |-> "none"]
      /\ clog = [x \in Xact |-> "none"]
      /\ xlock = {}
      /\ tuplock = {}
      /\ tx = [x \in Xact |-> Idle]
      /\ stmt \in Workload
  BY Zenon DEF Init
<1>9. /\ Idle \in Backend /\ Idle.pc = "start" /\ Idle.keys = <<>>
      /\ PlaceOf(Idle) = "start"
  <2>1. 0 \in 0 .. Len(heap)
    BY <1>1, <1>6, SMTT(60)
  <2>2. <<>> \in Seq(UserId \cup Email)
    BY SMTT(60)
  <2>3. Idle \in Backend /\ Idle.pc = "start" /\ Idle.keys = <<>>
    BY <2>1, <2>2, Zenon DEF Idle, Backend, Xid
  <2> QED
    BY <2>3, Zenon DEF PlaceOf
<1>10. \A k, t : <<k, t>> \in index <=> /\ t \in Tid
                                        /\ k \in {InitialRows[t].user_id, InitialRows[t].email}
  <2>1. ASSUME NEW k, NEW t, <<k, t>> \in index
        PROVE  t \in Tid /\ k \in {InitialRows[t].user_id, InitialRows[t].email}
    <3>1. PICK s \in 1 .. N :
                <<k, t>> \in {<<InitialRows[s].user_id, s>>, <<InitialRows[s].email, s>>}
      BY <1>8, <2>1, Zenon
    <3> QED
      BY <1>6, <3>1, ZenonT(60)
  <2>2. ASSUME NEW k, NEW t \in Tid, k \in {InitialRows[t].user_id, InitialRows[t].email}
        PROVE  <<k, t>> \in index
    <3>1. <<k, t>> \in {<<InitialRows[t].user_id, t>>, <<InitialRows[t].email, t>>}
      BY <2>2, ZenonT(60)
    <3> QED
      BY <1>6, <1>8, <3>1, Zenon
  <2> QED
    BY <2>1, <2>2, Zenon
<1>11. TypeOK
  <2>1. \A t \in Tid : heap[t].ctid \in t .. Len(heap)
    <3>1. ASSUME NEW t \in 1 .. N PROVE t \in t .. N
      BY <1>1, <3>1, SMTT(60)
    <3> QED
      BY <1>6, <1>7, <3>1, Zenon
  <2>2. index \subseteq (UserId \cup Email) \X Tid
    <3>1. ASSUME NEW e \in index PROVE e \in (UserId \cup Email) \X Tid
      <4>1. PICK s \in 1 .. N :
                  e \in {<<InitialRows[s].user_id, s>>, <<InitialRows[s].email, s>>}
        BY <1>8, <3>1, Zenon
      <4>2. InitialRows[s].user_id \in UserId /\ InitialRows[s].email \in Email /\ s \in Tid
        BY <1>3, <1>6, <4>1, Zenon
      <4> QED
        BY <4>1, <4>2, SMTT(60)
    <3> QED
      BY <3>1, Zenon
  <2>3. xlock = {x \in Xact : proc[x] = "running" \/ At(x, "release")}
    BY <1>8, <1>9, Zenon DEF At
  <2>4. tx \in [Xact -> Backend]
    BY <1>8, <1>9, Zenon
  <2>5. /\ proc \in [Xact -> {"none", "running", "ended"}]
        /\ clog \in [Xact -> {"none", "committed", "aborted"}]
        /\ tuplock \subseteq Tid \X Xact
    BY <1>8, Zenon
  <2> QED
    BY <1>6, <1>8, <2>1, <2>2, <2>3, <2>4, <2>5, ZenonT(60) DEF TypeOK
<1>12. BackendInv
  <2> SUFFICES ASSUME NEW x \in Xact PROVE LocalOK(x, tx[x])
    BY Zenon DEF BackendInv
  <2>1. tx[x] = Idle /\ proc[x] = "none" /\ clog[x] = "none"
    BY <1>8, Zenon
  <2> HIDE DEF Idle
  <2>2. PhaseOK(x, tx[x])
    BY <1>9, <2>1, Zenon DEF PhaseOK
  <2>3. KeysOK(x, tx[x])
    BY <1>9, <2>1, Zenon DEF KeysOK
  <2>4. TidOK(x, tx[x])
    BY <1>9, <2>1, Zenon DEF TidOK, Seeks
  <2> QED
    BY <2>2, <2>3, <2>4, ZenonT(60) DEF LocalOK
<1>13. VersionInv
  BY <1>2, <1>7, Zenon DEF VersionInv, VersionOf, Writes
<1>14. IndexInv
  <2> SUFFICES ASSUME NEW t \in Tid, NEW k \in {heap[t].row.user_id, heap[t].row.email}
               PROVE  Covered(k, t)
    BY Zenon DEF IndexInv
  <2>1. <<k, t>> \in index
    BY <1>7, <1>10, Zenon
  <2>2. t \in DOMAIN heap /\ t \in HotChain(heap, t)
    BY <1>6, ChainRoot, Zenon
  <2> QED
    BY <2>1, <2>2, Zenon DEF Covered
<1>15. UniqueInv
  <2>1. ASSUME NEW k, NEW t \in Tid, Covered(k, t)
        PROVE  k \in {InitialRows[t].user_id, InitialRows[t].email}
    <3>1. PICK r \in Tid : <<k, r>> \in index /\ t \in HotChain(heap, r)
      BY <1>6, <2>1, Zenon DEF Covered
    <3>2. HotClosed(heap, {r})
      BY <1>7, Zenon DEF HotClosed, HotLink
    <3>3. HotChain(heap, r) \subseteq {r}
      BY <1>6, <3>2, ChainLeast, Zenon
    <3> QED
      BY <1>10, <3>1, <3>3, Zenon
  <2>2. ASSUME NEW k, NEW s \in Tid, NEW t \in Tid, s # t, Covered(k, s), Covered(k, t)
        PROVE  FALSE
    <3>1. /\ k \in {InitialRows[s].user_id, InitialRows[s].email}
          /\ k \in {InitialRows[t].user_id, InitialRows[t].email}
      BY <2>1, <2>2, Zenon
    <3>2. /\ InitialRows[s].user_id # InitialRows[t].user_id
          /\ InitialRows[s].email # InitialRows[t].email
      BY <1>1, <1>6, <2>2, UsersHeapAssumption, Zenon
    <3>3. /\ InitialRows[s].user_id \in UserId /\ InitialRows[s].email \in Email
          /\ InitialRows[t].user_id \in UserId /\ InitialRows[t].email \in Email
      BY <1>3, <1>6, Zenon
    <3> QED
      BY <1>2, <3>1, <3>2, <3>3, Zenon
  <2> QED
    BY <2>2, Zenon DEF UniqueInv
<1> QED
  BY <1>11, <1>12, <1>13, <1>14, <1>15, ZenonT(60) DEF UsersInv

\* Every step keeps it.
LEMMA UsersStep ==
    ASSUME UsersInv, Next
    PROVE  UsersInv'
<1>1. PICK x \in Xact : Begin(x) \/ Step(x) \/ ProcessInterrupts(x)
  BY Zenon DEF Next
<1>2. CASE Begin(x)
  BY <1>2, BeginKeeps, Zenon
<1>3. CASE ProcessInterrupts(x)
  BY <1>3, InterruptKeeps, Zenon
<1>4. CASE Step(x)
  BY <1>4, ScanKeeps, AssignKeeps, AcquireKeeps, WakeKeeps, InsertKeeps, UpdateKeeps,
     DeleteKeeps, LockTupleKeeps, FetchKeeps, IndexKeeps, EndWithoutXidKeeps, RecordKeeps,
     ProcArrayKeeps, ReleaseKeeps, ZenonT(60) DEF Step
<1> QED
  BY <1>1, <1>2, <1>3, <1>4, ZenonT(60)

\* Standing still keeps it.
LEMMA UsersStutter ==
    ASSUME UsersInv, UNCHANGED vars
    PROVE  UsersInv'
<1>1. /\ stmt' = stmt /\ heap' = heap /\ index' = index /\ proc' = proc /\ clog' = clog
      /\ xlock' = xlock /\ tuplock' = tuplock /\ tx' = tx
  BY ZenonT(60) DEF vars
<1>2. TypeOK'
  BY <1>1, Zenon DEF UsersInv, TypeOK, Tid, Backend, At
<1>3. BackendInv'
  <2>1. ASSUME NEW y \in Xact
        PROVE  LocalOK(y, tx[y])'
    <3>1. PhaseOK(y, tx[y]) /\ KeysOK(y, tx[y]) /\ TidOK(y, tx[y])
      BY LocalFacts, ZenonT(60)
    <3>2. PhaseOK(y, tx[y])'
      BY <1>1, <3>1, Zenon DEF PhaseOK
    <3>3. KeysOK(y, tx[y])'
      BY <1>1, <3>1, Zenon DEF KeysOK
    <3>4. TidOK(y, tx[y])'
      BY <1>1, <3>1, Zenon DEF TidOK, Seeks, Settled, Tid
    <3> QED
      BY <3>2, <3>3, <3>4, ZenonT(60) DEF LocalOK
  <2> QED
    BY <2>1, ZenonT(60) DEF BackendInv
<1>4. VersionInv'
  BY <1>1, ZenonT(60) DEF UsersInv, VersionInv, VersionOf, Settled, Writes, Place, Tid
<1>5. /\ \A k, t : Covered(k, t)' <=> Covered(k, t)
      /\ \A k, t : Pending(k, t)' <=> Pending(k, t)
      /\ \A y : Aborted(y)' <=> Aborted(y)
      /\ Tid' = Tid
  <2>1. \A k, t : Covered(k, t)' <=> Covered(k, t)
    BY <1>1, Zenon DEF Covered
  <2>2. \A k, t : Pending(k, t)' <=> Pending(k, t)
    BY <1>1, SMT DEF Pending
  <2> QED
    BY <1>1, <2>1, <2>2, Zenon DEF Aborted, Tid
<1>6. IndexInv'
  <2> SUFFICES ASSUME NEW t \in Tid, NEW k \in {heap[t].row.user_id, heap[t].row.email}
               PROVE  Aborted(heap[t].xmin) \/ Covered(k, t) \/ Pending(k, t)
    BY <1>1, <1>5, Zenon DEF IndexInv, Aborted
  <2> QED
    BY Zenon DEF UsersInv, IndexInv
<1>7. UniqueInv'
  <2>1. /\ \A t : Alive(t)' => Alive(t)
        /\ \A s, t : Replacing(s, t) => Replacing(s, t)'
    BY <1>1, Zenon DEF Alive, Replacing, Settled, Aborted
  <2> QED
    BY <1>5, <2>1, Zenon DEF UsersInv, UniqueInv
<1> QED
  BY <1>2, <1>3, <1>4, <1>6, <1>7, ZenonT(60) DEF UsersInv

\* The inductive invariant holds of every run of the backends.
THEOREM UsersSafe == HistorySpec => []UsersInv
<1>1. HistoryInit => UsersInv
  BY UsersInit, ZenonT(60) DEF HistoryInit
<1>2. UsersInv /\ [HistoryNext]_historyVars => UsersInv'
  BY UsersStep, UsersStutter, ZenonT(60) DEF HistoryNext, historyVars
<1> QED
  BY <1>1, <1>2, PTL DEF HistorySpec

\* A version any statement sees: its inserter has committed, and both indexes
\* lead to it.
LEMMA LiveIs ==
    ASSUME UsersInv, NEW t \in Live, NEW k \in {heap[t].row.user_id, heap[t].row.email}
    PROVE  t \in Tid /\ Settled(heap[t].xmin) /\ Alive(t) /\ Covered(k, t)
<1>1. TypeOK /\ BackendInv /\ IndexInv /\ t \in Tid
  BY Zenon DEF UsersInv, Live
<1>2. heap[t].xmin \in Xid /\ heap[t].xmax \in Xid
  BY <1>1, TupleTyped, Zenon
<1>3. /\ heap[t].xmin \notin GetSnapshotData
      /\ TransactionIdDidCommit(heap[t].xmin)
      /\ \/ heap[t].xmax = NoXid
         \/ heap[t].lockonly
         \/ heap[t].xmax \in GetSnapshotData
         \/ ~TransactionIdDidCommit(heap[t].xmax)
  BY Zenon DEF Live, HeapTupleSatisfiesMVCC
<1>4. NoXid \notin Xact
  BY UsersHeapAssumption, ZenonT(60)
<1>5. Settled(heap[t].xmin)
  BY <1>2, <1>3, Zenon DEF Settled, GetSnapshotData, TransactionIdDidCommit, Xid
<1>6. Alive(t)
  <2>1. heap[t].xmax \in GetSnapshotData => ~Settled(heap[t].xmax)
    BY <1>4, Zenon DEF GetSnapshotData, Settled
  <2>2. ~TransactionIdDidCommit(heap[t].xmax) => ~Settled(heap[t].xmax)
    BY Zenon DEF Settled, TransactionIdDidCommit
  <2> QED
    BY <1>3, <1>5, <2>1, <2>2, Zenon DEF Alive, Settled, Aborted
<1>7. ~Pending(k, t)
  <2>1. SUFFICES ASSUME NEW y \in Xact, heap[t].xmin = y,
                        \E i \in DOMAIN tx[y].keys : tx[y].keys[i] = k
                 PROVE  FALSE
    BY Zenon DEF Pending
  <2>2. clog[y] = "committed"
    BY <1>4, <1>5, <2>1, Zenon DEF Settled
  <2>3. tx[y].keys = <<>>
    BY <1>1, <2>2, Zenon DEF BackendInv, LocalOK, KeysOK
  <2> QED
    BY <2>1, <2>3, SMTT(60)
<1> QED
  BY <1>1, <1>5, <1>6, <1>7, Zenon DEF IndexInv, Alive

\* The invariant implies that the keys are unique whenever someone looks.
LEMMA UniqueFollows ==
    ASSUME UsersInv
    PROVE  UniqueWhenSeen
<1>1. SUFFICES ASSUME NEW s \in Live, NEW t \in Live, s # t,
                      NEW k, k \in {heap[s].row.user_id, heap[s].row.email},
                             k \in {heap[t].row.user_id, heap[t].row.email}
               PROVE  FALSE
  BY Zenon DEF UniqueWhenSeen
<1>2. /\ s \in Tid /\ Settled(heap[s].xmin) /\ Alive(s) /\ Covered(k, s)
      /\ t \in Tid /\ Settled(heap[t].xmin) /\ Alive(t) /\ Covered(k, t)
  BY <1>1, LiveIs, Zenon
<1>3. k \in UserId \cup Email
  <2>1. heap[s].row \in User
    BY <1>2, TupleTyped, Zenon DEF UsersInv
  <2> QED
    BY <1>1, <2>1, Zenon DEF User
<1>4. Replacing(s, t) \/ Replacing(t, s)
  BY <1>1, <1>2, <1>3, Zenon DEF UsersInv, UniqueInv
<1>5. ASSUME NEW a \in Tid, NEW b \in Tid, a # b, Replacing(a, b), Settled(heap[b].xmin)
      PROVE  FALSE
  <2>1. heap[a].ctid = b /\ heap[a].xmax \in Xact /\ proc[heap[a].xmax] = "running"
    BY <1>5, ZenonT(60) DEF Replacing
  <2>2. heap[b].xmin = heap[a].xmax
    BY <1>5, <2>1, Zenon DEF UsersInv, VersionInv, VersionOf
  <2> QED
    BY <1>5, <2>1, <2>2, UsersHeapAssumption, Zenon DEF Settled
<1> QED
  BY <1>1, <1>2, <1>4, <1>5, Zenon

\* The invariant implies that no internal error is due.
LEMMA NoInternalErrorFollows ==
    ASSUME UsersInv
    PROVE  NoInternalError
<1> SUFFICES ASSUME NEW x \in Xact
             PROVE  LET v == heap[tx[x].tid]
                    IN  /\ (At(x, "modify") /\ stmt[x].op # "insert") \/ At(x, "lock")
                           => HeapTupleSatisfiesUpdate(tx[x].tid, x) # "invisible"
                        /\ At(x, "fetch") => /\ v.xmin = tx[x].prior
                                             /\ ~TransactionIdIsInProgress(v.xmin)
  BY Zenon DEF NoInternalError
<1> DEFINE v == heap[tx[x].tid]
<1>1. TidOK(x, tx[x])
  BY LocalFacts, ZenonT(60)
<1>2. NoXid \notin Xact
  BY UsersHeapAssumption, ZenonT(60)
<1>3. Settled(v.xmin) => /\ TransactionIdDidCommit(v.xmin)
                         /\ ~TransactionIdIsInProgress(v.xmin)
  BY <1>2, Zenon DEF Settled, TransactionIdDidCommit, TransactionIdIsInProgress
<1>4. ASSUME (At(x, "modify") /\ stmt[x].op # "insert") \/ At(x, "lock")
      PROVE  HeapTupleSatisfiesUpdate(tx[x].tid, x) # "invisible"
  <2>1. Seeks(x, tx[x])
    BY <1>4, Zenon DEF At, Seeks, PlaceOf
  <2>2. Settled(v.xmin)
    BY <1>1, <2>1, Zenon DEF TidOK
  <2> QED
    BY <1>3, <2>2, UpdateCases, Zenon
<1>5. ASSUME At(x, "fetch")
      PROVE  v.xmin = tx[x].prior /\ ~TransactionIdIsInProgress(v.xmin)
  <2>1. PlaceOf(tx[x]) = "fetch"
    BY <1>5, Zenon DEF At, PlaceOf
  <2>2. Settled(v.xmin) /\ v.xmin = tx[x].prior
    BY <1>1, <2>1, Zenon DEF TidOK, Seeks
  <2> QED
    BY <1>3, <2>2, ZenonT(60)
<1> QED
  BY <1>4, <1>5, ZenonT(60)

\* The heap, the indexes, the transaction tables and the local states of the
\* backends keep their types; an update chain leads forward; a backend holds
\* the lock on its xid exactly while others may have to wait for it
\* (ProcArrayEndTransaction before ResourceOwnerRelease).
THEOREM UsersTyped == HistorySpec => []TypeOK
<1>1. UsersInv => TypeOK
  BY ZenonT(60) DEF UsersInv
<1> QED
  BY <1>1, UsersSafe, PTL

\* The unique indexes do what CREATE TABLE users asks of them, for any number
\* of backends and rows: no two rows any statement can see share a user_id or
\* an e-mail address (_bt_check_unique and the waits of _bt_doinsert,
\* heap_update with and without a heap-only successor).
THEOREM UniqueAlways == HistorySpec => []UniqueWhenSeen
<1>1. UsersInv => UniqueWhenSeen
  BY UniqueFollows, ZenonT(60)
<1> QED
  BY <1>1, UsersSafe, PTL

\* The internal errors of heap_update, heap_delete, heap_lock_tuple and
\* heapam_tuple_lock are never raised, however many backends change the rows.
THEOREM NoInternalErrorEver == HistorySpec => []NoInternalError
<1>1. UsersInv => NoInternalError
  BY NoInternalErrorFollows, Zenon
<1> QED
  BY <1>1, UsersSafe, PTL
===============================================================================
