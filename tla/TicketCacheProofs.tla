-------------------------- MODULE TicketCacheProofs --------------------------
(***************************************************************************)
(* Proofs about the cache of tickets-service: for any number of readers,   *)
(* writers, processes and keys, and whatever fails, one reader at a time   *)
(* fills a key, and a key nobody is about to delete shows what the         *)
(* database holds - with the exceptions TicketCache names.                 *)
(***************************************************************************)
EXTENDS TicketCache, FiniteSetTheorems, TLAPS

ReaderRows ==
  [pc: {"idle", "get", "joined", "lock", "check", "fetch", "set", "release", "ended"},
   key: CacheKeys \cup {Empty}, result: Nat \cup {Empty}]

WriterRows ==
  [pc: {"idle", "lock", "commit", "invalidate", "ended", "lost"},
   kind: ChangeKinds \cup {Empty}, locks: SUBSET (Seats \cup {"ticket"}), left: Nat,
   todo: SUBSET CacheKeys, answer: {Empty, "ok", "busy", "error"}]

Shapes ==
  /\ db \in [CacheKeys -> Nat]
  /\ cache \in [CacheKeys -> Nat \cup {Empty}]
  /\ replica \in [CacheKeys -> Nat \cup {Empty}]
  /\ fillLock \in [CacheKeys -> Readers \cup {Empty}]
  /\ reader \in [Readers -> ReaderRows]
  /\ writer \in [Writers -> WriterRows]
  /\ excused \subseteq CacheKeys /\ overrun \subseteq CacheKeys

Filling(r) == reader[r].pc \in {"check", "fetch", "set", "release"}

(* Only a call that has ended, or was never made, is about no key.         *)
KeysNamed == \A r \in Readers : reader[r].pc # "ended" => reader[r].key \in CacheKeys

(* Who fills a key holds its lease, unless it ran out.                     *)
LeaseHeld ==
  \A r \in Readers :
    Filling(r) /\ reader[r].key \notin overrun => fillLock[reader[r].key] = r

(* What is about to be stored was fetched, from this version or an older.  *)
FetchedBefore ==
  \A r \in Readers :
    reader[r].pc = "set" =>
      reader[r].result \in Nat /\ reader[r].result <= db[reader[r].key]

(* Only a writer that has committed has keys to delete.                    *)
TodoAfterCommit ==
  \A w \in Writers :
    /\ writer[w].pc \notin {"commit", "invalidate"} => writer[w].todo = {}
    /\ writer[w].pc = "commit" => writer[w].todo \subseteq Invalidates(writer[w].kind)

(* Only a call that was never made, or has ended, is of no kind.           *)
KindsNamed == \A w \in Writers : writer[w].pc # "ended" => writer[w].kind \in ChangeKinds

CacheInv ==
  /\ Shapes
  /\ KeysNamed
  /\ LeaseHeld
  /\ FetchedBefore
  /\ TodoAfterCommit
  /\ KindsNamed
  /\ QuietCacheIsFresh

-----------------------------------------------------------------------------
LEMMA InitCacheInv == InitCache => CacheInv
<1> SUFFICES ASSUME InitCache PROVE CacheInv
  OBVIOUS
<1>. PICK plan \in Plans :
       /\ cache = [k \in CacheKeys |-> IF k \in plan.warm THEN 0 ELSE Empty]
       /\ reader = [r \in Readers |->
            [pc |-> IF plan.key[r] = Empty THEN "ended" ELSE "idle", key |-> plan.key[r],
             result |-> Empty]]
       /\ writer = [w \in Writers |->
            [pc |-> IF plan.kind[w] = Empty THEN "ended" ELSE "idle", kind |-> plan.kind[w],
             locks |-> {}, left |-> 0, todo |-> {}, answer |-> Empty]]
  BY DEF InitCache
<1>1. plan.key \in [Readers -> CacheKeys \cup {Empty}]
  BY CacheAssumption
<1>2. plan.kind \in [Writers -> ChangeKinds \cup {Empty}]
  BY CacheAssumption
<1>3. Shapes
  <2>1. reader \in [Readers -> ReaderRows]
    BY <1>1 DEF ReaderRows
  <2>2. writer \in [Writers -> WriterRows]
    BY <1>2 DEF WriterRows
  <2>. QED
    BY <2>1, <2>2 DEF Shapes, InitCache
<1>4. KeysNamed
  BY <1>1 DEF KeysNamed
<1>5. LeaseHeld /\ FetchedBefore
  BY DEF LeaseHeld, FetchedBefore, Filling
<1>6. TodoAfterCommit /\ KindsNamed
  BY <1>2 DEF TodoAfterCommit, KindsNamed
<1>7. QuietCacheIsFresh
  BY DEF QuietCacheIsFresh, InitCache
<1>. QED
  BY <1>3, <1>4, <1>5, <1>6, <1>7 DEF CacheInv

(* Nothing of the invariant is about the replicas' lag, the joined fetches *)
(* or what may still go wrong.                                             *)
LEMMA CacheStutter ==
  ASSUME CacheInv, UNCHANGED <<db, cache, fillLock, reader, writer, excused, overrun>>,
         replica' \in [CacheKeys -> Nat \cup {Empty}]
  PROVE  CacheInv'
BY DEF CacheInv, Shapes, KeysNamed, LeaseHeld, Filling, FetchedBefore, TodoAfterCommit,
       KindsNamed, QuietCacheIsFresh

LEMMA ReplicateStep ==
  ASSUME CacheInv, NEW k \in CacheKeys, Replicate(k)
  PROVE  CacheInv'
<1>1. replica' \in [CacheKeys -> Nat \cup {Empty}]
  BY DEF CacheInv, Shapes, Replicate
<1>. QED
  BY <1>1, CacheStutter DEF Replicate

LEMMA ExpireStep ==
  ASSUME CacheInv, NEW k \in CacheKeys, Expire(k)
  PROVE  CacheInv'
BY DEF CacheInv, Shapes, KeysNamed, LeaseHeld, Filling, FetchedBefore, TodoAfterCommit,
       KindsNamed, QuietCacheIsFresh, Expire

LEMMA LeaseRunsOutStep ==
  ASSUME CacheInv, NEW k \in CacheKeys, LeaseRunsOut(k)
  PROVE  CacheInv'
<1>1. /\ Shapes' /\ KeysNamed' /\ FetchedBefore' /\ TodoAfterCommit' /\ KindsNamed'
      /\ QuietCacheIsFresh'
  BY DEF CacheInv, Shapes, KeysNamed, FetchedBefore, TodoAfterCommit, KindsNamed,
         QuietCacheIsFresh, LeaseRunsOut
<1>2. LeaseHeld'
  <2>. SUFFICES ASSUME NEW r \in Readers, Filling(r), reader[r].key \notin overrun'
                PROVE  fillLock'[reader[r].key] = r
    BY DEF LeaseHeld, Filling, LeaseRunsOut
  <2>1. reader[r].key \in CacheKeys /\ reader[r].key \notin overrun
    BY DEF CacheInv, KeysNamed, Filling, LeaseRunsOut
  <2>2. fillLock[reader[r].key] = r
    BY <2>1 DEF CacheInv, LeaseHeld
  <2>3. reader[r].key # k
    BY <2>2 DEF LeaseRunsOut, Ended, Filling
  <2>. QED
    BY <2>1, <2>2, <2>3 DEF LeaseRunsOut, CacheInv, Shapes
<1>. QED
  BY <1>1, <1>2 DEF CacheInv

-----------------------------------------------------------------------------
(* Readers.                                                                *)

ReaderPcs == {"idle", "get", "joined", "lock", "check", "fetch", "set", "release", "ended"}

(* What an assignment to fields of a reader's row leaves behind.           *)
LEMMA PcSet ==
  ASSUME Shapes, NEW r \in Readers, NEW pc \in ReaderPcs,
         reader' = [reader EXCEPT ![r].pc = pc]
  PROVE  /\ reader' \in [Readers -> ReaderRows]
         /\ \A q \in Readers \ {r} : reader'[q] = reader[q]
         /\ reader'[r].pc = pc /\ reader'[r].key = reader[r].key
         /\ reader'[r].result = reader[r].result
<1>1. reader[r] \in ReaderRows
  BY DEF Shapes
<1>2. reader'[r] = [reader[r] EXCEPT !.pc = pc]
  BY DEF Shapes
<1>3. [reader[r] EXCEPT !.pc = pc] \in ReaderRows
  BY <1>1 DEF ReaderRows, ReaderPcs
<1>4. /\ [reader[r] EXCEPT !.pc = pc].pc = pc
      /\ [reader[r] EXCEPT !.pc = pc].key = reader[r].key
      /\ [reader[r] EXCEPT !.pc = pc].result = reader[r].result
  BY <1>1 DEF ReaderRows
<1>. QED
  BY <1>2, <1>3, <1>4 DEF Shapes

LEMMA ResultSet ==
  ASSUME Shapes, NEW r \in Readers, NEW pc \in ReaderPcs, NEW v \in Nat \cup {Empty},
         reader' = [reader EXCEPT ![r].pc = pc, ![r].result = v]
  PROVE  /\ reader' \in [Readers -> ReaderRows]
         /\ \A q \in Readers \ {r} : reader'[q] = reader[q]
         /\ reader'[r].pc = pc /\ reader'[r].key = reader[r].key /\ reader'[r].result = v
<1>1. reader[r] \in ReaderRows
  BY DEF Shapes
<1>2. reader'[r] = [reader[r] EXCEPT !.pc = pc, !.result = v]
  BY DEF Shapes
<1>3. [reader[r] EXCEPT !.pc = pc, !.result = v] \in ReaderRows
  BY <1>1 DEF ReaderRows, ReaderPcs
<1>4. /\ [reader[r] EXCEPT !.pc = pc, !.result = v].pc = pc
      /\ [reader[r] EXCEPT !.pc = pc, !.result = v].key = reader[r].key
      /\ [reader[r] EXCEPT !.pc = pc, !.result = v].result = v
  BY <1>1 DEF ReaderRows
<1>. QED
  BY <1>2, <1>3, <1>4 DEF Shapes

(* A reader moves on without touching Redis: the rest of the invariant is  *)
(* about its new row.                                                      *)
LEMMA RowMoves ==
  ASSUME CacheInv, NEW r \in Readers,
         reader' \in [Readers -> ReaderRows],
         \A q \in Readers \ {r} : reader'[q] = reader[q],
         reader'[r].key = reader[r].key,
         reader[r].pc # "ended",
         Filling(r)' => Filling(r),
         reader'[r].pc = "set" =>
           reader'[r].result \in Nat /\ reader'[r].result <= db[reader[r].key],
         UNCHANGED <<db, cache, replica, fillLock, writer, excused, overrun>>
  PROVE  CacheInv'
<1>1. Shapes'
  BY DEF CacheInv, Shapes
<1>2. KeysNamed' /\ LeaseHeld' /\ FetchedBefore'
  BY DEF CacheInv, KeysNamed, LeaseHeld, Filling, FetchedBefore
<1>3. TodoAfterCommit' /\ KindsNamed' /\ QuietCacheIsFresh'
  BY DEF CacheInv, TodoAfterCommit, KindsNamed, QuietCacheIsFresh
<1>. QED
  BY <1>1, <1>2, <1>3 DEF CacheInv

LEMMA ReadStep ==
  ASSUME CacheInv, NEW r \in Readers, Read(r)
  PROVE  CacheInv'
<1>1. /\ reader' \in [Readers -> ReaderRows]
      /\ \A q \in Readers \ {r} : reader'[q] = reader[q]
      /\ reader'[r].pc = "get" /\ reader'[r].key = reader[r].key
  BY PcSet DEF CacheInv, Read, Move, ReaderPcs
<1>. QED
  BY <1>1, RowMoves DEF Read, At, rest, Filling

LEMMA GetStep ==
  ASSUME CacheInv, NEW r \in Readers, Get(r)
  PROVE  CacheInv'
<1>. DEFINE k == reader[r].key
<1>0. k \in CacheKeys
  BY DEF CacheInv, KeysNamed, Get, At
<1>1. replica[k] \in Nat \cup {Empty}
  BY <1>0 DEF CacheInv, Shapes
<1>2. ASSUME NEW pc \in {"ended", "joined", "lock"},
             \/ reader' = [reader EXCEPT ![r].pc = pc, ![r].result = replica[k]]
             \/ reader' = [reader EXCEPT ![r].pc = pc]
      PROVE  CacheInv'
  <2>1. /\ reader' \in [Readers -> ReaderRows]
        /\ \A q \in Readers \ {r} : reader'[q] = reader[q]
        /\ reader'[r].pc = pc /\ reader'[r].key = reader[r].key
    <3>1. pc \in ReaderPcs /\ Shapes
      BY DEF ReaderPcs, CacheInv
    <3>2. CASE reader' = [reader EXCEPT ![r].pc = pc, ![r].result = replica[k]]
      BY <1>1, <3>1, <3>2, ResultSet
    <3>3. CASE reader' = [reader EXCEPT ![r].pc = pc]
      BY <3>1, <3>3, PcSet
    <3>. QED
      BY <1>2, <3>2, <3>3
  <2>. QED
    BY <2>1, RowMoves DEF Get, At, rest, Filling
<1>. QED
  BY <1>2 DEF Get, Shown, Move

LEMMA DoubleCheckStep ==
  ASSUME CacheInv, NEW r \in Readers, DoubleCheck(r)
  PROVE  CacheInv'
<1>. DEFINE seen == replica[reader[r].key]
            pc == IF seen = Empty THEN "fetch" ELSE "release"
<1>1. seen \in Nat \cup {Empty}
  BY DEF CacheInv, KeysNamed, DoubleCheck, At, Shapes
<1>2. reader' = [reader EXCEPT ![r].pc = pc, ![r].result = seen]
  BY DEF DoubleCheck, Shown
<1>3. pc \in ReaderPcs /\ pc # "set"
  BY DEF ReaderPcs
<1>. HIDE DEF pc, seen
<1>4. /\ reader' \in [Readers -> ReaderRows]
      /\ \A q \in Readers \ {r} : reader'[q] = reader[q]
      /\ reader'[r].pc = pc /\ reader'[r].key = reader[r].key
  BY <1>1, <1>2, <1>3, ResultSet DEF CacheInv
<1>. QED
  BY <1>3, <1>4, RowMoves DEF DoubleCheck, At, rest, Filling

LEMMA FetchStep ==
  ASSUME CacheInv, NEW r \in Readers, Fetch(r)
  PROVE  CacheInv'
<1>. DEFINE v == db[reader[r].key]
<1>1. v \in Nat
  BY DEF CacheInv, KeysNamed, Fetch, At, Shapes
<1>2. reader' = [reader EXCEPT ![r].pc = "set", ![r].result = v] /\ v <= v
  BY <1>1 DEF Fetch
<1>. HIDE DEF v
<1>3. /\ reader' \in [Readers -> ReaderRows]
      /\ \A q \in Readers \ {r} : reader'[q] = reader[q]
      /\ reader'[r].key = reader[r].key /\ reader'[r].result = v
  BY <1>1, <1>2, ResultSet DEF CacheInv, ReaderPcs
<1>. USE DEF v
<1>. QED
  BY <1>1, <1>2, <1>3, RowMoves DEF Fetch, At, rest, Filling

LEMMA FillFailsStep ==
  ASSUME CacheInv, NEW r \in Readers, FillFails(r)
  PROVE  CacheInv'
<1>1. /\ reader' \in [Readers -> ReaderRows]
      /\ \A q \in Readers \ {r} : reader'[q] = reader[q]
      /\ reader'[r].pc = "release" /\ reader'[r].key = reader[r].key
  BY ResultSet DEF CacheInv, FillFails, ReaderPcs
<1>. QED
  BY <1>1, RowMoves DEF FillFails, rest, Filling

LEMMA AcquireStep ==
  ASSUME CacheInv, NEW r \in Readers, AcquireFillLock(r)
  PROVE  CacheInv'
<1>. DEFINE k == reader[r].key
<1>0. k \in CacheKeys
  BY DEF CacheInv, KeysNamed, AcquireFillLock, At
<1>1. /\ reader' \in [Readers -> ReaderRows]
      /\ \A q \in Readers \ {r} : reader'[q] = reader[q]
      /\ reader'[r].pc = "check" /\ reader'[r].key = k
  BY PcSet DEF CacheInv, AcquireFillLock, Move, ReaderPcs
<1>2. Shapes'
  BY <1>1 DEF CacheInv, Shapes, AcquireFillLock, rest
<1>3. KeysNamed'
  BY <1>0, <1>1 DEF CacheInv, KeysNamed
<1>4. FetchedBefore'
  BY <1>1 DEF CacheInv, FetchedBefore, AcquireFillLock, rest
<1>5. LeaseHeld'
  <2>. SUFFICES ASSUME NEW q \in Readers, Filling(q)', reader'[q].key \notin overrun
                PROVE  fillLock'[reader'[q].key] = q
    BY DEF LeaseHeld, AcquireFillLock
  <2>1. fillLock[k] = Empty /\ fillLock' = [fillLock EXCEPT ![k] = r]
    BY DEF AcquireFillLock, LeaseFree
  <2>2. CASE q = r
    BY <1>0, <1>1, <2>1, <2>2 DEF CacheInv, Shapes
  <2>3. CASE q # r
    <3>1. fillLock[reader[q].key] = q
      BY <1>1, <2>3 DEF CacheInv, LeaseHeld, Filling
    <3>2. reader[q].key # k
      BY <2>1, <3>1, CacheAssumption
    <3>. QED
      BY <1>1, <2>1, <2>3, <3>1, <3>2 DEF CacheInv, Shapes
  <2>. QED
    BY <2>2, <2>3
<1>6. TodoAfterCommit' /\ KindsNamed' /\ QuietCacheIsFresh'
  BY DEF CacheInv, TodoAfterCommit, KindsNamed, QuietCacheIsFresh, AcquireFillLock, rest
<1>. QED
  BY <1>2, <1>3, <1>4, <1>5, <1>6 DEF CacheInv

LEMMA SetStep ==
  ASSUME CacheInv, NEW r \in Readers, Set(r)
  PROVE  CacheInv'
<1>. DEFINE k == reader[r].key
            v == reader[r].result
<1>0. k \in CacheKeys /\ v \in Nat /\ v <= db[k] /\ db[k] \in Nat
  BY DEF CacheInv, KeysNamed, FetchedBefore, Set, At, Shapes
<1>1. /\ reader'[r].pc = "release" /\ reader'[r].key = k
      /\ \A q \in Readers \ {r} : reader'[q] = reader[q]
      /\ reader' \in [Readers -> ReaderRows]
  BY PcSet DEF CacheInv, Set, Move, ReaderPcs
<1>2. Shapes'
  BY <1>0, <1>1 DEF CacheInv, Shapes, Set, rest
<1>3. KeysNamed' /\ FetchedBefore'
  BY <1>0, <1>1 DEF CacheInv, KeysNamed, FetchedBefore, Set, rest
<1>4. LeaseHeld'
  BY <1>1 DEF CacheInv, LeaseHeld, Filling, Set, At
<1>5. TodoAfterCommit' /\ KindsNamed'
  BY DEF CacheInv, TodoAfterCommit, KindsNamed, Set, rest
<1>6. QuietCacheIsFresh'
  <2>1. CASE v < db[k]
    BY <1>0, <2>1 DEF CacheInv, Shapes, QuietCacheIsFresh, Set, rest
  <2>2. CASE ~(v < db[k])
    <3>1. v = db[k]
      BY <1>0, <2>2
    <3>. QED
      BY <1>0, <2>2, <3>1 DEF CacheInv, Shapes, QuietCacheIsFresh, Set, rest
  <2>. QED
    BY <2>1, <2>2
<1>. QED
  BY <1>2, <1>3, <1>4, <1>5, <1>6 DEF CacheInv

(* The end of a fetch answers some readers, and leaves no other different. *)
LEMMA EndRows ==
  ASSUME CacheInv, NEW r \in Readers, NEW v \in Nat \cup {Empty}, End(r, v)
  PROVE  /\ reader' \in [Readers -> ReaderRows]
         /\ reader'[r].pc = "ended"
         /\ \A q \in Readers :
              \/ reader'[q] = reader[q]
              \/ /\ reader'[q].pc = "ended" /\ reader'[q].result = v
                 /\ reader'[q].key = reader[q].key /\ reader[q].key = reader[r].key
<1>1. \A q \in Readers :
        reader'[q] = IF Answered(r, q, v)
                     THEN [reader[q] EXCEPT !.pc = "ended", !.result = v] ELSE reader[q]
  BY DEF End
<1>2. \A q \in Readers :
        /\ reader[q] \in ReaderRows
        /\ [reader[q] EXCEPT !.pc = "ended", !.result = v] \in ReaderRows
        /\ [reader[q] EXCEPT !.pc = "ended", !.result = v].pc = "ended"
        /\ [reader[q] EXCEPT !.pc = "ended", !.result = v].result = v
        /\ [reader[q] EXCEPT !.pc = "ended", !.result = v].key = reader[q].key
  BY DEF CacheInv, Shapes, ReaderRows
<1>3. Answered(r, r, v) /\ \A q \in Readers : Answered(r, q, v) => reader[q].key = reader[r].key
  BY DEF Answered
<1>4. DOMAIN reader' = Readers /\ reader' = [q \in Readers |-> reader'[q]]
  BY DEF End
<1>. QED
  BY <1>1, <1>2, <1>3, <1>4

(* Readers end and a lease is freed that nobody who still fills holds.     *)
LEMMA ReadersEnd ==
  ASSUME CacheInv,
         reader' \in [Readers -> ReaderRows],
         \A q \in Readers : reader'[q] = reader[q] \/ reader'[q].pc = "ended",
         fillLock' \in [CacheKeys -> Readers \cup {Empty}],
         \A q \in Readers, k \in CacheKeys :
           fillLock[k] = q /\ reader'[q].pc # "ended" => fillLock'[k] = q,
         UNCHANGED <<db, cache, replica, writer, excused, overrun>>
  PROVE  CacheInv'
<1>1. Shapes'
  BY DEF CacheInv, Shapes
<1>2. KeysNamed'
  BY DEF CacheInv, KeysNamed
<1>3. FetchedBefore'
  BY DEF CacheInv, FetchedBefore
<1>4. LeaseHeld'
  <2>. SUFFICES ASSUME NEW q \in Readers, Filling(q)', reader'[q].key \notin overrun
                PROVE  fillLock'[reader'[q].key] = q
    BY DEF LeaseHeld
  <2>1. reader'[q] = reader[q] /\ reader[q].pc # "ended"
    BY DEF Filling
  <2>. QED
    BY <2>1 DEF CacheInv, LeaseHeld, KeysNamed, Filling
<1>5. TodoAfterCommit' /\ KindsNamed' /\ QuietCacheIsFresh'
  BY DEF CacheInv, TodoAfterCommit, KindsNamed, QuietCacheIsFresh
<1>. QED
  BY <1>1, <1>2, <1>3, <1>4, <1>5 DEF CacheInv

LEMMA BusyStep ==
  ASSUME CacheInv, NEW r \in Readers, FillLockBusy(r)
  PROVE  CacheInv'
<1>1. End(r, Empty)
  BY DEF FillLockBusy
<1>. QED
  BY <1>1, EndRows, ReadersEnd DEF FillLockBusy, rest, CacheInv, Shapes

LEMMA FreeStep ==
  ASSUME CacheInv, NEW r \in Readers, FreeFillLock(r)
  PROVE  CacheInv'
<1>1. reader[r].result \in Nat \cup {Empty} /\ reader[r].key \in CacheKeys
  BY DEF CacheInv, Shapes, ReaderRows, KeysNamed, FreeFillLock, At
<1>2. End(r, reader[r].result)
  BY DEF FreeFillLock
<1>3. /\ reader' \in [Readers -> ReaderRows]
      /\ reader'[r].pc = "ended"
      /\ \A q \in Readers : reader'[q] = reader[q] \/ reader'[q].pc = "ended"
  BY <1>1, <1>2, EndRows
<1>4. fillLock' \in [CacheKeys -> Readers \cup {Empty}]
  BY DEF CacheInv, Shapes, FreeFillLock
<1>5. \A q \in Readers, k \in CacheKeys :
        fillLock[k] = q /\ reader'[q].pc # "ended" => fillLock'[k] = q
  BY <1>1, <1>3 DEF CacheInv, Shapes, FreeFillLock
<1>. QED
  BY <1>3, <1>4, <1>5, ReadersEnd DEF FreeFillLock, rest

-----------------------------------------------------------------------------
(* Writers.                                                                *)

(* A writer's row changes, and what it leaves of its keys is excused.      *)
LEMMA WriterMoves ==
  ASSUME CacheInv,
         writer' \in [Writers -> WriterRows],
         \A w \in Writers :
           /\ writer'[w].kind = writer[w].kind
           /\ writer[w].pc = "ended" => writer'[w].pc = "ended"
           /\ writer'[w].todo \subseteq writer[w].todo
           /\ writer[w].todo \ writer'[w].todo \subseteq excused'
           /\ writer'[w] = writer[w] \/ writer'[w].todo = {},
         excused \subseteq excused', excused' \subseteq CacheKeys,
         UNCHANGED <<db, cache, replica, fillLock, reader, overrun>>
  PROVE  CacheInv'
<1>1. Shapes' /\ TodoAfterCommit' /\ KindsNamed'
  BY DEF CacheInv, Shapes, TodoAfterCommit, KindsNamed
<1>2. KeysNamed' /\ LeaseHeld' /\ FetchedBefore'
  BY DEF CacheInv, KeysNamed, LeaseHeld, Filling, FetchedBefore
<1>3. QuietCacheIsFresh'
  BY DEF CacheInv, QuietCacheIsFresh
<1>. QED
  BY <1>1, <1>2, <1>3 DEF CacheInv

LEMMA AnswerMoves ==
  ASSUME CacheInv, NEW w \in Writers, NEW a \in {Empty, "ok", "busy", "error"}, Answer(w, a),
         writer[w].todo \subseteq excused',
         excused \subseteq excused', excused' \subseteq CacheKeys,
         UNCHANGED <<db, cache, replica, fillLock, reader, overrun>>
  PROVE  CacheInv'
<1>. DEFINE new == [writer[w] EXCEPT !.pc = "ended", !.answer = a, !.locks = {}, !.left = 0,
                                     !.todo = {}]
<1>0. writer[w] \in WriterRows
  BY DEF CacheInv, Shapes
<1>1. new \in WriterRows /\ new.pc = "ended" /\ new.kind = writer[w].kind /\ new.todo = {}
  BY <1>0 DEF WriterRows
<1>2. writer' = [writer EXCEPT ![w] = new]
  BY <1>0 DEF Answer, CacheInv, Shapes
<1>. HIDE DEF new
<1>3. /\ writer' \in [Writers -> WriterRows] /\ writer'[w] = new
      /\ \A v \in Writers \ {w} : writer'[v] = writer[v]
  BY <1>1, <1>2 DEF CacheInv, Shapes
<1>. QED
  BY <1>1, <1>3, WriterMoves DEF CacheInv, TodoAfterCommit

(* A call that has begun takes its locks, or goes to its commit.           *)
LEMMA WriterBegins ==
  ASSUME CacheInv, NEW w \in Writers,
         writer[w].pc \in {"idle", "lock"},
         NEW new \in WriterRows, writer' = [writer EXCEPT ![w] = new],
         new.kind = writer[w].kind, new.todo = writer[w].todo,
         UNCHANGED <<db, cache, replica, fillLock, reader, excused, overrun>>
  PROVE  CacheInv'
<1>1. writer[w].todo = {}
  BY DEF CacheInv, TodoAfterCommit
<1>2. /\ writer' \in [Writers -> WriterRows] /\ writer'[w] = new
      /\ \A v \in Writers \ {w} : writer'[v] = writer[v]
  BY DEF CacheInv, Shapes
<1>3. excused' \subseteq CacheKeys
  BY DEF CacheInv, Shapes
<1>. QED
  BY <1>1, <1>2, <1>3, WriterMoves DEF CacheInv, TodoAfterCommit

LEMMA StartChangeStep ==
  ASSUME CacheInv, NEW w \in Writers, StartChange(w)
  PROVE  CacheInv'
<1>0. writer[w] \in WriterRows
  BY DEF CacheInv, Shapes
<1>. PICK S \in SUBSET Seats : \E n \in Transactions(writer[w].kind, S) :
       IF writer[w].kind = "sale"
       THEN writer' = [writer EXCEPT ![w].pc = "lock", ![w].left = n,
                                     ![w].locks = IF S = {} THEN {"ticket"} ELSE S]
       ELSE writer' = [writer EXCEPT ![w].pc = "commit", ![w].left = n]
  BY DEF StartChange
<1>. PICK n \in Transactions(writer[w].kind, S) :
       IF writer[w].kind = "sale"
       THEN writer' = [writer EXCEPT ![w].pc = "lock", ![w].left = n,
                                     ![w].locks = IF S = {} THEN {"ticket"} ELSE S]
       ELSE writer' = [writer EXCEPT ![w].pc = "commit", ![w].left = n]
  OBVIOUS
<1>1. n \in Nat
  BY CacheAssumption, FS_Subset, FS_CardinalityType DEF Transactions
<1>2. CASE writer[w].kind = "sale"
  <2>. DEFINE L == IF S = {} THEN {"ticket"} ELSE S
              new == [writer[w] EXCEPT !.pc = "lock", !.left = n, !.locks = L]
  <2>1. writer' = [writer EXCEPT ![w] = new]
    BY <1>2 DEF CacheInv, Shapes
  <2>2. L \in SUBSET (Seats \cup {"ticket"})
    OBVIOUS
  <2>. HIDE DEF L
  <2>3. new \in WriterRows /\ new.kind = writer[w].kind /\ new.todo = writer[w].todo
    BY <1>0, <1>1, <2>2 DEF WriterRows
  <2>. HIDE DEF new
  <2>. QED
    BY <2>1, <2>3, WriterBegins DEF StartChange
<1>3. CASE writer[w].kind # "sale"
  <2>. DEFINE new == [writer[w] EXCEPT !.pc = "commit", !.left = n]
  <2>1. writer' = [writer EXCEPT ![w] = new]
    BY <1>3 DEF CacheInv, Shapes
  <2>2. new \in WriterRows /\ new.kind = writer[w].kind /\ new.todo = writer[w].todo
    BY <1>0, <1>1 DEF WriterRows
  <2>. HIDE DEF new
  <2>. QED
    BY <2>1, <2>2, WriterBegins DEF StartChange
<1>. QED
  BY <1>2, <1>3

LEMMA ReservationLockStep ==
  ASSUME CacheInv, NEW w \in Writers, AcquireReservationLock(w)
  PROVE  CacheInv'
<1>. DEFINE new == [writer[w] EXCEPT !.pc = "commit"]
<1>0. writer[w] \in WriterRows
  BY DEF CacheInv, Shapes
<1>1. writer' = [writer EXCEPT ![w] = new]
  BY DEF AcquireReservationLock, CacheInv, Shapes
<1>2. new \in WriterRows /\ new.kind = writer[w].kind /\ new.todo = writer[w].todo
  BY <1>0 DEF WriterRows
<1>. HIDE DEF new
<1>. QED
  BY <1>1, <1>2, WriterBegins DEF AcquireReservationLock

LEMMA CommitStep ==
  ASSUME CacheInv, NEW w \in Writers, Commit(w)
  PROVE  CacheInv'
<1>. DEFINE S == Touches(writer[w].kind)
            D == Invalidates(writer[w].kind)
<1>0. writer[w].todo \subseteq D /\ writer[w] \in WriterRows
  BY DEF CacheInv, TodoAfterCommit, Commit, Shapes
<1>1. writer[w].kind \in ChangeKinds
  BY DEF CacheInv, KindsNamed, Commit
<1>2. S \subseteq CacheKeys /\ D \subseteq CacheKeys
  BY <1>1 DEF Touches, Invalidates, CacheKeys, ChangeKinds
<1>3. /\ writer' \in [Writers -> WriterRows]
      /\ \A v \in Writers \ {w} : writer'[v] = writer[v]
      /\ writer'[w].pc \in {"commit", "invalidate"} /\ writer'[w].kind = writer[w].kind
      /\ writer'[w].todo = D
  <2>. DEFINE last == writer[w].left <= 1
              pc == IF last THEN "invalidate" ELSE "commit"
              locks == IF last THEN {} ELSE writer[w].locks
              left == IF last THEN 0 ELSE writer[w].left - 1
              new == [writer[w] EXCEPT !.pc = pc, !.locks = locks, !.left = left, !.todo = D]
  <2>1. writer' = [writer EXCEPT ![w] = new]
    BY DEF CacheInv, Shapes, Commit
  <2>2. /\ pc \in {"commit", "invalidate"} /\ locks \in SUBSET (Seats \cup {"ticket"})
        /\ left \in Nat
    BY <1>0 DEF WriterRows
  <2>. HIDE DEF pc, locks, left, S, D
  <2>3. /\ new \in WriterRows /\ new.pc = pc /\ new.kind = writer[w].kind
        /\ new.todo = D
    BY <1>0, <1>2, <2>2 DEF WriterRows
  <2>. HIDE DEF new
  <2>. QED
    BY <2>1, <2>2, <2>3 DEF CacheInv, Shapes
<1>4. /\ db' \in [CacheKeys -> Nat]
      /\ \A k \in CacheKeys : db[k] \in Nat /\ db'[k] \in Nat /\ db[k] <= db'[k]
      /\ \A k \in CacheKeys \ S : db'[k] = db[k]
  BY DEF CacheInv, Shapes, Commit
<1>5. excused' = excused \cup (S \ D)
  BY DEF Commit
<1>6. Shapes'
  BY <1>2, <1>3, <1>4, <1>5 DEF CacheInv, Shapes, Commit
<1>7. KeysNamed' /\ LeaseHeld'
  BY DEF CacheInv, KeysNamed, LeaseHeld, Filling, Commit
<1>8. FetchedBefore'
  <2>. SUFFICES ASSUME NEW r \in Readers, reader[r].pc = "set"
                PROVE  reader[r].result \in Nat /\ reader[r].result <= db'[reader[r].key]
    BY DEF FetchedBefore, Commit
  <2>1. /\ reader[r].result \in Nat /\ reader[r].result <= db[reader[r].key]
        /\ reader[r].key \in CacheKeys
    BY DEF CacheInv, FetchedBefore, KeysNamed
  <2>. QED
    BY <2>1, <1>4
<1>9. TodoAfterCommit' /\ KindsNamed'
  BY <1>1, <1>3 DEF CacheInv, TodoAfterCommit, KindsNamed
<1>10. QuietCacheIsFresh'
  <2>. SUFFICES ASSUME NEW k \in CacheKeys \ excused',
                       \A v \in Writers : k \notin writer'[v].todo
                PROVE  cache'[k] \in {Empty, db'[k]}
    BY DEF QuietCacheIsFresh
  <2>1. k \notin D /\ k \notin S /\ k \notin excused
    BY <1>3, <1>5
  <2>2. \A v \in Writers : k \notin writer[v].todo
    BY <1>0, <1>3
  <2>. QED
    BY <1>4, <2>1, <2>2 DEF CacheInv, QuietCacheIsFresh, Commit
<1>. QED
  BY <1>6, <1>7, <1>8, <1>9, <1>10 DEF CacheInv

LEMMA InvalidateStep ==
  ASSUME CacheInv, NEW w \in Writers, Invalidate(w)
  PROVE  CacheInv'
<1>1. ASSUME NEW k \in NextToDelete(w), Delete(w, k), excused' = excused \ {k},
             writer' = [writer EXCEPT ![w].todo = @ \ {k}]
      PROVE  CacheInv'
  <2>0. k \in CacheKeys
    BY <1>1 DEF CacheInv, Shapes, WriterRows, NextToDelete
  <2>1. /\ writer' \in [Writers -> WriterRows]
        /\ \A v \in Writers \ {w} : writer'[v] = writer[v]
        /\ writer'[w].pc = "invalidate" /\ writer'[w].kind = writer[w].kind
        /\ writer'[w].todo = writer[w].todo \ {k}
    BY <1>1 DEF CacheInv, Shapes, WriterRows, Invalidate
  <2>2. /\ cache' \in [CacheKeys -> Nat \cup {Empty}]
        /\ cache'[k] = Empty /\ \A j \in CacheKeys \ {k} : cache'[j] = cache[j]
    BY <1>1, <2>0 DEF CacheInv, Shapes, Delete
  <2>3. Shapes'
    BY <1>1, <2>1, <2>2 DEF CacheInv, Shapes, Invalidate
  <2>4. KeysNamed' /\ LeaseHeld' /\ FetchedBefore'
    BY DEF CacheInv, KeysNamed, LeaseHeld, Filling, FetchedBefore, Invalidate
  <2>5. TodoAfterCommit' /\ KindsNamed'
    BY <2>1 DEF CacheInv, TodoAfterCommit, KindsNamed, Invalidate
  <2>6. QuietCacheIsFresh'
    <3>. SUFFICES ASSUME NEW j \in CacheKeys \ excused',
                         \A v \in Writers : j \notin writer'[v].todo
                  PROVE  cache'[j] \in {Empty, db[j]}
      BY DEF QuietCacheIsFresh, Invalidate
    <3>1. CASE j = k
      BY <2>2, <3>1
    <3>2. CASE j # k
      BY <1>1, <2>1, <2>2, <3>2 DEF CacheInv, QuietCacheIsFresh
    <3>. QED
      BY <3>1, <3>2
  <2>. QED
    BY <2>3, <2>4, <2>5, <2>6 DEF CacheInv
<1>2. CASE writer[w].todo = {} /\ Answer(w, "ok") /\ UNCHANGED <<cache, excused>>
  BY <1>2, AnswerMoves DEF Invalidate, CacheInv, Shapes
<1>. QED
  BY <1>1, <1>2 DEF Invalidate

LEMMA AnswerSteps ==
  ASSUME CacheInv, NEW w \in Writers,
         \/ ReservationLockBusy(w) \/ BreakOff(w)
         \/ InvalidateFails(w) \/ ReservationLeaseRunsOut(w)
  PROVE  CacheInv'
<1>1. CASE ReservationLockBusy(w)
  BY <1>1, AnswerMoves DEF ReservationLockBusy, CacheInv, Shapes, TodoAfterCommit
<1>2. CASE InvalidateFails(w) \/ BreakOff(w)
  <2>1. writer[w].todo \subseteq CacheKeys /\ excused \subseteq CacheKeys
    BY DEF CacheInv, Shapes, WriterRows
  <2>. QED
    BY <1>2, <2>1, AnswerMoves DEF InvalidateFails, BreakOff
<1>3. CASE ReservationLeaseRunsOut(w)
  BY <1>3, AnswerMoves DEF ReservationLeaseRunsOut, CacheInv, Shapes, TodoAfterCommit
<1>. QED
  BY <1>1, <1>2, <1>3

LEMMA CrashStep ==
  ASSUME CacheInv, NEW n \in Instances, CrashInstance(n)
  PROVE  CacheInv'
<1>1. \A q \in Readers :
        reader'[q] \in ReaderRows /\ (reader'[q] = reader[q] \/ reader'[q].pc = "ended")
  <2>. TAKE q \in Readers
  <2>1. reader[q] \in ReaderRows
    BY DEF CacheInv, Shapes
  <2>2. /\ [reader[q] EXCEPT !.pc = "ended"] \in ReaderRows
        /\ [reader[q] EXCEPT !.pc = "ended"].pc = "ended"
    BY <2>1 DEF ReaderRows
  <2>. QED
    BY <2>1, <2>2 DEF CrashInstance
<1>2. \A w \in Writers :
        /\ writer'[w] \in WriterRows
        /\ writer'[w].kind = writer[w].kind
        /\ writer[w].pc = "ended" => writer'[w].pc = "ended"
        /\ \/ writer'[w] = writer[w]
           \/ Home[w] = n /\ writer'[w].todo = {}
  <2>. TAKE w \in Writers
  <2>. DEFINE pc == IF Reserving(w) THEN "lost" ELSE "ended"
              new == [writer[w] EXCEPT !.pc = pc, !.todo = {}]
  <2>1. writer[w] \in WriterRows
    BY DEF CacheInv, Shapes
  <2>2. writer'[w] = IF Home[w] # n THEN writer[w] ELSE new
    BY DEF CrashInstance
  <2>3. pc \in {"lost", "ended"} /\ (writer[w].pc = "ended" => pc = "ended")
    BY DEF Reserving
  <2>. HIDE DEF pc
  <2>4. new \in WriterRows /\ new.pc = pc /\ new.kind = writer[w].kind /\ new.todo = {}
    BY <2>1, <2>3 DEF WriterRows
  <2>. HIDE DEF new
  <2>. QED
    BY <2>1, <2>2, <2>3, <2>4
<1>3. reader' \in [Readers -> ReaderRows] /\ writer' \in [Writers -> WriterRows]
  <2>1. reader' = [q \in Readers |-> reader'[q]] /\ writer' = [w \in Writers |-> writer'[w]]
    BY DEF CrashInstance
  <2>. QED
    BY <1>1, <1>2, <2>1
<1>4. /\ excused \subseteq excused' /\ excused' \subseteq CacheKeys
      /\ \A w \in Writers : Home[w] = n => writer[w].todo \subseteq excused'
  <2>1. \A w \in Writers : writer[w].todo \subseteq CacheKeys
    BY DEF CacheInv, Shapes, WriterRows
  <2>. DEFINE lost == UNION {writer[w].todo : w \in {v \in Writers : Home[v] = n}}
  <2>2. excused' = excused \cup lost
    BY DEF CrashInstance
  <2>3. lost \subseteq CacheKeys
    BY <2>1
  <2>4. \A w \in Writers : Home[w] = n => writer[w].todo \subseteq lost
    OBVIOUS
  <2>. HIDE DEF lost
  <2>. QED
    BY <2>2, <2>3, <2>4 DEF CacheInv, Shapes
<1>5. Shapes'
  BY <1>3, <1>4 DEF CacheInv, Shapes, CrashInstance
<1>6. KeysNamed' /\ FetchedBefore'
  BY <1>1 DEF CacheInv, KeysNamed, FetchedBefore, CrashInstance
<1>7. LeaseHeld'
  <2>. SUFFICES ASSUME NEW q \in Readers, Filling(q)', reader'[q].key \notin overrun
                PROVE  fillLock[reader'[q].key] = q
    BY DEF LeaseHeld, CrashInstance
  <2>1. reader'[q] = reader[q]
    BY <1>1 DEF Filling
  <2>. QED
    BY <2>1 DEF CacheInv, LeaseHeld, Filling
<1>8. TodoAfterCommit' /\ KindsNamed'
  BY <1>2 DEF CacheInv, TodoAfterCommit, KindsNamed
<1>9. QuietCacheIsFresh'
  <2>1. UNCHANGED <<db, cache>>
    BY DEF CrashInstance
  <2>. QED
    BY <1>2, <1>4, <2>1 DEF CacheInv, QuietCacheIsFresh
<1>. QED
  BY <1>5, <1>6, <1>7, <1>8, <1>9 DEF CacheInv

-----------------------------------------------------------------------------
LEMMA CacheStep == CacheInv /\ [NextCache]_cvars => CacheInv'
<1> SUFFICES ASSUME CacheInv, [NextCache]_cvars PROVE CacheInv'
  OBVIOUS
<1>1. ASSUME NEW r \in Readers, Read(r) \/ ReaderStep(r) \/ FillFails(r)
      PROVE  CacheInv'
  BY <1>1, ReadStep, GetStep, AcquireStep, BusyStep, DoubleCheckStep, FetchStep, SetStep,
     FreeStep, FillFailsStep DEF ReaderStep
<1>2. ASSUME NEW w \in Writers,
             StartChange(w) \/ WriterStep(w) \/ BreakOff(w) \/ InvalidateFails(w)
      PROVE  CacheInv'
  BY <1>2, StartChangeStep, ReservationLockStep, CommitStep, InvalidateStep, AnswerSteps
     DEF WriterStep
<1>3. ASSUME NEW k \in CacheKeys, Replicate(k) \/ Expire(k) \/ LeaseRunsOut(k)
      PROVE  CacheInv'
  BY <1>3, ReplicateStep, ExpireStep, LeaseRunsOutStep
<1>4. ASSUME NEW n \in Instances, CrashInstance(n)
      PROVE  CacheInv'
  BY <1>4, CrashStep
<1>5. CASE UNCHANGED cvars
  BY <1>5, CacheStutter DEF cvars, CacheInv, Shapes
<1>. QED
  BY <1>1, <1>2, <1>3, <1>4, <1>5 DEF NextCache

LEMMA CacheInductive == SpecCache => []CacheInv
<1>. QED
  BY InitCacheInv, CacheStep, PTL DEF SpecCache

(* With no writer about to delete it, an entry is what the database holds, *)
(* apart from the named exceptions (TicketCache!QuietCacheIsFresh).        *)
THEOREM QuietCacheIsFreshHolds == SpecCache => []QuietCacheIsFresh
<1>1. CacheInv => QuietCacheIsFresh
  BY DEF CacheInv
<1>. QED
  BY <1>1, CacheInductive, PTL

(* One reader at a time fills a key, whatever their number and that of     *)
(* their processes, unless a lease ran out (TicketCache!OneFillPerKey).    *)
THEOREM OneFillPerKeyHolds == SpecCache => []OneFillPerKey
<1>1. ASSUME CacheInv PROVE OneFillPerKey
  <2>. SUFFICES ASSUME NEW k \in CacheKeys \ overrun
                PROVE  Cardinality({r \in Readers : reader[r].key = k /\ Filling(r)}) <= 1
    BY DEF OneFillPerKey, Filling
  <2>. DEFINE F == {r \in Readers : reader[r].key = k /\ Filling(r)}
  <2>1. \A r \in F : fillLock[k] = r
    BY <1>1 DEF CacheInv, LeaseHeld
  <2>2. CASE F = {}
    BY <2>2, FS_EmptySet
  <2>3. CASE F # {}
    <3>1. F = {fillLock[k]}
      BY <2>1, <2>3
    <3>2. Cardinality({fillLock[k]}) = 1
      BY FS_Singleton
    <3>. QED
      BY <3>1, <3>2
  <2>. QED
    BY <2>2, <2>3
<1>. QED
  BY <1>1, CacheInductive, PTL

-----------------------------------------------------------------------------
(* Versions: what is cached, shown or returned was committed.              *)

Answers(k) == Committed(k) \cup {Empty}

CopiesCommitted ==
  /\ \A k \in CacheKeys : cache[k] \in Answers(k) /\ replica[k] \in Answers(k)
  /\ \A r \in Readers :
       reader[r].key \in CacheKeys => reader[r].result \in Answers(reader[r].key)
  /\ \A r \in Readers : reader[r].key \notin CacheKeys => reader[r].result = Empty

MishapsCounted == mishaps \in [MishapKinds -> Nat]

VersionInv == CopiesCommitted /\ MishapsCounted

(* Versions only grow.                                                     *)
LEMMA AnswersGrow ==
  ASSUME CacheInv, NEW k \in CacheKeys, db'[k] \in Nat, db[k] <= db'[k], NEW v \in Answers(k)
  PROVE  v \in Answers(k)'
<1>1. db[k] \in Nat
  BY DEF CacheInv, Shapes
<1>. QED
  BY <1>1 DEF Answers, Committed

LEMMA DbVersion ==
  ASSUME CacheInv, NEW k \in CacheKeys
  PROVE  /\ db[k] \in Answers(k) /\ Empty \in Answers(k)
         /\ \A v \in Answers(k) : v \in Nat \cup {Empty}
BY DEF CacheInv, Shapes, Answers, Committed

LEMMA SpendCounted ==
  ASSUME MishapsCounted, NEW kind \in MishapKinds, Spend(kind)
  PROVE  MishapsCounted'
BY DEF MishapsCounted, Spend

LEMMA InitVersionInv == InitCache => VersionInv
<1> SUFFICES ASSUME InitCache PROVE VersionInv
  OBVIOUS
<1>. PICK plan \in Plans :
       /\ cache = [k \in CacheKeys |-> IF k \in plan.warm THEN 0 ELSE Empty]
       /\ reader = [r \in Readers |->
            [pc |-> IF plan.key[r] = Empty THEN "ended" ELSE "idle", key |-> plan.key[r],
             result |-> Empty]]
       /\ mishaps = plan.mishaps
  BY DEF InitCache
<1>1. plan.key \in [Readers -> CacheKeys \cup {Empty}]
  BY CacheAssumption
<1>2. CopiesCommitted
  <2>1. \A k \in CacheKeys : 0 \in Answers(k) /\ Empty \in Answers(k)
    BY DEF Answers, Committed, InitCache
  <2>2. \A k \in CacheKeys : cache[k] \in Answers(k)
    BY <2>1
  <2>3. \A r \in Readers : reader[r].result = Empty
    OBVIOUS
  <2>. QED
    BY <2>1, <2>2, <2>3 DEF CopiesCommitted, InitCache
<1>3. MishapsCounted
  BY CacheAssumption DEF MishapsCounted
<1>. QED
  BY <1>2, <1>3 DEF VersionInv

(* The steps of Redis.                                                     *)
LEMMA RedisVersions ==
  ASSUME CacheInv, VersionInv, NEW k \in CacheKeys,
         Replicate(k) \/ Expire(k) \/ LeaseRunsOut(k)
  PROVE  VersionInv'
<1>2. CopiesCommitted'
  <2>0. UNCHANGED <<db, reader>>
    BY DEF Replicate, Expire, LeaseRunsOut
  <2>1. CASE Replicate(k)
    BY <2>0, <2>1 DEF VersionInv, CopiesCommitted, Replicate, CacheInv, Shapes, Answers, Committed
  <2>2. CASE Expire(k)
    BY <2>0, <2>2 DEF VersionInv, CopiesCommitted, Expire, CacheInv, Shapes, Answers, Committed
  <2>3. CASE LeaseRunsOut(k)
    BY <2>0, <2>3 DEF VersionInv, CopiesCommitted, LeaseRunsOut, Answers, Committed
  <2>. QED
    BY <2>1, <2>2, <2>3
<1>3. MishapsCounted'
  <2>1. UNCHANGED mishaps \/ Spend("lease")
    BY DEF Replicate, Expire, LeaseRunsOut
  <2>2. CASE UNCHANGED mishaps
    BY <2>2 DEF VersionInv, MishapsCounted
  <2>3. CASE Spend("lease")
    BY <2>3, SpendCounted DEF VersionInv, MishapKinds
  <2>. QED
    BY <2>1, <2>2, <2>3
<1>. QED
  BY <1>2, <1>3 DEF VersionInv

(* A reader's step stores at most what it has, and every result is a       *)
(* version it was shown, fetched or is told.                               *)
LEMMA ReaderVersions ==
  ASSUME CacheInv, VersionInv, NEW r \in Readers, Read(r) \/ ReaderStep(r) \/ FillFails(r)
  PROVE  VersionInv'
<1>1. UNCHANGED <<db, replica>>
  BY DEF Read, ReaderStep, Get, AcquireFillLock, FillLockBusy, DoubleCheck, Fetch, Set,
         FreeFillLock, FillFails, rest
<1>2. MishapsCounted'
  <2>1. UNCHANGED mishaps \/ Spend("error")
    BY DEF Read, ReaderStep, Get, AcquireFillLock, FillLockBusy, DoubleCheck, Fetch, Set,
           FreeFillLock, FillFails
  <2>2. CASE UNCHANGED mishaps
    BY <2>2 DEF VersionInv, MishapsCounted
  <2>3. CASE Spend("error")
    BY <2>3, SpendCounted DEF VersionInv, MishapKinds
  <2>. QED
    BY <2>1, <2>2, <2>3
<1>3. ~At(r, "ended") => reader[r].key \in CacheKeys
  BY DEF CacheInv, KeysNamed, At
<1>4. \A k \in CacheKeys : cache'[k] \in Answers(k)
  <2>1. CASE Set(r)
    BY <2>1, <1>3 DEF Set, At, VersionInv, CopiesCommitted, CacheInv, Shapes
  <2>2. CASE ~Set(r)
    BY <2>2 DEF Read, ReaderStep, Get, AcquireFillLock, FillLockBusy, DoubleCheck, Fetch,
         FreeFillLock, FillFails, rest, VersionInv, CopiesCommitted
  <2>. QED
    BY <2>1, <2>2
<1>. DEFINE Fits(q) ==
       /\ reader'[q].key \in CacheKeys => reader'[q].result \in Answers(reader'[q].key)
       /\ reader'[q].key \notin CacheKeys => reader'[q].result = Empty
<1>5. ASSUME \A q \in Readers : Fits(q)
      PROVE  VersionInv'
  <2>1. \A k \in CacheKeys : replica'[k] \in Answers(k) /\ Answers(k)' = Answers(k)
    BY <1>1 DEF VersionInv, CopiesCommitted, Answers, Committed
  <2>. QED
    BY <1>1, <1>2, <1>4, <1>5, <2>1 DEF VersionInv, CopiesCommitted, Answers, Committed
<1>6. \A q \in Readers : reader'[q] = reader[q] => Fits(q)
  BY DEF VersionInv, CopiesCommitted
<1>7. ASSUME NEW v \in Nat \cup {Empty}, reader[r].key \in CacheKeys,
             v \in Answers(reader[r].key), End(r, v)
      PROVE  \A q \in Readers : Fits(q)
  BY <1>6, <1>7, EndRows
<1>8. ASSUME NEW pc \in ReaderPcs, reader' = [reader EXCEPT ![r].pc = pc]
      PROVE  \A q \in Readers : Fits(q)
  <2>1. /\ reader'[r].key = reader[r].key /\ reader'[r].result = reader[r].result
        /\ \A q \in Readers \ {r} : reader'[q] = reader[q]
    BY <1>8, PcSet DEF CacheInv
  <2>. QED
    BY <1>6, <2>1 DEF VersionInv, CopiesCommitted
<1>9. ASSUME NEW pc \in ReaderPcs, NEW v \in Nat \cup {Empty}, reader[r].key \in CacheKeys,
             v \in Answers(reader[r].key),
             reader' = [reader EXCEPT ![r].pc = pc, ![r].result = v]
      PROVE  \A q \in Readers : Fits(q)
  <2>1. /\ reader'[r].key = reader[r].key /\ reader'[r].result = v
        /\ \A q \in Readers \ {r} : reader'[q] = reader[q]
    <3>1. reader \in [Readers -> ReaderRows] /\ reader[r] \in ReaderRows
      BY DEF CacheInv, Shapes
    <3>2. /\ reader'[r] = [reader[r] EXCEPT !.pc = pc, !.result = v]
          /\ \A q \in Readers \ {r} : reader'[q] = reader[q]
      BY <1>9, <3>1
    <3>3. /\ [reader[r] EXCEPT !.pc = pc, !.result = v].key = reader[r].key
          /\ [reader[r] EXCEPT !.pc = pc, !.result = v].result = v
      BY <3>1 DEF ReaderRows
    <3>. QED
      BY <3>2, <3>3
  <2>. QED
    BY <1>6, <1>9, <2>1
<1>10. ~At(r, "ended") =>
         LET k == reader[r].key
         IN  /\ {Shown(k), db[k], reader[r].result, Empty} \subseteq Answers(k)
             /\ {Shown(k), db[k], reader[r].result, Empty} \subseteq Nat \cup {Empty}
  BY <1>3, DbVersion DEF VersionInv, CopiesCommitted, Shown
<1>. HIDE DEF Fits
<1>11. \A q \in Readers : Fits(q)
  <2>1. CASE Read(r)
    BY <2>1, <1>8 DEF Read, Move, ReaderPcs
  <2>2. CASE Get(r)
    BY <2>2, <1>3, <1>8, <1>9, <1>10 DEF Get, At, Move, ReaderPcs
  <2>3. CASE AcquireFillLock(r)
    BY <2>3, <1>8 DEF AcquireFillLock, Move, ReaderPcs
  <2>4. CASE FillLockBusy(r)
    BY <2>4, <1>3, <1>7, <1>10 DEF FillLockBusy, At
  <2>5. CASE DoubleCheck(r)
    <3>. DEFINE v == Shown(reader[r].key)
    <3>1. /\ reader[r].key \in CacheKeys /\ v \in Answers(reader[r].key)
          /\ v \in Nat \cup {Empty}
      BY <2>5, <1>3, <1>10 DEF DoubleCheck, At
    <3>2. \/ reader' = [reader EXCEPT ![r].pc = "fetch", ![r].result = v]
          \/ reader' = [reader EXCEPT ![r].pc = "release", ![r].result = v]
      BY <2>5 DEF DoubleCheck
    <3>. HIDE DEF v
    <3>. QED
      BY <3>1, <3>2, <1>9 DEF ReaderPcs
  <2>6. CASE Fetch(r)
    BY <2>6, <1>3, <1>9, <1>10 DEF Fetch, At, ReaderPcs
  <2>7. CASE Set(r)
    BY <2>7, <1>8 DEF Set, Move, ReaderPcs
  <2>8. CASE FreeFillLock(r)
    BY <2>8, <1>3, <1>7, <1>10 DEF FreeFillLock, At
  <2>9. CASE FillFails(r)
    BY <2>9, <1>3, <1>9, <1>10 DEF FillFails, At, ReaderPcs
  <2>. QED
    BY <2>1, <2>2, <2>3, <2>4, <2>5, <2>6, <2>7, <2>8, <2>9 DEF ReaderStep
<1>. QED
  BY <1>5, <1>11

LEMMA WriterVersions ==
  ASSUME CacheInv, VersionInv, NEW w \in Writers,
         StartChange(w) \/ WriterStep(w) \/ BreakOff(w) \/ InvalidateFails(w)
  PROVE  VersionInv'
<1>0. \A v \in Writers : writer[v] \in WriterRows
  BY DEF CacheInv, Shapes
<1>1. MishapsCounted'
  <2>1. UNCHANGED mishaps \/ Spend("error")
    BY DEF StartChange, WriterStep, AcquireReservationLock, ReservationLockBusy, Commit,
           Invalidate, ReservationLeaseRunsOut, InvalidateFails, BreakOff
  <2>2. CASE UNCHANGED mishaps
    BY <2>2 DEF VersionInv, MishapsCounted
  <2>3. CASE Spend("error")
    BY <2>3, SpendCounted DEF VersionInv, MishapKinds
  <2>. QED
    BY <2>1, <2>2, <2>3
<1>2. CopiesCommitted'
  <2>1. UNCHANGED <<replica, reader>>
    BY DEF StartChange, WriterStep, AcquireReservationLock, ReservationLockBusy, Commit,
           Invalidate, ReservationLeaseRunsOut, InvalidateFails, BreakOff
  <2>2. UNCHANGED cache \/ \E k \in CacheKeys : Delete(w, k)
    BY <1>0 DEF StartChange, WriterStep, AcquireReservationLock, ReservationLockBusy, Commit,
           Invalidate, ReservationLeaseRunsOut, InvalidateFails, BreakOff, NextToDelete, WriterRows
  <2>3. \A k \in CacheKeys : cache'[k] \in Answers(k)
    BY <2>2 DEF Delete, VersionInv, CopiesCommitted, CacheInv, Shapes, Answers
  <2>4. \A k \in CacheKeys : db[k] \in Nat /\ db'[k] \in {db[k], db[k] + 1}
    BY DEF CacheInv, Shapes, StartChange, WriterStep, AcquireReservationLock,
           ReservationLockBusy, Commit, Invalidate, ReservationLeaseRunsOut, InvalidateFails,
           BreakOff
  <2>5. \A k \in CacheKeys : \A v \in Answers(k) : v \in Answers(k)'
    BY <2>4, AnswersGrow
  <2>6. \A r \in Readers : reader[r].key \in CacheKeys =>
          reader[r].result \in Answers(reader[r].key)'
    BY <2>1, <2>5 DEF VersionInv, CopiesCommitted, Answers, Committed
  <2>. QED
    BY <2>1, <2>3, <2>5, <2>6 DEF VersionInv, CopiesCommitted, Answers, Committed
<1>. QED
  BY <1>1, <1>2 DEF VersionInv

LEMMA CrashVersions ==
  ASSUME CacheInv, VersionInv, NEW n \in Instances, CrashInstance(n)
  PROVE  VersionInv'
<1>1. MishapsCounted'
  BY SpendCounted DEF CrashInstance, VersionInv, MishapKinds
<1>2. \A r \in Readers : reader'[r].result = reader[r].result /\ reader'[r].key = reader[r].key
  <2>1. \A r \in Readers :
          /\ [reader[r] EXCEPT !.pc = "ended"].result = reader[r].result
          /\ [reader[r] EXCEPT !.pc = "ended"].key = reader[r].key
    BY DEF CacheInv, Shapes, ReaderRows
  <2>2. \A r \in Readers : reader'[r] \in {reader[r], [reader[r] EXCEPT !.pc = "ended"]}
    BY DEF CrashInstance
  <2>. QED
    BY <2>1, <2>2
<1>3. CopiesCommitted'
  BY <1>2 DEF CrashInstance, VersionInv, CopiesCommitted, Answers, Committed
<1>. QED
  BY <1>1, <1>3 DEF VersionInv

LEMMA VersionStep == CacheInv /\ VersionInv /\ [NextCache]_cvars => VersionInv'
<1> SUFFICES ASSUME CacheInv, VersionInv, [NextCache]_cvars PROVE VersionInv'
  OBVIOUS
<1>1. CASE UNCHANGED cvars
  BY <1>1 DEF cvars, VersionInv, CopiesCommitted, MishapsCounted, Answers, Committed
<1>. QED
  BY <1>1, RedisVersions, ReaderVersions, WriterVersions, CrashVersions DEF NextCache

LEMMA VersionsInductive == SpecCache => []VersionInv
<1>. QED
  BY InitVersionInv, VersionStep, CacheInductive, PTL DEF SpecCache

-----------------------------------------------------------------------------
(* Fetches in progress: a process remembers for a key exactly the reader   *)
(* that leads its fetch.                                                   *)

Leading(r) == reader[r].pc \in {"lock", "check", "fetch", "set", "release"}

PendingShape == pendingFetches \in [Instances -> [CacheKeys -> Readers \cup {Empty}]]

PendingIsLed ==
  \A n \in Instances, k \in CacheKeys, r \in Readers :
    pendingFetches[n][k] = r => Home[r] = n /\ reader[r].key = k /\ Leading(r)

LeaderIsPending ==
  \A r \in Readers : Leading(r) => pendingFetches[Home[r]][reader[r].key] = r

PendingInv == PendingShape /\ PendingIsLed /\ LeaderIsPending

LEMMA Homes == \A r \in Readers : Home[r] \in Instances
  BY CacheAssumption

LEMMA InitPendingInv == InitCache => PendingInv
<1> SUFFICES ASSUME InitCache PROVE PendingInv
  OBVIOUS
<1>1. pendingFetches = [n \in Instances |-> [k \in CacheKeys |-> Empty]]
  BY DEF InitCache
<1>2. \A r \in Readers : reader[r].pc \in {"ended", "idle"}
  BY DEF InitCache
<1>3. PendingShape
  BY <1>1 DEF PendingShape
<1>4. PendingIsLed
  BY <1>1, CacheAssumption DEF PendingIsLed
<1>5. LeaderIsPending
  BY <1>2 DEF LeaderIsPending, Leading
<1>. QED
  BY <1>3, <1>4, <1>5 DEF PendingInv

(* Nobody starts or ends leading.                                          *)
LEMMA SameLeaders ==
  ASSUME PendingInv, UNCHANGED pendingFetches,
         \A q \in Readers : reader'[q].key = reader[q].key /\ (Leading(q)' <=> Leading(q))
  PROVE  PendingInv'
<1>1. PendingShape'
  BY DEF PendingInv, PendingShape
<1>2. PendingIsLed'
  BY DEF PendingInv, PendingIsLed
<1>3. LeaderIsPending'
  BY DEF PendingInv, LeaderIsPending
<1>. QED
  BY <1>1, <1>2, <1>3 DEF PendingInv

(* A reader's step that moves its counter, and perhaps sets its result.    *)
LEMMA MovedOnly ==
  ASSUME CacheInv, NEW r \in Readers, NEW pc \in ReaderPcs, NEW v \in Nat \cup {Empty},
         \/ reader' = [reader EXCEPT ![r].pc = pc]
         \/ reader' = [reader EXCEPT ![r].pc = pc, ![r].result = v]
  PROVE  /\ \A q \in Readers : reader'[q].key = reader[q].key
         /\ \A q \in Readers \ {r} : reader'[q] = reader[q]
         /\ reader'[r].pc = pc
<1>1. CASE reader' = [reader EXCEPT ![r].pc = pc]
  BY <1>1, PcSet DEF CacheInv
<1>2. CASE reader' = [reader EXCEPT ![r].pc = pc, ![r].result = v]
  BY <1>2, ResultSet DEF CacheInv
<1>. QED
  BY <1>1, <1>2

LEMMA SteadyReader ==
  ASSUME CacheInv, PendingInv, NEW r \in Readers,
         Read(r) \/ AcquireFillLock(r) \/ DoubleCheck(r) \/ Fetch(r) \/ Set(r) \/ FillFails(r)
  PROVE  PendingInv'
<1>1. UNCHANGED pendingFetches
  BY DEF Read, AcquireFillLock, DoubleCheck, Fetch, Set, FillFails
<1>2. ~At(r, "ended") =>
        /\ Shown(reader[r].key) \in Nat \cup {Empty}
        /\ db[reader[r].key] \in Nat \cup {Empty}
  BY DEF CacheInv, Shapes, KeysNamed, At, Shown
<1>3. ASSUME NEW pc \in ReaderPcs, NEW v \in Nat \cup {Empty},
             \/ reader' = [reader EXCEPT ![r].pc = pc]
             \/ reader' = [reader EXCEPT ![r].pc = pc, ![r].result = v],
             \/ pc = "get" /\ At(r, "idle")
             \/ pc \in {"check", "fetch", "set", "release"} /\ Leading(r)
      PROVE  PendingInv'
  <2>1. /\ \A q \in Readers : reader'[q].key = reader[q].key
        /\ \A q \in Readers \ {r} : reader'[q] = reader[q]
        /\ reader'[r].pc = pc
    BY <1>3, MovedOnly
  <2>2. \A q \in Readers : Leading(q)' <=> Leading(q)
    BY <1>3, <2>1 DEF Leading, At
  <2>. QED
    BY <1>1, <2>1, <2>2, SameLeaders
<1>4. Empty \in Nat \cup {Empty}
  OBVIOUS
<1>5. CASE Read(r)
  BY <1>3, <1>4, <1>5 DEF Read, Move, At, ReaderPcs
<1>6. CASE AcquireFillLock(r)
  BY <1>3, <1>4, <1>6 DEF AcquireFillLock, Move, At, Leading, ReaderPcs
<1>7. CASE DoubleCheck(r)
  <2>. DEFINE v == Shown(reader[r].key)
  <2>1. v \in Nat \cup {Empty}
    BY <1>2, <1>7 DEF DoubleCheck, At
  <2>2. /\ \/ reader' = [reader EXCEPT ![r].pc = "fetch", ![r].result = v]
           \/ reader' = [reader EXCEPT ![r].pc = "release", ![r].result = v]
        /\ Leading(r)
    BY <1>7 DEF DoubleCheck, At, Leading
  <2>. HIDE DEF v
  <2>3. CASE reader' = [reader EXCEPT ![r].pc = "fetch", ![r].result = v]
    BY <1>3, <2>1, <2>2, <2>3 DEF ReaderPcs
  <2>4. CASE reader' = [reader EXCEPT ![r].pc = "release", ![r].result = v]
    BY <1>3, <2>1, <2>2, <2>4 DEF ReaderPcs
  <2>. QED
    BY <2>2, <2>3, <2>4
<1>8. CASE Fetch(r)
  <2>. DEFINE v == db[reader[r].key]
  <2>1. v \in Nat \cup {Empty}
    BY <1>2, <1>8 DEF Fetch, At
  <2>2. reader' = [reader EXCEPT ![r].pc = "set", ![r].result = v] /\ Leading(r)
    BY <1>8 DEF Fetch, At, Leading
  <2>. HIDE DEF v
  <2>. QED
    BY <1>3, <2>1, <2>2 DEF ReaderPcs
<1>9. CASE Set(r)
  BY <1>3, <1>4, <1>9 DEF Set, Move, At, Leading, ReaderPcs
<1>10. CASE FillFails(r)
  BY <1>3, <1>4, <1>10 DEF FillFails, Leading, ReaderPcs
<1>. QED
  BY <1>5, <1>6, <1>7, <1>8, <1>9, <1>10

(* Joining one, or becoming the leader where there is none.                *)
LEMMA GetLeads ==
  ASSUME CacheInv, PendingInv, NEW r \in Readers, Get(r)
  PROVE  PendingInv'
<1>. DEFINE k == reader[r].key
            n == Home[r]
<1>0. k \in CacheKeys /\ n \in Instances /\ replica[k] \in Nat \cup {Empty} /\ ~Leading(r)
  BY Homes DEF CacheInv, KeysNamed, Shapes, Get, At, Leading
<1>1. ASSUME NEW pc \in {"ended", "joined"}, UNCHANGED pendingFetches,
             \/ reader' = [reader EXCEPT ![r].pc = pc]
             \/ reader' = [reader EXCEPT ![r].pc = pc, ![r].result = replica[k]]
      PROVE  PendingInv'
  <2>1. pc \in ReaderPcs
    BY DEF ReaderPcs
  <2>2. /\ \A q \in Readers : reader'[q].key = reader[q].key
        /\ \A q \in Readers \ {r} : reader'[q] = reader[q]
        /\ reader'[r].pc = pc
    <3>1. CASE reader' = [reader EXCEPT ![r].pc = pc]
      BY <2>1, <3>1, PcSet DEF CacheInv
    <3>2. CASE reader' = [reader EXCEPT ![r].pc = pc, ![r].result = replica[k]]
      BY <1>0, <2>1, <3>2, ResultSet DEF CacheInv
    <3>. QED
      BY <1>1, <3>1, <3>2
  <2>3. \A q \in Readers : Leading(q)' <=> Leading(q)
    BY <1>0, <1>1, <2>2 DEF Leading
  <2>. QED
    BY <1>1, <2>2, <2>3, SameLeaders
<1>2. CASE /\ pendingFetches[n][k] = Empty /\ Move(r, "lock")
           /\ pendingFetches' = [pendingFetches EXCEPT ![n][k] = r]
  <2>1. /\ \A q \in Readers : reader'[q].key = reader[q].key
        /\ \A q \in Readers \ {r} : reader'[q] = reader[q]
        /\ reader'[r].pc = "lock"
    BY <1>2, PcSet DEF CacheInv, Move, ReaderPcs
  <2>2. /\ pendingFetches' \in [Instances -> [CacheKeys -> Readers \cup {Empty}]]
        /\ pendingFetches'[n][k] = r
        /\ \A m \in Instances, j \in CacheKeys :
             m # n \/ j # k => pendingFetches'[m][j] = pendingFetches[m][j]
    BY <1>0, <1>2 DEF PendingInv, PendingShape
  <2>3. PendingIsLed'
    <3>. SUFFICES ASSUME NEW m \in Instances, NEW j \in CacheKeys, NEW q \in Readers,
                         pendingFetches'[m][j] = q
                  PROVE  Home[q] = m /\ reader'[q].key = j /\ Leading(q)'
      BY DEF PendingIsLed
    <3>1. CASE m = n /\ j = k
      BY <2>1, <2>2, <3>1 DEF Leading
    <3>2. CASE m # n \/ j # k
      <4>1. Home[q] = m /\ reader[q].key = j /\ Leading(q)
        BY <2>2, <3>2 DEF PendingInv, PendingIsLed
      <4>2. q # r
        BY <1>0, <4>1
      <4>. QED
        BY <2>1, <4>1, <4>2 DEF Leading
    <3>. QED
      BY <3>1, <3>2
  <2>4. LeaderIsPending'
    <3>. SUFFICES ASSUME NEW q \in Readers, Leading(q)'
                  PROVE  pendingFetches'[Home[q]][reader'[q].key] = q
      BY DEF LeaderIsPending
    <3>1. CASE q = r
      BY <2>1, <2>2, <3>1
    <3>2. CASE q # r
      <4>1. Leading(q) /\ reader'[q] = reader[q] /\ reader[q].key \in CacheKeys
        BY <2>1, <3>2 DEF Leading, CacheInv, KeysNamed
      <4>2. pendingFetches[Home[q]][reader[q].key] = q
        BY <4>1 DEF PendingInv, LeaderIsPending
      <4>3. Home[q] # n \/ reader[q].key # k
        BY <1>2, <4>2, CacheAssumption
      <4>. QED
        BY <2>2, <4>1, <4>2, <4>3, Homes
    <3>. QED
      BY <3>1, <3>2
  <2>. QED
    BY <2>2, <2>3, <2>4 DEF PendingInv, PendingShape
<1>. QED
  BY <1>1, <1>2 DEF Get, Shown, Move

(* The leader ends, and with it who joined: nobody else led this fetch.    *)
LEMMA EndPending ==
  ASSUME CacheInv, PendingInv, NEW r \in Readers, NEW v \in Nat \cup {Empty}, End(r, v),
         Leading(r)
  PROVE  PendingInv'
<1>. DEFINE k == reader[r].key
            n == Home[r]
<1>0. k \in CacheKeys /\ n \in Instances
  BY Homes DEF CacheInv, KeysNamed, Leading
<1>1. /\ reader'[r].pc = "ended"
      /\ \A q \in Readers : reader'[q] = reader[q] \/ reader'[q].pc = "ended"
  BY EndRows
<1>2. \A q \in Readers \ {r} : Leading(q) => reader'[q] = reader[q]
  BY DEF End, Answered, At, Leading
<1>3. /\ pendingFetches' \in [Instances -> [CacheKeys -> Readers \cup {Empty}]]
      /\ pendingFetches'[n][k] = Empty
      /\ \A m \in Instances, j \in CacheKeys :
           m # n \/ j # k => pendingFetches'[m][j] = pendingFetches[m][j]
  BY <1>0 DEF PendingInv, PendingShape, End
<1>4. PendingIsLed'
  <2>. SUFFICES ASSUME NEW m \in Instances, NEW j \in CacheKeys, NEW q \in Readers,
                       pendingFetches'[m][j] = q
                PROVE  Home[q] = m /\ reader'[q].key = j /\ Leading(q)'
    BY DEF PendingIsLed
  <2>1. m # n \/ j # k
    BY <1>3, CacheAssumption
  <2>2. Home[q] = m /\ reader[q].key = j /\ Leading(q)
    BY <1>3, <2>1 DEF PendingInv, PendingIsLed
  <2>3. reader'[q] = reader[q]
    BY <1>2, <2>1, <2>2
  <2>. QED
    BY <2>2, <2>3 DEF Leading
<1>5. LeaderIsPending'
  <2>. SUFFICES ASSUME NEW q \in Readers, Leading(q)'
                PROVE  pendingFetches'[Home[q]][reader'[q].key] = q
    BY DEF LeaderIsPending
  <2>1. q # r /\ reader'[q] = reader[q] /\ Leading(q)
    BY <1>1 DEF Leading
  <2>2. pendingFetches[Home[q]][reader[q].key] = q /\ pendingFetches[n][k] = r
    BY <2>1 DEF PendingInv, LeaderIsPending
  <2>3. Home[q] # n \/ reader[q].key # k
    BY <2>1, <2>2
  <2>4. reader[q].key \in CacheKeys
    BY <2>1 DEF CacheInv, KeysNamed, Leading
  <2>. QED
    BY <1>3, <2>1, <2>2, <2>3, <2>4, Homes
<1>. QED
  BY <1>3, <1>4, <1>5 DEF PendingInv, PendingShape

LEMMA EndSteps ==
  ASSUME CacheInv, PendingInv, NEW r \in Readers, FillLockBusy(r) \/ FreeFillLock(r)
  PROVE  PendingInv'
<1>1. reader[r].result \in Nat \cup {Empty}
  BY DEF CacheInv, Shapes, ReaderRows
<1>2. Leading(r) /\ (End(r, Empty) \/ End(r, reader[r].result))
  BY DEF FillLockBusy, FreeFillLock, At, Leading
<1>. QED
  BY <1>1, <1>2, EndPending

LEMMA CrashPending ==
  ASSUME CacheInv, PendingInv, NEW n \in Instances, CrashInstance(n)
  PROVE  PendingInv'
<1>1. \A q \in Readers :
        /\ Home[q] # n => reader'[q] = reader[q]
        /\ Home[q] = n => reader'[q].pc = "ended"
  <2>1. \A q \in Readers : [reader[q] EXCEPT !.pc = "ended"].pc = "ended"
    BY DEF CacheInv, Shapes, ReaderRows
  <2>. QED
    BY <2>1 DEF CrashInstance
<1>2. /\ pendingFetches' \in [Instances -> [CacheKeys -> Readers \cup {Empty}]]
      /\ \A k \in CacheKeys : pendingFetches'[n][k] = Empty
      /\ \A m \in Instances \ {n} : pendingFetches'[m] = pendingFetches[m]
  BY DEF PendingInv, PendingShape, CrashInstance
<1>3. PendingIsLed'
  <2>. SUFFICES ASSUME NEW m \in Instances, NEW j \in CacheKeys, NEW q \in Readers,
                       pendingFetches'[m][j] = q
                PROVE  Home[q] = m /\ reader'[q].key = j /\ Leading(q)'
    BY DEF PendingIsLed
  <2>1. m # n
    BY <1>2, CacheAssumption
  <2>2. Home[q] = m /\ reader[q].key = j /\ Leading(q)
    BY <1>2, <2>1 DEF PendingInv, PendingIsLed
  <2>. QED
    BY <1>1, <2>1, <2>2 DEF Leading
<1>4. LeaderIsPending'
  <2>. SUFFICES ASSUME NEW q \in Readers, Leading(q)'
                PROVE  pendingFetches'[Home[q]][reader'[q].key] = q
    BY DEF LeaderIsPending
  <2>1. Home[q] # n /\ reader'[q] = reader[q] /\ Leading(q)
    BY <1>1 DEF Leading
  <2>2. pendingFetches[Home[q]][reader[q].key] = q
    BY <2>1 DEF PendingInv, LeaderIsPending
  <2>. QED
    BY <1>2, <2>1, <2>2, Homes
<1>. QED
  BY <1>2, <1>3, <1>4 DEF PendingInv, PendingShape

LEMMA PendingStep == CacheInv /\ PendingInv /\ [NextCache]_cvars => PendingInv'
<1> SUFFICES ASSUME CacheInv, PendingInv, [NextCache]_cvars PROVE PendingInv'
  OBVIOUS
<1>1. ASSUME UNCHANGED <<reader, pendingFetches>> PROVE PendingInv'
  BY <1>1, SameLeaders DEF Leading
<1>2. ASSUME NEW r \in Readers, Read(r) \/ ReaderStep(r) \/ FillFails(r)
      PROVE  PendingInv'
  BY <1>2, SteadyReader, GetLeads, EndSteps DEF ReaderStep
<1>3. ASSUME NEW w \in Writers,
             StartChange(w) \/ WriterStep(w) \/ BreakOff(w) \/ InvalidateFails(w)
      PROVE  PendingInv'
  <2>1. UNCHANGED <<reader, pendingFetches>>
    BY <1>3 DEF StartChange, WriterStep, AcquireReservationLock, ReservationLockBusy, Commit,
           Invalidate, ReservationLeaseRunsOut, InvalidateFails, BreakOff
  <2>. QED
    BY <1>1, <2>1
<1>4. ASSUME NEW k \in CacheKeys, Replicate(k) \/ Expire(k) \/ LeaseRunsOut(k)
      PROVE  PendingInv'
  BY <1>1, <1>4 DEF Replicate, Expire, LeaseRunsOut
<1>5. ASSUME NEW n \in Instances, CrashInstance(n) PROVE PendingInv'
  BY <1>5, CrashPending
<1>6. CASE UNCHANGED cvars
  BY <1>1, <1>6 DEF cvars
<1>. QED
  BY <1>2, <1>3, <1>4, <1>5, <1>6 DEF NextCache

LEMMA PendingInductive == SpecCache => []PendingInv
<1>. QED
  BY InitPendingInv, PendingStep, CacheInductive, PTL DEF SpecCache

(* What is cached, shown to readers or answered was committed before,      *)
(* leases and errors stay within their kinds, and a process   *)
(* has a fetch pending only under a reader that still leads it             *)
(* (pendingFetches of getCachedOrFetchWithLock).                           *)
THEOREM CacheTypesHold == SpecCache => []CacheTypeOK
<1>1. ASSUME CacheInv, VersionInv, PendingInv PROVE CacheTypeOK
  <2>1. /\ db \in [CacheKeys -> Nat]
        /\ DOMAIN cache = CacheKeys /\ DOMAIN replica = CacheKeys
        /\ \A k \in CacheKeys : {cache[k], replica[k]} \subseteq Committed(k) \cup {Empty}
    BY <1>1 DEF CacheInv, Shapes, VersionInv, CopiesCommitted, Answers
  <2>2. /\ reader \in [Readers ->
             [pc: ReaderPcs, key: CacheKeys \cup {Empty}, result: Nat \cup {Empty}]]
        /\ \A r \in Readers :
             reader[r].result # Empty => reader[r].result \in Committed(reader[r].key)
    BY <1>1 DEF CacheInv, Shapes, ReaderRows, ReaderPcs, VersionInv, CopiesCommitted, Answers
  <2>3. \A n \in Instances, k \in CacheKeys :
          LET r == pendingFetches[n][k]
          IN  r # Empty => /\ Home[r] = n /\ reader[r].key = k
                           /\ reader[r].pc \notin {"idle", "get", "joined", "ended"}
    <3>1. \A n \in Instances, k \in CacheKeys : pendingFetches[n][k] \in Readers \cup {Empty}
      BY <1>1 DEF PendingInv, PendingShape
    <3>. QED
      BY <1>1, <3>1 DEF PendingInv, PendingIsLed, Leading
  <2>4. \A w \in Writers :
          /\ writer[w].pc \in {"idle", "lock", "commit", "invalidate", "ended", "lost"}
          /\ writer[w].left \in Nat /\ writer[w].todo \subseteq CacheKeys
          /\ writer[w].answer \in {Empty, "ok", "busy", "error"}
    BY <1>1 DEF CacheInv, Shapes, WriterRows
  <2>. QED
    BY <1>1, <2>1, <2>2, <2>3, <2>4
       DEF CacheTypeOK, CacheInv, Shapes, PendingInv, PendingShape, VersionInv, MishapsCounted,
           ReaderPcs
<1>. QED
  BY <1>1, CacheInductive, VersionsInductive, PendingInductive, PTL
=============================================================================
