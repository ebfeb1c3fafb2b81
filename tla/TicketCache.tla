----------------------------- MODULE TicketCache -----------------------------
(***************************************************************************)
(* The Redis cache tickets-service keeps in front of its database          *)
(* (TicketService in ticket.service.ts, redis.service.ts).                 *)
(*                                                                         *)
(* What a ticket key or the list shows is a version number: db says which  *)
(* version the database holds of each key's content, cache which one the   *)
(* Redis master holds and replica which one the lagging replicas show.     *)
(* Reads go to a replica, writes to the master.  A reader that finds       *)
(* nothing joins a fetch its own process has in progress, or leads one     *)
(* under a Redlock lease.  A writer commits, once or several times, then   *)
(* deletes the keys.                                                       *)
(*                                                                         *)
(* Keys of one ticket behave alike; every list query is the one ListKey.   *)
(***************************************************************************)
EXTENDS Integers, FiniteSets

CONSTANTS
  TicketKeys, ListKey,  \* the keys of the ticket, and the key of the lists
  Instances,            \* processes of tickets-service
  Readers, Writers,     \* calls, one each
  Home,                 \* the process that serves a reader or a writer
  Seats,                \* seat labels a reservation lock may name
  Empty,                \* no entry, nobody
  Plans                 \* the situations: the entries there are (warm), the key
                        \* each reader asks for and the kind of change each
                        \* writer makes (Empty: no such call), and how many
                        \* errors, lost leases and crashes occur (mishaps)

CacheKeys == TicketKeys \cup {ListKey}

ChangeKinds == {"create", "edit", "sale", "price"}

MishapKinds == {"error", "lease", "crash"}

ASSUME CacheAssumption ==
  /\ IsFiniteSet(Seats)
  /\ Home \in [Readers \cup Writers -> Instances]
  /\ Empty \notin Nat /\ Empty \notin Readers /\ Empty \notin CacheKeys
  /\ \A plan \in Plans :
       /\ plan.key \in [Readers -> CacheKeys \cup {Empty}]
       /\ plan.kind \in [Writers -> ChangeKinds \cup {Empty}]
       /\ plan.mishaps \in [MishapKinds -> Nat]

VARIABLES
  db, cache, replica,  \* versions, by key
  fillLock,            \* who holds the Redlock lease lock:<key>
  pendingFetches,      \* the reader that leads the fetch of a key in a process
  reader, writer,      \* what each call is doing
  mishaps,             \* what may still go wrong
  excused,             \* history: keys that may be stale with nobody at work
  overrun              \* history: keys whose lease ran out under its holder

cvars == <<db, cache, replica, fillLock, pendingFetches, reader, writer, mishaps,
           excused, overrun>>

(* The versions of a key that were committed. *)
Committed(k) == 0..db[k]

CacheTypeOK ==
  /\ db \in [CacheKeys -> Nat]
  /\ DOMAIN cache = CacheKeys /\ DOMAIN replica = CacheKeys
  /\ \A k \in CacheKeys : {cache[k], replica[k]} \subseteq Committed(k) \cup {Empty}
  /\ fillLock \in [CacheKeys -> Readers \cup {Empty}]
  /\ pendingFetches \in [Instances -> [CacheKeys -> Readers \cup {Empty}]]
  /\ \A n \in Instances, k \in CacheKeys :
       LET r == pendingFetches[n][k]
       IN  r # Empty => /\ Home[r] = n /\ reader[r].key = k
                        /\ reader[r].pc \notin {"idle", "get", "joined", "ended"}
  /\ reader \in [Readers ->
       [pc: {"idle", "get", "joined", "lock", "check", "fetch", "set", "release", "ended"},
        key: CacheKeys \cup {Empty}, result: Nat \cup {Empty}]]  \* Empty: an error
  /\ \A r \in Readers :
       reader[r].result # Empty => reader[r].result \in Committed(reader[r].key)
  /\ \A w \in Writers :
       /\ writer[w].pc \in {"idle", "lock", "commit", "invalidate", "ended", "lost"}
       /\ writer[w].left \in Nat /\ writer[w].todo \subseteq CacheKeys
       /\ writer[w].answer \in {Empty, "ok", "busy", "error"}
  /\ mishaps \in [MishapKinds -> Nat]
  /\ excused \subseteq CacheKeys /\ overrun \subseteq CacheKeys

InitCache ==
  /\ db = [k \in CacheKeys |-> 0]
  /\ \E plan \in Plans :
       /\ cache = [k \in CacheKeys |-> IF k \in plan.warm THEN 0 ELSE Empty]
       /\ reader = [r \in Readers |->
            [pc |-> IF plan.key[r] = Empty THEN "ended" ELSE "idle", key |-> plan.key[r],
             result |-> Empty]]
       /\ writer = [w \in Writers |->
            [pc |-> IF plan.kind[w] = Empty THEN "ended" ELSE "idle", kind |-> plan.kind[w],
             locks |-> {}, left |-> 0, todo |-> {}, answer |-> Empty]]
       /\ mishaps = plan.mishaps
  /\ replica = cache
  /\ fillLock = [k \in CacheKeys |-> Empty]
  /\ pendingFetches = [n \in Instances |-> [k \in CacheKeys |-> Empty]]
  /\ excused = {} /\ overrun = {}

Spend(kind) ==
  /\ mishaps[kind] > 0
  /\ mishaps' = [mishaps EXCEPT ![kind] = @ - 1]

-----------------------------------------------------------------------------
(* Redis.                                                                  *)

(* get reads from a replica.  Without replicas it reads from the master:   *)
(* a replica that is never behind.                                         *)
Shown(k) == replica[k]

Replicate(k) ==
  /\ replica[k] # cache[k]
  /\ replica' = [replica EXCEPT ![k] = cache[k]]
  /\ UNCHANGED <<db, cache, fillLock, pendingFetches, reader, writer, mishaps, excused, overrun>>

(* Mutant: set without a time to live.                                     *)
HasTtlNever(k) == FALSE

HasTtl(k) == cache[k] # Empty

Expire(k) ==
  /\ HasTtl(k)
  /\ cache' = [cache EXCEPT ![k] = Empty]
  /\ excused' = excused \ {k}
  /\ UNCHANGED <<db, replica, fillLock, pendingFetches, reader, writer, mishaps, overrun>>

Ended(r) == reader[r].pc = "ended"

(* A lease is not extended: it runs out under a slow holder, or after its  *)
(* holder has died.                                                        *)
LeaseRunsOut(k) ==
  /\ fillLock[k] # Empty
  /\ \/ Ended(fillLock[k]) /\ UNCHANGED <<mishaps, overrun>>
     \/ ~Ended(fillLock[k]) /\ Spend("lease") /\ overrun' = overrun \cup {k}
  /\ fillLock' = [fillLock EXCEPT ![k] = Empty]
  /\ UNCHANGED <<db, cache, replica, pendingFetches, reader, writer, excused>>

-----------------------------------------------------------------------------
(* Readers: getCachedOrFetchWithLock.                                      *)

rest == <<db, replica, writer>>

At(r, pc) == reader[r].pc = pc

Move(r, pc) == reader' = [reader EXCEPT ![r].pc = pc]

Read(r) ==
  /\ At(r, "idle") /\ Move(r, "get")
  /\ UNCHANGED <<rest, cache, fillLock, pendingFetches, mishaps, excused, overrun>>

(* The cached value; or join the fetch in progress here; or lead one.      *)
Get(r) ==
  /\ At(r, "get")
  /\ LET k == reader[r].key  n == Home[r]
     IN  \/ /\ Shown(k) # Empty
            /\ reader' = [reader EXCEPT ![r].pc = "ended", ![r].result = Shown(k)]
            /\ UNCHANGED pendingFetches
         \/ /\ Shown(k) = Empty /\ pendingFetches[n][k] # Empty
            /\ Move(r, "joined")
            /\ UNCHANGED pendingFetches
         \/ /\ Shown(k) = Empty /\ pendingFetches[n][k] = Empty
            /\ Move(r, "lock")
            /\ pendingFetches' = [pendingFetches EXCEPT ![n][k] = r]
  /\ UNCHANGED <<rest, cache, fillLock, mishaps, excused, overrun>>

(* Mutant: only success reaches those who joined.                          *)
AnsweredWithoutErrors(r, q, result) ==
  q = r \/ (result # Empty /\ At(q, "joined") /\ reader[q].key = reader[r].key
            /\ Home[q] = Home[r])

(* Whom the end of r's fetch answers: r and those who joined it.           *)
Answered(r, q, result) ==
  q = r \/ (At(q, "joined") /\ reader[q].key = reader[r].key /\ Home[q] = Home[r])

(* Mutant: the fetch stays pending after its end.                          *)
EndKeepsPending(r, result) ==
  /\ reader' = [q \in Readers |->
       IF Answered(r, q, result) THEN [reader[q] EXCEPT !.pc = "ended", !.result = result]
       ELSE reader[q]]
  /\ UNCHANGED pendingFetches

End(r, result) ==
  /\ reader' = [q \in Readers |->
       IF Answered(r, q, result) THEN [reader[q] EXCEPT !.pc = "ended", !.result = result]
       ELSE reader[q]]
  /\ pendingFetches' = [pendingFetches EXCEPT ![Home[r]][reader[r].key] = Empty]

(* Mutant: the fetch does not wait for the lease.                          *)
LeaseFreeAlways(k) == TRUE

LeaseFree(k) == fillLock[k] = Empty

AcquireFillLock(r) ==
  /\ At(r, "lock")
  /\ LeaseFree(reader[r].key)
  /\ fillLock' = [fillLock EXCEPT ![reader[r].key] = r]
  /\ Move(r, "check")
  /\ UNCHANGED <<rest, cache, pendingFetches, mishaps, excused, overrun>>

(* All retries found the lease taken: 503.                                 *)
FillLockBusy(r) ==
  /\ At(r, "lock") /\ ~LeaseFree(reader[r].key)
  /\ End(r, Empty)
  /\ UNCHANGED <<rest, cache, fillLock, mishaps, excused, overrun>>

DoubleCheck(r) ==
  /\ At(r, "check")
  /\ LET seen == Shown(reader[r].key)
     IN  reader' = [reader EXCEPT ![r].pc = IF seen = Empty THEN "fetch" ELSE "release",
                                  ![r].result = seen]
  /\ UNCHANGED <<rest, cache, fillLock, pendingFetches, mishaps, excused, overrun>>

Fetch(r) ==
  /\ At(r, "fetch")
  /\ reader' = [reader EXCEPT ![r].pc = "set", ![r].result = db[reader[r].key]]
  /\ UNCHANGED <<rest, cache, fillLock, pendingFetches, mishaps, excused, overrun>>

(* What was fetched may be old by now, and stays until its time is over.   *)
Set(r) ==
  /\ At(r, "set")
  /\ LET k == reader[r].key  v == reader[r].result
     IN  /\ cache' = [cache EXCEPT ![k] = v]
         /\ excused' = IF v < db[k] THEN excused \cup {k} ELSE excused \ {k}
  /\ Move(r, "release")
  /\ UNCHANGED <<rest, fillLock, pendingFetches, mishaps, overrun>>

(* Redis or the database fails: the error goes on through finally.         *)
FillFails(r) ==
  /\ reader[r].pc \in {"check", "fetch", "set"}
  /\ Spend("error")
  /\ reader' = [reader EXCEPT ![r].pc = "release", ![r].result = Empty]
  /\ UNCHANGED <<rest, cache, fillLock, pendingFetches, excused, overrun>>

(* releaseLock frees only one's own lease.                                 *)
FreeFillLock(r) ==
  /\ At(r, "release")
  /\ LET k == reader[r].key
     IN  fillLock' = IF fillLock[k] = r THEN [fillLock EXCEPT ![k] = Empty] ELSE fillLock
  /\ End(r, reader[r].result)
  /\ UNCHANGED <<rest, cache, mishaps, excused, overrun>>

-----------------------------------------------------------------------------
(* Writers: the overrides of TicketService.                                *)

(* The keys whose content a change alters: a sale every one, price and     *)
(* window (changePrice, changeSaleWindow) every one, an edit (update,      *)
(* remove, publish, unpublish, the item calls, prepareStock, openSale,     *)
(* closeSale) every one, create only the lists.                            *)
Touches(kind) == IF kind = "create" THEN {ListKey} ELSE CacheKeys

(* The keys a change then deletes.                                         *)
Invalidates(kind) ==
  CASE kind = "create" -> {ListKey}
    [] kind = "edit"   -> CacheKeys
    [] kind = "sale"   -> TicketKeys
    [] kind = "price"  -> {}

Answer(w, answer) ==
  writer' = [writer EXCEPT ![w].pc = "ended", ![w].answer = answer,
                              ![w].locks = {}, ![w].left = 0, ![w].todo = {}]

(* What a call commits one by one: release its labels, create the ticket   *)
(* and then its items; every other call commits once.                      *)
Transactions(kind, S) ==
  CASE kind = "sale"   -> {1} \cup ({Cardinality(S)} \ {0})
    [] kind = "create" -> {1, 2}
    [] OTHER           -> {1}

(* executeWithReservationLock: a lock per seat, or one for the ticket.     *)
StartChange(w) ==
  /\ writer[w].pc = "idle"
  /\ \E S \in SUBSET Seats : \E n \in Transactions(writer[w].kind, S) :
       IF writer[w].kind = "sale"
       THEN writer' = [writer EXCEPT ![w].pc = "lock", ![w].left = n,
                                     ![w].locks = IF S = {} THEN {"ticket"} ELSE S]
       ELSE writer' = [writer EXCEPT ![w].pc = "commit", ![w].left = n]
  /\ UNCHANGED <<db, cache, replica, fillLock, pendingFetches, reader, mishaps, excused, overrun>>

Reserving(w) == writer[w].pc \in {"commit", "lost"} /\ writer[w].locks # {}

LocksFree(w) ==
  \A v \in Writers \ {w} : Reserving(v) => writer[v].locks \cap writer[w].locks = {}

AcquireReservationLock(w) ==
  /\ writer[w].pc = "lock" /\ LocksFree(w)
  /\ writer' = [writer EXCEPT ![w].pc = "commit"]
  /\ UNCHANGED <<db, cache, replica, fillLock, pendingFetches, reader, mishaps, excused, overrun>>

(* 409 or 429 after the last retry.                                        *)
ReservationLockBusy(w) ==
  /\ writer[w].pc = "lock" /\ ~LocksFree(w)
  /\ Answer(w, "busy")
  /\ UNCHANGED <<db, cache, replica, fillLock, pendingFetches, reader, mishaps, excused, overrun>>

(* One transaction; the locks are freed and the deletes begin after the    *)
(* last.                                                                   *)
Commit(w) ==
  /\ writer[w].pc = "commit"
  /\ LET S == Touches(writer[w].kind)
     IN  /\ db' = [k \in CacheKeys |-> IF k \in S THEN db[k] + 1 ELSE db[k]]
         /\ excused' = excused \cup (S \ Invalidates(writer[w].kind))
  /\ LET last == writer[w].left <= 1
     IN  writer' = [writer EXCEPT ![w].pc = IF last THEN "invalidate" ELSE "commit",
                                  ![w].locks = IF last THEN {} ELSE @,
                                  ![w].left = IF last THEN 0 ELSE @ - 1,
                                  ![w].todo = Invalidates(writer[w].kind)]
  /\ UNCHANGED <<cache, replica, fillLock, pendingFetches, reader, mishaps, overrun>>

(* A transaction is refused (a label that is already free or unknown, a    *)
(* ticket that is gone) or fails: the call throws, and what it committed   *)
(* before is never followed by the deletes.                                *)
BreakOff(w) ==
  /\ writer[w].pc = "commit"
  /\ excused' = excused \cup writer[w].todo
  /\ Answer(w, "error")
  /\ UNCHANGED <<db, cache, replica, fillLock, pendingFetches, reader, mishaps, overrun>>

(* The ticket's keys in any order, the lists after them.                   *)
NextToDelete(w) ==
  LET own == writer[w].todo \cap TicketKeys
  IN  IF own # {} THEN own ELSE writer[w].todo

(* Mutant: the lists are forgotten.                                        *)
DeleteAllButLists(w, k) ==
  cache' = IF k = ListKey THEN cache ELSE [cache EXCEPT ![k] = Empty]

Delete(w, k) == cache' = [cache EXCEPT ![k] = Empty]

Invalidate(w) ==
  /\ writer[w].pc = "invalidate"
  /\ \/ \E k \in NextToDelete(w) :
          /\ Delete(w, k)
          /\ excused' = excused \ {k}
          /\ writer' = [writer EXCEPT ![w].todo = @ \ {k}]
     \/ /\ writer[w].todo = {}
        /\ Answer(w, "ok")
        /\ UNCHANGED <<cache, excused>>
  /\ UNCHANGED <<db, replica, fillLock, pendingFetches, reader, mishaps, overrun>>

(* Redis fails, or the ticket cannot be read again for the answer          *)
(* (addTicketItem, prepareStock, openSale, closeSale): the caller gets an  *)
(* error for a change that is committed.  (A delete of Promise.all that    *)
(* still goes through is like an expiry.)                                  *)
InvalidateFails(w) ==
  /\ writer[w].pc = "invalidate" /\ writer[w].todo # {}
  /\ Spend("error")
  /\ excused' = excused \cup writer[w].todo
  /\ Answer(w, "error")
  /\ UNCHANGED <<db, cache, replica, fillLock, pendingFetches, reader, overrun>>

(* A process dies: its calls end, its leases stay until they run out.      *)
CrashInstance(n) ==
  /\ Spend("crash")
  /\ reader' = [r \in Readers |->
       IF Home[r] = n THEN [reader[r] EXCEPT !.pc = "ended"] ELSE reader[r]]
  /\ writer' = [w \in Writers |->
       IF Home[w] # n THEN writer[w]
       ELSE [writer[w] EXCEPT !.pc = IF Reserving(w) THEN "lost" ELSE "ended", !.todo = {}]]
  /\ excused' = excused \cup
       UNION {writer[w].todo : w \in {v \in Writers : Home[v] = n}}
  /\ pendingFetches' = [pendingFetches EXCEPT ![n] = [k \in CacheKeys |-> Empty]]
  /\ UNCHANGED <<db, cache, replica, fillLock, overrun>>

ReservationLeaseRunsOut(w) ==
  /\ writer[w].pc = "lost"
  /\ Answer(w, Empty)
  /\ UNCHANGED <<db, cache, replica, fillLock, pendingFetches, reader, mishaps, excused, overrun>>

-----------------------------------------------------------------------------
ReaderStep(r) ==
  \/ Get(r) \/ AcquireFillLock(r) \/ FillLockBusy(r)
  \/ DoubleCheck(r) \/ Fetch(r) \/ Set(r) \/ FreeFillLock(r)

WriterStep(w) ==
  \/ AcquireReservationLock(w) \/ ReservationLockBusy(w)
  \/ Commit(w) \/ Invalidate(w) \/ ReservationLeaseRunsOut(w)

NextCache ==
  \/ \E r \in Readers : Read(r) \/ ReaderStep(r) \/ FillFails(r)
  \/ \E w \in Writers : StartChange(w) \/ WriterStep(w) \/ BreakOff(w) \/ InvalidateFails(w)
  \/ \E k \in CacheKeys : Replicate(k) \/ Expire(k) \/ LeaseRunsOut(k)
  \/ \E n \in Instances : CrashInstance(n)

(* Calls go on once begun, Redis replicates, leases and entries run out.   *)
CacheFairness ==
  /\ \A r \in Readers : WF_cvars(ReaderStep(r))
  /\ \A w \in Writers : WF_cvars(WriterStep(w))
  /\ \A k \in CacheKeys : WF_cvars(Replicate(k)) /\ WF_cvars(Expire(k))

SpecCache == InitCache /\ [][NextCache]_cvars /\ CacheFairness

-----------------------------------------------------------------------------
(* Properties.                                                             *)

(* With no writer between a commit and its deletes, an entry is what the   *)
(* database holds, unless the change never deletes that key, its call      *)
(* ended before the deletes (a later transaction was refused, the ticket   *)
(* could not be read again, a delete failed, the process died), or a fetch *)
(* begun before the commit filled it afterwards.                           *)
QuietCacheIsFresh ==
  \A k \in CacheKeys \ excused :
    (\A w \in Writers : k \notin writer[w].todo) => cache[k] \in {Empty, db[k]}

(* No stampede: whatever number of readers and processes miss at once, one *)
(* of them fills the entry, as long as no lease runs out under its holder. *)
OneFillPerKey ==
  \A k \in CacheKeys \ overrun :
    Cardinality({r \in Readers :
      reader[r].key = k /\ reader[r].pc \in {"check", "fetch", "set", "release"}}) <= 1

(* Every call is answered: a reader that leads, joins or finds the lease   *)
(* taken, a writer that waits for its seats, whatever fails.  (A reader or *)
(* writer makes one call, so in the end none is in progress.)              *)
CallsAreAnswered ==
  <>[](/\ \A r \in Readers : reader[r].pc \in {"idle", "ended"}
       /\ \A w \in Writers : writer[w].pc \in {"idle", "ended"})

(* A stale entry does not outlive its time, at the master or at what       *)
(* readers are shown, whatever race or failure left it there: once nothing *)
(* changes any more, nothing stale is left.                                *)
StaleEntriesGo == <>[](\A k \in CacheKeys : Shown(k) \in {Empty, db[k]})
=============================================================================
