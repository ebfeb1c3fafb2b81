------------------------ MODULE TicketInventoryProofs ------------------------
(***************************************************************************)
(* Theorems about the rows of tickets-service, for any number of items,    *)
(* labels and calls in progress.                                           *)
(*                                                                         *)
(* A call writes whole rows from what it read, so conservation of the pool *)
(* is inductive only together with what the row lock gives: between its    *)
(* read and its write a call holds the lock, and what it read is what is   *)
(* there (LockHeld).  The pool of a row (Pool) also says that no label is  *)
(* both free and held, which PoolConserved need not say.                   *)
(***************************************************************************)
EXTENDS TicketInventory, TicketStockProofs, SequenceTheorems

(* A row whose pool no operator has dictated: every label is free or in a  *)
(* customer's hands (h), never both, and the counter agrees.               *)
Pool(it, h, o) ==
  /\ it.seats # {} => /\ it.seats = it.avail \cup h
                      /\ it.avail \cap h = {}
                      /\ it.stock = Cardinality(it.avail)
  /\ it.seats = {} => /\ it.avail = {} /\ h = {}
                      /\ it.initial # Unset => it.stock \in Nat /\ it.stock + o = it.initial

(* An item that is not there yet has been sold to nobody, and one that     *)
(* closeSale closed has that end of sale.                                  *)
Dated(it, h, o, cl) ==
  /\ it.state = "absent" => h = {} /\ o = 0 /\ cl = Unset
  /\ cl # Unset => it.end = cl

PoolsSound ==
  \A i \in Items :
    /\ Dated(item[i], held[i], out[i], closed[i])
    /\ i \notin rewritten /\ item[i].state # "absent" => Pool(item[i], held[i], out[i])

IsCall(k) == k \in [stage : {k.stage}, req : {k.req}, seen : {k.seen}]

(* Calls are about requests the service lets in.                           *)
CallsKnown ==
  /\ call = [c \in Callers |-> call[c]]
  /\ \A c \in Callers :
       /\ IsCall(call[c])
       /\ call[c].stage # "idle" => IsRequest(call[c].req)
       /\ call[c].stage \in {"lock", "read", "write"} => call[c].req.op \in LockedOps
  /\ \A r \in quota : IsRequest(r)

(* Who has read the rows holds the lock, and the rows are still the same.  *)
LockHeld ==
  \A c \in Callers :
    /\ call[c].stage \in {"read", "write"} => lock = c
    /\ call[c].stage = "write" => call[c].seen = item

InventoryInv == InventoryTypeOK /\ CallsKnown /\ LockHeld /\ PoolsSound

-----------------------------------------------------------------------------
(* Rows and payloads.                                                      *)

LEMMA LabelSetsAreCounted ==
  ASSUME NEW S \in SUBSET Labels
  PROVE  IsFiniteSet(S) /\ Cardinality(S) \in Nat /\ (Cardinality(S) = 0 <=> S = {})
  BY InventoryAssumption, FS_Subset, FS_CardinalityType, FS_EmptySet

LEMMA MergeTypes ==
  ASSUME NEW it \in ItemRows, NEW p, IsPatch(p)
  PROVE  Merge(it, p) \in ItemRows /\ Merge(it, p).state = it.state
<1>1. /\ Given(p, "seats", it.seats) \in SUBSET Labels
      /\ Given(p, "avail", it.avail) \in SUBSET Labels
      /\ Given(p, "initial", it.initial) \in Nat \cup {Unset}
      /\ Given(p, "stock", it.stock) \in Nat \cup {Unset}
      /\ Given(p, "prepared", it.prepared) \in BOOLEAN
      /\ Given(p, "start", it.start) \in Time \cup {Unset}
      /\ Given(p, "end", it.end) \in Time \cup {Unset}
  BY DEF IsPatch, Given, ItemRows
<1>. QED BY <1>1 DEF Merge, ItemRows

LEMMA NormaliseTypes ==
  ASSUME NEW it \in ItemRows
  PROVE  /\ Normalise(it) \in ItemRows
         /\ Normalise(it).state = it.state /\ Normalise(it).end = it.end
         /\ Normalise(it).seats = it.seats /\ Normalise(it).avail = it.avail
<1>. DEFINE initial == IF it.initial = Unset /\ it.seats # {}
                       THEN Cardinality(it.seats) ELSE it.initial
            stock   == IF it.stock # Unset THEN it.stock
                       ELSE IF it.avail # {} THEN Cardinality(it.avail) ELSE initial
<1>1. initial \in Nat \cup {Unset} /\ stock \in Nat \cup {Unset}
  BY LabelSetsAreCounted DEF ItemRows
<1>2. Normalise(it) = [it EXCEPT !.initial = initial, !.stock = stock]
  BY DEF Normalise
<1>. HIDE DEF initial, stock
<1>. QED BY <1>1, <1>2 DEF ItemRows

(* What Normalise fills in is what the pool says.                          *)
LEMMA NormalisePool ==
  ASSUME NEW it \in ItemRows, NEW h, NEW o, Pool(it, h, o)
  PROVE  Pool(Normalise(it), h, o)
<1>. DEFINE initial == IF it.initial = Unset /\ it.seats # {}
                       THEN Cardinality(it.seats) ELSE it.initial
            stock   == IF it.stock # Unset THEN it.stock
                       ELSE IF it.avail # {} THEN Cardinality(it.avail) ELSE initial
<1>1. Normalise(it) = [it EXCEPT !.initial = initial, !.stock = stock]
  BY DEF Normalise
<1>2. it.seats # {} => stock = Cardinality(it.avail)
  BY LabelSetsAreCounted, InventoryAssumption DEF Pool, ItemRows
<1>3. it.seats = {} => initial = it.initial /\ (initial # Unset => stock = it.stock)
  BY InventoryAssumption DEF Pool, ItemRows
<1>. HIDE DEF initial, stock
<1>. QED BY <1>1, <1>2, <1>3 DEF Pool, ItemRows

LEMMA ViewTypes ==
  ASSUME NEW it \in ItemRows
  PROVE  /\ View(it) \in ItemType(Labels)
         /\ View(it).seats = it.seats /\ View(it).avail = it.avail
         /\ it.stock # Unset => View(it).stock = it.stock
         /\ it.initial # Unset => View(it).initial = it.initial
         /\ View(it).open = IsSaleOpen(it)
         /\ View(it).stock \in Nat
<1>1. IsSaleOpen(it) \in BOOLEAN
  BY DEF IsSaleOpen
<1>2. Cardinality(it.avail) \in Nat /\ Cardinality(it.seats) \in Nat
  BY LabelSetsAreCounted DEF ItemRows
<1>. DEFINE stock == IF it.stock # Unset THEN it.stock ELSE Cardinality(it.avail)
            initial == IF it.initial # Unset THEN it.initial
               ELSE Cardinality(IF it.seats # {} THEN it.seats ELSE it.avail)
            open == IsSaleOpen(it)
<1>3. stock \in Nat /\ initial \in Nat
  BY <1>2 DEF ItemRows
<1>4. View(it) = [seats |-> it.seats, avail |-> it.avail, prepared |-> it.prepared,
                  open |-> open, stock |-> stock, initial |-> initial]
  BY DEF View
<1>5. /\ it.stock # Unset => stock = it.stock
      /\ it.initial # Unset => initial = it.initial
  OBVIOUS
<1>. HIDE DEF stock, initial, open
<1>6. View(it) \in ItemType(Labels)
  BY <1>1, <1>3, <1>4 DEF ItemType, ItemRows, open
<1>. QED BY <1>3, <1>4, <1>5, <1>6 DEF open

LEMMA ViewStock ==
  ASSUME NEW it \in ItemRows, it.stock \in Nat
  PROVE  View(it).stock = it.stock
<1>1. it.stock # Unset
  BY InventoryAssumption
<1>. QED BY <1>1, ViewTypes

LEMMA StockedTypes ==
  ASSUME NEW it \in ItemRows, NEW v, v.avail \in SUBSET Labels, v.stock \in Nat
  PROVE  /\ Stocked(it, v) \in ItemRows
         /\ Stocked(it, v).state = it.state /\ Stocked(it, v).end = it.end
<1>. DEFINE row == [it EXCEPT !.avail = v.avail, !.stock = v.stock]
<1>1. row \in ItemRows /\ row.state = it.state /\ row.end = it.end
  BY DEF ItemRows
<1>2. Stocked(it, v) = Normalise(row)
  BY DEF Stocked
<1>. HIDE DEF row
<1>. QED BY <1>1, <1>2, NormaliseTypes

(* What is stored back keeps a pool sound that was sound in the view.      *)
LEMMA StockedPool ==
  ASSUME NEW it \in ItemRows, NEW v, v.avail \in SUBSET Labels, v.stock \in Nat,
         NEW h, NEW o,
         it.seats # {} => /\ it.seats = v.avail \cup h
                          /\ v.avail \cap h = {}
                          /\ v.stock = Cardinality(v.avail),
         it.seats = {} => /\ v.avail = {} /\ h = {}
                          /\ it.initial # Unset => v.stock + o = it.initial
  PROVE  Pool(Stocked(it, v), h, o)
<1>. DEFINE row == [it EXCEPT !.avail = v.avail, !.stock = v.stock]
<1>1. /\ row \in ItemRows /\ row.seats = it.seats /\ row.avail = v.avail
      /\ row.stock = v.stock /\ row.initial = it.initial
  BY DEF ItemRows
<1>2. Stocked(it, v) = Normalise(row)
  BY DEF Stocked
<1>. HIDE DEF row
<1>3. Pool(row, h, o)
  BY <1>1 DEF Pool
<1>. QED BY <1>1, <1>2, <1>3, NormalisePool

-----------------------------------------------------------------------------
(* The four sales and returns keep a pool sound.                           *)

(* reserve by count: the labels taken become the customer's.               *)
LEMMA CountSold ==
  ASSUME NEW it \in ItemRows, NEW h \in SUBSET Labels, NEW o \in Int, Pool(it, h, o),
         NEW q \in Nat \ {0}, CanTakeCount(View(it), q), NEW S \in Allocations(View(it), q)
  PROVE  Pool(Stocked(it, TakeCount(View(it), q, S)), h \cup S, o + q - Cardinality(S))
<1>. DEFINE V == View(it)
            v == TakeCount(V, q, S)
            n == Cardinality(it.avail)
            A == IF n >= q THEN it.avail \ S ELSE {}
<1>1. V \in ItemType(Labels) /\ V.seats = it.seats /\ V.avail = it.avail /\ V.stock >= q
  BY ViewTypes DEF CanTakeCount, Free
<1>2. v = [V EXCEPT !.avail = A, !.stock = V.stock - q]
  BY <1>1 DEF TakeCount, Free
<1>3. v.avail = A /\ v.stock = V.stock - q /\ v.avail \in SUBSET Labels /\ v.stock \in Nat
  <2>1. A \in SUBSET Labels /\ V.stock \in Nat
    BY ViewTypes DEF ItemRows
  <2>. HIDE DEF A, V
  <2>. QED BY <1>1, <1>2, <2>1 DEF ItemType
<1>4. n \in Nat /\ IsFiniteSet(it.avail)
  BY LabelSetsAreCounted DEF ItemRows
<1>5. CASE it.seats # {}
  <2>1. it.stock = n /\ V.stock = n
    BY <1>4, <1>5, ViewStock DEF Pool
  <2>2. S \subseteq it.avail /\ Cardinality(S) = q
    BY <1>1, <2>1 DEF Allocations
  <2>3. A = it.avail \ S
    BY <1>1, <2>1
  <2>4. Cardinality(it.avail \ S) = n - Cardinality(it.avail \cap S) /\ it.avail \cap S = S
    BY <1>4, <2>2, FS_Difference
  <2>5. v.stock = Cardinality(v.avail)
    BY <1>3, <2>1, <2>2, <2>3, <2>4
  <2>6. it.seats = v.avail \cup (h \cup S) /\ v.avail \cap (h \cup S) = {}
    BY <1>3, <1>5, <2>2, <2>3 DEF Pool
  <2>7. Pool(Stocked(it, v), h \cup S, o + q - Cardinality(S))
    <3>. HIDE DEF v
    <3>. QED BY <1>3, <1>5, <2>5, <2>6, StockedPool
  <2>. QED BY <2>7
<1>6. CASE it.seats = {}
  <2>1. it.avail = {} /\ n = 0 /\ h = {}
    BY <1>6, LabelSetsAreCounted DEF Pool, ItemRows
  <2>2. S = {} /\ A = {} /\ Cardinality(S) = 0
    BY <1>1, <2>1, FS_EmptySet DEF Allocations
  <2>3. it.initial # Unset => v.stock + (o + q - Cardinality(S)) = it.initial
    <3>1. ASSUME it.initial # Unset PROVE V.stock = it.stock /\ it.stock \in Nat
      BY <1>6, <3>1, ViewStock DEF Pool
    <3>2. ASSUME it.initial # Unset PROVE it.stock + o = it.initial
      BY <1>6, <3>2 DEF Pool
    <3>. HIDE DEF v, V
    <3>. QED BY <1>3, <2>2, <3>1, <3>2
  <2>4. Pool(Stocked(it, v), h \cup S, o + q - Cardinality(S))
    <3>. HIDE DEF v
    <3>. QED BY <1>3, <1>6, <2>1, <2>2, <2>3, StockedPool
  <2>. QED BY <2>4
<1>. QED BY <1>5, <1>6

(* reserve_seat: the label becomes the customer's.                         *)
LEMMA SeatSold ==
  ASSUME NEW it \in ItemRows, NEW h \in SUBSET Labels, NEW o \in Int, Pool(it, h, o),
         NEW l \in Labels, CanTakeSeat(View(it), l)
  PROVE  Pool(Stocked(it, TakeSeat(View(it), l)), h \cup {l}, o)
<1>. DEFINE V == View(it)
            v == TakeSeat(V, l)
            A == it.avail \ {l}
<1>1. /\ V \in ItemType(Labels) /\ V.seats = it.seats /\ V.avail = it.avail
      /\ V.stock >= 1 /\ l \in it.seats /\ l \in it.avail
  BY ViewTypes DEF CanTakeSeat, Free
<1>2. v = [V EXCEPT !.avail = A, !.stock = V.stock - 1]
  BY <1>1 DEF TakeSeat, Free
<1>3. v.avail = A /\ v.stock = V.stock - 1 /\ v.avail \in SUBSET Labels /\ v.stock \in Nat
  <2>1. A \in SUBSET Labels /\ V.stock \in Nat
    BY ViewTypes DEF ItemRows
  <2>. HIDE DEF A, V
  <2>. QED BY <1>1, <1>2, <2>1 DEF ItemType
<1>4. Cardinality(A) = Cardinality(it.avail) - 1
  BY <1>1, LabelSetsAreCounted, FS_RemoveElement DEF ItemRows
<1>5. it.stock = Cardinality(it.avail) /\ V.stock = it.stock
  BY <1>1, ViewStock, LabelSetsAreCounted DEF Pool, ItemRows
<1>6. it.seats = v.avail \cup (h \cup {l}) /\ v.avail \cap (h \cup {l}) = {}
  BY <1>1, <1>3 DEF Pool
<1>7. v.stock = Cardinality(v.avail)
  BY <1>3, <1>4, <1>5
<1>8. Pool(Stocked(it, v), h \cup {l}, o)
  <2>. HIDE DEF v
  <2>. QED BY <1>1, <1>3, <1>6, <1>7, StockedPool
<1>. QED BY <1>8

(* release of one label: only a label that is not free comes back.         *)
LEMMA SeatReturned ==
  ASSUME NEW it \in ItemRows, NEW h \in SUBSET Labels, NEW o \in Int, Pool(it, h, o),
         NEW l \in Labels, CanReturnSeat(View(it), l)
  PROVE  Pool(Stocked(it, ReturnSeat(View(it), l)), h \ {l}, o)
<1>. DEFINE V == View(it)
            v == ReturnSeat(V, l)
            A == it.avail \cup {l}
<1>1. /\ V \in ItemType(Labels) /\ V.seats = it.seats /\ V.avail = it.avail
      /\ l \in it.seats /\ l \notin it.avail
  BY ViewTypes DEF CanReturnSeat
<1>2. v = [V EXCEPT !.avail = A, !.stock = V.stock + 1]
  BY <1>1 DEF ReturnSeat, Free
<1>3. v.avail = A /\ v.stock = V.stock + 1 /\ v.avail \in SUBSET Labels /\ v.stock \in Nat
  <2>1. A \in SUBSET Labels /\ V.stock \in Nat
    BY ViewTypes DEF ItemRows
  <2>. HIDE DEF A, V
  <2>. QED BY <1>1, <1>2, <2>1 DEF ItemType
<1>4. Cardinality(A) = Cardinality(it.avail) + 1
  BY <1>1, LabelSetsAreCounted, FS_AddElement DEF ItemRows
<1>5. it.stock = Cardinality(it.avail) /\ V.stock = it.stock
  BY <1>1, ViewStock, LabelSetsAreCounted DEF Pool, ItemRows
<1>6. it.seats = v.avail \cup (h \ {l}) /\ v.avail \cap (h \ {l}) = {}
  BY <1>1, <1>3 DEF Pool
<1>7. v.stock = Cardinality(v.avail)
  BY <1>3, <1>4, <1>5
<1>8. Pool(Stocked(it, v), h \ {l}, o)
  <2>. HIDE DEF v
  <2>. QED BY <1>1, <1>3, <1>6, <1>7, StockedPool
<1>. QED BY <1>8

(* release by count lifts the counter of an item without labels only.      *)
LEMMA CountReturned ==
  ASSUME NEW it \in ItemRows, NEW h \in SUBSET Labels, NEW o \in Int, Pool(it, h, o),
         NEW q \in Nat \ {0}
  PROVE  Pool(Stocked(it, ReturnCount(View(it), q)), h, IF it.seats = {} THEN o - q ELSE o)
<1>. DEFINE V == View(it)
            v == ReturnCount(V, q)
            n == Cardinality(it.avail)
<1>1. V \in ItemType(Labels) /\ V.seats = it.seats /\ V.avail = it.avail /\ V.stock \in Nat
  BY ViewTypes
<1>2. n \in Nat
  BY LabelSetsAreCounted DEF ItemRows
<1>3. CASE it.seats # {}
  <2>1. it.stock = n /\ V.stock = n
    BY <1>2, <1>3, ViewStock DEF Pool
  <2>2. v = [V EXCEPT !.stock = n]
    BY <1>1, <1>2, <1>3, <2>1 DEF ReturnCount, Free
  <2>3. v.avail = it.avail /\ v.stock = n /\ v.avail \in SUBSET Labels
    <3>. HIDE DEF V, n
    <3>. QED BY <1>1, <2>2 DEF ItemType, ItemRows
  <2>4. Pool(Stocked(it, v), h, o)
    <3>. HIDE DEF v
    <3>1. it.seats = v.avail \cup h /\ v.avail \cap h = {} /\ v.stock = Cardinality(v.avail)
      BY <1>3, <2>3 DEF Pool
    <3>. QED BY <1>2, <1>3, <2>3, <3>1, StockedPool
  <2>. QED BY <1>3, <2>4
<1>4. CASE it.seats = {}
  <2>1. v = [V EXCEPT !.avail = {}, !.stock = V.stock + q]
    BY <1>1, <1>4 DEF ReturnCount, Free
  <2>2. v.avail = {} /\ v.stock = V.stock + q /\ v.stock \in Nat
    <3>. HIDE DEF V
    <3>. QED BY <1>1, <2>1 DEF ItemType
  <2>3. it.initial # Unset => v.stock + (o - q) = it.initial
    <3>1. ASSUME it.initial # Unset
          PROVE  V.stock = it.stock /\ it.stock \in Nat /\ it.stock + o = it.initial
      BY <1>4, <3>1, ViewStock DEF Pool
    <3>. HIDE DEF v, V
    <3>. QED BY <2>2, <3>1
  <2>4. Pool(Stocked(it, v), h, o - q)
    <3>. HIDE DEF v
    <3>1. h = {}
      BY <1>4 DEF Pool
    <3>. QED BY <1>4, <2>2, <2>3, <3>1, StockedPool
  <2>. QED BY <1>4, <2>4
<1>. QED BY <1>3, <1>4

LEMMA ReturnedView ==
  ASSUME NEW it \in ItemRows, NEW q \in Nat \ {0}
  PROVE  /\ ReturnCount(View(it), q).stock \in Nat
         /\ ReturnCount(View(it), q).avail \in SUBSET Labels
<1>. DEFINE V == View(it)
            n == Cardinality(V.avail)
            m == IF V.stock + q < n THEN V.stock + q ELSE n
<1>1. V \in ItemType(Labels) /\ V.stock \in Nat
  BY ViewTypes
<1>2. n \in Nat
  BY <1>1, LabelSetsAreCounted DEF ItemType
<1>3. V.stock + q \in Nat /\ m \in Nat
  BY <1>1, <1>2
<1>4. ReturnCount(V, q) = IF V.seats = {} THEN [V EXCEPT !.avail = {}, !.stock = V.stock + q]
                          ELSE [V EXCEPT !.stock = m]
  BY DEF ReturnCount, Free
<1>. HIDE DEF m, V
<1>5. ReturnCount(V, q).stock \in Nat /\ ReturnCount(V, q).avail \in SUBSET Labels
  BY <1>1, <1>3, <1>4 DEF ItemType
<1>. QED BY <1>5 DEF V

-----------------------------------------------------------------------------
(* What operators write.                                                   *)

(* An update that names no column of the pool leaves the pool alone.       *)
LEMMA MergePool ==
  ASSUME NEW it \in ItemRows, NEW p, NEW h, NEW o, Pool(it, h, o),
         PoolFields \cap DOMAIN p = {}
  PROVE  Pool(Merge(it, p), h, o)
<1>1. /\ Given(p, "seats", it.seats) = it.seats
      /\ Given(p, "avail", it.avail) = it.avail
      /\ Given(p, "initial", it.initial) = it.initial
      /\ Given(p, "stock", it.stock) = it.stock
  BY DEF Given, PoolFields
<1>2. /\ Merge(it, p).seats = it.seats /\ Merge(it, p).avail = it.avail
      /\ Merge(it, p).initial = it.initial /\ Merge(it, p).stock = it.stock
  BY <1>1 DEF Merge
<1>. QED BY <1>2 DEF Pool

(* A new item offers all its labels, unless its pool was dictated.         *)
LEMMA BuiltItem ==
  ASSUME NEW p, IsPatch(p)
  PROVE  /\ BuildItem(p) \in ItemRows /\ BuildItem(p).state = "live"
         /\ (PoolFields \ {"seats"}) \cap DOMAIN p = {} => Pool(BuildItem(p), {}, 0)
<1>. DEFINE seats == Given(p, "seats", {})
            avail == Given(p, "avail", seats)
            initial == Given(p, "initial", Unset)
            stock == Given(p, "stock", Unset)
            prepared == Given(p, "prepared", avail # {})
            start == Given(p, "start", Unset)
            end == Given(p, "end", Unset)
            row == [state |-> "live", seats |-> seats, avail |-> avail, initial |-> initial,
                    stock |-> stock, prepared |-> prepared, start |-> start, end |-> end]
<1>1. /\ seats \in SUBSET Labels /\ avail \in SUBSET Labels
      /\ initial \in Nat \cup {Unset} /\ stock \in Nat \cup {Unset}
      /\ prepared \in BOOLEAN
      /\ start \in Time \cup {Unset} /\ end \in Time \cup {Unset}
  BY DEF IsPatch, Given
<1>2. BuildItem(p) = Normalise(row)
  BY DEF BuildItem
<1>3. (PoolFields \ {"seats"}) \cap DOMAIN p = {} =>
        avail = seats /\ initial = Unset /\ stock = Unset
  BY DEF Given, PoolFields
<1>. HIDE DEF seats, avail, initial, stock, prepared, start, end
<1>4. row \in ItemRows /\ row.state = "live"
  BY <1>1 DEF ItemRows
<1>5. BuildItem(p) \in ItemRows /\ BuildItem(p).state = "live"
  <2>. HIDE DEF row
  <2>. QED BY <1>2, <1>4, NormaliseTypes
<1>6. ASSUME avail = seats, initial = Unset, stock = Unset
      PROVE  Pool(Normalise(row), {}, 0)
  <2>. DEFINE n == Cardinality(seats)
  <2>1. n \in Nat
    BY <1>1, LabelSetsAreCounted
  <2>2. CASE seats # {}
    <3>1. Normalise(row) = [row EXCEPT !.initial = n, !.stock = n]
      BY <1>6, <2>2 DEF Normalise
    <3>2. /\ Normalise(row).seats = seats /\ Normalise(row).avail = seats
          /\ Normalise(row).stock = n
      BY <1>6, <3>1
    <3>. QED BY <2>2, <3>2 DEF Pool
  <2>3. CASE seats = {}
    <3>1. Normalise(row) = [row EXCEPT !.initial = Unset, !.stock = Unset]
      BY <1>6, <2>3 DEF Normalise
    <3>. QED BY <1>6, <2>3, <3>1 DEF Pool
  <2>. QED BY <2>2, <2>3
<1>. HIDE DEF row
<1>. QED BY <1>2, <1>3, <1>5, <1>6

(* prepareStock offers all labels anew: sound while nobody holds any.      *)
LEMMA PreparedItem ==
  ASSUME NEW it \in ItemRows, NEW p, IsPatch(p), Given(p, "initial", 0) # Unset
  PROVE  /\ PrepareItem(it, p) \in ItemRows
         /\ PrepareItem(it, p).state = it.state /\ PrepareItem(it, p).end = it.end
         /\ Pool(it, {}, 0) /\ "initial" \notin DOMAIN p => Pool(PrepareItem(it, p), {}, 0)
<1>. DEFINE sent    == Given(p, "avail", {})
            labels  == IF sent # {} THEN sent ELSE it.seats
            known   == IF it.initial # Unset THEN it.initial ELSE Cardinality(labels)
            initial == Given(p, "initial", known)
            avail   == IF labels = {} THEN it.avail ELSE labels
            stock   == IF labels = {} THEN initial ELSE Cardinality(labels)
            row     == [it EXCEPT !.seats = labels, !.avail = avail, !.stock = stock,
                                  !.initial = initial, !.prepared = TRUE]
<1>1. labels \in SUBSET Labels
  BY DEF IsPatch, Given, ItemRows
<1>2. Cardinality(labels) \in Nat
  BY <1>1, LabelSetsAreCounted
<1>3. known \in Nat
  BY <1>2 DEF ItemRows
<1>4. initial \in Nat
  BY <1>3 DEF IsPatch, Given
<1>5. avail \in SUBSET Labels /\ stock \in Nat
  BY <1>1, <1>2, <1>4 DEF ItemRows
<1>6. PrepareItem(it, p) = Normalise(row)
  BY DEF PrepareItem
<1>7. /\ row \in ItemRows /\ row.state = it.state /\ row.end = it.end
      /\ row.seats = labels /\ row.avail = avail /\ row.stock = stock /\ row.initial = initial
  <2>. HIDE DEF labels, avail, stock, initial
  <2>. QED BY <1>1, <1>4, <1>5 DEF ItemRows
<1>8. ASSUME Pool(it, {}, 0) PROVE labels = {} => avail = {}
  BY <1>8 DEF Pool
<1>9. ASSUME Pool(it, {}, 0) PROVE Pool(row, {}, 0)
  <2>1. labels # {} => avail = labels /\ stock = Cardinality(labels)
    OBVIOUS
  <2>2. labels = {} => stock = initial
    OBVIOUS
  <2>. HIDE DEF row, labels, avail, stock, initial
  <2>. QED BY <1>4, <1>7, <1>8, <1>9, <2>1, <2>2 DEF Pool
<1>. HIDE DEF row
<1>. QED BY <1>6, <1>7, <1>9, NormaliseTypes, NormalisePool

-----------------------------------------------------------------------------
(* What a call does to the calls and to the lock.                          *)

LEMMA InitInventoryInv == InitInventory => InventoryInv
<1> SUFFICES ASSUME InitInventory PROVE InventoryInv
  OBVIOUS
<1>. PICK s \in Starts : ticket = s.ticket /\ item = s.item /\ quota = s.quota
  BY DEF InitInventory
<1>1. IsStart(s)
  BY InventoryAssumption
<1>2. /\ lock = Unset /\ clock = 0 /\ rewritten = {}
      /\ call = [c \in Callers |-> Idle]
      /\ held = [i \in Items |-> {}] /\ out = [i \in Items |-> 0]
      /\ closed = [i \in Items |-> Unset]
  BY DEF InitInventory
<1>3. \A c \in Callers : call[c].stage = "idle" /\ call[c] = Idle
  BY <1>2 DEF Idle
<1>4. InventoryTypeOK
  BY <1>1, <1>2, <1>3, InventoryAssumption DEF InventoryTypeOK, IsStart, Statuses, Time
<1>5. CallsKnown
  BY <1>1, <1>2, <1>3 DEF CallsKnown, IsStart, Idle, IsCall
<1>6. LockHeld
  BY <1>3 DEF LockHeld
<1>7. PoolsSound
  <2> SUFFICES ASSUME NEW i \in Items
               PROVE  /\ Dated(item[i], held[i], out[i], closed[i])
                      /\ item[i].state # "absent" => Pool(item[i], held[i], out[i])
    BY DEF PoolsSound
  <2>1. held[i] = {} /\ out[i] = 0 /\ closed[i] = Unset
    BY <1>2
  <2>2. item[i] \in ItemRows
    BY <1>1 DEF IsStart
  <2>3. ASSUME item[i].state # "absent" PROVE Pool(item[i], {}, 0)
    <3>1. /\ item[i].avail = item[i].seats
          /\ item[i].seats # {} => item[i].stock = Cardinality(item[i].seats)
          /\ item[i].seats = {} /\ item[i].initial # Unset => item[i].stock = item[i].initial
      BY <1>1, <2>3 DEF IsStart
    <3>2. item[i].initial # Unset => item[i].initial \in Nat
      BY <2>2 DEF ItemRows
    <3>. QED BY <3>1, <3>2 DEF Pool
  <2>. QED BY <2>1, <2>3 DEF Dated
<1>. QED BY <1>4, <1>5, <1>6, <1>7 DEF InventoryInv

(* A call that ends gives the lock back.  Whoever else has read the rows   *)
(* would hold the lock: if this call holds it or nobody does, the rows may *)
(* change under no one.                                                    *)
LEMMA CallEnded ==
  ASSUME InventoryInv, NEW c \in Callers, Finish(c), quota' = quota,
         lock \in {c, Unset} \/ item' = item
  PROVE  /\ CallsKnown' /\ LockHeld' /\ lock' \in Callers \cup {Unset}
         /\ \A d \in Callers :
              call'[d].stage \in {"idle", "check", "apply", "lock", "read", "write"}
<1>1. /\ call' = [call EXCEPT ![c] = Idle]
      /\ lock' = IF lock = c THEN Unset ELSE lock
  BY DEF Finish
<1>2. call = [d \in Callers |-> call[d]]
  BY DEF InventoryInv, CallsKnown
<1>3. call'[c] = Idle /\ \A d \in Callers \ {c} : call'[d] = call[d]
  BY <1>1, <1>2
<1>4. CallsKnown'
  BY <1>1, <1>2, <1>3 DEF InventoryInv, CallsKnown, Idle, IsCall
<1>5. LockHeld'
  BY <1>1, <1>3, InventoryAssumption DEF InventoryInv, LockHeld, Idle
<1>6. lock' \in Callers \cup {Unset}
  BY <1>1 DEF InventoryInv, InventoryTypeOK
<1>7. \A d \in Callers :
        call'[d].stage \in {"idle", "check", "apply", "lock", "read", "write"}
  BY <1>3 DEF InventoryInv, InventoryTypeOK, Idle
<1>. QED BY <1>4, <1>5, <1>6, <1>7

(* A step that touches calls, lock, time and ticket only.                  *)
LEMMA RowsUntouched ==
  ASSUME InventoryInv, CallsKnown', LockHeld', lock' \in Callers \cup {Unset},
         \A d \in Callers :
           call'[d].stage \in {"idle", "check", "apply", "lock", "read", "write"},
         ticket' \in [state: {"none", "live", "deleted"}, status: Statuses],
         clock' \in Time, UNCHANGED <<item, history>>
  PROVE  InventoryInv'
  BY DEF InventoryInv, InventoryTypeOK, PoolsSound, history, Statuses

(* A commit is made under the lock, on the rows as they are.               *)
LEMMA CommitFacts ==
  ASSUME InventoryInv, NEW c \in Callers, NEW op, Commits(c, op)
  PROVE  /\ lock = c /\ call[c].seen = item
         /\ call[c].req.op = op /\ IsRequest(call[c].req)
         /\ Accepts(call[c].req, item)
         /\ op \in ItemOps => /\ call[c].req.i \in Items
                              /\ item[call[c].req.i] \in ItemRows
                              /\ item[call[c].req.i].state = "live"
<1>1. lock = c /\ call[c].seen = item
  BY DEF InventoryInv, LockHeld, Commits
<1>2. call[c].req.op = op /\ IsRequest(call[c].req) /\ Accepts(call[c].req, item)
  BY <1>1 DEF InventoryInv, CallsKnown, Commits
<1>3. op \in ItemOps => call[c].req.i \in Active(item)
  BY <1>2 DEF Accepts
<1>. QED BY <1>1, <1>2, <1>3 DEF Active, InventoryInv, InventoryTypeOK

-----------------------------------------------------------------------------
(* The effect of a write on the rows.                                      *)

(* Each row stays as it was, or what is written is sound.                  *)
LEMMA RowsWritten ==
  ASSUME InventoryInv, CallsKnown', LockHeld', lock' \in Callers \cup {Unset},
         \A d \in Callers :
           call'[d].stage \in {"idle", "check", "apply", "lock", "read", "write"},
         ticket' = ticket, clock' = clock,
         item' \in [Items -> ItemRows], held' \in [Items -> SUBSET Labels],
         out' \in [Items -> Int], rewritten' \subseteq Items,
         closed' \in [Items -> Time \cup {Unset}],
         \A i \in Items :
           \/ /\ item'[i] = item[i] /\ held'[i] = held[i] /\ out'[i] = out[i]
              /\ closed'[i] = closed[i] /\ (i \in rewritten => i \in rewritten')
           \/ /\ item'[i].state # "absent"
              /\ closed'[i] # Unset => item'[i].end = closed'[i]
              /\ i \notin rewritten' => Pool(item'[i], held'[i], out'[i])
  PROVE  InventoryInv'
<1>1. InventoryTypeOK'
  BY DEF InventoryInv, InventoryTypeOK
<1>2. ASSUME NEW i \in Items
      PROVE  /\ Dated(item'[i], held'[i], out'[i], closed'[i])
             /\ i \notin rewritten' /\ item'[i].state # "absent" =>
                  Pool(item'[i], held'[i], out'[i])
  <2>1. /\ Dated(item[i], held[i], out[i], closed[i])
        /\ i \notin rewritten /\ item[i].state # "absent" => Pool(item[i], held[i], out[i])
    BY DEF InventoryInv, PoolsSound
  <2>2. CASE /\ item'[i] = item[i] /\ held'[i] = held[i] /\ out'[i] = out[i]
             /\ closed'[i] = closed[i] /\ (i \in rewritten => i \in rewritten')
    BY <2>1, <2>2
  <2>3. CASE /\ item'[i].state # "absent"
             /\ closed'[i] # Unset => item'[i].end = closed'[i]
             /\ i \notin rewritten' => Pool(item'[i], held'[i], out'[i])
    BY <2>3 DEF Dated
  <2>. QED BY <2>2, <2>3
<1>3. PoolsSound'
  BY <1>2 DEF PoolsSound
<1>. QED BY <1>1, <1>3 DEF InventoryInv

(* One row written, by the call that has just committed; who holds what    *)
(* changes for that item only.                                             *)
LEMMA RowWritten ==
  ASSUME InventoryInv, CallsKnown', LockHeld', lock' \in Callers \cup {Unset},
         \A d \in Callers :
           call'[d].stage \in {"idle", "check", "apply", "lock", "read", "write"},
         ticket' = ticket, clock' = clock,
         NEW i \in Items, NEW row \in ItemRows, row.state # "absent",
         item' = [item EXCEPT ![i] = row],
         NEW h \in SUBSET Labels, held' = [held EXCEPT ![i] = h],
         NEW o \in Int, out' = [out EXCEPT ![i] = o],
         rewritten' \subseteq Items, rewritten \subseteq rewritten',
         closed' \in [Items -> Time \cup {Unset}],
         \A j \in Items \ {i} : closed'[j] = closed[j],
         closed'[i] # Unset => row.end = closed'[i],
         i \notin rewritten' => Pool(row, h, o)
  PROVE  InventoryInv'
<1>1. /\ item \in [Items -> ItemRows] /\ held \in [Items -> SUBSET Labels]
      /\ out \in [Items -> Int]
  BY DEF InventoryInv, InventoryTypeOK
<1>2. /\ item' \in [Items -> ItemRows] /\ held' \in [Items -> SUBSET Labels]
      /\ out' \in [Items -> Int]
      /\ item'[i] = row /\ held'[i] = h /\ out'[i] = o
      /\ \A j \in Items \ {i} : item'[j] = item[j] /\ held'[j] = held[j] /\ out'[j] = out[j]
  BY <1>1
<1>3. ASSUME NEW j \in Items
      PROVE  \/ /\ item'[j] = item[j] /\ held'[j] = held[j] /\ out'[j] = out[j]
                /\ closed'[j] = closed[j] /\ (j \in rewritten => j \in rewritten')
             \/ /\ item'[j].state # "absent"
                /\ closed'[j] # Unset => item'[j].end = closed'[j]
                /\ j \notin rewritten' => Pool(item'[j], held'[j], out'[j])
  <2>1. CASE j = i
    BY <1>2, <2>1
  <2>2. CASE j # i
    BY <1>2, <2>2
  <2>. QED BY <2>1, <2>2
<1>. QED BY <1>2, <1>3, RowsWritten

(* A pool no operator has dictated, of an item on sale.                    *)
LEMMA PoolNow ==
  ASSUME InventoryInv, NEW i \in Items, item[i].state = "live"
  PROVE  /\ item[i] \in ItemRows /\ held[i] \in SUBSET Labels /\ out[i] \in Int
         /\ closed[i] # Unset => item[i].end = closed[i]
         /\ i \notin rewritten => Pool(item[i], held[i], out[i])
  BY DEF InventoryInv, InventoryTypeOK, PoolsSound, Dated

LEMMA HistoryTypes ==
  ASSUME InventoryInv
  PROVE  /\ held \in [Items -> SUBSET Labels] /\ out \in [Items -> Int]
         /\ rewritten \subseteq Items /\ closed \in [Items -> Time \cup {Unset}]
         /\ clock \in Time
  BY DEF InventoryInv, InventoryTypeOK

(* A commit that writes the one row its request is about.                  *)
LEMMA CommitWritten ==
  ASSUME InventoryInv, NEW c \in Callers, lock = c, NEW i \in Items,
         NEW row \in ItemRows, row.state # "absent", Write(c, i, row),
         NEW h \in SUBSET Labels, held' = [held EXCEPT ![i] = h],
         NEW o \in Int, out' = [out EXCEPT ![i] = o],
         rewritten' \subseteq Items, rewritten \subseteq rewritten',
         closed' \in [Items -> Time \cup {Unset}],
         \A j \in Items \ {i} : closed'[j] = closed[j],
         closed'[i] # Unset => row.end = closed'[i],
         i \notin rewritten' => Pool(row, h, o)
  PROVE  InventoryInv'
<1>2. /\ item' = [item EXCEPT ![i] = row] /\ Finish(c)
      /\ ticket' = ticket /\ clock' = clock /\ quota' = quota
  BY DEF Write
<1>3. /\ CallsKnown' /\ LockHeld' /\ lock' \in Callers \cup {Unset}
      /\ \A d \in Callers :
           call'[d].stage \in {"idle", "check", "apply", "lock", "read", "write"}
  BY <1>2, CallEnded
<1>. QED BY <1>2, <1>3, RowWritten

-----------------------------------------------------------------------------
(* Sales and returns.                                                      *)

LEMMA ReserveStep ==
  ASSUME InventoryInv, NEW c \in Callers, Reserve(c)
  PROVE  InventoryInv'
<1>. DEFINE r == call[c].req
            i == r.i
            it == item[i]
            q == r.p.quantity
<1>1. Commits(c, "reserve")
  BY DEF Reserve
<1>2. /\ lock = c /\ call[c].seen = item /\ r.op = "reserve" /\ IsRequest(r)
      /\ Accepts(r, item) /\ i \in Items /\ it \in ItemRows /\ it.state = "live"
  BY <1>1, CommitFacts DEF ItemOps
<1>3. q \in Nat \ {0}
  BY <1>2 DEF IsRequest
<1>4. CanTakeCount(View(it), q)
  BY <1>2 DEF Accepts
<1>5. PICK S \in Allocations(View(it), q) :
        /\ Write(c, i, Stocked(it, TakeCount(View(it), q, S)))
        /\ held' = [held EXCEPT ![i] = @ \cup S]
        /\ out' = [out EXCEPT ![i] = @ + q - Cardinality(S)]
  BY <1>2 DEF Reserve
<1>6. rewritten' = rewritten /\ closed' = closed
  BY DEF Reserve
<1>. DEFINE v == TakeCount(View(it), q, S)
            row == Stocked(it, v)
            h == held[i] \cup S
            o == out[i] + q - Cardinality(S)
<1>7. v \in ItemType(Labels) /\ S \in SUBSET Labels
  BY <1>2, <1>3, ViewTypes, StockTypes, InventoryAssumption
<1>8. v.stock \in Nat /\ v.avail \in SUBSET Labels
  <2>1. v.stock = View(it).stock - q /\ View(it).stock >= q
    BY <1>2, <1>4, ViewTypes DEF TakeCount, CanTakeCount, Free, ItemType
  <2>2. View(it).stock \in Nat
    BY <1>2, ViewTypes
  <2>3. v.avail \in SUBSET Labels
    BY <1>7 DEF ItemType
  <2>. HIDE DEF v
  <2>. QED BY <1>3, <2>1, <2>2, <2>3
<1>9. row \in ItemRows /\ row.state = "live" /\ row.end = it.end
  <2>. HIDE DEF v
  <2>. QED BY <1>2, <1>8, StockedTypes
<1>10. /\ held[i] \in SUBSET Labels /\ out[i] \in Int
       /\ closed[i] # Unset => it.end = closed[i]
       /\ i \notin rewritten => Pool(it, held[i], out[i])
  BY <1>2, PoolNow
<1>11. h \in SUBSET Labels /\ o \in Int
  <2>1. Cardinality(S) \in Nat
    BY <1>7, LabelSetsAreCounted
  <2>. QED BY <1>3, <1>7, <1>10, <2>1
<1>12. i \notin rewritten => Pool(row, h, o)
  BY <1>2, <1>3, <1>4, <1>10, CountSold
<1>13. held' = [held EXCEPT ![i] = h] /\ out' = [out EXCEPT ![i] = o]
  BY <1>5
<1>14. closed' \in [Items -> Time \cup {Unset}] /\ rewritten' \subseteq Items
  BY <1>6, HistoryTypes
<1>15. closed'[i] # Unset => row.end = closed'[i]
  BY <1>6, <1>9, <1>10
<1>16. Write(c, i, row) /\ lock = c /\ i \in Items
  BY <1>2, <1>5
<1>. HIDE DEF row, h, o
<1>. QED BY <1>6, <1>9, <1>11, <1>12, <1>13, <1>14, <1>15, <1>16, CommitWritten

(* A sale or a return of one label.                                        *)
LEMMA ReserveSeatStep ==
  ASSUME InventoryInv, NEW c \in Callers, ReserveSeat(c)
  PROVE  InventoryInv'
<1>. DEFINE r == call[c].req
            i == r.i
            it == item[i]
            l == r.p.label
            v == TakeSeat(View(it), l)
            row == Stocked(it, v)
            h == held[i] \cup {l}
            o == out[i]
<1>1. Commits(c, "reserveSeat") /\ "reserveSeat" \in ItemOps
  BY DEF ReserveSeat, ItemOps
<1>2. /\ lock = c /\ call[c].seen = item /\ r.op = "reserveSeat" /\ IsRequest(r)
      /\ Accepts(r, item) /\ i \in Items /\ it \in ItemRows /\ it.state = "live"
  BY <1>1, CommitFacts
<1>3. l \in Labels /\ CanTakeSeat(View(it), l)
  BY <1>2 DEF IsRequest, Accepts
<1>4. Write(c, i, row) /\ held' = [held EXCEPT ![i] = h]
  BY <1>2 DEF ReserveSeat
<1>5. rewritten' = rewritten /\ closed' = closed /\ out' = out
  BY DEF ReserveSeat
<1>6. v.stock \in Nat /\ v.avail \in SUBSET Labels
  <2>1. v \in ItemType(Labels)
    BY <1>2, <1>3, ViewTypes, StockTypes, InventoryAssumption
  <2>2. v.stock = View(it).stock - 1 /\ View(it).stock >= 1 /\ View(it).stock \in Nat
    BY <1>2, <1>3, ViewTypes DEF TakeSeat, CanTakeSeat, Free, ItemType
  <2>. HIDE DEF v
  <2>. QED BY <2>1, <2>2 DEF ItemType
<1>7. row \in ItemRows /\ row.state = "live" /\ row.end = it.end
  <2>. HIDE DEF v
  <2>. QED BY <1>2, <1>6, StockedTypes
<1>8. /\ held[i] \in SUBSET Labels /\ o \in Int
      /\ closed[i] # Unset => it.end = closed[i]
      /\ i \notin rewritten => Pool(it, held[i], o)
  BY <1>2, PoolNow
<1>9. h \in SUBSET Labels
  BY <1>3, <1>8
<1>10. i \notin rewritten => Pool(row, h, o)
  BY <1>2, <1>3, <1>8, SeatSold
<1>11. closed' \in [Items -> Time \cup {Unset}] /\ rewritten' \subseteq Items
  BY <1>5, HistoryTypes
<1>12. out' = [out EXCEPT ![i] = o]
  BY <1>2, <1>5, HistoryTypes
<1>13. closed'[i] # Unset => row.end = closed'[i]
  BY <1>5, <1>7, <1>8
<1>14. /\ lock = c /\ i \in Items /\ row \in ItemRows /\ row.state # "absent"
       /\ i \notin rewritten' => Pool(row, h, o)
       /\ rewritten \subseteq rewritten' /\ o \in Int
       /\ \A j \in Items \ {i} : closed'[j] = closed[j]
  BY <1>2, <1>5, <1>7, <1>8, <1>10
<1>. HIDE DEF row, h, o, it, l, v, i, r
<1>. QED BY <1>4, <1>9, <1>11, <1>12, <1>13, <1>14, CommitWritten

LEMMA ReleaseStep ==
  ASSUME InventoryInv, NEW c \in Callers, Release(c)
  PROVE  InventoryInv'
<1>. DEFINE r == call[c].req
            i == r.i
            it == item[i]
            q == r.p.quantity
            v == ReturnCount(View(it), q)
            row == Stocked(it, v)
            h == held[i]
            o == IF it.seats = {} THEN out[i] - q ELSE out[i]
<1>1. Commits(c, "release") /\ "release" \in ItemOps
  BY DEF Release, ItemOps
<1>2. /\ lock = c /\ call[c].seen = item /\ r.op = "release" /\ IsRequest(r)
      /\ i \in Items /\ it \in ItemRows /\ it.state = "live"
  BY <1>1, CommitFacts
<1>3. q \in Nat \ {0}
  BY <1>2 DEF IsRequest
<1>4. Write(c, i, row) /\ out' = [out EXCEPT ![i] = o]
  BY <1>2 DEF Release
<1>5. rewritten' = rewritten /\ closed' = closed /\ held' = held
  BY DEF Release
<1>6. v.stock \in Nat /\ v.avail \in SUBSET Labels
  BY <1>2, <1>3, ReturnedView
<1>7. row \in ItemRows /\ row.state = "live" /\ row.end = it.end
  <2>. HIDE DEF v
  <2>. QED BY <1>2, <1>6, StockedTypes
<1>8. /\ h \in SUBSET Labels /\ out[i] \in Int
      /\ closed[i] # Unset => it.end = closed[i]
      /\ i \notin rewritten => Pool(it, h, out[i])
  BY <1>2, PoolNow
<1>9. o \in Int
  BY <1>3, <1>8
<1>10. i \notin rewritten => Pool(row, h, o)
  BY <1>2, <1>3, <1>8, CountReturned
<1>11. closed' \in [Items -> Time \cup {Unset}] /\ rewritten' \subseteq Items
  BY <1>5, HistoryTypes
<1>12. held' = [held EXCEPT ![i] = h]
  BY <1>2, <1>5, HistoryTypes
<1>13. closed'[i] # Unset => row.end = closed'[i]
  BY <1>5, <1>7, <1>8
<1>. HIDE DEF row, h, o
<1>. QED BY <1>2, <1>4, <1>5, <1>7, <1>8, <1>9, <1>10, <1>11, <1>12, <1>13, CommitWritten

(* One label of a release; the request goes on with the labels that are    *)
(* left, and waits for the lock again.                                     *)
LEMMA LabelsLeft ==
  ASSUME NEW s \in Seq(Labels), s # <<>>
  PROVE  /\ Head(s) \in Labels /\ Len(s) \in Nat
         /\ Len(s) # 1 => Tail(s) \in Seq(Labels) /\ Tail(s) # <<>>
<1>1. Len(s) \in Nat /\ Len(s) # 0 /\ Head(s) \in Labels
  BY EmptySeq, HeadTailProperties
<1>2. Tail(s) \in Seq(Labels) /\ Len(Tail(s)) = Len(s) - 1
  BY HeadTailProperties
<1>3. Len(s) # 1 => Tail(s) # <<>>
  BY <1>1, <1>2, EmptySeq
<1>. QED BY <1>1, <1>2, <1>3

LEMMA ReleaseSeatCalls ==
  ASSUME InventoryInv, NEW c \in Callers, ReleaseSeat(c)
  PROVE  /\ CallsKnown' /\ LockHeld' /\ lock' \in Callers \cup {Unset}
         /\ \A d \in Callers :
              call'[d].stage \in {"idle", "check", "apply", "lock", "read", "write"}
<1>. DEFINE r == call[c].req
            next == [op |-> r.op, i |-> r.i, p |-> [labels |-> Tail(r.p.labels)]]
            again == [stage |-> "lock", seen |-> Unset, req |-> next]
<1>1. Commits(c, "releaseSeat") /\ quota' = quota
  BY DEF ReleaseSeat
<1>2. lock = c /\ r.op = "releaseSeat" /\ IsRequest(r) /\ r.op \in LockedOps
  BY <1>1, CommitFacts DEF LockedOps, ItemOps
<1>3. r.p.labels \in Seq(Labels) /\ r.p.labels # <<>>
  BY <1>2 DEF IsRequest
<1>4. CASE Len(r.p.labels) = 1
  BY <1>1, <1>2, <1>4, CallEnded DEF ReleaseSeat
<1>5. CASE Len(r.p.labels) # 1
  <2>1. call' = [call EXCEPT ![c] = again] /\ lock' = Unset
    BY <1>5 DEF ReleaseSeat
  <2>2. IsRequest(next) /\ next.op \in LockedOps
    <3>1. /\ next.op = "releaseSeat" /\ next.i = r.i /\ next.p.labels = Tail(r.p.labels)
      BY <1>2
    <3>2. next.p.labels \in Seq(Labels) /\ next.p.labels # <<>>
      BY <1>3, <1>5, <3>1, LabelsLeft
    <3>. HIDE DEF next
    <3>. QED BY <1>2, <3>1, <3>2 DEF IsRequest, LockedOps, ItemOps
  <2>. HIDE DEF next
  <2>3. again.stage = "lock" /\ again.req = next
    OBVIOUS
  <2>4. IsCall(again)
    BY DEF IsCall
  <2>. HIDE DEF again
  <2>5. call'[c] = again /\ \A d \in Callers \ {c} : call'[d] = call[d]
    BY <2>1 DEF InventoryInv, CallsKnown
  <2>6. call' = [d \in Callers |-> call'[d]]
    BY <2>1 DEF InventoryInv, CallsKnown
  <2>7. CallsKnown'
    <3>1. ASSUME NEW d \in Callers
          PROVE  /\ IsCall(call'[d])
                 /\ call'[d].stage # "idle" => IsRequest(call'[d].req)
                 /\ call'[d].stage \in {"lock", "read", "write"} =>
                      call'[d].req.op \in LockedOps
      <4>1. CASE d = c
        BY <2>2, <2>3, <2>4, <2>5, <4>1
      <4>2. CASE d # c
        BY <2>5, <4>2 DEF InventoryInv, CallsKnown
      <4>. QED BY <4>1, <4>2
    <3>2. \A x \in quota' : IsRequest(x)
      BY <1>1 DEF InventoryInv, CallsKnown
    <3>. QED BY <2>6, <3>1, <3>2 DEF CallsKnown
  <2>8. LockHeld'
    BY <1>2, <2>1, <2>3, <2>5, InventoryAssumption DEF InventoryInv, LockHeld
  <2>9. \A d \in Callers :
          call'[d].stage \in {"idle", "check", "apply", "lock", "read", "write"}
    BY <2>3, <2>5 DEF InventoryInv, InventoryTypeOK
  <2>. QED BY <2>1, <2>7, <2>8, <2>9
<1>. QED BY <1>4, <1>5

LEMMA ReleaseSeatStep ==
  ASSUME InventoryInv, NEW c \in Callers, ReleaseSeat(c)
  PROVE  InventoryInv'
<1>. DEFINE r == call[c].req
            i == r.i
            it == item[i]
            l == Head(r.p.labels)
            v == ReturnSeat(View(it), l)
            row == Stocked(it, v)
            h == held[i] \ {l}
            o == out[i]
<1>1. Commits(c, "releaseSeat") /\ "releaseSeat" \in ItemOps
  BY DEF ReleaseSeat, ItemOps
<1>2. /\ lock = c /\ call[c].seen = item /\ r.op = "releaseSeat" /\ IsRequest(r)
      /\ Accepts(r, item) /\ i \in Items /\ it \in ItemRows /\ it.state = "live"
  BY <1>1, CommitFacts
<1>3. l \in Labels /\ CanReturnSeat(View(it), l)
  BY <1>2, LabelsLeft DEF IsRequest, Accepts
<1>4. item' = [item EXCEPT ![i] = row] /\ held' = [held EXCEPT ![i] = h]
  BY <1>2 DEF ReleaseSeat
<1>5. /\ rewritten' = rewritten /\ closed' = closed /\ out' = out
      /\ ticket' = ticket /\ clock' = clock
  BY DEF ReleaseSeat
<1>6. v.stock \in Nat /\ v.avail \in SUBSET Labels
  <2>1. v \in ItemType(Labels)
    BY <1>2, <1>3, ViewTypes, StockTypes, InventoryAssumption
  <2>2. v.stock = View(it).stock + 1 /\ View(it).stock \in Nat
    BY <1>2, <1>3, ViewTypes DEF ReturnSeat, Free, ItemType
  <2>. HIDE DEF v
  <2>. QED BY <2>1, <2>2 DEF ItemType
<1>7. row \in ItemRows /\ row.state # "absent" /\ row.end = it.end
  <2>. HIDE DEF v
  <2>. QED BY <1>2, <1>6, StockedTypes
<1>8. /\ held[i] \in SUBSET Labels /\ o \in Int
      /\ closed[i] # Unset => it.end = closed[i]
      /\ i \notin rewritten => Pool(it, held[i], o)
  BY <1>2, PoolNow
<1>9. h \in SUBSET Labels /\ o \in Int
  BY <1>8
<1>10. i \notin rewritten' => Pool(row, h, o)
  BY <1>2, <1>3, <1>5, <1>8, SeatReturned
<1>11. /\ closed' \in [Items -> Time \cup {Unset}]
       /\ rewritten' \subseteq Items /\ rewritten \subseteq rewritten'
       /\ \A j \in Items \ {i} : closed'[j] = closed[j]
  BY <1>5, HistoryTypes
<1>12. out' = [out EXCEPT ![i] = o]
  BY <1>2, <1>5, HistoryTypes
<1>13. closed'[i] # Unset => row.end = closed'[i]
  BY <1>5, <1>7, <1>8
<1>14. /\ CallsKnown' /\ LockHeld' /\ lock' \in Callers \cup {Unset}
       /\ \A d \in Callers :
            call'[d].stage \in {"idle", "check", "apply", "lock", "read", "write"}
  BY ReleaseSeatCalls
<1>15. i \in Items /\ ticket' = ticket /\ clock' = clock
  BY <1>2, <1>5
<1>. HIDE DEF row, h, o, it, l, v, i, r
<1>16. row \in ItemRows /\ row.state # "absent"
  BY <1>7
<1>. QED BY <1>4, <1>9, <1>10, <1>11, <1>12, <1>13, <1>14, <1>15, <1>16, RowWritten

-----------------------------------------------------------------------------
(* Operators' calls under the row lock.                                    *)

(* Whoever sets an end of sale reopens the item.                           *)
LEMMA ReopenedTypes ==
  ASSUME InventoryInv, NEW targets, NEW p, Reopened(targets, p)
  PROVE  /\ closed' \in [Items -> Time \cup {Unset}]
         /\ \A j \in Items \ targets : closed'[j] = closed[j]
         /\ \A j \in Items : /\ "end" \in DOMAIN p /\ j \in targets => closed'[j] = Unset
                             /\ "end" \notin DOMAIN p => closed'[j] = closed[j]
  BY HistoryTypes DEF Reopened

(* A commit of an operator on one item: nobody's holdings change.          *)
LEMMA CommandWritten ==
  ASSUME InventoryInv, NEW c \in Callers, lock = c, NEW i \in Items,
         NEW row \in ItemRows, row.state # "absent", Write(c, i, row),
         UNCHANGED <<held, out>>,
         rewritten' \subseteq Items, rewritten \subseteq rewritten',
         closed' \in [Items -> Time \cup {Unset}],
         \A j \in Items \ {i} : closed'[j] = closed[j],
         closed'[i] # Unset => row.end = closed'[i],
         i \notin rewritten' => Pool(row, held[i], out[i])
  PROVE  InventoryInv'
<1>2. held[i] \in SUBSET Labels /\ out[i] \in Int
  BY HistoryTypes
<1>. DEFINE h == held[i]
            o == out[i]
<1>3. held' = [held EXCEPT ![i] = h] /\ out' = [out EXCEPT ![i] = o]
  BY HistoryTypes
<1>4. h \in SUBSET Labels /\ o \in Int /\ (i \notin rewritten' => Pool(row, h, o))
  BY <1>2
<1>5. /\ item' = [item EXCEPT ![i] = row] /\ Finish(c)
      /\ ticket' = ticket /\ clock' = clock /\ quota' = quota
  BY DEF Write
<1>6. /\ CallsKnown' /\ LockHeld' /\ lock' \in Callers \cup {Unset}
      /\ \A d \in Callers :
           call'[d].stage \in {"idle", "check", "apply", "lock", "read", "write"}
  BY <1>5, CallEnded
<1>. HIDE DEF h, o
<1>. QED BY <1>3, <1>4, <1>5, <1>6, RowWritten

LEMMA UpdateTicketItemStep ==
  ASSUME InventoryInv, NEW c \in Callers, UpdateTicketItem(c)
  PROVE  InventoryInv'
<1>. DEFINE r == call[c].req
            i == r.i
            it == item[i]
            new == Merge(it, r.p)
            row == Normalise(new)
<1>1. Commits(c, "updateItem") /\ "updateItem" \in ItemOps
  BY DEF UpdateTicketItem, ItemOps
<1>2. /\ lock = c /\ call[c].seen = item /\ r.op = "updateItem" /\ IsRequest(r)
      /\ i \in Items /\ it \in ItemRows /\ it.state = "live"
  BY <1>1, CommitFacts
<1>3. IsPatch(r.p)
  BY <1>2 DEF IsRequest
<1>4. new \in ItemRows /\ new.state = "live"
  BY <1>2, <1>3, MergeTypes
<1>5. row \in ItemRows /\ row.state = "live" /\ row.end = new.end
  <2>. HIDE DEF new
  <2>. QED BY <1>4, NormaliseTypes
<1>6. "end" \notin DOMAIN r.p => new.end = it.end
  BY DEF Merge, Given
<1>7. Write(c, i, row) /\ Reopened({i}, r.p) /\ UNCHANGED <<held, out>>
  BY <1>2 DEF UpdateTicketItem
<1>8. rewritten' = IF PoolFields \cap DOMAIN r.p # {} THEN rewritten \cup {i} ELSE rewritten
  BY DEF UpdateTicketItem
<1>9. /\ closed[i] # Unset => it.end = closed[i]
      /\ i \notin rewritten => Pool(it, held[i], out[i])
  BY <1>2, PoolNow
<1>10. ASSUME i \notin rewritten' PROVE Pool(row, held[i], out[i])
  <2>1. PoolFields \cap DOMAIN r.p = {} /\ i \notin rewritten
    BY <1>8, <1>10
  <2>2. Pool(new, held[i], out[i])
    BY <1>2, <1>9, <2>1, MergePool
  <2>. HIDE DEF new
  <2>. QED BY <1>4, <2>2, NormalisePool
<1>11. /\ closed' \in [Items -> Time \cup {Unset}]
       /\ \A j \in Items \ {i} : closed'[j] = closed[j]
       /\ "end" \in DOMAIN r.p => closed'[i] = Unset
       /\ "end" \notin DOMAIN r.p => closed'[i] = closed[i]
  BY <1>2, <1>7, ReopenedTypes
<1>12. closed'[i] # Unset => row.end = closed'[i]
  BY <1>5, <1>6, <1>9, <1>11
<1>13. rewritten' \subseteq Items /\ rewritten \subseteq rewritten'
  BY <1>2, <1>8, HistoryTypes
<1>14. row \in ItemRows /\ row.state # "absent"
  BY <1>5
<1>. HIDE DEF row, new, it, i, r
<1>. QED BY <1>2, <1>7, <1>10, <1>11, <1>12, <1>13, <1>14, CommandWritten

LEMMA ChangeSaleWindowStep ==
  ASSUME InventoryInv, NEW c \in Callers, ChangeSaleWindow(c)
  PROVE  InventoryInv'
<1>. DEFINE r == call[c].req
            i == r.i
            it == item[i]
            row == Merge(it, r.p)
<1>1. Commits(c, "window") /\ "window" \in ItemOps
  BY DEF ChangeSaleWindow, ItemOps
<1>2. /\ lock = c /\ call[c].seen = item /\ r.op = "window" /\ IsRequest(r)
      /\ i \in Items /\ it \in ItemRows /\ it.state = "live"
  BY <1>1, CommitFacts
<1>3. IsPatch(r.p) /\ PoolFields \cap DOMAIN r.p = {}
  BY <1>2 DEF IsRequest, PoolFields
<1>4. row \in ItemRows /\ row.state = "live"
  BY <1>2, <1>3, MergeTypes
<1>5. "end" \notin DOMAIN r.p => row.end = it.end
  BY DEF Merge, Given
<1>6. /\ Write(c, i, row) /\ Reopened({i}, r.p) /\ UNCHANGED <<held, out>>
      /\ rewritten' = rewritten
  BY <1>2 DEF ChangeSaleWindow
<1>7. /\ closed[i] # Unset => it.end = closed[i]
      /\ i \notin rewritten => Pool(it, held[i], out[i])
  BY <1>2, PoolNow
<1>8. i \notin rewritten' => Pool(row, held[i], out[i])
  BY <1>2, <1>3, <1>6, <1>7, MergePool
<1>9. /\ closed' \in [Items -> Time \cup {Unset}]
      /\ \A j \in Items \ {i} : closed'[j] = closed[j]
      /\ "end" \in DOMAIN r.p => closed'[i] = Unset
      /\ "end" \notin DOMAIN r.p => closed'[i] = closed[i]
  BY <1>2, <1>6, ReopenedTypes
<1>10. closed'[i] # Unset => row.end = closed'[i]
  BY <1>5, <1>7, <1>9
<1>11. rewritten' \subseteq Items /\ rewritten \subseteq rewritten'
  BY <1>6, HistoryTypes
<1>12. row \in ItemRows /\ row.state # "absent"
  BY <1>4
<1>. HIDE DEF row, it, i, r
<1>. QED BY <1>2, <1>6, <1>8, <1>9, <1>10, <1>11, <1>12, CommandWritten

LEMMA RemoveTicketItemStep ==
  ASSUME InventoryInv, NEW c \in Callers, RemoveTicketItem(c)
  PROVE  InventoryInv'
<1>. DEFINE i == call[c].req.i
            it == item[i]
            row == [it EXCEPT !.state = "deleted"]
<1>1. Commits(c, "removeItem") /\ "removeItem" \in ItemOps
  BY DEF RemoveTicketItem, ItemOps
<1>2. lock = c /\ call[c].seen = item /\ i \in Items /\ it \in ItemRows /\ it.state = "live"
  BY <1>1, CommitFacts
<1>3. row \in ItemRows /\ row.state # "absent"
  BY <1>2 DEF ItemRows
<1>4. /\ row.seats = it.seats /\ row.avail = it.avail /\ row.stock = it.stock
      /\ row.initial = it.initial /\ row.end = it.end
  BY <1>2 DEF ItemRows
<1>5. Write(c, i, row)
  BY <1>2 DEF RemoveTicketItem
<1>6. /\ UNCHANGED <<held, out>> /\ rewritten' = rewritten /\ closed' = closed
  BY DEF RemoveTicketItem, history
<1>7. /\ closed[i] # Unset => it.end = closed[i]
      /\ i \notin rewritten => Pool(it, held[i], out[i])
  BY <1>2, PoolNow
<1>8. i \notin rewritten' => Pool(row, held[i], out[i])
  BY <1>4, <1>6, <1>7 DEF Pool
<1>9. /\ closed'[i] # Unset => row.end = closed'[i]
      /\ \A j \in Items \ {i} : closed'[j] = closed[j]
      /\ closed' \in [Items -> Time \cup {Unset}]
      /\ rewritten' \subseteq Items /\ rewritten \subseteq rewritten'
  BY <1>4, <1>6, <1>7, HistoryTypes
<1>. HIDE DEF row, it, i
<1>. QED BY <1>2, <1>3, <1>5, <1>6, <1>8, <1>9, CommandWritten

LEMMA ChangePriceStep ==
  ASSUME InventoryInv, NEW c \in Callers, ChangePrice(c)
  PROVE  InventoryInv'
<1>. DEFINE i == call[c].req.i
            row == item[i]
<1>1. Commits(c, "price") /\ "price" \in ItemOps
  BY DEF ChangePrice, ItemOps
<1>2. lock = c /\ call[c].seen = item /\ i \in Items /\ row \in ItemRows /\ row.state = "live"
  BY <1>1, CommitFacts
<1>3. Write(c, i, row)
  BY <1>2 DEF ChangePrice
<1>4. UNCHANGED <<held, out>> /\ rewritten' = rewritten /\ closed' = closed
  BY DEF ChangePrice, history
<1>5. /\ closed[i] # Unset => row.end = closed[i]
      /\ i \notin rewritten => Pool(row, held[i], out[i])
  BY <1>2, PoolNow
<1>6. /\ closed'[i] # Unset => row.end = closed'[i]
      /\ i \notin rewritten' => Pool(row, held[i], out[i])
      /\ \A j \in Items \ {i} : closed'[j] = closed[j]
      /\ closed' \in [Items -> Time \cup {Unset}]
      /\ rewritten' \subseteq Items /\ rewritten \subseteq rewritten'
  BY <1>4, <1>5, HistoryTypes
<1>7. row \in ItemRows /\ row.state # "absent"
  BY <1>2
<1>. HIDE DEF row, i
<1>. QED BY <1>2, <1>3, <1>4, <1>6, <1>7, CommandWritten

-----------------------------------------------------------------------------
(* Operators' calls on all items of the ticket.                            *)

LEMMA AllWritten ==
  ASSUME InventoryInv, NEW c \in Callers, NEW op, Commits(c, op),
         NEW rows, WriteAll(c, rows), UNCHANGED <<held, out>>,
         rewritten' \subseteq Items, rewritten \subseteq rewritten',
         closed' \in [Items -> Time \cup {Unset}],
         \A i \in Items \ DOMAIN rows : closed'[i] = closed[i],
         \A i \in Items \cap DOMAIN rows :
           /\ rows[i] \in ItemRows /\ rows[i].state # "absent"
           /\ closed'[i] # Unset => rows[i].end = closed'[i]
           /\ i \notin rewritten' => Pool(rows[i], held[i], out[i])
  PROVE  InventoryInv'
<1>1. lock = c
  BY CommitFacts
<1>2. /\ item' = [i \in Items |-> IF i \in DOMAIN rows THEN rows[i] ELSE item[i]]
      /\ Finish(c) /\ ticket' = ticket /\ clock' = clock /\ quota' = quota
  BY DEF WriteAll
<1>3. /\ CallsKnown' /\ LockHeld' /\ lock' \in Callers \cup {Unset}
      /\ \A d \in Callers :
           call'[d].stage \in {"idle", "check", "apply", "lock", "read", "write"}
  BY <1>1, <1>2, CallEnded
<1>4. item' \in [Items -> ItemRows]
  BY <1>2 DEF InventoryInv, InventoryTypeOK
<1>5. held' \in [Items -> SUBSET Labels] /\ out' \in [Items -> Int]
  BY HistoryTypes
<1>6. ASSUME NEW i \in Items
      PROVE  \/ /\ item'[i] = item[i] /\ held'[i] = held[i] /\ out'[i] = out[i]
                /\ closed'[i] = closed[i] /\ (i \in rewritten => i \in rewritten')
             \/ /\ item'[i].state # "absent"
                /\ closed'[i] # Unset => item'[i].end = closed'[i]
                /\ i \notin rewritten' => Pool(item'[i], held'[i], out'[i])
  <2>1. CASE i \in DOMAIN rows
    <3>1. item'[i] = rows[i] /\ held'[i] = held[i] /\ out'[i] = out[i]
      BY <1>2, <2>1
    <3>. QED BY <2>1, <3>1
  <2>2. CASE i \notin DOMAIN rows
    BY <1>2, <2>2
  <2>. QED BY <2>1, <2>2
<1>. QED BY <1>2, <1>3, <1>4, <1>5, <1>6, RowsWritten

LEMMA TargetsAreLive ==
  ASSUME InventoryInv, NEW c \in Callers, NEW op, Commits(c, op), NEW i \in Targets(c)
  PROVE  /\ i \in Items /\ call[c].seen[i] = item[i] /\ item[i] \in ItemRows
         /\ item[i].state = "live"
         /\ closed[i] # Unset => item[i].end = closed[i]
         /\ i \notin rewritten => Pool(item[i], held[i], out[i])
<1>1. call[c].seen = item
  BY CommitFacts
<1>2. i \in Items /\ item[i].state = "live"
  BY <1>1 DEF Targets, Active
<1>. QED BY <1>1, <1>2, PoolNow

LEMMA PrepareStockStep ==
  ASSUME InventoryInv, NEW c \in Callers, PrepareStock(c)
  PROVE  InventoryInv'
<1>. DEFINE r == call[c].req
            rows == [i \in Targets(c) |-> PrepareItem(call[c].seen[i], r.p)]
            again == {i \in Targets(c) :
                        held[i] # {} \/ out[i] # 0 \/ "initial" \in DOMAIN r.p}
<1>1. Commits(c, "prepare")
  BY DEF PrepareStock
<1>2. r.op = "prepare" /\ IsRequest(r)
  BY <1>1, CommitFacts
<1>3. IsPatch(r.p) /\ Given(r.p, "initial", 0) # Unset
  BY <1>2 DEF IsRequest
<1>4. /\ WriteAll(c, rows) /\ UNCHANGED <<held, out>> /\ closed' = closed
      /\ rewritten' = rewritten \cup again
  BY DEF PrepareStock
<1>5. ASSUME NEW i \in Targets(c)
      PROVE  /\ rows[i] \in ItemRows /\ rows[i].state # "absent"
             /\ closed'[i] # Unset => rows[i].end = closed'[i]
             /\ i \notin rewritten' => Pool(rows[i], held[i], out[i])
  <2>. DEFINE it == item[i]
  <2>1. /\ i \in Items /\ call[c].seen[i] = it /\ it \in ItemRows /\ it.state = "live"
        /\ closed[i] # Unset => it.end = closed[i]
        /\ i \notin rewritten => Pool(it, held[i], out[i])
    BY <1>1, TargetsAreLive
  <2>2. rows[i] = PrepareItem(it, r.p)
    BY <2>1
  <2>3. /\ PrepareItem(it, r.p) \in ItemRows
        /\ PrepareItem(it, r.p).state = it.state /\ PrepareItem(it, r.p).end = it.end
        /\ Pool(it, {}, 0) /\ "initial" \notin DOMAIN r.p =>
             Pool(PrepareItem(it, r.p), {}, 0)
    BY <1>3, <2>1, PreparedItem
  <2>4. ASSUME i \notin rewritten'
        PROVE  held[i] = {} /\ out[i] = 0 /\ "initial" \notin DOMAIN r.p /\ i \notin rewritten
    BY <1>4, <2>4
  <2>. QED BY <1>4, <2>1, <2>2, <2>3, <2>4
<1>6. /\ closed' \in [Items -> Time \cup {Unset}] /\ rewritten \subseteq rewritten'
      /\ rewritten' \subseteq Items /\ DOMAIN rows = Targets(c)
      /\ \A i \in Items \ DOMAIN rows : closed'[i] = closed[i]
  BY <1>4, HistoryTypes DEF Targets, Active
<1>. HIDE DEF rows, again
<1>7. \A i \in Items \cap DOMAIN rows :
        /\ rows[i] \in ItemRows /\ rows[i].state # "absent"
        /\ closed'[i] # Unset => rows[i].end = closed'[i]
        /\ i \notin rewritten' => Pool(rows[i], held[i], out[i])
  BY <1>5, <1>6
<1>. QED BY <1>1, <1>4, <1>6, <1>7, AllWritten

LEMMA OpenSaleStep ==
  ASSUME InventoryInv, NEW c \in Callers, OpenSale(c)
  PROVE  InventoryInv'
<1>. DEFINE r == call[c].req
            rows == [i \in Targets(c) |->
                       [Merge(call[c].seen[i], r.p) EXCEPT
                          !.start = Given(r.p, "start", clock)]]
<1>1. Commits(c, "open")
  BY DEF OpenSale
<1>2. r.op = "open" /\ IsRequest(r)
  BY <1>1, CommitFacts
<1>3. IsPatch(r.p) /\ PoolFields \cap DOMAIN r.p = {}
  BY <1>2 DEF IsRequest, PoolFields
<1>4. /\ WriteAll(c, rows) /\ UNCHANGED <<held, out>>
      /\ Reopened(Targets(c), r.p) /\ rewritten' = rewritten
  BY DEF OpenSale
<1>5. /\ closed' \in [Items -> Time \cup {Unset}]
      /\ \A j \in Items \ Targets(c) : closed'[j] = closed[j]
      /\ \A j \in Items :
           /\ "end" \in DOMAIN r.p /\ j \in Targets(c) => closed'[j] = Unset
           /\ "end" \notin DOMAIN r.p => closed'[j] = closed[j]
  BY <1>4, ReopenedTypes
<1>6. Given(r.p, "start", clock) \in Time \cup {Unset}
  BY <1>3, HistoryTypes DEF IsPatch, Given
<1>7. ASSUME NEW i \in Targets(c)
      PROVE  /\ rows[i] \in ItemRows /\ rows[i].state # "absent"
             /\ closed'[i] # Unset => rows[i].end = closed'[i]
             /\ i \notin rewritten' => Pool(rows[i], held[i], out[i])
  <2>. DEFINE it == item[i]
              new == Merge(it, r.p)
              start == Given(r.p, "start", clock)
  <2>1. /\ i \in Items /\ call[c].seen[i] = it /\ it \in ItemRows /\ it.state = "live"
        /\ closed[i] # Unset => it.end = closed[i]
        /\ i \notin rewritten => Pool(it, held[i], out[i])
    BY <1>1, TargetsAreLive
  <2>2. rows[i] = [new EXCEPT !.start = start]
    BY <2>1
  <2>3. new \in ItemRows /\ new.state = "live"
    BY <1>3, <2>1, MergeTypes
  <2>4. "end" \notin DOMAIN r.p => new.end = it.end
    BY DEF Merge, Given
  <2>5. i \notin rewritten => Pool(new, held[i], out[i])
    BY <1>3, <2>1, MergePool
  <2>. HIDE DEF new, start, rows
  <2>6. /\ rows[i] \in ItemRows /\ rows[i].state = "live" /\ rows[i].end = new.end
        /\ rows[i].seats = new.seats /\ rows[i].avail = new.avail
        /\ rows[i].stock = new.stock /\ rows[i].initial = new.initial
    BY <1>6, <2>2, <2>3 DEF ItemRows, start
  <2>7. i \notin rewritten' => Pool(rows[i], held[i], out[i])
    BY <1>4, <2>5, <2>6 DEF Pool
  <2>8. closed'[i] # Unset => rows[i].end = closed'[i]
    BY <1>5, <2>1, <2>4, <2>6
  <2>. QED BY <2>6, <2>7, <2>8
<1>8. /\ rewritten \subseteq rewritten' /\ rewritten' \subseteq Items
      /\ DOMAIN rows = Targets(c)
  BY <1>4, HistoryTypes
<1>. HIDE DEF rows
<1>9. \A i \in Items \cap DOMAIN rows :
        /\ rows[i] \in ItemRows /\ rows[i].state # "absent"
        /\ closed'[i] # Unset => rows[i].end = closed'[i]
        /\ i \notin rewritten' => Pool(rows[i], held[i], out[i])
  BY <1>7, <1>8
<1>. QED BY <1>1, <1>4, <1>5, <1>8, <1>9, AllWritten

LEMMA CloseSaleStep ==
  ASSUME InventoryInv, NEW c \in Callers, CloseSale(c)
  PROVE  InventoryInv'
<1>. DEFINE rows == [i \in Targets(c) |-> [call[c].seen[i] EXCEPT !.end = clock]]
<1>1. Commits(c, "close")
  BY DEF CloseSale
<1>2. /\ WriteAll(c, rows) /\ UNCHANGED <<held, out>> /\ rewritten' = rewritten
      /\ closed' = [i \in Items |-> IF i \in Targets(c) THEN clock ELSE closed[i]]
  BY DEF CloseSale
<1>3. clock \in Time
  BY HistoryTypes
<1>4. ASSUME NEW i \in Targets(c)
      PROVE  /\ rows[i] \in ItemRows /\ rows[i].state # "absent"
             /\ closed'[i] # Unset => rows[i].end = closed'[i]
             /\ i \notin rewritten' => Pool(rows[i], held[i], out[i])
  <2>. DEFINE it == item[i]
  <2>1. /\ i \in Items /\ call[c].seen[i] = it /\ it \in ItemRows /\ it.state = "live"
        /\ i \notin rewritten => Pool(it, held[i], out[i])
    BY <1>1, TargetsAreLive
  <2>2. rows[i] = [it EXCEPT !.end = clock]
    BY <2>1
  <2>. HIDE DEF it, rows
  <2>3. /\ rows[i] \in ItemRows /\ rows[i].state = "live" /\ rows[i].end = clock
        /\ rows[i].seats = it.seats /\ rows[i].avail = it.avail
        /\ rows[i].stock = it.stock /\ rows[i].initial = it.initial
    BY <1>3, <2>1, <2>2 DEF ItemRows
  <2>4. i \notin rewritten' => Pool(rows[i], held[i], out[i])
    BY <1>2, <2>1, <2>3 DEF Pool
  <2>5. closed'[i] = clock
    BY <1>2, <2>1
  <2>. QED BY <2>3, <2>4, <2>5
<1>5. /\ rewritten \subseteq rewritten' /\ rewritten' \subseteq Items
      /\ DOMAIN rows = Targets(c) /\ closed' \in [Items -> Time \cup {Unset}]
      /\ \A i \in Items \ DOMAIN rows : closed'[i] = closed[i]
  BY <1>2, <1>3, HistoryTypes
<1>. HIDE DEF rows
<1>6. \A i \in Items \cap DOMAIN rows :
        /\ rows[i] \in ItemRows /\ rows[i].state # "absent"
        /\ closed'[i] # Unset => rows[i].end = closed'[i]
        /\ i \notin rewritten' => Pool(rows[i], held[i], out[i])
  BY <1>4, <1>5
<1>. QED BY <1>1, <1>2, <1>5, <1>6, AllWritten

-----------------------------------------------------------------------------
(* Steps that write no row.                                                *)

Stages == {"idle", "check", "apply", "lock", "read", "write"}

(* A call that moves on to k.                                              *)
LEMMA CallMoved ==
  ASSUME InventoryInv, NEW c \in Callers, NEW k, call' = [call EXCEPT ![c] = k],
         IsCall(k), k.stage \in Stages,
         k.stage # "idle" => IsRequest(k.req),
         k.stage \in {"lock", "read", "write"} => k.req.op \in LockedOps,
         k.stage \in {"read", "write"} => lock' = c,
         k.stage = "write" => k.seen = item,
         lock' = lock \/ (lock = Unset /\ lock' = c),
         item' = item, quota' \subseteq quota
  PROVE  /\ CallsKnown' /\ LockHeld' /\ lock' \in Callers \cup {Unset}
         /\ \A d \in Callers : call'[d].stage \in Stages
<1>1. call = [d \in Callers |-> call[d]]
  BY DEF InventoryInv, CallsKnown
<1>2. call'[c] = k /\ \A d \in Callers \ {c} : call'[d] = call[d]
  BY <1>1
<1>3. call' = [d \in Callers |-> call'[d]]
  BY <1>1
<1>4. CallsKnown'
  <2>1. ASSUME NEW d \in Callers
        PROVE  /\ IsCall(call'[d])
               /\ call'[d].stage # "idle" => IsRequest(call'[d].req)
               /\ call'[d].stage \in {"lock", "read", "write"} =>
                    call'[d].req.op \in LockedOps
    <3>1. CASE d = c
      BY <1>2, <3>1
    <3>2. CASE d # c
      BY <1>2, <3>2 DEF InventoryInv, CallsKnown
    <3>. QED BY <3>1, <3>2
  <2>2. \A r \in quota' : IsRequest(r)
    BY DEF InventoryInv, CallsKnown
  <2>. QED BY <1>3, <2>1, <2>2 DEF CallsKnown
<1>5. LockHeld'
  <2>1. ASSUME NEW d \in Callers
        PROVE  /\ call'[d].stage \in {"read", "write"} => lock' = d
               /\ call'[d].stage = "write" => call'[d].seen = item'
    <3>1. CASE d = c
      BY <1>2, <3>1
    <3>2. CASE d # c
      BY <1>2, <3>2, InventoryAssumption DEF InventoryInv, LockHeld
    <3>. QED BY <3>1, <3>2
  <2>. QED BY <2>1 DEF LockHeld
<1>6. lock' \in Callers \cup {Unset} /\ \A d \in Callers : call'[d].stage \in Stages
  BY <1>2 DEF InventoryInv, InventoryTypeOK, Stages
<1>. QED BY <1>4, <1>5, <1>6

LEMMA TicketTypes ==
  ASSUME InventoryInv
  PROVE  ticket \in [state: {"none", "live", "deleted"}, status: Statuses] /\ clock \in Time
  BY DEF InventoryInv, InventoryTypeOK, Statuses

(* What a call is now.                                                     *)
LEMMA CallNow ==
  ASSUME InventoryInv, NEW c \in Callers
  PROVE  /\ IsCall(call[c])
         /\ call[c].stage # "idle" => IsRequest(call[c].req)
         /\ call[c].stage \in {"lock", "read", "write"} => call[c].req.op \in LockedOps
         /\ call[c].stage \in {"read", "write"} => lock = c
  BY DEF InventoryInv, CallsKnown, LockHeld

LEMMA StartCallStep ==
  ASSUME InventoryInv, NEW c \in Callers, StartCall(c)
  PROVE  InventoryInv'
<1>. PICK r \in quota :
       /\ r.op # "crash" /\ quota' = quota \ {r}
       /\ call' = [call EXCEPT ![c] =
            [stage |-> FirstStage(r.op), req |-> r, seen |-> Unset]]
  BY DEF StartCall
<1>. DEFINE k == [stage |-> FirstStage(r.op), req |-> r, seen |-> Unset]
<1>1. IsRequest(r)
  BY DEF InventoryInv, CallsKnown
<1>2. /\ k.stage \in {"lock", "apply", "check"} /\ k.req = r
      /\ k.stage = "lock" => r.op \in LockedOps
      /\ IsCall(k)
  BY DEF FirstStage, IsCall
<1>3. call' = [call EXCEPT ![c] = k] /\ UNCHANGED <<ticket, item, lock, clock, history>>
  BY DEF StartCall
<1>4. quota' \subseteq quota
  OBVIOUS
<1>. HIDE DEF k
<1>5. /\ CallsKnown' /\ LockHeld' /\ lock' \in Callers \cup {Unset}
      /\ \A d \in Callers : call'[d].stage \in Stages
  <2>1. k.stage \in Stages /\ (k.stage # "idle" => IsRequest(k.req))
    BY <1>1, <1>2 DEF Stages
  <2>2. /\ k.stage \in {"lock", "read", "write"} => k.req.op \in LockedOps
        /\ k.stage \notin {"read", "write"}
    BY <1>2
  <2>3. IsCall(k) /\ call' = [call EXCEPT ![c] = k] /\ lock' = lock /\ item' = item
    BY <1>2, <1>3
  <2>. QED BY <1>4, <2>1, <2>2, <2>3, CallMoved
<1>. QED BY <1>3, <1>5, TicketTypes, RowsUntouched DEF Stages

LEMMA TakeRowLockStep ==
  ASSUME InventoryInv, NEW c \in Callers, TakeRowLock(c)
  PROVE  InventoryInv'
<1>. DEFINE k == [call[c] EXCEPT !.stage = "read"]
<1>1. /\ call[c].stage = "lock" /\ lock = Unset /\ lock' = c
      /\ call' = [call EXCEPT ![c] = k]
      /\ UNCHANGED <<ticket, item, clock, quota, history>>
  BY DEF TakeRowLock, LockRow
<1>2. k.stage = "read" /\ k.req = call[c].req /\ IsCall(k)
  <2>1. IsCall(call[c])
    BY CallNow
  <2>. QED BY <2>1 DEF IsCall
<1>3. IsRequest(k.req) /\ k.req.op \in LockedOps
  BY <1>1, <1>2, CallNow
<1>. HIDE DEF k
<1>4. /\ CallsKnown' /\ LockHeld' /\ lock' \in Callers \cup {Unset}
      /\ \A d \in Callers : call'[d].stage \in Stages
  BY <1>1, <1>2, <1>3, CallMoved DEF Stages
<1>. QED BY <1>1, <1>4, TicketTypes, RowsUntouched DEF Stages

(* A call that is refused, with nothing written.                           *)
LEMMA RefusedStep ==
  ASSUME InventoryInv, NEW c \in Callers, Finish(c),
         UNCHANGED <<ticket, item, clock, quota, history>>
  PROVE  InventoryInv'
<1>1. /\ CallsKnown' /\ LockHeld' /\ lock' \in Callers \cup {Unset}
      /\ \A d \in Callers :
           call'[d].stage \in {"idle", "check", "apply", "lock", "read", "write"}
  BY CallEnded
<1>. QED BY <1>1, TicketTypes, RowsUntouched

LEMMA ReadTicketStep ==
  ASSUME InventoryInv, NEW c \in Callers, ReadTicket(c)
  PROVE  InventoryInv'
<1>1. call[c].stage = "read" /\ UNCHANGED <<ticket, item, clock, quota, history>>
  BY DEF ReadTicket
<1>2. CASE ticket.state = "live"
  <2>. DEFINE k == [call[c] EXCEPT !.stage = "write", !.seen = item]
  <2>1. call' = [call EXCEPT ![c] = k] /\ lock' = lock
    BY <1>2 DEF ReadTicket, InventoryInv, CallsKnown
  <2>2. /\ k.stage = "write" /\ k.req = call[c].req /\ k.seen = item
        /\ IsCall(k)
    <3>1. IsCall(call[c])
      BY CallNow
    <3>. QED BY <3>1 DEF IsCall
  <2>3. IsRequest(k.req) /\ k.req.op \in LockedOps /\ lock = c
    BY <1>1, <2>2, CallNow
  <2>. HIDE DEF k
  <2>4. /\ CallsKnown' /\ LockHeld' /\ lock' \in Callers \cup {Unset}
        /\ \A d \in Callers : call'[d].stage \in Stages
    BY <1>1, <2>1, <2>2, <2>3, CallMoved DEF Stages
  <2>. QED BY <1>1, <2>4, TicketTypes, RowsUntouched DEF Stages
<1>3. CASE ticket.state # "live"
  BY <1>1, <1>3, RefusedStep DEF ReadTicket
<1>. QED BY <1>2, <1>3

LEMMA CheckTicketStep ==
  ASSUME InventoryInv, NEW c \in Callers, CheckTicket(c)
  PROVE  InventoryInv'
<1>1. call[c].stage = "check" /\ UNCHANGED <<ticket, item, clock, quota, history>>
  BY DEF CheckTicket
<1>2. CASE ticket.state = "live"
  <2>. DEFINE k == [call[c] EXCEPT !.stage = "apply"]
  <2>1. call' = [call EXCEPT ![c] = k] /\ lock' = lock
    BY <1>2 DEF CheckTicket
  <2>2. /\ k.stage = "apply" /\ k.req = call[c].req
        /\ IsCall(k)
    <3>1. IsCall(call[c])
      BY CallNow
    <3>. QED BY <3>1 DEF IsCall
  <2>3. IsRequest(k.req)
    BY <1>1, <2>2, CallNow
  <2>. HIDE DEF k
  <2>4. /\ CallsKnown' /\ LockHeld' /\ lock' \in Callers \cup {Unset}
        /\ \A d \in Callers : call'[d].stage \in Stages
    BY <1>1, <2>1, <2>2, <2>3, CallMoved DEF Stages
  <2>. QED BY <1>1, <2>4, TicketTypes, RowsUntouched DEF Stages
<1>3. CASE ticket.state # "live"
  BY <1>1, <1>3, RefusedStep DEF CheckTicket
<1>. QED BY <1>2, <1>3

LEMMA CreateStep ==
  ASSUME InventoryInv, NEW c \in Callers, Create(c)
  PROVE  InventoryInv'
<1>. DEFINE r == call[c].req
<1>1. /\ call[c].stage = "apply" /\ r.op = "create"
      /\ UNCHANGED <<item, clock, quota, history>>
  BY DEF Create
<1>2. CASE ticket.state = "none" /\ ItemsHaveGoodWindows(c)
  <2>. DEFINE next == [op |-> "addItem", i |-> Unset, p |-> r.p]
              k == [call[c] EXCEPT !.req = next]
  <2>1. /\ call' = [call EXCEPT ![c] = k] /\ lock' = lock
        /\ ticket' = [state |-> "live", status |-> r.p.status]
    BY <1>2 DEF Create
  <2>2. IsRequest(r)
    BY <1>1, CallNow
  <2>3. IsRequest(next)
    <3>1. next.op = "addItem" /\ next.i = Unset /\ next.p = r.p
      OBVIOUS
    <3>. HIDE DEF next
    <3>. QED BY <1>1, <2>2, <3>1 DEF IsRequest, LockedOps, ItemOps
  <2>4. r.p.status \in Statuses
    BY <1>1, <2>2 DEF IsRequest
  <2>5. /\ k.stage = "apply" /\ k.req = next
        /\ IsCall(k)
    <3>. HIDE DEF next
    <3>1. IsCall(call[c])
      BY CallNow
    <3>. QED BY <1>1, <3>1 DEF IsCall
  <2>. HIDE DEF k, next
  <2>6. /\ CallsKnown' /\ LockHeld' /\ lock' \in Callers \cup {Unset}
        /\ \A d \in Callers : call'[d].stage \in Stages
    BY <1>1, <2>1, <2>3, <2>5, CallMoved DEF Stages
  <2>7. ticket' \in [state: {"none", "live", "deleted"}, status: Statuses]
    BY <2>1, <2>4
  <2>. QED BY <1>1, <2>6, <2>7, TicketTypes, RowsUntouched DEF Stages
<1>3. CASE ~(ticket.state = "none" /\ ItemsHaveGoodWindows(c))
  BY <1>1, <1>3, RefusedStep DEF Create
<1>. QED BY <1>2, <1>3

LEMMA UpdateTicketStep ==
  ASSUME InventoryInv, NEW c \in Callers, UpdateTicket(c)
  PROVE  InventoryInv'
<1>. DEFINE status == Given(call[c].req.p, "status", ticket.status)
<1>1. /\ call[c].stage = "apply" /\ call[c].req.op = "updateTicket" /\ Finish(c)
      /\ ticket' = [ticket EXCEPT !.status = status]
      /\ UNCHANGED <<item, clock, quota, history>>
  BY DEF UpdateTicket
<1>2. IsRequest(call[c].req)
  BY <1>1, CallNow
<1>3. status \in Statuses
  BY <1>1, <1>2, TicketTypes DEF IsRequest, Given
<1>4. ticket' \in [state: {"none", "live", "deleted"}, status: Statuses]
  <2>. HIDE DEF status
  <2>. QED BY <1>1, <1>3, TicketTypes
<1>5. /\ CallsKnown' /\ LockHeld' /\ lock' \in Callers \cup {Unset}
      /\ \A d \in Callers :
           call'[d].stage \in {"idle", "check", "apply", "lock", "read", "write"}
  BY <1>1, CallEnded
<1>. QED BY <1>1, <1>4, <1>5, TicketTypes, RowsUntouched

LEMMA RemoveTicketStep ==
  ASSUME InventoryInv, NEW c \in Callers, RemoveTicket(c)
  PROVE  InventoryInv'
<1>1. /\ Finish(c) /\ ticket' = [ticket EXCEPT !.state = "deleted"]
      /\ UNCHANGED <<item, clock, quota, history>>
  BY DEF RemoveTicket
<1>2. ticket' \in [state: {"none", "live", "deleted"}, status: Statuses]
  BY <1>1, TicketTypes
<1>3. /\ CallsKnown' /\ LockHeld' /\ lock' \in Callers \cup {Unset}
      /\ \A d \in Callers :
           call'[d].stage \in {"idle", "check", "apply", "lock", "read", "write"}
  BY <1>1, CallEnded
<1>. QED BY <1>1, <1>2, <1>3, TicketTypes, RowsUntouched

(* New items have new identities, so nothing that was sold is overwritten. *)
LEMMA AddTicketItemStep ==
  ASSUME InventoryInv, NEW c \in Callers, AddTicketItem(c)
  PROVE  InventoryInv'
<1>. DEFINE rows == call[c].req.p.items
<1>1. /\ call[c].stage = "apply" /\ call[c].req.op = "addItem" /\ lock = Unset /\ Finish(c)
      /\ UNCHANGED <<ticket, clock, quota, held, out, closed>>
  BY DEF AddTicketItem
<1>2. CASE ItemsHaveGoodWindows(c)
  <2>1. IsRequest(call[c].req)
    BY <1>1, CallNow
  <2>2. DOMAIN rows \subseteq Items /\ \A i \in DOMAIN rows : IsPatch(rows[i])
    BY <1>1, <2>1 DEF IsRequest
  <2>3. /\ \A i \in DOMAIN rows : item[i].state = "absent"
        /\ item' = [i \in Items |-> IF i \in DOMAIN rows THEN BuildItem(rows[i]) ELSE item[i]]
        /\ rewritten' = rewritten \cup
             {i \in DOMAIN rows : (PoolFields \ {"seats"}) \cap DOMAIN rows[i] # {}}
    BY <1>2 DEF AddTicketItem, InsertRows
  <2>4. ASSUME NEW i \in DOMAIN rows
        PROVE  /\ item'[i] \in ItemRows /\ item'[i].state = "live"
               /\ held'[i] = {} /\ out'[i] = 0 /\ closed'[i] = Unset
               /\ i \notin rewritten' => Pool(item'[i], held'[i], out'[i])
    <3>1. i \in Items /\ IsPatch(rows[i]) /\ item'[i] = BuildItem(rows[i])
      BY <2>2, <2>3
    <3>2. Dated(item[i], held[i], out[i], closed[i]) /\ item[i].state = "absent"
      BY <2>3, <3>1 DEF InventoryInv, PoolsSound
    <3>3. held'[i] = {} /\ out'[i] = 0 /\ closed'[i] = Unset
      BY <1>1, <3>2 DEF Dated
    <3>4. i \notin rewritten' => (PoolFields \ {"seats"}) \cap DOMAIN rows[i] = {}
      BY <2>3
    <3>. HIDE DEF rows
    <3>. QED BY <3>1, <3>3, <3>4, BuiltItem
  <2>5. ASSUME NEW i \in Items \ DOMAIN rows
        PROVE  /\ item'[i] = item[i] /\ held'[i] = held[i] /\ out'[i] = out[i]
               /\ closed'[i] = closed[i] /\ (i \in rewritten => i \in rewritten')
    BY <1>1, <2>3
  <2>. HIDE DEF rows
  <2>6. item' \in [Items -> ItemRows]
    <3>1. \A i \in Items : item'[i] \in ItemRows
      BY <2>4, <2>5 DEF InventoryInv, InventoryTypeOK
    <3>2. item' = [i \in Items |-> item'[i]]
      BY <2>3
    <3>. QED BY <3>1, <3>2
  <2>7. /\ held' \in [Items -> SUBSET Labels] /\ out' \in [Items -> Int]
        /\ rewritten' \subseteq Items /\ closed' \in [Items -> Time \cup {Unset}]
    BY <1>1, <2>2, <2>3, HistoryTypes
  <2>8. /\ CallsKnown' /\ LockHeld' /\ lock' \in Callers \cup {Unset}
        /\ \A d \in Callers :
             call'[d].stage \in {"idle", "check", "apply", "lock", "read", "write"}
    BY <1>1, CallEnded
  <2>9. \A i \in Items :
          \/ /\ item'[i] = item[i] /\ held'[i] = held[i] /\ out'[i] = out[i]
             /\ closed'[i] = closed[i] /\ (i \in rewritten => i \in rewritten')
          \/ /\ item'[i].state # "absent"
             /\ closed'[i] # Unset => item'[i].end = closed'[i]
             /\ i \notin rewritten' => Pool(item'[i], held'[i], out'[i])
    <3>. SUFFICES ASSUME NEW i \in Items
                  PROVE  \/ /\ item'[i] = item[i] /\ held'[i] = held[i] /\ out'[i] = out[i]
                            /\ closed'[i] = closed[i] /\ (i \in rewritten => i \in rewritten')
                         \/ /\ item'[i].state # "absent"
                            /\ closed'[i] # Unset => item'[i].end = closed'[i]
                            /\ i \notin rewritten' => Pool(item'[i], held'[i], out'[i])
      OBVIOUS
    <3>1. CASE i \in DOMAIN rows
      BY <2>4, <3>1
    <3>2. CASE i \notin DOMAIN rows
      BY <2>5, <3>2
    <3>. QED BY <3>1, <3>2
  <2>. QED BY <1>1, <2>6, <2>7, <2>8, <2>9, RowsWritten
<1>3. CASE ~ItemsHaveGoodWindows(c)
  <2>1. UNCHANGED <<ticket, item, clock, quota, history>>
    BY <1>1, <1>3 DEF AddTicketItem, history
  <2>. QED BY <1>1, <2>1, RefusedStep
<1>. QED BY <1>2, <1>3

LEMMA RefuseStep ==
  ASSUME InventoryInv, NEW c \in Callers, Refuse(c)
  PROVE  InventoryInv'
  BY RefusedStep DEF Refuse

LEMMA CrashStep ==
  ASSUME InventoryInv, Crash
  PROVE  InventoryInv'
<1>1. /\ call' = [c \in Callers |-> Idle] /\ lock' = Unset /\ quota' \subseteq quota
      /\ UNCHANGED <<ticket, item, clock, history>>
  BY DEF Crash
<1>2. \A c \in Callers : call'[c] = Idle
  BY <1>1
<1>3. CallsKnown' /\ LockHeld'
  BY <1>1, <1>2 DEF InventoryInv, CallsKnown, LockHeld, Idle, IsCall
<1>4. \A d \in Callers :
        call'[d].stage \in {"idle", "check", "apply", "lock", "read", "write"}
  BY <1>2 DEF Idle
<1>. QED BY <1>1, <1>3, <1>4, TicketTypes, RowsUntouched

LEMMA TickStep ==
  ASSUME InventoryInv, Tick
  PROVE  InventoryInv'
<1>1. /\ clock < MaxClock /\ clock' = clock + 1
      /\ UNCHANGED <<ticket, item, lock, call, quota, history>>
  BY DEF Tick
<1>2. clock' \in Time
  BY <1>1, TicketTypes, InventoryAssumption DEF Time
<1>3. /\ CallsKnown' /\ LockHeld' /\ lock' \in Callers \cup {Unset}
      /\ \A d \in Callers :
           call'[d].stage \in {"idle", "check", "apply", "lock", "read", "write"}
  BY <1>1 DEF InventoryInv, InventoryTypeOK, CallsKnown, LockHeld
<1>. QED BY <1>1, <1>2, <1>3, TicketTypes, RowsUntouched

-----------------------------------------------------------------------------
LEMMA InventoryStep == InventoryInv /\ [NextInventory]_ivars => InventoryInv'
<1> SUFFICES ASSUME InventoryInv, [NextInventory]_ivars PROVE InventoryInv'
  OBVIOUS
<1>1. ASSUME NEW c \in Callers,
             \/ StartCall(c) \/ TakeRowLock(c) \/ ReadTicket(c) \/ Refuse(c)
      PROVE  InventoryInv'
  BY <1>1, StartCallStep, TakeRowLockStep, ReadTicketStep, RefuseStep
<1>2. ASSUME NEW c \in Callers,
             \/ Reserve(c) \/ ReserveSeat(c) \/ Release(c) \/ ReleaseSeat(c)
      PROVE  InventoryInv'
  BY <1>2, ReserveStep, ReserveSeatStep, ReleaseStep, ReleaseSeatStep
<1>3. ASSUME NEW c \in Callers,
             \/ UpdateTicketItem(c) \/ RemoveTicketItem(c) \/ ChangePrice(c)
             \/ ChangeSaleWindow(c)
      PROVE  InventoryInv'
  BY <1>3, UpdateTicketItemStep, RemoveTicketItemStep, ChangePriceStep, ChangeSaleWindowStep
<1>4. ASSUME NEW c \in Callers, PrepareStock(c) \/ OpenSale(c) \/ CloseSale(c)
      PROVE  InventoryInv'
  BY <1>4, PrepareStockStep, OpenSaleStep, CloseSaleStep
<1>5. ASSUME NEW c \in Callers,
             \/ Create(c) \/ CheckTicket(c) \/ AddTicketItem(c) \/ UpdateTicket(c)
             \/ RemoveTicket(c)
      PROVE  InventoryInv'
  BY <1>5, CreateStep, CheckTicketStep, AddTicketItemStep, UpdateTicketStep, RemoveTicketStep
<1>6. CASE UNCHANGED ivars
  BY <1>6 DEF InventoryInv, InventoryTypeOK, CallsKnown, LockHeld, PoolsSound, ivars
<1>. QED BY <1>1, <1>2, <1>3, <1>4, <1>5, <1>6, CrashStep, TickStep DEF NextInventory

(* The rows keep their types, whoever has read them for a write holds the  *)
(* lock and has them as they are, and a pool that no operator dictated     *)
(* accounts for every label and every unit.                                *)
THEOREM InventoryInvHolds == SpecInventory => []InventoryInv
  BY InitInventoryInv, InventoryStep, PTL DEF SpecInventory

(* Every counter of an item stays a natural number or null, whatever calls *)
(* overlap: nothing is oversold into the negative.                         *)
THEOREM InventoryTypesHold == SpecInventory => []InventoryTypeOK
<1>1. InventoryInv => InventoryTypeOK
  BY DEF InventoryInv
<1>. QED BY <1>1, InventoryInvHolds, PTL

(* A label in a customer's hands is shown as taken and cannot be sold      *)
(* again, for any number of calls, items and labels.                       *)
THEOREM HeldSeatIsTakenHolds == SpecInventory => []HeldSeatIsTaken
<1>1. InventoryInv => HeldSeatIsTaken
  <2> SUFFICES ASSUME InventoryInv, NEW i \in Items \ rewritten
               PROVE  held[i] \subseteq OccupiedLabels(item[i])
    BY DEF HeldSeatIsTaken
  <2>1. /\ Dated(item[i], held[i], out[i], closed[i])
        /\ item[i].state # "absent" => Pool(item[i], held[i], out[i])
    BY DEF InventoryInv, PoolsSound
  <2>. QED BY <2>1 DEF Dated, Pool, OccupiedLabels
<1>. QED BY <1>1, InventoryInvHolds, PTL

(* Every label is free or in someone's hands and the counter counts what   *)
(* is free, through overlapping calls, crashes and partly done releases.   *)
THEOREM PoolConservedHolds == SpecInventory => []PoolConserved
<1>1. InventoryInv => PoolConserved
  <2> SUFFICES ASSUME InventoryInv, NEW i \in Items \ rewritten, item[i].state # "absent"
               PROVE  IF item[i].seats # {}
                      THEN /\ item[i].seats = item[i].avail \cup held[i]
                           /\ item[i].stock = Cardinality(item[i].avail)
                      ELSE item[i].initial # Unset =>
                             item[i].stock + out[i] = item[i].initial
    BY DEF PoolConserved
  <2>1. Pool(item[i], held[i], out[i])
    BY DEF InventoryInv, PoolsSound
  <2>. QED BY <2>1 DEF Pool
<1>. QED BY <1>1, InventoryInvHolds, PTL

-----------------------------------------------------------------------------
(* The end of a sale.                                                      *)

SellsOnlyOpenItems ==
  \A i \in Items :
    closed[i] # Unset /\ clock > closed[i] => held'[i] \subseteq held[i] /\ out'[i] <= out[i]

(* An item that is sold is open, so it was not closed before now.          *)
LEMMA SoldIsOpen ==
  ASSUME InventoryInv, NEW i \in Items, item[i].state = "live",
         Sellable(View(item[i]))
  PROVE  ~(closed[i] # Unset /\ clock > closed[i])
<1>1. item[i] \in ItemRows /\ (closed[i] # Unset => item[i].end = closed[i])
  BY PoolNow
<1>2. IsSaleOpen(item[i])
  BY <1>1, ViewTypes DEF Sellable
<1>3. closed[i] # Unset => clock <= closed[i] /\ closed[i] \in Time
  BY <1>1, <1>2, HistoryTypes DEF IsSaleOpen
<1>4. clock \in Time
  BY HistoryTypes
<1>. QED BY <1>3, <1>4, InventoryAssumption DEF Time

LEMMA SaleStep == InventoryInv /\ [NextInventory]_ivars => [SellsOnlyOpenItems]_ivars
<1> SUFFICES ASSUME InventoryInv, NextInventory PROVE SellsOnlyOpenItems
  OBVIOUS
<1>0. /\ held \in [Items -> SUBSET Labels] /\ out \in [Items -> Int]
  BY HistoryTypes
<1>1. ASSUME UNCHANGED <<held, out>> PROVE SellsOnlyOpenItems
  BY <1>0, <1>1 DEF SellsOnlyOpenItems
<1>2. ASSUME NEW c \in Callers, Reserve(c) PROVE SellsOnlyOpenItems
  <2>. DEFINE j == call[c].req.i
  <2>1. Commits(c, "reserve") /\ "reserve" \in ItemOps
    BY <1>2 DEF Reserve, ItemOps
  <2>2. /\ call[c].seen = item /\ call[c].req.op = "reserve" /\ Accepts(call[c].req, item)
        /\ j \in Items /\ item[j].state = "live"
    BY <2>1, CommitFacts
  <2>3. Sellable(View(item[j]))
    BY <2>2 DEF Accepts, CanTakeCount
  <2>4. ~(closed[j] # Unset /\ clock > closed[j])
    BY <2>2, <2>3, SoldIsOpen
  <2>5. \A i \in Items \ {j} : held'[i] = held[i] /\ out'[i] = out[i]
    BY <1>0, <1>2 DEF Reserve
  <2>. QED BY <1>0, <2>4, <2>5 DEF SellsOnlyOpenItems
<1>3. ASSUME NEW c \in Callers, ReserveSeat(c) PROVE SellsOnlyOpenItems
  <2>. DEFINE j == call[c].req.i
  <2>1. Commits(c, "reserveSeat") /\ "reserveSeat" \in ItemOps
    BY <1>3 DEF ReserveSeat, ItemOps
  <2>2. /\ call[c].seen = item /\ call[c].req.op = "reserveSeat"
        /\ Accepts(call[c].req, item) /\ j \in Items /\ item[j].state = "live"
    BY <2>1, CommitFacts
  <2>3. Sellable(View(item[j]))
    BY <2>2 DEF Accepts, CanTakeSeat
  <2>4. ~(closed[j] # Unset /\ clock > closed[j])
    BY <2>2, <2>3, SoldIsOpen
  <2>5. \A i \in Items \ {j} : held'[i] = held[i] /\ out'[i] = out[i]
    BY <1>0, <1>3 DEF ReserveSeat
  <2>. QED BY <1>0, <2>4, <2>5 DEF SellsOnlyOpenItems
<1>4. ASSUME NEW c \in Callers, Release(c) PROVE SellsOnlyOpenItems
  <2>. DEFINE j == call[c].req.i
              q == call[c].req.p.quantity
  <2>1. Commits(c, "release") /\ "release" \in ItemOps
    BY <1>4 DEF Release, ItemOps
  <2>2. call[c].req.op = "release" /\ IsRequest(call[c].req) /\ j \in Items
    BY <2>1, CommitFacts
  <2>3. q \in Nat
    BY <2>2 DEF IsRequest
  <2>4. out'[j] = out[j] - q \/ out'[j] = out[j]
    BY <1>0, <1>4, <2>2 DEF Release
  <2>5. \A i \in Items \ {j} : out'[i] = out[i]
    BY <1>0, <1>4 DEF Release
  <2>6. held' = held
    BY <1>4 DEF Release
  <2>7. \A i \in Items : out'[i] <= out[i]
    BY <1>0, <2>3, <2>4, <2>5
  <2>. QED BY <2>6, <2>7 DEF SellsOnlyOpenItems
<1>5. ASSUME NEW c \in Callers, ReleaseSeat(c) PROVE SellsOnlyOpenItems
  <2>1. out' = out /\ \A i \in Items : held'[i] \subseteq held[i]
    BY <1>0, <1>5 DEF ReleaseSeat
  <2>. QED BY <1>0, <2>1 DEF SellsOnlyOpenItems
<1>6. ASSUME NEW c \in Callers,
             \/ StartCall(c) \/ TakeRowLock(c) \/ ReadTicket(c) \/ Refuse(c)
             \/ Create(c) \/ CheckTicket(c) \/ AddTicketItem(c) \/ UpdateTicket(c)
             \/ RemoveTicket(c)
      PROVE  UNCHANGED <<held, out>>
  BY <1>6 DEF StartCall, TakeRowLock, ReadTicket, Refuse, Create, CheckTicket,
       AddTicketItem, UpdateTicket, RemoveTicket, history
<1>7. ASSUME NEW c \in Callers,
             \/ UpdateTicketItem(c) \/ RemoveTicketItem(c) \/ ChangePrice(c)
             \/ ChangeSaleWindow(c) \/ PrepareStock(c) \/ OpenSale(c) \/ CloseSale(c)
      PROVE  UNCHANGED <<held, out>>
  BY <1>7 DEF UpdateTicketItem, RemoveTicketItem, ChangePrice, ChangeSaleWindow,
       PrepareStock, OpenSale, CloseSale, history
<1>8. Crash \/ Tick \/ UNCHANGED ivars => UNCHANGED <<held, out>>
  BY DEF Crash, Tick, ivars, history
<1>. QED BY <1>1, <1>2, <1>3, <1>4, <1>5, <1>6, <1>7, <1>8 DEF NextInventory

(* closeSale is final until someone sets a new end: nothing is sold later  *)
(* than the closing, not by a call that was waiting for the row lock.      *)
THEOREM ClosedSaleSellsNothingHolds == SpecInventory => ClosedSaleSellsNothing
<1>1. SpecInventory => [][SellsOnlyOpenItems]_ivars
  BY InventoryInvHolds, SaleStep, PTL DEF SpecInventory
<1>. QED BY <1>1 DEF ClosedSaleSellsNothing, SellsOnlyOpenItems
=============================================================================
