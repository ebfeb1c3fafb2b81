-------------------------- MODULE TicketStockProofs --------------------------
(* Lemmas about the stock of a ticket item: each operation keeps the type  *)
(* of the item, and keeps its counter equal to the number of free labels   *)
(* and between zero and the initial stock.                                 *)
EXTENDS TicketStock, FiniteSetTheorems, TLAPS

(* The stock of an item keeps its type.                                    *)

LEMMA StockTypes ==
  ASSUME NEW S, IsFiniteSet(S), NEW it \in ItemType(S)
  PROVE  /\ \A l \in S : TakeSeat(it, l) \in ItemType(S)
         /\ \A l \in S : ReturnSeat(it, l) \in ItemType(S)
         /\ \A q \in Nat : \A A \in Allocations(it, q) :
               TakeCount(it, q, A) \in ItemType(S) /\ A \subseteq S
         /\ \A q \in Nat : ReturnCount(it, q) \in ItemType(S)
<1>1. ASSUME NEW l \in S PROVE TakeSeat(it, l) \in ItemType(S)
  <2>. DEFINE A == it.avail \ {l}
              n == Free(it) - 1
  <2>1. A \subseteq S /\ n \in Int
    BY DEF ItemType, Free
  <2>2. TakeSeat(it, l) = [it EXCEPT !.avail = A, !.stock = n]
    BY DEF TakeSeat
  <2>. HIDE DEF A, n
  <2>. QED BY <2>1, <2>2 DEF ItemType
<1>2. ASSUME NEW l \in S PROVE ReturnSeat(it, l) \in ItemType(S)
  <2>. DEFINE A == it.avail \cup {l}
              n == Free(it) + 1
  <2>1. A \subseteq S /\ n \in Int
    BY DEF ItemType, Free
  <2>2. ReturnSeat(it, l) = [it EXCEPT !.avail = A, !.stock = n]
    BY DEF ReturnSeat
  <2>. HIDE DEF A, n
  <2>. QED BY <2>1, <2>2 DEF ItemType
<1>3. ASSUME NEW q \in Nat, NEW A \in Allocations(it, q)
      PROVE  TakeCount(it, q, A) \in ItemType(S) /\ A \subseteq S
  <2>. DEFINE B == IF Cardinality(it.avail) >= q THEN it.avail \ A ELSE {}
              n == Free(it) - q
  <2>1. B \subseteq S /\ n \in Int
    BY DEF ItemType, Free
  <2>2. A \subseteq S
    BY DEF ItemType, Allocations
  <2>3. TakeCount(it, q, A) = [it EXCEPT !.avail = B, !.stock = n]
    BY DEF TakeCount
  <2>. HIDE DEF B, n
  <2>. QED BY <2>1, <2>2, <2>3 DEF ItemType
<1>4. ASSUME NEW q \in Nat
      PROVE  ReturnCount(it, q) \in ItemType(S)
  <2>1. Cardinality(it.avail) \in Nat
    BY FS_Subset, FS_CardinalityType DEF ItemType
  <2>. DEFINE c == Cardinality(it.avail)
              m == IF Free(it) + q < c THEN Free(it) + q ELSE c
  <2>2. Free(it) + q \in Int /\ m \in Int
    BY <2>1 DEF Free, ItemType
  <2>3. ReturnCount(it, q) = IF it.seats = {}
          THEN [it EXCEPT !.avail = {}, !.stock = Free(it) + q]
          ELSE [it EXCEPT !.stock = m]
    BY DEF ReturnCount
  <2>. HIDE DEF m
  <2>. QED BY <2>2, <2>3 DEF ItemType
<1>. QED BY <1>1, <1>2, <1>3, <1>4


-----------------------------------------------------------------------------
(* The two views of the pool agree and stay within the initial stock.      *)
PoolSound(it) ==
  /\ it.avail \subseteq it.seats
  /\ it.seats # {} => it.stock = Cardinality(it.avail)
  /\ 0 <= it.stock /\ it.stock <= it.initial

(* reserve_seat counts the label it takes. *)
LEMMA TakeSeatSound ==
  ASSUME NEW S, IsFiniteSet(S), NEW it \in ItemType(S), PoolSound(it), NEW l \in S,
         CanTakeSeat(it, l)
  PROVE  PoolSound(TakeSeat(it, l))
<1>. DEFINE A == it.avail \ {l}
            n == it.stock - 1
<1>1. IsFiniteSet(it.avail) /\ l \in it.avail /\ it.stock >= 1
  BY FS_Subset DEF ItemType, CanTakeSeat, Free
<1>2. Cardinality(A) = Cardinality(it.avail) - 1
  BY <1>1, FS_RemoveElement
<1>3. TakeSeat(it, l) = [it EXCEPT !.avail = A, !.stock = n]
  BY DEF TakeSeat, Free
<1>4. /\ A \subseteq it.seats
      /\ it.seats # {} => n = Cardinality(A)
      /\ 0 <= n /\ n <= it.initial
  BY <1>1, <1>2 DEF PoolSound, ItemType
<1>. HIDE DEF A, n
<1>. QED BY <1>3, <1>4 DEF PoolSound, ItemType

(* release_seat gives back only a label that is not free. *)
LEMMA ReturnSeatSound ==
  ASSUME NEW S, IsFiniteSet(S), NEW it \in ItemType(S), PoolSound(it), NEW l \in S,
         it.initial = Cardinality(it.seats), CanReturnSeat(it, l)
  PROVE  PoolSound(ReturnSeat(it, l))
<1>. DEFINE A == it.avail \cup {l}
            n == it.stock + 1
<1>1. IsFiniteSet(it.avail) /\ IsFiniteSet(it.seats) /\ l \notin it.avail /\ l \in it.seats
  BY FS_Subset DEF ItemType, CanReturnSeat
<1>2. Cardinality(A) = Cardinality(it.avail) + 1
  BY <1>1, FS_AddElement
<1>3. A \subseteq it.seats
  BY <1>1 DEF PoolSound
<1>4. Cardinality(A) <= Cardinality(it.seats)
  BY <1>1, <1>3, FS_Subset
<1>5. ReturnSeat(it, l) = [it EXCEPT !.avail = A, !.stock = n]
  BY DEF ReturnSeat, Free
<1>6. /\ it.seats # {} => n = Cardinality(A)
      /\ 0 <= n /\ n <= it.initial
  BY <1>1, <1>2, <1>4 DEF PoolSound, ItemType
<1>. HIDE DEF A, n
<1>. QED BY <1>3, <1>5, <1>6 DEF PoolSound, ItemType

(* A request by count takes as many labels as it counts: with the counter  *)
(* equal to the pool, the pool never runs short of it.                     *)
LEMMA TakeCountSound ==
  ASSUME NEW S, IsFiniteSet(S), NEW it \in ItemType(S), PoolSound(it), NEW q \in Nat,
         CanTakeCount(it, q), NEW T \in Allocations(it, q)
  PROVE  PoolSound(TakeCount(it, q, T))
<1>. DEFINE c == Cardinality(it.avail)
            A == IF c >= q THEN it.avail \ T ELSE {}
            n == it.stock - q
<1>1. IsFiniteSet(it.avail) /\ c \in Nat /\ it.stock >= q
  BY FS_Subset, FS_CardinalityType DEF ItemType, CanTakeCount, Free
<1>2. ASSUME it.seats # {} PROVE Cardinality(A) = n
  <2>1. c = it.stock /\ c >= q
    BY <1>1, <1>2 DEF PoolSound
  <2>2. T \subseteq it.avail /\ Cardinality(T) = q
    BY <2>1 DEF Allocations
  <2>3. Cardinality(it.avail \ T) = c - Cardinality(it.avail \cap T)
    BY <1>1, FS_Difference
  <2>4. it.avail \cap T = T
    BY <2>2
  <2>. QED BY <2>1, <2>2, <2>3, <2>4
<1>3. TakeCount(it, q, T) = [it EXCEPT !.avail = A, !.stock = n]
  BY DEF TakeCount, Free
<1>4. A \subseteq it.seats /\ 0 <= n /\ n <= it.initial
  BY <1>1 DEF PoolSound, ItemType
<1>. HIDE DEF A, n
<1>. QED BY <1>2, <1>3, <1>4 DEF PoolSound, ItemType

(* Returning a count to an item with labels cannot lift the counter above  *)
(* the pool.                                                               *)
LEMMA ReturnCountSound ==
  ASSUME NEW S, IsFiniteSet(S), NEW it \in ItemType(S), PoolSound(it), NEW q \in Nat,
         CanReturnCount(it, q)
  PROVE  PoolSound(ReturnCount(it, q))
<1>. DEFINE c == Cardinality(it.avail)
            next == it.stock + q
            n == IF next < c THEN next ELSE c
<1>1. c \in Nat /\ next \in Nat /\ next <= it.initial
  BY FS_Subset, FS_CardinalityType DEF ItemType, CanReturnCount, Free, PoolSound
<1>2. CASE it.seats = {}
  <2>1. ReturnCount(it, q) = [it EXCEPT !.avail = {}, !.stock = next]
    BY <1>2 DEF ReturnCount, Free
  <2>. HIDE DEF next
  <2>. QED BY <1>1, <1>2, <2>1 DEF PoolSound, ItemType
<1>3. CASE it.seats # {}
  <2>1. ReturnCount(it, q) = [it EXCEPT !.stock = n]
    BY <1>3 DEF ReturnCount, Free
  <2>2. n = c /\ c = it.stock
    BY <1>1, <1>3 DEF PoolSound
  <2>. HIDE DEF n, c
  <2>. QED BY <1>3, <2>1, <2>2 DEF PoolSound, ItemType, c
<1>. QED BY <1>2, <1>3

(* No operation changes the labels an item has or its initial stock.       *)
LEMMA StockFixed ==
  ASSUME NEW S, NEW it \in ItemType(S)
  PROVE  /\ \A l : /\ TakeSeat(it, l).seats = it.seats /\ TakeSeat(it, l).initial = it.initial
                   /\ ReturnSeat(it, l).seats = it.seats
                   /\ ReturnSeat(it, l).initial = it.initial
         /\ \A q, T : /\ TakeCount(it, q, T).seats = it.seats
                      /\ TakeCount(it, q, T).initial = it.initial
         /\ \A q : /\ ReturnCount(it, q).seats = it.seats
                   /\ ReturnCount(it, q).initial = it.initial
  BY DEF ItemType, TakeSeat, ReturnSeat, TakeCount, ReturnCount
=============================================================================
