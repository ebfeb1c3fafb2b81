----------------------------- MODULE TicketStock -----------------------------
(***************************************************************************)
(* The stock of one ticket item and the four operations tickets-service    *)
(* performs on it (ticket.service.ts and utils/ticket.utils.ts).           *)
(*                                                                         *)
(* An item keeps two views of ONE pool: the labels still free (avail) and  *)
(* a counter (stock).  seats is the set of all its labels; an item with    *)
(* no label is sold by count only.  Every operation runs in a transaction  *)
(* that first takes SELECT ... FOR UPDATE on the ticket's row              *)
(* (withTicketRowLock), so it is one atomic step: a predicate that says    *)
(* whether the request is accepted, and the item after it.                 *)
(*                                                                         *)
(* Labels are elements of a set: the display order kept by sortSeatLabels  *)
(* decides only WHICH free labels a request by count receives, and that    *)
(* choice is left open (Allocations).  Prices, names and dates are left    *)
(* out; the sale window is the Boolean open.                               *)
(***************************************************************************)
EXTENDS Integers, FiniteSets

(* Both counters are set, as normalizeTicketItemStock leaves them for any  *)
(* item with labels or with a declared stock.                              *)
ItemType(S) ==
  [seats: SUBSET S, avail: SUBSET S, initial: Nat, stock: Int,
   prepared: BOOLEAN, open: BOOLEAN]

(* ensureItemCanBeSold *)
Sellable(item) == item.prepared /\ item.open

(* getAvailableStock: the counter is authoritative once set. *)
Free(item) == item.stock

(* reserveSeatInternal: one chosen label. *)
CanTakeSeat(item, l) ==
  /\ Sellable(item)
  /\ l \in item.seats
  /\ l \in item.avail
  /\ Free(item) >= 1

(* Mutant: the counter is not decremented.                                 *)
TakeSeatUncounted(item, l) == [item EXCEPT !.avail = @ \ {l}]

TakeSeat(item, l) ==
  [item EXCEPT !.avail = @ \ {l}, !.stock = Free(item) - 1]

(* Mutant: the counter is not compared with what is asked for.             *)
CanTakeCountSoldOut(item, q) == Sellable(item)

(* reserve by count, through consumeAvailableStock. *)
CanTakeCount(item, q) == Sellable(item) /\ Free(item) >= q

(* The labels a request by count may be handed: q of the free ones, or     *)
(* none at all when fewer than q are free although the counter allows it.  *)
Allocations(item, q) ==
  IF Cardinality(item.avail) >= q
  THEN {S \in SUBSET item.avail : Cardinality(S) = q}
  ELSE {{}}

(* In the second case of Allocations the code empties the label pool.      *)
TakeCount(item, q, S) ==
  [item EXCEPT
     !.avail = IF Cardinality(@) >= q THEN @ \ S ELSE {},
     !.stock = Free(item) - q]

(* Mutant: a label that is free already is handed back again.              *)
CanReturnSeatTwice(item, l) == l \in item.seats

(* releaseSeatInternal: refused when the label is free already.            *)
CanReturnSeat(item, l) == l \in item.seats /\ l \notin item.avail

ReturnSeat(item, l) ==
  [item EXCEPT !.avail = @ \cup {l}, !.stock = Free(item) + 1]

(* Mutant: the initial stock is no ceiling.                                *)
CanReturnCountUnbounded(item, q) == TRUE

(* release by count, through returnStockToPool without labels.             *)
CanReturnCount(item, q) == Free(item) + q <= item.initial

ReturnCount(item, q) ==
  LET next == Free(item) + q
      free == Cardinality(item.avail)
  IN  IF item.seats = {}
      THEN [item EXCEPT !.avail = {}, !.stock = next]
      ELSE [item EXCEPT !.stock = IF next < free THEN next ELSE free]
=============================================================================
