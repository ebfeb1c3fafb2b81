--------------------------- MODULE TicketInventory ---------------------------
(***************************************************************************)
(* The database side of tickets-service (TicketBaseService in              *)
(* ticket.service.ts with utils/ticket.utils.ts): one ticket, its items,   *)
(* and the calls of customers and operators on them.                       *)
(*                                                                         *)
(* Every change of an item writes its WHOLE row from what the transaction  *)
(* read, so what keeps two calls from undoing each other is the row lock   *)
(* on the ticket: a call waits for it, reads the ticket, then commits.     *)
(* Calls on the ticket row itself (publish, update, remove) and inserts    *)
(* check first and write later without the lock, but wait for it to be     *)
(* free.  TicketStock says what a sale or a return does to the pool.       *)
(*                                                                         *)
(* Texts, images, prices and journey dates are left out.  Times are whole  *)
(* numbers up to MaxClock.  A request names an operation, an item (Unset:  *)
(* none, or all of them) and a payload, which has only the fields the      *)
(* caller sent; Unset is also a column that is null.                       *)
(***************************************************************************)
EXTENDS TicketStock, Sequences

CONSTANTS
  Items, Labels,  \* the items of the ticket and all seat labels
  Callers,        \* calls that may be in progress at a time
  Unset,          \* null
  MaxClock,       \* bound on time
  Starts          \* the starting situations: [ticket, item, quota], where
                  \* quota is the set of calls that will be made

VARIABLES
  ticket,     \* the ticket's row: its state and its status
  item,       \* the rows of its items
  lock,       \* the caller whose transaction holds the ticket's row lock
  call,       \* what each caller is doing
  clock,      \* the time
  quota,      \* the calls still to come
  held,       \* history: the labels customers hold
  out,        \* history: the units customers hold without a label
  rewritten,  \* history: items whose pool an operator has dictated
  closed      \* history: when closeSale closed an item whose end of sale
              \* nobody has set since

ivars == <<ticket, item, lock, call, clock, quota, held, out, rewritten, closed>>

Idle == [stage |-> "idle", req |-> Unset, seen |-> Unset]

Time == 0..MaxClock

(* The columns of ticket_items.                                            *)
ItemRows ==
  [state: {"absent", "live", "deleted"}, seats: SUBSET Labels, avail: SUBSET Labels,
   initial: Nat \cup {Unset}, stock: Nat \cup {Unset}, prepared: BOOLEAN,
   start: Time \cup {Unset}, end: Time \cup {Unset}]

InventoryTypeOK ==
  /\ ticket \in [state: {"none", "live", "deleted"}, status: {"Draft", "Published"}]
  /\ item \in [Items -> ItemRows]
  /\ lock \in Callers \cup {Unset}
  /\ \A c \in Callers :
       call[c].stage \in {"idle", "check", "apply", "lock", "read", "write"}
  /\ clock \in Time
  /\ held \in [Items -> SUBSET Labels] /\ out \in [Items -> Int]
  /\ rewritten \subseteq Items
  /\ closed \in [Items -> Time \cup {Unset}]

-----------------------------------------------------------------------------
(* Operators on rows and payloads.                                         *)

Given(p, f, default) == IF f \in DOMAIN p THEN p[f] ELSE default

(* mergeTicketItem, and the UPDATE that skips undefined columns.           *)
Merge(it, p) ==
  [state |-> it.state,
   seats |-> Given(p, "seats", it.seats), avail |-> Given(p, "avail", it.avail),
   initial |-> Given(p, "initial", it.initial), stock |-> Given(p, "stock", it.stock),
   prepared |-> Given(p, "prepared", it.prepared),
   start |-> Given(p, "start", it.start), end |-> Given(p, "end", it.end)]

Active(rows) == {i \in Items : rows[i].state = "live"}

(* A missing counter is filled in from the labels.                         *)
Normalise(it) ==
  LET initial == IF it.initial = Unset /\ it.seats # {}
                 THEN Cardinality(it.seats) ELSE it.initial
      stock   == IF it.stock # Unset THEN it.stock
                 ELSE IF it.avail # {} THEN Cardinality(it.avail) ELSE initial
  IN  [it EXCEPT !.initial = initial, !.stock = stock]

(* Mutant: an item is on sale until an end that lies before its start.     *)
IsSaleOpenEndIgnored(it) == it.start = Unset \/ it.start <= clock

IsSaleOpen(it) ==
  /\ it.start # Unset => it.start <= clock
  /\ it.end # Unset => clock <= it.end

(* What TicketStock needs of a row: getAvailableStock, the ceiling of      *)
(* returnStockToPool and ensureItemCanBeSold.                              *)
View(it) ==
  [seats |-> it.seats, avail |-> it.avail, prepared |-> it.prepared, open |-> IsSaleOpen(it),
   stock |-> IF it.stock # Unset THEN it.stock ELSE Cardinality(it.avail),
   initial |-> IF it.initial # Unset THEN it.initial
               ELSE Cardinality(IF it.seats # {} THEN it.seats ELSE it.avail)]

Stocked(it, v) == Normalise([it EXCEPT !.avail = v.avail, !.stock = v.stock])

(* seatMap and toTicketItemResponse: what customers are shown as taken.    *)
OccupiedLabels(it) == it.seats \ it.avail

GoodWindow(p) ==
  LET start == Given(p, "start", Unset)  end == Given(p, "end", Unset)
  IN  start # Unset /\ end # Unset => start <= end

BuildItem(p) ==
  LET seats == Given(p, "seats", {})
      avail == Given(p, "avail", seats)
  IN  Normalise(
        [state |-> "live", seats |-> seats, avail |-> avail,
         initial |-> Given(p, "initial", Unset), stock |-> Given(p, "stock", Unset),
         prepared |-> Given(p, "prepared", avail # {}),
         start |-> Given(p, "start", Unset), end |-> Given(p, "end", Unset)])

(* prepareStock: every label is free, whatever has been sold.              *)
PrepareItem(it, p) ==
  LET sent    == Given(p, "avail", {})
      labels  == IF sent # {} THEN sent ELSE it.seats
      known   == IF it.initial # Unset THEN it.initial ELSE Cardinality(labels)
      initial == Given(p, "initial", known)
  IN  Normalise(
        [it EXCEPT !.seats = labels, !.avail = IF labels = {} THEN @ ELSE labels,
                   !.stock = IF labels = {} THEN initial ELSE Cardinality(labels),
                   !.initial = initial, !.prepared = TRUE])

(* The fields of an operator's payload that dictate the pool.              *)
PoolFields == {"seats", "avail", "initial", "stock"}

-----------------------------------------------------------------------------
(* A call, its row lock and its end.                                       *)

(* Operations under withTicketRowLock, and those of them on one item.      *)
ItemOps == {"reserve", "reserveSeat", "release", "releaseSeat", "updateItem", "removeItem",
            "price", "window"}
LockedOps == ItemOps \cup {"prepare", "open", "close"}

(* What the DTOs let through.  (prepareStock takes null for not sent.)     *)
IsPatch(p) ==
  /\ Given(p, "seats", {}) \subseteq Labels /\ Given(p, "avail", {}) \subseteq Labels
  /\ Given(p, "initial", 0) \in Nat \cup {Unset} /\ Given(p, "stock", 0) \in Nat \cup {Unset}
  /\ Given(p, "prepared", TRUE) \in BOOLEAN
  /\ Given(p, "start", 0) \in Time \cup {Unset} /\ Given(p, "end", 0) \in Time \cup {Unset}

Statuses == {"Draft", "Published"}

IsRequest(r) ==
  /\ r.op \in LockedOps \cup {"create", "addItem", "updateTicket", "removeTicket", "crash"}
  /\ r.i \in Items \cup {Unset} /\ (r.op \in ItemOps => r.i # Unset)
  /\ r.op \in {"reserve", "release"} => r.p.quantity \in Nat \ {0}
  /\ r.op = "reserveSeat" => r.p.label \in Labels
  /\ r.op = "releaseSeat" => r.p.labels \in Seq(Labels) /\ r.p.labels # <<>>
  /\ r.op \in {"updateItem", "prepare", "open", "window"} => IsPatch(r.p)
  /\ r.op = "prepare" => Given(r.p, "initial", 0) # Unset
  /\ r.op \in {"open", "window"} => DOMAIN r.p \subseteq {"start", "end"}
  /\ r.op \in {"create", "addItem"} =>
       /\ DOMAIN r.p.items \subseteq Items
       /\ \A i \in DOMAIN r.p.items : IsPatch(r.p.items[i])
  /\ r.op = "create" => r.p.status \in Statuses
  /\ r.op = "updateTicket" => Given(r.p, "status", "Draft") \in Statuses

(* Nobody holds anything yet.                                              *)
IsStart(s) ==
  /\ s.ticket \in [state: {"none", "live", "deleted"}, status: Statuses]
  /\ s.item \in [Items -> ItemRows]
  /\ \A i \in Items : s.item[i].state # "absent" =>
       /\ s.item[i].avail = s.item[i].seats
       /\ IF s.item[i].seats # {} THEN s.item[i].stock = Cardinality(s.item[i].seats)
          ELSE s.item[i].initial # Unset => s.item[i].stock = s.item[i].initial
  /\ \A r \in s.quota : IsRequest(r)

ASSUME InventoryAssumption ==
  /\ IsFiniteSet(Labels)
  /\ MaxClock \in Nat
  /\ Unset \notin Nat /\ Unset \notin Items /\ Unset \notin Callers
  /\ \A s \in Starts : IsStart(s)

InitInventory ==
  /\ \E s \in Starts : ticket = s.ticket /\ item = s.item /\ quota = s.quota
  /\ lock = Unset
  /\ call = [c \in Callers |-> Idle]
  /\ clock = 0
  /\ held = [i \in Items |-> {}]
  /\ out = [i \in Items |-> 0]
  /\ rewritten = {}
  /\ closed = [i \in Items |-> Unset]

history == <<held, out, rewritten, closed>>

FirstStage(op) ==
  IF op \in LockedOps THEN "lock" ELSE IF op = "create" THEN "apply" ELSE "check"

StartCall(c) ==
  /\ call[c].stage = "idle"
  /\ \E r \in quota :
       /\ r.op # "crash"
       /\ quota' = quota \ {r}
       /\ call' = [call EXCEPT ![c] =
            [stage |-> FirstStage(r.op), req |-> r, seen |-> Unset]]
  /\ UNCHANGED <<ticket, item, lock, clock, history>>

Finish(c) ==
  /\ call' = [call EXCEPT ![c] = Idle]
  /\ lock' = IF lock = c THEN Unset ELSE lock

(* The service dies: the transaction rolls back, its locks are freed.      *)
Crash ==
  /\ \E r \in quota : r.op = "crash" /\ quota' = quota \ {r}
  /\ call' = [c \in Callers |-> Idle]
  /\ lock' = Unset
  /\ UNCHANGED <<ticket, item, clock, history>>

AllEnded ==
  (\A r \in quota : r.op = "crash") /\ (\A c \in Callers : call[c].stage = "idle")

(* Bound: time stands still when nobody calls any more.                    *)
Tick ==
  /\ clock < MaxClock /\ ~AllEnded
  /\ clock' = clock + 1
  /\ UNCHANGED <<ticket, item, lock, call, quota, history>>

(* Mutant: the transaction reads the ticket without locking its row.       *)
LockRowFree(c) == TRUE

LockRow(c) == lock = Unset

TakeRowLock(c) ==
  /\ call[c].stage = "lock"
  /\ LockRow(c)
  /\ lock' = c
  /\ call' = [call EXCEPT ![c].stage = "read"]
  /\ UNCHANGED <<ticket, item, clock, quota, history>>

(* getTicketOrThrow inside the transaction.                                *)
ReadTicket(c) ==
  /\ call[c].stage = "read"
  /\ IF ticket.state = "live"
     THEN /\ call' = [call EXCEPT ![c].stage = "write", ![c].seen = item]
          /\ UNCHANGED lock
     ELSE Finish(c)
  /\ UNCHANGED <<ticket, item, clock, quota, history>>

(* The conditions under which a call commits on the rows it has read.      *)
Accepts(r, seen) ==
  LET it == seen[r.i]
  IN  /\ r.op \in ItemOps => r.i \in Active(seen)
      /\ r.op = "reserve" => CanTakeCount(View(it), r.p.quantity)
      /\ r.op = "reserveSeat" => CanTakeSeat(View(it), r.p.label)
      /\ r.op = "release" => CanReturnCount(View(it), r.p.quantity)
      /\ r.op = "releaseSeat" => CanReturnSeat(View(it), Head(r.p.labels))
      /\ r.op \in {"updateItem", "open", "window"} => GoodWindow(r.p)

Commits(c, op) ==
  /\ call[c].stage = "write" /\ call[c].req.op = op
  /\ Accepts(call[c].req, call[c].seen)

Refuse(c) ==
  /\ call[c].stage = "write"
  /\ ~Accepts(call[c].req, call[c].seen)
  /\ Finish(c)
  /\ UNCHANGED <<ticket, item, clock, quota, history>>

(* Writes the row of an item, or these rows, and ends the transaction.     *)
Write(c, i, row) ==
  /\ item' = [item EXCEPT ![i] = row]
  /\ Finish(c)
  /\ UNCHANGED <<ticket, clock, quota>>

WriteAll(c, rows) ==
  /\ item' = [i \in Items |-> IF i \in DOMAIN rows THEN rows[i] ELSE item[i]]
  /\ Finish(c)
  /\ UNCHANGED <<ticket, clock, quota>>

-----------------------------------------------------------------------------
(* Sales and returns.                                                      *)

Reserve(c) ==
  /\ Commits(c, "reserve")
  /\ LET r == call[c].req  it == call[c].seen[r.i]  q == r.p.quantity
     IN  \E S \in Allocations(View(it), q) :
           /\ Write(c, r.i, Stocked(it, TakeCount(View(it), q, S)))
           /\ held' = [held EXCEPT ![r.i] = @ \cup S]
           /\ out' = [out EXCEPT ![r.i] = @ + q - Cardinality(S)]
  /\ UNCHANGED <<rewritten, closed>>

ReserveSeat(c) ==
  /\ Commits(c, "reserveSeat")
  /\ LET r == call[c].req  it == call[c].seen[r.i]
     IN  /\ Write(c, r.i, Stocked(it, TakeSeat(View(it), r.p.label)))
         /\ held' = [held EXCEPT ![r.i] = @ \cup {r.p.label}]
  /\ UNCHANGED <<out, rewritten, closed>>

Release(c) ==
  /\ Commits(c, "release")
  /\ LET r == call[c].req  it == call[c].seen[r.i]
     IN  /\ Write(c, r.i, Stocked(it, ReturnCount(View(it), r.p.quantity)))
         /\ out' = [out EXCEPT ![r.i] = IF it.seats = {} THEN @ - r.p.quantity ELSE @]
  /\ UNCHANGED <<held, rewritten, closed>>

(* One label; release with several labels runs one transaction for each    *)
(* and stops at the first that is refused.                                 *)
ReleaseSeat(c) ==
  /\ Commits(c, "releaseSeat")
  /\ LET r == call[c].req  it == call[c].seen[r.i]  l == Head(r.p.labels)
     IN  /\ item' = [item EXCEPT ![r.i] = Stocked(it, ReturnSeat(View(it), l))]
         /\ held' = [held EXCEPT ![r.i] = @ \ {l}]
         /\ IF Len(r.p.labels) = 1 THEN Finish(c)
            ELSE /\ call' = [call EXCEPT ![c] =
                      [stage |-> "lock", seen |-> Unset,
                       req |-> [op |-> r.op, i |-> r.i, p |-> [labels |-> Tail(r.p.labels)]]]]
                 /\ lock' = Unset
  /\ UNCHANGED <<ticket, clock, quota, out, rewritten, closed>>

-----------------------------------------------------------------------------
(* Operators' calls under the row lock.                                    *)

(* Items whose end of sale a payload sets are no longer closed.            *)
Reopened(targets, p) ==
  closed' = [i \in Items |->
    IF i \in targets /\ "end" \in DOMAIN p THEN Unset ELSE closed[i]]

UpdateTicketItem(c) ==
  /\ Commits(c, "updateItem")
  /\ LET r == call[c].req
     IN  /\ Write(c, r.i, Normalise(Merge(call[c].seen[r.i], r.p)))
         /\ rewritten' = IF PoolFields \cap DOMAIN r.p # {} THEN rewritten \cup {r.i}
                         ELSE rewritten
         /\ Reopened({r.i}, r.p)
  /\ UNCHANGED <<held, out>>

RemoveTicketItem(c) ==
  /\ Commits(c, "removeItem")
  /\ LET i == call[c].req.i
     IN  Write(c, i, [call[c].seen[i] EXCEPT !.state = "deleted"])
  /\ UNCHANGED history

(* A price is no part of the model, but the whole row is written.          *)
ChangePrice(c) ==
  /\ Commits(c, "price")
  /\ LET i == call[c].req.i IN Write(c, i, call[c].seen[i])
  /\ UNCHANGED history

ChangeSaleWindow(c) ==
  /\ Commits(c, "window")
  /\ LET r == call[c].req
     IN  /\ Write(c, r.i, Merge(call[c].seen[r.i], r.p))
         /\ Reopened({r.i}, r.p)
  /\ UNCHANGED <<held, out, rewritten>>

(* The items a call without ticketItemId is for: all that are live.        *)
Targets(c) ==
  {i \in Active(call[c].seen) : call[c].req.i = Unset \/ call[c].req.i = i}

PrepareStock(c) ==
  /\ Commits(c, "prepare")
  /\ LET r == call[c].req
     IN  /\ WriteAll(c, [i \in Targets(c) |-> PrepareItem(call[c].seen[i], r.p)])
         /\ rewritten' = rewritten \cup
              {i \in Targets(c) : held[i] # {} \/ out[i] # 0 \/ "initial" \in DOMAIN r.p}
  /\ UNCHANGED <<held, out, closed>>

(* The start is now unless given; an end that is not given is kept.        *)
OpenSale(c) ==
  /\ Commits(c, "open")
  /\ LET r == call[c].req
     IN  /\ WriteAll(c, [i \in Targets(c) |->
              [Merge(call[c].seen[i], r.p) EXCEPT !.start = Given(r.p, "start", clock)]])
         /\ Reopened(Targets(c), r.p)
  /\ UNCHANGED <<held, out, rewritten>>

CloseSale(c) ==
  /\ Commits(c, "close")
  /\ WriteAll(c, [i \in Targets(c) |-> [call[c].seen[i] EXCEPT !.end = clock]])
  /\ closed' = [i \in Items |-> IF i \in Targets(c) THEN clock ELSE closed[i]]
  /\ UNCHANGED <<held, out, rewritten>>

-----------------------------------------------------------------------------
(* Calls outside the row lock.                                             *)

(* Each item gets an id nobody has (randomUUID).                           *)
InsertRows(rows) ==
  /\ \A i \in DOMAIN rows : item[i].state = "absent"
  /\ item' = [i \in Items |-> IF i \in DOMAIN rows THEN BuildItem(rows[i]) ELSE item[i]]
  /\ rewritten' = rewritten \cup
       {i \in DOMAIN rows : (PoolFields \ {"seats"}) \cap DOMAIN rows[i] # {}}

ItemsHaveGoodWindows(c) ==
  LET items == call[c].req.p.items IN \A i \in DOMAIN items : GoodWindow(items[i])

(* create: the ticket, then its items, in two statements.                  *)
Create(c) ==
  /\ call[c].stage = "apply" /\ call[c].req.op = "create"
  /\ IF ticket.state = "none" /\ ItemsHaveGoodWindows(c)
     THEN /\ ticket' = [state |-> "live", status |-> call[c].req.p.status]
          /\ call' = [call EXCEPT ![c].req = [op |-> "addItem", i |-> Unset, p |-> @.p]]
          /\ UNCHANGED lock
     ELSE Finish(c) /\ UNCHANGED ticket
  /\ UNCHANGED <<item, clock, quota, history>>

(* getTicketOrThrow of addTicketItem, update, publish, unpublish, remove.  *)
CheckTicket(c) ==
  /\ call[c].stage = "check"
  /\ IF ticket.state = "live"
     THEN call' = [call EXCEPT ![c].stage = "apply"] /\ UNCHANGED lock
     ELSE Finish(c)
  /\ UNCHANGED <<ticket, item, clock, quota, history>>

AddTicketItem(c) ==
  /\ call[c].stage = "apply" /\ call[c].req.op = "addItem"
  /\ lock = Unset
  /\ IF ItemsHaveGoodWindows(c)
     THEN InsertRows(call[c].req.p.items)
     ELSE UNCHANGED <<item, rewritten>>
  /\ Finish(c)
  /\ UNCHANGED <<ticket, clock, quota, held, out, closed>>

(* The UPDATE of update, publish and unpublish, on a ticket that may have  *)
(* been deleted since it was checked.                                      *)
UpdateTicket(c) ==
  /\ call[c].stage = "apply" /\ call[c].req.op = "updateTicket"
  /\ lock = Unset
  /\ ticket' = [ticket EXCEPT !.status = Given(call[c].req.p, "status", @)]
  /\ Finish(c)
  /\ UNCHANGED <<item, clock, quota, history>>

RemoveTicket(c) ==
  /\ call[c].stage = "apply" /\ call[c].req.op = "removeTicket"
  /\ lock = Unset
  /\ ticket' = [ticket EXCEPT !.state = "deleted"]
  /\ Finish(c)
  /\ UNCHANGED <<item, clock, quota, history>>

NextInventory ==
  \/ \E c \in Callers :
       \/ StartCall(c) \/ TakeRowLock(c) \/ ReadTicket(c) \/ Refuse(c)
       \/ Reserve(c) \/ ReserveSeat(c) \/ Release(c) \/ ReleaseSeat(c)
       \/ UpdateTicketItem(c) \/ RemoveTicketItem(c) \/ ChangePrice(c) \/ ChangeSaleWindow(c)
       \/ PrepareStock(c) \/ OpenSale(c) \/ CloseSale(c)
       \/ Create(c) \/ CheckTicket(c) \/ AddTicketItem(c) \/ UpdateTicket(c) \/ RemoveTicket(c)
  \/ Crash
  \/ Tick
  \/ AllEnded /\ UNCHANGED ivars

SpecInventory == InitInventory /\ [][NextInventory]_ivars

-----------------------------------------------------------------------------
(* Properties.                                                             *)

(* A label in a customer's hands is shown as taken, so it cannot be sold   *)
(* again, unless an operator dictated the pool.  (reserve by count used to *)
(* leave its labels free: consumeAvailableStock.)                          *)
HeldSeatIsTaken ==
  \A i \in Items \ rewritten : held[i] \subseteq OccupiedLabels(item[i])

(* Seats are conserved: every label of an item is free or in someone's     *)
(* hands and the counter counts the free ones; an item without labels      *)
(* counts what is not sold.  Calls of every kind, crashes and partly done  *)
(* releases leave it so, unless an operator dictated the pool.             *)
PoolConserved ==
  \A i \in Items \ rewritten :
    item[i].state # "absent" =>
      IF item[i].seats # {}
      THEN /\ item[i].seats = item[i].avail \cup held[i]
           /\ item[i].stock = Cardinality(item[i].avail)
      ELSE item[i].initial # Unset => item[i].stock + out[i] = item[i].initial

(* closeSale is final until someone sets a new end of sale: nothing is     *)
(* sold later than the closing, not by a call already waiting for the row  *)
(* lock, and not after an openSale that gives no end.                      *)
ClosedSaleSellsNothing ==
  [][\A i \in Items :
       closed[i] # Unset /\ clock > closed[i] =>
         held'[i] \subseteq held[i] /\ out'[i] <= out[i]]_ivars
=============================================================================
