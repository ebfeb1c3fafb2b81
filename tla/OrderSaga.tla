------------------------------ MODULE OrderSaga ------------------------------
(***************************************************************************)
(* The order saga of orders-service (order.service.ts) against one ticket  *)
(* item of tickets-service and the payment rows of payments-service.       *)
(*                                                                         *)
(* A WORKER is one handler in flight: an RPC request, an event delivery or *)
(* a cron iteration.  One step of a worker is one database statement or    *)
(* one RPC of the handler, so whatever was read in an earlier step (snap)  *)
(* may be stale when it is used.  A handler's program counter is its pc.   *)
(*                                                                         *)
(* What the model leaves out: prices and vouchers' amounts, passengers,    *)
(* notifications, read-only handlers, the status Draft (no code writes     *)
(* it) and the database errors that end a handler; one that releaseUsage   *)
(* swallows counts as an "error".  An order is named by its idempotency    *)
(* key, which is unique in the orders table even among removed rows, so at *)
(* most one order exists per key.                                          *)
(***************************************************************************)
EXTENDS TicketStock

CONSTANTS
  Orders,        \* idempotency keys: each names at most one order
  Seats,         \* labels of the ticket item, {} when sold by count only
  InitialStock,  \* its declared stock
  Wanted,        \* Wanted[o]: the labels the customer of o chose
  Extra,         \* Extra[o]: places of o wanted beyond the chosen labels
  UsesVoucher,   \* orders placed with the one voucher of the model
  VoucherLimit,  \* its usage limit
  Slots,         \* bound: payment rows an order may ever have
  Workers,       \* bound: handlers in flight at once
  MaxRetries,    \* retries of a failed release (3 in the code)
  CronBatch,     \* EXPIRED_ORDERS_CRON_BATCH_SIZE (100 in the code)
  Commands,      \* bound: the requests that customers and operators send
  Limit,         \* bound: how often each kind of event happens
  None

Faults == {"error", "timeout", "crash", "duplicate"}
RequestKinds == {"cancelWorkflow", "refund", "markPendingPayment", "markPaid",
             "confirm", "issueTicket", "expire"}
Kinds == Faults \cup {"command", "resubmit", "remove", "age"}

ASSUME SagaAssumption ==
  /\ IsFiniteSet(Seats) /\ None \notin Seats
  /\ InitialStock \in Nat
  /\ Seats # {} => InitialStock = Cardinality(Seats)
  /\ Wanted \in [Orders -> SUBSET Seats]
  /\ Extra \in [Orders -> Nat]
  /\ UsesVoucher \subseteq Orders
  /\ VoucherLimit \in Nat
  /\ MaxRetries \in Nat
  /\ CronBatch \in Nat \ {0}
  /\ Commands \subseteq RequestKinds
  /\ Limit \in [Kinds -> Nat]
  /\ None \notin Slots
  /\ None \notin Orders

VARIABLES
  status,      \* status[o]: the order row's status, "None" before the row exists
  labels,      \* labels[o]: its rows in order_seat_labels
  removed,     \* soft-deleted orders
  vouchers,    \* orders whose voucher usage row exists
  item,        \* the ticket item (tickets-service)
  pay,         \* pay[o][s]: status of a payment row (payments-service)
  paidEvents,  \* payment.paid events not yet consumed, as <<order, slot>>
  expiry,      \* orders with a message in the expiration queue
  aged,        \* orders older than ORDER_EXPIRATION_TTL_MS
  older,       \* older[o]: the orders created before o (the order of createdAt)
  submitted,   \* orders whose checkout was requested at least once
  task,        \* task[w]: the handler that worker w runs
  late,        \* requests whose caller gave up, still queued at their service
  used,        \* used[k]: how much of Limit[k] is spent
  \* history, read by no action:
  settled,     \* <<order, slot>> payments the payer ever settled
  manual,      \* orders an operator marked as paid by hand
  returned,    \* returned[o]: parts of o a cancel or refund handed back
  rolledBack,  \* orders cancelled by the rollback of a checkout
  unfreed,     \* orders a release of whose voucher failed or was skipped
  stranded     \* seats of a checkout that joined an order placed before

orderVars == <<status, labels, removed, vouchers>>
payVars == <<pay, paidEvents>>
clientVars == <<expiry, aged, older, submitted>>
ghostVars == <<settled, manual, returned, rolledBack, unfreed, stranded>>
vars == <<orderVars, item, payVars, clientVars, task, late, used, ghostVars>>

Open == {"PendingPayment", "Paid", "Confirmed", "TicketIssued"}
Closed == {"Cancelled", "Expired", "Refunded"}
Status == {"None", "Cancelling", "RefundPending"} \cup Open \cup Closed
PayStatus == {"Absent", "Pending", "Paid", "Cancelled", "Refunded"}

Steps ==
  {"idle", "co_lookup", "co_reserve", "co_create", "co_pay",
   "rb_read", "rb_cancel", "rb_voucher", "rel_seats", "rel_count",
   "cw_read", "cw_claim", "cw_voucher", "cw_commit",
   "list_open", "cancel_open", "list_paid", "refund_paid",
   "rf_read", "rf_claim", "rf_commit", "pp_read", "pp_verify", "pp_next",
   "tr_read", "tr_write", "it_read", "it_write", "ec_read", "ec_verify"}
Jobs == {"none", "checkout", "cancel", "refund", "paid", "mark", "issue", "check"}

TaskType ==
  [pc: Steps, entry: Steps, job: Jobs, order: Orders \cup {None},
   ref: Slots \cup {None}, snap: Status, target: Status,
   held: SUBSET Seats, qty: Nat, pend: SUBSET Seats, pays: SUBSET Slots,
   tries: Nat, ok: BOOLEAN]

Blank ==
  [pc |-> "idle", entry |-> "idle", job |-> "none", order |-> None,
   ref |-> None, snap |-> "None", target |-> "None",
   held |-> {}, qty |-> 0, pend |-> {}, pays |-> {},
   tries |-> MaxRetries, ok |-> TRUE]

Init ==
  /\ status = [o \in Orders |-> "None"]
  /\ labels = [o \in Orders |-> {}]
  /\ removed = {} /\ vouchers = {}
  /\ item = [seats |-> Seats, avail |-> Seats, initial |-> InitialStock,
             stock |-> InitialStock, prepared |-> TRUE, open |-> TRUE]
  /\ pay = [o \in Orders |-> [s \in Slots |-> "Absent"]]
  /\ paidEvents = {} /\ expiry = {} /\ aged = {} /\ submitted = {}
  /\ task = [w \in Workers |-> Blank]
  /\ late = {}
  /\ used = [k \in Kinds |-> 0]
  /\ older = [o \in Orders |-> {}]
  /\ settled = {} /\ manual = {} /\ rolledBack = {} /\ unfreed = {}
  /\ stranded = {}
  /\ returned = [o \in Orders |-> {}]
-----------------------------------------------------------------------------
(* Reading and writing an order row.                                       *)

(* getOrderOrThrow finds the row. *)
Exists(o) == status[o] # "None" /\ o \notin removed

(* UPDATE ... WHERE status = from AND deleted_at IS NULL found the row.    *)
Matches(o, from) == status[o] = from /\ o \notin removed

SetStatus(o, s) == status' = [status EXCEPT ![o] = s]

(* Math.max(0, order.quantity - order.seatLabels.length) *)
CountPart(o) ==
  LET n == Cardinality(Wanted[o]) + Extra[o] - Cardinality(labels[o])
  IN  IF n > 0 THEN n ELSE 0

(* Everything an order must hand back; None is its part by count.          *)
Parts(o) == labels[o] \cup (IF CountPart(o) > 0 THEN {None} ELSE {})

(* Mutant: confirm accepts an order that was never paid.                   *)
AllowedForUnpaid(target) ==
  CASE target = "PendingPayment" -> {"PendingPayment", "Expired"}
    [] target = "Paid"           -> {"PendingPayment"}
    [] target = "Confirmed"      -> {"PendingPayment", "Paid", "TicketIssued"}
    [] target = "Expired"        -> {"PendingPayment"}
    [] OTHER                     -> {}

(* transitionStatus: where each operation may start from.                  *)
AllowedFor(target) ==
  CASE target = "PendingPayment" -> {"PendingPayment", "Expired"}
    [] target = "Paid"           -> {"PendingPayment"}
    [] target = "Confirmed"      -> {"Paid", "TicketIssued"}
    [] target = "Expired"        -> {"PendingPayment"}
    [] OTHER                     -> {}

Refundable == {"Paid", "Confirmed", "TicketIssued", "Cancelled", "Expired"}

(* Bookkeeping of the bounded kinds. *)
Spend(k) == used[k] < Limit[k] /\ used' = [used EXCEPT ![k] = @ + 1]

At(w, pc) == task[w].pc = pc
Become(w, t) == task' = [task EXCEPT ![w] = t]
Goto(w, pc) == Become(w, [task[w] EXCEPT !.pc = pc])
Finish(w) == Become(w, Blank)

(* The requests whose effect can come late.                                *)
Request(op, w, seat, slot, qty) ==
  [op |-> op, order |-> task[w].order, seat |-> seat, slot |-> slot,
   qty |-> qty, by |-> w, tries |-> task[w].tries]
SeatRequest(op, w, l) == Request(op, w, l, None, 0)
CountRequest(op, w, q) == Request(op, w, None, None, q)
PayRequest(op, w, s) == Request(op, w, None, s, 0)

LateType ==
  [op: {"reserve_seat", "reserve", "release_seat", "release",
        "payments.create", "payments.cancel", "payments.markRefunded"},
   order: Orders, seat: Seats \cup {None}, slot: Slots \cup {None},
   qty: Nat, by: Workers, tries: Nat]

(* An RPC that the caller sees fail: it was refused or lost before the     *)
(* service took it ("error"), or the answer did not come within            *)
(* ORDER_RPC_TIMEOUT_MS and the requests stay in the service's durable     *)
(* queue ("timeout").                                                      *)
RpcFails(requests) ==
  \/ Spend("error") /\ UNCHANGED late
  \/ Spend("timeout") /\ late' = late \cup requests
-----------------------------------------------------------------------------
(* Tasks.                                                                  *)

JobOf(entry) ==
  CASE entry = "co_lookup" -> "checkout"
    [] entry = "cw_read"   -> "cancel"
    [] entry = "rf_read"   -> "refund"
    [] entry = "tr_read"   -> "mark"
    [] entry = "it_read"   -> "issue"
    [] entry = "pp_read"   -> "paid"
    [] entry = "ec_read"   -> "check"
    [] OTHER               -> "none"

NewTask(entry, o) ==
  [Blank EXCEPT !.pc = entry, !.entry = entry, !.job = JobOf(entry), !.order = o]

(* Mutant: the redelivered message has lost its order.                     *)
RestartedAnonymous(t) ==
  IF t.entry = "idle" THEN Blank ELSE [NewTask(t.entry, None) EXCEPT !.ref = t.ref]

(* The same message delivered again: nothing of the first run survives.    *)
(* A cron iteration (entry "idle") is simply gone.                         *)
Restarted(t) ==
  IF t.entry = "idle" THEN Blank
  ELSE [NewTask(t.entry, t.order) EXCEPT
          !.ref = t.ref,
          !.target = IF t.entry = "tr_read" THEN t.target ELSE "None"]

(* What follows releaseReservation in each of its three callers.           *)
AfterRelease(t, ok) ==
  LET rest == [Blank EXCEPT !.entry = t.entry, !.job = t.job, !.order = t.order,
                            !.ref = t.ref, !.snap = t.snap, !.ok = ok]
  IN  CASE t.job = "cancel"       -> [rest EXCEPT !.pc = "cw_voucher"]
        [] t.job = "refund" /\ ok -> [rest EXCEPT !.pc = "rf_commit"]
        [] OTHER                  -> Blank

(* Mutant: a failed checkout releases the labels that were asked for, not  *)
(* those it was given.                                                     *)
BeginReleaseRequested(t) ==
  LET seats == IF t.job = "checkout" THEN Wanted[t.order] ELSE t.held
  IN  CASE seats # {} -> [t EXCEPT !.pc = "rel_seats", !.pend = seats]
        [] seats = {} /\ t.qty > 0 -> [t EXCEPT !.pc = "rel_count", !.pend = {}]
        [] OTHER -> AfterRelease(t, TRUE)

(* One attempt: all the labels at once, then the part by count.            *)
BeginRelease(t) ==
  CASE t.held # {} -> [t EXCEPT !.pc = "rel_seats", !.pend = t.held]
    [] t.held = {} /\ t.qty > 0 -> [t EXCEPT !.pc = "rel_count", !.pend = {}]
    [] OTHER -> AfterRelease(t, TRUE)

(* Mutant: a failed release is not tried again.                            *)
RetryReleaseNever(t) == AfterRelease(t, FALSE)

(* retry starts the WHOLE attempt again, labels already released included. *)
RetryRelease(t) ==
  IF t.tries > 0 THEN BeginRelease([t EXCEPT !.tries = @ - 1])
                 ELSE AfterRelease(t, FALSE)

(* Mutant: the order was loaded without its seat labels.                   *)
ReleaseOrderUnlabelled(t) ==
  BeginRelease([t EXCEPT !.held = {}, !.pays = {},
                  !.qty = Cardinality(Wanted[t.order]) + Extra[t.order]])

(* cancelWorkflow and refund release what the order row says.              *)
ReleaseOrder(t) ==
  BeginRelease([t EXCEPT !.held = labels[t.order], !.qty = CountPart(t.order),
                         !.pays = {}])

AfterCancelOpen(t) ==
  IF t.job = "refund" THEN [t EXCEPT !.pc = "list_paid", !.pays = {}]
                      ELSE ReleaseOrder(t)

(* handlePaymentPaidEvent: the next stage of an order last seen in s.      *)
Advance(t, s) ==
  CASE s = "PendingPayment" -> [t EXCEPT !.pc = "tr_read", !.target = "Paid"]
    [] s = "Paid"           -> [t EXCEPT !.pc = "tr_read", !.target = "Confirmed"]
    [] s = "Confirmed"      -> [t EXCEPT !.pc = "it_read"]
    [] OTHER                -> Blank

SlotsIn(o, s) == {slot \in Slots : pay[o][slot] = s}
NewSlot(o) == CHOOSE s \in Slots : pay[o][s] = "Absent"
SetPay(o, s, st) == pay' = [pay EXCEPT ![o][s] = st]
-----------------------------------------------------------------------------
(* checkout                                                                *)

SubmitCheckout(w, o) ==
  /\ At(w, "idle")
  /\ IF o \in submitted THEN Spend("resubmit") ELSE UNCHANGED used
  /\ submitted' = submitted \cup {o}
  /\ Become(w, NewTask("co_lookup", o))
  /\ UNCHANGED <<orderVars, item, payVars, expiry, aged, older, late, ghostVars>>

(* A known key is answered with the order it names (a replay).             *)
CheckoutLookup(w) ==
  /\ At(w, "co_lookup")
  /\ IF Exists(task[w].order) THEN Finish(w) ELSE Goto(w, "co_reserve")
  /\ UNCHANGED <<orderVars, item, payVars, clientVars, late, used, ghostVars>>

(* reserveInventory asks for the chosen labels one after the other.        *)
ReserveSeat(w, l) ==
  LET t == task[w]
      held == t.held \cup {l}
      done == Wanted[t.order] \subseteq held /\ Extra[t.order] = 0
  IN  /\ At(w, "co_reserve")
      /\ l \in Wanted[t.order] \ t.held
      /\ \/ /\ CanTakeSeat(item, l)
            /\ item' = TakeSeat(item, l)
            /\ Become(w, [t EXCEPT !.held = held,
                                   !.pc = IF done THEN "co_create" ELSE @])
            /\ UNCHANGED <<late, used>>
         \/ /\ \/ ~CanTakeSeat(item, l) /\ UNCHANGED <<late, used>>
               \/ RpcFails({SeatRequest("reserve_seat", w, l)})
            /\ Become(w, BeginRelease(t))
            /\ UNCHANGED item
      /\ UNCHANGED <<orderVars, payVars, clientVars, ghostVars>>

(* ... and then for the rest by count; the labels it is allocated join the *)
(* held ones, and the count is remembered as well.                         *)
ReserveCount(w) ==
  LET t == task[w]
      q == Extra[t.order]
  IN  /\ At(w, "co_reserve")
      /\ Wanted[t.order] \subseteq t.held
      /\ \/ /\ CanTakeCount(item, q)
            /\ \E S \in Allocations(item, q) :
                 /\ item' = TakeCount(item, q, S)
                 /\ Become(w, [t EXCEPT !.held = @ \cup S, !.qty = q,
                                        !.pc = "co_create"])
            /\ UNCHANGED <<late, used>>
         \/ /\ \/ ~CanTakeCount(item, q) /\ UNCHANGED <<late, used>>
               \/ RpcFails({CountRequest("reserve", w, q)})
            /\ Become(w, BeginRelease(t))
            /\ UNCHANGED item
      /\ UNCHANGED <<orderVars, payVars, clientVars, ghostVars>>

(* create validates the voucher, then createOrder inserts the order and    *)
(* claims its voucher in one transaction.  On the unique key it joins the  *)
(* order that exists, and fails when that order was removed; a customer    *)
(* who submits again is also refused when the voucher is used up by now.   *)
CreateOrder(w) ==
  LET t == task[w]
      o == t.order
      free == o \in UsesVoucher => Cardinality(vouchers) < VoucherLimit
  IN  /\ At(w, "co_create")
      /\ \/ /\ status[o] = "None" /\ free
            /\ SetStatus(o, "PendingPayment")
            /\ labels' = [labels EXCEPT ![o] = t.held]
            /\ vouchers' = vouchers \cup ({o} \cap UsesVoucher)
            /\ older' = [older EXCEPT ![o] = {p \in Orders : status[p] # "None"}]
            /\ Goto(w, "co_pay")
            /\ UNCHANGED stranded
         \/ /\ Exists(o)
            /\ Goto(w, "co_pay")
            /\ stranded' = stranded \cup t.held
            /\ UNCHANGED <<status, labels, vouchers, older>>
         \/ /\ o \in removed \/ ~free
            /\ Become(w, BeginRelease(t))
            /\ UNCHANGED <<status, labels, vouchers, older, stranded>>
      /\ UNCHANGED <<removed, item, payVars, expiry, aged, submitted, late, used,
                     settled, manual, returned, rolledBack, unfreed>>

(* createPayment, then the message that will check the order's expiry: it  *)
(* is emitted and forgotten, so it may be lost.                            *)
CreatePayment(w) ==
  LET o == task[w].order
  IN  /\ At(w, "co_pay")
      /\ \/ /\ SlotsIn(o, "Absent") # {}
            /\ SetPay(o, NewSlot(o), "Pending")
            /\ \/ expiry' = expiry \cup {o} /\ UNCHANGED used
               \/ Spend("error") /\ UNCHANGED expiry
            /\ Finish(w)
            /\ UNCHANGED late
         \/ /\ RpcFails({PayRequest("payments.create", w, None)})
            /\ Goto(w, "rb_read")
            /\ UNCHANGED <<pay, expiry>>
      /\ UNCHANGED <<orderVars, item, paidEvents, aged, older, submitted, ghostVars>>

(* tryCancelCompensatingOrder: cancel() reads the order, swaps its status  *)
(* to Cancelled, reads the order again and frees the voucher; whatever it  *)
(* throws is swallowed.                                                    *)
RollbackRead(w) ==
  LET t == task[w]
      o == t.order
  IN  /\ At(w, "rb_read")
      /\ Become(w, IF ~Exists(o) \/ status[o] \in Closed
                   THEN BeginRelease(t)
                   ELSE [t EXCEPT !.pc = "rb_cancel", !.snap = status[o]])
      /\ UNCHANGED <<orderVars, item, payVars, clientVars, late, used, ghostVars>>

RollbackCancel(w) ==
  LET t == task[w]
      o == t.order
  IN  /\ At(w, "rb_cancel")
      /\ IF Matches(o, t.snap)
         THEN /\ SetStatus(o, "Cancelled")
              /\ rolledBack' = rolledBack \cup {o}
              /\ Goto(w, "rb_voucher")
         ELSE /\ Become(w, BeginRelease(t))
              /\ UNCHANGED <<status, rolledBack>>
      /\ UNCHANGED <<labels, removed, vouchers, item, payVars, clientVars, late,
                     used, settled, manual, returned, unfreed, stranded>>

(* History: a release of o's voucher that did not happen.                  *)
NoteUnfreed(o) == unfreed' = unfreed \cup {o} /\ UNCHANGED vouchers

(* Mutant: the rollback keeps the voucher.                                 *)
RollbackKeepsVoucher(w) ==
  /\ At(w, "rb_voucher")
  /\ Become(w, BeginRelease(task[w]))
  /\ UNCHANGED <<orderVars, item, payVars, clientVars, late, used, ghostVars>>

(* The second read throws on an order removed since, or on an error; an    *)
(* error of releaseUsage is logged and no more (best-effort).              *)
RollbackVoucher(w) ==
  LET o == task[w].order
  IN  /\ At(w, "rb_voucher")
      /\ \/ /\ Exists(o)
            /\ vouchers' = vouchers \ {o}
            /\ UNCHANGED <<used, unfreed>>
         \/ /\ \/ ~Exists(o) /\ UNCHANGED used
               \/ Spend("error")
            /\ NoteUnfreed(o)
      /\ Become(w, BeginRelease(task[w]))
      /\ UNCHANGED <<status, labels, removed, item, payVars, clientVars, late,
                     settled, manual, returned, rolledBack, stranded>>
-----------------------------------------------------------------------------
(* releaseReservation inside retry                                         *)

(* History: what a cancel or a refund handed back for its own order.       *)
NoteReturned(t, part) ==
  returned' = IF t.job \in {"cancel", "refund"}
              THEN [returned EXCEPT ![t.order] = @ \cup {part}]
              ELSE returned

(* Promise.all: the first failure starts the retry while the requests for  *)
(* the other labels are still on their way.                                *)
ReleaseSeat(w, l) ==
  LET t == task[w]
      rest == t.pend \ {l}
      inFlight(S) == {SeatRequest("release_seat", w, m) : m \in S}
      next == [t EXCEPT !.pend = rest]
  IN  /\ At(w, "rel_seats")
      /\ l \in t.pend
      /\ \/ /\ CanReturnSeat(item, l)
            /\ item' = ReturnSeat(item, l)
            /\ NoteReturned(t, l)
            /\ Become(w, CASE rest # {} -> next
                           [] rest = {} /\ t.qty > 0 -> [next EXCEPT !.pc = "rel_count"]
                           [] OTHER -> AfterRelease(t, TRUE))
            /\ UNCHANGED <<late, used>>
         \/ /\ \/ ~CanReturnSeat(item, l) /\ UNCHANGED used
                  /\ late' = late \cup inFlight(rest)
               \/ Spend("error") /\ late' = late \cup inFlight(rest)
               \/ Spend("timeout") /\ late' = late \cup inFlight(t.pend)
            /\ Become(w, RetryRelease(t))
            /\ UNCHANGED <<item, returned>>
      /\ UNCHANGED <<orderVars, payVars, clientVars, settled, manual, rolledBack,
                     unfreed, stranded>>

ReleaseCount(w) ==
  LET t == task[w]
  IN  /\ At(w, "rel_count")
      /\ \/ /\ CanReturnCount(item, t.qty)
            /\ item' = ReturnCount(item, t.qty)
            /\ NoteReturned(t, None)
            /\ Become(w, AfterRelease(t, TRUE))
            /\ UNCHANGED <<late, used>>
         \/ /\ \/ ~CanReturnCount(item, t.qty) /\ UNCHANGED <<late, used>>
               \/ RpcFails({CountRequest("release", w, t.qty)})
            /\ Become(w, RetryRelease(t))
            /\ UNCHANGED <<item, returned>>
      /\ UNCHANGED <<orderVars, payVars, clientVars, settled, manual, rolledBack,
                     unfreed, stranded>>
-----------------------------------------------------------------------------
(* cancelWorkflow                                                          *)

CancelRead(w) ==
  LET t == task[w]
      o == t.order
  IN  /\ At(w, "cw_read")
      /\ CASE Exists(o) /\ status[o] = "Cancelling" -> Goto(w, "list_open")
           [] Exists(o) /\ status[o] = "PendingPayment" ->
                Become(w, [t EXCEPT !.pc = "cw_claim", !.snap = status[o]])
           [] OTHER -> Finish(w)
      /\ UNCHANGED <<orderVars, item, payVars, clientVars, late, used, ghostVars>>

CancelClaim(w) ==
  LET t == task[w]
  IN  /\ At(w, "cw_claim")
      /\ IF Matches(t.order, t.snap)
         THEN SetStatus(t.order, "Cancelling") /\ Goto(w, "list_open")
         ELSE Finish(w) /\ UNCHANGED status
      /\ UNCHANGED <<labels, removed, vouchers, item, payVars, clientVars, late,
                     used, ghostVars>>

(* Mutant: Cancelled is committed although the release failed.             *)
CancelVoucherAlwaysCommits(w) ==
  /\ At(w, "cw_voucher")
  /\ vouchers' = vouchers \ {task[w].order}
  /\ Goto(w, "cw_commit")
  /\ UNCHANGED <<status, labels, removed, item, payVars, clientVars, late, used,
                 ghostVars>>

(* releaseUsage swallows its error: what follows does not depend on it.    *)
CancelVoucher(w) ==
  LET o == task[w].order
  IN  /\ At(w, "cw_voucher")
      /\ \/ vouchers' = vouchers \ {o} /\ UNCHANGED <<used, unfreed>>
         \/ Spend("error") /\ NoteUnfreed(o)
      /\ IF task[w].ok THEN Goto(w, "cw_commit") ELSE Finish(w)
      /\ UNCHANGED <<status, labels, removed, item, payVars, clientVars, late,
                     settled, manual, returned, rolledBack, stranded>>

CancelCommit(w) ==
  LET o == task[w].order
  IN  /\ At(w, "cw_commit")
      /\ IF Exists(o) /\ status[o] \in {"Cancelling", "PendingPayment"}
         THEN SetStatus(o, "Cancelled") ELSE UNCHANGED status
      /\ Finish(w)
      /\ UNCHANGED <<labels, removed, vouchers, item, payVars, clientVars, late,
                     used, ghostVars>>

(* cancelPendingPayments; a failure only leaves a warning.                 *)
ListOpenPayments(w) ==
  LET t == task[w]
      open == SlotsIn(t.order, "Pending")
  IN  /\ At(w, "list_open")
      /\ \/ /\ Become(w, IF open = {} THEN AfterCancelOpen(t)
                         ELSE [t EXCEPT !.pc = "cancel_open", !.pays = open])
            /\ UNCHANGED used
         \/ Spend("error") /\ Become(w, AfterCancelOpen(t))
      /\ UNCHANGED <<orderVars, item, payVars, clientVars, late, ghostVars>>

(* payments.cancel writes Cancelled over whatever the row holds by now.    *)
CancelPayment(w, s) ==
  LET t == task[w]
      rest == t.pays \ {s}
      inFlight(S) == {PayRequest("payments.cancel", w, p) : p \in S}
  IN  /\ At(w, "cancel_open")
      /\ s \in t.pays
      /\ \/ /\ SetPay(t.order, s, "Cancelled")
            /\ Become(w, IF rest = {} THEN AfterCancelOpen(t)
                         ELSE [t EXCEPT !.pays = rest])
            /\ UNCHANGED <<late, used>>
         \/ /\ \/ Spend("error") /\ late' = late \cup inFlight(rest)
               \/ Spend("timeout") /\ late' = late \cup inFlight(t.pays)
            /\ Become(w, AfterCancelOpen(t))
            /\ UNCHANGED pay
      /\ UNCHANGED <<orderVars, item, paidEvents, clientVars, ghostVars>>
-----------------------------------------------------------------------------
(* refund                                                                  *)

RefundRead(w) ==
  LET t == task[w]
      o == t.order
      seen == [t EXCEPT !.snap = status[o]]
  IN  /\ At(w, "rf_read")
      /\ Become(w,
           CASE Exists(o) /\ status[o] = "RefundPending" ->
                  [seen EXCEPT !.pc = "list_open"]
             [] Exists(o) /\ status[o] \in Refundable ->
                  [seen EXCEPT !.pc = "rf_claim"]
             [] OTHER -> Blank)
      /\ UNCHANGED <<orderVars, item, payVars, clientVars, late, used, ghostVars>>

RefundClaim(w) ==
  LET t == task[w]
  IN  /\ At(w, "rf_claim")
      /\ IF Matches(t.order, t.snap)
         THEN SetStatus(t.order, "RefundPending") /\ Goto(w, "list_open")
         ELSE Finish(w) /\ UNCHANGED status
      /\ UNCHANGED <<labels, removed, vouchers, item, payVars, clientVars, late,
                     used, ghostVars>>

(* markPaidPaymentsRefunded; again a failure only leaves a warning.        *)
ListPaidPayments(w) ==
  LET t == task[w]
      paid == SlotsIn(t.order, "Paid")
  IN  /\ At(w, "list_paid")
      /\ \/ /\ Become(w, IF paid = {} THEN ReleaseOrder(t)
                         ELSE [t EXCEPT !.pc = "refund_paid", !.pays = paid])
            /\ UNCHANGED used
         \/ Spend("error") /\ Become(w, ReleaseOrder(t))
      /\ UNCHANGED <<orderVars, item, payVars, clientVars, late, ghostVars>>

MarkRefunded(w, s) ==
  LET t == task[w]
      rest == t.pays \ {s}
      inFlight(S) == {PayRequest("payments.markRefunded", w, p) : p \in S}
  IN  /\ At(w, "refund_paid")
      /\ s \in t.pays
      /\ \/ /\ SetPay(t.order, s, "Refunded")
            /\ Become(w, IF rest = {} THEN ReleaseOrder(t)
                         ELSE [t EXCEPT !.pays = rest])
            /\ UNCHANGED <<late, used>>
         \/ /\ \/ Spend("error") /\ late' = late \cup inFlight(rest)
               \/ Spend("timeout") /\ late' = late \cup inFlight(t.pays)
            /\ Become(w, ReleaseOrder(t))
            /\ UNCHANGED pay
      /\ UNCHANGED <<orderVars, item, paidEvents, clientVars, ghostVars>>

(* The last swap compares with the status read BEFORE the claim.           *)
RefundCommit(w) ==
  LET t == task[w]
  IN  /\ At(w, "rf_commit")
      /\ IF Matches(t.order, t.snap)
         THEN SetStatus(t.order, "Refunded") ELSE UNCHANGED status
      /\ Finish(w)
      /\ UNCHANGED <<labels, removed, vouchers, item, payVars, clientVars, late,
                     used, ghostVars>>
-----------------------------------------------------------------------------
(* handlePaymentPaidEvent                                                  *)

DeliverPaidEvent(w, e) ==
  /\ At(w, "idle")
  /\ e \in paidEvents
  /\ \/ paidEvents' = paidEvents \ {e} /\ UNCHANGED used
     \/ Spend("duplicate") /\ UNCHANGED paidEvents
  /\ Become(w, [NewTask("pp_read", e[1]) EXCEPT !.ref = e[2]])
  /\ UNCHANGED <<orderVars, item, pay, clientVars, late, ghostVars>>

PaidRead(w) ==
  LET t == task[w]
      o == t.order
  IN  /\ At(w, "pp_read")
      /\ IF Exists(o) /\ status[o] # "TicketIssued"
         THEN Become(w, [t EXCEPT !.pc = "pp_verify", !.snap = status[o]])
         ELSE Finish(w)
      /\ UNCHANGED <<orderVars, item, payVars, clientVars, late, used, ghostVars>>

(* verifyPaymentSettledForOrder: the payment the event names, or any one   *)
(* when it names none, must be Paid.  A lookup error rejects the event.    *)
PaidVerify(w) ==
  LET t == task[w]
      paid == SlotsIn(t.order, "Paid")
      verified == IF t.ref = None THEN paid # {} ELSE t.ref \in paid
  IN  /\ At(w, "pp_verify")
      /\ \/ /\ Become(w,
                 CASE ~verified -> Blank
                   [] verified /\ t.snap \in Closed ->
                        [t EXCEPT !.job = "refund", !.pc = "rf_read"]
                   [] OTHER -> Advance(t, t.snap))
            /\ UNCHANGED used
         \/ Spend("error") /\ Finish(w)
      /\ UNCHANGED <<orderVars, item, payVars, clientVars, late, ghostVars>>

(* The stage just passed re-read the order: its status decides the next.   *)
PaidNext(w) ==
  LET t == task[w]
      o == t.order
  IN  /\ At(w, "pp_next")
      /\ Become(w, IF Exists(o) /\ status[o] # "PendingPayment"
                   THEN Advance(t, status[o]) ELSE Blank)
      /\ UNCHANGED <<orderVars, item, payVars, clientVars, late, used, ghostVars>>

(* markPendingPayment, markPaid, confirm, expire: read, then transition.   *)
TransitionRead(w) ==
  LET t == task[w]
      o == t.order
  IN  /\ At(w, "tr_read")
      /\ IF Exists(o) /\ status[o] \in AllowedFor(t.target)
         THEN Become(w, [t EXCEPT !.pc = "tr_write", !.snap = status[o]])
         ELSE Finish(w)
      /\ UNCHANGED <<orderVars, item, payVars, clientVars, late, used, ghostVars>>

(* Mutant: the UPDATE of transitionStatus names the row by id alone.       *)
TransitionWriteBlind(w) ==
  LET t == task[w]
      o == t.order
  IN  /\ At(w, "tr_write")
      /\ SetStatus(o, t.target)
      /\ manual' = IF t.job = "mark" /\ t.target = "Paid"
                   THEN manual \cup {o} ELSE manual
      /\ IF t.job = "paid" THEN Goto(w, "pp_next") ELSE Finish(w)
      /\ UNCHANGED <<labels, removed, vouchers, item, payVars, clientVars, late,
                     used, settled, returned, rolledBack, unfreed, stranded>>

TransitionWrite(w) ==
  LET t == task[w]
      o == t.order
  IN  /\ At(w, "tr_write")
      /\ IF Matches(o, t.snap)
         THEN /\ SetStatus(o, t.target)
              /\ manual' = IF t.job = "mark" /\ t.target = "Paid"
                           THEN manual \cup {o} ELSE manual
              /\ IF t.job = "paid" THEN Goto(w, "pp_next") ELSE Finish(w)
         ELSE Finish(w) /\ UNCHANGED <<status, manual>>
      /\ UNCHANGED <<labels, removed, vouchers, item, payVars, clientVars, late,
                     used, settled, returned, rolledBack, unfreed, stranded>>

(* issueTicket checks the status it read, and writes by id alone.          *)
IssueRead(w) ==
  /\ At(w, "it_read")
  /\ IF Exists(task[w].order) /\ status[task[w].order] \in {"Paid", "Confirmed"}
     THEN Goto(w, "it_write") ELSE Finish(w)
  /\ UNCHANGED <<orderVars, item, payVars, clientVars, late, used, ghostVars>>

IssueWrite(w) ==
  /\ At(w, "it_write")
  /\ SetStatus(task[w].order, "TicketIssued")
  /\ Finish(w)
  /\ UNCHANGED <<labels, removed, vouchers, item, payVars, clientVars, late, used,
                 ghostVars>>
-----------------------------------------------------------------------------
(* Expiry: the dead-lettered message and the minute cron.                  *)

DeliverExpireCheck(w, o) ==
  /\ At(w, "idle")
  /\ o \in expiry \cap aged
  /\ expiry' = expiry \ {o}
  /\ Become(w, NewTask("ec_read", o))
  /\ UNCHANGED <<orderVars, item, payVars, aged, older, submitted, late, used,
                 ghostVars>>

ExpireCheckRead(w) ==
  /\ At(w, "ec_read")
  /\ IF Exists(task[w].order) /\ status[task[w].order] = "PendingPayment"
     THEN Goto(w, "ec_verify") ELSE Finish(w)
  /\ UNCHANGED <<orderVars, item, payVars, clientVars, late, used, ghostVars>>

(* A settled payment is fulfilled; otherwise, and also when the payments   *)
(* cannot be listed, the order is cancelled.                               *)
ExpireCheckVerify(w) ==
  LET t == task[w]
      fulfil == [t EXCEPT !.job = "paid", !.pc = "pp_read"]
      cancel == [t EXCEPT !.job = "cancel", !.pc = "cw_read"]
  IN  /\ At(w, "ec_verify")
      /\ \/ /\ Become(w, IF SlotsIn(t.order, "Paid") # {} THEN fulfil ELSE cancel)
            /\ UNCHANGED used
         \/ Spend("error") /\ Become(w, cancel)
      /\ UNCHANGED <<orderVars, item, payVars, clientVars, late, ghostVars>>

(* The query of handleExpiredOrdersCron: the aged orders to decide, and    *)
(* its ORDER BY createdAt LIMIT.                                           *)
Overdue ==
  {o \in aged : Exists(o) /\ status[o] \in {"PendingPayment", "Cancelling", "RefundPending"}}
Crowded(o) == o \in Overdue /\ Cardinality(older[o] \cap Overdue) >= CronBatch
InCronBatch(o) == o \in Overdue /\ ~Crowded(o)

(* Mutant: the cron finishes interrupted compensations only.               *)
CronPickInterrupted(w, o) ==
  /\ At(w, "idle")
  /\ InCronBatch(o)
  /\ \/ /\ status[o] = "Cancelling"
        /\ Become(w, [NewTask("cw_read", o) EXCEPT !.entry = "idle"])
     \/ /\ status[o] = "RefundPending"
        /\ Become(w, [NewTask("rf_read", o) EXCEPT !.entry = "idle"])
  /\ UNCHANGED <<orderVars, item, payVars, clientVars, late, used, ghostVars>>

(* handleExpiredOrdersCron: one order of its batch.                        *)
CronPick(w, o) ==
  /\ At(w, "idle")
  /\ InCronBatch(o)
  /\ \/ /\ status[o] \in {"PendingPayment", "Cancelling"}
        /\ Become(w, [NewTask("cw_read", o) EXCEPT !.entry = "idle"])
     \/ /\ status[o] = "RefundPending"
        /\ Become(w, [NewTask("rf_read", o) EXCEPT !.entry = "idle"])
  /\ UNCHANGED <<orderVars, item, payVars, clientVars, late, used, ghostVars>>
-----------------------------------------------------------------------------
(* Requests through the gateway, time, the payer, and failures.            *)

EntryOf(kind) ==
  CASE kind = "cancelWorkflow" -> "cw_read"
    [] kind = "refund"         -> "rf_read"
    [] kind = "issueTicket"    -> "it_read"
    [] OTHER                   -> "tr_read"

TargetOf(kind) ==
  CASE kind = "markPendingPayment" -> "PendingPayment"
    [] kind = "markPaid"           -> "Paid"
    [] kind = "confirm"            -> "Confirmed"
    [] kind = "expire"             -> "Expired"
    [] OTHER                       -> "None"

(* Requests for orders that do not exist change nothing and are left out.  *)
SendRequest(w, o, kind) ==
  /\ At(w, "idle")
  /\ Exists(o)
  /\ Spend("command")
  /\ Become(w, [NewTask(EntryOf(kind), o) EXCEPT !.target = TargetOf(kind)])
  /\ UNCHANGED <<orderVars, item, payVars, clientVars, late, ghostVars>>

(* remove: one read and one write by id, neither of which another handler  *)
(* can disturb.                                                            *)
RemoveOrder(o) ==
  /\ Exists(o)
  /\ Spend("remove")
  /\ removed' = removed \cup {o}
  /\ UNCHANGED <<status, labels, vouchers, item, payVars, clientVars, task, late,
                 ghostVars>>

(* The time to live (10 minutes) is far longer than a checkout with its    *)
(* timeouts (10 s per RPC): no checkout of o is still running.  What was   *)
(* created before o is aged before o.                                      *)
Age(o) ==
  /\ Exists(o) /\ o \notin aged
  /\ older[o] \subseteq aged \cup removed
  /\ \A w \in Workers : task[w].job = "checkout" => task[w].order # o
  /\ Spend("age")
  /\ aged' = aged \cup {o}
  /\ UNCHANGED <<orderVars, item, payVars, expiry, older, submitted, task, late,
                 ghostVars>>

(* The payer completes payment s, once, whatever became of its row: the    *)
(* notification marks it Paid and writes its outbox event in one           *)
(* transaction (markPaidWorkflow).  A row already Paid is refused.         *)
Settle(o, s) ==
  /\ pay[o][s] \notin {"Absent", "Paid"}
  /\ <<o, s>> \notin settled
  /\ SetPay(o, s, "Paid")
  /\ paidEvents' = paidEvents \cup {<<o, s>>}
  /\ settled' = settled \cup {<<o, s>>}
  /\ UNCHANGED <<orderVars, item, clientVars, task, late, used, manual, returned,
                 rolledBack, unfreed, stranded>>

(* A service takes a request whose caller no longer waits.                 *)
LateStock(r) ==
  CASE r.op = "reserve_seat" /\ CanTakeSeat(item, r.seat) -> {TakeSeat(item, r.seat)}
    [] r.op = "release_seat" /\ CanReturnSeat(item, r.seat) -> {ReturnSeat(item, r.seat)}
    [] r.op = "reserve" /\ CanTakeCount(item, r.qty) ->
         {TakeCount(item, r.qty, S) : S \in Allocations(item, r.qty)}
    [] r.op = "release" /\ CanReturnCount(item, r.qty) -> {ReturnCount(item, r.qty)}
    [] OTHER -> {item}

LatePay(r) ==
  CASE r.op = "payments.create" -> SetPay(r.order, NewSlot(r.order), "Pending")
    [] r.op = "payments.cancel" -> SetPay(r.order, r.slot, "Cancelled")
    [] r.op = "payments.markRefunded" -> SetPay(r.order, r.slot, "Refunded")
    [] OTHER -> UNCHANGED pay

RunLate(r) ==
  /\ r \in late
  /\ r.op = "payments.create" => SlotsIn(r.order, "Absent") # {}
  /\ late' = late \ {r}
  /\ item' \in LateStock(r)
  /\ LatePay(r)
  /\ UNCHANGED <<orderVars, paidEvents, clientVars, task, used, ghostVars>>

(* orders-service dies: RabbitMQ delivers the unacknowledged messages      *)
(* again, and what Promise.all had sent stays queued at its service.       *)
InFlight(w) ==
  CASE At(w, "rel_seats") -> {SeatRequest("release_seat", w, l) : l \in task[w].pend}
    [] At(w, "cancel_open") -> {PayRequest("payments.cancel", w, s) : s \in task[w].pays}
    [] At(w, "refund_paid") -> {PayRequest("payments.markRefunded", w, s) : s \in task[w].pays}
    [] OTHER -> {}

Crash ==
  /\ Spend("crash")
  /\ \E w \in Workers : ~At(w, "idle")
  /\ task' = [w \in Workers |-> Restarted(task[w])]
  /\ late' = late \cup UNION {InFlight(w) : w \in Workers}
  /\ UNCHANGED <<orderVars, item, payVars, clientVars, ghostVars>>

(* Nothing in flight: the services wait for the next request.              *)
Rest ==
  /\ \A w \in Workers : At(w, "idle")
  /\ late = {}
  /\ UNCHANGED vars
-----------------------------------------------------------------------------
WorkerStep(w) ==
  \/ CheckoutLookup(w)
  \/ \E l \in Seats : ReserveSeat(w, l)
  \/ ReserveCount(w)
  \/ CreateOrder(w)
  \/ CreatePayment(w)
  \/ RollbackRead(w)
  \/ RollbackCancel(w)
  \/ RollbackVoucher(w)
  \/ \E l \in Seats : ReleaseSeat(w, l)
  \/ ReleaseCount(w)
  \/ CancelRead(w)
  \/ CancelClaim(w)
  \/ CancelVoucher(w)
  \/ CancelCommit(w)
  \/ ListOpenPayments(w)
  \/ \E s \in Slots : CancelPayment(w, s)
  \/ RefundRead(w)
  \/ RefundClaim(w)
  \/ ListPaidPayments(w)
  \/ \E s \in Slots : MarkRefunded(w, s)
  \/ RefundCommit(w)
  \/ PaidRead(w)
  \/ PaidVerify(w)
  \/ PaidNext(w)
  \/ TransitionRead(w)
  \/ TransitionWrite(w)
  \/ IssueRead(w)
  \/ IssueWrite(w)
  \/ ExpireCheckRead(w)
  \/ ExpireCheckVerify(w)

Deliver(w) ==
  \/ \E e \in paidEvents : DeliverPaidEvent(w, e)
  \/ \E o \in Orders : DeliverExpireCheck(w, o)

Next ==
  \/ \E w \in Workers : WorkerStep(w)
  \/ \E w \in Workers : Deliver(w)
  \/ \E w \in Workers, o \in Orders : SubmitCheckout(w, o)
  \/ \E w \in Workers, o \in Orders, kind \in Commands : SendRequest(w, o, kind)
  \/ \E w \in Workers, o \in Orders : CronPick(w, o)
  \/ \E o \in Orders : RemoveOrder(o)
  \/ \E o \in Orders : Age(o)
  \/ \E o \in Orders, s \in Slots : Settle(o, s)
  \/ \E r \in late : RunLate(r)
  \/ Crash
  \/ Rest

Spec == Init /\ [][Next]_vars

(* What the running system guarantees: a handler goes on, a queue hands    *)
(* its messages to a free worker, and the cron, which visits the orders of *)
(* its batch once a minute, comes to each that is in the batch again and   *)
(* again; an order that older ones crowd out of the batch is promised      *)
(* nothing.  Nothing is asked of customers, operators, the payer or        *)
(* failures.                                                               *)
Fairness ==
  /\ \A w \in Workers : WF_vars(WorkerStep(w)) /\ WF_vars(Deliver(w))
  /\ \A o \in Orders : SF_vars(\E w \in Workers : CronPick(w, o))

FairSpec == Spec /\ Fairness
-----------------------------------------------------------------------------
(* Properties                                                              *)

OrderTypes ==
  /\ status \in [Orders -> Status]
  /\ labels \in [Orders -> SUBSET Seats]
  /\ removed \subseteq Orders
  /\ vouchers \subseteq Orders

PayTypes ==
  /\ pay \in [Orders -> [Slots -> PayStatus]]
  /\ paidEvents \subseteq Orders \X Slots

ClientTypes ==
  /\ expiry \subseteq Orders /\ aged \subseteq Orders /\ submitted \subseteq Orders
  /\ older \in [Orders -> SUBSET Orders]

(* Only an idle worker has no order. *)
TaskOK(t) ==
  /\ t \in TaskType
  /\ t.order = None => t.pc = "idle" /\ t.entry = "idle"

TaskTypes ==
  /\ task \in [Workers -> TaskType]
  /\ \A w \in Workers : TaskOK(task[w])

HistoryTypes ==
  /\ settled \subseteq Orders \X Slots
  /\ manual \subseteq Orders
  /\ returned \in [Orders -> SUBSET (Seats \cup {None})]
  /\ rolledBack \subseteq Orders
  /\ unfreed \subseteq Orders /\ stranded \subseteq Seats

(* Every variable keeps its type; only an idle worker has no order, so a   *)
(* message redelivered after a crash always finds the order it is about.   *)
TypeOK ==
  /\ OrderTypes /\ PayTypes /\ ClientTypes /\ TaskTypes /\ HistoryTypes
  /\ item \in ItemType(Seats)
  /\ late \subseteq LateType
  /\ used \in [Kinds -> Nat]

Backed(o) == o \in manual \/ \E s \in Slots : <<o, s>> \in settled

(* "a forged/duplicated/under-valued event" must not issue a ticket        *)
(* (verifyPaymentSettledForOrder): an order is Paid, Confirmed or          *)
(* TicketIssued only when its payer really settled one of its payments, or *)
(* an operator marked it paid by hand, through every stale read, crash,    *)
(* lost answer and operator command.                                       *)
TicketNeedsSettlement ==
  \A o \in Orders : status[o] \in {"Paid", "Confirmed", "TicketIssued"} => Backed(o)

(* "Commit terminal state Cancelled ONLY when compensation succeeds"       *)
(* (cancelWorkflow step 4, refund step 3): an order that a cancel or a     *)
(* refund closed has handed back each of its seats and its part by count   *)
(* at least once, whatever attempts failed or were cut short before.       *)
(* Orders cancelled by a checkout's rollback are released by the checkout  *)
(* itself and are left to NoLeakedSeat.                                    *)
ClosedOrderReturnedParts ==
  \A o \in Orders :
    status[o] \in {"Cancelled", "Refunded"} /\ o \notin rolledBack
      => Parts(o) \subseteq returned[o]

(* The two views of the pool agree (normalizeTicketItemStock: availableSeatLabels *)
(* and stockAvailable count the same thing), and a request never takes     *)
(* more than there is or returns more than there was.                      *)
StockMatchesPool ==
  /\ Seats # {} => item.stock = Cardinality(item.avail)
  /\ 0 <= item.stock /\ item.stock <= item.initial

(* Where an order stands, for a reader who does not know the handlers.     *)
Stage(o) ==
  CASE status[o] = "None"                                     -> "none"
    [] status[o] \in {"PendingPayment", "Expired"}            -> "waiting"
    [] status[o] = "Cancelling"                               -> "cancelling"
    [] status[o] = "Cancelled" /\ o \notin rolledBack          -> "cancelled"
    [] status[o] \in {"Paid", "Confirmed", "TicketIssued"}    -> "sold"
    [] status[o] = "RefundPending"                            -> "refunding"
    [] OTHER                                                  -> "closed"

(* What a cancel or a refund of o still has to hand back.                  *)
Due(o) ==
  IF status[o] = "None" \/ o \in rolledBack THEN {} ELSE Parts(o) \ returned[o]

Promise == INSTANCE OrderPromise WITH
  Goods <- Seats \cup {None},
  stage <- [o \in Orders |-> Stage(o)],
  backed <- {o \in Orders : Backed(o)},
  due <- [o \in Orders |-> Due(o)]

(* The handlers of orders-service, interleaved and cut short in any way,   *)
(* implement the life of an order that OrderPromise describes: the swaps   *)
(* that compare the status (transitionStatus, cancelWorkflow, refund) and  *)
(* the checks before the writes that do not (issueTicket) never let an     *)
(* order wait again that was sold or cancelled, never sell one whose       *)
(* cancellation began, and hand nothing back before.                       *)
ImplementsOrderPromise == Promise!Spec

SeatsHeldBy(o) ==
  IF status[o] \in Open \cup {"Cancelling", "RefundPending", "Expired"} /\ o \notin removed
  THEN labels[o] ELSE {}

SeatsOnTheirWay ==
  (UNION {task[w].held : w \in Workers})
    \cup {r.seat : r \in {q \in late : q.op = "release_seat"}}

(* A seat that is not for sale belongs to an order that still owns it, to  *)
(* a handler still at work or to a release still queued: neither a failed  *)
(* checkout nor a cancelled order keeps a seat out of sale for good.  The  *)
(* one seat that may be lost is that of a second checkout with the key of  *)
(* an order placed before, which joins that order instead of using what it *)
(* reserved (stranded).                                                    *)
NoLeakedSeat ==
  Seats \ item.avail \subseteq
    (UNION {SeatsHeldBy(o) : o \in Orders}) \cup SeatsOnTheirWay \cup stranded

(* "a failed attempt does not permanently consume a limited voucher"       *)
(* (releaseUsage): an order that became Cancelled keeps its voucher only   *)
(* while its rollback is about to free it, or when the release itself      *)
(* failed, which the code only logs, or was skipped because the order was  *)
(* removed in between (unfreed).                                           *)
NoLeakedVoucher ==
  \A o \in vouchers \ unfreed : status[o] = "Cancelled" =>
    \E w \in Workers : task[w].order = o /\ At(w, "rb_voucher")

(* The seats of an order that waits for payment, is paid or is ticketed    *)
(* are not for sale: nobody's compensation hands back a seat that another  *)
(* order has bought since.                                                 *)
LiveOrderHoldsItsSeats ==
  \A o \in Orders : status[o] \in Open => labels[o] \cap item.avail = {}

(* issueTicket: "Only paid or confirmed orders can issue ticket".          *)
TicketIssuedOnlyWhenPaid ==
  [][\A o \in Orders :
       status'[o] = "TicketIssued" /\ status[o] # "TicketIssued"
         => status[o] \in {"Paid", "Confirmed"}]_vars

(* "Expired orders cron" (handleExpiredOrdersCron, the fallback for a lost *)
(* expire_check): an order past its time to live does not wait for payment *)
(* forever, even if orders-service died before the message was sent; only  *)
(* a removed order may, and one that older undecided orders crowd out of   *)
(* the cron's batch again and again.                                       *)
AgedOrderDecided ==
  \A o \in Orders :
    \/ []<>Crowded(o)
    \/ o \in aged /\ status[o] = "PendingPayment"
         ~> status[o] # "PendingPayment" \/ o \in removed

(* "Remain in RefundPending for retry or cron" (refund): the refund of an *)
(* aged order, which the cron visits, ends.                                *)
RefundEnds ==
  \A o \in Orders :
    o \in aged /\ status[o] = "RefundPending" ~> status[o] = "Refunded"
=============================================================================
