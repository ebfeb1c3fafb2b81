---------------------------- MODULE OrderPricing ----------------------------
(***************************************************************************)
(* What an order costs and what is paid for it (order.service.ts:          *)
(* calculateOrderPricing, createOrder, updatePassengers, the settlement    *)
(* check, cancelPendingPayments), over the voucher of VoucherLedger.       *)
(*                                                                         *)
(* An order is priced from its passengers, created together with its use   *)
(* of the voucher, and priced again whenever its passengers are edited; an *)
(* edit reads the order, and later deletes the passenger rows it can see,  *)
(* inserts its own and writes the new total by id alone.  Meanwhile pages  *)
(* are opened and paid for, and an operator may mark an order paid.  The   *)
(* saga around it (seats, messages, refund) is OrderSaga's; here           *)
(* cancelling an order is one step.                                        *)
(***************************************************************************)
EXTENDS VoucherLedger, FiniteSetsExt, Sequences

CONSTANTS
  Jobs,        \* requests that may be in progress at a time
  UnitPrices,  \* prices of the ticket item
  Quantity,    \* seats of an order
  Mixes,       \* passenger lists: sequences of [class, document]
  Situations   \* [voucher, edits, requests]: how each behaviour starts, where
               \* requests says how many requests of each kind follow

VARIABLES
  order,     \* the orders
  payment,   \* the rows of payments-service: [order, amount, status], by number
  job,       \* what each request is doing
  requests,  \* bound: the requests still to come, by kind
  money,     \* history: what payments-service settled, [order, amount]
  overtaken, \* history: orders edited by two edits at once, or while settled
  byHand     \* history: orders an operator marked paid

pvars == <<lvars, order, payment, job, requests, money, overtaken, byHand>>

RequestKinds == {"create", "edit", "page", "pay", "settle", "mark", "cancel", "error"}

NoJob == [op |-> "none"]

PricingTypeOK ==
  /\ LedgerTypeOK
  /\ \A o \in Bookings :
       /\ order[o].status \in {"none", "pending", "paid", "cancelled"}
       /\ order[o].total \in Nat /\ order[o].discount \in Nat
       /\ order[o].coupon \in BOOLEAN
  /\ \A n \in DOMAIN payment : payment[n].status \in {"open", "paid", "closed"}
  /\ requests \in [RequestKinds -> Nat]
  /\ overtaken \subseteq Bookings /\ byHand \subseteq Bookings

-----------------------------------------------------------------------------
(* Fares.                                                                  *)

Rate == [ADULT |-> 100, CHILD |-> 75, STUDENT |-> 90, SENIOR |-> 85]

(* Prices are not negative, a passenger is of a known kind.                *)
ASSUME PricingAssumption ==
  /\ UnitPrices \subseteq Nat /\ Quantity \in Nat
  /\ Mixes \subseteq Seq([class : DOMAIN Rate, document : BOOLEAN])
  /\ \A s \in Situations : s.edits \in Nat /\ s.requests \in [RequestKinds -> Nat]

(* resolvePassengerDiscountRate, in per cent.                              *)
FareRate(p) == IF p.document THEN Rate[p.class] ELSE 100

(* calculateDiscountedPassengerPrice: rounded to thousands, halves up.     *)
PassengerPrice(unit, p) == ((unit * FareRate(p) + 50000) \div 100000) * 1000

(* The rows that are listed at their fares, the other seats at full price. *)
FullPrice(unit, rows) ==
  LET others == Quantity - Cardinality(rows)
  IN  MapThenSumSet(LAMBDA p : PassengerPrice(unit, p), rows)
        + (IF others > 0 THEN others * unit ELSE 0)

Minus(price, discount) == IF price > discount THEN price - discount ELSE 0

(* The rows of a passenger list; the request that wrote them tells equal   *)
(* passengers of different requests apart.                                 *)
RowsOf(mix, by) ==
  {[by |-> by, seat |-> n, class |-> mix[n].class, document |-> mix[n].document] :
     n \in DOMAIN mix}

(* calculateOrderPricing refuses when the voucher is not valid - which for *)
(* an order that holds a use of it includes its own use.                   *)
Priced(unit, rows, coupon, u) ==
  LET full == FullPrice(unit, rows)
      discount == IF coupon THEN VoucherDiscount(full) ELSE 0
  IN  [ok |-> coupon => ValidVoucher(u, full), discount |-> discount,
       total |-> Minus(full, discount)]

-----------------------------------------------------------------------------
NewOrder == [status |-> "none", user |-> NoLimit, unit |-> 0, rows |-> {}, coupon |-> FALSE,
             discount |-> 0, total |-> 0]

InitPricing ==
  /\ \E s \in Situations : voucher = s.voucher /\ edits = s.edits /\ requests = s.requests
  /\ InitLedger
  /\ order = [o \in Bookings |-> NewOrder]
  /\ payment = <<>>
  /\ job = [c \in Jobs |-> NoJob]
  /\ money = {} /\ overtaken = {} /\ byHand = {}

Spent(kind) ==
  /\ requests[kind] > 0
  /\ requests' = [requests EXCEPT ![kind] = @ - 1]

In(c, op, stage) == job[c].op = op /\ job[c].stage = stage

Goto(c, stage) == job' = [job EXCEPT ![c].stage = stage]

EndJob(c) == job' = [job EXCEPT ![c] = NoJob]

AddPayment(o, amount) ==
  payment' = Append(payment, [order |-> o, amount |-> amount, status |-> "open"])

-----------------------------------------------------------------------------
(* create, createOrder and the first payment.                              *)

(* A new identity is one nobody has, not even a request in progress.       *)
Fresh ==
  {o \in Bookings :
     order[o].status = "none" /\ \A d \in Jobs : job[d] # NoJob => job[d].order # o}

StartOrder(c) ==
  /\ job[c] = NoJob /\ Spent("create")
  /\ Fresh # {}
  /\ \E u \in Buyers, unit \in UnitPrices, mix \in Mixes, coupon \in BOOLEAN :
       LET o == CHOOSE o \in Fresh : TRUE
           rows == RowsOf(mix, <<c, requests["create"]>>)
           price == Priced(unit, rows, coupon, u)
       IN  /\ Len(mix) <= Quantity
           /\ price.ok
           /\ job' = [job EXCEPT ![c] =
                [op |-> "create", stage |-> IF coupon THEN "read" ELSE "insert", order |-> o,
                 seen |-> LimitsRead,
                 row |-> [status |-> "pending", user |-> u, unit |-> unit, rows |-> rows,
                          coupon |-> coupon, discount |-> price.discount,
                          total |-> price.total]]]
  /\ UNCHANGED <<lvars, order, payment, money, overtaken, byHand>>

(* The transaction: reserveUsage reads the voucher.                        *)
ReadLimits(c) ==
  /\ In(c, "create", "read")
  /\ IF CanClaim
     THEN job' = [job EXCEPT ![c].stage = "insert", ![c].seen = LimitsRead]
     ELSE EndJob(c)
  /\ UNCHANGED <<lvars, order, payment, requests, money, overtaken, byHand>>

(* The claim and the commit of order, passengers and use; or the roll-back.*)
InsertOrder(c) ==
  /\ In(c, "create", "insert")
  /\ LET o == job[c].order  row == job[c].row
     IN  \/ /\ row.coupon => Claimable(row.user, job[c].seen)
            /\ order' = [order EXCEPT ![o] = row]
            /\ IF row.coupon THEN ClaimUse(o, row.user) ELSE UNCHANGED lvars
            /\ Goto(c, "pay")
         \/ /\ row.coupon /\ ~Claimable(row.user, job[c].seen)
            /\ EndJob(c)
            /\ UNCHANGED <<lvars, order>>
  /\ UNCHANGED <<payment, requests, money, overtaken, byHand>>

(* releaseUsage is best effort: when it fails the use stays.               *)
ReleaseUsage(o) == ReturnUse(o) \/ UNCHANGED lvars

(* createPayment; when it fails the order is cancelled again.              *)
FirstPayment(c) ==
  /\ In(c, "create", "pay")
  /\ LET o == job[c].order
     IN  \/ /\ AddPayment(o, job[c].row.total)
            /\ UNCHANGED <<lvars, order, requests>>
         \/ /\ Spent("error")
            /\ order' = [order EXCEPT ![o].status = "cancelled"]
            /\ ReleaseUsage(o)
            /\ UNCHANGED payment
  /\ EndJob(c)
  /\ UNCHANGED <<money, overtaken, byHand>>

-----------------------------------------------------------------------------
(* updatePassengers.                                                       *)

(* The order is not paid or closed, and the new passengers are priced.     *)
StartEdit(c) ==
  /\ job[c] = NoJob /\ Spent("edit")
  /\ \E o \in Bookings, mix \in Mixes :
       LET rows == RowsOf(mix, <<c, requests["edit"]>>)
           price == Priced(order[o].unit, rows, order[o].coupon, order[o].user)
       IN  /\ order[o].status = "pending"
           /\ Len(mix) <= Quantity
           /\ price.ok
           /\ job' = [job EXCEPT ![c] =
                [op |-> "edit", stage |-> "delete", order |-> o, rows |-> rows, gone |-> {},
                 discount |-> price.discount, total |-> price.total,
                 changed |-> price.total # order[o].total]]
  /\ UNCHANGED <<lvars, order, payment, money, overtaken, byHand>>

(* The DELETE sees the rows committed so far.                              *)
DeleteRows(c) ==
  /\ In(c, "edit", "delete")
  /\ job' = [job EXCEPT ![c].gone = order[job[c].order].rows, ![c].stage = "write"]
  /\ UNCHANGED <<lvars, order, payment, requests, money, overtaken, byHand>>

(* Mutant: the passengers change and the price does not.                   *)
KeepTotal(row, j) == [row EXCEPT !.rows = (@ \ j.gone) \cup j.rows]

Edited(row, j) ==
  [row EXCEPT !.rows = (@ \ j.gone) \cup j.rows, !.total = j.total, !.discount = j.discount]

Overtakes(c, o) ==
  \/ order[o].status # "pending"
  \/ \E d \in Jobs \ {c} : In(d, "edit", "write") /\ job[d].order = o
  \/ \E d \in Jobs : In(d, "settle", "advance") /\ job[d].order = o

CommitEdit(c) ==
  /\ In(c, "edit", "write")
  /\ LET o == job[c].order
     IN  /\ order' = [order EXCEPT ![o] = Edited(order[o], job[c])]
         /\ overtaken' = IF Overtakes(c, o) THEN overtaken \cup {o} ELSE overtaken
  /\ IF job[c].changed THEN Goto(c, "list") ELSE EndJob(c)
  /\ UNCHANGED <<lvars, payment, requests, money, byHand>>

OpenPayments(o) ==
  {n \in DOMAIN payment : payment[n].order = o /\ payment[n].status = "open"}

(* Written by id alone, whatever their status is by now.                   *)
Closed(rows) ==
  [n \in DOMAIN payment |->
    IF n \in rows THEN [payment[n] EXCEPT !.status = "closed"] ELSE payment[n]]

(* cancelPendingPayments: list, then cancel blindly; a failure is a warning.*)
ListPayments(c) ==
  /\ In(c, "edit", "list")
  /\ \/ /\ job' = [job EXCEPT ![c] =
             [op |-> "edit", stage |-> "cancel", order |-> job[c].order,
              open |-> OpenPayments(job[c].order)]]
        /\ UNCHANGED requests
     \/ Spent("error") /\ EndJob(c)
  /\ UNCHANGED <<lvars, order, payment, money, overtaken, byHand>>

CancelPayments(c) ==
  /\ In(c, "edit", "cancel")
  /\ payment' = Closed(job[c].open)
  /\ EndJob(c)
  /\ UNCHANGED <<lvars, order, requests, money, overtaken, byHand>>

-----------------------------------------------------------------------------
(* Pages, payment and settlement.                                          *)

(* The gateway reads the order, refuses when a payment of it is settled,   *)
(* closes the open ones and creates a payment of the total it has read.    *)
StartPage(c) ==
  /\ job[c] = NoJob /\ Spent("page")
  /\ \E o \in Bookings :
       /\ order[o].status = "pending"
       /\ job' = [job EXCEPT ![c] =
            [op |-> "page", stage |-> "list", order |-> o, amount |-> order[o].total]]
  /\ UNCHANGED <<lvars, order, payment, money, overtaken, byHand>>

ListForPage(c) ==
  /\ In(c, "page", "list")
  /\ LET o == job[c].order
     IN  IF \E n \in DOMAIN payment : payment[n].order = o /\ payment[n].status = "paid"
         THEN EndJob(c)
         ELSE job' = [job EXCEPT ![c] =
                [op |-> "page", stage |-> "create", order |-> o, amount |-> job[c].amount,
                 open |-> OpenPayments(o)]]
  /\ UNCHANGED <<lvars, order, payment, requests, money, overtaken, byHand>>

(* Closing may fail, which is only logged.                                 *)
CreatePage(c) ==
  /\ In(c, "page", "create")
  /\ LET next == [order |-> job[c].order, amount |-> job[c].amount, status |-> "open"]
     IN  \/ payment' = Append(Closed(job[c].open), next) /\ UNCHANGED requests
         \/ payment' = Append(payment, next) /\ Spent("error")
  /\ EndJob(c)
  /\ UNCHANGED <<lvars, order, money, overtaken, byHand>>

(* The payer pays and payments-service settles: a page that was closed may *)
(* still be paid, one that was paid is refused.                            *)
Pay(n) ==
  /\ payment[n].status # "paid" /\ Spent("pay")
  /\ payment' = [payment EXCEPT ![n].status = "paid"]
  /\ money' = money \cup {[order |-> payment[n].order, amount |-> payment[n].amount]}
  /\ UNCHANGED <<lvars, order, job, overtaken, byHand>>

(* Mutant: any settled payment will do.                                    *)
CoversAny(n, o) == TRUE

Covers(n, o) == payment[n].amount = order[o].total

(* handlePaymentPaidEvent: the settlement is verified ...                  *)
StartSettlement(c) ==
  /\ job[c] = NoJob /\ Spent("settle")
  /\ \E n \in DOMAIN payment :
       LET o == payment[n].order
       IN  /\ payment[n].status = "paid" /\ order[o].status = "pending"
           /\ Covers(n, o)
           /\ job' = [job EXCEPT ![c] = [op |-> "settle", stage |-> "advance", order |-> o]]
  /\ UNCHANGED <<lvars, order, payment, money, overtaken, byHand>>

(* ... and the status advances by a compare-and-swap.                      *)
AdvanceOrder(c) ==
  /\ In(c, "settle", "advance")
  /\ order' = [order EXCEPT ![job[c].order].status = IF @ = "pending" THEN "paid" ELSE @]
  /\ EndJob(c)
  /\ UNCHANGED <<lvars, payment, requests, money, overtaken, byHand>>

(* markPaid of an operator: the order is paid, whatever has been paid for  *)
(* it.  The swap asks for the status that was read, so it is one step.     *)
MarkPaid(o) ==
  /\ order[o].status = "pending" /\ Spent("mark")
  /\ order' = [order EXCEPT ![o].status = "paid"]
  /\ byHand' = byHand \cup {o}
  /\ UNCHANGED <<lvars, payment, job, money, overtaken>>

CancelOrder(o) ==
  /\ order[o].status = "pending" /\ Spent("cancel")
  /\ order' = [order EXCEPT ![o].status = "cancelled"]
  /\ IF order[o].coupon THEN ReleaseUsage(o) ELSE UNCHANGED lvars
  /\ UNCHANGED <<payment, job, money, overtaken, byHand>>

NextPricing ==
  \/ \E c \in Jobs :
       \/ StartOrder(c) \/ ReadLimits(c) \/ InsertOrder(c) \/ FirstPayment(c)
       \/ StartEdit(c) \/ DeleteRows(c) \/ CommitEdit(c) \/ ListPayments(c) \/ CancelPayments(c)
       \/ StartPage(c) \/ ListForPage(c) \/ CreatePage(c) \/ StartSettlement(c) \/ AdvanceOrder(c)
  \/ \E n \in DOMAIN payment : Pay(n)
  \/ \E o \in Bookings : MarkPaid(o) \/ CancelOrder(o)
  \/ Operate /\ UNCHANGED <<order, payment, job, requests, money, overtaken, byHand>>

SpecPricing == InitPricing /\ [][NextPricing]_pvars

-----------------------------------------------------------------------------
(* Properties.                                                             *)

(* "The amount charged always matches the passengers currently on the      *)
(* order" (calculateOrderPricing) - unless two edits, or an edit and a     *)
(* settlement, overtook each other.                                        *)
AmountMatchesPassengers ==
  \A o \in Bookings \ overtaken :
    order[o].status # "none" =>
      order[o].total = Minus(FullPrice(order[o].unit, order[o].rows), order[o].discount)

(* An order counts as paid only when a payment of exactly its total has    *)
(* been settled, however often it was priced and paged in between (the     *)
(* comment on verifyPaymentSettledForOrder) - with the same exception, and *)
(* unless an operator marked it paid (markPaid asks for no payment).       *)
PaidCoversTotal ==
  \A o \in Bookings \ (overtaken \cup byHand) :
    order[o].status = "paid" => [order |-> o, amount |-> order[o].total] \in money
=============================================================================
