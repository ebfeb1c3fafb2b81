---------------------------- MODULE PaymentGateway ----------------------------
(***************************************************************************)
(* The payments of ONE order (payments of different orders never touch     *)
(* each other): the rows and the outbox of payments-service                *)
(* (payment.service.ts) and the VNPay handlers of the gateway              *)
(* (vnpay.service.ts).                                                     *)
(*                                                                         *)
(* A HANDLER is one gateway request in flight; one step is one RPC, and    *)
(* markPaidWorkflow takes two, since it reads the row before its           *)
(* transaction.  A TICK is one run of the outbox worker: the scheduler     *)
(* starts one every 10 seconds whether or not the last one has ended.      *)
(*                                                                         *)
(* Of a row's status only what the code tests is kept: Open is Pending or  *)
(* Processing, Closed is Failed, Refunded, Cancelled or Expired.           *)
(*                                                                         *)
(* Left out: amounts (a page asks for the amount of its row), payment      *)
(* methods other than VNPAY, checksums, the return URL, which only shows a *)
(* result, and the batch size of 50.  A page has one final outcome.        *)
(***************************************************************************)
EXTENDS Integers, FiniteSets

CONSTANTS
  Payments,     \* bound: payment rows the order may ever have
  First,        \* the row checkout created for VNPay, None if it chose another method
  Rows,         \* bound: outbox rows
  Handlers,     \* bound: gateway requests in flight at once
  Ticks,        \* bound: runs of the outbox worker at once
  MaxAttempts,  \* OUTBOX_MAX_ATTEMPTS (5 in the code)
  Limit,        \* bound: how often each kind of event happens
  None

Kinds == {"error", "crash", "command", "request"}
PayStatus == {"Absent", "Open", "Paid", "Closed"}
OutboxStatus == {"free", "pending", "processed", "failed"}

ASSUME GatewayAssumption ==
  /\ First \in Payments \cup {None}
  /\ None \notin Payments /\ None \notin Rows
  /\ MaxAttempts \in Nat \ {0}
  /\ Limit \in [Kinds -> Nat]

VARIABLES
  pay,        \* pay[p]: status of a payment row
  removed,    \* soft-deleted payment rows
  outbox,     \* outbox[r]: a row of payment_outbox, or free
  published,  \* outbox rows whose payment.paid event reached the broker
  pages,      \* payments whose payment page was handed to the customer
  result,     \* result[p]: what became of the page at VNPay
  acked,      \* payments whose notification was answered with code 00
  task,       \* task[h]: the request that handler h serves
  tick,       \* tick[t]: the run of the outbox worker
  used,       \* used[k]: how much of Limit[k] is spent
  \* history, read by no action:
  vouched,    \* payments an operator asked to mark as paid
  failures    \* failures[r]: failed attempts to publish and mark a row

serviceVars == <<pay, removed, outbox>>
worldVars == <<pages, result, acked>>
ghostVars == <<vouched, failures>>
vars == <<serviceVars, worldVars, published, task, tick, used, ghostVars>>

RowType ==
  [payment: Payments \cup {None}, status: OutboxStatus, due: BOOLEAN, attempts: Nat]

TaskType ==
  [pc: {"idle", "url_list", "url_close", "url_create", "url_processing",
        "ipn_lookup", "ipn_failed", "ipn_ack", "mp_read", "mp_write"},
   job: {"none", "url", "notify", "operator", "orphan"},
   payment: Payments \cup {None}, open: SUBSET Payments]

TickType ==
  [pc: {"idle", "emit", "mark", "fail"}, batch: SUBSET Rows,
   row: Rows \cup {None}, seen: [Rows -> Nat]]

Blank == [pc |-> "idle", job |-> "none", payment |-> None, open |-> {}]
Off == [pc |-> "idle", batch |-> {}, row |-> None, seen |-> [r \in Rows |-> 0]]

Init ==
  /\ pay = [p \in Payments |-> IF p = First THEN "Open" ELSE "Absent"]
  /\ removed = {} /\ pages = {} /\ acked = {} /\ published = {} /\ vouched = {}
  /\ outbox = [r \in Rows |->
       [payment |-> None, status |-> "free", due |-> FALSE, attempts |-> 0]]
  /\ result = [p \in Payments |-> "none"]
  /\ task = [h \in Handlers |-> Blank]
  /\ tick = [t \in Ticks |-> Off]
  /\ used = [k \in Kinds |-> 0]
  /\ failures = [r \in Rows |-> 0]
-----------------------------------------------------------------------------
Spend(k) == used[k] < Limit[k] /\ used' = [used EXCEPT ![k] = @ + 1]

At(h, pc) == task[h].pc = pc
Become(h, t) == task' = [task EXCEPT ![h] = t]
Goto(h, pc) == Become(h, [task[h] EXCEPT !.pc = pc])
Finish(h) == Become(h, Blank)

(* getPaymentOrThrow *)
Exists(p) == pay[p] # "Absent" /\ p \notin removed

(* updatePaymentStatus: whatever the row says is overwritten.  (The look   *)
(* for the row before it decides nothing but whether the row exists.)      *)
Write(p, st) == pay' = [pay EXCEPT ![p] = st]

Absent == {p \in Payments : pay[p] = "Absent"}
NewPayment == CHOOSE p \in Payments : pay[p] = "Absent"

Free == {r \in Rows : outbox[r].status = "free"}
NewRow == CHOOSE r \in Rows : outbox[r].status = "free"

(* The bound Rows: a row is left for every request that may settle.        *)
RoomToSettle ==
  Cardinality(Free) >
    Cardinality({h \in Handlers : task[h].job \in {"notify", "operator", "orphan"}})

(* The event of p is in the outbox. *)
Recorded(p) == \E r \in Rows : outbox[r].payment = p
-----------------------------------------------------------------------------
(* createPaymentUrl                                                        *)

(* The order was looked up and assertPayableOrder passed; that the order   *)
(* may be closed since shows only in what is written to its payments.      *)
(* Each request creates at most one row, so the bound Payments is kept     *)
(* here.                                                                   *)
RequestUrl(h) ==
  /\ At(h, "idle")
  /\ Cardinality(Absent) > Cardinality({g \in Handlers : task[g].job = "url"})
  /\ Spend("request")
  /\ Become(h, [Blank EXCEPT !.pc = "url_list", !.job = "url"])
  /\ UNCHANGED <<serviceVars, worldVars, published, tick, ghostVars>>

AfterClose(t, open) ==
  [t EXCEPT !.open = open, !.pc = IF open = {} THEN "url_create" ELSE "url_close"]

(* listPaymentsByOrderId: refused when a payment is Paid already.          *)
UrlList(h) ==
  LET live == {p \in Payments : Exists(p)}
      open == {p \in live : pay[p] = "Open"}
  IN  /\ At(h, "url_list")
      /\ Become(h, IF \E p \in live : pay[p] = "Paid"
                   THEN Blank ELSE AfterClose(task[h], open))
      /\ UNCHANGED <<serviceVars, worldVars, published, tick, used, ghostVars>>

(* Each open payment is closed with markFailed; a failure is only logged.  *)
UrlClose(h, p) ==
  /\ At(h, "url_close")
  /\ p \in task[h].open
  /\ \/ Exists(p) /\ Write(p, "Closed") /\ UNCHANGED used
     \/ ~Exists(p) /\ UNCHANGED <<pay, used>>
     \/ Spend("error") /\ UNCHANGED pay
  /\ Become(h, AfterClose(task[h], task[h].open \ {p}))
  /\ UNCHANGED <<removed, outbox, worldVars, published, tick, ghostVars>>

UrlCreate(h) ==
  /\ At(h, "url_create")
  /\ \/ /\ Absent # {}
        /\ Write(NewPayment, "Open")
        /\ Become(h, [task[h] EXCEPT !.pc = "url_processing", !.payment = NewPayment])
        /\ UNCHANGED used
     \/ Spend("error") /\ Finish(h) /\ UNCHANGED pay
  /\ UNCHANGED <<removed, outbox, worldVars, published, tick, ghostVars>>

(* markProcessing, then the customer gets the address of the page.         *)
UrlProcessing(h) ==
  LET p == task[h].payment
  IN  /\ At(h, "url_processing")
      /\ \/ /\ Exists(p)
            /\ Write(p, "Open")
            /\ pages' = pages \cup {p}
            /\ UNCHANGED used
         \/ ~Exists(p) /\ UNCHANGED <<pay, pages, used>>
         \/ Spend("error") /\ UNCHANGED <<pay, pages>>
      /\ Finish(h)
      /\ UNCHANGED <<removed, outbox, result, acked, published, tick, ghostVars>>
-----------------------------------------------------------------------------
(* handleIpn.  VNPay repeats its notification until it is answered 00.     *)

Notify(h, p) ==
  /\ At(h, "idle")
  /\ result[p] # "none" /\ p \notin acked
  /\ RoomToSettle
  /\ Become(h, [Blank EXCEPT !.pc = "ipn_lookup", !.job = "notify", !.payment = p])
  /\ UNCHANGED <<serviceVars, worldVars, published, tick, used, ghostVars>>

(* Mutant: a closed payment is confirmed and its settlement dropped.       *)
IpnNextClosed(p) ==
  CASE pay[p] \in {"Paid", "Closed"} -> "ipn_ack"
    [] result[p] = "failure" -> "ipn_failed"
    [] OTHER -> "mp_read"

(* Mutant: any verified notification settles the payment.                  *)
IpnNextUnchecked(p) == IF pay[p] = "Paid" THEN "ipn_ack" ELSE "mp_read"

(* A payment that is Paid is confirmed; a Closed one may still settle.     *)
IpnNext(p) ==
  CASE pay[p] = "Paid" -> "ipn_ack"
    [] pay[p] # "Paid" /\ result[p] = "failure" -> "ipn_failed"
    [] OTHER -> "mp_read"

IpnLookup(h) ==
  LET p == task[h].payment
  IN  /\ At(h, "ipn_lookup")
      /\ \/ (IF Exists(p) THEN Goto(h, IpnNext(p)) ELSE Finish(h)) /\ UNCHANGED used
         \/ Spend("error") /\ Finish(h)
      /\ UNCHANGED <<serviceVars, worldVars, published, tick, ghostVars>>

IpnFailed(h) ==
  LET p == task[h].payment
  IN  /\ At(h, "ipn_failed")
      /\ \/ Exists(p) /\ Write(p, "Closed") /\ Goto(h, "ipn_ack") /\ UNCHANGED used
         \/ ~Exists(p) /\ Finish(h) /\ UNCHANGED <<pay, used>>
         \/ Spend("error") /\ Finish(h) /\ UNCHANGED pay
      /\ UNCHANGED <<removed, outbox, worldVars, published, tick, ghostVars>>

IpnAck(h) ==
  /\ At(h, "ipn_ack")
  /\ acked' = acked \cup {task[h].payment}
  /\ Finish(h)
  /\ UNCHANGED <<serviceVars, pages, result, published, tick, used, ghostVars>>
-----------------------------------------------------------------------------
(* markPaidWorkflow                                                        *)

(* assertNotAlreadyPaid looks at a row read outside the transaction.       *)
MarkPaidRead(h) ==
  LET p == task[h].payment
  IN  /\ At(h, "mp_read")
      /\ \/ /\ IF Exists(p) /\ pay[p] # "Paid" THEN Goto(h, "mp_write") ELSE Finish(h)
            /\ UNCHANGED used
         \/ Spend("error") /\ Finish(h)
      /\ UNCHANGED <<serviceVars, worldVars, published, tick, ghostVars>>

(* Mutant: markPaid, which writes no event, instead of markPaidWorkflow.   *)
MarkPaidWriteSilent(h) ==
  /\ At(h, "mp_write")
  /\ Write(task[h].payment, "Paid")
  /\ IF task[h].job = "notify" THEN Goto(h, "ipn_ack") ELSE Finish(h)
  /\ UNCHANGED <<removed, outbox, worldVars, published, tick, used, ghostVars>>

(* One transaction: the row, and its event in the outbox.                  *)
MarkPaidWrite(h) ==
  LET p == task[h].payment
  IN  /\ At(h, "mp_write")
      /\ \/ /\ Free # {}
            /\ Write(p, "Paid")
            /\ outbox' = [outbox EXCEPT ![NewRow] =
                 [payment |-> p, status |-> "pending", due |-> TRUE, attempts |-> 0]]
            /\ IF task[h].job = "notify" THEN Goto(h, "ipn_ack") ELSE Finish(h)
            /\ UNCHANGED used
         \/ Spend("error") /\ Finish(h) /\ UNCHANGED <<pay, outbox>>
      /\ UNCHANGED <<removed, worldVars, published, tick, ghostVars>>
-----------------------------------------------------------------------------
(* processOutbox                                                           *)

Running(t, pc) == tick[t].pc = pc
Run(t, k) == tick' = [tick EXCEPT ![t] = k]

(* Mutant: the run does not end after its last row.                        *)
NextRowForever(k) == [k EXCEPT !.pc = "emit", !.batch = @ \ {k.row}, !.row = None]

(* On to the next row of the batch. *)
NextRow(k) ==
  IF k.batch \ {k.row} = {} THEN Off
  ELSE [k EXCEPT !.pc = "emit", !.batch = @ \ {k.row}, !.row = None,
                 !.seen = [@ EXCEPT ![k.row] = 0]]

(* The due rows are read at once, with their attempt counts.               *)
TickStart(t) ==
  LET due == {r \in Rows : outbox[r].status = "pending" /\ outbox[r].due}
  IN  /\ Running(t, "idle")
      /\ due # {}
      /\ Run(t, [Off EXCEPT !.pc = "emit", !.batch = due,
                   !.seen = [r \in Rows |-> IF r \in due THEN outbox[r].attempts ELSE 0]])
      /\ UNCHANGED <<serviceVars, worldVars, published, task, used, ghostVars>>

FailRow(t, r) ==
  /\ Spend("error")
  /\ failures' = [failures EXCEPT ![r] = @ + 1]
  /\ Run(t, [tick[t] EXCEPT !.pc = "fail", !.row = r])

(* Mutant: the outcome of the emit is not awaited.                         *)
TickEmitUnawaited(t, r) ==
  /\ Running(t, "emit")
  /\ r \in tick[t].batch
  /\ Run(t, [tick[t] EXCEPT !.pc = "mark", !.row = r])
  /\ \/ published' = published \cup {r} /\ UNCHANGED used
     \/ Spend("error") /\ UNCHANGED published
  /\ UNCHANGED <<serviceVars, worldVars, task, vouched, failures>>

TickEmit(t, r) ==
  /\ Running(t, "emit")
  /\ r \in tick[t].batch
  /\ \/ /\ published' = published \cup {r}
        /\ Run(t, [tick[t] EXCEPT !.pc = "mark", !.row = r])
        /\ UNCHANGED <<used, failures>>
     \/ FailRow(t, r) /\ UNCHANGED published
  /\ UNCHANGED <<serviceVars, worldVars, task, vouched>>

(* The update is inside the try: its failure counts as an attempt as well. *)
TickMark(t) ==
  LET r == tick[t].row
  IN  /\ Running(t, "mark")
      /\ \/ /\ outbox' = [outbox EXCEPT ![r].status = "processed"]
            /\ Run(t, NextRow(tick[t]))
            /\ UNCHANGED <<used, failures>>
         \/ FailRow(t, r) /\ UNCHANGED outbox
      /\ UNCHANGED <<pay, removed, worldVars, published, task, vouched>>

(* Mutant: given up one attempt too early.                                 *)
ReachedMaxEarly(n) == n + 1 >= MaxAttempts

ReachedMax(n) == n >= MaxAttempts

(* The attempt count comes from the row as the tick read it.  When this    *)
(* write fails too, the whole run ends.                                    *)
TickFail(t) ==
  LET r == tick[t].row
      n == tick[t].seen[r] + 1
      st == IF ReachedMax(n) THEN "failed" ELSE outbox[r].status
  IN  /\ Running(t, "fail")
      /\ \/ /\ outbox' = [outbox EXCEPT ![r] =
                 [@ EXCEPT !.attempts = n, !.due = FALSE, !.status = st]]
            /\ Run(t, NextRow(tick[t]))
            /\ UNCHANGED used
         \/ Spend("error") /\ Run(t, Off) /\ UNCHANGED outbox
      /\ UNCHANGED <<pay, removed, worldVars, published, task, ghostVars>>

(* nextAttemptAt is reached. *)
BackoffOver(r) ==
  /\ outbox[r].status = "pending" /\ ~outbox[r].due
  /\ outbox' = [outbox EXCEPT ![r].due = TRUE]
  /\ UNCHANGED <<pay, removed, worldVars, published, task, tick, used, ghostVars>>
-----------------------------------------------------------------------------
(* Customers, operators, orders-service, and failures.                     *)

PayAtProvider(p, outcome) ==
  /\ p \in pages
  /\ result[p] = "none"
  /\ result' = [result EXCEPT ![p] = outcome]
  /\ UNCHANGED <<serviceVars, pages, acked, published, task, tick, used, ghostVars>>

(* Any of the blind writes: an operator's, or orders-service cancelling    *)
(* or refunding the payments of an order.                                  *)
UpdatePaymentStatus(p, st) ==
  /\ Exists(p)
  /\ Spend("command")
  /\ Write(p, st)
  /\ UNCHANGED <<removed, outbox, worldVars, published, task, tick, ghostVars>>

SoftDelete(p) ==
  /\ Exists(p)
  /\ Spend("command")
  /\ removed' = removed \cup {p}
  /\ UNCHANGED <<pay, outbox, worldVars, published, task, tick, ghostVars>>

(* POST /payments/mark-paid *)
MarkPaidByHand(h, p) ==
  /\ At(h, "idle")
  /\ Exists(p)
  /\ RoomToSettle
  /\ Spend("command")
  /\ vouched' = vouched \cup {p}
  /\ Become(h, [Blank EXCEPT !.pc = "mp_read", !.job = "operator", !.payment = p])
  /\ UNCHANGED <<serviceVars, worldVars, published, tick, failures>>

(* payments-service dies: its ticks are gone, and an unacknowledged        *)
(* markPaidWorkflow request is delivered again.                            *)
Crash ==
  /\ Spend("crash")
  /\ tick' = [t \in Ticks |-> Off]
  /\ task' = [h \in Handlers |->
                IF At(h, "mp_write") THEN [task[h] EXCEPT !.pc = "mp_read"] ELSE task[h]]
  /\ UNCHANGED <<serviceVars, worldVars, published, ghostVars>>

(* The gateway loses a request; what payments-service is doing for it goes *)
(* on, and nobody waits for the answer.                                    *)
LoseRequest(h) ==
  /\ ~At(h, "idle")
  /\ Spend("crash")
  /\ Become(h, IF task[h].pc \in {"mp_read", "mp_write"}
               THEN [task[h] EXCEPT !.job = "orphan"] ELSE Blank)
  /\ UNCHANGED <<serviceVars, worldVars, published, tick, ghostVars>>

(* Nothing left to do. *)
Rest ==
  /\ \A h \in Handlers : At(h, "idle")
  /\ \A t \in Ticks : Running(t, "idle")
  /\ UNCHANGED vars
-----------------------------------------------------------------------------
HandlerStep(h) ==
  \/ UrlList(h)
  \/ \E p \in Payments : UrlClose(h, p)
  \/ UrlCreate(h)
  \/ UrlProcessing(h)
  \/ IpnLookup(h)
  \/ IpnFailed(h)
  \/ IpnAck(h)
  \/ MarkPaidRead(h)
  \/ MarkPaidWrite(h)

TickStep(t) ==
  \/ TickStart(t)
  \/ \E r \in Rows : TickEmit(t, r)
  \/ TickMark(t)
  \/ TickFail(t)

Next ==
  \/ \E h \in Handlers : HandlerStep(h)
  \/ \E h \in Handlers : RequestUrl(h)
  \/ \E h \in Handlers, p \in Payments : Notify(h, p)
  \/ \E h \in Handlers, p \in Payments : MarkPaidByHand(h, p)
  \/ \E t \in Ticks : TickStep(t)
  \/ \E r \in Rows : BackoffOver(r)
  \/ \E p \in Payments, outcome \in {"success", "failure"} : PayAtProvider(p, outcome)
  \/ \E p \in Payments, st \in {"Open", "Closed"} : UpdatePaymentStatus(p, st)
  \/ \E p \in Payments : SoftDelete(p)
  \/ Crash
  \/ \E h \in Handlers : LoseRequest(h)
  \/ Rest

Spec == Init /\ [][Next]_vars

(* Handlers and ticks go on, the scheduler starts a run while rows are     *)
(* due, delays end, and VNPay repeats a notification until it is answered. *)
Fairness ==
  /\ \A h \in Handlers : WF_vars(HandlerStep(h))
  /\ \A t \in Ticks : WF_vars(TickStep(t))
  /\ \A r \in Rows : WF_vars(BackoffOver(r))
  /\ \A p \in Payments : SF_vars(\E h \in Handlers : Notify(h, p))

FairSpec == Spec /\ Fairness
-----------------------------------------------------------------------------
(* Properties                                                              *)

TaskOK(t) ==
  /\ t \in TaskType
  /\ t.pc = "idle" <=> t.job = "none"
  /\ t.payment = None <=> t.pc \in {"idle", "url_list", "url_close", "url_create"}

TickOK(k) ==
  /\ k \in TickType
  /\ k.pc = "idle" <=> k.batch = {}
  /\ k.pc \in {"mark", "fail"} => k.row \in k.batch

(* Every variable keeps its type; a run of the outbox worker that is not   *)
(* idle has a row to work on.                                              *)
TypeOK ==
  /\ pay \in [Payments -> PayStatus]
  /\ removed \subseteq Payments
  /\ outbox \in [Rows -> RowType]
  /\ \A r \in Rows : outbox[r].status = "free" <=> outbox[r].payment = None
  /\ published \subseteq Rows
  /\ pages \subseteq Payments /\ acked \subseteq Payments
  /\ result \in [Payments -> {"none", "success", "failure"}]
  /\ \A h \in Handlers : TaskOK(task[h])
  /\ \A t \in Ticks : TickOK(tick[t])
  /\ DOMAIN task = Handlers /\ DOMAIN tick = Ticks
  /\ used \in [Kinds -> Nat]
  /\ vouched \subseteq Payments
  /\ failures \in [Rows -> Nat]

(* handleIpn is "the source of truth": VNPay stops repeating a successful  *)
(* notification once it is answered 00, so by then the event that tells    *)
(* the order must be in the outbox, whatever an operator, orders-service   *)
(* or a second request wrote to the row meanwhile.                         *)
AcknowledgedIsRecorded ==
  \A p \in acked : result[p] = "success" => Recorded(p)

(* "the event can never be lost if the process crashes between commit and  *)
(* publish" (markPaidWorkflow): a row of the outbox counts as processed    *)
(* only if its event was sent, with ticks that overlap or die half-way.    *)
ProcessedWasPublished ==
  \A r \in Rows : outbox[r].status = "processed" => r \in published

(* "marks the row as failed after reaching the maximum number of attempts" *)
(* (processOutbox): overlapping ticks with stale attempt counts never give *)
(* a row up before so many attempts really failed.                         *)
GivenUpAfterMax ==
  \A r \in Rows : outbox[r].status = "failed" => failures[r] >= MaxAttempts

Approved == {p \in Payments : result[p] = "success"} \cup vouched

Notice == INSTANCE PaidNotice WITH
  approved <- Approved,
  recorded <- {p \in Payments : Recorded(p)},
  told <- {outbox[r].payment : r \in published}

(* A payment is recorded as paid only when its payer's success or an       *)
(* operator stands behind it, and orders-service is told only of recorded  *)
(* payments.                                                               *)
ImplementsPaidNotice == Notice!Spec

(* The whole way from VNPay to the broker: of a payment that succeeded at  *)
(* VNPay an event is sent, unless its outbox row was given up or the       *)
(* payment row was deleted by an operator.                                 *)
SettlementIsTold ==
  \A p \in Payments :
    result[p] = "success" ~>
      \/ \E r \in Rows : /\ outbox[r].payment = p
                         /\ r \in published \/ outbox[r].status = "failed"
      \/ p \in removed

(* assertNotAlreadyPaid: "A settled payment must never be settled a second *)
(* time": a payment has at most one event in the outbox.                   *)
SettledOnce ==
  \A r, s \in Rows :
    r # s /\ outbox[r].payment # None => outbox[r].payment # outbox[s].payment
=============================================================================
