--------------------------- MODULE OrderSeatProofs ---------------------------
(***************************************************************************)
(* What an order uses of others: theorems about its voucher and its seats. *)
(*   1. A cancelled order keeps no voucher.                                *)
(*   2. No seat stays out of sale for good.                                *)
(*   3. The seats of an open order are not for sale.                       *)
(* Each holds where the code relies on more than its own steps; the        *)
(* hypotheses say on what.                                                 *)
(***************************************************************************)
EXTENDS OrderSagaProofs

-----------------------------------------------------------------------------
(* What handlers become. The job of a handler changes only where it ends   *)
(* or where an event turns into a cancellation, a refund or a fulfilment,  *)
(* and only cancelWorkflow's own last step comes to cw_commit.             *)

OtherJobs == {"none", "cancel", "refund", "paid", "mark", "issue", "check"}

(* Where a handler has found its order and is to write its status.         *)
ClaimSteps == {"cw_claim", "rf_claim", "it_write"}
Guarded == CheckoutSteps \cup ClaimSteps \cup {"cw_commit"}

(* A handler t goes on as u: it does not turn into a checkout, is not      *)
(* about to write Cancelled, and claims only an order that exists.         *)
Aside(t, u) ==
  /\ u.pc \in Guarded => u.pc \in ClaimSteps /\ status[u.order] # "None"
  /\ u.job \in OtherJobs \cup {t.job}

LEMMA AfterReleaseShape ==
  ASSUME NEW t \in TaskType, NEW ok \in BOOLEAN
  PROVE  /\ AfterRelease(t, ok).pc \notin Guarded
         /\ AfterRelease(t, ok).job \in {t.job, "none"}
         /\ ~Compensates(t) => AfterRelease(t, ok) = Blank
<1>. DEFINE rest == [Blank EXCEPT !.entry = t.entry, !.job = t.job, !.order = t.order,
                                  !.ref = t.ref, !.snap = t.snap, !.ok = ok]
            x == [rest EXCEPT !.pc = "cw_voucher"]
            y == [rest EXCEPT !.pc = "rf_commit"]
<1>1. AfterRelease(t, ok) = CASE t.job = "cancel"       -> x
                              [] t.job = "refund" /\ ok -> y
                              [] OTHER                  -> Blank
  BY DEF AfterRelease
<1>2. /\ x.pc = "cw_voucher" /\ x.job = t.job
      /\ y.pc = "rf_commit" /\ y.job = t.job
      /\ Blank.pc = "idle" /\ Blank.job = "none"
  BY DEF Blank
<1>. HIDE DEF x, y
<1>. QED BY <1>1, <1>2 DEF Guarded, ClaimSteps, CheckoutSteps, Compensates

LEMMA BeginReleaseShape ==
  ASSUME NEW t \in TaskType
  PROVE  /\ BeginRelease(t).pc \notin Guarded
         /\ BeginRelease(t).job \in {t.job, "none"}
<1>. DEFINE u == [t EXCEPT !.pc = "rel_seats", !.pend = t.held]
            v == [t EXCEPT !.pc = "rel_count", !.pend = {}]
<1>1. u.pc = "rel_seats" /\ u.job = t.job /\ v.pc = "rel_count" /\ v.job = t.job
  BY DEF TaskType
<1>2. BeginRelease(t) \in {u, v, AfterRelease(t, TRUE)}
  BY DEF BeginRelease
<1>. HIDE DEF u, v
<1>. QED BY <1>1, <1>2, AfterReleaseShape DEF Guarded, ClaimSteps, CheckoutSteps

LEMMA RetryReleaseShape ==
  ASSUME NEW t \in TaskType
  PROVE  /\ RetryRelease(t).pc \notin Guarded
         /\ RetryRelease(t).job \in {t.job, "none"}
<1>1. CASE t.tries > 0
  <2>. PICK u : u = [t EXCEPT !.tries = @ - 1]
    OBVIOUS
  <2>1. u \in TaskType /\ u.job = t.job
    BY <1>1 DEF TaskType
  <2>. QED BY <1>1, <2>1, BeginReleaseShape DEF RetryRelease
<1>2. CASE ~(t.tries > 0)
  BY <1>2, AfterReleaseShape DEF RetryRelease
<1>. QED BY <1>1, <1>2

LEMMA ReleaseOrderShape ==
  ASSUME SagaAssumption, NEW t \in TaskType, t.order \in Orders,
         labels \in [Orders -> SUBSET Seats]
  PROVE  /\ ReleaseOrder(t).pc \notin Guarded
         /\ ReleaseOrder(t).job \in {t.job, "none"}
         /\ AfterCancelOpen(t).pc \notin Guarded
         /\ AfterCancelOpen(t).job \in {t.job, "none"}
<1>. PICK n : n = CountPart(t.order)
  OBVIOUS
<1>. PICK u : u = [t EXCEPT !.held = labels[t.order], !.qty = n, !.pays = {}]
  OBVIOUS
<1>. PICK v : v = [t EXCEPT !.pc = "list_paid", !.pays = {}]
  OBVIOUS
<1>1. n \in Nat /\ labels[t.order] \subseteq Seats
  BY CountPartOK
<1>2. u \in TaskType /\ u.job = t.job /\ v.pc = "list_paid" /\ v.job = t.job
  BY <1>1 DEF TaskType
<1>3. /\ BeginRelease(u).pc \notin Guarded
      /\ BeginRelease(u).job \in {t.job, "none"}
  BY <1>2, BeginReleaseShape
<1>4. ReleaseOrder(t) = BeginRelease(u) /\ AfterCancelOpen(t) \in {v, ReleaseOrder(t)}
  BY DEF ReleaseOrder, AfterCancelOpen
<1>. QED BY <1>2, <1>3, <1>4 DEF Guarded, ClaimSteps, CheckoutSteps

LEMMA AdvanceShape ==
  ASSUME NEW t \in TaskType, NEW s
  PROVE  /\ Advance(t, s).pc \notin Guarded
         /\ Advance(t, s).job \in {t.job, "none"}
<1>. DEFINE u(x) == [t EXCEPT !.pc = "tr_read", !.target = x]
            v == [t EXCEPT !.pc = "it_read"]
<1>1. /\ \A x : u(x).pc = "tr_read" /\ u(x).job = t.job
      /\ v.pc = "it_read" /\ v.job = t.job /\ Blank.pc = "idle" /\ Blank.job = "none"
  BY DEF TaskType, Blank
<1>2. Advance(t, s) \in {u("Paid"), u("Confirmed"), v, Blank}
  BY DEF Advance
<1>. HIDE DEF u, v
<1>. QED BY <1>1, <1>2 DEF Guarded, ClaimSteps, CheckoutSteps

(* The steps of the handlers that reserve nothing, cancel nothing and      *)
(* release nothing, and the steps between those that do.                   *)
Reads(w) ==
  \/ CancelRead(w) \/ RefundRead(w) \/ PaidRead(w) \/ PaidVerify(w) \/ PaidNext(w)
  \/ TransitionRead(w) \/ IssueRead(w) \/ ExpireCheckRead(w) \/ ExpireCheckVerify(w)
PaymentSteps(w) ==
  \/ ListOpenPayments(w) \/ (\E s \in Slots : CancelPayment(w, s))
  \/ ListPaidPayments(w) \/ (\E s \in Slots : MarkRefunded(w, s))
Writes(w) ==
  \/ CancelClaim(w) \/ CancelVoucher(w) \/ CancelCommit(w) \/ RefundClaim(w)
  \/ RefundCommit(w) \/ TransitionWrite(w) \/ IssueWrite(w)
Starts(w) ==
  \/ \E o \in Orders : DeliverExpireCheck(w, o)
  \/ \E o \in Orders : CronPick(w, o)
  \/ \E o \in Orders, kind \in Commands : SendRequest(w, o, kind)
  \/ \E e \in paidEvents : DeliverPaidEvent(w, e)

LEMMA ReadsAside ==
  ASSUME TypeOK, NEW w \in Workers, Reads(w)
  PROVE  \E u : Become(w, u) /\ Aside(task[w], u)
<1>. DEFINE t == task[w]
            seen(pc) == [t EXCEPT !.pc = pc, !.snap = status[t.order]]
            turn(j, pc) == [t EXCEPT !.job = j, !.pc = pc]
            goto(pc) == [t EXCEPT !.pc = pc]
            read(pc) == [[t EXCEPT !.snap = status[t.order]] EXCEPT !.pc = pc]
<1>1. t \in TaskType
  BY DEF TypeOK, TaskTypes
<1>2. \/ Become(w, Blank) \/ \E s : Become(w, Advance(t, s))
      \/ \E pc \in {"pp_verify", "tr_write"} : Become(w, seen(pc))
      \/ Become(w, turn("refund", "rf_read")) \/ Become(w, turn("paid", "pp_read"))
      \/ Become(w, turn("cancel", "cw_read"))
      \/ Become(w, goto("ec_verify")) \/ Become(w, goto("list_open"))
      \/ Become(w, read("list_open"))
      \/ /\ status[t.order] # "None"
         /\ \/ Become(w, seen("cw_claim")) \/ Become(w, read("rf_claim"))
            \/ Become(w, goto("it_write"))
  BY DEF Reads, CancelRead, RefundRead, PaidRead, PaidVerify, PaidNext, TransitionRead,
         IssueRead, ExpireCheckRead, ExpireCheckVerify, Finish, Goto, Exists
<1>3. \A j, pc : /\ seen(pc).pc = pc /\ turn(j, pc).pc = pc /\ goto(pc).pc = pc
                 /\ read(pc).pc = pc /\ seen(pc).job = t.job /\ turn(j, pc).job = j
                 /\ goto(pc).job = t.job /\ read(pc).job = t.job
                 /\ seen(pc).order = t.order /\ goto(pc).order = t.order
                 /\ read(pc).order = t.order
  BY <1>1 DEF TaskType
<1>4. Aside(t, Blank)
  BY DEF Aside, Blank, OtherJobs, Guarded, ClaimSteps, CheckoutSteps
<1>. HIDE DEF seen, turn, goto, read
<1>5. /\ \A pc \in {"pp_verify", "tr_write"} : Aside(t, seen(pc))
      /\ Aside(t, goto("ec_verify")) /\ Aside(t, goto("list_open"))
      /\ Aside(t, read("list_open"))
      /\ Aside(t, turn("refund", "rf_read")) /\ Aside(t, turn("paid", "pp_read"))
      /\ Aside(t, turn("cancel", "cw_read"))
      /\ status[t.order] # "None" =>
           Aside(t, seen("cw_claim")) /\ Aside(t, read("rf_claim")) /\ Aside(t, goto("it_write"))
  BY <1>1, <1>3 DEF Aside, OtherJobs, Guarded, ClaimSteps, CheckoutSteps
<1>6. \A s : Aside(t, Advance(t, s))
  BY <1>1, AdvanceShape DEF Aside, OtherJobs
<1>. QED BY <1>2, <1>4, <1>5, <1>6

LEMMA PaymentsAside ==
  ASSUME SagaAssumption, TypeOK, NEW w \in Workers, PaymentSteps(w)
  PROVE  \E u : Become(w, u) /\ Aside(task[w], u)
<1>. DEFINE t == task[w]
            open(P) == [t EXCEPT !.pc = "cancel_open", !.pays = P]
            paid(P) == [t EXCEPT !.pc = "refund_paid", !.pays = P]
            next(P) == [t EXCEPT !.pays = P]
<1>1. t \in TaskType /\ t.order \in Orders
      /\ labels \in [Orders -> SUBSET Seats]
      /\ t.pc \in {"list_open", "cancel_open", "list_paid", "refund_paid"}
  BY BusyOK DEF PaymentSteps, ListOpenPayments, CancelPayment, ListPaidPayments, MarkRefunded,
                At, TaskType
<1>2. \/ \E P : Become(w, open(P)) \/ Become(w, paid(P)) \/ Become(w, next(P))
      \/ Become(w, AfterCancelOpen(t)) \/ Become(w, ReleaseOrder(t))
  BY DEF PaymentSteps, ListOpenPayments, CancelPayment, ListPaidPayments, MarkRefunded
<1>3. Aside(t, AfterCancelOpen(t)) /\ Aside(t, ReleaseOrder(t))
  BY <1>1, ReleaseOrderShape DEF Aside, OtherJobs
<1>4. \A P : /\ open(P).pc = "cancel_open" /\ open(P).job = t.job
             /\ paid(P).pc = "refund_paid" /\ paid(P).job = t.job
             /\ next(P).pc = t.pc /\ next(P).job = t.job
  BY <1>1 DEF TaskType
<1>. HIDE DEF open, paid, next
<1>5. \A P : Aside(t, open(P)) /\ Aside(t, paid(P)) /\ Aside(t, next(P))
  BY <1>1, <1>4 DEF Aside, OtherJobs, Guarded, ClaimSteps, CheckoutSteps
<1>. QED BY <1>2, <1>3, <1>5

LEMMA WritesAside ==
  ASSUME TypeOK, NEW w \in Workers, Writes(w)
  PROVE  \/ \E u : Become(w, u) /\ u.pc \notin Guarded /\ u.job \in OtherJobs \cup {task[w].job}
         \/ CancelVoucher(w) /\ Become(w, [task[w] EXCEPT !.pc = "cw_commit"])
<1>. DEFINE t == task[w]
            goto(pc) == [t EXCEPT !.pc = pc]
<1>1. t \in TaskType
  BY DEF TypeOK, TaskTypes
<1>2. \/ Become(w, Blank) \/ Become(w, goto("list_open")) \/ Become(w, goto("pp_next"))
      \/ CancelVoucher(w) /\ Become(w, goto("cw_commit"))
  BY DEF Writes, CancelClaim, CancelVoucher, CancelCommit, RefundClaim, RefundCommit,
         TransitionWrite, IssueWrite, Finish, Goto
<1>3. \A pc : goto(pc).pc = pc /\ goto(pc).job = t.job
  BY <1>1 DEF TaskType
<1>4. Blank.pc \notin Guarded /\ Blank.job \in OtherJobs
  BY DEF Blank, OtherJobs, Guarded, ClaimSteps, CheckoutSteps
<1>5. CASE CancelVoucher(w) /\ Become(w, goto("cw_commit"))
  BY <1>5
<1>6. CASE Become(w, Blank) \/ Become(w, goto("list_open")) \/ Become(w, goto("pp_next"))
  <2>. HIDE DEF goto
  <2>1. goto("list_open").pc \notin Guarded /\ goto("pp_next").pc \notin Guarded
    BY <1>3 DEF Guarded, ClaimSteps, CheckoutSteps
  <2>. QED BY <1>3, <1>4, <1>6, <2>1
<1>. QED BY <1>2, <1>5, <1>6

LEMMA StartsAside ==
  ASSUME NEW w \in Workers, Starts(w)
  PROVE  \E u : Become(w, u) /\ Aside(task[w], u)
<1>. DEFINE t == task[w]
            ref(o, r) == [NewTask("pp_read", o) EXCEPT !.ref = r]
            cron(e, o) == [NewTask(e, o) EXCEPT !.entry = "idle"]
            send(e, o, s) == [NewTask(e, o) EXCEPT !.target = s]
            asked == {"cw_read", "rf_read", "it_read", "tr_read"}
<1>1. \/ \E o : Become(w, NewTask("ec_read", o))
      \/ \E o, r : Become(w, ref(o, r))
      \/ \E o : Become(w, cron("cw_read", o)) \/ Become(w, cron("rf_read", o))
      \/ \E o, s : \E e \in asked : Become(w, send(e, o, s))
  BY DEF Starts, DeliverExpireCheck, CronPick, SendRequest, DeliverPaidEvent, EntryOf
<1>2. \A o : /\ NewTask("ec_read", o).pc = "ec_read" /\ NewTask("ec_read", o).job = "check"
             /\ \A r : ref(o, r).pc = "pp_read" /\ ref(o, r).job = "paid"
             /\ \A e : cron(e, o).pc = e /\ cron(e, o).job = JobOf(e)
             /\ \A e, s : send(e, o, s).pc = e /\ send(e, o, s).job = JobOf(e)
  BY DEF NewTask, Blank, JobOf
<1>3. \A e \in asked : JobOf(e) \in OtherJobs
  BY DEF JobOf, OtherJobs
<1>. HIDE DEF ref, cron, send
<1>4. \A o : /\ Aside(t, NewTask("ec_read", o))
             /\ \A r : Aside(t, ref(o, r))
             /\ Aside(t, cron("cw_read", o)) /\ Aside(t, cron("rf_read", o))
             /\ \A s : \A e \in asked : Aside(t, send(e, o, s))
  BY <1>2, <1>3 DEF Aside, OtherJobs, Guarded, ClaimSteps, CheckoutSteps
<1>. QED BY <1>1, <1>4

-----------------------------------------------------------------------------
(* Vouchers                                                                *)
(*                                                                         *)
(* The usage of a voucher is inserted with its order and freed before the  *)
(* status Cancelled is written (cancelWorkflow) or right after it (the     *)
(* rollback of a checkout).  In between the handler is the only one that   *)
(* knows, which is why the theorem is about executions in which            *)
(* orders-service does not die: the checkout that starts again after a     *)
(* crash finds the order and does not finish the rollback.  A release may  *)
(* fail or be skipped: its order is then named in unfreed, where it stays. *)

Owed == vouchers \ unfreed

VoucherInv ==
  /\ NoLeakedVoucher
  /\ \A o \in vouchers : status[o] # "None"
  /\ \A w \in Workers : At(w, "cw_commit") => task[w].order \notin Owed

(* What a step of handler w must not do.                                   *)
LEMMA VoucherStep ==
  ASSUME SagaAssumption, ReleaseInv, VoucherInv, NEW w \in Workers, NEW u, Become(w, u),
         unfreed \subseteq unfreed',
         \A o \in vouchers' :
            /\ status'[o] # "None"
            /\ o \notin vouchers => status[o] = "None"
            /\ status'[o] = "Cancelled" =>
                 \/ u.pc = "rb_voucher" /\ u.order = o
                 \/ o \in unfreed'
                 \/ /\ o \in vouchers /\ status[o] = "Cancelled"
                    /\ task[w].pc # "rb_voucher" \/ task[w].order # o,
         u.pc = "cw_commit" => u.order \notin Owed'
  PROVE  VoucherInv'
<1>1. task' = [task EXCEPT ![w] = u] /\ task \in [Workers -> TaskType]
  BY DEF Become, ReleaseInv, SettlementInv, TypeOK, TaskTypes
<1>2. task'[w] = u /\ \A v \in Workers : v # w => task'[v] = task[v]
  BY <1>1
<1>3. ASSUME NEW o \in vouchers', o \notin unfreed', status'[o] = "Cancelled"
      PROVE  \E v \in Workers : task'[v].order = o /\ task'[v].pc = "rb_voucher"
  <2>1. CASE u.pc = "rb_voucher" /\ u.order = o
    BY <1>2, <2>1
  <2>2. CASE /\ o \in vouchers /\ status[o] = "Cancelled"
             /\ task[w].pc # "rb_voucher" \/ task[w].order # o
    <3>1. PICK v \in Workers : task[v].order = o /\ task[v].pc = "rb_voucher"
      BY <1>3, <2>2 DEF VoucherInv, NoLeakedVoucher, At
    <3>. QED BY <1>2, <2>2, <3>1
  <2>. QED BY <1>3, <2>1, <2>2
<1>4. ASSUME NEW v \in Workers, task'[v].pc = "cw_commit"
      PROVE  task'[v].order \notin Owed'
  <2>1. CASE v = w
    BY <1>2, <1>4, <2>1
  <2>2. CASE v # w
    <3>1. task[v].pc = "cw_commit" /\ task'[v] = task[v]
      BY <1>2, <1>4, <2>2
    <3>2. task[v].order \notin Owed
      BY <3>1 DEF VoucherInv, At
    <3>3. status[task[v].order] # "None"
      BY <3>1, ReleaserFacts DEF Faithful, Done, ReturnedAll
    <3>. QED BY <3>1, <3>2, <3>3 DEF Owed
  <2>. QED BY <2>1, <2>2
<1>. QED BY <1>3, <1>4 DEF VoucherInv, NoLeakedVoucher, At

(* The usual step: no usage is inserted, and no order becomes Cancelled.   *)
LEMMA VoucherFrame ==
  ASSUME SagaAssumption, ReleaseInv, VoucherInv, NEW w \in Workers, NEW u, Become(w, u),
         vouchers' \subseteq vouchers, unfreed \subseteq unfreed',
         task[w].pc = "rb_voucher" => task[w].order \notin Owed',
         \A o \in vouchers' : /\ status'[o] = "None" => status[o] = "None"
                              /\ status'[o] = "Cancelled" =>
                                   status[o] = "Cancelled" \/ o \in unfreed',
         u.pc # "cw_commit"
  PROVE  VoucherInv'
<1>1. ASSUME NEW o \in vouchers'
      PROVE  /\ status'[o] # "None" /\ o \in vouchers
             /\ status'[o] = "Cancelled" =>
                  \/ o \in unfreed'
                  \/ /\ status[o] = "Cancelled"
                     /\ task[w].pc # "rb_voucher" \/ task[w].order # o
  BY DEF VoucherInv, Owed
<1>. QED BY <1>1, VoucherStep

LEMMA CheckoutVouchers ==
  ASSUME SagaAssumption, ReleaseInv, VoucherInv, NEW w \in Workers,
         \/ CheckoutLookup(w) \/ (\E l \in Seats : ReserveSeat(w, l)) \/ ReserveCount(w)
         \/ CreatePayment(w) \/ RollbackRead(w) \/ RollbackVoucher(w)
         \/ (\E l \in Seats : ReleaseSeat(w, l)) \/ ReleaseCount(w)
  PROVE  VoucherInv'
<1>. DEFINE t == task[w]
            goto(pc) == [t EXCEPT !.pc = pc]
            hold(H, pc) == [t EXCEPT !.held = H, !.pc = pc]
            count(H, q) == [t EXCEPT !.held = H, !.qty = q, !.pc = "co_create"]
            roll == [t EXCEPT !.pc = "rb_cancel", !.snap = status[t.order]]
            next(P) == [t EXCEPT !.pend = P]
            rest(P) == [[t EXCEPT !.pend = P] EXCEPT !.pc = "rel_count"]
<1>1. t \in TaskType
  BY ReleaserFacts
<1>2. UNCHANGED status /\ vouchers' \subseteq vouchers /\ unfreed \subseteq unfreed'
  BY DEF CheckoutLookup, ReserveSeat, ReserveCount, CreatePayment, RollbackRead,
         RollbackVoucher, NoteUnfreed, ReleaseSeat, ReleaseCount, orderVars, ghostVars
<1>3. t.pc = "rb_voucher" => t.order \notin Owed'
  BY DEF CheckoutLookup, ReserveSeat, ReserveCount, CreatePayment, RollbackRead,
         RollbackVoucher, NoteUnfreed, ReleaseSeat, ReleaseCount, At, Owed
<1>4. \/ Become(w, Blank) \/ Become(w, BeginRelease(t)) \/ Become(w, RetryRelease(t))
      \/ Become(w, AfterRelease(t, TRUE))
      \/ \E pc \in {"co_reserve", "rb_read"} : Become(w, goto(pc))
      \/ \E H : \E pc \in {"co_create", "co_reserve"} : Become(w, hold(H, pc))
      \/ \E H, q : Become(w, count(H, q))
      \/ Become(w, roll)
      \/ t.pc = "rel_seats" /\ \E P : Become(w, next(P))
      \/ \E P : Become(w, rest(P))
  <2>1. CASE \E l \in Seats : ReserveSeat(w, l)
    BY <2>1 DEF ReserveSeat, At
  <2>2. CASE \E l \in Seats : ReleaseSeat(w, l)
    BY <2>2 DEF ReleaseSeat, At
  <2>3. CASE ReserveCount(w)
    BY <2>3 DEF ReserveCount
  <2>4. CASE \/ CheckoutLookup(w) \/ CreatePayment(w) \/ RollbackRead(w)
             \/ RollbackVoucher(w) \/ ReleaseCount(w)
    BY <2>4 DEF CheckoutLookup, CreatePayment, RollbackRead, RollbackVoucher, ReleaseCount,
                Finish, Goto
  <2>. QED BY <2>1, <2>2, <2>3, <2>4
<1>5. /\ \A pc : goto(pc).pc = pc
      /\ \A H, pc : hold(H, pc).pc = pc
      /\ \A H, q : count(H, q).pc = "co_create"
      /\ roll.pc = "rb_cancel" /\ Blank.pc = "idle"
      /\ \A P : next(P).pc = t.pc /\ rest(P).pc = "rel_count"
  BY <1>1 DEF TaskType, Blank
<1>6. /\ BeginRelease(t).pc # "cw_commit" /\ RetryRelease(t).pc # "cw_commit"
      /\ AfterRelease(t, TRUE).pc # "cw_commit"
  BY <1>1, BeginReleaseShape, RetryReleaseShape, AfterReleaseShape DEF Guarded
<1>. HIDE DEF goto, hold, count, roll, next, rest
<1>7. \E u : Become(w, u) /\ u.pc # "cw_commit"
  <2>1. CASE \E pc \in {"co_reserve", "rb_read"} : Become(w, goto(pc))
    BY <1>5, <2>1
  <2>2. CASE \E H : \E pc \in {"co_create", "co_reserve"} : Become(w, hold(H, pc))
    BY <1>5, <2>2
  <2>3. CASE \E H, q : Become(w, count(H, q))
    BY <1>5, <2>3
  <2>4. CASE t.pc = "rel_seats" /\ \E P : Become(w, next(P))
    BY <1>5, <2>4
  <2>5. CASE \E P : Become(w, rest(P))
    BY <1>5, <2>5
  <2>6. CASE \/ Become(w, Blank) \/ Become(w, BeginRelease(t)) \/ Become(w, RetryRelease(t))
             \/ Become(w, AfterRelease(t, TRUE)) \/ Become(w, roll)
    BY <1>5, <1>6, <2>6
  <2>. QED BY <1>4, <2>1, <2>2, <2>3, <2>4, <2>5, <2>6
<1>. QED BY <1>2, <1>3, <1>7, VoucherFrame

(* The transaction of createOrder inserts the usage with the order.        *)
LEMMA CreateOrderVouchers ==
  ASSUME SagaAssumption, ReleaseInv, VoucherInv, NEW w \in Workers, CreateOrder(w)
  PROVE  VoucherInv'
<1>. DEFINE t == task[w]
            o == t.order
            pay0 == [t EXCEPT !.pc = "co_pay"]
<1>1. t \in TaskType /\ o \in Orders /\ t.pc = "co_create" /\ status \in [Orders -> Status]
      /\ vouchers \subseteq Orders
  BY ReleaserFacts DEF CreateOrder, At, TypeOK, OrderTypes
<1>2. pay0.pc = "co_pay" /\ UNCHANGED unfreed
  BY <1>1 DEF TaskType, CreateOrder
<1>3. BeginRelease(t).pc # "cw_commit"
  BY <1>1, BeginReleaseShape DEF Guarded
<1>4. CASE /\ status[o] = "None" /\ SetStatus(o, "PendingPayment")
           /\ vouchers' = vouchers \cup ({o} \cap UsesVoucher) /\ Become(w, pay0)
  <2>. HIDE DEF pay0
  <2>1. \A p \in vouchers' :
          /\ status'[p] # "None"
          /\ p \notin vouchers => status[p] = "None"
          /\ status'[p] = "Cancelled" => p \in vouchers /\ status[p] = "Cancelled"
    BY <1>1, <1>4 DEF SetStatus, VoucherInv
  <2>. QED BY <1>1, <1>2, <1>4, <2>1, VoucherStep
<1>5. CASE /\ UNCHANGED <<status, vouchers>>
           /\ Become(w, pay0) \/ Become(w, BeginRelease(t))
  <2>. HIDE DEF pay0
  <2>. QED BY <1>1, <1>2, <1>3, <1>5, VoucherFrame
<1>. QED BY <1>4, <1>5 DEF CreateOrder, Goto

(* The rollback writes Cancelled first, and is then about to free it.      *)
LEMMA RollbackCancelVouchers ==
  ASSUME SagaAssumption, ReleaseInv, VoucherInv, NEW w \in Workers, RollbackCancel(w)
  PROVE  VoucherInv'
<1>. DEFINE t == task[w]
            o == t.order
            next == [t EXCEPT !.pc = "rb_voucher"]
<1>1. t \in TaskType /\ o \in Orders /\ t.pc = "rb_cancel" /\ status \in [Orders -> Status]
  BY ReleaserFacts DEF RollbackCancel, At
<1>2. UNCHANGED <<vouchers, unfreed>>
  BY DEF RollbackCancel
<1>3. next.pc = "rb_voucher" /\ next.order = o
  BY <1>1 DEF TaskType
<1>4. BeginRelease(t).pc # "cw_commit"
  BY <1>1, BeginReleaseShape DEF Guarded
<1>5. CASE SetStatus(o, "Cancelled") /\ Become(w, next)
  <2>. HIDE DEF next
  <2>1. \A p \in vouchers' :
          /\ p \in vouchers /\ status'[p] # "None"
          /\ status'[p] = "Cancelled" => p = o \/ status[p] = "Cancelled"
    BY <1>1, <1>2, <1>5 DEF SetStatus, VoucherInv
  <2>. QED BY <1>1, <1>2, <1>3, <1>5, <2>1, VoucherStep
<1>6. CASE UNCHANGED status /\ Become(w, BeginRelease(t))
  BY <1>1, <1>2, <1>4, <1>6, VoucherFrame
<1>. QED BY <1>5, <1>6 DEF RollbackCancel, Goto

LEMMA WritesVouchers ==
  ASSUME SagaAssumption, ReleaseInv, VoucherInv, NEW w \in Workers, Writes(w)
  PROVE  VoucherInv'
<1>. PICK t : t = task[w]
  OBVIOUS
<1>. PICK o : o = t.order
  OBVIOUS
<1>1. t \in TaskType /\ o \in Orders /\ status \in [Orders -> Status] /\ Warranted(t)
      /\ t.pc # "rb_voucher" /\ Faithful(t) /\ TypeOK
  BY ReleaserFacts DEF Writes, CancelClaim, CancelVoucher, CancelCommit, RefundClaim,
                       RefundCommit, TransitionWrite, IssueWrite, At
<1>2. CASE CancelVoucher(w)
  <2>1. /\ UNCHANGED status /\ vouchers' \subseteq vouchers
        /\ o \notin Owed' /\ unfreed \subseteq unfreed'
    BY <1>2 DEF CancelVoucher, NoteUnfreed, Owed
  <2>2. \E n : /\ n.pc = "cw_commit" /\ n.order = o
               /\ Become(w, n) \/ Become(w, Blank)
    <3>. DEFINE n == [t EXCEPT !.pc = "cw_commit"]
    <3>1. n.pc = "cw_commit" /\ n.order = o
      BY <1>1 DEF TaskType
    <3>2. Become(w, n) \/ Become(w, Blank)
      BY <1>2 DEF CancelVoucher, Goto, Finish
    <3>. QED BY <3>1, <3>2
  <2>. PICK next : /\ next.pc = "cw_commit" /\ next.order = o
                   /\ Become(w, next) \/ Become(w, Blank)
    BY <2>2
  <2>3. \A p \in vouchers' : p \in vouchers /\ status'[p] = status[p] /\ status[p] # "None"
    BY <2>1 DEF VoucherInv
  <2>4. CASE Become(w, next)
    <3>1. next.order \notin Owed'
      BY <2>1
    <3>. QED BY <1>1, <2>1, <2>3, <2>4, <3>1, VoucherStep
  <2>5. CASE Become(w, Blank)
    BY <1>1, <2>1, <2>3, <2>5, VoucherStep DEF Blank
  <2>. QED BY <2>4, <2>5
<1>3. CASE CancelCommit(w)
  <2>1. o \notin Owed /\ UNCHANGED <<vouchers, unfreed>>
    BY <1>3 DEF CancelCommit, VoucherInv, At, ghostVars
  <2>2. UNCHANGED status \/ status' = [status EXCEPT ![o] = "Cancelled"]
    BY <1>3 DEF CancelCommit, SetStatus
  <2>3. Become(w, Blank) /\ Blank.pc # "cw_commit"
    BY <1>3 DEF CancelCommit, Finish, Blank
  <2>4. \A p \in vouchers' :
          /\ status'[p] = "None" => status[p] = "None"
          /\ status'[p] = "Cancelled" => status[p] = "Cancelled" \/ p \in unfreed'
    BY <1>1, <2>1, <2>2 DEF TypeOK, OrderTypes, Owed
  <2>. QED BY <1>1, <2>1, <2>3, <2>4, VoucherFrame
<1>4. CASE \/ CancelClaim(w) \/ RefundClaim(w) \/ RefundCommit(w)
           \/ TransitionWrite(w) \/ IssueWrite(w)
  <2>1. UNCHANGED <<vouchers, unfreed>>
    BY <1>4 DEF CancelClaim, RefundClaim, RefundCommit, TransitionWrite, IssueWrite,
                ghostVars
  <2>2. \/ UNCHANGED status
        \/ \E s \in Status \ {"None", "Cancelled"} : status' = [status EXCEPT ![o] = s]
    <3>1. CASE TransitionWrite(w)
      <4>1. t.snap \in AllowedFor(t.target) /\ t.target \in Status
        BY <1>1, <3>1 DEF TransitionWrite, At, Warranted, TaskType
      <4>2. t.target \in Status \ {"None", "Cancelled"}
        BY <4>1 DEF AllowedFor
      <4>3. UNCHANGED status \/ status' = [status EXCEPT ![o] = t.target]
        BY <3>1 DEF TransitionWrite, SetStatus
      <4>. QED BY <4>2, <4>3
    <3>2. CASE CancelClaim(w) \/ RefundClaim(w) \/ RefundCommit(w) \/ IssueWrite(w)
      BY <3>2 DEF CancelClaim, RefundClaim, RefundCommit, IssueWrite, SetStatus, Status,
                  Open, Closed
    <3>. QED BY <1>4, <3>1, <3>2
  <2>3. \A p \in Orders : /\ status'[p] = "None" => status[p] = "None"
                          /\ status'[p] = "Cancelled" => status[p] = "Cancelled"
    BY <1>1, <2>2
  <2>4. \E u : Become(w, u) /\ u.pc # "cw_commit"
    <3>. DEFINE goto(pc) == [t EXCEPT !.pc = pc]
    <3>1. goto("list_open").pc = "list_open" /\ goto("pp_next").pc = "pp_next"
          /\ Blank.pc = "idle"
      BY <1>1 DEF TaskType, Blank
    <3>2. Become(w, Blank) \/ Become(w, goto("list_open")) \/ Become(w, goto("pp_next"))
      BY <1>4 DEF CancelClaim, RefundClaim, RefundCommit, TransitionWrite, IssueWrite,
                  Finish, Goto
    <3>. HIDE DEF goto
    <3>. QED BY <3>1, <3>2
  <2>5. vouchers \subseteq Orders
    BY <1>1 DEF TypeOK, OrderTypes
  <2>. QED BY <1>1, <2>1, <2>3, <2>4, <2>5, VoucherFrame
<1>. QED BY <1>2, <1>3, <1>4 DEF Writes


LEMMA AsideVouchers ==
  ASSUME SagaAssumption, ReleaseInv, VoucherInv, NEW w \in Workers,
         \/ Reads(w) \/ PaymentSteps(w) \/ Starts(w)
         \/ \E o \in Orders : SubmitCheckout(w, o)
  PROVE  VoucherInv'
<1>1. UNCHANGED <<status, vouchers, unfreed>> /\ task[w].pc # "rb_voucher"
  BY DEF Reads, CancelRead, RefundRead, PaidRead, PaidVerify, PaidNext, TransitionRead,
         IssueRead, ExpireCheckRead, ExpireCheckVerify, PaymentSteps, ListOpenPayments,
         CancelPayment, ListPaidPayments, MarkRefunded, Starts, DeliverExpireCheck,
         CronPick, SendRequest, DeliverPaidEvent, SubmitCheckout, orderVars, ghostVars, At
<1>2. TypeOK
  BY DEF ReleaseInv, SettlementInv
<1>3. \E u : Become(w, u) /\ u.pc # "cw_commit"
  <2>1. CASE Reads(w) \/ PaymentSteps(w) \/ Starts(w)
    BY <1>2, <2>1, ReadsAside, PaymentsAside, StartsAside DEF Aside, Guarded, ClaimSteps
  <2>2. CASE \E o \in Orders : SubmitCheckout(w, o)
    <3>1. \A o : NewTask("co_lookup", o).pc # "cw_commit"
      BY DEF NewTask, Blank
    <3>. QED BY <2>2, <3>1 DEF SubmitCheckout
  <2>. QED BY <2>1, <2>2
<1>. PICK u : Become(w, u) /\ u.pc # "cw_commit"
  BY <1>3
<1>. QED BY <1>1, VoucherFrame

LEMMA InitVoucher == ASSUME Init PROVE VoucherInv
<1>1. vouchers = {} /\ \A w \in Workers : task[w].pc = "idle"
  BY DEF Init, Blank
<1>. QED BY <1>1 DEF VoucherInv, NoLeakedVoucher, At

(* The executions in which orders-service stays up.                        *)
NoCrash == Limit["crash"] = 0

LEMMA NeverCrashes ==
  ASSUME SagaAssumption, TypeOK, NoCrash PROVE ~Crash
<1>1. used["crash"] \in Nat
  BY DEF TypeOK, Kinds, Faults
<1>. QED BY <1>1 DEF NoCrash, Crash, Spend

LEMMA NextVoucher ==
  ASSUME SagaAssumption, NoCrash, ReleaseInv, VoucherInv, [Next]_vars
  PROVE  VoucherInv'
<1>1. TypeOK
  BY DEF ReleaseInv, SettlementInv
<1>2. ASSUME NEW w \in Workers, WorkerStep(w) PROVE VoucherInv'
  <2>1. \/ Reads(w) \/ PaymentSteps(w) \/ Writes(w) \/ CreateOrder(w) \/ RollbackCancel(w)
        \/ CheckoutLookup(w) \/ (\E l \in Seats : ReserveSeat(w, l)) \/ ReserveCount(w)
        \/ CreatePayment(w) \/ RollbackRead(w) \/ RollbackVoucher(w)
        \/ (\E l \in Seats : ReleaseSeat(w, l)) \/ ReleaseCount(w)
    BY <1>2, Zenon DEF WorkerStep, Reads, PaymentSteps, Writes
  <2>. QED BY <2>1, AsideVouchers, WritesVouchers, CreateOrderVouchers,
              RollbackCancelVouchers, CheckoutVouchers
<1>3. CASE \/ \E w \in Workers : Deliver(w)
           \/ \E w \in Workers, o \in Orders : SubmitCheckout(w, o)
           \/ \E w \in Workers, o \in Orders, kind \in Commands : SendRequest(w, o, kind)
           \/ \E w \in Workers, o \in Orders : CronPick(w, o)
  <2>1. \E w \in Workers : Starts(w) \/ \E o \in Orders : SubmitCheckout(w, o)
    BY <1>3 DEF Deliver, Starts
  <2>. QED BY <2>1, AsideVouchers
<1>4. CASE \/ \E o \in Orders : RemoveOrder(o)
           \/ \E o \in Orders : Age(o)
           \/ \E o \in Orders, s \in Slots : Settle(o, s)
           \/ \E r \in late : RunLate(r)
           \/ Rest \/ UNCHANGED vars
  <2>1. UNCHANGED <<status, vouchers, unfreed, task>>
    BY <1>4 DEF RemoveOrder, Age, Settle, RunLate, Rest, vars, orderVars, ghostVars
  <2>. QED BY <2>1 DEF VoucherInv, NoLeakedVoucher, At, Owed
<1>. QED BY <1>1, <1>2, <1>3, <1>4, NeverCrashes DEF Next

(* The voucher usage of a Cancelled order is freed or about to be: when    *)
(* orders-service does not die, whatever fails, times out, is resubmitted  *)
(* or removed meanwhile, an order that cancelWorkflow or the rollback of a *)
(* checkout cancelled keeps its voucher only if the release itself failed  *)
(* or was skipped, which the code allows (releaseUsage is best-effort).    *)
THEOREM NoLeakedVoucherHolds ==
  ASSUME NoCrash
  PROVE  Spec => []NoLeakedVoucher
<1>1. Init => VoucherInv
  BY InitVoucher
<1>2. Init => ReleaseInv
  BY SagaAssumption, InitRelease
<1>3. ReleaseInv /\ [Next]_vars => ReleaseInv'
  BY SagaAssumption, NextRelease
<1>4. ReleaseInv /\ VoucherInv /\ [Next]_vars => VoucherInv'
  BY SagaAssumption, NoCrash, NextVoucher
<1>5. VoucherInv => NoLeakedVoucher
  BY DEF VoucherInv
<1>. QED BY <1>1, <1>2, <1>3, <1>4, <1>5, PTL DEF Spec

-----------------------------------------------------------------------------
(* Seats                                                                   *)
(*                                                                         *)
(* A seat out of sale is traced to the place it can come back from: a      *)
(* checkout that has taken it and not yet handed it over, an order that    *)
(* has it and did not return it, or a release in the queue.  A checkout    *)
(* that releases keeps its seats only as long as it has attempts left, so  *)
(* the invariant counts the failed calls against the retries.  A cover is  *)
(* given up in two ways: the seat is for sale again, or another cover      *)
(* takes over.                                                             *)
(*                                                                         *)
(* The hypotheses are what the code relies on: no crash and no lost answer *)
(* (the seat is then reserved without anybody knowing), a key submitted    *)
(* once (two checkouts of one key reserve twice and one of them joins the  *)
(* order of the other), no order removed while it has seats, and no more   *)
(* failed calls than a release has retries.                                *)

Calm == NoCrash /\ \A k \in {"timeout", "resubmit", "remove"} : Limit[k] = 0
FewErrors == Limit["error"] <= MaxRetries

SeatSteps == CheckoutSteps \ {"co_lookup"}
PlacedSteps == {"co_pay", "rb_read", "rb_cancel", "rb_voucher"}
Holding == Open \cup {"Cancelling", "RefundPending", "Expired"}

(* What a checkout knows of its order, and a claim of its own.             *)
InPlace(t) ==
  /\ t.pc \in ClaimSteps => status[t.order] # "None"
  /\ t.job = "checkout" =>
       /\ t.order \in submitted
       /\ t.pc \in CheckoutSteps \cup ReleaseSteps
       /\ t.pc \in CheckoutSteps => t.tries = MaxRetries
       /\ t.pc \in CheckoutSteps \ PlacedSteps => status[t.order] = "None"
       /\ t.pc \in PlacedSteps => status[t.order] # "None" /\ labels[t.order] = t.held
       /\ t.pc \in PlacedSteps \ {"rb_voucher"} => t.order \notin rolledBack

(* Each order has one checkout, and nobody else places or rolls back.      *)
CheckoutInv ==
  /\ removed = {}
  /\ \A r \in late : r.op \notin {"reserve", "reserve_seat"}
  /\ \A o \in Orders : o \notin submitted => status[o] = "None"
  /\ \A o \in Orders : status[o] = "None" => returned[o] = {} /\ o \notin rolledBack
  /\ \A w \in Workers : InPlace(task[w])
  /\ \A v, w \in Workers :
       v # w /\ task[v].job = "checkout" /\ task[w].job = "checkout"
         => task[v].order # task[w].order

(* The checkout t will still hand over or release seat l. *)
Carries(t, l) ==
  /\ t.job = "checkout" /\ l \in t.held /\ l \notin returned[t.order]
  /\ \/ t.pc \in SeatSteps
     \/ t.pc = "rel_seats" /\ l \in t.pend /\ used["error"] >= MaxRetries - t.tries

OwnedBy(o, l) == l \in labels[o] /\ l \notin returned[o] /\ status[o] \in Holding

Queued(l) == \E r \in late : r.op = "release_seat" /\ r.seat = l

Covered ==
  \A l \in Seats \ item.avail :
    \/ \E w \in Workers : Carries(task[w], l)
    \/ \E o \in Orders : OwnedBy(o, l)
    \/ Queued(l)

SeatInv == CheckoutInv /\ (FewErrors => Covered)

(* Everything known before a step. *)
SeatContext == SagaAssumption /\ Calm /\ ReleaseInv /\ StockInv /\ SeatInv

LEMMA SeatFacts ==
  ASSUME SeatContext, NEW w \in Workers
  PROVE  /\ SagaAssumption /\ TypeOK /\ task[w] \in TaskType /\ TaskOK(task[w])
         /\ Faithful(task[w]) /\ InPlace(task[w]) /\ Warranted(task[w])
         /\ task[w].pc # "idle" => task[w].order \in Orders
         /\ labels \in [Orders -> SUBSET Seats] /\ status \in [Orders -> Status]
         /\ item \in ItemType(Seats) /\ item.seats = Seats /\ removed = {}
  BY ReleaserFacts DEF SeatContext, SeatInv, CheckoutInv, StockInv, TypeOK

LEMMA NeverSpends ==
  ASSUME SagaAssumption, TypeOK, NEW k \in Kinds, Limit[k] = 0
  PROVE  ~Spend(k)
<1>1. used[k] \in Nat
  BY DEF TypeOK
<1>. QED BY <1>1 DEF Spend

(* A call that fails was refused before the service took it.               *)
LEMMA OnlyErrors ==
  ASSUME SeatContext
  PROVE  /\ ~Spend("timeout") /\ ~Spend("resubmit") /\ ~Spend("remove") /\ ~Spend("crash")
         /\ \A R : RpcFails(R) => Spend("error") /\ UNCHANGED late
<1>1. SagaAssumption /\ TypeOK
  BY DEF SeatContext, StockInv
<1>2. \A k \in {"timeout", "resubmit", "remove", "crash"} : k \in Kinds /\ Limit[k] = 0
  BY DEF SeatContext, Calm, NoCrash, Kinds, Faults
<1>3. ~Spend("timeout") /\ ~Spend("resubmit") /\ ~Spend("remove") /\ ~Spend("crash")
  BY <1>1, <1>2, NeverSpends
<1>. QED BY <1>3 DEF RpcFails

LEMMA ErrorsGrow ==
  ASSUME TypeOK, UNCHANGED used \/ \E k \in Kinds : Spend(k)
  PROVE  used["error"] \in Nat /\ used'["error"] \in Nat /\ used'["error"] >= used["error"]
<1>1. used \in [Kinds -> Nat] /\ "error" \in Kinds
  BY DEF TypeOK, Kinds, Faults
<1>2. ASSUME NEW k \in Kinds, Spend(k)
      PROVE  used'["error"] \in Nat /\ used'["error"] >= used["error"]
  BY <1>1, <1>2 DEF Spend
<1>. QED BY <1>1, <1>2

-----------------------------------------------------------------------------
(* What a step of handler w must not disturb.                              *)

(* w is the checkout of order o. *)
Owns(w, o) == task[w].job = "checkout" /\ task[w].order = o

LEMMA CheckoutFrame ==
  ASSUME SeatContext, Keeps, NEW w \in Workers, NEW u, Become(w, u), InPlace(u)',
         \/ u.job # "checkout" \/ Owns(w, u.order)
         \/ \A v \in Workers : ~Owns(v, u.order),
         UNCHANGED removed, submitted \subseteq submitted',
         \A r \in late' : r \in late \/ r.op \notin {"reserve", "reserve_seat"},
         \A o \in Orders : status[o] = "None" =>
            (status'[o] = "None" /\ returned'[o] = returned[o]) \/ Owns(w, o),
         \A o \in Orders : status'[o] = "None" => returned'[o] = returned[o],
         \A o \in rolledBack' : o \in rolledBack \/ (Owns(w, o) /\ status'[o] # "None")
  PROVE  CheckoutInv'
<1>1. task' = [task EXCEPT ![w] = u] /\ task \in [Workers -> TaskType] /\ CheckoutInv
  BY DEF Become, SeatContext, SeatInv, StockInv, TypeOK, TaskTypes
<1>2. task'[w] = u /\ \A v \in Workers : v # w => task'[v] = task[v]
  BY <1>1
<1>3. \A r \in late' : r.op \notin {"reserve", "reserve_seat"}
  BY <1>1 DEF CheckoutInv
<1>4. ASSUME NEW o \in Orders, o \notin submitted' PROVE status'[o] = "None"
  BY <1>1, <1>4 DEF CheckoutInv, InPlace, Owns
<1>5. ASSUME NEW o \in Orders, status'[o] = "None"
      PROVE  returned'[o] = {} /\ o \notin rolledBack'
  BY <1>1, <1>5 DEF CheckoutInv, Keeps
<1>6. ASSUME NEW v \in Workers, v # w PROVE InPlace(task[v])'
  <2>. PICK t : t = task[v]
    OBVIOUS
  <2>1. InPlace(t)
    BY <1>1, <1>6 DEF CheckoutInv
  <2>2. CASE t.order \in Orders
    <3>1. t.job = "checkout" => ~Owns(w, t.order)
      BY <1>1, <1>6 DEF CheckoutInv, Owns
    <3>2. InPlace(t)'
      BY <2>1, <2>2, <3>1 DEF InPlace, Keeps
    <3>. QED BY <1>2, <1>6, <3>2 DEF InPlace
  <2>3. CASE t.order \notin Orders
    <3>1. t.pc = "idle"
      BY <2>3, SeatFacts
    <3>2. t.job # "checkout" /\ t.pc \notin ClaimSteps
      BY <2>1, <3>1 DEF InPlace, CheckoutSteps, ReleaseSteps, ClaimSteps
    <3>. QED BY <1>2, <1>6, <3>2 DEF InPlace
  <2>. QED BY <2>2, <2>3
<1>7. ASSUME NEW v \in Workers PROVE InPlace(task[v])'
  <2>1. CASE v = w
    BY <1>2, <2>1 DEF InPlace
  <2>. QED BY <1>6, <2>1
<1>8. ASSUME NEW v \in Workers, NEW x \in Workers, v # x,
             task'[v].job = "checkout", task'[x].job = "checkout"
      PROVE  task'[v].order # task'[x].order
  <2>1. CASE v # w /\ x # w
    BY <1>1, <1>2, <1>8, <2>1 DEF CheckoutInv
  <2>2. ASSUME NEW y \in Workers, y # w, u.job = "checkout", task[y].job = "checkout"
        PROVE  task[y].order # u.order
    BY <1>1, <2>2 DEF CheckoutInv, Owns
  <2>. QED BY <1>2, <1>8, <2>1, <2>2
<1>. QED BY <1>1, <1>3, <1>4, <1>5, <1>7, <1>8 DEF CheckoutInv

(* Seat l, out of sale after the step, is covered after it.                *)
Safe(u, l) == Carries(u, l) \/ (\E o \in Orders : OwnedBy(o, l)) \/ Queued(l)

LEMMA CoverFrame ==
  ASSUME SeatContext, FewErrors, Keeps, NEW w \in Workers, NEW u, Become(w, u),
         UNCHANGED used \/ \E k \in Kinds : Spend(k),
         late \subseteq late',
         \A l \in Seats \ item'.avail : \A o \in Orders :
            l \in returned'[o] => l \in returned[o],
         \A l \in Seats \ item'.avail : \A o \in Orders :
            OwnedBy(o, l) => status'[o] \in Holding \/ Safe(u, l)',
         \A l \in Seats \ item'.avail :
            l \in item.avail \/ Carries(task[w], l) => Safe(u, l)'
  PROVE  Covered'
<1>1. task' = [task EXCEPT ![w] = u] /\ task \in [Workers -> TaskType] /\ Covered /\ TypeOK
  BY DEF Become, SeatContext, SeatInv, StockInv, TypeOK, TaskTypes
<1>2. task'[w] = u /\ \A v \in Workers : v # w => task'[v] = task[v]
  BY <1>1
<1>3. SUFFICES ASSUME NEW l \in Seats \ item'.avail
               PROVE  \/ \E v \in Workers : Carries(task[v], l)'
                      \/ \E o \in Orders : OwnedBy(o, l)'
                      \/ Queued(l)'
  BY DEF Covered
<1>4. ASSUME Safe(u, l)'
      PROVE  \/ \E v \in Workers : Carries(task[v], l)'
             \/ \E o \in Orders : OwnedBy(o, l)'
             \/ Queued(l)'
  <2>1. Carries(u, l)' => Carries(task[w], l)'
    BY <1>2 DEF Carries
  <2>. QED BY <1>4, <2>1 DEF Safe
<1>5. ASSUME NEW v \in Workers, v # w, Carries(task[v], l) PROVE Carries(task[v], l)'
  <2>. PICK t : t = task[v]
    OBVIOUS
  <2>1. used'["error"] >= used["error"] /\ used["error"] \in Nat /\ used'["error"] \in Nat
    BY <1>1, ErrorsGrow
  <2>2. t \in TaskType /\ t.tries \in Nat /\ MaxRetries \in Nat
    BY <1>1 DEF TaskType, SeatContext, SagaAssumption
  <2>3. t.order \in Orders
    <3>1. t.pc # "idle"
      BY <1>5 DEF Carries, SeatSteps, CheckoutSteps
    <3>. QED BY <3>1, SeatFacts
  <2>4. Carries(t, l)'
    BY <1>5, <2>1, <2>2, <2>3 DEF Carries
  <2>. QED BY <1>2, <1>5, <2>4 DEF Carries
<1>6. ASSUME NEW o \in Orders, OwnedBy(o, l) PROVE OwnedBy(o, l)' \/ Safe(u, l)'
  BY <1>6 DEF OwnedBy, Keeps, Holding, Open
<1>7. Queued(l) => Queued(l)'
  BY DEF Queued
<1>8. CASE l \in item.avail \/ Carries(task[w], l)
  BY <1>4, <1>8
<1>9. CASE l \notin item.avail /\ ~Carries(task[w], l)
  BY <1>1, <1>4, <1>5, <1>6, <1>7, <1>9 DEF Covered
<1>. QED BY <1>8, <1>9

(* A handler that is no checkout: it places nothing and carries nothing.   *)
LEMMA BystanderStep ==
  ASSUME SeatContext, Keeps, NEW w \in Workers, NEW u, Become(w, u),
         task[w].job # "checkout", u.job # "checkout",
         u.pc \in ClaimSteps => status'[u.order] # "None",
         UNCHANGED <<removed, submitted, rolledBack>>,
         UNCHANGED used \/ \E k \in Kinds : Spend(k),
         late \subseteq late',
         \A r \in late' : r \in late \/ r.op \notin {"reserve", "reserve_seat"},
         \A o \in Orders : status[o] = "None" => status'[o] = "None" /\ returned'[o] = returned[o],
         item.avail \subseteq item'.avail,
         \A l \in Seats \ item'.avail : \A o \in Orders :
            /\ l \in returned'[o] => l \in returned[o]
            /\ OwnedBy(o, l) => status'[o] \in Holding \/ Queued(l)'
  PROVE  SeatInv'
<1>1. InPlace(u)'
  BY DEF InPlace
<1>2. CheckoutInv'
  <2>1. \A o \in Orders : status'[o] = "None" => returned'[o] = returned[o]
    BY DEF Keeps
  <2>. QED BY <1>1, <2>1, CheckoutFrame
<1>3. \A l : ~Carries(task[w], l)
  BY DEF Carries
<1>4. FewErrors => Covered'
  <2>1. \A l \in Seats \ item'.avail : \A o \in Orders :
          OwnedBy(o, l) => status'[o] \in Holding \/ Safe(u, l)'
    BY DEF Safe
  <2>. QED BY <1>3, <2>1, CoverFrame
<1>. QED BY <1>2, <1>4 DEF SeatInv

LEMMA NotCheckout ==
  ASSUME SeatContext, NEW w \in Workers,
         task[w].pc \notin CheckoutSteps \cup ReleaseSteps
  PROVE  task[w].job # "checkout"
  BY SeatFacts DEF InPlace

(* The steps that write no order row and no seat.                          *)
LEMMA AsideSeats ==
  ASSUME SeatContext, NEW w \in Workers,
         Reads(w) \/ PaymentSteps(w) \/ Starts(w)
  PROVE  SeatInv'
<1>1. task[w].job # "checkout"
  <2>1. task[w].pc \notin CheckoutSteps \cup ReleaseSteps
    BY DEF Reads, CancelRead, RefundRead, PaidRead, PaidVerify, PaidNext, TransitionRead,
           IssueRead, ExpireCheckRead, ExpireCheckVerify, PaymentSteps, ListOpenPayments,
           CancelPayment, ListPaidPayments, MarkRefunded, Starts, DeliverExpireCheck,
           CronPick, SendRequest, DeliverPaidEvent, At, CheckoutSteps, ReleaseSteps
  <2>. QED BY <2>1, NotCheckout
<1>2. \E u : /\ Become(w, u) /\ u.job # "checkout"
             /\ u.pc \in ClaimSteps => status[u.order] # "None"
  <2>1. SagaAssumption /\ TypeOK
    BY SeatFacts
  <2>2. PICK u : Become(w, u) /\ Aside(task[w], u)
    BY <2>1, ReadsAside, PaymentsAside, StartsAside
  <2>. QED BY <1>1, <2>2 DEF Aside, OtherJobs, Guarded
<1>3. UNCHANGED <<status, labels, removed, submitted, rolledBack, returned, item>>
  BY DEF Reads, CancelRead, RefundRead, PaidRead, PaidVerify, PaidNext, TransitionRead,
         IssueRead, ExpireCheckRead, ExpireCheckVerify, PaymentSteps, ListOpenPayments,
         CancelPayment, ListPaidPayments, MarkRefunded, Starts, DeliverExpireCheck,
         CronPick, SendRequest, DeliverPaidEvent, orderVars, clientVars, ghostVars
<1>4. UNCHANGED used \/ \E k \in Kinds : Spend(k)
  BY DEF Reads, CancelRead, RefundRead, PaidRead, PaidVerify, PaidNext, TransitionRead,
         IssueRead, ExpireCheckRead, ExpireCheckVerify, PaymentSteps, ListOpenPayments,
         CancelPayment, ListPaidPayments, MarkRefunded, Starts, DeliverExpireCheck,
         CronPick, SendRequest, DeliverPaidEvent, Kinds, Faults
<1>5. late \subseteq late' /\ \A r \in late' : r \in late \/ r.op \notin {"reserve", "reserve_seat"}
  <2>1. CASE Reads(w) \/ Starts(w) \/ ListOpenPayments(w) \/ ListPaidPayments(w)
    BY <2>1 DEF Reads, CancelRead, RefundRead, PaidRead, PaidVerify, PaidNext, TransitionRead,
         IssueRead, ExpireCheckRead, ExpireCheckVerify, ListOpenPayments, ListPaidPayments,
         Starts, DeliverExpireCheck, CronPick, SendRequest, DeliverPaidEvent
  <2>2. ASSUME NEW s \in Slots, CancelPayment(w, s) \/ MarkRefunded(w, s)
        PROVE  \E P, op : /\ op \in {"payments.cancel", "payments.markRefunded"}
                          /\ late' = late \cup {PayRequest(op, w, p) : p \in P}
    <3>1. CASE CancelPayment(w, s)
      <4>1. \E P : late' = late \cup {PayRequest("payments.cancel", w, p) : p \in P}
        <5>1. UNCHANGED late => late' = late \cup {PayRequest("payments.cancel", w, p) : p \in {}}
          OBVIOUS
        <5>. QED BY <3>1, <5>1, Zenon DEF CancelPayment
      <4>. QED BY <4>1
    <3>2. CASE MarkRefunded(w, s)
      <4>1. \E P : late' = late \cup {PayRequest("payments.markRefunded", w, p) : p \in P}
        <5>1. UNCHANGED late => late' = late \cup {PayRequest("payments.markRefunded", w, p) : p \in {}}
          OBVIOUS
        <5>. QED BY <3>2, <5>1, Zenon DEF MarkRefunded
      <4>. QED BY <4>1
    <3>. QED BY <2>2, <3>1, <3>2
  <2>3. \A op, p : PayRequest(op, w, p).op = op
    BY DEF PayRequest, Request
  <2>4. CASE \E s \in Slots : CancelPayment(w, s) \/ MarkRefunded(w, s)
    <3>. PICK P, op : /\ op \in {"payments.cancel", "payments.markRefunded"}
                      /\ late' = late \cup {PayRequest(op, w, p) : p \in P}
      BY <2>2, <2>4
    <3>. QED BY <2>3
  <2>. QED BY <2>1, <2>4 DEF PaymentSteps
<1>6. Keeps
  BY <1>3 DEF Keeps
<1>7. \A o, l : OwnedBy(o, l) => status'[o] \in Holding
  BY <1>3 DEF OwnedBy
<1>8. PICK u : /\ Become(w, u) /\ u.job # "checkout"
               /\ u.pc \in ClaimSteps => status[u.order] # "None"
  BY <1>2
<1>9. \A l \in Seats \ item'.avail : \A o \in Orders :
            /\ l \in returned'[o] => l \in returned[o]
            /\ OwnedBy(o, l) => status'[o] \in Holding \/ Queued(l)'
  BY <1>3, <1>7
<1>. QED BY <1>1, <1>3, <1>4, <1>5, <1>6, <1>8, <1>9, BystanderStep

(* The writes of the status: an order that leaves Holding gave back its    *)
(* seats before.                                                           *)
LEMMA WritesSeats ==
  ASSUME SeatContext, NEW w \in Workers, Writes(w)
  PROVE  SeatInv'
<1>. PICK t : t = task[w]
  OBVIOUS
<1>. PICK o : o = t.order
  OBVIOUS
<1>1. /\ t.pc \in {"cw_claim", "cw_voucher", "cw_commit", "rf_claim", "rf_commit", "tr_write", "it_write"}
      /\ UNCHANGED <<labels, removed, submitted, rolledBack, returned, item, late>>
      /\ UNCHANGED used \/ \E k \in Kinds : Spend(k)
  BY DEF Writes, CancelClaim, CancelVoucher, CancelCommit, RefundClaim, RefundCommit,
         TransitionWrite, IssueWrite, At, clientVars, ghostVars, Kinds, Faults
<1>2. /\ t \in TaskType /\ o \in Orders /\ Warranted(t) /\ Faithful(t) /\ TypeOK
      /\ status \in [Orders -> Status] /\ SagaAssumption
  BY <1>1, SeatFacts
<1>3. t.job # "checkout"
  <2>1. t.pc \notin CheckoutSteps \cup ReleaseSteps
    BY <1>1 DEF CheckoutSteps, ReleaseSteps
  <2>. QED BY <2>1, NotCheckout
<1>4. \E u : Become(w, u) /\ u.job # "checkout" /\ u.pc \notin ClaimSteps
  <2>1. CASE CancelVoucher(w) /\ Become(w, [t EXCEPT !.pc = "cw_commit"])
    <3>. DEFINE u == [t EXCEPT !.pc = "cw_commit"]
    <3>1. u.job = t.job /\ u.pc = "cw_commit"
      BY <1>2 DEF TaskType
    <3>2. Become(w, u) /\ u.job # "checkout" /\ u.pc \notin ClaimSteps
      BY <1>3, <2>1, <3>1 DEF ClaimSteps
    <3>. QED BY <3>2
  <2>2. CASE \E u : Become(w, u) /\ u.pc \notin Guarded /\ u.job \in OtherJobs \cup {t.job}
    BY <1>3, <2>2 DEF OtherJobs, Guarded
  <2>. QED BY <1>2, <2>1, <2>2, WritesAside
<1>5. status[o] # "None" \/ UNCHANGED status
  <2>1. CASE t.pc \in ClaimSteps
    BY <1>2, <2>1, SeatFacts DEF InPlace
  <2>2. CASE CancelVoucher(w) \/ CancelCommit(w) \/ RefundCommit(w)
    BY <1>2, <2>2 DEF CancelVoucher, CancelCommit, RefundCommit, Exists, At, Faithful, Done,
                      ReturnedAll
  <2>3. CASE TransitionWrite(w)
    <3>1. t.snap # "None" /\ (status[o] = t.snap \/ UNCHANGED status)
      BY <1>2, <2>3 DEF TransitionWrite, At, Matches, Warranted, AllowedFor
    <3>. QED BY <3>1
  <2>4. CASE CancelClaim(w) \/ RefundClaim(w) \/ IssueWrite(w)
    BY <2>1, <2>4 DEF CancelClaim, RefundClaim, IssueWrite, At, ClaimSteps
  <2>. QED BY <2>2, <2>3, <2>4 DEF Writes
<1>6. \/ UNCHANGED status
      \/ \E s \in Holding : status' = [status EXCEPT ![o] = s]
      \/ ReturnedAll(o) /\ \E s \in {"Cancelled", "Refunded"} : status' = [status EXCEPT ![o] = s]
  <2>1. CASE CancelVoucher(w)
    BY <2>1 DEF CancelVoucher
  <2>2. CASE CancelCommit(w) \/ RefundCommit(w)
    <3>1. ReturnedAll(o)
      BY <1>2, <2>2 DEF CancelCommit, RefundCommit, At, Faithful, Done
    <3>. QED BY <2>2, <3>1 DEF CancelCommit, RefundCommit, SetStatus
  <2>3. CASE TransitionWrite(w)
    <3>1. t.snap \in AllowedFor(t.target) /\ t.target \in Status
      BY <1>2, <2>3 DEF TransitionWrite, At, Warranted, TaskType
    <3>2. t.target \in Holding
      BY <3>1 DEF AllowedFor, Holding, Open
    <3>. QED BY <2>3, <3>2 DEF TransitionWrite, SetStatus
  <2>4. CASE CancelClaim(w) \/ RefundClaim(w) \/ IssueWrite(w)
    BY <2>4 DEF CancelClaim, RefundClaim, IssueWrite, SetStatus, Holding, Open
  <2>. QED BY <2>1, <2>2, <2>3, <2>4 DEF Writes
<1>7. Keeps
  BY <1>1, <1>2, <1>6, StatusKeeps DEF Keeps, Holding, Open
<1>8. \A p \in Orders : status[p] = "None" => status'[p] = "None"
  BY <1>2, <1>5, <1>6
<1>9. ASSUME NEW l \in Seats, NEW p \in Orders, OwnedBy(p, l) PROVE status'[p] \in Holding
  <2>1. CASE p = o /\ ReturnedAll(o)
    BY <1>9, <2>1 DEF OwnedBy, ReturnedAll, Parts
  <2>2. CASE UNCHANGED status \/ \E s \in Holding : status' = [status EXCEPT ![o] = s]
    BY <1>2, <1>9, <2>2 DEF OwnedBy
  <2>3. CASE p # o
    BY <1>2, <1>6, <1>9, <2>3 DEF OwnedBy
  <2>. QED BY <1>6, <2>1, <2>2, <2>3
<1>10. PICK u : Become(w, u) /\ u.job # "checkout" /\ u.pc \notin ClaimSteps
  BY <1>4
<1>. QED BY <1>1, <1>3, <1>7, <1>8, <1>9, <1>10, BystanderStep

(* A checkout that releases keeps what it holds while it has attempts left. *)
LEMMA BlankInPlace == InPlace(Blank)' /\ Blank.job # "checkout"
<1>1. Blank.pc = "idle" /\ Blank.job = "none"
  BY DEF Blank
<1>. QED BY <1>1 DEF InPlace, ClaimSteps

LEMMA BeginKeepsSeats ==
  ASSUME NEW t \in TaskType, t.job = "checkout", t.order \in submitted'
  PROVE  /\ InPlace(BeginRelease(t))'
         /\ BeginRelease(t).job = "checkout" => BeginRelease(t).order = t.order
         /\ \A l \in t.held :
              l \notin returned'[t.order] /\ used'["error"] >= MaxRetries - t.tries
                => Carries(BeginRelease(t), l)'
<1>. PICK u : u = [t EXCEPT !.pc = "rel_seats", !.pend = t.held]
  OBVIOUS
<1>. PICK v : v = [t EXCEPT !.pc = "rel_count", !.pend = {}]
  OBVIOUS
<1>1. /\ u.pc = "rel_seats" /\ u.pend = t.held /\ u.held = t.held /\ u.tries = t.tries
      /\ u.order = t.order /\ u.job = "checkout"
      /\ v.pc = "rel_count" /\ v.order = t.order /\ v.job = "checkout"
  BY DEF TaskType
<1>2. AfterRelease(t, TRUE) = Blank
  BY AfterReleaseShape DEF Compensates
<1>3. InPlace(u)' /\ InPlace(v)'
  BY <1>1 DEF InPlace, ClaimSteps, CheckoutSteps, ReleaseSteps, PlacedSteps
<1>4. ASSUME NEW l \in t.held, l \notin returned'[t.order],
             used'["error"] >= MaxRetries - t.tries
      PROVE  Carries(u, l)'
  BY <1>1, <1>4 DEF Carries
<1>5. CASE t.held # {}
  <2>1. BeginRelease(t) = u
    BY <1>5 DEF BeginRelease
  <2>. QED BY <1>1, <1>3, <1>4, <2>1
<1>6. CASE t.held = {} /\ t.qty > 0
  <2>1. BeginRelease(t) = v
    BY <1>6 DEF BeginRelease
  <2>. QED BY <1>1, <1>3, <1>6, <2>1
<1>7. CASE t.held = {} /\ ~(t.qty > 0)
  <2>1. BeginRelease(t) = Blank
    BY <1>2, <1>7 DEF BeginRelease
  <2>. QED BY <1>7, <2>1, BlankInPlace
<1>. QED BY <1>5, <1>6, <1>7

LEMMA RetryKeepsSeats ==
  ASSUME SagaAssumption, NEW t \in TaskType, t.job = "checkout", t.order \in submitted'
  PROVE  /\ InPlace(RetryRelease(t))'
         /\ RetryRelease(t).job = "checkout" => RetryRelease(t).order = t.order
         /\ t.tries > 0 /\ used'["error"] \in Nat /\ used'["error"] > MaxRetries - t.tries
              => \A l \in t.held : l \notin returned'[t.order] => Carries(RetryRelease(t), l)'
<1>1. CASE t.tries > 0
  <2>. PICK u : u = [t EXCEPT !.tries = @ - 1]
    OBVIOUS
  <2>1. u \in TaskType /\ u.job = "checkout" /\ u.order = t.order /\ u.held = t.held
        /\ u.tries = t.tries - 1 /\ t.tries \in Nat /\ MaxRetries \in Nat
    BY <1>1 DEF TaskType, SagaAssumption
  <2>2. RetryRelease(t) = BeginRelease(u)
    BY <1>1 DEF RetryRelease
  <2>3. /\ InPlace(BeginRelease(u))'
        /\ BeginRelease(u).job = "checkout" => BeginRelease(u).order = t.order
        /\ \A l \in t.held :
             l \notin returned'[t.order] /\ used'["error"] >= MaxRetries - u.tries
               => Carries(BeginRelease(u), l)'
    BY <2>1, BeginKeepsSeats
  <2>. QED BY <2>1, <2>2, <2>3
<1>2. CASE ~(t.tries > 0)
  <2>1. RetryRelease(t) = Blank
    BY <1>2, AfterReleaseShape DEF RetryRelease, Compensates
  <2>. QED BY <1>2, <2>1, BlankInPlace
<1>. QED BY <1>1, <1>2

(* A step of a checkout.                                                   *)
LEMMA CheckoutStep ==
  ASSUME SeatContext, Keeps, NEW w \in Workers, NEW u, Become(w, u), InPlace(u)',
         task[w].job = "checkout",
         u.job = "checkout" => u.order = task[w].order,
         UNCHANGED <<removed, submitted, returned>>,
         \A o \in Orders : status[o] = "None" => status'[o] = "None" \/ o = task[w].order,
         \A o \in rolledBack' : o \in rolledBack \/ (o = task[w].order /\ status'[o] # "None"),
         UNCHANGED used \/ \E k \in Kinds : Spend(k),
         late \subseteq late',
         \A r \in late' : r \in late \/ r.op \notin {"reserve", "reserve_seat"},
         FewErrors => \A l \in Seats \ item'.avail :
            /\ l \in item.avail \/ Carries(task[w], l) => Safe(u, l)'
            /\ \A o \in Orders : OwnedBy(o, l) => status'[o] \in Holding \/ Safe(u, l)'
  PROVE  SeatInv'
<1>1. CheckoutInv'
  <2>1. \A o \in Orders : status[o] = "None" =>
            (status'[o] = "None" /\ returned'[o] = returned[o]) \/ Owns(w, o)
    BY DEF Owns
  <2>2. \A o \in rolledBack' : o \in rolledBack \/ (Owns(w, o) /\ status'[o] # "None")
    BY DEF Owns
  <2>3. u.job # "checkout" \/ Owns(w, u.order)
    BY DEF Owns
  <2>. QED BY <2>1, <2>2, <2>3, CheckoutFrame
<1>2. FewErrors => Covered'
  BY CoverFrame
<1>. QED BY <1>1, <1>2 DEF SeatInv

(* What a step of a checkout starts from.                                  *)
LEMMA CheckoutFacts ==
  ASSUME SeatContext, NEW w \in Workers, task[w].pc \in CheckoutSteps
  PROVE  LET t == task[w]
         IN  /\ t \in TaskType /\ t.job = "checkout" /\ t.order \in Orders
             /\ t.order \in submitted /\ t.tries = MaxRetries
             /\ InPlace(t) /\ used["error"] \in Nat /\ MaxRetries \in Nat
             /\ SagaAssumption /\ TypeOK /\ removed = {} /\ item.seats = Seats
             /\ item \in ItemType(Seats) /\ status \in [Orders -> Status]
             /\ labels \in [Orders -> SUBSET Seats]
             /\ status[t.order] = "None" => returned[t.order] = {}
<1>1. task[w].job = "checkout" /\ task[w].pc # "idle"
  BY SeatFacts DEF Faithful, CheckoutSteps
<1>2. used["error"] \in Nat /\ MaxRetries \in Nat
  <2>1. TypeOK
    BY SeatFacts
  <2>. QED BY <2>1, ErrorsGrow DEF SeatContext, SagaAssumption, TypeOK, Kinds, Faults
<1>3. InPlace(task[w]) /\ task[w].order \in Orders
  BY <1>1, SeatFacts
<1>. QED BY <1>1, <1>2, <1>3, SeatFacts DEF InPlace, SeatContext, SeatInv, CheckoutInv

(* The release that a checkout begins when something failed.               *)
LEMMA AbandonSeats ==
  ASSUME SeatContext, NEW w \in Workers, task[w].pc \in CheckoutSteps,
         Become(w, BeginRelease(task[w])),
         UNCHANGED <<status, labels, removed, submitted, returned, rolledBack, item, late>>,
         UNCHANGED used \/ \E k \in Kinds : Spend(k)
  PROVE  SeatInv'
<1>. PICK t : t = task[w]
  OBVIOUS
<1>. PICK u : u = BeginRelease(t)
  OBVIOUS
<1>1. /\ t \in TaskType /\ t.job = "checkout" /\ t.order \in submitted /\ t.tries = MaxRetries
      /\ TypeOK /\ MaxRetries \in Nat
  BY CheckoutFacts
<1>2. used'["error"] \in Nat
  BY <1>1, ErrorsGrow
<1>3. /\ InPlace(u)'
      /\ u.job = "checkout" => u.order = t.order
      /\ \A l \in t.held :
            l \notin returned'[t.order] /\ used'["error"] >= MaxRetries - t.tries
              => Carries(u, l)'
  BY <1>1, BeginKeepsSeats
<1>4. ASSUME NEW l, Carries(t, l) PROVE Safe(u, l)'
  BY <1>1, <1>2, <1>3, <1>4 DEF Carries, Safe
<1>5. Keeps
  BY DEF Keeps
<1>6. ASSUME NEW l, NEW o, OwnedBy(o, l) PROVE status'[o] \in Holding
  BY <1>6 DEF OwnedBy
<1>. HIDE DEF Keeps
<1>7. InPlace(u)' /\ Become(w, u) /\ task[w].job = "checkout"
      /\ (u.job = "checkout" => u.order = task[w].order)
  BY <1>1, <1>3
<1>8. \A l \in Seats \ item'.avail :
            /\ l \in item.avail \/ Carries(task[w], l) => Safe(u, l)'
            /\ \A o \in Orders : OwnedBy(o, l) => status'[o] \in Holding \/ Safe(u, l)'
  BY <1>4, <1>6
<1>. QED BY <1>5, <1>7, <1>8, CheckoutStep

LEMMA LookupSeats ==
  ASSUME SeatContext, NEW w \in Workers, CheckoutLookup(w)
  PROVE  SeatInv'
<1>. PICK t : t = task[w]
  OBVIOUS
<1>. PICK next : next = [t EXCEPT !.pc = "co_reserve"]
  OBVIOUS
<1>1. UNCHANGED <<status, labels, removed, submitted, returned, rolledBack, item, late, used>>
  BY DEF CheckoutLookup, orderVars, clientVars, ghostVars
<1>2. /\ t.pc = "co_lookup"
      /\ t \in TaskType /\ t.job = "checkout" /\ t.order \in submitted
      /\ t.tries = MaxRetries /\ InPlace(t)
  <2>1. t.pc = "co_lookup"
    BY DEF CheckoutLookup, At
  <2>. QED BY <2>1, CheckoutFacts DEF CheckoutSteps
<1>3. Become(w, Blank) \/ Become(w, next)
  BY DEF CheckoutLookup, Finish, Goto
<1>4. /\ next.pc = "co_reserve" /\ next.job = "checkout" /\ next.order = t.order
      /\ next.tries = MaxRetries
  BY <1>2 DEF TaskType
<1>5. InPlace(next)'
  BY <1>1, <1>2, <1>4 DEF InPlace, ClaimSteps, CheckoutSteps, PlacedSteps
<1>6. Keeps
  BY <1>1 DEF Keeps
<1>7. \A l, o : OwnedBy(o, l) => status'[o] \in Holding
  BY <1>1 DEF OwnedBy
<1>8. \A l : ~Carries(t, l)
  BY <1>2 DEF Carries, SeatSteps
<1>9. /\ \A l \in Seats \ item'.avail : l \notin item.avail /\ ~Carries(task[w], l)
      /\ \A o \in Orders : status[o] = "None" => status'[o] = "None"
      /\ task[w].job = "checkout"
  BY <1>1, <1>2, <1>8
<1>10. CASE Become(w, next)
  <2>1. next.order = task[w].order
    BY <1>4
  <2>. QED BY <1>1, <1>5, <1>6, <1>7, <1>9, <1>10, <2>1, CheckoutStep
<1>11. CASE Become(w, Blank)
  BY <1>1, <1>6, <1>7, <1>9, <1>11, BlankInPlace, CheckoutStep
<1>. QED BY <1>3, <1>10, <1>11

(* A checkout that takes seats: they are its own until it is over.         *)
LEMMA TakeSeats ==
  ASSUME SeatContext, NEW w \in Workers, task[w].pc = "co_reserve",
         NEW S \in SUBSET Seats, item'.avail = item.avail \ S,
         NEW u, Become(w, u), u.job = "checkout", u.order = task[w].order,
         u.held = task[w].held \cup S, u.tries = task[w].tries,
         u.pc \in {"co_reserve", "co_create"},
         UNCHANGED <<status, labels, removed, submitted, returned, rolledBack, late, used>>
  PROVE  SeatInv'
<1>. PICK t : t = task[w]
  OBVIOUS
<1>1. /\ t \in TaskType /\ t.job = "checkout" /\ t.order \in submitted
      /\ t.tries = MaxRetries /\ InPlace(t) /\ status[t.order] = "None"
      /\ returned[t.order] = {}
  <2>1. task[w].pc \in CheckoutSteps
    BY DEF CheckoutSteps
  <2>2. status[task[w].order] = "None"
    BY <2>1, CheckoutFacts DEF InPlace, CheckoutSteps, PlacedSteps
  <2>. QED BY <2>1, <2>2, CheckoutFacts
<1>2. InPlace(u)'
  BY <1>1 DEF InPlace, ClaimSteps, CheckoutSteps, PlacedSteps
<1>3. ASSUME NEW l \in Seats \ item'.avail, l \in item.avail \/ Carries(t, l)
      PROVE  Safe(u, l)'
  <2>1. l \in u.held
    BY <1>3 DEF Carries
  <2>2. Carries(u, l)'
    BY <1>1, <2>1 DEF Carries, SeatSteps, CheckoutSteps
  <2>. QED BY <2>2 DEF Safe
<1>4. Keeps
  BY DEF Keeps
<1>5. \A l, o : OwnedBy(o, l) => status'[o] \in Holding
  BY DEF OwnedBy
<1>6. /\ \A l \in Seats \ item'.avail : l \in item.avail \/ Carries(task[w], l) => Safe(u, l)'
      /\ task[w].job = "checkout"
  BY <1>1, <1>3
<1>. QED BY <1>2, <1>4, <1>5, <1>6, CheckoutStep

LEMMA ReserveSeatSeats ==
  ASSUME SeatContext, NEW w \in Workers, NEW l \in Seats, ReserveSeat(w, l)
  PROVE  SeatInv'
<1>. DEFINE t == task[w]
            hold(pc) == [t EXCEPT !.held = t.held \cup {l}, !.pc = pc]
<1>1. /\ t.pc = "co_reserve"
      /\ UNCHANGED <<status, labels, removed, submitted, returned, rolledBack>>
  BY DEF ReserveSeat, At, orderVars, clientVars, ghostVars
<1>2. t \in TaskType /\ t.job = "checkout" /\ item \in ItemType(Seats)
  BY <1>1, CheckoutFacts DEF CheckoutSteps
<1>3. ~Spend("timeout")
  BY OnlyErrors
<1>4. CASE Become(w, BeginRelease(t)) /\ UNCHANGED <<item, late>>
           /\ (UNCHANGED used \/ Spend("error"))
  <2>1. "error" \in Kinds /\ task[w].pc \in CheckoutSteps
    BY <1>1 DEF Kinds, Faults, CheckoutSteps
  <2>. QED BY <1>1, <1>4, <2>1, AbandonSeats
<1>5. CASE /\ item' = TakeSeat(item, l) /\ UNCHANGED <<late, used>>
           /\ \E pc \in {"co_reserve", "co_create"} : Become(w, hold(pc))
  <2>1. item'.avail = item.avail \ {l}
    BY <1>2, <1>5 DEF TakeSeat, ItemType
  <2>2. \A pc : /\ hold(pc).pc = pc /\ hold(pc).job = t.job /\ hold(pc).order = t.order
                /\ hold(pc).held = t.held \cup {l} /\ hold(pc).tries = t.tries
    BY <1>2 DEF TaskType
  <2>3. PICK pc \in {"co_reserve", "co_create"} : Become(w, hold(pc))
    BY <1>5
  <2>4. \E u : /\ Become(w, u) /\ u.job = "checkout" /\ u.order = task[w].order
               /\ u.held = task[w].held \cup {l} /\ u.tries = task[w].tries
               /\ u.pc \in {"co_reserve", "co_create"}
    BY <1>2, <2>2, <2>3
  <2>. QED BY <1>1, <1>5, <2>1, <2>4, TakeSeats
<1>6. \/ /\ Become(w, BeginRelease(t)) /\ UNCHANGED <<item, late>>
         /\ UNCHANGED used \/ Spend("error")
      \/ /\ item' = TakeSeat(item, l) /\ UNCHANGED <<late, used>>
         /\ \E pc \in {"co_reserve", "co_create"} : Become(w, hold(pc))
  <2>. DEFINE take == /\ item' = TakeSeat(item, l) /\ UNCHANGED <<late, used>>
                      /\ Become(w, hold(IF /\ Wanted[t.order] \subseteq t.held \cup {l}
                                           /\ Extra[t.order] = 0
                                        THEN "co_create" ELSE t.pc))
              fail == /\ Become(w, BeginRelease(t)) /\ UNCHANGED item
                      /\ UNCHANGED <<late, used>> \/ RpcFails({SeatRequest("reserve_seat", w, l)})
  <2>1. take \/ fail
    BY DEF ReserveSeat
  <2>2. CASE take
    <3>1. CASE Wanted[t.order] \subseteq t.held \cup {l} /\ Extra[t.order] = 0
      BY <2>2, <3>1
    <3>2. CASE ~(Wanted[t.order] \subseteq t.held \cup {l} /\ Extra[t.order] = 0)
      BY <1>1, <2>2, <3>2
    <3>. QED BY <3>1, <3>2
  <2>3. CASE fail
    BY <2>3, OnlyErrors
  <2>. QED BY <2>1, <2>2, <2>3
<1>. QED BY <1>4, <1>5, <1>6

LEMMA ReserveCountSeats ==
  ASSUME SeatContext, NEW w \in Workers, ReserveCount(w)
  PROVE  SeatInv'
<1>. DEFINE t == task[w]
            q == Extra[t.order]
            hold(S) == [t EXCEPT !.held = t.held \cup S, !.qty = q, !.pc = "co_create"]
<1>1. /\ t.pc = "co_reserve"
      /\ UNCHANGED <<status, labels, removed, submitted, returned, rolledBack>>
  BY DEF ReserveCount, At, orderVars, clientVars, ghostVars
<1>2. t \in TaskType /\ t.job = "checkout" /\ item \in ItemType(Seats) /\ t.order \in Orders
      /\ item.seats = Seats
  BY <1>1, CheckoutFacts DEF CheckoutSteps
<1>3. CASE /\ Become(w, BeginRelease(t)) /\ UNCHANGED item
           /\ UNCHANGED <<late, used>> \/ RpcFails({CountRequest("reserve", w, q)})
  <2>1. "error" \in Kinds /\ task[w].pc \in CheckoutSteps
    BY <1>1 DEF Kinds, Faults, CheckoutSteps
  <2>2. UNCHANGED late /\ (UNCHANGED used \/ Spend("error"))
    BY <1>3, OnlyErrors
  <2>. QED BY <1>1, <1>3, <2>1, <2>2, AbandonSeats
<1>4. ASSUME NEW S \in Allocations(item, q), item' = TakeCount(item, q, S),
             CanTakeCount(item, q), Become(w, hold(S)), UNCHANGED <<late, used>>
      PROVE  SeatInv'
  <2>. HIDE DEF q
  <2>1. S \in SUBSET Seats
    BY <1>2, <1>4 DEF Allocations, ItemType
  <2>2. item'.avail = item.avail \ S
    <3>1. CASE Cardinality(item.avail) >= q
      BY <1>2, <1>4, <3>1 DEF TakeCount, ItemType
    <3>2. CASE Seats = {}
      BY <1>2, <1>4, <3>2 DEF TakeCount, ItemType
    <3>3. CASE Seats # {}
      <4>1. item.stock = Cardinality(item.avail)
        BY <1>2, <3>3 DEF SeatContext, StockInv, PoolSound
      <4>. QED BY <1>4, <3>1, <4>1 DEF CanTakeCount, Free
    <3>. QED BY <3>2, <3>3
  <2>3. /\ hold(S).pc = "co_create" /\ hold(S).job = t.job /\ hold(S).order = t.order
        /\ hold(S).held = t.held \cup S /\ hold(S).tries = t.tries
    BY <1>2 DEF TaskType
  <2>4. \E u : /\ Become(w, u) /\ u.job = "checkout" /\ u.order = task[w].order
               /\ u.held = task[w].held \cup S /\ u.tries = task[w].tries
               /\ u.pc \in {"co_reserve", "co_create"}
    <3>. HIDE DEF hold
    <3>. QED BY <1>2, <1>4, <2>3
  <2>. QED BY <1>1, <1>4, <2>1, <2>2, <2>4, TakeSeats
<1>. QED BY <1>3, <1>4 DEF ReserveCount

(* createOrder writes into the order what the checkout holds.              *)
LEMMA CreateOrderSeats ==
  ASSUME SeatContext, NEW w \in Workers, CreateOrder(w)
  PROVE  SeatInv'
<1>. PICK t : t = task[w]
  OBVIOUS
<1>. PICK o : o = t.order
  OBVIOUS
<1>. PICK u : u = [t EXCEPT !.pc = "co_pay"]
  OBVIOUS
<1>1. /\ t.pc = "co_create" /\ t.pc \in CheckoutSteps
      /\ UNCHANGED <<removed, submitted, returned, rolledBack, item, late, used>>
  BY DEF CreateOrder, At, CheckoutSteps, clientVars, ghostVars
<1>2. /\ t \in TaskType /\ t.job = "checkout" /\ o \in Orders /\ o \in submitted
      /\ t.tries = MaxRetries /\ InPlace(t) /\ removed = {}
      /\ status \in [Orders -> Status] /\ labels \in [Orders -> SUBSET Seats]
  BY <1>1, CheckoutFacts
<1>3. status[o] = "None" /\ o \notin rolledBack
  <2>1. status[o] = "None"
    BY <1>1, <1>2 DEF InPlace, PlacedSteps
  <2>. QED BY <1>2, <2>1 DEF SeatContext, SeatInv, CheckoutInv
<1>4. CASE Become(w, BeginRelease(t)) /\ UNCHANGED <<status, labels>>
  BY <1>1, <1>4, AbandonSeats
<1>5. CASE /\ Become(w, u) /\ SetStatus(o, "PendingPayment")
           /\ labels' = [labels EXCEPT ![o] = t.held]
  <2>1. /\ u.pc = "co_pay" /\ u.job = "checkout" /\ u.order = o /\ u.held = t.held
        /\ u.tries = MaxRetries
    BY <1>2 DEF TaskType
  <2>2. /\ status'[o] = "PendingPayment" /\ labels'[o] = t.held
        /\ \A p \in Orders : p # o => status'[p] = status[p] /\ labels'[p] = labels[p]
    BY <1>2, <1>5 DEF SetStatus
  <2>3. InPlace(u)'
    BY <1>1, <1>2, <1>3, <2>1, <2>2
       DEF InPlace, ClaimSteps, CheckoutSteps, PlacedSteps
  <2>4. Keeps
    BY <1>1, <1>3, <2>2 DEF Keeps
  <2>5. \A l : Carries(t, l) => Safe(u, l)'
    BY <1>1, <2>1 DEF Carries, Safe, SeatSteps, CheckoutSteps
  <2>6. \A l \in Seats \ item'.avail :
            /\ l \in item.avail \/ Carries(task[w], l) => Safe(u, l)'
            /\ \A p \in Orders : OwnedBy(p, l) => status'[p] \in Holding \/ Safe(u, l)'
    BY <1>1, <1>3, <2>2, <2>5 DEF OwnedBy, Holding, Open
  <2>7. \A p \in Orders : status[p] = "None" => status'[p] = "None" \/ p = task[w].order
    BY <2>2
  <2>8. u.job = "checkout" => u.order = task[w].order
    BY <2>1
  <2>9. task[w].job = "checkout"
    BY <1>2
  <2>. QED BY <1>1, <1>5, <2>3, <2>4, <2>6, <2>7, <2>8, <2>9, CheckoutStep
<1>. QED BY <1>2, <1>3, <1>4, <1>5 DEF CreateOrder, Exists, Goto

(* The order's own labels are with the order as long as it is not closed.  *)
LEMMA PlacedOwns ==
  ASSUME SeatContext, NEW w \in Workers, task[w].pc \in PlacedSteps \ {"rb_voucher"},
         NEW l, Carries(task[w], l)
  PROVE  OwnedBy(task[w].order, l)
<1>. PICK t : t = task[w]
  OBVIOUS
<1>. PICK o : o = t.order
  OBVIOUS
<1>1. /\ t \in TaskType /\ o \in Orders /\ InPlace(t) /\ t.job = "checkout"
      /\ status \in [Orders -> Status]
  BY CheckoutFacts DEF PlacedSteps, CheckoutSteps
<1>2. status[o] # "None" /\ labels[o] = t.held /\ o \notin rolledBack
  BY <1>1 DEF InPlace, PlacedSteps, CheckoutSteps
<1>3. l \in labels[o] /\ l \notin returned[o]
  BY <1>2 DEF Carries
<1>4. status[o] \notin {"Cancelled", "Refunded"}
  BY <1>1, <1>2, <1>3 DEF SeatContext, ReleaseInv, ClosedOrderReturnedParts, Parts
<1>. QED BY <1>1, <1>2, <1>3, <1>4 DEF OwnedBy, Holding, Status, Open, Closed

(* A payment that could be created ends the checkout: its seats are the    *)
(* order's.                                                                *)
LEMMA CreatePaymentSeats ==
  ASSUME SeatContext, NEW w \in Workers, CreatePayment(w)
  PROVE  SeatInv'
<1>. PICK t : t = task[w]
  OBVIOUS
<1>. PICK u : u = [t EXCEPT !.pc = "rb_read"]
  OBVIOUS
<1>1. /\ t.pc = "co_pay" /\ t.pc \in CheckoutSteps /\ t.pc \in PlacedSteps \ {"rb_voucher"}
      /\ UNCHANGED <<status, labels, removed, submitted, returned, rolledBack, item>>
  BY DEF CreatePayment, At, CheckoutSteps, PlacedSteps, orderVars, ghostVars
<1>2. /\ t \in TaskType /\ t.job = "checkout" /\ t.order \in Orders /\ t.order \in submitted
      /\ t.tries = MaxRetries /\ InPlace(t)
  BY <1>1, CheckoutFacts
<1>3. Keeps
  BY <1>1 DEF Keeps
<1>4. \A p \in Orders : \A l : OwnedBy(p, l) => status'[p] \in Holding
  BY <1>1 DEF OwnedBy
<1>5. UNCHANGED late /\ (UNCHANGED used \/ \E k \in Kinds : Spend(k))
  <2>1. "error" \in Kinds
    BY DEF Kinds, Faults
  <2>. QED BY <2>1, OnlyErrors DEF CreatePayment
<1>6. CASE Become(w, Blank)
  <2>1. \A l : Carries(task[w], l) => OwnedBy(t.order, l)
    BY <1>1, PlacedOwns
  <2>2. \A l : OwnedBy(t.order, l) => OwnedBy(t.order, l)'
    BY <1>1 DEF OwnedBy
  <2>3. \A l : Carries(task[w], l) => Safe(Blank, l)'
    BY <1>2, <2>1, <2>2 DEF Safe
  <2>4. /\ task[w].job = "checkout"
        /\ \A l \in Seats \ item'.avail : l \in item.avail \/ Carries(task[w], l) => Safe(Blank, l)'
    BY <1>1, <1>2, <2>3
  <2>. QED BY <1>1, <1>3, <1>4, <1>5, <1>6, <2>4, BlankInPlace, CheckoutStep
<1>7. CASE Become(w, u)
  <2>1. /\ u.pc = "rb_read" /\ u.job = "checkout" /\ u.order = t.order /\ u.held = t.held
        /\ u.tries = MaxRetries
    BY <1>2 DEF TaskType
  <2>2. InPlace(u)'
    BY <1>1, <1>2, <2>1 DEF InPlace, ClaimSteps, CheckoutSteps, PlacedSteps
  <2>3. \A l : Carries(task[w], l) => Safe(u, l)'
    BY <1>1, <2>1 DEF Carries, Safe, SeatSteps, CheckoutSteps
  <2>4. /\ task[w].job = "checkout"
        /\ u.job = "checkout" => u.order = task[w].order
        /\ \A l \in Seats \ item'.avail : l \in item.avail \/ Carries(task[w], l) => Safe(u, l)'
    BY <1>1, <1>2, <2>1, <2>3
  <2>. QED BY <1>1, <1>3, <1>4, <1>5, <1>7, <2>2, <2>4, CheckoutStep
<1>. QED BY <1>6, <1>7 DEF CreatePayment, Finish, Goto

LEMMA RollbackReadSeats ==
  ASSUME SeatContext, NEW w \in Workers, RollbackRead(w)
  PROVE  SeatInv'
<1>. PICK t : t = task[w]
  OBVIOUS
<1>. PICK u : u = [t EXCEPT !.pc = "rb_cancel", !.snap = status[t.order]]
  OBVIOUS
<1>1. /\ t.pc = "rb_read" /\ t.pc \in CheckoutSteps
      /\ UNCHANGED <<status, labels, removed, submitted, returned, rolledBack, item, late, used>>
  BY DEF RollbackRead, At, CheckoutSteps, orderVars, clientVars, ghostVars
<1>2. /\ t \in TaskType /\ t.job = "checkout" /\ t.order \in Orders /\ t.order \in submitted
      /\ t.tries = MaxRetries /\ InPlace(t)
  BY <1>1, CheckoutFacts
<1>3. CASE Become(w, BeginRelease(t))
  BY <1>1, <1>3, AbandonSeats
<1>4. CASE Become(w, u)
  <2>1. /\ u.pc = "rb_cancel" /\ u.job = "checkout" /\ u.order = t.order /\ u.held = t.held
        /\ u.tries = MaxRetries
    BY <1>2 DEF TaskType
  <2>2. InPlace(u)'
    BY <1>1, <1>2, <2>1 DEF InPlace, ClaimSteps, CheckoutSteps, PlacedSteps
  <2>3. \A l : Carries(task[w], l) => Safe(u, l)'
    BY <1>1, <2>1 DEF Carries, Safe, SeatSteps, CheckoutSteps
  <2>4. /\ task[w].job = "checkout"
        /\ u.job = "checkout" => u.order = task[w].order
        /\ \A l \in Seats \ item'.avail : l \in item.avail \/ Carries(task[w], l) => Safe(u, l)'
    BY <1>1, <1>2, <2>1, <2>3
  <2>5. \A p \in Orders : \A l : OwnedBy(p, l) => status'[p] \in Holding
    BY <1>1 DEF OwnedBy
  <2>6. Keeps
    BY <1>1 DEF Keeps
  <2>. QED BY <1>1, <1>4, <2>2, <2>4, <2>5, <2>6, CheckoutStep
<1>. QED BY <1>3, <1>4 DEF RollbackRead

(* The rollback takes the seats back from the order it cancels.            *)
LEMMA RollbackCancelSeats ==
  ASSUME SeatContext, NEW w \in Workers, RollbackCancel(w)
  PROVE  SeatInv'
<1>. PICK t : t = task[w]
  OBVIOUS
<1>. PICK o : o = t.order
  OBVIOUS
<1>. PICK u : u = [t EXCEPT !.pc = "rb_voucher"]
  OBVIOUS
<1>1. /\ t.pc = "rb_cancel" /\ t.pc \in CheckoutSteps
      /\ UNCHANGED <<labels, removed, submitted, returned, item, late, used>>
  BY DEF RollbackCancel, At, CheckoutSteps, clientVars
<1>2. /\ t \in TaskType /\ t.job = "checkout" /\ o \in Orders /\ o \in submitted
      /\ t.tries = MaxRetries /\ InPlace(t) /\ TypeOK /\ status \in [Orders -> Status]
  BY <1>1, CheckoutFacts
<1>3. CASE Become(w, BeginRelease(t)) /\ UNCHANGED <<status, rolledBack>>
  BY <1>1, <1>3, AbandonSeats
<1>4. CASE SetStatus(o, "Cancelled") /\ rolledBack' = rolledBack \cup {o} /\ Become(w, u)
  <2>1. /\ u.pc = "rb_voucher" /\ u.job = "checkout" /\ u.order = o /\ u.held = t.held
        /\ u.tries = MaxRetries
    BY <1>2 DEF TaskType
  <2>2. /\ status'[o] = "Cancelled" /\ \A p \in Orders : p # o => status'[p] = status[p]
        /\ status[o] # "None" /\ labels[o] = t.held
    <3>1. status[o] # "None" /\ labels[o] = t.held
      BY <1>1, <1>2 DEF InPlace, CheckoutSteps, PlacedSteps
    <3>. QED BY <1>2, <1>4, <3>1 DEF SetStatus
  <2>3. InPlace(u)'
    BY <1>1, <1>2, <2>1, <2>2 DEF InPlace, ClaimSteps, CheckoutSteps, PlacedSteps
  <2>4. Keeps
    BY <1>1, <1>2, <1>4, StatusKeeps DEF SetStatus
  <2>5. \A l : Carries(t, l) \/ OwnedBy(o, l) => Safe(u, l)'
    <3>1. \A l : Carries(t, l) \/ OwnedBy(o, l) => l \in u.held /\ l \notin returned'[u.order]
      BY <1>1, <2>1, <2>2 DEF Carries, OwnedBy
    <3>. QED BY <2>1, <3>1 DEF Carries, Safe, SeatSteps, CheckoutSteps
  <2>6. \A l \in Seats \ item'.avail :
            /\ l \in item.avail \/ Carries(task[w], l) => Safe(u, l)'
            /\ \A p \in Orders : OwnedBy(p, l) => status'[p] \in Holding \/ Safe(u, l)'
    BY <1>1, <2>2, <2>5 DEF OwnedBy
  <2>7. /\ \A p \in Orders : status[p] = "None" => status'[p] = "None" \/ p = task[w].order
        /\ \A p \in rolledBack' :
             p \in rolledBack \/ (p = task[w].order /\ status'[p] # "None")
    BY <1>4, <2>2
  <2>8. /\ task[w].job = "checkout"
        /\ u.job = "checkout" => u.order = task[w].order
    BY <1>2, <2>1
  <2>. QED BY <1>1, <1>4, <2>3, <2>4, <2>6, <2>7, <2>8, CheckoutStep
<1>. QED BY <1>3, <1>4 DEF RollbackCancel, Goto

LEMMA RollbackVoucherSeats ==
  ASSUME SeatContext, NEW w \in Workers, RollbackVoucher(w)
  PROVE  SeatInv'
<1>1. /\ task[w].pc \in CheckoutSteps /\ Become(w, BeginRelease(task[w]))
      /\ UNCHANGED <<status, labels, removed, submitted, returned, rolledBack, item, late>>
      /\ UNCHANGED used \/ \E k \in Kinds : Spend(k)
  BY DEF RollbackVoucher, At, CheckoutSteps, clientVars, ghostVars, Kinds, Faults
<1>. QED BY <1>1, AbandonSeats

(* The releases of the other labels that a failed attempt leaves behind.   *)
LEMMA LeftBehind ==
  ASSUME NEW w, NEW S, late' = late \cup {SeatRequest("release_seat", w, m) : m \in S}
  PROVE  /\ late \subseteq late'
         /\ \A r \in late' : r \in late \/ r.op \notin {"reserve", "reserve_seat"}
         /\ \A m \in S : Queued(m)'
<1>1. \A m : SeatRequest("release_seat", w, m).op = "release_seat"
             /\ SeatRequest("release_seat", w, m).seat = m
  BY DEF SeatRequest, Request
<1>. QED BY <1>1 DEF Queued

(* A handler at releaseReservation.                                        *)
LEMMA ReleasingFacts ==
  ASSUME SeatContext, NEW w \in Workers, task[w].pc \in ReleaseSteps
  PROVE  LET t == task[w]
         IN  /\ t \in TaskType /\ t.order \in Orders /\ SagaAssumption /\ TypeOK
             /\ t.job = "checkout" => t.order \in submitted /\ ~Compensates(t)
             /\ Compensates(t) => status[t.order] # "None"
             /\ item \in ItemType(Seats) /\ item.seats = Seats
<1>1. task[w].pc # "idle" /\ task[w].pc \in Batch
  BY DEF ReleaseSteps, Batch
<1>2. Faithful(task[w]) /\ InPlace(task[w])
  BY SeatFacts
<1>. QED BY <1>1, <1>2, SeatFacts DEF InPlace, Faithful, Compensates

(* A checkout releases: a seat goes back on sale, or its release is queued *)
(* or will be tried again.                                                 *)
LEMMA CheckoutReleaseSeats ==
  ASSUME SeatContext, NEW w \in Workers, NEW l \in Seats, ReleaseSeat(w, l),
         task[w].job = "checkout"
  PROVE  SeatInv'
<1>. PICK t : t = task[w]
  OBVIOUS
<1>. PICK next : next = [t EXCEPT !.pend = t.pend \ {l}]
  OBVIOUS
<1>. PICK count : count = [next EXCEPT !.pc = "rel_count"]
  OBVIOUS
<1>1. /\ t.pc = "rel_seats" /\ t.pc \in ReleaseSteps /\ l \in t.pend
      /\ UNCHANGED <<status, labels, removed, submitted, rolledBack>>
  BY DEF ReleaseSeat, At, ReleaseSteps, orderVars, clientVars
<1>2. /\ t \in TaskType /\ t.job = "checkout" /\ t.order \in Orders /\ t.order \in submitted
      /\ ~Compensates(t) /\ TypeOK /\ item \in ItemType(Seats) /\ item.seats = Seats
      /\ SagaAssumption
  BY <1>1, ReleasingFacts
<1>3. UNCHANGED returned
  BY <1>2 DEF ReleaseSeat, NoteReturned, Compensates
<1>4. Keeps
  BY <1>1, <1>3 DEF Keeps
<1>5. \A p \in Orders : \A m : OwnedBy(p, m) => status'[p] \in Holding
  BY <1>1 DEF OwnedBy
<1>6. \A m : Carries(t, m) =>
        m \in t.held /\ m \in t.pend /\ m \notin returned'[t.order]
          /\ used["error"] >= MaxRetries - t.tries
  BY <1>1, <1>3 DEF Carries, SeatSteps, CheckoutSteps
<1>7. CASE /\ item' = ReturnSeat(item, l) /\ UNCHANGED <<late, used>>
           /\ \/ Become(w, next)
              \/ t.pend \ {l} = {} /\ (Become(w, count) \/ Become(w, AfterRelease(t, TRUE)))
  <2>1. item'.avail = item.avail \cup {l}
    BY <1>2, <1>7 DEF ReturnSeat, ItemType
  <2>2. /\ next.pc = "rel_seats" /\ next.job = "checkout" /\ next.order = t.order
        /\ next.held = t.held /\ next.pend = t.pend \ {l} /\ next.tries = t.tries
        /\ count.pc = "rel_count" /\ count.job = "checkout" /\ count.order = t.order
    BY <1>1, <1>2 DEF TaskType
  <2>3. InPlace(next)' /\ InPlace(count)'
    BY <1>1, <1>2, <2>2 DEF InPlace, ClaimSteps, CheckoutSteps, PlacedSteps, ReleaseSteps
  <2>4. AfterRelease(t, TRUE) = Blank
    BY <1>2, AfterReleaseShape
  <2>5. task[w].job = "checkout"
    BY <1>2
  <2>6. CASE Become(w, next)
    <3>1. \A m \in Seats \ item'.avail : m \in item.avail \/ Carries(task[w], m) => Safe(next, m)'
      <4>1. ASSUME NEW m \in Seats \ item'.avail, m \in item.avail \/ Carries(t, m)
            PROVE  Carries(next, m)'
        BY <1>6, <1>7, <2>1, <2>2, <4>1 DEF Carries
      <4>. QED BY <4>1 DEF Safe
    <3>2. next.job = "checkout" => next.order = task[w].order
      BY <2>2
    <3>. QED BY <1>1, <1>3, <1>4, <1>5, <1>7, <2>3, <2>5, <2>6, <3>1, <3>2, CheckoutStep
  <2>7. CASE t.pend \ {l} = {} /\ (Become(w, count) \/ Become(w, Blank))
    <3>1. \A m \in Seats \ item'.avail : ~(m \in item.avail \/ Carries(task[w], m))
      BY <1>6, <2>1, <2>7
    <3>2. count.job = "checkout" => count.order = task[w].order
      BY <2>2
    <3>3. CASE Become(w, count)
      BY <1>1, <1>3, <1>4, <1>5, <1>7, <2>3, <2>5, <3>1, <3>2, <3>3, CheckoutStep
    <3>4. CASE Become(w, Blank)
      BY <1>1, <1>3, <1>4, <1>5, <1>7, <2>5, <3>1, <3>4, BlankInPlace, CheckoutStep
    <3>. QED BY <2>7, <3>3, <3>4
  <2>. QED BY <1>7, <2>4, <2>6, <2>7
<1>8. CASE /\ Become(w, RetryRelease(t)) /\ UNCHANGED item
           /\ late' = late \cup {SeatRequest("release_seat", w, m) : m \in t.pend \ {l}}
           /\ \/ ~CanReturnSeat(item, l) /\ UNCHANGED used
              \/ Spend("error")
  <2>. PICK u : u = RetryRelease(t)
    OBVIOUS
  <2>1. /\ InPlace(u)'
        /\ u.job = "checkout" => u.order = task[w].order
        /\ t.tries > 0 /\ used'["error"] \in Nat /\ used'["error"] > MaxRetries - t.tries
              => \A m \in t.held : m \notin returned'[t.order] => Carries(u, m)'
    BY <1>1, <1>2, RetryKeepsSeats
  <2>2. /\ late \subseteq late'
        /\ \A r \in late' : r \in late \/ r.op \notin {"reserve", "reserve_seat"}
        /\ \A m \in t.pend \ {l} : Queued(m)'
    BY <1>8, LeftBehind
  <2>3. UNCHANGED used \/ \E k \in Kinds : Spend(k)
    BY <1>8 DEF Kinds, Faults
  <2>4. ASSUME ~CanReturnSeat(item, l) PROVE l \in item'.avail
    BY <1>2, <1>8, <2>4 DEF CanReturnSeat
  <2>5. ASSUME FewErrors, Spend("error"), Carries(t, l) PROVE Carries(u, l)'
    <3>1. used["error"] \in Nat /\ used'["error"] = used["error"] + 1
          /\ used["error"] < Limit["error"] /\ Limit["error"] \in Nat
      BY <1>2, <2>5 DEF Spend, TypeOK, SagaAssumption, Kinds, Faults
    <3>2. MaxRetries \in Nat /\ t.tries \in Nat /\ Limit["error"] <= MaxRetries
      BY <1>2, <2>5 DEF SagaAssumption, TaskType, FewErrors
    <3>3. used["error"] >= MaxRetries - t.tries
      BY <1>6, <2>5
    <3>4. t.tries > 0 /\ used'["error"] \in Nat /\ used'["error"] > MaxRetries - t.tries
      BY <3>1, <3>2, <3>3
    <3>. QED BY <1>6, <2>1, <2>5, <3>4
  <2>6. FewErrors =>
          \A m \in Seats \ item'.avail : m \in item.avail \/ Carries(task[w], m) => Safe(u, m)'
    <3>1. ASSUME FewErrors, NEW m \in Seats \ item'.avail, Carries(t, m) PROVE Safe(u, m)'
      BY <1>6, <1>8, <2>2, <2>4, <2>5, <3>1 DEF Safe
    <3>. QED BY <1>8, <3>1
  <2>7. task[w].job = "checkout"
    BY <1>2
  <2>. QED BY <1>1, <1>3, <1>4, <1>5, <1>8, <2>1, <2>2, <2>3, <2>6, <2>7, CheckoutStep
<1>9. ~Spend("timeout")
  BY OnlyErrors
<1>. QED BY <1>7, <1>8, <1>9 DEF ReleaseSeat

(* A cancel or a refund releases: what it notes is for sale.               *)
LEMMA OtherReleaseSeats ==
  ASSUME SeatContext, NEW w \in Workers, NEW l \in Seats, ReleaseSeat(w, l),
         task[w].job # "checkout"
  PROVE  SeatInv'
<1>. PICK t : t = task[w]
  OBVIOUS
<1>. DEFINE next == [t EXCEPT !.pend = t.pend \ {l}]
            count == [next EXCEPT !.pc = "rel_count"]
<1>1. /\ t.pc = "rel_seats" /\ t.pc \in ReleaseSteps
      /\ UNCHANGED <<status, labels, removed, submitted, rolledBack>>
  BY DEF ReleaseSeat, At, ReleaseSteps, orderVars, clientVars
<1>2. /\ t \in TaskType /\ t.job # "checkout" /\ t.order \in Orders
      /\ (Compensates(t) => status[t.order] # "None")
      /\ TypeOK /\ item \in ItemType(Seats) /\ item.seats = Seats
  BY <1>1, ReleasingFacts
<1>3. \/ UNCHANGED <<returned, item>>
      \/ NoteReturned(t, l) /\ item' = ReturnSeat(item, l)
  BY Zenon DEF ReleaseSeat
<1>4. item.avail \subseteq item'.avail /\ (UNCHANGED returned \/ (NoteReturned(t, l) /\ l \in item'.avail))
  BY <1>2, <1>3 DEF ReturnSeat, ItemType
<1>5. Keeps /\ \A o \in Orders :
        /\ status[o] = "None" => returned'[o] = returned[o]
        /\ \A m \in Seats \ item'.avail : m \in returned'[o] => m \in returned[o]
  <2>1. CASE UNCHANGED returned
    BY <1>1, <2>1 DEF Keeps
  <2>2. CASE NoteReturned(t, l) /\ l \in item'.avail
    <3>1. Keeps
      BY <1>1, <1>2, <2>2, NoteKeeps
    <3>2. returned \in [Orders -> SUBSET (Seats \cup {None})]
      BY <1>2 DEF TypeOK, HistoryTypes
    <3>3. \A o \in Orders : \/ returned'[o] = returned[o]
                            \/ /\ Compensates(t) /\ o = t.order
                               /\ returned'[o] = returned[o] \cup {l}
      BY <1>2, <2>2, <3>2 DEF NoteReturned, Compensates
    <3>. QED BY <1>2, <2>2, <3>1, <3>3
  <2>. QED BY <1>4, <2>1, <2>2
<1>6. \E u : Become(w, u) /\ u.job # "checkout" /\ u.pc \notin ClaimSteps
  <2>1. /\ next.pc = "rel_seats" /\ next.job = t.job
        /\ count.pc = "rel_count" /\ count.job = t.job
    BY <1>1, <1>2 DEF TaskType
  <2>2. /\ AfterRelease(t, TRUE).pc \notin Guarded /\ RetryRelease(t).pc \notin Guarded
        /\ AfterRelease(t, TRUE).job \in {t.job, "none"}
        /\ RetryRelease(t).job \in {t.job, "none"}
    BY <1>2, AfterReleaseShape, RetryReleaseShape
  <2>3. \/ Become(w, next) \/ Become(w, count)
        \/ Become(w, AfterRelease(t, TRUE)) \/ Become(w, RetryRelease(t))
    BY DEF ReleaseSeat
  <2>. HIDE DEF next, count
  <2>4. CASE Become(w, next) \/ Become(w, count)
    BY <1>2, <2>1, <2>4 DEF ClaimSteps
  <2>5. CASE Become(w, AfterRelease(t, TRUE)) \/ Become(w, RetryRelease(t))
    BY <1>2, <2>2, <2>5 DEF Guarded
  <2>. QED BY <2>3, <2>4, <2>5
<1>7. UNCHANGED used \/ \E k \in Kinds : Spend(k)
  BY DEF ReleaseSeat, Kinds, Faults
<1>8. late \subseteq late' /\ \A r \in late' : r \in late \/ r.op \notin {"reserve", "reserve_seat"}
  <2>1. UNCHANGED late \/ \E S : late' = late \cup {SeatRequest("release_seat", w, m) : m \in S}
    BY Zenon DEF ReleaseSeat
  <2>. QED BY <2>1, LeftBehind
<1>9. /\ \A o \in Orders : status[o] = "None" => status'[o] = "None" /\ returned'[o] = returned[o]
      /\ \A m \in Seats \ item'.avail : \A o \in Orders :
            /\ m \in returned'[o] => m \in returned[o]
            /\ OwnedBy(o, m) => status'[o] \in Holding \/ Queued(m)'
  BY <1>1, <1>5 DEF OwnedBy
<1>10. PICK u : Become(w, u) /\ u.job # "checkout" /\ u.pc \notin ClaimSteps
  BY <1>6
<1>11. task[w].job # "checkout"
  BY <1>2
<1>. QED BY <1>1, <1>4, <1>5, <1>7, <1>8, <1>9, <1>10, <1>11, BystanderStep

LEMMA ReleaseSeatSeats ==
  ASSUME SeatContext, NEW w \in Workers, NEW l \in Seats, ReleaseSeat(w, l)
  PROVE  SeatInv'
  BY CheckoutReleaseSeats, OtherReleaseSeats

(* Returning a count moves no seat.                                        *)
LEMMA ReleaseCountSeats ==
  ASSUME SeatContext, NEW w \in Workers, ReleaseCount(w)
  PROVE  SeatInv'
<1>. PICK t : t = task[w]
  OBVIOUS
<1>1. /\ t.pc = "rel_count" /\ t.pc \in ReleaseSteps
      /\ UNCHANGED <<status, labels, removed, submitted, rolledBack>>
  BY DEF ReleaseCount, At, ReleaseSteps, orderVars, clientVars
<1>2. /\ t \in TaskType /\ t.order \in Orders
      /\ t.job = "checkout" => t.order \in submitted /\ ~Compensates(t)
      /\ Compensates(t) => status[t.order] # "None"
      /\ TypeOK /\ item \in ItemType(Seats) /\ item.seats = Seats /\ SagaAssumption
  BY <1>1, ReleasingFacts
<1>3. item'.avail = item.avail
  <2>1. UNCHANGED item \/ item' = ReturnCount(item, t.qty)
    BY Zenon DEF ReleaseCount
  <2>2. item.avail \subseteq item.seats
    BY <1>2 DEF ItemType
  <2>3. ReturnCount(item, t.qty).avail = item.avail
    BY <1>2, <2>2 DEF ReturnCount, ItemType
  <2>. QED BY <2>1, <2>3
<1>4. UNCHANGED returned \/ NoteReturned(t, None)
  BY Zenon DEF ReleaseCount
<1>5. Keeps /\ \A o \in Orders :
        /\ status[o] = "None" => returned'[o] = returned[o]
        /\ \A m \in Seats \ item'.avail : m \in returned'[o] => m \in returned[o]
  <2>1. CASE UNCHANGED returned
    BY <1>1, <2>1 DEF Keeps
  <2>2. CASE NoteReturned(t, None)
    <3>1. Keeps
      BY <1>1, <1>2, <2>2, NoteKeeps
    <3>2. returned \in [Orders -> SUBSET (Seats \cup {None})]
      BY <1>2 DEF TypeOK, HistoryTypes
    <3>3. \A o \in Orders : \/ returned'[o] = returned[o]
                            \/ /\ Compensates(t) /\ o = t.order
                               /\ returned'[o] = returned[o] \cup {None}
      BY <1>2, <2>2, <3>2 DEF NoteReturned, Compensates
    <3>. QED BY <1>2, <3>1, <3>3 DEF SagaAssumption
  <2>. QED BY <1>4, <2>1, <2>2
<1>6. UNCHANGED late /\ (UNCHANGED used \/ \E k \in Kinds : Spend(k))
  <2>1. "error" \in Kinds
    BY DEF Kinds, Faults
  <2>. QED BY <2>1, OnlyErrors DEF ReleaseCount
<1>7. Become(w, AfterRelease(t, TRUE)) \/ Become(w, RetryRelease(t))
  BY DEF ReleaseCount
<1>8. \A o \in Orders : \A m : OwnedBy(o, m) => status'[o] \in Holding
  BY <1>1 DEF OwnedBy
<1>9. CASE t.job # "checkout"
  <2>1. \E u : Become(w, u) /\ u.job # "checkout" /\ u.pc \notin ClaimSteps
    <3>1. /\ AfterRelease(t, TRUE).pc \notin Guarded /\ RetryRelease(t).pc \notin Guarded
          /\ AfterRelease(t, TRUE).job \in {t.job, "none"}
          /\ RetryRelease(t).job \in {t.job, "none"}
      BY <1>2, AfterReleaseShape, RetryReleaseShape
    <3>. QED BY <1>7, <1>9, <3>1 DEF Guarded
  <2>2. /\ task[w].job # "checkout"
        /\ \A o \in Orders : status[o] = "None" => status'[o] = "None" /\ returned'[o] = returned[o]
        /\ \A m \in Seats \ item'.avail : \A o \in Orders :
            /\ m \in returned'[o] => m \in returned[o]
            /\ OwnedBy(o, m) => status'[o] \in Holding \/ Queued(m)'
    BY <1>1, <1>5, <1>8, <1>9
  <2>. QED BY <1>1, <1>3, <1>5, <1>6, <2>1, <2>2, BystanderStep
<1>10. CASE t.job = "checkout"
  <2>1. UNCHANGED returned
    BY <1>2, <1>4, <1>10 DEF NoteReturned, Compensates
  <2>2. \E u : /\ Become(w, u) /\ InPlace(u)'
               /\ u.job = "checkout" => u.order = t.order
    <3>1. AfterRelease(t, TRUE) = Blank
      BY <1>2, <1>10, AfterReleaseShape
    <3>2. /\ InPlace(RetryRelease(t))'
          /\ RetryRelease(t).job = "checkout" => RetryRelease(t).order = t.order
      BY <1>1, <1>2, <1>10, RetryKeepsSeats
    <3>. QED BY <1>7, <3>1, <3>2, BlankInPlace
  <2>3. \A l : ~Carries(t, l)
    BY <1>1 DEF Carries, SeatSteps, CheckoutSteps
  <2>4. PICK u : /\ Become(w, u) /\ InPlace(u)'
                 /\ u.job = "checkout" => u.order = t.order
    BY <2>2
  <2>5. /\ task[w].job = "checkout"
        /\ u.job = "checkout" => u.order = task[w].order
        /\ \A l \in Seats \ item'.avail : l \in item.avail \/ Carries(task[w], l) => Safe(u, l)'
    BY <1>3, <1>10, <2>3, <2>4
  <2>. QED BY <1>1, <1>5, <1>6, <1>8, <2>1, <2>4, <2>5, CheckoutStep
<1>. QED BY <1>9, <1>10

(* A key is submitted once: nobody else works on its order.                *)
LEMMA SubmitSeats ==
  ASSUME SeatContext, NEW w \in Workers, NEW o \in Orders, SubmitCheckout(w, o)
  PROVE  SeatInv'
<1>. PICK u : u = NewTask("co_lookup", o)
  OBVIOUS
<1>1. /\ Become(w, u) /\ task[w].pc = "idle" /\ submitted' = submitted \cup {o}
      /\ UNCHANGED <<status, labels, removed, returned, rolledBack, item, late>>
  BY DEF SubmitCheckout, At, orderVars, ghostVars
<1>2. o \notin submitted /\ UNCHANGED used
  BY OnlyErrors DEF SubmitCheckout
<1>3. status[o] = "None" /\ CheckoutInv
  BY <1>2 DEF SeatContext, SeatInv, CheckoutInv
<1>4. u.pc = "co_lookup" /\ u.job = "checkout" /\ u.order = o /\ u.tries = MaxRetries
  BY DEF NewTask, Blank, JobOf
<1>5. InPlace(u)'
  BY <1>1, <1>3, <1>4 DEF InPlace, ClaimSteps, CheckoutSteps, PlacedSteps
<1>6. Keeps
  BY <1>1 DEF Keeps
<1>7. \A v \in Workers : ~Owns(v, u.order)
  BY <1>2, <1>3, <1>4 DEF CheckoutInv, InPlace, Owns
<1>8. CheckoutInv'
  BY <1>1, <1>5, <1>6, <1>7, CheckoutFrame
<1>9. \A l : ~Carries(task[w], l)
  BY <1>1 DEF Carries, SeatSteps, CheckoutSteps
<1>10. FewErrors => Covered'
  <2>1. \A l \in Seats \ item'.avail : \A p \in Orders :
            OwnedBy(p, l) => status'[p] \in Holding \/ Safe(u, l)'
    BY <1>1 DEF OwnedBy
  <2>. QED BY <1>1, <1>2, <1>6, <1>9, <2>1, CoverFrame
<1>. QED BY <1>8, <1>10 DEF SeatInv

-----------------------------------------------------------------------------
(* No handler moves.                                                       *)
LEMMA HandlersRest ==
  ASSUME SeatContext,
         UNCHANGED <<task, status, labels, removed, submitted, returned, rolledBack>>,
         UNCHANGED used \/ \E k \in Kinds : Spend(k),
         late' \subseteq late, item.avail \subseteq item'.avail,
         \A l \in Seats \ item'.avail : Queued(l) => Queued(l)'
  PROVE  SeatInv'
<1>1. CheckoutInv /\ (FewErrors => Covered) /\ TypeOK
  BY DEF SeatContext, SeatInv, StockInv
<1>2. ASSUME NEW v \in Workers PROVE InPlace(task[v])'
  <2>1. InPlace(task[v])
    BY <1>1 DEF CheckoutInv
  <2>. QED BY <2>1 DEF InPlace
<1>3. CheckoutInv'
  BY <1>1, <1>2 DEF CheckoutInv
<1>4. used["error"] \in Nat /\ used'["error"] \in Nat /\ used'["error"] >= used["error"]
  BY <1>1, ErrorsGrow
<1>5. ASSUME NEW v \in Workers, NEW l, Carries(task[v], l) PROVE Carries(task[v], l)'
  <2>. PICK t : t = task[v]
    OBVIOUS
  <2>1. t.tries \in Nat /\ MaxRetries \in Nat
    BY SeatFacts DEF TaskType, SagaAssumption
  <2>2. Carries(t, l)'
    BY <1>4, <1>5, <2>1 DEF Carries
  <2>. QED BY <2>2 DEF Carries
<1>6. \A o, l : OwnedBy(o, l) => OwnedBy(o, l)'
  BY DEF OwnedBy
<1>7. FewErrors => Covered'
  BY <1>1, <1>5, <1>6 DEF Covered
<1>. QED BY <1>3, <1>7 DEF SeatInv

(* A queued release leaves its seat for sale: it was, or it is now.        *)
LEMMA RunLateSeats ==
  ASSUME SeatContext, NEW r \in late, RunLate(r)
  PROVE  SeatInv'
<1>1. /\ UNCHANGED <<task, status, labels, removed, submitted, returned, rolledBack, used>>
      /\ late' = late \ {r} /\ item' \in LateStock(r)
  BY DEF RunLate, orderVars, clientVars, ghostVars
<1>2. item \in ItemType(Seats) /\ item.seats = Seats /\ r \in LateType
      /\ r.op \notin {"reserve", "reserve_seat"}
  BY DEF SeatContext, StockInv, TypeOK, SeatInv, CheckoutInv
<1>3. item.avail \subseteq item'.avail /\ (r.op = "release_seat" /\ r.seat \in Seats => r.seat \in item'.avail)
  <2>1. CASE item' = item /\ r.op # "release_seat"
    BY <2>1
  <2>2. CASE r.op = "release_seat" /\ CanReturnSeat(item, r.seat) /\ item' = ReturnSeat(item, r.seat)
    BY <1>2, <2>2 DEF ReturnSeat, ItemType
  <2>3. CASE r.op = "release_seat" /\ ~CanReturnSeat(item, r.seat) /\ item' = item
    BY <1>2, <2>3 DEF CanReturnSeat
  <2>4. CASE r.op = "release" /\ item' = ReturnCount(item, r.qty)
    <3>1. ReturnCount(item, r.qty).avail = item.avail
      <4>1. item.avail \subseteq item.seats
        BY <1>2 DEF ItemType
      <4>. QED BY <1>2, <4>1 DEF ReturnCount, ItemType
    <3>. QED BY <2>4, <3>1
  <2>5. \/ item' = item /\ r.op # "release_seat"
        \/ r.op = "release_seat" /\ CanReturnSeat(item, r.seat) /\ item' = ReturnSeat(item, r.seat)
        \/ r.op = "release_seat" /\ ~CanReturnSeat(item, r.seat) /\ item' = item
        \/ r.op = "release" /\ item' = ReturnCount(item, r.qty)
    BY <1>1, <1>2 DEF LateStock
  <2>. QED BY <2>1, <2>2, <2>3, <2>4, <2>5
<1>4. \A l \in Seats \ item'.avail : Queued(l) => Queued(l)'
  BY <1>1, <1>3 DEF Queued
<1>. QED BY <1>1, <1>3, <1>4, HandlersRest

LEMMA EnvironmentSeats ==
  ASSUME SeatContext,
         \/ \E o \in Orders : Age(o)
         \/ \E o \in Orders, s \in Slots : Settle(o, s)
         \/ UNCHANGED vars
  PROVE  SeatInv'
<1>1. UNCHANGED <<task, status, labels, removed, submitted, returned, rolledBack, item, late>>
  BY DEF Age, Settle, vars, orderVars, clientVars, ghostVars
<1>2. UNCHANGED used \/ \E k \in Kinds : Spend(k)
  BY DEF Age, Settle, vars, Kinds
<1>3. \A l : Queued(l) => Queued(l)'
  BY <1>1 DEF Queued
<1>. QED BY <1>1, <1>2, <1>3, HandlersRest

LEMMA InitSeat == ASSUME Init PROVE SeatInv
<1>1. /\ removed = {} /\ late = {} /\ rolledBack = {} /\ item.avail = Seats
      /\ \A o \in Orders : status[o] = "None" /\ returned[o] = {}
      /\ \A w \in Workers : task[w] = Blank
  BY DEF Init
<1>2. Blank.pc = "idle" /\ Blank.job = "none"
  BY DEF Blank
<1>3. CheckoutInv
  BY <1>1, <1>2 DEF CheckoutInv, InPlace, ClaimSteps
<1>. QED BY <1>1, <1>3 DEF SeatInv, Covered

LEMMA NextSeat ==
  ASSUME SagaAssumption, Calm, ReleaseInv, StockInv, SeatInv, [Next]_vars
  PROVE  SeatInv'
<1>1. SeatContext
  BY DEF SeatContext
<1>2. ASSUME NEW w \in Workers, WorkerStep(w) PROVE SeatInv'
  <2>1. \/ Reads(w) \/ PaymentSteps(w) \/ Writes(w) \/ CreateOrder(w) \/ RollbackCancel(w)
        \/ CheckoutLookup(w) \/ (\E l \in Seats : ReserveSeat(w, l)) \/ ReserveCount(w)
        \/ CreatePayment(w) \/ RollbackRead(w) \/ RollbackVoucher(w)
        \/ (\E l \in Seats : ReleaseSeat(w, l)) \/ ReleaseCount(w)
    BY <1>2, Zenon DEF WorkerStep, Reads, PaymentSteps, Writes
  <2>. QED BY <1>1, <2>1, AsideSeats, WritesSeats, CreateOrderSeats, RollbackCancelSeats,
              LookupSeats, ReserveSeatSeats, ReserveCountSeats, CreatePaymentSeats,
              RollbackReadSeats, RollbackVoucherSeats, ReleaseSeatSeats, ReleaseCountSeats
<1>3. CASE \/ \E w \in Workers : Deliver(w)
           \/ \E w \in Workers, o \in Orders : SubmitCheckout(w, o)
           \/ \E w \in Workers, o \in Orders, kind \in Commands : SendRequest(w, o, kind)
           \/ \E w \in Workers, o \in Orders : CronPick(w, o)
  <2>1. \E w \in Workers : Starts(w) \/ \E o \in Orders : SubmitCheckout(w, o)
    BY <1>3 DEF Deliver, Starts
  <2>. QED BY <1>1, <2>1, AsideSeats, SubmitSeats
<1>4. CASE \/ \E o \in Orders : Age(o)
           \/ \E o \in Orders, s \in Slots : Settle(o, s)
           \/ \E r \in late : RunLate(r)
           \/ Rest \/ UNCHANGED vars
  BY <1>1, <1>4, EnvironmentSeats, RunLateSeats DEF Rest
<1>5. ~Crash /\ \A o \in Orders : ~RemoveOrder(o)
  BY <1>1, OnlyErrors DEF Crash, RemoveOrder
<1>. QED BY <1>2, <1>3, <1>4, <1>5 DEF Next

(* A seat out of sale belongs to an order that still owns it, to a handler *)
(* at work or to a release in the queue: with any number of checkouts,     *)
(* cancellations, refunds, expiries and operator requests side by side,    *)
(* and as many failed calls as a release has retries, none is lost for     *)
(* good.                                                                   *)
THEOREM NoLeakedSeatHolds ==
  ASSUME Calm, FewErrors
  PROVE  Spec => []NoLeakedSeat
<1>1. Init => StockInv /\ ReleaseInv /\ SeatInv
  BY SagaAssumption, InitStock, InitRelease, InitSeat
<1>2. StockInv /\ [Next]_vars => StockInv'
  BY SagaAssumption, NextStock
<1>3. ReleaseInv /\ [Next]_vars => ReleaseInv'
  BY SagaAssumption, NextRelease
<1>4. StockInv /\ ReleaseInv /\ SeatInv /\ [Next]_vars => SeatInv'
  BY SagaAssumption, Calm, NextSeat
<1>5. SeatInv => NoLeakedSeat
  <2>1. SUFFICES ASSUME SeatInv, NEW l \in Seats \ item.avail
                 PROVE  l \in (UNION {SeatsHeldBy(o) : o \in Orders}) \cup SeatsOnTheirWay
    BY DEF NoLeakedSeat
  <2>2. removed = {}
    BY <2>1 DEF SeatInv, CheckoutInv
  <2>3. CASE \E w \in Workers : Carries(task[w], l)
    BY <2>3 DEF Carries, SeatsOnTheirWay
  <2>4. ASSUME NEW o \in Orders, OwnedBy(o, l) PROVE l \in SeatsHeldBy(o)
    BY <2>2, <2>4 DEF OwnedBy, SeatsHeldBy, Holding
  <2>5. CASE Queued(l)
    BY <2>5 DEF Queued, SeatsOnTheirWay
  <2>. QED BY <2>1, <2>3, <2>4, <2>5, FewErrors DEF SeatInv, Covered
<1>. QED BY <1>1, <1>2, <1>3, <1>4, <1>5, PTL DEF Spec

-----------------------------------------------------------------------------
(* Each seat has one holder                                                *)
(*                                                                         *)
(* A seat is held for an order by the order itself while it is open, and   *)
(* by its checkout from the reservation until its release.  Nobody else    *)
(* may have it, and it is not for sale.                                    *)
(*                                                                         *)
(* The executions in which this is so: nobody but a checkout gives seats   *)
(* back, because no order is cancelled, refunded or past its time to live  *)
(* (two cancellations of one order release its seats twice); nothing is    *)
(* reserved by count, because a refused return of the count repeats the    *)
(* labels; and no attempt to release fails half way, because no call fails *)
(* or because there is one label at most.                                  *)

Uncontested ==
  /\ Limit["age"] = 0 /\ Limit["command"] = 0
  /\ \A o \in Orders : Extra[o] = 0
  /\ Limit["error"] = 0 \/ \A o \in Orders : \A l, m \in Wanted[o] : l = m

(* A payment of o was created. *)
Bought(o) == \E s \in Slots : pay[o][s] # "Absent"

PaidSteps == {"pp_read", "pp_verify", "pp_next", "tr_read", "tr_write", "it_read", "it_write"}

(* The handlers there are: checkouts, of orders without any payment, and   *)
(* the fulfilment of orders with one.                                      *)
Usual(t) ==
  /\ t.job \in {"none", "checkout", "paid"}
  /\ t.job = "none" => t.pc = "idle"
  /\ t.job = "paid" =>
       /\ t.pc \in PaidSteps /\ Bought(t.order)
       /\ t.pc = "pp_verify" => t.snap \in Open
       /\ t.pc \in {"tr_read", "tr_write"} => t.target \in {"Paid", "Confirmed"}
  /\ t.job = "checkout" =>
       /\ t.pc # "rel_count" /\ t.qty = 0 /\ t.held \subseteq Wanted[t.order]
       /\ ~Bought(t.order)
       /\ t.pc = "co_lookup" => t.held = {}
       /\ t.pc = "rel_seats" => t.pend \subseteq t.held
       /\ t.pc \in {"co_pay", "rb_read", "rb_cancel"} => status[t.order] = "PendingPayment"
       /\ t.pc = "rb_cancel" => t.snap = "PendingPayment"
       /\ t.pc \in {"rb_voucher", "rel_seats"} => status[t.order] \notin Open

(* The seats that handler t has for its order. *)
Has(t) ==
  IF t.pc \in SeatSteps THEN t.held ELSE IF t.pc = "rel_seats" THEN t.pend ELSE {}

(* Seat l is held for order o. *)
Mine(o, l) ==
  \/ status[o] \in Open /\ l \in labels[o]
  \/ \E w \in Workers : Owns(w, o) /\ l \in Has(task[w])

Exclusive ==
  \A o \in Orders, l \in Seats : Mine(o, l) =>
    l \notin item.avail /\ \A p \in Orders : Mine(p, l) => p = o

TradeInv ==
  /\ aged = {} /\ late = {}
  /\ \A e \in paidEvents : Bought(e[1])
  /\ \A o \in Orders : status[o] \in {"None", "Cancelled"} \cup Open
  /\ \A o \in Orders : Bought(o) => status[o] \in Open
  /\ \A w \in Workers : Usual(task[w])
  /\ Exclusive

TradeContext == SeatContext /\ Uncontested /\ TradeInv

LEMMA TradeFacts ==
  ASSUME TradeContext, NEW w \in Workers
  PROVE  /\ SagaAssumption /\ TypeOK /\ CheckoutInv /\ task[w] \in TaskType
         /\ Usual(task[w]) /\ InPlace(task[w]) /\ Faithful(task[w])
         /\ task[w].pc # "idle" => task[w].order \in Orders
         /\ labels \in [Orders -> SUBSET Seats] /\ status \in [Orders -> Status]
         /\ item \in ItemType(Seats) /\ item.seats = Seats /\ removed = {}
         /\ pay \in [Orders -> [Slots -> PayStatus]]
         /\ ~Spend("age") /\ ~Spend("command")
<1>1. SagaAssumption /\ TypeOK /\ SeatContext
  BY SeatFacts DEF TradeContext
<1>2. ~Spend("age") /\ ~Spend("command")
  BY <1>1, NeverSpends DEF TradeContext, Uncontested, Kinds
<1>. QED BY <1>1, <1>2, SeatFacts DEF TradeContext, TradeInv, SeatContext, SeatInv, TypeOK, PayTypes

(* The seats of a handler w that goes on as u.                             *)
LEMMA ExclusiveFrame ==
  ASSUME TradeContext, NEW w \in Workers, NEW u, Become(w, u),
         \A o \in Orders, l \in Seats : status'[o] \in Open /\ l \in labels'[o] => Mine(o, l),
         \A l \in Seats : u.job = "checkout" /\ l \in Has(u) =>
            Owns(w, u.order) /\ (l \in Has(task[w]) \/ (l \in item.avail /\ l \notin item'.avail)),
         \A l \in Seats : l \in item'.avail /\ l \notin item.avail =>
            \A o \in Orders : ~Mine(o, l)'
  PROVE  Exclusive'
<1>1. Exclusive /\ task' = [task EXCEPT ![w] = u] /\ task \in [Workers -> TaskType]
  BY DEF TradeContext, TradeInv, Become, SeatContext, StockInv, TypeOK, TaskTypes
<1>2. task'[w] = u /\ \A v \in Workers : v # w => task'[v] = task[v]
  BY <1>1
<1>3. ASSUME NEW o \in Orders, NEW l \in Seats, Mine(o, l)'
      PROVE  Mine(o, l) \/ (o = u.order /\ l \in item.avail /\ l \notin item'.avail)
  <2>1. CASE status'[o] \in Open /\ l \in labels'[o]
    BY <2>1
  <2>2. ASSUME NEW v \in Workers, Owns(v, o)', l \in Has(task[v])'
        PROVE  Mine(o, l) \/ (o = u.order /\ l \in item.avail /\ l \notin item'.avail)
    <3>1. CASE v = w
      BY <1>2, <2>2, <3>1 DEF Owns, Has, Mine
    <3>2. CASE v # w
      BY <1>2, <2>2, <3>2 DEF Owns, Has, Mine
    <3>. QED BY <3>1, <3>2
  <2>. QED BY <1>3, <2>1, <2>2 DEF Mine
<1>4. ASSUME NEW o \in Orders, NEW l \in Seats, Mine(o, l)' PROVE l \notin item'.avail
  BY <1>1, <1>3, <1>4 DEF Exclusive
<1>5. ASSUME NEW o \in Orders, NEW l \in Seats, Mine(o, l)', NEW p \in Orders, Mine(p, l)'
      PROVE  p = o
  <2>1. \A q \in Orders : Mine(q, l)' =>
          Mine(q, l) \/ (q = u.order /\ l \in item.avail /\ l \notin item'.avail)
    BY <1>3
  <2>2. \A q \in Orders : Mine(q, l) => l \notin item.avail /\ \A r \in Orders : Mine(r, l) => r = q
    BY <1>1 DEF Exclusive
  <2>. QED BY <1>5, <2>1, <2>2
<1>. QED BY <1>4, <1>5 DEF Exclusive

(* A payment belongs to an order whose checkout is over.                   *)
LEMMA UsualStays ==
  ASSUME TradeContext, NEW w \in Workers, NEW v \in Workers, v # w, task'[v] = task[v],
         \A o \in Orders : Bought(o) => Bought(o)',
         \A o \in Orders : Bought(o)' => Bought(o) \/ Owns(w, o),
         \A o \in Orders : status'[o] = status[o] \/ Owns(w, o) \/ Bought(o)
  PROVE  Usual(task[v])'
<1>. PICK t : t = task[v]
  OBVIOUS
<1>1. Usual(t) /\ CheckoutInv /\ (t.pc # "idle" => t.order \in Orders)
  BY TradeFacts
<1>2. CASE t.job = "checkout"
  <2>1. t.order \in Orders /\ ~Owns(w, t.order)
    <3>1. InPlace(t)
      BY TradeFacts
    <3>2. t.pc # "idle"
      BY <1>2, <3>1 DEF InPlace, CheckoutSteps, ReleaseSteps
    <3>. QED BY <1>1, <1>2, <3>2 DEF CheckoutInv, Owns
  <2>2. ~Bought(t.order) /\ ~Bought(t.order)' /\ status'[t.order] = status[t.order]
    BY <1>1, <1>2, <2>1 DEF Usual
  <2>3. Usual(t)'
    BY <1>1, <1>2, <2>2 DEF Usual
  <2>. QED BY <2>3 DEF Usual, Bought
<1>3. CASE t.job = "paid"
  <2>1. Bought(t.order)'
    BY <1>1, <1>3 DEF Usual, PaidSteps
  <2>2. Usual(t)'
    BY <1>1, <1>3, <2>1 DEF Usual
  <2>. QED BY <2>2 DEF Usual, Bought
<1>4. CASE t.job \notin {"checkout", "paid"}
  <2>1. Usual(t)'
    BY <1>1, <1>4 DEF Usual
  <2>. QED BY <2>1 DEF Usual, Bought
<1>. QED BY <1>2, <1>3, <1>4

LEMMA TradeStep ==
  ASSUME TradeContext, NEW w \in Workers, NEW u, Become(w, u), Usual(u)',
         \A o \in Orders : Bought(o) => Bought(o)',
         \A o \in Orders : Bought(o)' => Bought(o) \/ (Owns(w, o) /\ status'[o] \in Open),
         \A o \in Orders : \/ status'[o] = status[o]
                           \/ Owns(w, o) /\ status'[o] \in {"None", "Cancelled"} \cup Open
                           \/ Bought(o) /\ status'[o] \in Open,
         \A o \in Orders : Owns(w, o) /\ Bought(o) => status'[o] \in Open,
         \A e \in paidEvents' : e \in paidEvents /\ e[1] \in Orders,
         late' = {}, aged' = {},
         \A o \in Orders, l \in Seats : status'[o] \in Open /\ l \in labels'[o] => Mine(o, l),
         \A l \in Seats : u.job = "checkout" /\ l \in Has(u) =>
            Owns(w, u.order) /\ (l \in Has(task[w]) \/ (l \in item.avail /\ l \notin item'.avail)),
         \A l \in Seats : l \in item'.avail /\ l \notin item.avail =>
            \A o \in Orders : ~Mine(o, l)'
  PROVE  TradeInv'
<1>1. TradeInv /\ task' = [task EXCEPT ![w] = u] /\ task \in [Workers -> TaskType]
  BY DEF TradeContext, Become, SeatContext, StockInv, TypeOK, TaskTypes
<1>2. Exclusive'
  BY ExclusiveFrame
<1>3. ASSUME NEW v \in Workers PROVE Usual(task[v])'
  <2>1. CASE v = w
    <3>1. task'[v] = u
      BY <1>1, <2>1
    <3>. QED BY <3>1 DEF Usual, Bought
  <2>2. CASE v # w
    <3>1. task'[v] = task[v]
      BY <1>1, <2>2
    <3>. QED BY <2>2, <3>1, UsualStays
  <2>. QED BY <2>1, <2>2
<1>4. \A e \in paidEvents' : Bought(e[1])'
  BY <1>1 DEF TradeInv
<1>5. \A o \in Orders : status'[o] \in {"None", "Cancelled"} \cup Open
  BY <1>1 DEF TradeInv
<1>6. \A o \in Orders : Bought(o)' => status'[o] \in Open
  BY <1>1 DEF TradeInv
<1>. QED BY <1>2, <1>3, <1>4, <1>5, <1>6 DEF TradeInv

(* A step that writes neither status, labels nor payments.                 *)
LEMMA TradeQuiet ==
  ASSUME TradeContext, NEW w \in Workers, NEW u, Become(w, u), Usual(u)',
         UNCHANGED <<status, labels, pay, late, aged>>,
         \A e \in paidEvents' : e \in paidEvents,
         \A l \in Seats : u.job = "checkout" /\ l \in Has(u) =>
            Owns(w, u.order) /\ (l \in Has(task[w]) \/ (l \in item.avail /\ l \notin item'.avail)),
         \A l \in Seats : l \in item'.avail /\ l \notin item.avail =>
            \A o \in Orders : ~Mine(o, l)'
  PROVE  TradeInv'
<1>1. TradeInv /\ TypeOK
  BY DEF TradeContext, SeatContext, StockInv
<1>2. \A o : Bought(o)' <=> Bought(o)
  BY DEF Bought
<1>3. \A e \in paidEvents' : e \in paidEvents /\ e[1] \in Orders
  BY <1>1 DEF TypeOK, PayTypes
<1>4. late' = {} /\ aged' = {}
  BY <1>1 DEF TradeInv
<1>5. \A o \in Orders, l \in Seats : status'[o] \in Open /\ l \in labels'[o] => Mine(o, l)
  BY DEF Mine
<1>6. \A o \in Orders : Owns(w, o) /\ Bought(o) => status'[o] \in Open
  BY <1>1 DEF TradeInv
<1>. QED BY <1>2, <1>3, <1>4, <1>5, <1>6, TradeStep

-----------------------------------------------------------------------------
LEMMA BlankTrade == Usual(Blank)' /\ Blank.job # "checkout"
<1>1. Blank.pc = "idle" /\ Blank.job = "none"
  BY DEF Blank
<1>. QED BY <1>1 DEF Usual

(* A checkout that gives up releases what it has.                          *)
LEMMA BeginTrade ==
  ASSUME NEW t \in TaskType, t.job = "checkout", t.qty = 0, t.held \subseteq Wanted[t.order],
         ~Bought(t.order)', status'[t.order] \notin Open
  PROVE  /\ Usual(BeginRelease(t))'
         /\ BeginRelease(t).job = "checkout" =>
              BeginRelease(t).order = t.order /\ Has(BeginRelease(t)) \subseteq t.held
<1>. PICK u : u = [t EXCEPT !.pc = "rel_seats", !.pend = t.held]
  OBVIOUS
<1>1. /\ u.pc = "rel_seats" /\ u.pend = t.held /\ u.held = t.held /\ u.qty = 0
      /\ u.order = t.order /\ u.job = "checkout"
  BY DEF TaskType
<1>2. CASE t.held # {}
  <2>1. BeginRelease(t) = u
    BY <1>2 DEF BeginRelease
  <2>2. Usual(u)'
    BY <1>1 DEF Usual
  <2>3. Has(u) = t.held
    BY <1>1 DEF Has, SeatSteps, CheckoutSteps
  <2>. QED BY <1>1, <2>1, <2>2, <2>3
<1>3. CASE t.held = {}
  <2>1. BeginRelease(t) = AfterRelease(t, TRUE)
    BY <1>3 DEF BeginRelease
  <2>2. BeginRelease(t) = Blank
    BY <2>1, AfterReleaseShape DEF Compensates
  <2>. QED BY <1>3, <2>2, BlankTrade
<1>. QED BY <1>2, <1>3

(* What a step of a checkout starts from.                                  *)
LEMMA CheckoutTrade ==
  ASSUME TradeContext, NEW w \in Workers, task[w].pc \in CheckoutSteps
  PROVE  LET t == task[w]
         IN  /\ t \in TaskType /\ t.job = "checkout" /\ t.order \in Orders
             /\ Usual(t) /\ InPlace(t) /\ Owns(w, t.order)
             /\ t.qty = 0 /\ t.held \subseteq Wanted[t.order] /\ ~Bought(t.order)
             /\ t.pc \in SeatSteps => Has(t) = t.held
<1>1. task[w].job = "checkout" /\ task[w].pc # "idle"
  BY TradeFacts DEF Faithful, CheckoutSteps
<1>. QED BY <1>1, TradeFacts DEF Usual, Owns, Has

(* Giving up before the order is open, or after it was cancelled.          *)
LEMMA AbandonTrade ==
  ASSUME TradeContext, NEW w \in Workers, task[w].pc \in SeatSteps,
         status[task[w].order] \notin Open,
         Become(w, BeginRelease(task[w])),
         UNCHANGED <<status, labels, pay, paidEvents, late, aged, item>>
  PROVE  TradeInv'
<1>. PICK t : t = task[w]
  OBVIOUS
<1>. PICK u : u = BeginRelease(t)
  OBVIOUS
<1>1. /\ t \in TaskType /\ t.job = "checkout" /\ t.order \in Orders /\ Owns(w, t.order)
      /\ t.qty = 0 /\ t.held \subseteq Wanted[t.order] /\ ~Bought(t.order) /\ Has(t) = t.held
  BY CheckoutTrade DEF SeatSteps
<1>2. ~Bought(t.order)' /\ status'[t.order] \notin Open
  BY <1>1 DEF Bought
<1>3. /\ Usual(u)'
      /\ u.job = "checkout" => u.order = t.order /\ Has(u) \subseteq t.held
  BY <1>1, <1>2, BeginTrade
<1>4. \A l \in Seats : u.job = "checkout" /\ l \in Has(u) =>
            Owns(w, u.order) /\ (l \in Has(task[w]) \/ (l \in item.avail /\ l \notin item'.avail))
  BY <1>1, <1>3
<1>. QED BY <1>3, <1>4, TradeQuiet

LEMMA LookupTrade ==
  ASSUME TradeContext, NEW w \in Workers, CheckoutLookup(w)
  PROVE  TradeInv'
<1>. PICK t : t = task[w]
  OBVIOUS
<1>. PICK u : u = [t EXCEPT !.pc = "co_reserve"]
  OBVIOUS
<1>1. /\ t.pc = "co_lookup" /\ t.pc \in CheckoutSteps
      /\ UNCHANGED <<status, labels, pay, paidEvents, late, aged, item>>
  BY DEF CheckoutLookup, At, CheckoutSteps, orderVars, payVars, clientVars
<1>2. /\ t \in TaskType /\ t.job = "checkout" /\ t.order \in Orders /\ Usual(t)
      /\ t.qty = 0 /\ ~Bought(t.order)
  BY <1>1, CheckoutTrade
<1>3. \/ Become(w, Blank) \/ Become(w, u)
  BY DEF CheckoutLookup, Finish, Goto
<1>4. /\ u.pc = "co_reserve" /\ u.job = "checkout" /\ u.order = t.order /\ u.held = {}
      /\ u.qty = 0
  BY <1>1, <1>2 DEF TaskType, Usual
<1>5. Usual(u)' /\ Has(u) = {}
  <2>1. ~Bought(u.order)'
    BY <1>1, <1>2, <1>4 DEF Bought
  <2>. QED BY <1>1, <1>4, <2>1 DEF Usual, Has
<1>. QED BY <1>1, <1>3, <1>5, BlankTrade, TradeQuiet

(* A seat that was for sale becomes the checkout's.                        *)
LEMMA ReserveSeatTrade ==
  ASSUME TradeContext, NEW w \in Workers, NEW l \in Seats, ReserveSeat(w, l)
  PROVE  TradeInv'
<1>. DEFINE t == task[w]
            hold(pc) == [t EXCEPT !.held = t.held \cup {l}, !.pc = pc]
<1>1. /\ t.pc = "co_reserve" /\ t.pc \in CheckoutSteps /\ t.pc \in SeatSteps
      /\ UNCHANGED <<status, labels, pay, paidEvents, aged>>
  BY DEF ReserveSeat, At, CheckoutSteps, SeatSteps, orderVars, payVars, clientVars
<1>2. /\ t \in TaskType /\ t.job = "checkout" /\ t.order \in Orders /\ Usual(t)
      /\ Owns(w, t.order) /\ t.held \subseteq Wanted[t.order]
      /\ t.qty = 0 /\ ~Bought(t.order) /\ Has(t) = t.held /\ status[t.order] = "None"
      /\ item \in ItemType(Seats) /\ l \in Wanted[t.order]
  <2>1. status[t.order] = "None"
    BY <1>1, CheckoutTrade DEF InPlace, PlacedSteps
  <2>2. item \in ItemType(Seats)
    BY TradeFacts
  <2>3. l \in Wanted[t.order]
    BY DEF ReserveSeat
  <2>. QED BY <1>1, <2>1, <2>2, <2>3, CheckoutTrade
<1>3. CASE Become(w, BeginRelease(t)) /\ UNCHANGED <<item, late>>
  <2>1. status[t.order] \notin Open
    BY <1>2 DEF Open
  <2>. QED BY <1>1, <1>3, <2>1, AbandonTrade
<1>4. ASSUME NEW pc \in {"co_reserve", "co_create"}, Become(w, hold(pc)),
             CanTakeSeat(item, l), item' = TakeSeat(item, l), UNCHANGED late
      PROVE  TradeInv'
  <2>. PICK u : u = hold(pc)
    OBVIOUS
  <2>1. /\ u.pc = pc /\ u.job = "checkout" /\ u.order = t.order
        /\ u.held = t.held \cup {l} /\ u.qty = 0
    BY <1>2 DEF TaskType
  <2>2. item'.avail = item.avail \ {l} /\ l \in item.avail
    BY <1>2, <1>4 DEF TakeSeat, CanTakeSeat, ItemType
  <2>3. Usual(u)'
    <3>1. ~Bought(u.order)'
      BY <1>1, <1>2, <2>1 DEF Bought
    <3>. QED BY <1>2, <2>1, <3>1 DEF Usual
  <2>4. Has(u) = t.held \cup {l}
    BY <2>1 DEF Has, SeatSteps, CheckoutSteps
  <2>5. \A m \in Seats : u.job = "checkout" /\ m \in Has(u) =>
          Owns(w, u.order) /\ (m \in Has(task[w]) \/ (m \in item.avail /\ m \notin item'.avail))
    BY <1>2, <2>1, <2>2, <2>4
  <2>6. \A m \in Seats : m \in item'.avail /\ m \notin item.avail =>
          \A o \in Orders : ~Mine(o, m)'
    BY <2>2
  <2>7. Become(w, u)
    BY <1>4
  <2>. QED BY <1>1, <1>4, <2>3, <2>5, <2>6, <2>7, TradeQuiet
<1>5. \/ Become(w, BeginRelease(t)) /\ UNCHANGED <<item, late>>
      \/ /\ CanTakeSeat(item, l) /\ item' = TakeSeat(item, l) /\ UNCHANGED late
         /\ \E pc \in {"co_reserve", "co_create"} : Become(w, hold(pc))
  <2>. DEFINE take == /\ CanTakeSeat(item, l)
                      /\ item' = TakeSeat(item, l) /\ UNCHANGED <<late, used>>
                      /\ Become(w, hold(IF /\ Wanted[t.order] \subseteq t.held \cup {l}
                                           /\ Extra[t.order] = 0
                                        THEN "co_create" ELSE t.pc))
              fail == /\ Become(w, BeginRelease(t)) /\ UNCHANGED item
                      /\ UNCHANGED <<late, used>> \/ RpcFails({SeatRequest("reserve_seat", w, l)})
  <2>1. take \/ fail
    BY DEF ReserveSeat
  <2>2. CASE take
    <3>1. CASE Wanted[t.order] \subseteq t.held \cup {l} /\ Extra[t.order] = 0
      BY <2>2, <3>1
    <3>2. CASE ~(Wanted[t.order] \subseteq t.held \cup {l} /\ Extra[t.order] = 0)
      BY <1>1, <2>2, <3>2
    <3>. QED BY <3>1, <3>2
  <2>3. CASE fail
    BY <2>3, OnlyErrors DEF TradeContext
  <2>. QED BY <2>1, <2>2, <2>3
<1>. QED BY <1>3, <1>4, <1>5

(* Nothing is wanted by count, and nothing is reserved.                    *)
LEMMA ReserveCountTrade ==
  ASSUME TradeContext, NEW w \in Workers, ReserveCount(w)
  PROVE  TradeInv'
<1>. DEFINE t == task[w]
            q == Extra[t.order]
            hold(S) == [t EXCEPT !.held = t.held \cup S, !.qty = q, !.pc = "co_create"]
<1>1. /\ t.pc = "co_reserve" /\ t.pc \in CheckoutSteps /\ t.pc \in SeatSteps
      /\ UNCHANGED <<status, labels, pay, paidEvents, aged>>
  BY DEF ReserveCount, At, CheckoutSteps, SeatSteps, orderVars, payVars, clientVars
<1>2. /\ t \in TaskType /\ t.job = "checkout" /\ t.order \in Orders /\ Usual(t)
      /\ Owns(w, t.order) /\ t.held \subseteq Wanted[t.order]
      /\ t.qty = 0 /\ ~Bought(t.order) /\ Has(t) = t.held /\ status[t.order] = "None"
      /\ item \in ItemType(Seats) /\ SagaAssumption
  <2>1. status[t.order] = "None"
    BY <1>1, CheckoutTrade DEF InPlace, PlacedSteps
  <2>2. item \in ItemType(Seats) /\ SagaAssumption
    BY TradeFacts
  <2>. QED BY <1>1, <2>1, <2>2, CheckoutTrade
<1>3. CASE Become(w, BeginRelease(t)) /\ UNCHANGED <<item, late>>
  <2>1. status[t.order] \notin Open
    BY <1>2 DEF Open
  <2>. QED BY <1>1, <1>3, <2>1, AbandonTrade
<1>4. ASSUME NEW S \in Allocations(item, q), Become(w, hold(S)),
             item' = TakeCount(item, q, S), UNCHANGED late
      PROVE  TradeInv'
  <2>1. q = 0
    BY <1>2 DEF TradeContext, Uncontested
  <2>2. item.avail \subseteq Seats /\ IsFiniteSet(item.avail) /\ Cardinality(item.avail) >= 0
    <3>1. item.avail \subseteq Seats
      BY <1>2 DEF ItemType
    <3>2. IsFiniteSet(item.avail)
      BY <1>2, <3>1, FS_Subset DEF SagaAssumption
    <3>. QED BY <3>1, <3>2, FS_CardinalityType
  <2>3. S = {}
    <3>1. S \subseteq item.avail /\ Cardinality(S) = 0
      BY <1>4, <2>1, <2>2 DEF Allocations
    <3>2. IsFiniteSet(S)
      BY <2>2, <3>1, FS_Subset
    <3>. QED BY <3>1, <3>2, FS_EmptySet
  <2>4. item'.avail = item.avail
    BY <1>2, <1>4, <2>1, <2>2, <2>3 DEF TakeCount, ItemType
  <2>. PICK u : u = hold(S)
    OBVIOUS
  <2>5. /\ u.pc = "co_create" /\ u.job = "checkout" /\ u.order = t.order
        /\ u.held = t.held /\ u.qty = 0
    BY <1>2, <2>1, <2>3 DEF TaskType
  <2>6. Usual(u)'
    <3>1. ~Bought(u.order)'
      BY <1>1, <1>2, <2>5 DEF Bought
    <3>. QED BY <1>2, <2>5, <3>1 DEF Usual
  <2>7. Has(u) = t.held
    BY <2>5 DEF Has, SeatSteps, CheckoutSteps
  <2>8. \A m \in Seats : u.job = "checkout" /\ m \in Has(u) =>
          Owns(w, u.order) /\ (m \in Has(task[w]) \/ (m \in item.avail /\ m \notin item'.avail))
    BY <1>2, <2>5, <2>7
  <2>9. Become(w, u)
    BY <1>4
  <2>. QED BY <1>1, <1>4, <2>4, <2>6, <2>8, <2>9, TradeQuiet
<1>5. \/ Become(w, BeginRelease(t)) /\ UNCHANGED <<item, late>>
      \/ /\ UNCHANGED late
         /\ \E S \in Allocations(item, q) : item' = TakeCount(item, q, S) /\ Become(w, hold(S))
  <2>1. \A R : RpcFails(R) => UNCHANGED late
    BY OnlyErrors DEF TradeContext
  <2>. HIDE DEF q
  <2>. QED BY <2>1 DEF ReserveCount, q
<1>. QED BY <1>3, <1>4, <1>5

(* The order takes over what its checkout holds.                           *)
LEMMA CreateOrderTrade ==
  ASSUME TradeContext, NEW w \in Workers, CreateOrder(w)
  PROVE  TradeInv'
<1>. PICK t : t = task[w]
  OBVIOUS
<1>. PICK o : o = t.order
  OBVIOUS
<1>. PICK u : u = [t EXCEPT !.pc = "co_pay"]
  OBVIOUS
<1>1. /\ t.pc = "co_create" /\ t.pc \in CheckoutSteps /\ t.pc \in SeatSteps
      /\ UNCHANGED <<pay, paidEvents, late, aged, item>>
  BY DEF CreateOrder, At, CheckoutSteps, SeatSteps, payVars, clientVars
<1>2. /\ t \in TaskType /\ t.job = "checkout" /\ o \in Orders /\ Owns(w, o)
      /\ t.held \subseteq Wanted[o] /\ t.qty = 0 /\ ~Bought(o) /\ Has(t) = t.held
  BY <1>1, CheckoutTrade
<1>3. /\ status[o] = "None" /\ removed = {} /\ TradeInv /\ TypeOK
      /\ status \in [Orders -> Status] /\ labels \in [Orders -> SUBSET Seats]
  <2>1. status[o] = "None"
    BY <1>1, CheckoutTrade DEF InPlace, PlacedSteps
  <2>2. TradeInv
    BY DEF TradeContext
  <2>. QED BY <2>1, <2>2, TradeFacts
<1>4. CASE Become(w, BeginRelease(t)) /\ UNCHANGED <<status, labels>>
  <2>1. status[task[w].order] \notin Open
    BY <1>3 DEF Open
  <2>. QED BY <1>1, <1>4, <2>1, AbandonTrade
<1>5. CASE /\ Become(w, u) /\ SetStatus(o, "PendingPayment")
           /\ labels' = [labels EXCEPT ![o] = t.held]
  <2>1. /\ u.pc = "co_pay" /\ u.job = "checkout" /\ u.order = o /\ u.held = t.held
        /\ u.qty = 0
    BY <1>2 DEF TaskType
  <2>2. /\ status'[o] = "PendingPayment" /\ labels'[o] = t.held
        /\ \A p \in Orders : p # o => status'[p] = status[p] /\ labels'[p] = labels[p]
    BY <1>2, <1>3, <1>5 DEF SetStatus
  <2>3. \A p : Bought(p)' <=> Bought(p)
    BY <1>1 DEF Bought
  <2>4. Usual(u)'
    <3>1. ~Bought(u.order)' /\ status'[u.order] = "PendingPayment"
      BY <1>2, <2>1, <2>2, <2>3
    <3>. QED BY <1>2, <2>1, <3>1 DEF Usual
  <2>5. \A p \in Orders, l \in Seats : status'[p] \in Open /\ l \in labels'[p] => Mine(p, l)
    BY <1>2, <2>2 DEF Mine
  <2>6. \A l \in Seats : u.job = "checkout" /\ l \in Has(u) =>
          Owns(w, u.order) /\ (l \in Has(task[w]) \/ (l \in item.avail /\ l \notin item'.avail))
    <3>1. Has(u) = t.held
      BY <2>1 DEF Has, SeatSteps, CheckoutSteps
    <3>. QED BY <1>2, <2>1, <3>1
  <2>7. \A p \in Orders : /\ Owns(w, p) /\ Bought(p) => status'[p] \in Open
                          /\ \/ status'[p] = status[p]
                             \/ Owns(w, p) /\ status'[p] \in {"None", "Cancelled"} \cup Open
    BY <1>2, <2>2 DEF Owns, Open
  <2>8. /\ \A e \in paidEvents' : e \in paidEvents /\ e[1] \in Orders
        /\ late' = {} /\ aged' = {}
        /\ \A l \in Seats : l \in item'.avail /\ l \notin item.avail =>
             \A p \in Orders : ~Mine(p, l)'
    BY <1>1, <1>3 DEF TradeInv, TypeOK, PayTypes
  <2>. QED BY <1>5, <2>3, <2>4, <2>5, <2>6, <2>7, <2>8, TradeStep
<1>. QED BY <1>3, <1>4, <1>5 DEF CreateOrder, Exists, Goto

(* With its payment the order is on its own.                               *)
LEMMA CreatePaymentTrade ==
  ASSUME TradeContext, NEW w \in Workers, CreatePayment(w)
  PROVE  TradeInv'
<1>. PICK t : t = task[w]
  OBVIOUS
<1>. PICK o : o = t.order
  OBVIOUS
<1>. PICK u : u = [t EXCEPT !.pc = "rb_read"]
  OBVIOUS
<1>1. /\ t.pc = "co_pay" /\ t.pc \in CheckoutSteps /\ t.pc \in SeatSteps
      /\ UNCHANGED <<status, labels, paidEvents, aged, item>>
  BY DEF CreatePayment, At, CheckoutSteps, SeatSteps, orderVars
<1>2. /\ t \in TaskType /\ t.job = "checkout" /\ o \in Orders /\ Owns(w, o)
      /\ t.held \subseteq Wanted[o] /\ t.qty = 0 /\ ~Bought(o) /\ Has(t) = t.held
      /\ status[o] = "PendingPayment"
  <2>1. Usual(t)
    BY <1>1, CheckoutTrade
  <2>. QED BY <1>1, <2>1, CheckoutTrade DEF Usual
<1>3. /\ TradeInv /\ TypeOK /\ pay \in [Orders -> [Slots -> PayStatus]]
  BY TradeFacts DEF TradeContext
<1>4. UNCHANGED late
  BY OnlyErrors DEF TradeContext, CreatePayment
<1>5. CASE Become(w, u) /\ UNCHANGED pay
  <2>1. /\ u.pc = "rb_read" /\ u.job = "checkout" /\ u.order = o /\ u.held = t.held
        /\ u.qty = 0
    BY <1>2 DEF TaskType
  <2>2. Usual(u)'
    <3>1. ~Bought(u.order)' /\ status'[u.order] = "PendingPayment"
      BY <1>1, <1>2, <1>5, <2>1 DEF Bought
    <3>. QED BY <1>2, <2>1, <3>1 DEF Usual
  <2>3. Has(u) = t.held
    BY <2>1 DEF Has, SeatSteps, CheckoutSteps
  <2>4. \A l \in Seats : u.job = "checkout" /\ l \in Has(u) =>
          Owns(w, u.order) /\ (l \in Has(task[w]) \/ (l \in item.avail /\ l \notin item'.avail))
    BY <1>2, <2>1, <2>3
  <2>. QED BY <1>1, <1>4, <1>5, <2>2, <2>4, TradeQuiet
<1>6. CASE /\ SlotsIn(o, "Absent") # {} /\ SetPay(o, NewSlot(o), "Pending") /\ Become(w, Blank)
  <2>1. /\ pay'[o][NewSlot(o)] = "Pending" /\ NewSlot(o) \in Slots
        /\ \A p \in Orders : p # o => pay'[p] = pay[p]
    BY <1>2, <1>3, <1>6, NewSlotOK DEF SetPay
  <2>2. Bought(o)' /\ \A p \in Orders : p # o => (Bought(p)' <=> Bought(p))
    BY <2>1 DEF Bought
  <2>3. \A p \in Orders : /\ Bought(p) => Bought(p)'
                          /\ Bought(p)' => Bought(p) \/ (Owns(w, p) /\ status'[p] \in Open)
                          /\ status'[p] = status[p]
                          /\ Owns(w, p) /\ Bought(p) => status'[p] \in Open
    BY <1>1, <1>2, <2>2 DEF Owns, Open
  <2>4. /\ \A e \in paidEvents' : e \in paidEvents /\ e[1] \in Orders
        /\ late' = {} /\ aged' = {}
        /\ \A p \in Orders, l \in Seats : status'[p] \in Open /\ l \in labels'[p] => Mine(p, l)
        /\ \A l \in Seats : l \in item'.avail /\ l \notin item.avail =>
             \A p \in Orders : ~Mine(p, l)'
    BY <1>1, <1>3, <1>4 DEF TradeInv, TypeOK, PayTypes, Mine
  <2>. QED BY <1>6, <2>3, <2>4, BlankTrade, TradeStep
<1>. QED BY <1>5, <1>6 DEF CreatePayment, Finish, Goto

(* The rollback finds the order waiting for its payment ...                *)
LEMMA RollbackReadTrade ==
  ASSUME TradeContext, NEW w \in Workers, RollbackRead(w)
  PROVE  TradeInv'
<1>. PICK t : t = task[w]
  OBVIOUS
<1>. PICK o : o = t.order
  OBVIOUS
<1>. PICK u : u = [t EXCEPT !.pc = "rb_cancel", !.snap = status[o]]
  OBVIOUS
<1>1. /\ t.pc = "rb_read" /\ t.pc \in CheckoutSteps /\ t.pc \in SeatSteps
      /\ UNCHANGED <<status, labels, pay, paidEvents, late, aged, item>>
  BY DEF RollbackRead, At, CheckoutSteps, SeatSteps, orderVars, payVars, clientVars
<1>2. /\ t \in TaskType /\ t.job = "checkout" /\ o \in Orders /\ Owns(w, o)
      /\ t.held \subseteq Wanted[o] /\ t.qty = 0 /\ ~Bought(o) /\ Has(t) = t.held
      /\ status[o] = "PendingPayment" /\ removed = {}
  <2>1. Usual(t)
    BY <1>1, CheckoutTrade
  <2>2. removed = {}
    BY TradeFacts
  <2>. QED BY <1>1, <2>1, <2>2, CheckoutTrade DEF Usual
<1>3. Become(w, u)
  BY <1>2 DEF RollbackRead, Exists, Closed
<1>4. /\ u.pc = "rb_cancel" /\ u.job = "checkout" /\ u.order = o /\ u.held = t.held
      /\ u.qty = 0 /\ u.snap = "PendingPayment"
  BY <1>2 DEF TaskType
<1>5. Usual(u)'
  <2>1. ~Bought(u.order)' /\ status'[u.order] = "PendingPayment"
    BY <1>1, <1>2, <1>4 DEF Bought
  <2>. QED BY <1>2, <1>4, <2>1 DEF Usual
<1>6. \A l \in Seats : u.job = "checkout" /\ l \in Has(u) =>
        Owns(w, u.order) /\ (l \in Has(task[w]) \/ (l \in item.avail /\ l \notin item'.avail))
  <2>1. Has(u) = t.held
    BY <1>4 DEF Has, SeatSteps, CheckoutSteps
  <2>. QED BY <1>2, <1>4, <2>1
<1>. QED BY <1>1, <1>3, <1>5, <1>6, TradeQuiet

(* ... and takes its seats back.                                           *)
LEMMA RollbackCancelTrade ==
  ASSUME TradeContext, NEW w \in Workers, RollbackCancel(w)
  PROVE  TradeInv'
<1>. PICK t : t = task[w]
  OBVIOUS
<1>. PICK o : o = t.order
  OBVIOUS
<1>. PICK u : u = [t EXCEPT !.pc = "rb_voucher"]
  OBVIOUS
<1>1. /\ t.pc = "rb_cancel" /\ t.pc \in CheckoutSteps /\ t.pc \in SeatSteps
      /\ UNCHANGED <<labels, pay, paidEvents, late, aged, item>>
  BY DEF RollbackCancel, At, CheckoutSteps, SeatSteps, payVars, clientVars
<1>2. /\ t \in TaskType /\ t.job = "checkout" /\ o \in Orders /\ Owns(w, o)
      /\ t.held \subseteq Wanted[o] /\ t.qty = 0 /\ ~Bought(o) /\ Has(t) = t.held
      /\ status[o] = "PendingPayment" /\ t.snap = "PendingPayment"
  <2>1. Usual(t)
    BY <1>1, CheckoutTrade
  <2>. QED BY <1>1, <2>1, CheckoutTrade DEF Usual
<1>3. /\ removed = {} /\ TradeInv /\ TypeOK /\ status \in [Orders -> Status]
  BY TradeFacts DEF TradeContext
<1>4. SetStatus(o, "Cancelled") /\ Become(w, u)
  BY <1>2, <1>3 DEF RollbackCancel, Matches, Goto
<1>5. /\ u.pc = "rb_voucher" /\ u.job = "checkout" /\ u.order = o /\ u.held = t.held
      /\ u.qty = 0
  BY <1>2 DEF TaskType
<1>6. status'[o] = "Cancelled" /\ \A p \in Orders : p # o => status'[p] = status[p]
  BY <1>2, <1>3, <1>4 DEF SetStatus
<1>7. \A p : Bought(p)' <=> Bought(p)
  BY <1>1 DEF Bought
<1>8. Usual(u)'
  <2>1. ~Bought(u.order)' /\ status'[u.order] \notin Open
    BY <1>2, <1>5, <1>6, <1>7 DEF Open
  <2>. QED BY <1>2, <1>5, <2>1 DEF Usual
<1>9. \A p \in Orders, l \in Seats : status'[p] \in Open /\ l \in labels'[p] => Mine(p, l)
  BY <1>1, <1>6 DEF Mine, Open
<1>10. \A l \in Seats : u.job = "checkout" /\ l \in Has(u) =>
        Owns(w, u.order) /\ (l \in Has(task[w]) \/ (l \in item.avail /\ l \notin item'.avail))
  <2>1. Has(u) = t.held
    BY <1>5 DEF Has, SeatSteps, CheckoutSteps
  <2>. QED BY <1>2, <1>5, <2>1
<1>11. \A p \in Orders : /\ Owns(w, p) /\ Bought(p) => status'[p] \in Open
                         /\ \/ status'[p] = status[p]
                            \/ Owns(w, p) /\ status'[p] \in {"None", "Cancelled"} \cup Open
  BY <1>2, <1>6 DEF Owns
<1>12. /\ \A e \in paidEvents' : e \in paidEvents /\ e[1] \in Orders
       /\ late' = {} /\ aged' = {}
       /\ \A l \in Seats : l \in item'.avail /\ l \notin item.avail =>
            \A p \in Orders : ~Mine(p, l)'
  BY <1>1, <1>3 DEF TradeInv, TypeOK, PayTypes
<1>. QED BY <1>4, <1>7, <1>8, <1>9, <1>10, <1>11, <1>12, TradeStep

LEMMA RollbackVoucherTrade ==
  ASSUME TradeContext, NEW w \in Workers, RollbackVoucher(w)
  PROVE  TradeInv'
<1>1. /\ task[w].pc = "rb_voucher" /\ Become(w, BeginRelease(task[w]))
      /\ task[w].pc \in CheckoutSteps /\ task[w].pc \in SeatSteps
      /\ UNCHANGED <<status, labels, pay, paidEvents, late, aged, item>>
  BY DEF RollbackVoucher, At, CheckoutSteps, SeatSteps, payVars, clientVars
<1>2. status[task[w].order] \notin Open
  BY <1>1, CheckoutTrade DEF Usual
<1>. QED BY <1>1, <1>2, AbandonTrade

(* Only a checkout releases, and only labels.                              *)
LEMMA ReleaserTrade ==
  ASSUME TradeContext, NEW w \in Workers, task[w].pc \in ReleaseSteps
  PROVE  LET t == task[w]
         IN  /\ t \in TaskType /\ t.job = "checkout" /\ t.pc = "rel_seats"
             /\ t.order \in Orders /\ Owns(w, t.order) /\ t.qty = 0
             /\ t.pend \subseteq t.held /\ t.held \subseteq Wanted[t.order]
             /\ ~Bought(t.order) /\ status[t.order] \notin Open /\ Has(t) = t.pend
<1>1. Usual(task[w]) /\ task[w] \in TaskType /\ task[w].pc # "idle"
  BY TradeFacts DEF ReleaseSteps
<1>2. task[w].job = "checkout" /\ task[w].pc = "rel_seats"
  BY <1>1 DEF Usual, PaidSteps, ReleaseSteps
<1>3. task[w].order \in Orders
  BY <1>1, TradeFacts
<1>4. task[w].pc \notin SeatSteps
  BY <1>2 DEF SeatSteps, CheckoutSteps
<1>. QED BY <1>1, <1>2, <1>3, <1>4 DEF Usual, Owns, Has

(* What is handed back belongs to nobody else, and belongs to nobody then. *)
LEMMA HandedBack ==
  ASSUME TradeContext, NEW w \in Workers, NEW u, Become(w, u), task[w].pc \in ReleaseSteps,
         NEW l \in task[w].pend, l \notin Has(u), UNCHANGED <<status, labels>>
  PROVE  \A p \in Orders : ~Mine(p, l)'
<1>. PICK t : t = task[w]
  OBVIOUS
<1>1. /\ t.job = "checkout" /\ t.order \in Orders /\ Owns(w, t.order)
      /\ status[t.order] \notin Open /\ Has(t) = t.pend /\ t \in TaskType
  BY ReleaserTrade
<1>2. l \in Seats
  BY <1>1 DEF TaskType
<1>3. Exclusive /\ CheckoutInv /\ task \in [Workers -> TaskType]
  BY TradeFacts DEF TradeContext, TradeInv, TypeOK, TaskTypes
<1>4. \A p \in Orders : Mine(p, l) => p = t.order
  BY <1>1, <1>2, <1>3 DEF Exclusive, Mine
<1>5. SUFFICES ASSUME NEW p \in Orders, Mine(p, l)' PROVE FALSE
  OBVIOUS
<1>6. task'[w] = u /\ \A v \in Workers : v # w => task'[v] = task[v]
  BY <1>3 DEF Become
<1>7. CASE status'[p] \in Open /\ l \in labels'[p]
  <2>1. Mine(p, l) /\ status[p] \in Open
    BY <1>7 DEF Mine
  <2>. QED BY <1>1, <1>4, <2>1
<1>8. ASSUME NEW v \in Workers, Owns(v, p)', l \in Has(task[v])' PROVE FALSE
  <2>1. CASE v = w
    BY <1>6, <1>8, <2>1 DEF Has
  <2>2. CASE v # w
    <3>1. Owns(v, p) /\ l \in Has(task[v])
      BY <1>6, <1>8, <2>2 DEF Owns, Has
    <3>2. p = t.order
      BY <1>4, <3>1 DEF Mine
    <3>. QED BY <1>1, <1>3, <2>2, <3>1, <3>2 DEF CheckoutInv, Owns
  <2>. QED BY <2>1, <2>2
<1>. QED BY <1>5, <1>7, <1>8 DEF Mine

(* A release that fails is tried again: it can fail only when there is one *)
(* label, which is still out of sale.                                      *)
LEMMA RetryTrade ==
  ASSUME SagaAssumption, NEW t \in TaskType, t.job = "checkout", t.qty = 0,
         t.held \subseteq Wanted[t.order], ~Bought(t.order)', status'[t.order] \notin Open
  PROVE  /\ Usual(RetryRelease(t))'
         /\ RetryRelease(t).job = "checkout" =>
              RetryRelease(t).order = t.order /\ Has(RetryRelease(t)) \subseteq t.held
<1>1. CASE t.tries > 0
  <2>. PICK x : x = [t EXCEPT !.tries = @ - 1]
    OBVIOUS
  <2>1. /\ x \in TaskType /\ x.job = "checkout" /\ x.qty = 0 /\ x.order = t.order
        /\ x.held = t.held
    BY <1>1 DEF TaskType
  <2>2. RetryRelease(t) = BeginRelease(x)
    BY <1>1 DEF RetryRelease
  <2>3. /\ x.held \subseteq Wanted[x.order] /\ ~Bought(x.order)' /\ status'[x.order] \notin Open
    BY <2>1
  <2>4. /\ Usual(BeginRelease(x))'
        /\ BeginRelease(x).job = "checkout" =>
             BeginRelease(x).order = x.order /\ Has(BeginRelease(x)) \subseteq x.held
    BY <2>1, <2>3, BeginTrade
  <2>5. Usual(RetryRelease(t))'
    BY <2>2, <2>4
  <2>. QED BY <2>1, <2>2, <2>4, <2>5
<1>2. CASE ~(t.tries > 0)
  <2>1. RetryRelease(t) = AfterRelease(t, FALSE)
    BY <1>2 DEF RetryRelease
  <2>2. RetryRelease(t) = Blank
    BY <2>1, AfterReleaseShape DEF Compensates
  <2>. QED BY <2>2, BlankTrade
<1>. QED BY <1>1, <1>2

LEMMA ReleaseSeatTrade ==
  ASSUME TradeContext, NEW w \in Workers, NEW l \in Seats, ReleaseSeat(w, l)
  PROVE  TradeInv'
<1>. PICK t : t = task[w]
  OBVIOUS
<1>. PICK next : next = [t EXCEPT !.pend = t.pend \ {l}]
  OBVIOUS
<1>1. /\ t.pc = "rel_seats" /\ t.pc \in ReleaseSteps /\ l \in t.pend
      /\ UNCHANGED <<status, labels, pay, paidEvents, aged>>
  BY DEF ReleaseSeat, At, ReleaseSteps, orderVars, payVars, clientVars
<1>2. /\ t \in TaskType /\ t.job = "checkout" /\ t.order \in Orders /\ Owns(w, t.order)
      /\ t.qty = 0 /\ t.pend \subseteq t.held /\ t.held \subseteq Wanted[t.order]
      /\ ~Bought(t.order) /\ status[t.order] \notin Open /\ Has(t) = t.pend
  BY <1>1, ReleaserTrade
<1>3. /\ SagaAssumption /\ TradeInv /\ TypeOK /\ item \in ItemType(Seats) /\ item.seats = Seats
  BY TradeFacts DEF TradeContext
<1>4. CanReturnSeat(item, l)
  <2>1. Mine(t.order, l)
    BY <1>1, <1>2 DEF Mine
  <2>2. l \notin item.avail
    BY <1>2, <1>3, <2>1 DEF TradeInv, Exclusive
  <2>. QED BY <1>3, <2>2 DEF CanReturnSeat
<1>5. ~Bought(t.order)' /\ status'[t.order] \notin Open
  BY <1>1, <1>2 DEF Bought
<1>6. CASE /\ item' = ReturnSeat(item, l) /\ UNCHANGED late
           /\ Become(w, next) \/ Become(w, Blank)
  <2>1. item'.avail = item.avail \cup {l}
    BY <1>3, <1>6 DEF ReturnSeat, ItemType
  <2>2. /\ next.pc = "rel_seats" /\ next.job = "checkout" /\ next.order = t.order
        /\ next.held = t.held /\ next.pend = t.pend \ {l} /\ next.qty = 0
    BY <1>1, <1>2 DEF TaskType
  <2>3. Has(next) = t.pend \ {l} /\ Has(Blank) = {}
    BY <2>2 DEF Has, SeatSteps, CheckoutSteps, Blank
  <2>4. Usual(next)'
    BY <1>2, <1>5, <2>2 DEF Usual
  <2>5. ASSUME NEW u \in {next, Blank}, Become(w, u) PROVE TradeInv'
    <3>1. Usual(u)'
      BY <2>4, <2>5, BlankTrade DEF Usual, Bought
    <3>2. l \notin Has(u) /\ l \in task[w].pend /\ task[w].pc \in ReleaseSteps
      BY <1>1, <2>3, <2>5
    <3>3. \A p \in Orders : ~Mine(p, l)'
      BY <1>1, <2>5, <3>2, HandedBack
    <3>4. \A m \in Seats : u.job = "checkout" /\ m \in Has(u) =>
            Owns(w, u.order) /\ (m \in Has(task[w]) \/ (m \in item.avail /\ m \notin item'.avail))
      <4>1. CASE u = next
        BY <1>2, <2>2, <2>3, <4>1
      <4>2. CASE u = Blank
        BY <2>3, <4>2
      <4>. QED BY <2>5, <4>1, <4>2
    <3>5. \A m \in Seats : m \in item'.avail /\ m \notin item.avail =>
            \A p \in Orders : ~Mine(p, m)'
      BY <2>1, <3>3
    <3>. QED BY <1>1, <1>6, <2>5, <3>1, <3>4, <3>5, TradeQuiet
  <2>. QED BY <1>6, <2>5
<1>7. CASE /\ Spend("error") /\ Become(w, RetryRelease(t)) /\ UNCHANGED item
           /\ late' = late \cup {SeatRequest("release_seat", w, m) : m \in t.pend \ {l}}
  <2>. PICK u : u = RetryRelease(t)
    OBVIOUS
  <2>1. Limit["error"] # 0
    BY <1>3, <1>7, NeverSpends DEF Kinds, Faults
  <2>2. t.held \subseteq {l}
    BY <1>1, <1>2, <2>1 DEF TradeContext, Uncontested
  <2>3. UNCHANGED late
    BY <1>2, <1>7, <2>2
  <2>4. /\ Usual(u)'
        /\ u.job = "checkout" => u.order = t.order /\ Has(u) \subseteq t.held
    BY <1>2, <1>3, <1>5, RetryTrade
  <2>5. \A m \in Seats : u.job = "checkout" /\ m \in Has(u) =>
          Owns(w, u.order) /\ (m \in Has(task[w]) \/ (m \in item.avail /\ m \notin item'.avail))
    BY <1>1, <1>2, <2>2, <2>4
  <2>. QED BY <1>1, <1>7, <2>3, <2>4, <2>5, TradeQuiet
<1>8. ~Spend("timeout")
  BY OnlyErrors DEF TradeContext
<1>9. AfterRelease(t, TRUE) = Blank
  BY <1>2, AfterReleaseShape DEF Compensates
<1>10. \/ item' = ReturnSeat(item, l) /\ UNCHANGED late /\ (Become(w, next) \/ Become(w, Blank))
       \/ /\ Spend("error") /\ Become(w, RetryRelease(t)) /\ UNCHANGED item
          /\ late' = late \cup {SeatRequest("release_seat", w, m) : m \in t.pend \ {l}}
  <2>1. ~(t.qty > 0)
    BY <1>2
  <2>. QED BY <1>4, <1>8, <1>9, <2>1 DEF ReleaseSeat
<1>. QED BY <1>6, <1>7, <1>10

LEMMA NoCountReturned ==
  ASSUME TradeContext, NEW w \in Workers
  PROVE  ~ReleaseCount(w)
<1>1. task[w].pc \in ReleaseSteps => task[w].pc = "rel_seats"
  BY ReleaserTrade
<1>. QED BY <1>1 DEF ReleaseCount, At, ReleaseSteps

(* The other handlers there are fulfil orders that have a payment, and     *)
(* such an order stays open.                                               *)
LEMMA PaidTrade ==
  ASSUME TradeContext, NEW w \in Workers, task[w].pc \in PaidSteps
  PROVE  LET t == task[w]
         IN  /\ t \in TaskType /\ t.job = "paid" /\ t.order \in Orders /\ Usual(t)
             /\ Bought(t.order) /\ status[t.order] \in Open
<1>1. Usual(task[w]) /\ InPlace(task[w]) /\ task[w].pc # "idle"
  BY TradeFacts DEF PaidSteps
<1>2. task[w].job = "paid"
  BY <1>1 DEF Usual, InPlace, PaidSteps, CheckoutSteps, ReleaseSteps
<1>. QED BY <1>1, <1>2, TradeFacts DEF Usual, TradeContext, TradeInv

LEMMA PaidQuiet ==
  ASSUME TradeContext, NEW w \in Workers, NEW u, Become(w, u), Usual(u)', u.job # "checkout",
         UNCHANGED <<status, labels, pay, paidEvents, late, aged, item>>
  PROVE  TradeInv'
  BY TradeQuiet

LEMMA PaidWrite ==
  ASSUME TradeContext, NEW w \in Workers, NEW u, Become(w, u), Usual(u)', u.job # "checkout",
         task[w].pc \in PaidSteps, NEW s \in Open, SetStatus(task[w].order, s),
         UNCHANGED <<labels, pay, paidEvents, late, aged, item>>
  PROVE  TradeInv'
<1>. PICK o : o = task[w].order
  OBVIOUS
<1>1. o \in Orders /\ Bought(o) /\ status[o] \in Open /\ task[w].job = "paid"
  BY PaidTrade
<1>2. TradeInv /\ TypeOK /\ status \in [Orders -> Status]
  BY TradeFacts DEF TradeContext
<1>3. status'[o] \in Open /\ \A p \in Orders : p # o => status'[p] = status[p]
  BY <1>1, <1>2 DEF SetStatus
<1>4. \A p : Bought(p)' <=> Bought(p)
  BY DEF Bought
<1>5. \A p \in Orders, l \in Seats : status'[p] \in Open /\ l \in labels'[p] => Mine(p, l)
  BY <1>1, <1>3 DEF Mine
<1>6. \A p \in Orders : /\ ~Owns(w, p)
                        /\ \/ status'[p] = status[p]
                           \/ Bought(p) /\ status'[p] \in Open
  BY <1>1, <1>3 DEF Owns
<1>7. /\ \A e \in paidEvents' : e \in paidEvents /\ e[1] \in Orders
      /\ late' = {} /\ aged' = {}
      /\ \A l \in Seats : l \in item'.avail /\ l \notin item.avail =>
           \A p \in Orders : ~Mine(p, l)'
  BY <1>2 DEF TradeInv, TypeOK, PayTypes
<1>. QED BY <1>4, <1>5, <1>6, <1>7, TradeStep

LEMMA AdvanceUsual ==
  ASSUME NEW t \in TaskType, t.job = "paid", Bought(t.order)', NEW s
  PROVE  Usual(Advance(t, s))' /\ Advance(t, s).job # "checkout"
<1>. PICK x : x = [t EXCEPT !.pc = "tr_read", !.target = "Paid"]
  OBVIOUS
<1>. PICK y : y = [t EXCEPT !.pc = "tr_read", !.target = "Confirmed"]
  OBVIOUS
<1>. PICK z : z = [t EXCEPT !.pc = "it_read"]
  OBVIOUS
<1>1. /\ x.pc = "tr_read" /\ x.target = "Paid" /\ x.job = "paid" /\ x.order = t.order
      /\ y.pc = "tr_read" /\ y.target = "Confirmed" /\ y.job = "paid" /\ y.order = t.order
      /\ z.pc = "it_read" /\ z.job = "paid" /\ z.order = t.order
  BY DEF TaskType
<1>2. Advance(t, s) \in {x, y, z, Blank}
  BY DEF Advance
<1>3. Usual(x)' /\ Usual(y)' /\ Usual(z)'
  BY <1>1 DEF Usual, PaidSteps
<1>4. CASE Advance(t, s) = x
  BY <1>1, <1>3, <1>4
<1>5. CASE Advance(t, s) = y
  BY <1>1, <1>3, <1>5
<1>6. CASE Advance(t, s) = z
  BY <1>1, <1>3, <1>6
<1>7. CASE Advance(t, s) = Blank
  BY <1>7, BlankTrade
<1>. QED BY <1>2, <1>4, <1>5, <1>6, <1>7

LEMMA PaidReadTrade ==
  ASSUME TradeContext, NEW w \in Workers, PaidRead(w)
  PROVE  TradeInv'
<1>. PICK t : t = task[w]
  OBVIOUS
<1>. PICK u : u = [t EXCEPT !.pc = "pp_verify", !.snap = status[t.order]]
  OBVIOUS
<1>1. /\ t.pc \in PaidSteps
      /\ UNCHANGED <<status, labels, pay, paidEvents, late, aged, item>>
  BY DEF PaidRead, At, PaidSteps, orderVars, payVars, clientVars
<1>2. t \in TaskType /\ t.job = "paid" /\ Bought(t.order) /\ status[t.order] \in Open
  BY <1>1, PaidTrade
<1>3. /\ u.pc = "pp_verify" /\ u.job = "paid" /\ u.order = t.order /\ u.snap \in Open
  BY <1>2 DEF TaskType, Open, Status
<1>4. Usual(u)' /\ u.job # "checkout"
  <2>1. Bought(u.order)'
    BY <1>1, <1>2, <1>3 DEF Bought
  <2>. QED BY <1>3, <2>1 DEF Usual, PaidSteps
<1>5. Become(w, u) \/ Become(w, Blank)
  BY DEF PaidRead, Finish
<1>. QED BY <1>1, <1>4, <1>5, BlankTrade, PaidQuiet

LEMMA PaidStageTrade ==
  ASSUME TradeContext, NEW w \in Workers, PaidVerify(w) \/ PaidNext(w)
  PROVE  TradeInv'
<1>. PICK t : t = task[w]
  OBVIOUS
<1>1. /\ t.pc \in {"pp_verify", "pp_next"} /\ t.pc \in PaidSteps
      /\ PaidVerify(w) => t.pc = "pp_verify"
      /\ UNCHANGED <<status, labels, pay, paidEvents, late, aged, item>>
  BY DEF PaidVerify, PaidNext, At, PaidSteps, orderVars, payVars, clientVars
<1>2. t \in TaskType /\ t.job = "paid" /\ Bought(t.order) /\ Usual(t)
  BY <1>1, PaidTrade
<1>3. Become(w, Blank) \/ \E s : Become(w, Advance(t, s))
  <2>1. CASE PaidVerify(w)
    <3>1. t.snap \notin Closed
      BY <1>1, <1>2, <2>1 DEF Usual, Open, Closed
    <3>. QED BY <2>1, <3>1 DEF PaidVerify, Finish
  <2>2. CASE PaidNext(w)
    BY <2>2 DEF PaidNext
  <2>. QED BY <2>1, <2>2
<1>4. \A s : Usual(Advance(t, s))' /\ Advance(t, s).job # "checkout"
  <2>1. Bought(t.order)'
    BY <1>1, <1>2 DEF Bought
  <2>. QED BY <1>2, <2>1, AdvanceUsual
<1>5. CASE Become(w, Blank)
  BY <1>1, <1>5, BlankTrade, PaidQuiet
<1>6. ASSUME NEW s, Become(w, Advance(t, s)) PROVE TradeInv'
  BY <1>1, <1>4, <1>6, PaidQuiet
<1>. QED BY <1>3, <1>5, <1>6

LEMMA TransitionTrade ==
  ASSUME TradeContext, NEW w \in Workers, TransitionRead(w) \/ TransitionWrite(w)
  PROVE  TradeInv'
<1>. PICK t : t = task[w]
  OBVIOUS
<1>. PICK x : x = [t EXCEPT !.pc = "tr_write", !.snap = status[t.order]]
  OBVIOUS
<1>. PICK y : y = [t EXCEPT !.pc = "pp_next"]
  OBVIOUS
<1>1. /\ t.pc \in {"tr_read", "tr_write"} /\ t.pc \in PaidSteps
      /\ UNCHANGED <<labels, pay, paidEvents, late, aged, item>>
      /\ TransitionRead(w) => UNCHANGED status
  BY DEF TransitionRead, TransitionWrite, At, PaidSteps, orderVars, payVars, clientVars
<1>2. t \in TaskType /\ t.job = "paid" /\ Bought(t.order) /\ Usual(t)
  BY <1>1, PaidTrade
<1>3. t.target \in {"Paid", "Confirmed"} /\ t.target \in Open
  BY <1>1, <1>2 DEF Usual, Open
<1>4. /\ x.pc = "tr_write" /\ x.job = "paid" /\ x.order = t.order /\ x.target = t.target
      /\ y.pc = "pp_next" /\ y.job = "paid" /\ y.order = t.order
  BY <1>2 DEF TaskType
<1>5. Usual(x)' /\ Usual(y)' /\ x.job # "checkout" /\ y.job # "checkout"
  <2>1. Bought(t.order)'
    BY <1>1, <1>2 DEF Bought
  <2>2. Usual(x)'
    BY <1>3, <1>4, <2>1 DEF Usual, PaidSteps
  <2>3. Usual(y)'
    BY <1>4, <2>1 DEF Usual, PaidSteps
  <2>. QED BY <1>4, <2>2, <2>3
<1>6. CASE TransitionRead(w)
  <2>1. Become(w, x) \/ Become(w, Blank)
    BY <1>6 DEF TransitionRead, Finish
  <2>. QED BY <1>1, <1>5, <1>6, <2>1, BlankTrade, PaidQuiet
<1>7. CASE TransitionWrite(w)
  <2>1. \/ SetStatus(task[w].order, t.target) /\ Become(w, y)
        \/ UNCHANGED status /\ Become(w, Blank)
    BY <1>2, <1>7 DEF TransitionWrite, Goto, Finish
  <2>2. CASE SetStatus(task[w].order, t.target) /\ Become(w, y)
    BY <1>1, <1>3, <1>5, <2>2, PaidWrite
  <2>3. CASE UNCHANGED status /\ Become(w, Blank)
    BY <1>1, <2>3, BlankTrade, PaidQuiet
  <2>. QED BY <2>1, <2>2, <2>3
<1>. QED BY <1>6, <1>7

LEMMA IssueTrade ==
  ASSUME TradeContext, NEW w \in Workers, IssueRead(w) \/ IssueWrite(w)
  PROVE  TradeInv'
<1>. PICK t : t = task[w]
  OBVIOUS
<1>. PICK u : u = [t EXCEPT !.pc = "it_write"]
  OBVIOUS
<1>1. /\ t.pc \in PaidSteps
      /\ UNCHANGED <<labels, pay, paidEvents, late, aged, item>>
      /\ \/ IssueRead(w) /\ UNCHANGED status /\ (Become(w, u) \/ Become(w, Blank))
         \/ SetStatus(task[w].order, "TicketIssued") /\ Become(w, Blank)
  BY DEF IssueRead, IssueWrite, At, PaidSteps, orderVars, payVars, clientVars, Goto, Finish
<1>2. t \in TaskType /\ t.job = "paid" /\ Bought(t.order)
  BY <1>1, PaidTrade
<1>3. u.pc = "it_write" /\ u.job = "paid" /\ u.order = t.order
  BY <1>2 DEF TaskType
<1>4. Usual(u)' /\ u.job # "checkout"
  <2>1. Bought(u.order)'
    BY <1>1, <1>2, <1>3 DEF Bought
  <2>. QED BY <1>3, <2>1 DEF Usual, PaidSteps
<1>5. CASE UNCHANGED status /\ (Become(w, u) \/ Become(w, Blank))
  BY <1>1, <1>4, <1>5, BlankTrade, PaidQuiet
<1>6. CASE SetStatus(task[w].order, "TicketIssued") /\ Become(w, Blank)
  <2>1. "TicketIssued" \in Open
    BY DEF Open
  <2>. QED BY <1>1, <1>6, <2>1, BlankTrade, PaidWrite
<1>. QED BY <1>1, <1>5, <1>6

(* Nobody cancels, refunds or checks for expiry.                           *)
LEMMA OtherHandlers ==
  ASSUME TradeContext, NEW w \in Workers
  PROVE  task[w].pc \in {"idle"} \cup CheckoutSteps \cup ReleaseSteps \cup PaidSteps
<1>1. Usual(task[w]) /\ InPlace(task[w]) /\ task[w] \in TaskType
  BY TradeFacts
<1>. QED BY <1>1 DEF Usual, InPlace

LEMMA NoOtherStep ==
  ASSUME TradeContext, NEW w \in Workers
  PROVE  /\ ~CancelRead(w) /\ ~CancelClaim(w) /\ ~CancelVoucher(w) /\ ~CancelCommit(w)
         /\ ~ListOpenPayments(w) /\ \A s \in Slots : ~CancelPayment(w, s)
         /\ ~RefundRead(w) /\ ~RefundClaim(w) /\ ~ListPaidPayments(w) /\ ~RefundCommit(w)
         /\ \A s \in Slots : ~MarkRefunded(w, s)
         /\ ~ExpireCheckRead(w) /\ ~ExpireCheckVerify(w)
<1>1. task[w].pc \notin {"cw_read", "cw_claim", "cw_voucher", "cw_commit", "list_open",
                         "cancel_open", "rf_read", "rf_claim", "list_paid", "refund_paid",
                         "rf_commit", "ec_read", "ec_verify"}
  BY OtherHandlers DEF CheckoutSteps, ReleaseSteps, PaidSteps
<1>. QED BY <1>1 DEF CancelRead, CancelClaim, CancelVoucher, CancelCommit, ListOpenPayments,
       CancelPayment, RefundRead, RefundClaim, ListPaidPayments, RefundCommit, MarkRefunded,
       ExpireCheckRead, ExpireCheckVerify, At

(* A new checkout has nothing, and its order has no payment.               *)
LEMMA SubmitTrade ==
  ASSUME TradeContext, NEW w \in Workers, NEW o \in Orders, SubmitCheckout(w, o)
  PROVE  TradeInv'
<1>. PICK u : u = NewTask("co_lookup", o)
  OBVIOUS
<1>1. /\ Become(w, u) /\ (o \in submitted => Spend("resubmit"))
      /\ UNCHANGED <<status, labels, pay, paidEvents, late, aged, item>>
  BY DEF SubmitCheckout, orderVars, payVars
<1>2. o \notin submitted /\ CheckoutInv /\ TradeInv
  BY <1>1, OnlyErrors, TradeFacts DEF TradeContext
<1>3. ~Bought(o)
  BY <1>2 DEF CheckoutInv, TradeInv, Open
<1>4. u.pc = "co_lookup" /\ u.job = "checkout" /\ u.order = o /\ u.held = {} /\ u.qty = 0
  BY DEF NewTask, Blank, JobOf
<1>5. Usual(u)' /\ Has(u) = {}
  <2>1. ~Bought(u.order)'
    BY <1>1, <1>3, <1>4 DEF Bought
  <2>2. Usual(u)'
    BY <1>4, <2>1 DEF Usual
  <2>. QED BY <1>4, <2>2 DEF Has, SeatSteps
<1>. QED BY <1>1, <1>5, TradeQuiet

LEMMA DeliverTrade ==
  ASSUME TradeContext, NEW w \in Workers, NEW e \in paidEvents, DeliverPaidEvent(w, e)
  PROVE  TradeInv'
<1>. PICK u : u = [NewTask("pp_read", e[1]) EXCEPT !.ref = e[2]]
  OBVIOUS
<1>1. /\ Become(w, u) /\ \A f \in paidEvents' : f \in paidEvents
      /\ UNCHANGED <<status, labels, pay, late, aged, item>>
  BY DEF DeliverPaidEvent, orderVars, clientVars
<1>2. u.pc = "pp_read" /\ u.job = "paid" /\ u.order = e[1]
  BY DEF NewTask, Blank, JobOf
<1>3. Usual(u)' /\ u.job # "checkout"
  <2>1. Bought(u.order)'
    BY <1>1, <1>2 DEF TradeContext, TradeInv, Bought
  <2>. QED BY <1>2, <2>1 DEF Usual, PaidSteps
<1>. QED BY <1>1, <1>3, TradeQuiet

(* The handlers and the orders stay as they are.                           *)
LEMMA TradeRests ==
  ASSUME TradeContext, UNCHANGED <<task, status, labels, item, late, aged>>,
         \A o \in Orders : Bought(o)' <=> Bought(o),
         \A e \in paidEvents' : Bought(e[1])'
  PROVE  TradeInv'
<1>1. ASSUME NEW w \in Workers PROVE Usual(task[w])'
  <2>. PICK t : t = task[w]
    OBVIOUS
  <2>1. Usual(t) /\ InPlace(t) /\ (t.pc # "idle" => t.order \in Orders)
    BY TradeFacts
  <2>2. t.job = "none" \/ t.order \in Orders
    BY <2>1 DEF Usual, InPlace, PaidSteps, CheckoutSteps, ReleaseSteps
  <2>3. Usual(t)'
    BY <2>1, <2>2 DEF Usual
  <2>4. task'[w] = t
    OBVIOUS
  <2>. QED BY <2>3, <2>4 DEF Usual, Bought
<1>2. TradeInv /\ Exclusive'
  <2>1. \A o, l : Mine(o, l)' <=> Mine(o, l)
    BY DEF Mine, Owns, Has
  <2>. QED BY <2>1 DEF TradeContext, TradeInv, Exclusive
<1>. QED BY <1>1, <1>2 DEF TradeInv

LEMMA SettleTrade ==
  ASSUME TradeContext, NEW o \in Orders, NEW s \in Slots, Settle(o, s)
  PROVE  TradeInv'
<1>1. /\ UNCHANGED <<task, status, labels, item, late, aged>>
      /\ pay[o][s] # "Absent" /\ pay' = [pay EXCEPT ![o][s] = "Paid"]
      /\ paidEvents' = paidEvents \cup {<<o, s>>}
  BY DEF Settle, SetPay, orderVars, clientVars
<1>2. TradeInv /\ TypeOK /\ pay \in [Orders -> [Slots -> PayStatus]]
  <2>1. TradeInv /\ TypeOK
    BY DEF TradeContext, SeatContext, StockInv
  <2>. QED BY <2>1 DEF TypeOK, PayTypes
<1>3. \A p \in Orders : Bought(p)' <=> Bought(p)
  <2>1. \A p \in Orders : p # o => pay'[p] = pay[p]
    BY <1>1, <1>2
  <2>2. Bought(o) /\ Bought(o)'
    BY <1>1, <1>2 DEF Bought
  <2>. QED BY <2>1, <2>2 DEF Bought
<1>4. \A e \in paidEvents' : Bought(e[1])'
  <2>1. \A e \in paidEvents : e[1] \in Orders /\ Bought(e[1])
    BY <1>2 DEF TradeInv, TypeOK, PayTypes
  <2>2. Bought(<<o, s>>[1])
    BY <1>1 DEF Bought
  <2>. QED BY <1>1, <1>3, <2>1, <2>2
<1>. QED BY <1>1, <1>3, <1>4, TradeRests

LEMMA InitTrade == ASSUME Init PROVE TradeInv
<1>1. /\ aged = {} /\ late = {} /\ paidEvents = {} /\ item.avail = Seats
      /\ \A o \in Orders : status[o] = "None" /\ labels[o] = {} /\ ~Bought(o)
      /\ \A w \in Workers : task[w] = Blank
  BY DEF Init, Bought
<1>2. Blank.pc = "idle" /\ Blank.job = "none"
  BY DEF Blank
<1>3. \A o \in Orders, l \in Seats : ~Mine(o, l)
  BY <1>1, <1>2 DEF Mine, Owns
<1>. QED BY <1>1, <1>2, <1>3 DEF TradeInv, Usual, Exclusive

LEMMA NextTrade ==
  ASSUME SagaAssumption, Calm, Uncontested, ReleaseInv, StockInv, SeatInv, TradeInv,
         [Next]_vars
  PROVE  TradeInv'
<1>1. SeatContext /\ TradeContext
  BY DEF SeatContext, TradeContext
<1>2. ASSUME NEW w \in Workers, WorkerStep(w) PROVE TradeInv'
  <2>1. \/ CheckoutLookup(w) \/ (\E l \in Seats : ReserveSeat(w, l)) \/ ReserveCount(w)
        \/ CreateOrder(w) \/ CreatePayment(w)
        \/ RollbackRead(w) \/ RollbackCancel(w) \/ RollbackVoucher(w)
        \/ (\E l \in Seats : ReleaseSeat(w, l))
        \/ PaidRead(w) \/ (PaidVerify(w) \/ PaidNext(w))
        \/ (TransitionRead(w) \/ TransitionWrite(w)) \/ (IssueRead(w) \/ IssueWrite(w))
    BY <1>1, <1>2, NoOtherStep, NoCountReturned, Zenon DEF WorkerStep
  <2>. QED BY <1>1, <2>1, LookupTrade, ReserveSeatTrade, ReserveCountTrade, CreateOrderTrade,
              CreatePaymentTrade, RollbackReadTrade, RollbackCancelTrade,
              RollbackVoucherTrade, ReleaseSeatTrade, PaidReadTrade, PaidStageTrade,
              TransitionTrade, IssueTrade
<1>3. CASE \/ \E w \in Workers : Deliver(w)
           \/ \E w \in Workers, o \in Orders : SubmitCheckout(w, o)
  <2>1. aged = {}
    BY DEF TradeInv
  <2>2. \A w \in Workers, o \in Orders : ~DeliverExpireCheck(w, o)
    BY <2>1 DEF DeliverExpireCheck
  <2>. QED BY <1>1, <1>3, <2>2, DeliverTrade, SubmitTrade DEF Deliver
<1>4. CASE (\E o \in Orders, s \in Slots : Settle(o, s)) \/ UNCHANGED vars
  <2>1. CASE UNCHANGED vars
    <3>1. UNCHANGED <<task, status, labels, item, late, aged, pay, paidEvents>>
      BY <2>1 DEF vars, orderVars, payVars, clientVars
    <3>2. \A o : Bought(o)' <=> Bought(o)
      BY <3>1 DEF Bought
    <3>3. \A e \in paidEvents' : Bought(e[1])'
      BY <3>1, <3>2 DEF TradeInv
    <3>. QED BY <1>1, <3>1, <3>2, <3>3, TradeRests
  <2>. QED BY <1>1, <1>4, <2>1, SettleTrade
<1>5. /\ \A w \in Workers, o \in Orders : ~CronPick(w, o)
      /\ \A w \in Workers, o \in Orders, kind \in Commands : ~SendRequest(w, o, kind)
      /\ \A o \in Orders : ~RemoveOrder(o) /\ ~Age(o)
      /\ \A r \in late : ~RunLate(r)
      /\ ~Crash
  <2>1. aged = {} /\ late = {}
    BY DEF TradeInv
  <2>2. ~Spend("age") /\ ~Spend("command")
    <3>1. SagaAssumption /\ TypeOK /\ "age" \in Kinds /\ "command" \in Kinds
      BY DEF StockInv, Kinds
    <3>. QED BY <3>1, NeverSpends DEF Uncontested
  <2>3. ~Spend("remove") /\ ~Spend("crash")
    BY <1>1, OnlyErrors
  <2>. QED BY <2>1, <2>2, <2>3 DEF CronPick, InCronBatch, Overdue, SendRequest, RemoveOrder, Age,
                                  Crash
<1>. QED BY <1>2, <1>3, <1>4, <1>5 DEF Next, Rest

(* No seat is sold twice: two open orders share none. *)
SoldOnce ==
  \A o, p \in Orders :
    o # p /\ status[o] \in Open /\ status[p] \in Open => labels[o] \cap labels[p] = {}

(* The seats of an order that waits for payment, is paid or is ticketed    *)
(* are not for sale, and no other such order has them: through any         *)
(* checkouts side by side that compete for them, pay late, fail and are    *)
(* rolled back.                                                            *)
THEOREM LiveOrderHoldsItsSeatsHolds ==
  ASSUME Calm, Uncontested
  PROVE  Spec => [](LiveOrderHoldsItsSeats /\ SoldOnce)
<1>1. Init => StockInv /\ ReleaseInv /\ SeatInv /\ TradeInv
  BY SagaAssumption, InitStock, InitRelease, InitSeat, InitTrade
<1>2. StockInv /\ [Next]_vars => StockInv'
  BY SagaAssumption, NextStock
<1>3. ReleaseInv /\ [Next]_vars => ReleaseInv'
  BY SagaAssumption, NextRelease
<1>4. StockInv /\ ReleaseInv /\ SeatInv /\ [Next]_vars => SeatInv'
  BY SagaAssumption, Calm, NextSeat
<1>5. StockInv /\ ReleaseInv /\ SeatInv /\ TradeInv /\ [Next]_vars => TradeInv'
  BY SagaAssumption, Calm, Uncontested, NextTrade
<1>6. StockInv /\ TradeInv => LiveOrderHoldsItsSeats /\ SoldOnce
  <2>1. SUFFICES ASSUME StockInv, TradeInv PROVE LiveOrderHoldsItsSeats /\ SoldOnce
    OBVIOUS
  <2>2. item.avail \subseteq Seats /\ labels \in [Orders -> SUBSET Seats]
    BY <2>1 DEF StockInv, TypeOK, ItemType, OrderTypes
  <2>3. \A o \in Orders, l \in Seats : status[o] \in Open /\ l \in labels[o] =>
          l \notin item.avail /\ \A p \in Orders : status[p] \in Open /\ l \in labels[p] => p = o
    BY <2>1 DEF TradeInv, Exclusive, Mine
  <2>4. LiveOrderHoldsItsSeats
    BY <2>2, <2>3 DEF LiveOrderHoldsItsSeats
  <2>5. SoldOnce
    BY <2>2, <2>3 DEF SoldOnce
  <2>. QED BY <2>4, <2>5
<1>. QED BY <1>1, <1>2, <1>3, <1>4, <1>5, <1>6, PTL DEF Spec
=============================================================================
