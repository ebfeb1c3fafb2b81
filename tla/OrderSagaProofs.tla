--------------------------- MODULE OrderSagaProofs ---------------------------
(***************************************************************************)
(* Theorems about the order saga, for any number of orders, seats, workers *)
(* and retries and for any budget of commands and failures.                *)
(*   1. Every variable keeps its type.                                     *)
(*   2. The two views of the item's stock agree.                           *)
(*   3. No ticket without a settlement.                                    *)
(*   4. No cancellation and no refund before everything the order held was *)
(*      handed back.                                                       *)
(*   5. The handlers implement the life of an order that OrderPromise      *)
(*      describes.                                                         *)
(***************************************************************************)
EXTENDS OrderSaga, TicketStockProofs

-----------------------------------------------------------------------------
(* Tasks stay tasks.                                                       *)

LEMMA BlankOK == ASSUME SagaAssumption PROVE TaskOK(Blank)
  BY DEF SagaAssumption, TaskOK, TaskType, Blank, Steps, Jobs, Status

LEMMA JobOfOK == ASSUME NEW e PROVE JobOf(e) \in Jobs
  BY DEF JobOf, Jobs

LEMMA NewTaskOK ==
  ASSUME SagaAssumption, NEW e \in Steps, NEW o \in Orders
  PROVE  TaskOK(NewTask(e, o)) /\ NewTask(e, o).order = o
<1>. DEFINE j == JobOf(e)
<1>1. j \in Jobs
  BY JobOfOK
<1>2. Blank \in TaskType /\ o # None
  BY BlankOK DEF TaskOK, SagaAssumption
<1>3. NewTask(e, o) = [Blank EXCEPT !.pc = e, !.entry = e, !.job = j, !.order = o]
  BY DEF NewTask
<1>. HIDE DEF j
<1>. QED BY <1>1, <1>2, <1>3 DEF TaskOK, TaskType

LEMMA RestartedOK ==
  ASSUME SagaAssumption, NEW t, TaskOK(t)
  PROVE  TaskOK(Restarted(t))
<1>1. CASE t.entry = "idle"
  BY <1>1, BlankOK DEF Restarted
<1>2. CASE t.entry # "idle"
  <2>1. t.order \in Orders /\ t.entry \in Steps /\ t.ref \in Slots \cup {None}
        /\ t.target \in Status
    BY <1>2 DEF TaskOK, TaskType
  <2>2. "None" \in Status
    BY DEF Status
  <2>. QED
    BY <1>2, <2>1, <2>2, NewTaskOK DEF Restarted, TaskOK, TaskType, NewTask, SagaAssumption
<1>. QED BY <1>1, <1>2

LEMMA AfterReleaseOK ==
  ASSUME SagaAssumption, NEW t, TaskOK(t), t.order \in Orders, NEW ok \in BOOLEAN
  PROVE  TaskOK(AfterRelease(t, ok))
<1>. DEFINE rest == [Blank EXCEPT !.entry = t.entry, !.job = t.job, !.order = t.order,
                                  !.ref = t.ref, !.snap = t.snap, !.ok = ok]
<1>1. Blank \in TaskType /\ TaskOK(Blank)
  BY BlankOK DEF TaskOK
<1>2. t \in TaskType
  BY DEF TaskOK
<1>3. rest \in TaskType /\ rest.order = t.order
  BY <1>1, <1>2 DEF TaskType
<1>4. AfterRelease(t, ok) =
        CASE t.job = "cancel"       -> [rest EXCEPT !.pc = "cw_voucher"]
          [] t.job = "refund" /\ ok -> [rest EXCEPT !.pc = "rf_commit"]
          [] OTHER                  -> Blank
  BY DEF AfterRelease
<1>5. t.order # None
  BY DEF SagaAssumption
<1>. HIDE DEF rest
<1>6. TaskOK([rest EXCEPT !.pc = "cw_voucher"]) /\ TaskOK([rest EXCEPT !.pc = "rf_commit"])
  BY <1>3, <1>5 DEF TaskOK, TaskType, Steps
<1>. QED BY <1>1, <1>4, <1>6

LEMMA BeginReleaseOK ==
  ASSUME SagaAssumption, NEW t, TaskOK(t), t.order \in Orders
  PROVE  TaskOK(BeginRelease(t))
<1>1. TaskOK(AfterRelease(t, TRUE))
  BY AfterReleaseOK
<1>2. /\ TaskOK([t EXCEPT !.pc = "rel_seats", !.pend = t.held])
      /\ TaskOK([t EXCEPT !.pc = "rel_count", !.pend = {}])
  BY DEF TaskOK, TaskType, Steps
<1>. QED BY <1>1, <1>2 DEF BeginRelease

LEMMA RetryReleaseOK ==
  ASSUME SagaAssumption, NEW t, TaskOK(t), t.order \in Orders
  PROVE  TaskOK(RetryRelease(t))
<1>1. CASE t.tries > 0
  <2>. DEFINE u == [t EXCEPT !.tries = @ - 1]
  <2>1. TaskOK(u) /\ u.order \in Orders
    BY <1>1 DEF TaskOK, TaskType
  <2>. QED BY <1>1, <2>1, BeginReleaseOK DEF RetryRelease
<1>2. CASE ~(t.tries > 0)
  BY <1>2, AfterReleaseOK DEF RetryRelease
<1>. QED BY <1>1, <1>2

LEMMA CountPartOK ==
  ASSUME SagaAssumption, labels \in [Orders -> SUBSET Seats], NEW o \in Orders
  PROVE  CountPart(o) \in Nat
<1>1. IsFiniteSet(Wanted[o]) /\ IsFiniteSet(labels[o])
  BY FS_Subset DEF SagaAssumption
<1>2. Cardinality(Wanted[o]) \in Nat /\ Cardinality(labels[o]) \in Nat
  BY <1>1, FS_CardinalityType
<1>3. Extra[o] \in Nat
  BY DEF SagaAssumption
<1>. QED BY <1>2, <1>3 DEF CountPart

LEMMA ReleaseOrderOK ==
  ASSUME SagaAssumption, labels \in [Orders -> SUBSET Seats],
         NEW t, TaskOK(t), t.order \in Orders
  PROVE  TaskOK(ReleaseOrder(t))
<1>. DEFINE n == CountPart(t.order)
            u == [t EXCEPT !.held = labels[t.order], !.qty = n, !.pays = {}]
<1>1. n \in Nat
  BY CountPartOK
<1>2. labels[t.order] \subseteq Seats
  OBVIOUS
<1>. HIDE DEF n
<1>3. TaskOK(u) /\ u.order \in Orders
  BY <1>1, <1>2 DEF TaskOK, TaskType
<1>4. ReleaseOrder(t) = BeginRelease(u)
  BY DEF ReleaseOrder, n
<1>. QED BY <1>3, <1>4, BeginReleaseOK

LEMMA AfterCancelOpenOK ==
  ASSUME SagaAssumption, labels \in [Orders -> SUBSET Seats],
         NEW t, TaskOK(t), t.order \in Orders
  PROVE  TaskOK(AfterCancelOpen(t))
<1>1. TaskOK([t EXCEPT !.pc = "list_paid", !.pays = {}])
  BY DEF TaskOK, TaskType, Steps, SagaAssumption
<1>. QED BY <1>1, ReleaseOrderOK DEF AfterCancelOpen

LEMMA AdvanceOK ==
  ASSUME SagaAssumption, NEW t, TaskOK(t), t.order \in Orders, NEW s
  PROVE  TaskOK(Advance(t, s))
<1>1. t \in TaskType /\ t.order # None
  BY DEF TaskOK, SagaAssumption
<1>2. "tr_read" \in Steps /\ "it_read" \in Steps /\ {"Paid", "Confirmed"} \subseteq Status
  BY DEF Steps, Status, Open
<1>3. TaskOK([t EXCEPT !.pc = "tr_read", !.target = "Paid"])
  BY <1>1, <1>2 DEF TaskOK, TaskType
<1>4. TaskOK([t EXCEPT !.pc = "tr_read", !.target = "Confirmed"])
  BY <1>1, <1>2 DEF TaskOK, TaskType
<1>5. TaskOK([t EXCEPT !.pc = "it_read"])
  BY <1>1, <1>2 DEF TaskOK, TaskType
<1>. QED BY <1>3, <1>4, <1>5, BlankOK DEF Advance

-----------------------------------------------------------------------------
(* What a step leaves alone keeps its type, and so does what it sets.      *)

LEMMA Frame ==
  ASSUME TypeOK
  PROVE  /\ UNCHANGED orderVars => OrderTypes'
         /\ UNCHANGED payVars => PayTypes'
         /\ UNCHANGED clientVars => ClientTypes'
         /\ UNCHANGED ghostVars => HistoryTypes'
         /\ UNCHANGED task => TaskTypes'
         /\ UNCHANGED item => item' \in ItemType(Seats)
         /\ UNCHANGED late => late' \subseteq LateType
         /\ UNCHANGED used => used' \in [Kinds -> Nat]
  BY DEF TypeOK, OrderTypes, PayTypes, ClientTypes, TaskTypes, HistoryTypes,
         orderVars, payVars, clientVars, ghostVars

LEMMA BecomeTypes ==
  ASSUME TypeOK, NEW w \in Workers, NEW t, TaskOK(t), Become(w, t)
  PROVE  TaskTypes'
<1>1. t \in TaskType
  BY DEF TaskOK
<1>2. task' \in [Workers -> TaskType]
  BY <1>1 DEF TypeOK, TaskTypes, Become
<1>3. ASSUME NEW v \in Workers PROVE TaskOK(task'[v])
  BY DEF TypeOK, TaskTypes, Become
<1>. QED BY <1>2, <1>3 DEF TaskTypes, TaskOK

LEMMA SpendTypes ==
  ASSUME TypeOK, NEW k \in Kinds, Spend(k)
  PROVE  used' \in [Kinds -> Nat]
  BY DEF TypeOK, Spend

LEMMA StatusTypes ==
  ASSUME TypeOK, NEW o \in Orders, NEW s \in Status, SetStatus(o, s),
         UNCHANGED <<labels, removed, vouchers>>
  PROVE  OrderTypes'
  BY DEF TypeOK, OrderTypes, SetStatus

LEMMA BusyOK ==
  ASSUME SagaAssumption, TypeOK, NEW w \in Workers, task[w].pc # "idle"
  PROVE  /\ task[w] \in TaskType /\ TaskOK(task[w])
         /\ task[w].order \in Orders /\ task[w].order # None
         /\ labels \in [Orders -> SUBSET Seats]
         /\ status[task[w].order] \in Status
         /\ \A pc \in Steps : TaskOK([task[w] EXCEPT !.pc = pc])
<1>1. task[w] \in TaskType /\ TaskOK(task[w])
  BY DEF TypeOK, TaskTypes
<1>2. task[w].order \in Orders /\ task[w].order # None
  BY <1>1 DEF TaskOK, TaskType
<1>3. labels \in [Orders -> SUBSET Seats] /\ status[task[w].order] \in Status
  BY <1>2 DEF TypeOK, OrderTypes
<1>4. ASSUME NEW pc \in Steps PROVE TaskOK([task[w] EXCEPT !.pc = pc])
  BY <1>1, <1>2 DEF TaskOK, TaskType
<1>. QED BY <1>1, <1>2, <1>3, <1>4

(* A step that changes one task, and spends at most one of its budgets.    *)
LEMMA OnlyTaskTypes ==
  ASSUME TypeOK, NEW w \in Workers, NEW t, TaskOK(t), Become(w, t),
         UNCHANGED used \/ \E k \in Kinds : Spend(k),
         UNCHANGED <<orderVars, item, payVars, clientVars, late, ghostVars>>
  PROVE  TypeOK'
<1>1. TaskTypes'
  BY BecomeTypes
<1>2. used' \in [Kinds -> Nat]
  BY SpendTypes DEF TypeOK
<1>. QED BY <1>1, <1>2, Frame DEF TypeOK

LEMMA GotoTypes ==
  ASSUME SagaAssumption, TypeOK, NEW w \in Workers, task[w].pc # "idle",
         \/ \E pc \in Steps : Goto(w, pc)
         \/ Finish(w)
  PROVE  TaskTypes'
<1>1. CASE Finish(w)
  BY <1>1, BlankOK, BecomeTypes DEF Finish
<1>2. ASSUME NEW pc \in Steps, Goto(w, pc)
      PROVE  TaskTypes'
  BY <1>2, BusyOK, BecomeTypes DEF Goto
<1>. QED BY <1>1, <1>2

LEMMA LateTypes ==
  ASSUME SagaAssumption, TypeOK, NEW w \in Workers, task[w].pc # "idle"
  PROVE  /\ \A l \in Seats : /\ SeatRequest("reserve_seat", w, l) \in LateType
                             /\ SeatRequest("release_seat", w, l) \in LateType
         /\ \A q \in Nat : /\ CountRequest("reserve", w, q) \in LateType
                           /\ CountRequest("release", w, q) \in LateType
         /\ \A s \in Slots \cup {None} :
                           /\ PayRequest("payments.create", w, s) \in LateType
                           /\ PayRequest("payments.cancel", w, s) \in LateType
                           /\ PayRequest("payments.markRefunded", w, s) \in LateType
<1>1. task[w].order \in Orders /\ task[w].tries \in Nat
  BY BusyOK DEF TaskType
<1>. QED
  BY <1>1 DEF LateType, SeatRequest, CountRequest, PayRequest, Request

LEMMA FailTypes ==
  ASSUME TypeOK, NEW R, R \subseteq LateType, RpcFails(R)
  PROVE  used' \in [Kinds -> Nat] /\ late' \subseteq LateType
<1>1. {"error", "timeout"} \subseteq Kinds
  BY DEF Kinds, Faults
<1>. QED BY <1>1, SpendTypes, Frame DEF RpcFails, TypeOK

-----------------------------------------------------------------------------
(* checkout                                                                *)

LEMMA SubmitCheckoutTypes ==
  ASSUME SagaAssumption, TypeOK, NEW w \in Workers, NEW o \in Orders,
         SubmitCheckout(w, o)
  PROVE  TypeOK'
<1>1. TaskTypes'
  BY NewTaskOK, BecomeTypes DEF SubmitCheckout, Steps
<1>2. used' \in [Kinds -> Nat]
  BY SpendTypes DEF SubmitCheckout, Kinds, TypeOK
<1>3. ClientTypes'
  BY DEF SubmitCheckout, TypeOK, ClientTypes
<1>. QED BY <1>1, <1>2, <1>3, Frame DEF SubmitCheckout, TypeOK

LEMMA CheckoutLookupTypes ==
  ASSUME SagaAssumption, TypeOK, NEW w \in Workers, CheckoutLookup(w)
  PROVE  TypeOK'
<1>1. TaskTypes'
  BY GotoTypes DEF CheckoutLookup, At, Steps
<1>. QED BY <1>1, Frame DEF CheckoutLookup, TypeOK

LEMMA ReserveSeatTypes ==
  ASSUME SagaAssumption, TypeOK, NEW w \in Workers, NEW l \in Seats, ReserveSeat(w, l)
  PROVE  TypeOK'
<1>. DEFINE t == task[w]
            held == t.held \cup {l}
            pc == IF Wanted[t.order] \subseteq held /\ Extra[t.order] = 0
                  THEN "co_create" ELSE t.pc
            next == [t EXCEPT !.held = held, !.pc = pc]
<1>1. TaskOK(t) /\ t \in TaskType /\ t.order \in Orders /\ t.order # None
  BY BusyOK DEF ReserveSeat, At
<1>2. held \subseteq Seats /\ pc \in Steps
  BY <1>1 DEF TaskType, Steps
<1>3. TaskOK(next)
  <2>. HIDE DEF held, pc
  <2>. QED BY <1>1, <1>2 DEF TaskOK, TaskType
<1>4. TaskTypes'
  <2>1. Become(w, next) \/ Become(w, BeginRelease(t))
    BY DEF ReserveSeat
  <2>. HIDE DEF next
  <2>. QED BY <1>1, <1>3, <2>1, BeginReleaseOK, BecomeTypes
<1>5. item' \in ItemType(Seats)
  BY StockTypes, Frame DEF ReserveSeat, SagaAssumption, TypeOK
<1>6. used' \in [Kinds -> Nat] /\ late' \subseteq LateType
  <2>1. {SeatRequest("reserve_seat", w, l)} \subseteq LateType
    BY LateTypes DEF ReserveSeat, At
  <2>. QED BY <2>1, FailTypes, Frame DEF ReserveSeat
<1>7. UNCHANGED <<orderVars, payVars, clientVars, ghostVars>>
  BY DEF ReserveSeat
<1>. QED BY <1>4, <1>5, <1>6, <1>7, Frame DEF TypeOK

LEMMA ReserveCountTypes ==
  ASSUME SagaAssumption, TypeOK, NEW w \in Workers, ReserveCount(w)
  PROVE  TypeOK'
<1>. DEFINE t == task[w]
            q == Extra[t.order]
            next(S) == [t EXCEPT !.held = @ \cup S, !.qty = q, !.pc = "co_create"]
<1>1. /\ TaskOK(t) /\ t \in TaskType /\ t.order \in Orders /\ t.order # None
      /\ t.pc # "idle"
  BY BusyOK DEF ReserveCount, At
<1>2. q \in Nat
  BY <1>1 DEF SagaAssumption
<1>3. \A S \in Allocations(item, q) : S \subseteq Seats /\ TakeCount(item, q, S) \in ItemType(Seats)
  BY <1>2, StockTypes DEF SagaAssumption, TypeOK
<1>4. ASSUME NEW S \in Allocations(item, q)
      PROVE  TaskOK(next(S))
  <2>. DEFINE held == t.held \cup S
  <2>1. held \subseteq Seats /\ "co_create" \in Steps
    BY <1>1, <1>3 DEF TaskType, Steps
  <2>2. next(S) = [t EXCEPT !.held = held, !.qty = q, !.pc = "co_create"]
    OBVIOUS
  <2>. HIDE DEF held, q
  <2>. QED BY <1>1, <1>2, <2>1, <2>2 DEF TaskOK, TaskType
<1>5. TaskTypes'
  <2>1. Become(w, BeginRelease(t)) \/ \E S \in Allocations(item, q) : Become(w, next(S))
    BY DEF ReserveCount
  <2>. HIDE DEF next
  <2>. QED BY <1>1, <1>4, <2>1, BeginReleaseOK, BecomeTypes
<1>6. item' \in ItemType(Seats)
  BY <1>3, Frame DEF ReserveCount
<1>7. used' \in [Kinds -> Nat] /\ late' \subseteq LateType
  <2>. DEFINE r == CountRequest("reserve", w, q)
  <2>1. {r} \subseteq LateType
    <3>. HIDE DEF q
    <3>. QED BY <1>1, <1>2, LateTypes
  <2>2. CASE UNCHANGED <<late, used>>
    BY <2>2, Frame
  <2>3. CASE RpcFails({r})
    BY <2>1, <2>3, FailTypes
  <2>. QED
    <3>. HIDE DEF next
    <3>. QED BY <2>2, <2>3 DEF ReserveCount
<1>8. UNCHANGED <<orderVars, payVars, clientVars, ghostVars>>
  BY DEF ReserveCount
<1>. QED BY <1>5, <1>6, <1>7, <1>8, Frame DEF TypeOK

LEMMA CreateOrderTypes ==
  ASSUME SagaAssumption, TypeOK, NEW w \in Workers, CreateOrder(w)
  PROVE  TypeOK'
<1>. DEFINE t == task[w]
            o == t.order
<1>1. TaskOK(t) /\ t \in TaskType /\ o \in Orders /\ t.held \subseteq Seats
  BY BusyOK DEF CreateOrder, At, TaskType
<1>2. TaskTypes'
  <2>1. CASE Goto(w, "co_pay")
    BY <2>1, GotoTypes DEF CreateOrder, At, Steps
  <2>2. CASE Become(w, BeginRelease(t))
    BY <1>1, <2>2, BeginReleaseOK, BecomeTypes
  <2>. QED BY <2>1, <2>2 DEF CreateOrder
<1>3. OrderTypes'
  <2>1. CASE UNCHANGED <<status, labels, vouchers>>
    BY <2>1 DEF CreateOrder, TypeOK, OrderTypes
  <2>2. CASE /\ SetStatus(o, "PendingPayment")
             /\ labels' = [labels EXCEPT ![o] = t.held]
             /\ vouchers' = vouchers \cup ({o} \cap UsesVoucher)
    <3>1. status' \in [Orders -> Status]
      BY <1>1, <2>2 DEF TypeOK, OrderTypes, SetStatus, Status, Open
    <3>2. labels' \in [Orders -> SUBSET Seats]
      BY <1>1, <2>2 DEF TypeOK, OrderTypes
    <3>. QED BY <1>1, <2>2, <3>1, <3>2 DEF CreateOrder, TypeOK, OrderTypes
  <2>. QED BY <2>1, <2>2 DEF CreateOrder
<1>4. ClientTypes'
  BY <1>1 DEF CreateOrder, TypeOK, ClientTypes
<1>5. HistoryTypes'
  BY <1>1 DEF CreateOrder, TypeOK, HistoryTypes
<1>. QED BY <1>2, <1>3, <1>4, <1>5, Frame DEF CreateOrder, TypeOK

LEMMA SetPayTypes ==
  ASSUME TypeOK, NEW o \in Orders, NEW s \in Slots, NEW st \in PayStatus, SetPay(o, s, st)
  PROVE  pay' \in [Orders -> [Slots -> PayStatus]]
  BY DEF TypeOK, PayTypes, SetPay

LEMMA NewSlotOK ==
  ASSUME NEW o \in Orders, SlotsIn(o, "Absent") # {}
  PROVE  NewSlot(o) \in Slots
  BY DEF NewSlot, SlotsIn

LEMMA CreatePaymentTypes ==
  ASSUME SagaAssumption, TypeOK, NEW w \in Workers, CreatePayment(w)
  PROVE  TypeOK'
<1>. DEFINE o == task[w].order
<1>1. o \in Orders
  BY BusyOK DEF CreatePayment, At
<1>2. TaskTypes'
  BY GotoTypes DEF CreatePayment, At, Steps
<1>3. pay' \in [Orders -> [Slots -> PayStatus]]
  BY <1>1, NewSlotOK, SetPayTypes DEF CreatePayment, TypeOK, PayTypes, PayStatus
<1>4. ClientTypes'
  BY <1>1 DEF CreatePayment, TypeOK, ClientTypes
<1>5. used' \in [Kinds -> Nat] /\ late' \subseteq LateType
  <2>1. {PayRequest("payments.create", w, None)} \subseteq LateType
    BY LateTypes DEF CreatePayment, At
  <2>2. CASE RpcFails({PayRequest("payments.create", w, None)})
    BY <2>1, <2>2, FailTypes
  <2>3. CASE UNCHANGED late /\ (UNCHANGED used \/ Spend("error"))
    BY <2>3, SpendTypes, Frame DEF Kinds, Faults
  <2>. QED BY <2>2, <2>3 DEF CreatePayment
<1>6. PayTypes'
  BY <1>3 DEF CreatePayment, TypeOK, PayTypes
<1>. QED BY <1>2, <1>4, <1>5, <1>6, Frame DEF CreatePayment, TypeOK

LEMMA RollbackReadTypes ==
  ASSUME SagaAssumption, TypeOK, NEW w \in Workers, RollbackRead(w)
  PROVE  TypeOK'
<1>. DEFINE t == task[w]
            next == [t EXCEPT !.pc = "rb_cancel", !.snap = status[t.order]]
<1>1. TaskOK(t) /\ t \in TaskType /\ t.order \in Orders /\ t.order # None
      /\ status[t.order] \in Status
  BY BusyOK DEF RollbackRead, At
<1>2. TaskOK(next)
  BY <1>1 DEF TaskOK, TaskType, Steps
<1>3. Become(w, next) \/ Become(w, BeginRelease(t))
  BY DEF RollbackRead
<1>4. TaskTypes'
  <2>. HIDE DEF next
  <2>. QED BY <1>1, <1>2, <1>3, BeginReleaseOK, BecomeTypes
<1>. QED BY <1>4, Frame DEF RollbackRead, TypeOK

LEMMA RollbackCancelTypes ==
  ASSUME SagaAssumption, TypeOK, NEW w \in Workers, RollbackCancel(w)
  PROVE  TypeOK'
<1>. DEFINE t == task[w]
<1>1. TaskOK(t) /\ t.order \in Orders
  BY BusyOK DEF RollbackCancel, At
<1>2. TaskTypes'
  <2>1. CASE Goto(w, "rb_voucher")
    BY <2>1, GotoTypes DEF RollbackCancel, At, Steps
  <2>2. CASE Become(w, BeginRelease(t))
    BY <1>1, <2>2, BeginReleaseOK, BecomeTypes
  <2>. QED BY <2>1, <2>2 DEF RollbackCancel
<1>3. OrderTypes'
  BY <1>1, StatusTypes DEF RollbackCancel, TypeOK, OrderTypes, Status, Closed
<1>4. HistoryTypes'
  BY <1>1 DEF RollbackCancel, TypeOK, HistoryTypes
<1>. QED BY <1>2, <1>3, <1>4, Frame DEF RollbackCancel, TypeOK, payVars, clientVars

LEMMA RollbackVoucherTypes ==
  ASSUME SagaAssumption, TypeOK, NEW w \in Workers, RollbackVoucher(w)
  PROVE  TypeOK'
<1>1. TaskTypes'
  BY BusyOK, BeginReleaseOK, BecomeTypes DEF RollbackVoucher, At
<1>2. OrderTypes'
  BY DEF RollbackVoucher, NoteUnfreed, TypeOK, OrderTypes
<1>3. task[w].order \in Orders
  BY BusyOK DEF RollbackVoucher, At
<1>4. HistoryTypes'
  BY <1>3 DEF RollbackVoucher, NoteUnfreed, TypeOK, HistoryTypes
<1>5. used' \in [Kinds -> Nat]
  BY SpendTypes, Frame DEF RollbackVoucher, Kinds, Faults
<1>. QED BY <1>1, <1>2, <1>4, <1>5, Frame DEF RollbackVoucher, TypeOK

-----------------------------------------------------------------------------
(* releaseReservation                                                      *)

(* The failures a caller of several requests at once can meet.             *)
LEMMA BatchFailTypes ==
  ASSUME TypeOK, NEW R, R \subseteq LateType, NEW Q, Q \subseteq LateType,
         \/ UNCHANGED <<late, used>>
         \/ UNCHANGED used /\ late' = late \cup R
         \/ Spend("error") /\ late' = late \cup R
         \/ Spend("timeout") /\ late' = late \cup Q
  PROVE  used' \in [Kinds -> Nat] /\ late' \subseteq LateType
<1>1. {"error", "timeout"} \subseteq Kinds
  BY DEF Kinds, Faults
<1>. QED BY <1>1, SpendTypes, Frame DEF TypeOK

LEMMA NoteReturnedTypes ==
  ASSUME TypeOK, NEW t, t.order \in Orders, NEW p \in Seats \cup {None},
         NoteReturned(t, p), UNCHANGED <<settled, manual, rolledBack, unfreed, stranded>>
  PROVE  HistoryTypes'
<1>1. CASE t.job \in {"cancel", "refund"}
  <2>1. returned' = [returned EXCEPT ![t.order] = @ \cup {p}]
    BY <1>1 DEF NoteReturned
  <2>2. returned' \in [Orders -> SUBSET (Seats \cup {None})]
    BY <2>1 DEF TypeOK, HistoryTypes
  <2>. QED BY <2>2 DEF TypeOK, HistoryTypes
<1>2. CASE ~(t.job \in {"cancel", "refund"})
  BY <1>2 DEF NoteReturned, TypeOK, HistoryTypes
<1>. QED BY <1>1, <1>2

LEMMA ReleaseSeatTypes ==
  ASSUME SagaAssumption, TypeOK, NEW w \in Workers, NEW l \in Seats, ReleaseSeat(w, l)
  PROVE  TypeOK'
<1>. DEFINE t == task[w]
            rest == t.pend \ {l}
            next == [t EXCEPT !.pend = rest]
            count == [next EXCEPT !.pc = "rel_count"]
            inFlight(S) == {SeatRequest("release_seat", w, m) : m \in S}
<1>1. TaskOK(t) /\ t \in TaskType /\ t.order \in Orders /\ t.pc # "idle"
  BY BusyOK DEF ReleaseSeat, At
<1>2. rest \subseteq Seats /\ t.pend \subseteq Seats /\ "rel_count" \in Steps
  BY <1>1 DEF TaskType, Steps
<1>3. TaskOK(next) /\ next \in TaskType /\ next.order \in Orders /\ next.order # None
  <2>. HIDE DEF rest
  <2>. QED BY <1>1, <1>2 DEF TaskOK, TaskType, SagaAssumption
<1>4. TaskOK(count)
  <2>. HIDE DEF next
  <2>. QED BY <1>2, <1>3 DEF TaskOK, TaskType
<1>5. TaskTypes'
  <2>1. \/ Become(w, next) \/ Become(w, count)
        \/ Become(w, AfterRelease(t, TRUE)) \/ Become(w, RetryRelease(t))
    BY DEF ReleaseSeat
  <2>. HIDE DEF next, count
  <2>2. TaskOK(AfterRelease(t, TRUE)) /\ TaskOK(RetryRelease(t))
    BY <1>1, AfterReleaseOK, RetryReleaseOK
  <2>. QED BY <1>3, <1>4, <2>1, <2>2, BecomeTypes
<1>6. item' \in ItemType(Seats)
  <2>1. item' = ReturnSeat(item, l) \/ UNCHANGED item
    BY Zenon DEF ReleaseSeat
  <2>. QED BY <2>1, StockTypes, Frame DEF SagaAssumption, TypeOK
<1>7. used' \in [Kinds -> Nat] /\ late' \subseteq LateType
  <2>1. inFlight(rest) \subseteq LateType /\ inFlight(t.pend) \subseteq LateType
    BY <1>1, <1>2, LateTypes
  <2>2. \/ UNCHANGED <<late, used>>
        \/ UNCHANGED used /\ late' = late \cup inFlight(rest)
        \/ Spend("error") /\ late' = late \cup inFlight(rest)
        \/ Spend("timeout") /\ late' = late \cup inFlight(t.pend)
    BY DEF ReleaseSeat
  <2>. HIDE DEF inFlight, rest
  <2>. QED BY <2>1, <2>2, BatchFailTypes
<1>8. HistoryTypes'
  <2>1. /\ NoteReturned(t, l) \/ UNCHANGED returned
        /\ UNCHANGED <<settled, manual, rolledBack, unfreed, stranded>>
    BY DEF ReleaseSeat
  <2>. QED BY <1>1, <2>1, NoteReturnedTypes, Frame DEF ghostVars
<1>9. UNCHANGED <<orderVars, payVars, clientVars>>
  BY DEF ReleaseSeat
<1>. QED BY <1>5, <1>6, <1>7, <1>8, <1>9, Frame DEF TypeOK

LEMMA ReleaseCountTypes ==
  ASSUME SagaAssumption, TypeOK, NEW w \in Workers, ReleaseCount(w)
  PROVE  TypeOK'
<1>. DEFINE t == task[w]
<1>1. TaskOK(t) /\ t \in TaskType /\ t.order \in Orders /\ t.pc # "idle" /\ t.qty \in Nat
  BY BusyOK DEF ReleaseCount, At, TaskType
<1>2. TaskTypes'
  <2>1. Become(w, AfterRelease(t, TRUE)) \/ Become(w, RetryRelease(t))
    BY DEF ReleaseCount
  <2>2. TaskOK(AfterRelease(t, TRUE)) /\ TaskOK(RetryRelease(t))
    BY <1>1, AfterReleaseOK, RetryReleaseOK
  <2>. QED BY <2>1, <2>2, BecomeTypes
<1>3. item' \in ItemType(Seats)
  <2>1. item' = ReturnCount(item, t.qty) \/ UNCHANGED item
    BY Zenon DEF ReleaseCount
  <2>. HIDE DEF t
  <2>. QED BY <1>1, <2>1, StockTypes, Frame DEF SagaAssumption, TypeOK
<1>4. used' \in [Kinds -> Nat] /\ late' \subseteq LateType
  <2>1. {CountRequest("release", w, t.qty)} \subseteq LateType
    BY <1>1, LateTypes
  <2>2. UNCHANGED <<late, used>> \/ RpcFails({CountRequest("release", w, t.qty)})
    BY DEF ReleaseCount
  <2>. QED BY <2>1, <2>2, FailTypes, Frame
<1>5. HistoryTypes'
  <2>1. /\ NoteReturned(t, None) \/ UNCHANGED returned
        /\ UNCHANGED <<settled, manual, rolledBack, unfreed, stranded>>
    BY DEF ReleaseCount
  <2>. QED BY <1>1, <2>1, NoteReturnedTypes, Frame DEF ghostVars
<1>6. UNCHANGED <<orderVars, payVars, clientVars>>
  BY DEF ReleaseCount
<1>. QED BY <1>2, <1>3, <1>4, <1>5, <1>6, Frame DEF TypeOK

-----------------------------------------------------------------------------
(* cancelWorkflow                                                          *)

LEMMA CancelReadTypes ==
  ASSUME SagaAssumption, TypeOK, NEW w \in Workers, CancelRead(w)
  PROVE  TypeOK'
<1>. DEFINE t == task[w]
            next == [t EXCEPT !.pc = "cw_claim", !.snap = status[t.order]]
<1>1. TaskOK(t) /\ t \in TaskType /\ t.order # None /\ status[t.order] \in Status
      /\ t.pc # "idle"
  BY BusyOK DEF CancelRead, At
<1>2. TaskOK(next)
  BY <1>1 DEF TaskOK, TaskType, Steps
<1>3. Goto(w, "list_open") \/ Become(w, next) \/ Finish(w)
  BY DEF CancelRead
<1>4. TaskTypes'
  <2>. HIDE DEF next
  <2>1. "list_open" \in Steps
    BY DEF Steps
  <2>. QED BY <1>1, <1>2, <1>3, <2>1, GotoTypes, BecomeTypes
<1>. QED BY <1>4, Frame DEF CancelRead, TypeOK

LEMMA ClaimTypes ==
  ASSUME SagaAssumption, TypeOK, NEW w \in Workers, CancelClaim(w) \/ RefundClaim(w)
  PROVE  TypeOK'
<1>1. task[w].pc # "idle" /\ task[w].order \in Orders
  BY BusyOK DEF CancelClaim, RefundClaim, At
<1>2. TaskTypes'
  BY <1>1, GotoTypes DEF CancelClaim, RefundClaim, Steps
<1>3. OrderTypes'
  BY <1>1, StatusTypes, Frame DEF CancelClaim, RefundClaim, Status, orderVars
<1>. QED BY <1>2, <1>3, Frame DEF CancelClaim, RefundClaim, TypeOK

LEMMA CancelVoucherTypes ==
  ASSUME SagaAssumption, TypeOK, NEW w \in Workers, CancelVoucher(w)
  PROVE  TypeOK'
<1>1. TaskTypes'
  BY GotoTypes DEF CancelVoucher, At, Steps
<1>2. OrderTypes'
  BY DEF CancelVoucher, NoteUnfreed, TypeOK, OrderTypes
<1>3. task[w].order \in Orders
  BY BusyOK DEF CancelVoucher, At
<1>4. HistoryTypes'
  BY <1>3 DEF CancelVoucher, NoteUnfreed, TypeOK, HistoryTypes
<1>5. used' \in [Kinds -> Nat]
  BY SpendTypes, Frame DEF CancelVoucher, Kinds, Faults
<1>. QED BY <1>1, <1>2, <1>4, <1>5, Frame DEF CancelVoucher, TypeOK

LEMMA CommitTypes ==
  ASSUME SagaAssumption, TypeOK, NEW w \in Workers, CancelCommit(w) \/ RefundCommit(w)
  PROVE  TypeOK'
<1>1. task[w].pc # "idle" /\ task[w].order \in Orders
  BY BusyOK DEF CancelCommit, RefundCommit, At
<1>2. TaskTypes'
  BY <1>1, GotoTypes DEF CancelCommit, RefundCommit
<1>3. OrderTypes'
  BY <1>1, StatusTypes, Frame DEF CancelCommit, RefundCommit, Status, Closed, orderVars
<1>. QED BY <1>2, <1>3, Frame DEF CancelCommit, RefundCommit, TypeOK

(* Listing payments or writing one, then going on to the next one or to    *)
(* the step after the batch.                                               *)
LEMMA PaysOK ==
  ASSUME SagaAssumption, TypeOK, NEW w \in Workers, task[w].pc # "idle",
         NEW P, P \subseteq Slots
  PROVE  /\ TaskOK([task[w] EXCEPT !.pays = P])
         /\ TaskOK([task[w] EXCEPT !.pc = "cancel_open", !.pays = P])
         /\ TaskOK([task[w] EXCEPT !.pc = "refund_paid", !.pays = P])
<1>1. task[w] \in TaskType /\ task[w].order # None
  BY BusyOK
<1>2. {"cancel_open", "refund_paid"} \subseteq Steps
  BY DEF Steps
<1>3. TaskOK([task[w] EXCEPT !.pays = P])
  BY <1>1 DEF TaskOK, TaskType
<1>4. TaskOK([task[w] EXCEPT !.pc = "cancel_open", !.pays = P])
  BY <1>1, <1>2 DEF TaskOK, TaskType
<1>5. TaskOK([task[w] EXCEPT !.pc = "refund_paid", !.pays = P])
  BY <1>1, <1>2 DEF TaskOK, TaskType
<1>. QED BY <1>3, <1>4, <1>5

LEMMA ListTypes ==
  ASSUME SagaAssumption, TypeOK, NEW w \in Workers,
         ListOpenPayments(w) \/ ListPaidPayments(w)
  PROVE  TypeOK'
<1>. DEFINE t == task[w]
            open == SlotsIn(t.order, "Pending")
            paid == SlotsIn(t.order, "Paid")
            u == [t EXCEPT !.pc = "cancel_open", !.pays = open]
            v == [t EXCEPT !.pc = "refund_paid", !.pays = paid]
<1>1. TaskOK(t) /\ t.order \in Orders /\ t.pc # "idle" /\ labels \in [Orders -> SUBSET Seats]
  BY BusyOK DEF ListOpenPayments, ListPaidPayments, At
<1>2. TaskOK(u) /\ TaskOK(v)
  BY <1>1, PaysOK DEF SlotsIn
<1>3. TaskOK(AfterCancelOpen(t)) /\ TaskOK(ReleaseOrder(t))
  BY <1>1, AfterCancelOpenOK, ReleaseOrderOK
<1>4. \/ Become(w, u) \/ Become(w, v)
      \/ Become(w, AfterCancelOpen(t)) \/ Become(w, ReleaseOrder(t))
  BY DEF ListOpenPayments, ListPaidPayments
<1>5. UNCHANGED used \/ Spend("error")
  BY DEF ListOpenPayments, ListPaidPayments
<1>6. UNCHANGED <<orderVars, item, payVars, clientVars, late, ghostVars>>
  BY DEF ListOpenPayments, ListPaidPayments
<1>7. "error" \in Kinds
  BY DEF Kinds, Faults
<1>. HIDE DEF u, v
<1>. QED BY <1>2, <1>3, <1>4, <1>5, <1>6, <1>7, OnlyTaskTypes

LEMMA WritePaymentTypes ==
  ASSUME SagaAssumption, TypeOK, NEW w \in Workers, NEW s \in Slots,
         CancelPayment(w, s) \/ MarkRefunded(w, s)
  PROVE  TypeOK'
<1>. DEFINE t == task[w]
            rest == t.pays \ {s}
            next == [t EXCEPT !.pays = rest]
            inFlight(op, S) == {PayRequest(op, w, p) : p \in S}
<1>1. TaskOK(t) /\ t.order \in Orders /\ t.pc # "idle" /\ t.pays \subseteq Slots
      /\ labels \in [Orders -> SUBSET Seats]
  BY BusyOK DEF CancelPayment, MarkRefunded, At, TaskType
<1>2. TaskTypes'
  <2>1. TaskOK(next)
    BY <1>1, PaysOK
  <2>2. TaskOK(AfterCancelOpen(t)) /\ TaskOK(ReleaseOrder(t))
    BY <1>1, AfterCancelOpenOK, ReleaseOrderOK
  <2>3. Become(w, next) \/ Become(w, AfterCancelOpen(t)) \/ Become(w, ReleaseOrder(t))
    BY DEF CancelPayment, MarkRefunded
  <2>. HIDE DEF next
  <2>. QED BY <2>1, <2>2, <2>3, BecomeTypes
<1>3. PayTypes'
  <2>1. \/ SetPay(t.order, s, "Cancelled") \/ SetPay(t.order, s, "Refunded")
        \/ UNCHANGED pay
    BY DEF CancelPayment, MarkRefunded
  <2>2. {"Cancelled", "Refunded"} \subseteq PayStatus
    BY DEF PayStatus
  <2>3. pay' \in [Orders -> [Slots -> PayStatus]]
    BY <1>1, <2>1, <2>2, SetPayTypes DEF TypeOK, PayTypes
  <2>4. UNCHANGED paidEvents
    BY DEF CancelPayment, MarkRefunded
  <2>. QED BY <2>3, <2>4 DEF TypeOK, PayTypes
<1>4. used' \in [Kinds -> Nat] /\ late' \subseteq LateType
  <2>1. \A S \in SUBSET Slots : /\ inFlight("payments.cancel", S) \subseteq LateType
                                /\ inFlight("payments.markRefunded", S) \subseteq LateType
    BY <1>1, LateTypes
  <2>2. \E op \in {"payments.cancel", "payments.markRefunded"} :
          \/ UNCHANGED <<late, used>>
          \/ Spend("error") /\ late' = late \cup inFlight(op, rest)
          \/ Spend("timeout") /\ late' = late \cup inFlight(op, t.pays)
    BY DEF CancelPayment, MarkRefunded
  <2>3. rest \in SUBSET Slots /\ t.pays \in SUBSET Slots
    BY <1>1
  <2>. HIDE DEF inFlight, rest
  <2>. QED BY <2>1, <2>2, <2>3, BatchFailTypes
<1>5. UNCHANGED <<orderVars, item, clientVars, ghostVars>>
  BY DEF CancelPayment, MarkRefunded
<1>. QED BY <1>2, <1>3, <1>4, <1>5, Frame DEF TypeOK

-----------------------------------------------------------------------------
(* refund, handlePaymentPaidEvent and the operator's transitions           *)

LEMMA RefundReadTypes ==
  ASSUME SagaAssumption, TypeOK, NEW w \in Workers, RefundRead(w)
  PROVE  TypeOK'
<1>. DEFINE t == task[w]
            seen == [t EXCEPT !.snap = status[t.order]]
            u == [seen EXCEPT !.pc = "list_open"]
            v == [seen EXCEPT !.pc = "rf_claim"]
<1>1. t \in TaskType /\ t.order # None /\ status[t.order] \in Status
  BY BusyOK DEF RefundRead, At
<1>2. TaskOK(u) /\ TaskOK(v)
  <2>1. seen \in TaskType /\ seen.order = t.order
    BY <1>1 DEF TaskType
  <2>. HIDE DEF seen
  <2>. QED BY <1>1, <2>1 DEF TaskOK, TaskType, Steps
<1>3. Become(w, u) \/ Become(w, v) \/ Become(w, Blank)
  BY DEF RefundRead
<1>4. TaskTypes'
  <2>. HIDE DEF u, v
  <2>. QED BY <1>2, <1>3, BlankOK, BecomeTypes
<1>. QED BY <1>4, Frame DEF RefundRead, TypeOK

LEMMA DeliverPaidEventTypes ==
  ASSUME SagaAssumption, TypeOK, NEW w \in Workers, NEW e \in paidEvents,
         DeliverPaidEvent(w, e)
  PROVE  TypeOK'
<1>. DEFINE n == NewTask("pp_read", e[1])
<1>1. e[1] \in Orders /\ e[2] \in Slots
  BY DEF TypeOK, PayTypes
<1>2. TaskOK(n) /\ n.order \in Orders /\ n.order # None
  BY <1>1, NewTaskOK DEF Steps, SagaAssumption
<1>3. TaskTypes'
  <2>1. Become(w, [n EXCEPT !.ref = e[2]])
    BY DEF DeliverPaidEvent
  <2>. HIDE DEF n
  <2>2. TaskOK([n EXCEPT !.ref = e[2]])
    BY <1>1, <1>2 DEF TaskOK, TaskType
  <2>. QED BY <2>1, <2>2, BecomeTypes
<1>4. used' \in [Kinds -> Nat]
  BY SpendTypes DEF DeliverPaidEvent, TypeOK, Kinds, Faults
<1>5. PayTypes'
  BY DEF DeliverPaidEvent, TypeOK, PayTypes
<1>6. UNCHANGED <<orderVars, item, clientVars, late, ghostVars>>
  BY DEF DeliverPaidEvent
<1>. QED BY <1>3, <1>4, <1>5, <1>6, Frame DEF TypeOK

LEMMA PaidReadTypes ==
  ASSUME SagaAssumption, TypeOK, NEW w \in Workers, PaidRead(w)
  PROVE  TypeOK'
<1>. DEFINE t == task[w]
            next == [t EXCEPT !.pc = "pp_verify", !.snap = status[t.order]]
<1>1. t \in TaskType /\ t.order # None /\ status[t.order] \in Status
  BY BusyOK DEF PaidRead, At
<1>2. TaskOK(next)
  BY <1>1 DEF TaskOK, TaskType, Steps
<1>3. Become(w, next) \/ Become(w, Blank)
  BY DEF PaidRead, Finish
<1>4. TaskTypes'
  <2>. HIDE DEF next
  <2>. QED BY <1>2, <1>3, BlankOK, BecomeTypes
<1>. QED BY <1>4, Frame DEF PaidRead, TypeOK

LEMMA PaidVerifyTypes ==
  ASSUME SagaAssumption, TypeOK, NEW w \in Workers, PaidVerify(w)
  PROVE  TypeOK'
<1>. DEFINE t == task[w]
            next == [t EXCEPT !.job = "refund", !.pc = "rf_read"]
<1>1. TaskOK(t) /\ t \in TaskType /\ t.order \in Orders /\ t.order # None
  BY BusyOK DEF PaidVerify, At
<1>2. TaskOK(next)
  <2>1. "rf_read" \in Steps /\ "refund" \in Jobs
    BY DEF Steps, Jobs
  <2>. QED BY <1>1, <2>1 DEF TaskOK, TaskType
<1>3. TaskOK(Advance(t, t.snap)) /\ TaskOK(Blank)
  BY <1>1, AdvanceOK, BlankOK
<1>4. Become(w, next) \/ Become(w, Blank) \/ Become(w, Advance(t, t.snap))
  BY DEF PaidVerify, Finish
<1>5. UNCHANGED used \/ Spend("error")
  BY DEF PaidVerify
<1>6. UNCHANGED <<orderVars, item, payVars, clientVars, late, ghostVars>>
  BY DEF PaidVerify
<1>7. "error" \in Kinds
  BY DEF Kinds, Faults
<1>. HIDE DEF next
<1>. QED BY <1>2, <1>3, <1>4, <1>5, <1>6, <1>7, OnlyTaskTypes

LEMMA PaidNextTypes ==
  ASSUME SagaAssumption, TypeOK, NEW w \in Workers, PaidNext(w)
  PROVE  TypeOK'
<1>1. TaskOK(task[w]) /\ task[w].order \in Orders
  BY BusyOK DEF PaidNext, At
<1>2. TaskTypes'
  BY <1>1, AdvanceOK, BlankOK, BecomeTypes DEF PaidNext
<1>. QED BY <1>2, Frame DEF PaidNext, TypeOK

LEMMA TransitionReadTypes ==
  ASSUME SagaAssumption, TypeOK, NEW w \in Workers, TransitionRead(w)
  PROVE  TypeOK'
<1>. DEFINE t == task[w]
            next == [t EXCEPT !.pc = "tr_write", !.snap = status[t.order]]
<1>1. t \in TaskType /\ t.order # None /\ status[t.order] \in Status
  BY BusyOK DEF TransitionRead, At
<1>2. TaskOK(next)
  BY <1>1 DEF TaskOK, TaskType, Steps
<1>3. Become(w, next) \/ Become(w, Blank)
  BY DEF TransitionRead, Finish
<1>4. TaskTypes'
  <2>. HIDE DEF next
  <2>. QED BY <1>2, <1>3, BlankOK, BecomeTypes
<1>. QED BY <1>4, Frame DEF TransitionRead, TypeOK

LEMMA TransitionWriteTypes ==
  ASSUME SagaAssumption, TypeOK, NEW w \in Workers, TransitionWrite(w)
  PROVE  TypeOK'
<1>1. task[w].pc # "idle" /\ task[w].order \in Orders /\ task[w].target \in Status
  BY BusyOK DEF TransitionWrite, At, TaskType
<1>2. TaskTypes'
  BY <1>1, GotoTypes DEF TransitionWrite, Steps
<1>3. OrderTypes'
  BY <1>1, StatusTypes, Frame DEF TransitionWrite, orderVars
<1>4. HistoryTypes'
  BY <1>1 DEF TransitionWrite, TypeOK, HistoryTypes
<1>. QED BY <1>2, <1>3, <1>4, Frame DEF TransitionWrite, TypeOK

LEMMA IssueReadTypes ==
  ASSUME SagaAssumption, TypeOK, NEW w \in Workers, IssueRead(w)
  PROVE  TypeOK'
<1>1. TaskTypes'
  BY GotoTypes DEF IssueRead, At, Steps
<1>. QED BY <1>1, Frame DEF IssueRead, TypeOK

LEMMA IssueWriteTypes ==
  ASSUME SagaAssumption, TypeOK, NEW w \in Workers, IssueWrite(w)
  PROVE  TypeOK'
<1>1. task[w].pc # "idle" /\ task[w].order \in Orders
  BY BusyOK DEF IssueWrite, At
<1>2. TaskTypes'
  BY <1>1, GotoTypes DEF IssueWrite
<1>3. OrderTypes'
  BY <1>1, StatusTypes DEF IssueWrite, Status, Open
<1>. QED BY <1>2, <1>3, Frame DEF IssueWrite, TypeOK

-----------------------------------------------------------------------------
(* expiry, requests, time, the payer and failures                          *)

LEMMA DeliverExpireCheckTypes ==
  ASSUME SagaAssumption, TypeOK, NEW w \in Workers, NEW o \in Orders,
         DeliverExpireCheck(w, o)
  PROVE  TypeOK'
<1>1. TaskTypes'
  BY NewTaskOK, BecomeTypes DEF DeliverExpireCheck, Steps
<1>2. ClientTypes'
  BY DEF DeliverExpireCheck, TypeOK, ClientTypes
<1>. QED BY <1>1, <1>2, Frame DEF DeliverExpireCheck, TypeOK

LEMMA ExpireCheckReadTypes ==
  ASSUME SagaAssumption, TypeOK, NEW w \in Workers, ExpireCheckRead(w)
  PROVE  TypeOK'
<1>1. TaskTypes'
  BY GotoTypes DEF ExpireCheckRead, At, Steps
<1>. QED BY <1>1, Frame DEF ExpireCheckRead, TypeOK

LEMMA ExpireCheckVerifyTypes ==
  ASSUME SagaAssumption, TypeOK, NEW w \in Workers, ExpireCheckVerify(w)
  PROVE  TypeOK'
<1>. DEFINE t == task[w]
            u == [t EXCEPT !.job = "paid", !.pc = "pp_read"]
            v == [t EXCEPT !.job = "cancel", !.pc = "cw_read"]
<1>1. t \in TaskType /\ t.order # None
  BY BusyOK DEF ExpireCheckVerify, At
<1>2. TaskOK(u) /\ TaskOK(v)
  <2>1. {"pp_read", "cw_read"} \subseteq Steps /\ {"paid", "cancel"} \subseteq Jobs
    BY DEF Steps, Jobs
  <2>2. TaskOK(u)
    BY <1>1, <2>1 DEF TaskOK, TaskType
  <2>3. TaskOK(v)
    BY <1>1, <2>1 DEF TaskOK, TaskType
  <2>. QED BY <2>2, <2>3
<1>3. Become(w, u) \/ Become(w, v)
  BY DEF ExpireCheckVerify
<1>4. UNCHANGED used \/ Spend("error")
  BY DEF ExpireCheckVerify
<1>5. UNCHANGED <<orderVars, item, payVars, clientVars, late, ghostVars>>
  BY DEF ExpireCheckVerify
<1>6. "error" \in Kinds
  BY DEF Kinds, Faults
<1>. HIDE DEF u, v
<1>. QED BY <1>2, <1>3, <1>4, <1>5, <1>6, OnlyTaskTypes

LEMMA CronPickTypes ==
  ASSUME SagaAssumption, TypeOK, NEW w \in Workers, NEW o \in Orders, CronPick(w, o)
  PROVE  TypeOK'
<1>1. ASSUME NEW e \in {"cw_read", "rf_read"}
      PROVE  TaskOK([NewTask(e, o) EXCEPT !.entry = "idle"])
  <2>. DEFINE n == NewTask(e, o)
  <2>1. TaskOK(n) /\ n.order = o /\ o # None /\ "idle" \in Steps
    BY NewTaskOK DEF Steps, SagaAssumption
  <2>. HIDE DEF n
  <2>2. TaskOK([n EXCEPT !.entry = "idle"])
    BY <2>1 DEF TaskOK, TaskType
  <2>. QED BY <2>2 DEF n
<1>2. \E e \in {"cw_read", "rf_read"} : Become(w, [NewTask(e, o) EXCEPT !.entry = "idle"])
  BY DEF CronPick
<1>3. TaskTypes'
  BY <1>1, <1>2, BecomeTypes
<1>. QED BY <1>3, Frame DEF CronPick, TypeOK

LEMMA SendRequestTypes ==
  ASSUME SagaAssumption, TypeOK, NEW w \in Workers, NEW o \in Orders,
         NEW kind \in Commands, SendRequest(w, o, kind)
  PROVE  TypeOK'
<1>. DEFINE n == NewTask(EntryOf(kind), o)
            target == TargetOf(kind)
<1>1. TaskOK(n) /\ n.order = o /\ o # None
  BY NewTaskOK DEF EntryOf, Steps, SagaAssumption
<1>2. target \in Status
  BY DEF TargetOf, Status, Open, Closed
<1>3. Become(w, [n EXCEPT !.target = target])
  BY DEF SendRequest
<1>4. TaskOK([n EXCEPT !.target = target])
  <2>. HIDE DEF n, target
  <2>. QED BY <1>1, <1>2 DEF TaskOK, TaskType
<1>5. TaskTypes'
  <2>. HIDE DEF n, target
  <2>. QED BY <1>3, <1>4, BecomeTypes
<1>6. used' \in [Kinds -> Nat]
  BY SpendTypes DEF SendRequest, Kinds
<1>. QED BY <1>5, <1>6, Frame DEF SendRequest, TypeOK

LEMMA RemoveOrderTypes ==
  ASSUME SagaAssumption, TypeOK, NEW o \in Orders, RemoveOrder(o)
  PROVE  TypeOK'
<1>1. used' \in [Kinds -> Nat]
  BY SpendTypes DEF RemoveOrder, Kinds
<1>2. OrderTypes'
  BY DEF RemoveOrder, TypeOK, OrderTypes
<1>. QED BY <1>1, <1>2, Frame DEF RemoveOrder, TypeOK

LEMMA AgeTypes ==
  ASSUME SagaAssumption, TypeOK, NEW o \in Orders, Age(o)
  PROVE  TypeOK'
<1>1. used' \in [Kinds -> Nat]
  BY SpendTypes DEF Age, Kinds
<1>2. ClientTypes'
  BY DEF Age, TypeOK, ClientTypes
<1>. QED BY <1>1, <1>2, Frame DEF Age, TypeOK

LEMMA SettleTypes ==
  ASSUME SagaAssumption, TypeOK, NEW o \in Orders, NEW s \in Slots, Settle(o, s)
  PROVE  TypeOK'
<1>1. PayTypes'
  BY SetPayTypes DEF Settle, TypeOK, PayTypes, PayStatus
<1>2. HistoryTypes'
  BY DEF Settle, TypeOK, HistoryTypes
<1>. QED BY <1>1, <1>2, Frame DEF Settle, TypeOK

LEMMA RunLateTypes ==
  ASSUME SagaAssumption, TypeOK, NEW r \in late, RunLate(r)
  PROVE  TypeOK'
<1>1. r \in LateType
  BY DEF TypeOK
<1>2. late' \subseteq LateType
  BY DEF RunLate, TypeOK
<1>3. item' \in ItemType(Seats)
  <2>1. r.seat \in Seats \cup {None} /\ r.qty \in Nat
    BY <1>1 DEF LateType
  <2>2. item' \in LateStock(r) /\ item \in ItemType(Seats) /\ IsFiniteSet(Seats)
    BY DEF RunLate, TypeOK, SagaAssumption
  <2>3. CanTakeSeat(item, r.seat) \/ CanReturnSeat(item, r.seat) => r.seat \in Seats
    BY <2>2 DEF CanTakeSeat, CanReturnSeat, ItemType
  <2>4. ASSUME CanTakeSeat(item, r.seat), item' \in {TakeSeat(item, r.seat)}
        PROVE  item' \in ItemType(Seats)
    BY <2>2, <2>3, <2>4, StockTypes
  <2>5. ASSUME CanReturnSeat(item, r.seat), item' \in {ReturnSeat(item, r.seat)}
        PROVE  item' \in ItemType(Seats)
    BY <2>2, <2>3, <2>5, StockTypes
  <2>6. ASSUME item' \in {TakeCount(item, r.qty, S) : S \in Allocations(item, r.qty)}
        PROVE  item' \in ItemType(Seats)
    BY <2>1, <2>2, <2>6, StockTypes
  <2>7. ASSUME item' \in {ReturnCount(item, r.qty)}
        PROVE  item' \in ItemType(Seats)
    BY <2>1, <2>2, <2>7, StockTypes
  <2>. QED BY <2>2, <2>4, <2>5, <2>6, <2>7 DEF LateStock
<1>4. PayTypes'
  <2>1. r.order \in Orders /\ r.slot \in Slots \cup {None}
    BY <1>1 DEF LateType
  <2>2. r.op = "payments.create" => NewSlot(r.order) \in Slots
    BY <2>1, NewSlotOK DEF RunLate
  <2>3. pay' \in [Orders -> [Slots -> PayStatus]]
    BY <2>1, <2>2 DEF RunLate, LatePay, SetPay, TypeOK, PayTypes, PayStatus
  <2>. QED BY <2>3 DEF RunLate, TypeOK, PayTypes
<1>. QED BY <1>2, <1>3, <1>4, Frame DEF RunLate, TypeOK

LEMMA CrashTypes ==
  ASSUME SagaAssumption, TypeOK, Crash
  PROVE  TypeOK'
<1>1. used' \in [Kinds -> Nat]
  BY SpendTypes DEF Crash, Kinds, Faults
<1>2. TaskTypes'
  <2>1. \A w \in Workers : TaskOK(Restarted(task[w]))
    BY RestartedOK DEF TypeOK, TaskTypes
  <2>2. task' = [w \in Workers |-> Restarted(task[w])]
    BY DEF Crash
  <2>. QED BY <2>1, <2>2 DEF TaskTypes, TaskOK
<1>3. late' \subseteq LateType
  <2>1. ASSUME NEW w \in Workers PROVE InFlight(w) \subseteq LateType
    <3>1. CASE task[w].pc = "idle"
      BY <3>1 DEF InFlight, At
    <3>2. CASE task[w].pc # "idle"
      <4>1. task[w].pend \subseteq Seats /\ task[w].pays \subseteq Slots
        BY <3>2, BusyOK DEF TaskType
      <4>. QED BY <3>2, <4>1, LateTypes DEF InFlight, At
    <3>. QED BY <3>1, <3>2
  <2>. QED BY <2>1 DEF Crash, TypeOK
<1>. QED BY <1>1, <1>2, <1>3, Frame DEF Crash, TypeOK

-----------------------------------------------------------------------------
LEMMA InitTypes == ASSUME SagaAssumption, Init PROVE TypeOK
<1>1. OrderTypes /\ PayTypes /\ ClientTypes /\ HistoryTypes
  BY DEF Init, OrderTypes, PayTypes, ClientTypes, HistoryTypes, Status, PayStatus
<1>2. TaskTypes
  BY BlankOK DEF Init, TaskTypes, TaskOK
<1>3. item \in ItemType(Seats)
  BY DEF Init, ItemType, SagaAssumption
<1>. QED BY <1>1, <1>2, <1>3 DEF Init, TypeOK

LEMMA WorkerStepTypes ==
  ASSUME SagaAssumption, TypeOK, NEW w \in Workers, WorkerStep(w)
  PROVE  TypeOK'
BY CheckoutLookupTypes, ReserveSeatTypes, ReserveCountTypes, CreateOrderTypes,
   CreatePaymentTypes, RollbackReadTypes, RollbackCancelTypes, RollbackVoucherTypes,
   ReleaseSeatTypes, ReleaseCountTypes, CancelReadTypes, ClaimTypes,
   CancelVoucherTypes, CommitTypes, ListTypes, WritePaymentTypes, RefundReadTypes,
   PaidReadTypes, PaidVerifyTypes, PaidNextTypes, TransitionReadTypes,
   TransitionWriteTypes, IssueReadTypes, IssueWriteTypes, ExpireCheckReadTypes,
   ExpireCheckVerifyTypes, Zenon
   DEF WorkerStep

LEMMA NextTypes ==
  ASSUME SagaAssumption, TypeOK, [Next]_vars
  PROVE  TypeOK'
<1>1. CASE \E w \in Workers : WorkerStep(w)
  BY <1>1, WorkerStepTypes
<1>2. CASE \E w \in Workers : Deliver(w)
  BY <1>2, DeliverPaidEventTypes, DeliverExpireCheckTypes DEF Deliver
<1>3. CASE UNCHANGED vars
  BY <1>3, Frame DEF vars, TypeOK
<1>4. ASSUME NEW r \in late, RunLate(r) PROVE TypeOK'
  BY <1>4, RunLateTypes
<1>5. CASE \/ \E w \in Workers, o \in Orders : SubmitCheckout(w, o)
           \/ \E w \in Workers, o \in Orders, kind \in Commands : SendRequest(w, o, kind)
           \/ \E w \in Workers, o \in Orders : CronPick(w, o)
  BY <1>5, SubmitCheckoutTypes, SendRequestTypes, CronPickTypes
<1>6. CASE \/ \E o \in Orders : RemoveOrder(o)
           \/ \E o \in Orders : Age(o)
           \/ \E o \in Orders, s \in Slots : Settle(o, s)
           \/ Crash
  BY <1>6, RemoveOrderTypes, AgeTypes, SettleTypes, CrashTypes
<1>7. CASE Rest
  BY <1>3, <1>7 DEF Rest
<1>. QED BY <1>1, <1>2, <1>3, <1>4, <1>5, <1>6, <1>7 DEF Next

(* Every variable keeps its type, and only an idle worker is without an    *)
(* order: a handler, restarted or not, always finds the order it is about. *)
THEOREM SagaTypeCorrect == Spec => []TypeOK
<1>1. Init => TypeOK
  BY SagaAssumption, InitTypes
<1>2. TypeOK /\ [Next]_vars => TypeOK'
  BY SagaAssumption, NextTypes
<1>. QED BY <1>1, <1>2, PTL DEF Spec

-----------------------------------------------------------------------------
(* The counter and the pool of labels                                      *)

StockInv ==
  /\ TypeOK
  /\ item.seats = Seats /\ item.initial = InitialStock
  /\ PoolSound(item)

(* What a step does to the item: nothing, or one accepted operation.       *)
StockStep ==
  \/ UNCHANGED item
  \/ \E l \in Seats : CanTakeSeat(item, l) /\ item' = TakeSeat(item, l)
  \/ \E l \in Seats : CanReturnSeat(item, l) /\ item' = ReturnSeat(item, l)
  \/ \E q \in Nat : CanTakeCount(item, q)
       /\ \E S \in Allocations(item, q) : item' = TakeCount(item, q, S)
  \/ \E q \in Nat : CanReturnCount(item, q) /\ item' = ReturnCount(item, q)

LEMMA StockStepSound ==
  ASSUME SagaAssumption, StockInv, TypeOK', StockStep
  PROVE  StockInv'
<1>1. item \in ItemType(Seats) /\ IsFiniteSet(Seats) /\ PoolSound(item)
      /\ item.seats = Seats /\ item.initial = InitialStock
  BY DEF StockInv, TypeOK, SagaAssumption
<1>2. CASE UNCHANGED item
  BY <1>2 DEF StockInv, PoolSound
<1>3. ASSUME NEW l \in Seats, CanTakeSeat(item, l), item' = TakeSeat(item, l)
      PROVE  StockInv'
  BY <1>1, <1>3, TakeSeatSound, StockFixed DEF StockInv, PoolSound
<1>4. ASSUME NEW l \in Seats, CanReturnSeat(item, l), item' = ReturnSeat(item, l)
      PROVE  StockInv'
  <2>1. item.initial = Cardinality(item.seats)
    BY <1>1, <1>4 DEF SagaAssumption
  <2>. QED BY <1>1, <1>4, <2>1, ReturnSeatSound, StockFixed DEF StockInv, PoolSound
<1>5. ASSUME NEW q \in Nat, CanTakeCount(item, q), NEW S \in Allocations(item, q),
             item' = TakeCount(item, q, S)
      PROVE  StockInv'
  BY <1>1, <1>5, TakeCountSound, StockFixed DEF StockInv, PoolSound
<1>6. ASSUME NEW q \in Nat, CanReturnCount(item, q), item' = ReturnCount(item, q)
      PROVE  StockInv'
  BY <1>1, <1>6, ReturnCountSound, StockFixed DEF StockInv, PoolSound
<1>. QED BY <1>2, <1>3, <1>4, <1>5, <1>6 DEF StockStep

(* The steps of a handler that reach the item, by their own answer ...     *)
LEMMA WorkerStock ==
  ASSUME SagaAssumption, TypeOK, NEW w \in Workers, WorkerStep(w)
  PROVE  StockStep
<1>1. ASSUME NEW l \in Seats, ReserveSeat(w, l) PROVE StockStep
  <2>1. UNCHANGED item \/ (CanTakeSeat(item, l) /\ item' = TakeSeat(item, l))
    BY <1>1, Zenon DEF ReserveSeat
  <2>. QED BY <2>1 DEF StockStep
<1>2. ASSUME ReserveCount(w) PROVE StockStep
  <2>1. Extra[task[w].order] \in Nat
    BY <1>2, BusyOK DEF ReserveCount, At, SagaAssumption
  <2>. PICK q : q = Extra[task[w].order]
    OBVIOUS
  <2>2. \/ UNCHANGED item
        \/ /\ CanTakeCount(item, q)
           /\ \E S \in Allocations(item, q) : item' = TakeCount(item, q, S)
    BY <1>2, Zenon DEF ReserveCount
  <2>. QED BY <2>1, <2>2 DEF StockStep
<1>3. ASSUME NEW l \in Seats, ReleaseSeat(w, l) PROVE StockStep
  <2>1. UNCHANGED item \/ (CanReturnSeat(item, l) /\ item' = ReturnSeat(item, l))
    BY <1>3, Zenon DEF ReleaseSeat
  <2>. QED BY <2>1 DEF StockStep
<1>4. ASSUME ReleaseCount(w) PROVE StockStep
  <2>1. task[w].qty \in Nat
    BY <1>4, BusyOK DEF ReleaseCount, At, TaskType
  <2>. PICK q : q = task[w].qty
    OBVIOUS
  <2>2. UNCHANGED item \/ (CanReturnCount(item, q) /\ item' = ReturnCount(item, q))
    BY <1>4, Zenon DEF ReleaseCount
  <2>. QED BY <2>1, <2>2 DEF StockStep
<1>5. CASE \/ CheckoutLookup(w) \/ CreateOrder(w) \/ CreatePayment(w)
           \/ RollbackRead(w) \/ RollbackCancel(w) \/ RollbackVoucher(w)
           \/ CancelRead(w) \/ CancelClaim(w) \/ CancelVoucher(w) \/ CancelCommit(w)
           \/ ListOpenPayments(w) \/ \E s \in Slots : CancelPayment(w, s)
  BY <1>5 DEF CheckoutLookup, CreateOrder, CreatePayment, RollbackRead, RollbackCancel,
              RollbackVoucher, CancelRead, CancelClaim, CancelVoucher, CancelCommit,
              ListOpenPayments, CancelPayment, StockStep
<1>6. CASE \/ RefundRead(w) \/ RefundClaim(w) \/ ListPaidPayments(w)
           \/ \E s \in Slots : MarkRefunded(w, s)
           \/ RefundCommit(w) \/ PaidRead(w) \/ PaidVerify(w) \/ PaidNext(w)
           \/ TransitionRead(w) \/ TransitionWrite(w) \/ IssueRead(w) \/ IssueWrite(w)
           \/ ExpireCheckRead(w) \/ ExpireCheckVerify(w)
  BY <1>6 DEF RefundRead, RefundClaim, ListPaidPayments, MarkRefunded, RefundCommit,
              PaidRead, PaidVerify, PaidNext, TransitionRead, TransitionWrite, IssueRead,
              IssueWrite, ExpireCheckRead, ExpireCheckVerify, StockStep
<1>. QED BY <1>1, <1>2, <1>3, <1>4, <1>5, <1>6, Zenon DEF WorkerStep

(* ... and the requests the item's service takes after their caller left.  *)
LEMMA LateStockStep ==
  ASSUME SagaAssumption, TypeOK, NEW r \in late, RunLate(r)
  PROVE  StockStep
<1>1. r \in LateType /\ item' \in LateStock(r) /\ item \in ItemType(Seats)
  BY DEF TypeOK, RunLate
<1>2. r.qty \in Nat
  BY <1>1 DEF LateType
<1>3. CanTakeSeat(item, r.seat) \/ CanReturnSeat(item, r.seat) => r.seat \in Seats
  BY <1>1 DEF CanTakeSeat, CanReturnSeat, ItemType
<1>4. \/ item' = item
      \/ CanTakeSeat(item, r.seat) /\ item' = TakeSeat(item, r.seat)
      \/ CanReturnSeat(item, r.seat) /\ item' = ReturnSeat(item, r.seat)
      \/ /\ CanTakeCount(item, r.qty)
         /\ \E S \in Allocations(item, r.qty) : item' = TakeCount(item, r.qty, S)
      \/ CanReturnCount(item, r.qty) /\ item' = ReturnCount(item, r.qty)
  BY <1>1 DEF LateStock
<1>. QED BY <1>2, <1>3, <1>4 DEF StockStep

LEMMA NextStock ==
  ASSUME SagaAssumption, StockInv, [Next]_vars
  PROVE  StockInv'
<1>1. TypeOK /\ TypeOK'
  BY NextTypes DEF StockInv
<1>2. ASSUME NEW w \in Workers, WorkerStep(w) PROVE StockStep
  BY <1>1, <1>2, WorkerStock
<1>3. ASSUME NEW r \in late, RunLate(r) PROVE StockStep
  BY <1>1, <1>3, LateStockStep
<1>4. ASSUME \/ \E w \in Workers : Deliver(w)
             \/ \E w \in Workers, o \in Orders : SubmitCheckout(w, o)
             \/ \E w \in Workers, o \in Orders, kind \in Commands : SendRequest(w, o, kind)
             \/ \E w \in Workers, o \in Orders : CronPick(w, o)
      PROVE  StockStep
  BY <1>4 DEF Deliver, DeliverPaidEvent, DeliverExpireCheck, SubmitCheckout, SendRequest,
              CronPick, StockStep
<1>5. ASSUME \/ \E o \in Orders : RemoveOrder(o)
             \/ \E o \in Orders : Age(o)
             \/ \E o \in Orders, s \in Slots : Settle(o, s)
             \/ Crash \/ Rest \/ UNCHANGED vars
      PROVE  StockStep
  BY <1>5 DEF RemoveOrder, Age, Settle, Crash, Rest, vars, StockStep
<1>. QED BY <1>1, <1>2, <1>3, <1>4, <1>5, StockStepSound DEF Next

LEMMA InitStock == ASSUME SagaAssumption, Init PROVE StockInv
<1>1. TypeOK
  BY InitTypes
<1>2. item.seats = Seats /\ item.initial = InitialStock /\ item.avail = Seats
      /\ item.stock = InitialStock
  BY DEF Init
<1>. QED BY <1>1, <1>2 DEF StockInv, PoolSound, SagaAssumption

(* The counter of the item equals the number of its free labels and stays  *)
(* between zero and the initial stock, whatever checkouts, compensations,  *)
(* retries and requests executed late do to it.                            *)
THEOREM StockSound == Spec => []StockMatchesPool
<1>1. Init => StockInv
  BY SagaAssumption, InitStock
<1>2. StockInv /\ [Next]_vars => StockInv'
  BY SagaAssumption, NextStock
<1>3. StockInv => StockMatchesPool
  BY DEF StockInv, PoolSound, StockMatchesPool
<1>. QED BY <1>1, <1>2, <1>3, PTL DEF Spec

-----------------------------------------------------------------------------
(* No ticket without a settlement: an order is paid, confirmed or ticketed *)
(* only when its payer settled one of its payments or an operator marked   *)
(* it paid.                                                                *)
(*                                                                         *)
(* The status alone is not inductive: a handler decides on what it read    *)
(* and writes later.  The invariant therefore also says what a handler     *)
(* knows at each point: past the verification of a payment, and past the   *)
(* check of issueTicket, the settlement exists already; before the write   *)
(* of a transition, the status it compares with is one it may leave.  A    *)
(* handler restarted after a crash knows nothing, so it must start at one  *)
(* of the entries.                                                         *)

Ticketed == {"Paid", "Confirmed", "TicketIssued"}

Entries ==
  {"idle", "co_lookup", "cw_read", "rf_read", "tr_read", "it_read", "pp_read",
   "ec_read"}

PaidIsSettled ==
  \A o \in Orders, s \in Slots : pay[o][s] = "Paid" => <<o, s>> \in settled

(* The places where a handler relies on a settlement it saw earlier.       *)
Relies(t) ==
  \/ t.pc \in {"pp_next", "it_write"}
  \/ t.pc \in {"tr_read", "tr_write"} /\ t.job # "mark"

Warranted(t) ==
  /\ t.entry \in Entries
  /\ t.pc = "tr_write" => t.snap \in AllowedFor(t.target)
  /\ Relies(t) => Backed(t.order)

SettlementInv ==
  /\ TypeOK
  /\ PaidIsSettled
  /\ TicketNeedsSettlement
  /\ \A w \in Workers : Warranted(task[w])

(* A handler that relies on nothing. *)
Quiet(t) ==
  /\ t.entry \in Entries
  /\ t.pc \notin {"pp_next", "it_write", "tr_read", "tr_write"}

LEMMA QuietIsWarranted == ASSUME NEW t, Quiet(t) PROVE Warranted(t)
  BY DEF Quiet, Warranted, Relies

LEMMA QuietBlank == Quiet(Blank)
  BY DEF Quiet, Blank, Entries

LEMMA QuietRelease ==
  ASSUME NEW t \in TaskType, t.entry \in Entries, NEW ok \in BOOLEAN
  PROVE  /\ Quiet(AfterRelease(t, ok))
         /\ Quiet(BeginRelease(t))
<1>. DEFINE rest(b) == [Blank EXCEPT !.entry = t.entry, !.job = t.job, !.order = t.order,
                                     !.ref = t.ref, !.snap = t.snap, !.ok = b]
<1>1. ASSUME NEW b \in BOOLEAN PROVE Quiet(AfterRelease(t, b))
  <2>1. AfterRelease(t, b) =
          CASE t.job = "cancel"       -> [rest(b) EXCEPT !.pc = "cw_voucher"]
            [] t.job = "refund" /\ b  -> [rest(b) EXCEPT !.pc = "rf_commit"]
            [] OTHER                  -> Blank
    BY DEF AfterRelease
  <2>2. /\ [rest(b) EXCEPT !.pc = "cw_voucher"].entry = t.entry
        /\ [rest(b) EXCEPT !.pc = "cw_voucher"].pc = "cw_voucher"
        /\ [rest(b) EXCEPT !.pc = "rf_commit"].entry = t.entry
        /\ [rest(b) EXCEPT !.pc = "rf_commit"].pc = "rf_commit"
    BY DEF Blank
  <2>. HIDE DEF rest
  <2>. QED BY <2>1, <2>2, QuietBlank DEF Quiet
<1>2. Quiet(BeginRelease(t))
  BY <1>1 DEF BeginRelease, Quiet, TaskType
<1>. QED BY <1>1, <1>2

LEMMA QuietRetry ==
  ASSUME SagaAssumption, NEW t, TaskOK(t), t.entry \in Entries
  PROVE  Quiet(RetryRelease(t))
<1>1. CASE t.tries > 0
  <2>. DEFINE u == [t EXCEPT !.tries = @ - 1]
  <2>1. u \in TaskType /\ u.entry \in Entries
    BY <1>1 DEF TaskOK, TaskType
  <2>. HIDE DEF u
  <2>2. Quiet(BeginRelease(u))
    BY <2>1, QuietRelease
  <2>. QED BY <1>1, <2>2 DEF RetryRelease, u
<1>2. CASE ~(t.tries > 0)
  BY <1>2, QuietRelease DEF RetryRelease, TaskOK
<1>. QED BY <1>1, <1>2

LEMMA QuietOrderRelease ==
  ASSUME SagaAssumption, labels \in [Orders -> SUBSET Seats],
         NEW t, TaskOK(t), t.order \in Orders, t.entry \in Entries
  PROVE  Quiet(ReleaseOrder(t)) /\ Quiet(AfterCancelOpen(t))
<1>. DEFINE n == CountPart(t.order)
            u == [t EXCEPT !.held = labels[t.order], !.qty = n, !.pays = {}]
<1>1. n \in Nat
  BY CountPartOK
<1>. HIDE DEF n
<1>2. u \in TaskType /\ u.entry \in Entries
  BY <1>1 DEF TaskOK, TaskType
<1>3. ReleaseOrder(t) = BeginRelease(u)
  BY DEF ReleaseOrder, n
<1>. HIDE DEF u
<1>4. Quiet(ReleaseOrder(t))
  BY <1>2, <1>3, QuietRelease
<1>5. Quiet([t EXCEPT !.pc = "list_paid", !.pays = {}])
  BY DEF Quiet, TaskOK, TaskType
<1>. QED BY <1>4, <1>5 DEF AfterCancelOpen

LEMMA EntryWarranted ==
  ASSUME NEW e \in Entries, NEW o
  PROVE  /\ Warranted(NewTask(e, o))
         /\ NewTask(e, o).pc = e /\ NewTask(e, o).entry = e
         /\ NewTask(e, o).job = JobOf(e)
  BY DEF NewTask, Blank, Warranted, Relies, Entries, JobOf

-----------------------------------------------------------------------------
(* Settlements and marks are never taken back.                             *)
LEMMA BackedStays ==
  ASSUME settled \subseteq settled', manual \subseteq manual'
  PROVE  \A o : Backed(o) => Backed(o)'
  BY DEF Backed

LEMMA WarrantedStays ==
  ASSUME settled \subseteq settled', manual \subseteq manual', NEW t, Warranted(t)
  PROVE  Warranted(t)'
  BY BackedStays DEF Warranted, Relies

(* The parts of the invariant, and when each of them is kept.              *)
LEMMA PaidFrame ==
  ASSUME SettlementInv, settled \subseteq settled',
         \A o \in Orders, s \in Slots : pay'[o][s] = "Paid" => pay[o][s] = "Paid"
  PROVE  PaidIsSettled'
  BY DEF SettlementInv, PaidIsSettled

LEMMA TicketFrame ==
  ASSUME SettlementInv, settled \subseteq settled', manual \subseteq manual',
         \A o \in Orders : status'[o] \in Ticketed => status[o] \in Ticketed \/ Backed(o)'
  PROVE  TicketNeedsSettlement'
  BY BackedStays DEF SettlementInv, TicketNeedsSettlement, Ticketed

LEMMA TaskFrame ==
  ASSUME SettlementInv, settled \subseteq settled', manual \subseteq manual',
         NEW w \in Workers, NEW t, Warranted(t)', Become(w, t)
  PROVE  \A v \in Workers : Warranted(task[v])'
<1>1. task \in [Workers -> TaskType] /\ \A v \in Workers : Warranted(task[v])
  BY DEF SettlementInv, TypeOK, TaskTypes
<1>2. task' = [task EXCEPT ![w] = t]
  BY DEF Become
<1>3. ASSUME NEW v \in Workers PROVE Warranted(task[v])'
  <2>1. CASE v = w
    BY <1>1, <1>2, <2>1 DEF Warranted, Relies, Backed
  <2>2. CASE v # w
    <3>1. task'[v] = task[v] /\ Warranted(task[v])
      BY <1>1, <1>2, <2>2
    <3>2. \A u : Warranted(u) => Warranted(u)'
      BY WarrantedStays
    <3>. QED BY <3>1, <3>2 DEF Warranted, Relies, Backed
  <2>. QED BY <2>1, <2>2
<1>. QED BY <1>3

LEMMA SettlementFrame ==
  ASSUME SettlementInv, TypeOK', PaidIsSettled', TicketNeedsSettlement',
         \A v \in Workers : Warranted(task[v])'
  PROVE  SettlementInv'
  BY DEF SettlementInv

(* A step of one handler that pays nothing, tickets nothing and relies on  *)
(* nothing afterwards.                                                     *)
LEMMA QuietStep ==
  ASSUME SettlementInv, TypeOK', NEW w \in Workers, NEW t, Warranted(t), Become(w, t),
         UNCHANGED <<settled, manual>>,
         \A o \in Orders : status'[o] \in Ticketed => status[o] \in Ticketed,
         \A o \in Orders, s \in Slots : pay'[o][s] = "Paid" => pay[o][s] = "Paid"
  PROVE  SettlementInv'
<1>1. settled \subseteq settled' /\ manual \subseteq manual'
  OBVIOUS
<1>2. Warranted(t)'
  BY <1>1, WarrantedStays
<1>. QED BY <1>1, <1>2, PaidFrame, TicketFrame, TaskFrame, SettlementFrame

Loud == {"pp_next", "it_write", "tr_read", "tr_write"}

LEMMA HandlerFacts ==
  ASSUME SettlementInv, NEW w \in Workers
  PROVE  /\ task[w] \in TaskType /\ TaskOK(task[w]) /\ TypeOK
         /\ task[w].entry \in Entries /\ Warranted(task[w])
         /\ \A pc \in Steps \ Loud : Warranted([task[w] EXCEPT !.pc = pc])
<1>1. task[w] \in TaskType /\ TaskOK(task[w]) /\ TypeOK /\ Warranted(task[w])
  BY DEF SettlementInv, TypeOK, TaskTypes
<1>2. task[w].entry \in Entries
  BY <1>1 DEF Warranted
<1>3. ASSUME NEW pc \in Steps \ Loud PROVE Warranted([task[w] EXCEPT !.pc = pc])
  <2>1. [task[w] EXCEPT !.pc = pc].pc = pc /\ [task[w] EXCEPT !.pc = pc].entry = task[w].entry
    BY <1>1 DEF TaskType
  <2>. QED BY <1>2, <2>1, QuietIsWarranted DEF Quiet, Loud
<1>. QED BY <1>1, <1>2, <1>3

(* Goto and Finish in a handler that pays and tickets nothing.             *)
LEMMA GotoStep ==
  ASSUME SettlementInv, TypeOK', NEW w \in Workers,
         (\E pc \in Steps \ Loud : Goto(w, pc)) \/ Finish(w),
         UNCHANGED <<settled, manual>>,
         \A o \in Orders : status'[o] \in Ticketed => status[o] \in Ticketed,
         \A o \in Orders, s \in Slots : pay'[o][s] = "Paid" => pay[o][s] = "Paid"
  PROVE  SettlementInv'
<1>1. CASE Finish(w)
  BY <1>1, QuietBlank, QuietIsWarranted, QuietStep DEF Finish
<1>2. ASSUME NEW pc \in Steps \ Loud, Goto(w, pc) PROVE SettlementInv'
  <2>1. Warranted([task[w] EXCEPT !.pc = pc])
    BY HandlerFacts
  <2>. QED BY <1>2, <2>1, QuietStep DEF Goto
<1>. QED BY <1>1, <1>2

(* Starting the release of what the handler holds.                         *)
LEMMA ReleaseStep ==
  ASSUME SagaAssumption, SettlementInv, TypeOK', NEW w \in Workers,
         \/ Become(w, BeginRelease(task[w]))
         \/ Become(w, RetryRelease(task[w]))
         \/ \E ok \in BOOLEAN : Become(w, AfterRelease(task[w], ok))
         \/ /\ task[w].pc # "idle"
            /\ Become(w, ReleaseOrder(task[w])) \/ Become(w, AfterCancelOpen(task[w])),
         UNCHANGED <<settled, manual>>,
         \A o \in Orders : status'[o] \in Ticketed => status[o] \in Ticketed,
         \A o \in Orders, s \in Slots : pay'[o][s] = "Paid" => pay[o][s] = "Paid"
  PROVE  SettlementInv'
<1>. DEFINE t == task[w]
<1>1. t \in TaskType /\ TaskOK(t) /\ t.entry \in Entries /\ TypeOK
  BY HandlerFacts
<1>2. Warranted(BeginRelease(t)) /\ Warranted(RetryRelease(t))
  BY <1>1, QuietRelease, QuietRetry, QuietIsWarranted
<1>3. \A ok \in BOOLEAN : Warranted(AfterRelease(t, ok))
  BY <1>1, QuietRelease, QuietIsWarranted
<1>4. ASSUME t.pc # "idle" PROVE Warranted(ReleaseOrder(t)) /\ Warranted(AfterCancelOpen(t))
  BY <1>1, <1>4, BusyOK, QuietOrderRelease, QuietIsWarranted
<1>. HIDE DEF t
<1>5. CASE Become(w, BeginRelease(t))
  BY <1>2, <1>5, QuietStep
<1>6. CASE Become(w, RetryRelease(t))
  BY <1>2, <1>6, QuietStep
<1>7. ASSUME NEW ok \in BOOLEAN, Become(w, AfterRelease(t, ok)) PROVE SettlementInv'
  BY <1>3, <1>7, QuietStep
<1>8. CASE t.pc # "idle" /\ Become(w, ReleaseOrder(t))
  BY <1>4, <1>8, QuietStep
<1>9. CASE t.pc # "idle" /\ Become(w, AfterCancelOpen(t))
  BY <1>4, <1>9, QuietStep
<1>. QED BY <1>5, <1>6, <1>7, <1>8, <1>9 DEF t

(* Writing another status than Paid settles nothing. *)
LEMMA UnpaidFrame ==
  ASSUME TypeOK, NEW o, NEW s, NEW st, st # "Paid", SetPay(o, s, st)
  PROVE  \A p \in Orders, r \in Slots : pay'[p][r] = "Paid" => pay[p][r] = "Paid"
<1>1. pay' = [pay EXCEPT ![o][s] = st] /\ pay \in [Orders -> [Slots -> PayStatus]]
  BY DEF SetPay, TypeOK, PayTypes
<1>2. ASSUME NEW p \in Orders, NEW r \in Slots, pay'[p][r] = "Paid"
      PROVE  pay[p][r] = "Paid"
  <2>1. pay[p] \in [Slots -> PayStatus]
    BY <1>1
  <2>2. CASE p = o /\ r = s
    BY <1>1, <1>2, <2>1, <2>2
  <2>3. CASE p = o /\ r # s
    BY <1>1, <1>2, <2>1, <2>3
  <2>4. CASE p # o
    BY <1>1, <1>2, <2>4
  <2>. QED BY <2>2, <2>3, <2>4
<1>. QED BY <1>2

-----------------------------------------------------------------------------
(* checkout and its rollback                                               *)

LEMMA CheckoutSettles ==
  ASSUME SagaAssumption, SettlementInv, TypeOK', NEW w \in Workers,
         CheckoutLookup(w) \/ (\E l \in Seats : ReserveSeat(w, l)) \/ ReserveCount(w)
  PROVE  SettlementInv'
<1>. DEFINE t == task[w]
<1>1. UNCHANGED <<status, pay, settled, manual>>
  BY DEF CheckoutLookup, ReserveSeat, ReserveCount, orderVars, payVars, ghostVars
<1>2. t \in TaskType /\ t.entry \in Entries
  BY HandlerFacts
<1>3. CASE CheckoutLookup(w)
  BY <1>1, <1>3, GotoStep DEF CheckoutLookup, Steps, Loud
<1>4. ASSUME NEW l \in Seats, ReserveSeat(w, l) PROVE SettlementInv'
  <2>. DEFINE held == t.held \cup {l}
              pc == IF Wanted[t.order] \subseteq held /\ Extra[t.order] = 0
                    THEN "co_create" ELSE t.pc
              next == [t EXCEPT !.held = held, !.pc = pc]
  <2>1. Become(w, next) \/ Become(w, BeginRelease(t))
    BY <1>4 DEF ReserveSeat
  <2>2. pc \notin Loud /\ next.pc = pc /\ next.entry = t.entry
    BY <1>2, <1>4 DEF ReserveSeat, At, Loud, TaskType
  <2>3. Warranted(next)
    <3>. HIDE DEF next, pc
    <3>. QED BY <1>2, <2>2, QuietIsWarranted DEF Quiet, Loud
  <2>. HIDE DEF next
  <2>. QED BY <1>1, <2>1, <2>3, QuietStep, ReleaseStep
<1>5. CASE ReserveCount(w)
  <2>. DEFINE next(S) == [t EXCEPT !.held = @ \cup S, !.qty = Extra[t.order], !.pc = "co_create"]
  <2>1. Become(w, BeginRelease(t)) \/ \E S \in Allocations(item, Extra[t.order]) : Become(w, next(S))
    BY <1>5 DEF ReserveCount
  <2>2. ASSUME NEW S PROVE Warranted(next(S))
    <3>1. next(S).pc = "co_create" /\ next(S).entry = t.entry
      BY <1>2 DEF TaskType
    <3>. HIDE DEF next
    <3>. QED BY <1>2, <3>1, QuietIsWarranted DEF Quiet
  <2>. HIDE DEF next
  <2>. QED BY <1>1, <2>1, <2>2, QuietStep, ReleaseStep
<1>. QED BY <1>3, <1>4, <1>5

LEMMA CreateSettles ==
  ASSUME SagaAssumption, SettlementInv, TypeOK', NEW w \in Workers,
         CreateOrder(w) \/ CreatePayment(w)
  PROVE  SettlementInv'
<1>. DEFINE o == task[w].order
<1>1. UNCHANGED <<settled, manual>> /\ task[w].pc # "idle" /\ TypeOK
  BY HandlerFacts DEF CreateOrder, CreatePayment, ghostVars, At
<1>2. SetStatus(o, "PendingPayment") \/ UNCHANGED status
  BY DEF CreateOrder, CreatePayment, orderVars
<1>3. \A p \in Orders : status'[p] \in Ticketed => status[p] \in Ticketed
  BY <1>1, <1>2 DEF SetStatus, Ticketed, TypeOK, OrderTypes
<1>4. (\E s \in Slots : SetPay(o, s, "Pending")) \/ UNCHANGED pay
  <2>1. o \in Orders
    BY <1>1, BusyOK
  <2>. QED BY <2>1, NewSlotOK DEF CreateOrder, CreatePayment, payVars
<1>5. \A p \in Orders, s \in Slots : pay'[p][s] = "Paid" => pay[p][s] = "Paid"
  BY <1>1, <1>4, UnpaidFrame
<1>6. \/ Goto(w, "co_pay") \/ Become(w, BeginRelease(task[w]))
      \/ Finish(w) \/ Goto(w, "rb_read")
  BY DEF CreateOrder, CreatePayment
<1>7. {"co_pay", "rb_read"} \subseteq Steps \ Loud
  BY DEF Steps, Loud
<1>. QED BY <1>1, <1>3, <1>5, <1>6, <1>7, GotoStep, ReleaseStep

LEMMA RollbackSettles ==
  ASSUME SagaAssumption, SettlementInv, TypeOK', NEW w \in Workers,
         RollbackRead(w) \/ RollbackCancel(w) \/ RollbackVoucher(w)
  PROVE  SettlementInv'
<1>. DEFINE t == task[w]
            next == [t EXCEPT !.pc = "rb_cancel", !.snap = status[t.order]]
<1>1. UNCHANGED <<settled, manual, pay>> /\ TypeOK /\ t \in TaskType /\ t.entry \in Entries
  BY HandlerFacts DEF RollbackRead, RollbackCancel, RollbackVoucher, ghostVars, payVars
<1>2. \A p \in Orders : status'[p] \in Ticketed => status[p] \in Ticketed
  BY <1>1 DEF RollbackRead, RollbackCancel, RollbackVoucher, SetStatus, Ticketed,
              orderVars, TypeOK, OrderTypes
<1>3. \/ Become(w, next) \/ Become(w, BeginRelease(task[w])) \/ Goto(w, "rb_voucher")
  BY DEF RollbackRead, RollbackCancel, RollbackVoucher
<1>4. Warranted(next)
  <2>1. next.pc = "rb_cancel" /\ next.entry = t.entry
    BY <1>1 DEF TaskType
  <2>. HIDE DEF next
  <2>. QED BY <1>1, <2>1, QuietIsWarranted DEF Quiet
<1>5. "rb_voucher" \in Steps \ Loud
  BY DEF Steps, Loud
<1>. HIDE DEF next
<1>. QED BY <1>1, <1>2, <1>3, <1>4, <1>5, GotoStep, ReleaseStep, QuietStep

-----------------------------------------------------------------------------
(* releaseReservation, cancelWorkflow and refund                           *)

LEMMA ReleaseSettles ==
  ASSUME SagaAssumption, SettlementInv, TypeOK', NEW w \in Workers,
         (\E l \in Seats : ReleaseSeat(w, l)) \/ ReleaseCount(w)
  PROVE  SettlementInv'
<1>. DEFINE t == task[w]
            next(l) == [t EXCEPT !.pend = t.pend \ {l}]
            count(l) == [next(l) EXCEPT !.pc = "rel_count"]
<1>1. UNCHANGED <<settled, manual, pay, status>> /\ t \in TaskType /\ t.entry \in Entries
  BY HandlerFacts DEF ReleaseSeat, ReleaseCount, orderVars, payVars
<1>2. \/ \E l \in Seats : Become(w, next(l)) /\ t.pc = "rel_seats"
      \/ \E l \in Seats : Become(w, count(l))
      \/ Become(w, AfterRelease(t, TRUE)) \/ Become(w, RetryRelease(t))
  BY DEF ReleaseSeat, ReleaseCount, At
<1>3. ASSUME NEW l \in Seats
      PROVE  /\ t.pc = "rel_seats" => Warranted(next(l))
             /\ Warranted(count(l))
  <2>1. /\ next(l).pc = t.pc /\ next(l).entry = t.entry
        /\ count(l).pc = "rel_count" /\ count(l).entry = t.entry
    BY <1>1 DEF TaskType
  <2>. HIDE DEF next, count
  <2>. QED BY <1>1, <2>1, QuietIsWarranted DEF Quiet
<1>. HIDE DEF next, count
<1>4. CASE \E l \in Seats : Become(w, next(l)) /\ t.pc = "rel_seats"
  BY <1>1, <1>3, <1>4, QuietStep
<1>5. CASE \E l \in Seats : Become(w, count(l))
  BY <1>1, <1>3, <1>5, QuietStep
<1>6. CASE Become(w, AfterRelease(t, TRUE)) \/ Become(w, RetryRelease(t))
  BY <1>1, <1>6, ReleaseStep
<1>. QED BY <1>2, <1>4, <1>5, <1>6

LEMMA ReadSettles ==
  ASSUME SagaAssumption, SettlementInv, TypeOK', NEW w \in Workers,
         CancelRead(w) \/ RefundRead(w) \/ PaidRead(w)
  PROVE  SettlementInv'
<1>. DEFINE t == task[w]
            seen(pc) == [t EXCEPT !.pc = pc, !.snap = status[t.order]]
            read(pc) == [[t EXCEPT !.snap = status[t.order]] EXCEPT !.pc = pc]
<1>1. UNCHANGED <<settled, manual, pay, status>> /\ t \in TaskType /\ t.entry \in Entries
  BY HandlerFacts DEF CancelRead, RefundRead, PaidRead, orderVars, payVars, ghostVars
<1>2. \/ Goto(w, "list_open") \/ Finish(w)
      \/ \E pc \in {"cw_claim", "pp_verify"} : Become(w, seen(pc))
      \/ \E pc \in {"list_open", "rf_claim"} : Become(w, read(pc))
  BY DEF CancelRead, RefundRead, PaidRead, Finish
<1>3. ASSUME NEW pc \in {"cw_claim", "pp_verify", "list_open", "rf_claim"}
      PROVE  Warranted(seen(pc)) /\ Warranted(read(pc))
  <2>1. /\ seen(pc).pc = pc /\ seen(pc).entry = t.entry
        /\ read(pc).pc = pc /\ read(pc).entry = t.entry
    BY <1>1 DEF TaskType
  <2>. HIDE DEF seen, read
  <2>. QED BY <1>1, <2>1, QuietIsWarranted DEF Quiet
<1>4. "list_open" \in Steps \ Loud
  BY DEF Steps, Loud
<1>. HIDE DEF seen, read
<1>. QED BY <1>1, <1>2, <1>3, <1>4, GotoStep, QuietStep

LEMMA WriteSettles ==
  ASSUME SagaAssumption, SettlementInv, TypeOK', NEW w \in Workers,
         \/ CancelClaim(w) \/ CancelVoucher(w) \/ CancelCommit(w)
         \/ RefundClaim(w) \/ RefundCommit(w)
  PROVE  SettlementInv'
<1>1. UNCHANGED <<settled, manual, pay>> /\ TypeOK
  BY HandlerFacts DEF CancelClaim, CancelVoucher, CancelCommit, RefundClaim, RefundCommit,
                      payVars, ghostVars
<1>2. \/ UNCHANGED status
      \/ \E s \in Status \ Ticketed : SetStatus(task[w].order, s)
  BY DEF CancelClaim, CancelVoucher, CancelCommit, RefundClaim, RefundCommit, Ticketed,
         Status, Closed
<1>3. \A p \in Orders : status'[p] \in Ticketed => status[p] \in Ticketed
  BY <1>1, <1>2 DEF SetStatus, TypeOK, OrderTypes
<1>4. Goto(w, "list_open") \/ Goto(w, "cw_commit") \/ Finish(w)
  BY DEF CancelClaim, CancelVoucher, CancelCommit, RefundClaim, RefundCommit
<1>5. {"list_open", "cw_commit"} \subseteq Steps \ Loud
  BY DEF Steps, Loud
<1>. QED BY <1>1, <1>3, <1>4, <1>5, GotoStep

LEMMA PaymentsSettle ==
  ASSUME SagaAssumption, SettlementInv, TypeOK', NEW w \in Workers,
         \/ ListOpenPayments(w) \/ (\E s \in Slots : CancelPayment(w, s))
         \/ ListPaidPayments(w) \/ (\E s \in Slots : MarkRefunded(w, s))
  PROVE  SettlementInv'
<1>. DEFINE t == task[w]
            open(P) == [t EXCEPT !.pc = "cancel_open", !.pays = P]
            paid(P) == [t EXCEPT !.pc = "refund_paid", !.pays = P]
            next(P) == [t EXCEPT !.pays = P]
<1>1. /\ UNCHANGED <<settled, manual, status>> /\ TypeOK
      /\ t \in TaskType /\ t.entry \in Entries
      /\ t.pc \in {"list_open", "cancel_open", "list_paid", "refund_paid"}
  BY HandlerFacts DEF ListOpenPayments, CancelPayment, ListPaidPayments, MarkRefunded,
                      orderVars, ghostVars, At
<1>2. \/ UNCHANGED pay
      \/ \E s \in Slots : SetPay(t.order, s, "Cancelled") \/ SetPay(t.order, s, "Refunded")
  BY DEF ListOpenPayments, CancelPayment, ListPaidPayments, MarkRefunded, payVars
<1>3. \A p \in Orders, s \in Slots : pay'[p][s] = "Paid" => pay[p][s] = "Paid"
  BY <1>1, <1>2, UnpaidFrame
<1>4. \/ \E P : Become(w, open(P)) \/ Become(w, paid(P)) \/ Become(w, next(P))
      \/ Become(w, AfterCancelOpen(t)) \/ Become(w, ReleaseOrder(t))
  BY DEF ListOpenPayments, CancelPayment, ListPaidPayments, MarkRefunded
<1>5. ASSUME NEW P
      PROVE  Warranted(open(P)) /\ Warranted(paid(P)) /\ Warranted(next(P))
  <2>1. /\ open(P).pc = "cancel_open" /\ open(P).entry = t.entry
        /\ paid(P).pc = "refund_paid" /\ paid(P).entry = t.entry
        /\ next(P).pc = t.pc /\ next(P).entry = t.entry
    BY <1>1 DEF TaskType
  <2>. HIDE DEF open, paid, next
  <2>. QED BY <1>1, <2>1, QuietIsWarranted DEF Quiet
<1>. HIDE DEF open, paid, next
<1>. QED BY <1>1, <1>3, <1>4, <1>5, QuietStep, ReleaseStep

-----------------------------------------------------------------------------
(* The handlers of payment, where a settlement is needed and found         *)

(* What verifyPaymentSettledForOrder has seen is a settlement.             *)
LEMMA VerifiedIsBacked ==
  ASSUME SettlementInv, NEW o \in Orders, SlotsIn(o, "Paid") # {}
  PROVE  Backed(o)
  BY DEF SettlementInv, PaidIsSettled, SlotsIn, Backed

LEMMA AdvanceWarranted ==
  ASSUME NEW t \in TaskType, t.entry \in Entries, Backed(t.order), NEW s
  PROVE  Warranted(Advance(t, s))
<1>. DEFINE u(x) == [t EXCEPT !.pc = "tr_read", !.target = x]
            v == [t EXCEPT !.pc = "it_read"]
<1>1. \A x : u(x).pc = "tr_read" /\ u(x).entry = t.entry /\ u(x).order = t.order
  BY DEF TaskType
<1>2. v.pc = "it_read" /\ v.entry = t.entry
  BY DEF TaskType
<1>3. Advance(t, s) \in {u("Paid"), u("Confirmed"), v, Blank}
  BY DEF Advance
<1>4. Warranted(Blank)
  BY QuietBlank, QuietIsWarranted
<1>. HIDE DEF u, v
<1>. QED BY <1>1, <1>2, <1>3, <1>4 DEF Warranted, Relies

LEMMA PaidVerifySettles ==
  ASSUME SagaAssumption, SettlementInv, TypeOK', NEW w \in Workers, PaidVerify(w)
  PROVE  SettlementInv'
<1>. DEFINE t == task[w]
            next == [t EXCEPT !.job = "refund", !.pc = "rf_read"]
<1>1. UNCHANGED <<settled, manual, pay, status>> /\ TypeOK
      /\ t \in TaskType /\ t.entry \in Entries /\ t.pc # "idle"
  BY HandlerFacts DEF PaidVerify, orderVars, payVars, ghostVars, At
<1>2. t.order \in Orders
  BY <1>1, BusyOK
<1>3. \/ Become(w, Blank) \/ Become(w, next)
      \/ SlotsIn(t.order, "Paid") # {} /\ Become(w, Advance(t, t.snap))
  BY DEF PaidVerify, Finish
<1>4. Warranted(next)
  <2>1. next.pc = "rf_read" /\ next.entry = t.entry
    BY <1>1 DEF TaskType
  <2>. HIDE DEF next
  <2>. QED BY <1>1, <2>1, QuietIsWarranted DEF Quiet
<1>5. SlotsIn(t.order, "Paid") # {} => Warranted(Advance(t, t.snap))
  BY <1>1, <1>2, VerifiedIsBacked, AdvanceWarranted
<1>6. Warranted(Blank)
  BY QuietBlank, QuietIsWarranted
<1>. HIDE DEF next
<1>. QED BY <1>1, <1>3, <1>4, <1>5, <1>6, QuietStep

LEMMA PaidNextSettles ==
  ASSUME SagaAssumption, SettlementInv, TypeOK', NEW w \in Workers, PaidNext(w)
  PROVE  SettlementInv'
<1>. DEFINE t == task[w]
<1>1. UNCHANGED <<settled, manual, pay, status>> /\ t \in TaskType /\ t.entry \in Entries
      /\ Warranted(t) /\ t.pc = "pp_next"
  BY HandlerFacts DEF PaidNext, orderVars, payVars, ghostVars, At
<1>2. \A s : Warranted(Advance(t, s))
  BY <1>1, AdvanceWarranted DEF Warranted, Relies
<1>3. Warranted(Blank)
  BY QuietBlank, QuietIsWarranted
<1>4. Become(w, Blank) \/ \E s : Become(w, Advance(t, s))
  BY DEF PaidNext
<1>. QED BY <1>1, <1>2, <1>3, <1>4, QuietStep

LEMMA TransitionReadSettles ==
  ASSUME SagaAssumption, SettlementInv, TypeOK', NEW w \in Workers, TransitionRead(w)
  PROVE  SettlementInv'
<1>. DEFINE t == task[w]
            s == status[t.order]
            next == [t EXCEPT !.pc = "tr_write", !.snap = s]
<1>1. UNCHANGED <<settled, manual, pay, status>> /\ t \in TaskType /\ t.entry \in Entries
      /\ Warranted(t) /\ t.pc = "tr_read"
  BY HandlerFacts DEF TransitionRead, orderVars, payVars, ghostVars, At
<1>2. (s \in AllowedFor(t.target) /\ Become(w, next)) \/ Finish(w)
  BY DEF TransitionRead
<1>3. s \in AllowedFor(t.target) => Warranted(next)
  <2>1. /\ next.pc = "tr_write" /\ next.entry = t.entry /\ next.order = t.order
        /\ next.job = t.job /\ next.snap = s /\ next.target = t.target
    BY <1>1 DEF TaskType
  <2>. HIDE DEF next
  <2>. QED BY <1>1, <2>1 DEF Warranted, Relies
<1>. HIDE DEF next
<1>. QED BY <1>1, <1>2, <1>3, GotoStep, QuietStep

(* The write of markPaid and confirm: Paid needs an operator's word or a   *)
(* settlement seen before, Confirmed an order that is Paid or ticketed.    *)
LEMMA TransitionWriteSettles ==
  ASSUME SagaAssumption, SettlementInv, TypeOK', NEW w \in Workers, TransitionWrite(w)
  PROVE  SettlementInv'
<1>. PICK t : t = task[w]
  OBVIOUS
<1>. PICK o : o = t.order
  OBVIOUS
<1>. PICK next : next = [t EXCEPT !.pc = "pp_next"]
  OBVIOUS
<1>1. /\ UNCHANGED <<settled, pay>> /\ manual \subseteq manual' /\ TypeOK
      /\ t \in TaskType /\ TaskOK(t) /\ Warranted(t) /\ t.pc = "tr_write"
  BY HandlerFacts DEF TransitionWrite, payVars, At
<1>2. o \in Orders
  BY <1>1, BusyOK
<1>3. t.snap \in AllowedFor(t.target) /\ (t.job # "mark" => Backed(o))
  BY <1>1 DEF Warranted, Relies
<1>4. TicketNeedsSettlement'
  <2>1. CASE UNCHANGED status
    BY <1>1, <2>1, TicketFrame
  <2>2. CASE Matches(o, t.snap) /\ SetStatus(o, t.target)
    <3>1. ASSUME t.target \in Ticketed PROVE Backed(o)'
      <4>1. CASE t.target = "Paid"
        <5>1. CASE t.job = "mark"
          BY <2>2, <4>1, <5>1 DEF TransitionWrite, Backed
        <5>2. CASE t.job # "mark"
          BY <1>1, <1>3, <5>2, BackedStays
        <5>. QED BY <5>1, <5>2
      <4>2. CASE t.target = "Confirmed"
        <5>1. status[o] \in {"Paid", "TicketIssued"}
          BY <1>3, <2>2, <4>2 DEF AllowedFor, Matches
        <5>2. Backed(o)
          BY <1>2, <5>1 DEF SettlementInv, TicketNeedsSettlement
        <5>. QED BY <1>1, <5>2, BackedStays
      <4>3. CASE t.target = "TicketIssued"
        BY <1>3, <4>3 DEF AllowedFor
      <4>. QED BY <3>1, <4>1, <4>2, <4>3 DEF Ticketed
    <3>2. \A p \in Orders : status'[p] \in Ticketed => status[p] \in Ticketed \/ Backed(p)'
      BY <1>1, <2>2, <3>1 DEF SetStatus, TypeOK, OrderTypes
    <3>. QED BY <1>1, <3>2, TicketFrame
  <2>. QED BY <2>1, <2>2 DEF TransitionWrite
<1>5. PaidIsSettled'
  BY <1>1, PaidFrame
<1>6. \A v \in Workers : Warranted(task[v])'
  <2>1. (t.job = "paid" /\ Become(w, next)) \/ Become(w, Blank)
    BY DEF TransitionWrite, Goto, Finish
  <2>2. t.job = "paid" => Warranted(next)
    <3>1. next.pc = "pp_next" /\ next.entry = t.entry /\ next.order = t.order
      BY <1>1 DEF TaskType
    <3>. QED BY <1>1, <1>3, <3>1 DEF Warranted, Relies
  <2>3. Warranted(Blank)
    BY QuietBlank, QuietIsWarranted
  <2>4. (t.job = "paid" => Warranted(next)') /\ Warranted(Blank)'
    BY <1>1, <2>2, <2>3, WarrantedStays
  <2>. QED BY <1>1, <2>1, <2>4, TaskFrame
<1>. QED BY <1>4, <1>5, <1>6, SettlementFrame

(* issueTicket goes on to its write only from a status that needs a        *)
(* settlement, and a settlement stays.                                     *)
LEMMA IssueReadSettles ==
  ASSUME SagaAssumption, SettlementInv, TypeOK', NEW w \in Workers, IssueRead(w)
  PROVE  SettlementInv'
<1>. DEFINE t == task[w]
            next == [t EXCEPT !.pc = "it_write"]
<1>1. UNCHANGED <<settled, manual, pay, status>> /\ t \in TaskType /\ t.entry \in Entries
      /\ t.pc # "idle" /\ TypeOK
  BY HandlerFacts DEF IssueRead, orderVars, payVars, ghostVars, At
<1>2. t.order \in Orders
  BY <1>1, BusyOK
<1>3. (status[t.order] \in {"Paid", "Confirmed"} /\ Become(w, next)) \/ Finish(w)
  BY DEF IssueRead, Goto
<1>4. status[t.order] \in {"Paid", "Confirmed"} => Warranted(next)
  <2>1. next.pc = "it_write" /\ next.entry = t.entry /\ next.order = t.order
    BY <1>1 DEF TaskType
  <2>2. status[t.order] \in {"Paid", "Confirmed"} => Backed(t.order)
    BY <1>2 DEF SettlementInv, TicketNeedsSettlement
  <2>. HIDE DEF next
  <2>. QED BY <1>1, <2>1, <2>2 DEF Warranted
<1>. HIDE DEF next
<1>. QED BY <1>1, <1>3, <1>4, GotoStep, QuietStep

LEMMA IssueWriteSettles ==
  ASSUME SagaAssumption, SettlementInv, TypeOK', NEW w \in Workers, IssueWrite(w)
  PROVE  SettlementInv'
<1>. PICK o : o = task[w].order
  OBVIOUS
<1>1. UNCHANGED <<settled, manual, pay>> /\ task[w].pc = "it_write" /\ TypeOK
  BY HandlerFacts DEF IssueWrite, payVars, ghostVars, At
<1>2. o \in Orders
  BY <1>1, BusyOK
<1>3. Backed(o)
  BY <1>1, HandlerFacts DEF Warranted, Relies
<1>4. TicketNeedsSettlement'
  <2>1. SetStatus(o, "TicketIssued") /\ Backed(o)'
    BY <1>1, <1>3, BackedStays DEF IssueWrite
  <2>2. \A p \in Orders : status'[p] \in Ticketed => status[p] \in Ticketed \/ Backed(p)'
    BY <1>1, <2>1 DEF SetStatus, TypeOK, OrderTypes
  <2>. QED BY <1>1, <2>2, TicketFrame
<1>5. PaidIsSettled'
  BY <1>1, PaidFrame
<1>6. \A v \in Workers : Warranted(task[v])'
  <2>1. Warranted(Blank)'
    BY <1>1, QuietBlank, QuietIsWarranted, WarrantedStays
  <2>2. Become(w, Blank)
    BY DEF IssueWrite, Finish
  <2>. QED BY <1>1, <2>1, <2>2, TaskFrame
<1>. QED BY <1>4, <1>5, <1>6, SettlementFrame

-----------------------------------------------------------------------------
(* Handlers that begin, and what happens around them                       *)

LEMMA BeginSettles ==
  ASSUME SagaAssumption, SettlementInv, TypeOK', NEW w \in Workers,
         \/ \E o \in Orders : SubmitCheckout(w, o)
         \/ \E o \in Orders : DeliverExpireCheck(w, o)
         \/ \E o \in Orders : CronPick(w, o)
         \/ \E o \in Orders, kind \in Commands : SendRequest(w, o, kind)
         \/ \E e \in paidEvents : DeliverPaidEvent(w, e)
  PROVE  SettlementInv'
<1>. DEFINE ref(o, r) == [NewTask("pp_read", o) EXCEPT !.ref = r]
            cron(e, o) == [NewTask(e, o) EXCEPT !.entry = "idle"]
            send(e, o, s) == [NewTask(e, o) EXCEPT !.target = s]
<1>1. UNCHANGED <<settled, manual, pay, status>>
  BY DEF SubmitCheckout, DeliverExpireCheck, CronPick, SendRequest, DeliverPaidEvent,
         orderVars, payVars, ghostVars
<1>2. \/ \E o : Become(w, NewTask("co_lookup", o)) \/ Become(w, NewTask("ec_read", o))
      \/ \E o, r : Become(w, ref(o, r))
      \/ \E o : Become(w, cron("cw_read", o)) \/ Become(w, cron("rf_read", o))
      \/ \E o, s : \E e \in {"cw_read", "rf_read", "it_read", "tr_read"} :
           Become(w, send(e, o, s))
  BY DEF SubmitCheckout, DeliverExpireCheck, CronPick, SendRequest, DeliverPaidEvent, EntryOf
<1>3. \A o : Warranted(NewTask("co_lookup", o)) /\ Warranted(NewTask("ec_read", o))
  BY EntryWarranted DEF Entries
<1>4. \A o, r : Warranted(ref(o, r))
  BY DEF Warranted, Relies, NewTask, Blank, Entries
<1>5. \A o : Warranted(cron("cw_read", o)) /\ Warranted(cron("rf_read", o))
  BY DEF Warranted, Relies, NewTask, Blank, Entries
<1>6. \A o, s : \A e \in {"cw_read", "rf_read", "it_read", "tr_read"} :
           Warranted(send(e, o, s))
  BY DEF Warranted, Relies, NewTask, Blank, Entries, JobOf
<1>. HIDE DEF ref, cron, send
<1>. QED BY <1>1, <1>2, <1>3, <1>4, <1>5, <1>6, QuietStep

LEMMA ExpireCheckSettles ==
  ASSUME SagaAssumption, SettlementInv, TypeOK', NEW w \in Workers,
         ExpireCheckRead(w) \/ ExpireCheckVerify(w)
  PROVE  SettlementInv'
<1>. DEFINE t == task[w]
            u == [t EXCEPT !.job = "paid", !.pc = "pp_read"]
            v == [t EXCEPT !.job = "cancel", !.pc = "cw_read"]
<1>1. UNCHANGED <<settled, manual, pay, status>> /\ t \in TaskType /\ t.entry \in Entries
  BY HandlerFacts DEF ExpireCheckRead, ExpireCheckVerify, orderVars, payVars, ghostVars
<1>2. Goto(w, "ec_verify") \/ Finish(w) \/ Become(w, u) \/ Become(w, v)
  BY DEF ExpireCheckRead, ExpireCheckVerify
<1>3. Warranted(u) /\ Warranted(v)
  <2>1. u.pc = "pp_read" /\ u.entry = t.entry /\ v.pc = "cw_read" /\ v.entry = t.entry
    BY <1>1 DEF TaskType
  <2>. HIDE DEF u, v
  <2>. QED BY <1>1, <2>1, QuietIsWarranted DEF Quiet
<1>4. "ec_verify" \in Steps \ Loud
  BY DEF Steps, Loud
<1>. HIDE DEF u, v
<1>. QED BY <1>1, <1>2, <1>3, <1>4, GotoStep, QuietStep

(* The tasks all stay what they were.                                      *)
LEMMA TasksStay ==
  ASSUME SettlementInv, settled \subseteq settled', manual \subseteq manual', UNCHANGED task
  PROVE  \A v \in Workers : Warranted(task[v])'
<1>1. ASSUME NEW v \in Workers PROVE Warranted(task[v])'
  <2>1. \A u : Warranted(u) => Warranted(u)'
    BY WarrantedStays
  <2>2. Warranted(task[v]) /\ task'[v] = task[v]
    BY DEF SettlementInv
  <2>. QED BY <2>1, <2>2 DEF Warranted, Relies, Backed
<1>. QED BY <1>1

LEMMA EnvironmentSettles ==
  ASSUME SettlementInv, TypeOK',
         \/ \E o \in Orders : RemoveOrder(o)
         \/ \E o \in Orders : Age(o)
         \/ UNCHANGED vars
  PROVE  SettlementInv'
<1>1. UNCHANGED <<settled, manual, pay, status, task>>
  BY DEF RemoveOrder, Age, vars, orderVars, payVars, ghostVars
<1>. QED BY <1>1, PaidFrame, TicketFrame, TasksStay, SettlementFrame

LEMMA SettleSettles ==
  ASSUME SettlementInv, TypeOK', NEW o \in Orders, NEW s \in Slots, Settle(o, s)
  PROVE  SettlementInv'
<1>1. UNCHANGED <<manual, status, task>> /\ settled \subseteq settled'
  BY DEF Settle, orderVars
<1>2. PaidIsSettled'
  <2>1. pay' = [pay EXCEPT ![o][s] = "Paid"] /\ settled' = settled \cup {<<o, s>>}
        /\ pay \in [Orders -> [Slots -> PayStatus]]
    BY DEF Settle, SetPay, SettlementInv, TypeOK, PayTypes
  <2>2. ASSUME NEW p \in Orders, NEW r \in Slots, pay'[p][r] = "Paid"
        PROVE  <<p, r>> \in settled'
    <3>1. CASE p = o /\ r = s
      BY <2>1, <3>1
    <3>2. CASE ~(p = o /\ r = s)
      <4>1. pay[p] \in [Slots -> PayStatus]
        BY <2>1
      <4>2. pay'[p][r] = pay[p][r]
        BY <2>1, <3>2, <4>1
      <4>. QED BY <2>1, <2>2, <4>2 DEF SettlementInv, PaidIsSettled
    <3>. QED BY <3>1, <3>2
  <2>. QED BY <2>2 DEF PaidIsSettled
<1>. QED BY <1>1, <1>2, TicketFrame, TasksStay, SettlementFrame

LEMMA RunLateSettles ==
  ASSUME SettlementInv, TypeOK', NEW r \in late, RunLate(r)
  PROVE  SettlementInv'
<1>1. UNCHANGED <<settled, manual, status, task>> /\ TypeOK
  BY DEF RunLate, orderVars, ghostVars, SettlementInv
<1>2. \/ UNCHANGED pay
      \/ \E o, s : \E st \in {"Pending", "Cancelled", "Refunded"} : SetPay(o, s, st)
  BY DEF RunLate, LatePay
<1>3. \A p \in Orders, s \in Slots : pay'[p][s] = "Paid" => pay[p][s] = "Paid"
  BY <1>1, <1>2, UnpaidFrame
<1>. QED BY <1>1, <1>3, PaidFrame, TicketFrame, TasksStay, SettlementFrame

LEMMA RestartedWarranted ==
  ASSUME NEW t, t.entry \in Entries
  PROVE  Warranted(Restarted(t))
<1>. DEFINE target == IF t.entry = "tr_read" THEN t.target ELSE "None"
            u == [NewTask(t.entry, t.order) EXCEPT !.ref = t.ref, !.target = target]
<1>1. CASE t.entry = "idle"
  BY <1>1, QuietBlank, QuietIsWarranted DEF Restarted
<1>2. CASE t.entry # "idle"
  <2>1. u.pc = t.entry /\ u.entry = t.entry /\ u.job = JobOf(t.entry)
    BY DEF NewTask, Blank
  <2>2. Restarted(t) = u
    BY <1>2 DEF Restarted
  <2>. HIDE DEF u
  <2>. QED BY <2>1, <2>2 DEF Warranted, Relies, Entries, JobOf
<1>. QED BY <1>1, <1>2

LEMMA CrashSettles ==
  ASSUME SettlementInv, TypeOK', Crash
  PROVE  SettlementInv'
<1>1. UNCHANGED <<settled, manual, status, pay>>
  BY DEF Crash, orderVars, payVars, ghostVars
<1>2. ASSUME NEW v \in Workers PROVE Warranted(task[v])'
  <2>1. PICK u : u = Restarted(task[v])
    OBVIOUS
  <2>2. Warranted(u)
    BY <2>1, HandlerFacts, RestartedWarranted
  <2>3. Warranted(u)'
    BY <1>1, <2>2, WarrantedStays
  <2>4. task'[v] = u
    BY <2>1 DEF Crash
  <2>. QED BY <2>3, <2>4 DEF Warranted, Relies, Backed
<1>. QED BY <1>1, <1>2, PaidFrame, TicketFrame, SettlementFrame

-----------------------------------------------------------------------------
LEMMA InitSettlement == ASSUME SagaAssumption, Init PROVE SettlementInv
<1>1. TypeOK
  BY InitTypes
<1>2. PaidIsSettled /\ TicketNeedsSettlement
  BY DEF Init, PaidIsSettled, TicketNeedsSettlement
<1>3. \A w \in Workers : Warranted(task[w])
  BY QuietBlank, QuietIsWarranted DEF Init
<1>. QED BY <1>1, <1>2, <1>3 DEF SettlementInv

LEMMA NextSettlement ==
  ASSUME SagaAssumption, SettlementInv, [Next]_vars
  PROVE  SettlementInv'
<1>1. TypeOK'
  BY NextTypes DEF SettlementInv
<1>2. ASSUME NEW w \in Workers, WorkerStep(w) PROVE SettlementInv'
  BY <1>1, <1>2, CheckoutSettles, CreateSettles, RollbackSettles, ReleaseSettles,
     ReadSettles, WriteSettles, PaymentsSettle, PaidVerifySettles, PaidNextSettles,
     TransitionReadSettles, TransitionWriteSettles, IssueReadSettles, IssueWriteSettles,
     ExpireCheckSettles, Zenon
     DEF WorkerStep
<1>3. ASSUME NEW w \in Workers, Deliver(w) PROVE SettlementInv'
  BY <1>1, <1>3, BeginSettles DEF Deliver
<1>4. CASE \/ \E w \in Workers, o \in Orders : SubmitCheckout(w, o)
           \/ \E w \in Workers, o \in Orders, kind \in Commands : SendRequest(w, o, kind)
           \/ \E w \in Workers, o \in Orders : CronPick(w, o)
  BY <1>1, <1>4, BeginSettles
<1>5. CASE \/ \E o \in Orders : RemoveOrder(o)
           \/ \E o \in Orders : Age(o)
           \/ Rest \/ UNCHANGED vars
  BY <1>1, <1>5, EnvironmentSettles DEF Rest
<1>6. CASE \/ \E o \in Orders, s \in Slots : Settle(o, s)
           \/ \E r \in late : RunLate(r)
           \/ Crash
  BY <1>1, <1>6, SettleSettles, RunLateSettles, CrashSettles
<1>. QED BY <1>2, <1>3, <1>4, <1>5, <1>6 DEF Next

(* An order is Paid, Confirmed or TicketIssued only when one of its        *)
(* payments was settled or an operator marked it paid (the promise of      *)
(* verifyPaymentSettledForOrder), for any number of handlers, payments,    *)
(* crashes, lost answers and commands.                                     *)
THEOREM SettlementBeforeTicket == Spec => []TicketNeedsSettlement
<1>1. Init => SettlementInv
  BY SagaAssumption, InitSettlement
<1>2. SettlementInv /\ [Next]_vars => SettlementInv'
  BY SagaAssumption, NextSettlement
<1>3. SettlementInv => TicketNeedsSettlement
  BY DEF SettlementInv
<1>. QED BY <1>1, <1>2, <1>3, PTL DEF Spec

-----------------------------------------------------------------------------
(* No order is closed by a cancel or a refund before each of its seats and *)
(* its part by count was handed back.                                      *)
(*                                                                         *)
(* What the terminal write relies on happened several steps earlier, label *)
(* by label, across failed attempts.  The invariant follows it: while a    *)
(* handler releases, it holds exactly the parts of its order, and those it *)
(* no longer waits for are returned; a handler that is to write the        *)
(* terminal status has returned them all.  Labels never change once the    *)
(* order exists, so the parts it releases are still the order's parts.     *)

CheckoutSteps ==
  {"co_lookup", "co_reserve", "co_create", "co_pay", "rb_read", "rb_cancel", "rb_voucher"}
ReleaseSteps == {"rel_seats", "rel_count"}
Batch == {"list_open", "cancel_open", "list_paid", "refund_paid"} \cup ReleaseSteps
Compensates(t) == t.job \in {"cancel", "refund"}

ReturnedAll(o) == status[o] # "None" /\ Parts(o) \subseteq returned[o]

(* The handler is to write the terminal status. *)
Done(t) == (t.pc = "cw_voucher" /\ t.ok) \/ t.pc \in {"cw_commit", "rf_commit"}

HoldsParts(t) ==
  /\ status[t.order] # "None"
  /\ t.held = labels[t.order] /\ t.qty = CountPart(t.order)

Faithful(t) ==
  /\ t.pc \in CheckoutSteps => t.job = "checkout"
  /\ Compensates(t) /\ t.pc \in Batch => status[t.order] # "None"
  /\ Compensates(t) /\ t.pc \in ReleaseSteps =>
       /\ HoldsParts(t)
       /\ t.held \ t.pend \subseteq returned[t.order]
       /\ t.pc = "rel_count" => t.pend = {}
  /\ Done(t) => ReturnedAll(t.order)

ReleaseInv ==
  /\ SettlementInv
  /\ ClosedOrderReturnedParts
  /\ \A w \in Workers : Faithful(task[w])

(* A handler that is at none of these places. *)
Plain(t) ==
  t.pc \notin CheckoutSteps \cup Batch \cup {"cw_voucher", "cw_commit", "rf_commit"}

LEMMA PlainIsFaithful == ASSUME NEW t, Plain(t) PROVE Faithful(t)
  BY DEF Plain, Faithful, Done, CheckoutSteps, Batch, ReleaseSteps

LEMMA PlainBlank == Plain(Blank)
  BY DEF Plain, Blank, CheckoutSteps, Batch, ReleaseSteps

(* Where releaseReservation goes when it ends.                             *)
LEMMA AfterReleaseCases ==
  ASSUME NEW t \in TaskType, NEW ok \in BOOLEAN, NEW u, u = AfterRelease(t, ok)
  PROVE  \/ Plain(u)
         \/ u.pc = "cw_voucher" /\ u.ok = ok /\ u.order = t.order /\ Compensates(t)
         \/ u.pc = "rf_commit" /\ ok /\ u.order = t.order /\ Compensates(t)
<1>. DEFINE rest == [Blank EXCEPT !.entry = t.entry, !.job = t.job, !.order = t.order,
                                  !.ref = t.ref, !.snap = t.snap, !.ok = ok]
            x == [rest EXCEPT !.pc = "cw_voucher"]
            y == [rest EXCEPT !.pc = "rf_commit"]
<1>1. u = CASE t.job = "cancel"       -> x
            [] t.job = "refund" /\ ok -> y
            [] OTHER                  -> Blank
  BY DEF AfterRelease
<1>2. /\ x.pc = "cw_voucher" /\ x.ok = ok /\ x.order = t.order
      /\ y.pc = "rf_commit" /\ y.order = t.order
  BY DEF Blank
<1>. HIDE DEF x, y
<1>. QED BY <1>1, <1>2, PlainBlank DEF Compensates

LEMMA AfterReleaseFaithful ==
  ASSUME NEW t \in TaskType, NEW ok \in BOOLEAN,
         ok /\ Compensates(t) => ReturnedAll(t.order)
  PROVE  Faithful(AfterRelease(t, ok))
<1>. PICK u : u = AfterRelease(t, ok)
  OBVIOUS
<1>1. CASE Plain(u)
  BY <1>1, PlainIsFaithful
<1>2. CASE u.pc \in {"cw_voucher", "rf_commit"} /\ u.order = t.order /\ Compensates(t)
           /\ (u.pc = "cw_voucher" => u.ok = ok) /\ (u.pc = "rf_commit" => ok)
  BY <1>2 DEF Faithful, Done, CheckoutSteps, Batch, ReleaseSteps
<1>. QED BY <1>1, <1>2, AfterReleaseCases

LEMMA BeginReleaseFaithful ==
  ASSUME SagaAssumption, NEW t \in TaskType, t.order \in Orders,
         labels \in [Orders -> SUBSET Seats], Compensates(t) => HoldsParts(t)
  PROVE  Faithful(BeginRelease(t))
<1>. PICK u : u = [t EXCEPT !.pc = "rel_seats", !.pend = t.held]
  OBVIOUS
<1>. PICK v : v = [t EXCEPT !.pc = "rel_count", !.pend = {}]
  OBVIOUS
<1>1. /\ u.pc = "rel_seats" /\ u.pend = t.held /\ u.held = t.held /\ u.qty = t.qty
      /\ u.order = t.order /\ u.job = t.job
      /\ v.pc = "rel_count" /\ v.pend = {} /\ v.held = t.held /\ v.qty = t.qty
      /\ v.order = t.order /\ v.job = t.job
  BY DEF TaskType
<1>2. Faithful(u)
  BY <1>1 DEF Faithful, HoldsParts, Compensates, Done, CheckoutSteps, Batch, ReleaseSteps
<1>3. ASSUME t.held = {} PROVE Faithful(v)
  BY <1>1, <1>3 DEF Faithful, HoldsParts, Compensates, Done, CheckoutSteps, Batch, ReleaseSteps
<1>4. ASSUME t.held = {}, ~(t.qty > 0) PROVE Faithful(AfterRelease(t, TRUE))
  <2>1. Compensates(t) => ReturnedAll(t.order)
    BY <1>4 DEF HoldsParts, ReturnedAll, Parts
  <2>. QED BY <2>1, AfterReleaseFaithful
<1>. QED BY <1>2, <1>3, <1>4 DEF BeginRelease

LEMMA RetryReleaseFaithful ==
  ASSUME SagaAssumption, NEW t \in TaskType, t.order \in Orders,
         labels \in [Orders -> SUBSET Seats], Compensates(t) => HoldsParts(t)
  PROVE  Faithful(RetryRelease(t))
<1>1. CASE t.tries > 0
  <2>. PICK u : u = [t EXCEPT !.tries = @ - 1]
    OBVIOUS
  <2>1. u \in TaskType /\ u.order = t.order /\ u.job = t.job /\ u.held = t.held
        /\ u.qty = t.qty
    BY <1>1 DEF TaskType
  <2>2. Faithful(BeginRelease(u))
    BY <2>1, BeginReleaseFaithful DEF Compensates, HoldsParts
  <2>. QED BY <1>1, <2>2 DEF RetryRelease
<1>2. CASE ~(t.tries > 0)
  BY <1>2, AfterReleaseFaithful DEF RetryRelease
<1>. QED BY <1>1, <1>2

LEMMA ReleaseOrderFaithful ==
  ASSUME SagaAssumption, NEW t \in TaskType, t.order \in Orders,
         labels \in [Orders -> SUBSET Seats],
         Compensates(t) => status[t.order] # "None"
  PROVE  Faithful(ReleaseOrder(t)) /\ Faithful(AfterCancelOpen(t))
<1>. PICK n : n = CountPart(t.order)
  OBVIOUS
<1>. PICK u : u = [t EXCEPT !.held = labels[t.order], !.qty = n, !.pays = {}]
  OBVIOUS
<1>. PICK v : v = [t EXCEPT !.pc = "list_paid", !.pays = {}]
  OBVIOUS
<1>1. n \in Nat /\ labels[t.order] \subseteq Seats
  BY CountPartOK
<1>2. u \in TaskType /\ u.order = t.order /\ u.job = t.job /\ u.held = labels[t.order]
      /\ u.qty = n
  BY <1>1 DEF TaskType
<1>3. Faithful(BeginRelease(u))
  BY <1>2, BeginReleaseFaithful DEF Compensates, HoldsParts
<1>4. v.pc = "list_paid" /\ v.order = t.order /\ v.job = t.job
  BY DEF TaskType
<1>5. Faithful(v)
  BY <1>4 DEF Faithful, Compensates, Done, CheckoutSteps, Batch, ReleaseSteps
<1>. QED BY <1>3, <1>5 DEF ReleaseOrder, AfterCancelOpen

-----------------------------------------------------------------------------
(* What no step undoes: an order that exists, its labels, what was         *)
(* returned for it, and its rollback.                                      *)
Keeps ==
  /\ \A o \in Orders : status[o] # "None" => status'[o] # "None" /\ labels'[o] = labels[o]
  /\ \A o \in Orders : returned[o] \subseteq returned'[o]
  /\ rolledBack \subseteq rolledBack'

LEMMA KeepsOrder ==
  ASSUME Keeps, NEW o \in Orders, status[o] # "None"
  PROVE  /\ status'[o] # "None" /\ labels'[o] = labels[o]
         /\ CountPart(o)' = CountPart(o) /\ Parts(o)' = Parts(o)
         /\ ReturnedAll(o) => ReturnedAll(o)'
<1>1. status'[o] # "None" /\ labels'[o] = labels[o] /\ returned[o] \subseteq returned'[o]
  BY DEF Keeps
<1>2. CountPart(o)' = CountPart(o)
  BY <1>1 DEF CountPart
<1>3. Parts(o)' = Parts(o)
  BY <1>1, <1>2 DEF Parts
<1>. QED BY <1>1, <1>2, <1>3 DEF ReturnedAll

LEMMA FaithfulStays ==
  ASSUME Keeps, NEW t, t.order \in Orders, Faithful(t)
  PROVE  Faithful(t)'
<1>. PICK o : o = t.order
  OBVIOUS
<1>1. status[o] # "None" =>
        /\ status'[o] # "None" /\ labels'[o] = labels[o]
        /\ CountPart(o)' = CountPart(o)
        /\ ReturnedAll(o) => ReturnedAll(o)'
  BY KeepsOrder
<1>2. returned[o] \subseteq returned'[o]
  BY DEF Keeps
<1>3. ReturnedAll(o) => ReturnedAll(o)'
  BY <1>1 DEF ReturnedAll
<1>4. HoldsParts(t) => HoldsParts(t)'
  BY <1>1 DEF HoldsParts
<1>5. Compensates(t)' = Compensates(t) /\ Done(t)' = Done(t)
  BY DEF Compensates, Done
<1>. QED BY <1>1, <1>2, <1>3, <1>4, <1>5 DEF Faithful

LEMMA PlainStays == ASSUME NEW t, Plain(t) PROVE Faithful(t)'
  BY DEF Plain, Faithful, Done, CheckoutSteps, Batch, ReleaseSteps

(* An order becomes Cancelled or Refunded only with its parts returned or  *)
(* by the rollback of its checkout.                                        *)
LEMMA ClosedFrame ==
  ASSUME ReleaseInv, Keeps,
         \A o \in Orders : status'[o] \in {"Cancelled", "Refunded"} =>
            status[o] \in {"Cancelled", "Refunded"} \/ o \in rolledBack' \/ ReturnedAll(o)
  PROVE  ClosedOrderReturnedParts'
<1>1. ASSUME NEW o \in Orders, status'[o] \in {"Cancelled", "Refunded"}, o \notin rolledBack'
      PROVE  Parts(o)' \subseteq returned'[o]
  <2>1. o \notin rolledBack
    BY <1>1 DEF Keeps
  <2>2. ReturnedAll(o)
    BY <1>1, <2>1 DEF ReleaseInv, ClosedOrderReturnedParts, ReturnedAll
  <2>3. ReturnedAll(o)'
    BY <2>2, KeepsOrder DEF ReturnedAll
  <2>. QED BY <2>3 DEF ReturnedAll
<1>. QED BY <1>1 DEF ClosedOrderReturnedParts

LEMMA OthersStay ==
  ASSUME SagaAssumption, ReleaseInv, Keeps,
         NEW v \in Workers, task'[v] = task[v]
  PROVE  Faithful(task[v])'
<1>. PICK t : t = task[v]
  OBVIOUS
<1>1. TaskOK(t) /\ Faithful(t)
  BY HandlerFacts DEF ReleaseInv
<1>2. CASE t.order \in Orders
  <2>1. Faithful(t)'
    BY <1>1, <1>2, FaithfulStays
  <2>. QED BY <2>1 DEF Faithful, Compensates, HoldsParts, Done, ReturnedAll, Parts, CountPart
<1>3. CASE t.order \notin Orders
  <2>1. Plain(t)
    BY <1>1, <1>3 DEF TaskOK, TaskType, Plain, CheckoutSteps, Batch, ReleaseSteps
  <2>2. Plain(task'[v])
    BY <2>1
  <2>. QED BY <2>2 DEF Plain, Faithful, Done, CheckoutSteps, Batch, ReleaseSteps
<1>. QED BY <1>2, <1>3

LEMMA ReleaseFrame ==
  ASSUME SagaAssumption, ReleaseInv, Keeps, ClosedOrderReturnedParts', SettlementInv',
         NEW w \in Workers, NEW t, Faithful(t)', Become(w, t)
  PROVE  ReleaseInv'
<1>1. task' = [task EXCEPT ![w] = t] /\ task \in [Workers -> TaskType]
  BY DEF Become, ReleaseInv, SettlementInv, TypeOK, TaskTypes
<1>2. ASSUME NEW v \in Workers PROVE Faithful(task[v])'
  <2>1. CASE v = w
    <3>1. task'[v] = t
      BY <1>1, <2>1
    <3>. QED
      BY <3>1 DEF Faithful, Compensates, HoldsParts, Done, ReturnedAll, Parts, CountPart
  <2>2. CASE v # w
    BY <1>1, <2>2, OthersStay
  <2>. QED BY <2>1, <2>2
<1>. QED BY <1>2 DEF ReleaseInv

(* The usual step: one handler moves on to a faithful task, and no order   *)
(* is closed.                                                              *)
LEMMA FaithfulStep ==
  ASSUME SagaAssumption, ReleaseInv, Keeps, SettlementInv',
         NEW w \in Workers, NEW t, Become(w, t), Faithful(t),
         \A o \in Orders : status'[o] \in {"Cancelled", "Refunded"} =>
            status[o] \in {"Cancelled", "Refunded"} \/ o \in rolledBack' \/ ReturnedAll(o)
  PROVE  ReleaseInv'
<1>1. Faithful(t)'
  <2>1. TaskOK(t)
    BY DEF Become, SettlementInv, ReleaseInv, TypeOK, TaskTypes
  <2>2. t.order \in Orders \/ Plain(t)
    BY <2>1 DEF TaskOK, TaskType, Plain, CheckoutSteps, Batch, ReleaseSteps
  <2>. QED BY <2>2, FaithfulStays, PlainStays
<1>2. ClosedOrderReturnedParts'
  BY ClosedFrame
<1>. QED BY <1>1, <1>2, ReleaseFrame

(* ... and the order rows stay as they are.                                *)
LEMMA ReadStep ==
  ASSUME SagaAssumption, ReleaseInv, SettlementInv', NEW w \in Workers, NEW t, Become(w, t),
         Faithful(t),
         UNCHANGED <<status, labels, returned, rolledBack>>
  PROVE  ReleaseInv'
<1>1. Keeps
  BY DEF Keeps
<1>. QED BY <1>1, FaithfulStep

LEMMA ReleaserFacts ==
  ASSUME SagaAssumption, ReleaseInv, NEW w \in Workers
  PROVE  /\ task[w] \in TaskType /\ TaskOK(task[w]) /\ TypeOK
         /\ task[w].entry \in Entries /\ Warranted(task[w]) /\ Faithful(task[w])
         /\ task[w].pc # "idle" => task[w].order \in Orders
         /\ labels \in [Orders -> SUBSET Seats]
         /\ status \in [Orders -> Status]
  BY HandlerFacts, BusyOK DEF ReleaseInv, TypeOK, OrderTypes

-----------------------------------------------------------------------------
(* checkout and its rollback                                               *)

LEMMA GotoFaithful ==
  ASSUME NEW t \in TaskType, Faithful(t), NEW pc
  PROVE  /\ pc \in CheckoutSteps /\ t.pc \in CheckoutSteps =>
              Faithful([t EXCEPT !.pc = pc])
         /\ pc \notin CheckoutSteps \cup Batch \cup {"cw_voucher", "cw_commit", "rf_commit"}
              => Faithful([t EXCEPT !.pc = pc])
<1>. PICK u : u = [t EXCEPT !.pc = pc]
  OBVIOUS
<1>1. u.pc = pc /\ u.job = t.job /\ u.order = t.order
  BY DEF TaskType
<1>. QED
  BY <1>1 DEF Faithful, Compensates, Done, Plain, CheckoutSteps, Batch, ReleaseSteps

LEMMA CheckoutReturns ==
  ASSUME SagaAssumption, ReleaseInv, SettlementInv', NEW w \in Workers,
         CheckoutLookup(w) \/ (\E l \in Seats : ReserveSeat(w, l)) \/ ReserveCount(w)
  PROVE  ReleaseInv'
<1>. DEFINE t == task[w]
<1>1. UNCHANGED <<status, labels, returned, rolledBack>>
  BY DEF CheckoutLookup, ReserveSeat, ReserveCount, orderVars, ghostVars
<1>2. t \in TaskType /\ Faithful(t) /\ t.pc \in CheckoutSteps /\ t.order \in Orders
      /\ labels \in [Orders -> SUBSET Seats]
  BY ReleaserFacts DEF CheckoutLookup, ReserveSeat, ReserveCount, At, CheckoutSteps
<1>3. t.job = "checkout"
  BY <1>2 DEF Faithful
<1>4. Faithful(BeginRelease(t))
  BY <1>2, <1>3, BeginReleaseFaithful DEF Compensates
<1>5. ASSUME NEW H, NEW q, NEW pc \in {"co_create", "co_reserve"}
      PROVE  /\ Faithful([t EXCEPT !.held = H, !.pc = pc])
             /\ Faithful([t EXCEPT !.held = H, !.qty = q, !.pc = pc])
  <2>. PICK u : u = [t EXCEPT !.held = H, !.pc = pc]
    OBVIOUS
  <2>. PICK v : v = [t EXCEPT !.held = H, !.qty = q, !.pc = pc]
    OBVIOUS
  <2>1. u.pc = pc /\ v.pc = pc /\ u.job = "checkout" /\ v.job = "checkout"
    BY <1>2, <1>3 DEF TaskType
  <2>. QED
    BY <2>1 DEF Faithful, Compensates, Done, CheckoutSteps, Batch, ReleaseSteps
<1>6. CASE CheckoutLookup(w)
  <2>1. Become(w, Blank) \/ Become(w, [t EXCEPT !.pc = "co_reserve"])
    BY <1>6 DEF CheckoutLookup, Finish, Goto
  <2>2. Faithful([t EXCEPT !.pc = "co_reserve"])
    BY <1>2, GotoFaithful DEF CheckoutSteps
  <2>. QED BY <1>1, <2>1, <2>2, PlainBlank, PlainIsFaithful, ReadStep
<1>7. ASSUME NEW l \in Seats, ReserveSeat(w, l) PROVE ReleaseInv'
  <2>1. \/ Become(w, BeginRelease(t))
        \/ \E H, pc : Become(w, [t EXCEPT !.held = H, !.pc = pc])
                      /\ pc \in {"co_create", "co_reserve"}
    BY <1>7 DEF ReserveSeat, At
  <2>. QED BY <1>1, <1>4, <1>5, <2>1, ReadStep
<1>8. CASE ReserveCount(w)
  <2>1. \/ Become(w, BeginRelease(t))
        \/ \E H, q : Become(w, [t EXCEPT !.held = H, !.qty = q, !.pc = "co_create"])
    BY <1>8 DEF ReserveCount
  <2>. QED BY <1>1, <1>4, <1>5, <2>1, ReadStep
<1>. QED BY <1>6, <1>7, <1>8

LEMMA CreateReturns ==
  ASSUME SagaAssumption, ReleaseInv, SettlementInv', NEW w \in Workers,
         CreateOrder(w) \/ CreatePayment(w)
  PROVE  ReleaseInv'
<1>. DEFINE t == task[w]
            o == t.order
<1>1. t \in TaskType /\ Faithful(t) /\ t.pc \in CheckoutSteps /\ o \in Orders
      /\ labels \in [Orders -> SUBSET Seats] /\ status \in [Orders -> Status]
  BY ReleaserFacts DEF CreateOrder, CreatePayment, At, CheckoutSteps
<1>2. t.job = "checkout"
  BY <1>1 DEF Faithful
<1>3. Faithful(BeginRelease(t))
  BY <1>1, <1>2, BeginReleaseFaithful DEF Compensates
<1>4. Faithful([t EXCEPT !.pc = "co_pay"]) /\ Faithful([t EXCEPT !.pc = "rb_read"])
  BY <1>1, GotoFaithful DEF CheckoutSteps
<1>5. \/ Become(w, BeginRelease(t)) \/ Become(w, Blank)
      \/ Become(w, [t EXCEPT !.pc = "co_pay"]) \/ Become(w, [t EXCEPT !.pc = "rb_read"])
  BY DEF CreateOrder, CreatePayment, Goto, Finish
<1>6. \/ UNCHANGED <<status, labels>>
      \/ /\ status[o] = "None"
         /\ status' = [status EXCEPT ![o] = "PendingPayment"]
         /\ labels' = [labels EXCEPT ![o] = t.held]
  BY DEF CreateOrder, CreatePayment, orderVars, SetStatus
<1>7. UNCHANGED <<returned, rolledBack>>
  BY DEF CreateOrder, CreatePayment, ghostVars
<1>8. Keeps
  BY <1>1, <1>6, <1>7 DEF Keeps
<1>9. \A p \in Orders : status'[p] \in {"Cancelled", "Refunded"} =>
        status[p] \in {"Cancelled", "Refunded"}
  BY <1>1, <1>6
<1>. QED BY <1>3, <1>4, <1>5, <1>8, <1>9, PlainBlank, PlainIsFaithful, FaithfulStep

(* A step that writes one order's status and leaves its labels.            *)
LEMMA StatusKeeps ==
  ASSUME TypeOK, NEW o \in Orders, NEW s, s # "None",
         UNCHANGED status \/ status' = [status EXCEPT ![o] = s],
         UNCHANGED <<labels, returned>>, rolledBack \subseteq rolledBack'
  PROVE  /\ Keeps
         /\ \A p \in Orders : status'[p] \in {"Cancelled", "Refunded"} =>
              status[p] \in {"Cancelled", "Refunded"}
                \/ (p = o /\ status'[o] = s /\ s \in {"Cancelled", "Refunded"})
<1>1. status \in [Orders -> Status]
  BY DEF TypeOK, OrderTypes
<1>2. Keeps
  BY <1>1 DEF Keeps
<1>. QED BY <1>1, <1>2

LEMMA RollbackReturns ==
  ASSUME SagaAssumption, ReleaseInv, SettlementInv', NEW w \in Workers,
         RollbackRead(w) \/ RollbackCancel(w) \/ RollbackVoucher(w)
  PROVE  ReleaseInv'
<1>. DEFINE t == task[w]
            o == t.order
            next == [t EXCEPT !.pc = "rb_cancel", !.snap = status[o]]
<1>1. t \in TaskType /\ Faithful(t) /\ t.pc \in CheckoutSteps /\ o \in Orders /\ TypeOK
      /\ labels \in [Orders -> SUBSET Seats]
  BY ReleaserFacts DEF RollbackRead, RollbackCancel, RollbackVoucher, At, CheckoutSteps
<1>2. t.job = "checkout"
  BY <1>1 DEF Faithful
<1>3. Faithful(BeginRelease(t))
  BY <1>1, <1>2, BeginReleaseFaithful DEF Compensates
<1>4. Faithful([t EXCEPT !.pc = "rb_voucher"])
  BY <1>1, GotoFaithful DEF CheckoutSteps
<1>5. Faithful(next)
  <2>1. next.pc = "rb_cancel" /\ next.job = "checkout"
    BY <1>1, <1>2 DEF TaskType
  <2>. HIDE DEF next
  <2>. QED BY <2>1 DEF Faithful, Compensates, Done, CheckoutSteps, Batch, ReleaseSteps
<1>6. \/ Become(w, BeginRelease(t)) \/ Become(w, next)
      \/ Become(w, [t EXCEPT !.pc = "rb_voucher"])
  BY DEF RollbackRead, RollbackCancel, RollbackVoucher, Goto
<1>7. \/ UNCHANGED <<status, rolledBack>>
      \/ status' = [status EXCEPT ![o] = "Cancelled"] /\ rolledBack' = rolledBack \cup {o}
  BY DEF RollbackRead, RollbackCancel, RollbackVoucher, SetStatus, orderVars, ghostVars
<1>8. UNCHANGED <<labels, returned>>
  BY DEF RollbackRead, RollbackCancel, RollbackVoucher, orderVars, ghostVars
<1>9. Keeps /\ \A p \in Orders : status'[p] \in {"Cancelled", "Refunded"} =>
                  status[p] \in {"Cancelled", "Refunded"} \/ p \in rolledBack'
  <2>1. CASE UNCHANGED <<status, rolledBack>>
    BY <1>8, <2>1 DEF Keeps
  <2>2. CASE status' = [status EXCEPT ![o] = "Cancelled"] /\ rolledBack' = rolledBack \cup {o}
    <3>1. /\ Keeps
          /\ \A p \in Orders : status'[p] \in {"Cancelled", "Refunded"} =>
               status[p] \in {"Cancelled", "Refunded"} \/ p = o
      BY <1>1, <1>8, <2>2, StatusKeeps
    <3>. QED BY <2>2, <3>1
  <2>. QED BY <1>7, <2>1, <2>2
<1>. HIDE DEF next
<1>. QED BY <1>3, <1>4, <1>5, <1>6, <1>9, FaithfulStep

-----------------------------------------------------------------------------
(* releaseReservation: part after part                                     *)

(* A part handed back by the handler of order o is noted for o alone.      *)
LEMMA NoteKeeps ==
  ASSUME TypeOK, NEW t, t.order \in Orders, NEW p, NoteReturned(t, p),
         UNCHANGED <<status, labels, rolledBack>>
  PROVE  Keeps /\ (Compensates(t) => returned'[t.order] = returned[t.order] \cup {p})
<1>1. returned \in [Orders -> SUBSET (Seats \cup {None})]
  BY DEF TypeOK, HistoryTypes
<1>2. returned' = IF Compensates(t)
                  THEN [returned EXCEPT ![t.order] = returned[t.order] \cup {p}]
                  ELSE returned
  BY DEF NoteReturned, Compensates
<1>. QED BY <1>1, <1>2 DEF Keeps

(* The end of a release whose last part has just been handed back.         *)
LEMMA ReleaseEnds ==
  ASSUME SagaAssumption, ReleaseInv, SettlementInv', Keeps, NEW w \in Workers,
         NEW t, t = task[w], t.order \in Orders,
         Compensates(t) => ReturnedAll(t.order)',
         Become(w, AfterRelease(t, TRUE)), UNCHANGED status
  PROVE  ReleaseInv'
<1>. PICK u : u = AfterRelease(t, TRUE)
  OBVIOUS
<1>1. t \in TaskType
  BY ReleaserFacts
<1>2. Faithful(u)'
  <2>1. CASE Plain(u)
    BY <2>1, PlainStays
  <2>2. CASE u.pc \in {"cw_voucher", "rf_commit"} /\ u.order = t.order /\ Compensates(t)
    <3>1. ReturnedAll(u.order)'
      BY <2>2
    <3>. QED BY <2>2, <3>1 DEF Faithful, Done, CheckoutSteps, Batch, ReleaseSteps
  <2>. QED BY <1>1, <2>1, <2>2, AfterReleaseCases
<1>3. ClosedOrderReturnedParts'
  BY ClosedFrame
<1>. QED BY <1>2, <1>3, ReleaseFrame

LEMMA ReleaseSeatReturns ==
  ASSUME SagaAssumption, ReleaseInv, SettlementInv', NEW w \in Workers, NEW l \in Seats,
         ReleaseSeat(w, l)
  PROVE  ReleaseInv'
<1>. PICK t : t = task[w]
  OBVIOUS
<1>. PICK o : o = t.order
  OBVIOUS
<1>. PICK next : next = [t EXCEPT !.pend = t.pend \ {l}]
  OBVIOUS
<1>. PICK count : count = [next EXCEPT !.pc = "rel_count"]
  OBVIOUS
<1>1. /\ t \in TaskType /\ Faithful(t) /\ t.pc = "rel_seats" /\ o \in Orders /\ TypeOK
      /\ labels \in [Orders -> SUBSET Seats] /\ UNCHANGED <<status, labels, rolledBack>>
      /\ t.qty \in Nat
  BY ReleaserFacts DEF ReleaseSeat, At, orderVars, TaskType
<1>2. Compensates(t) =>
        /\ HoldsParts(t) /\ t.held \ t.pend \subseteq returned[o]
  BY <1>1 DEF Faithful, Batch, ReleaseSteps
<1>3. CASE UNCHANGED returned /\ Become(w, RetryRelease(t))
  BY <1>1, <1>2, <1>3, RetryReleaseFaithful, ReadStep
<1>4. CASE NoteReturned(t, l)
  <2>1. Keeps /\ (Compensates(t) => returned'[o] = returned[o] \cup {l})
    BY <1>1, <1>4, NoteKeeps
  <2>2. Compensates(t) => t.held \ (t.pend \ {l}) \subseteq returned'[o]
    BY <1>2, <2>1
  <2>3. Compensates(t) => HoldsParts(t)'
    BY <1>1, <1>2, <2>1, KeepsOrder DEF HoldsParts
  <2>4. ClosedOrderReturnedParts'
    BY <1>1, <2>1, ClosedFrame
  <2>5. /\ next.pc = "rel_seats" /\ next.order = o /\ next.job = t.job /\ next.held = t.held
        /\ next.qty = t.qty /\ next.pend = t.pend \ {l}
        /\ count.pc = "rel_count" /\ count.order = o /\ count.job = t.job
        /\ count.held = t.held /\ count.qty = t.qty /\ count.pend = t.pend \ {l}
    BY <1>1 DEF TaskType
  <2>6. CASE Become(w, next)
    <3>1. Faithful(next)'
      BY <2>2, <2>3, <2>5 DEF Faithful, HoldsParts, Compensates, Done, CheckoutSteps,
                              Batch, ReleaseSteps
    <3>. QED BY <2>1, <2>4, <2>6, <3>1, ReleaseFrame
  <2>7. CASE t.pend \ {l} = {} /\ Become(w, count)
    <3>1. Faithful(count)'
      BY <2>2, <2>3, <2>5, <2>7 DEF Faithful, HoldsParts, Compensates, Done, CheckoutSteps,
                                    Batch, ReleaseSteps
    <3>. QED BY <2>1, <2>4, <2>7, <3>1, ReleaseFrame
  <2>8. CASE /\ t.pend \ {l} = {} /\ ~(t.qty > 0)
             /\ Become(w, AfterRelease(t, TRUE))
    <3>1. Compensates(t) => ReturnedAll(o)'
      <4>1. SUFFICES ASSUME Compensates(t) PROVE ReturnedAll(o)'
        OBVIOUS
      <4>2. t.held \subseteq returned'[o]
        BY <2>2, <2>8, <4>1
      <4>3. status'[o] # "None" /\ t.held = labels'[o] /\ t.qty = CountPart(o)'
        BY <2>3, <4>1 DEF HoldsParts
      <4>. QED BY <2>8, <4>2, <4>3 DEF ReturnedAll, Parts
    <3>. QED BY <1>1, <2>1, <2>8, <3>1, ReleaseEnds
  <2>9. \/ Become(w, next)
        \/ t.pend \ {l} = {} /\ Become(w, count)
        \/ /\ t.pend \ {l} = {} /\ ~(t.qty > 0)
           /\ Become(w, AfterRelease(t, TRUE))
        \/ UNCHANGED returned /\ Become(w, RetryRelease(t))
    BY DEF ReleaseSeat
  <2>. QED BY <1>3, <2>6, <2>7, <2>8, <2>9
<1>. QED BY <1>3, <1>4 DEF ReleaseSeat

LEMMA ReleaseCountReturns ==
  ASSUME SagaAssumption, ReleaseInv, SettlementInv', NEW w \in Workers, ReleaseCount(w)
  PROVE  ReleaseInv'
<1>. PICK t : t = task[w]
  OBVIOUS
<1>. PICK o : o = t.order
  OBVIOUS
<1>1. /\ t \in TaskType /\ Faithful(t) /\ t.pc = "rel_count" /\ o \in Orders /\ TypeOK
      /\ labels \in [Orders -> SUBSET Seats] /\ UNCHANGED <<status, labels, rolledBack>>
  BY ReleaserFacts DEF ReleaseCount, At, orderVars
<1>2. Compensates(t) =>
        HoldsParts(t) /\ t.pend = {} /\ t.held \ t.pend \subseteq returned[o]
  BY <1>1 DEF Faithful, Batch, ReleaseSteps
<1>3. CASE UNCHANGED returned /\ Become(w, RetryRelease(t))
  BY <1>1, <1>2, <1>3, RetryReleaseFaithful, ReadStep
<1>4. CASE NoteReturned(t, None) /\ Become(w, AfterRelease(t, TRUE))
  <2>1. Keeps /\ (Compensates(t) => returned'[o] = returned[o] \cup {None})
    BY <1>1, <1>4, NoteKeeps
  <2>2. Compensates(t) => ReturnedAll(o)'
    <3>1. SUFFICES ASSUME Compensates(t) PROVE ReturnedAll(o)'
      OBVIOUS
    <3>2. status'[o] # "None" /\ labels'[o] = labels[o]
      BY <1>1, <1>2, <2>1, <3>1 DEF Keeps, HoldsParts
    <3>3. labels[o] \subseteq returned[o] /\ returned'[o] = returned[o] \cup {None}
      BY <1>2, <2>1, <3>1 DEF HoldsParts
    <3>. QED BY <3>2, <3>3 DEF ReturnedAll, Parts
  <2>. QED BY <1>1, <1>4, <2>1, <2>2, ReleaseEnds
<1>. QED BY <1>3, <1>4 DEF ReleaseCount

-----------------------------------------------------------------------------
(* cancelWorkflow and refund                                               *)

LEMMA CancelReadReturns ==
  ASSUME SagaAssumption, ReleaseInv, SettlementInv', NEW w \in Workers,
         CancelRead(w) \/ RefundRead(w)
  PROVE  ReleaseInv'
<1>. DEFINE t == task[w]
            o == t.order
            open == [t EXCEPT !.pc = "list_open"]
            claim == [t EXCEPT !.pc = "cw_claim", !.snap = status[o]]
            read(pc) == [[t EXCEPT !.snap = status[o]] EXCEPT !.pc = pc]
<1>1. UNCHANGED <<status, labels, returned, rolledBack>> /\ t \in TaskType
  BY ReleaserFacts DEF CancelRead, RefundRead, orderVars, ghostVars
<1>2. \/ Become(w, Blank) \/ Become(w, claim) \/ Become(w, read("rf_claim"))
      \/ status[o] # "None" /\ (Become(w, open) \/ Become(w, read("list_open")))
  BY DEF CancelRead, RefundRead, Exists, Goto, Finish
<1>3. /\ open.pc = "list_open" /\ open.order = o
      /\ claim.pc = "cw_claim"
      /\ read("rf_claim").pc = "rf_claim"
      /\ read("list_open").pc = "list_open" /\ read("list_open").order = o
  BY <1>1 DEF TaskType
<1>. HIDE DEF open, claim, read
<1>4. /\ Faithful(claim) /\ Faithful(read("rf_claim")) /\ Faithful(Blank)
  BY <1>3, PlainBlank, PlainIsFaithful DEF Plain, CheckoutSteps, Batch, ReleaseSteps
<1>5. status[o] # "None" => Faithful(open) /\ Faithful(read("list_open"))
  BY <1>3 DEF Faithful, Done, CheckoutSteps, Batch, ReleaseSteps
<1>. QED BY <1>1, <1>2, <1>4, <1>5, ReadStep

LEMMA ClaimReturns ==
  ASSUME SagaAssumption, ReleaseInv, SettlementInv', NEW w \in Workers,
         CancelClaim(w) \/ RefundClaim(w)
  PROVE  ReleaseInv'
<1>. PICK t : t = task[w]
  OBVIOUS
<1>. PICK o : o = t.order
  OBVIOUS
<1>. PICK next : next = [t EXCEPT !.pc = "list_open"]
  OBVIOUS
<1>1. t \in TaskType /\ o \in Orders /\ TypeOK /\ status \in [Orders -> Status]
  BY ReleaserFacts DEF CancelClaim, RefundClaim, At
<1>2. UNCHANGED <<labels, returned, rolledBack>>
  BY DEF CancelClaim, RefundClaim, ghostVars
<1>3. \/ UNCHANGED status /\ Become(w, Blank)
      \/ /\ \E s \in {"Cancelling", "RefundPending"} : status' = [status EXCEPT ![o] = s]
         /\ Become(w, next)
  BY DEF CancelClaim, RefundClaim, SetStatus, Goto, Finish
<1>4. Keeps /\ \A p \in Orders : status'[p] \in {"Cancelled", "Refunded"} =>
                  status[p] \in {"Cancelled", "Refunded"}
  BY <1>1, <1>2, <1>3, StatusKeeps DEF Keeps
<1>5. CASE UNCHANGED status /\ Become(w, Blank)
  BY <1>2, <1>5, PlainBlank, PlainIsFaithful, ReadStep
<1>6. CASE /\ \E s \in {"Cancelling", "RefundPending"} : status' = [status EXCEPT ![o] = s]
           /\ Become(w, next)
  <2>1. next.pc = "list_open" /\ next.order = o
    BY <1>1 DEF TaskType
  <2>2. status'[o] # "None"
    BY <1>1, <1>6
  <2>3. Faithful(next)'
    BY <2>1, <2>2 DEF Faithful, Done, CheckoutSteps, Batch, ReleaseSteps
  <2>4. ClosedOrderReturnedParts'
    BY <1>4, ClosedFrame
  <2>. QED BY <1>4, <1>6, <2>3, <2>4, ReleaseFrame
<1>. QED BY <1>3, <1>5, <1>6

(* The terminal writes come after ReturnedAll.                             *)
LEMMA CommitReturns ==
  ASSUME SagaAssumption, ReleaseInv, SettlementInv', NEW w \in Workers,
         CancelVoucher(w) \/ CancelCommit(w) \/ RefundCommit(w)
  PROVE  ReleaseInv'
<1>. PICK t : t = task[w]
  OBVIOUS
<1>. PICK o : o = t.order
  OBVIOUS
<1>. PICK next : next = [t EXCEPT !.pc = "cw_commit"]
  OBVIOUS
<1>1. t \in TaskType /\ o \in Orders /\ TypeOK /\ Faithful(t)
  BY ReleaserFacts DEF CancelVoucher, CancelCommit, RefundCommit, At
<1>2. UNCHANGED <<labels, returned, rolledBack>>
  BY DEF CancelVoucher, CancelCommit, RefundCommit, ghostVars
<1>3. CASE CancelVoucher(w)
  <2>1. UNCHANGED status /\ t.pc = "cw_voucher"
    BY <1>3 DEF CancelVoucher, At
  <2>2. (t.ok /\ Become(w, next)) \/ Become(w, Blank)
    BY <1>3 DEF CancelVoucher, Goto, Finish
  <2>3. next.pc = "cw_commit" /\ next.order = o
    BY <1>1 DEF TaskType
  <2>4. t.ok => Faithful(next)
    BY <1>1, <2>1, <2>3 DEF Faithful, Done, CheckoutSteps, Batch, ReleaseSteps
  <2>. QED BY <1>2, <2>1, <2>2, <2>4, PlainBlank, PlainIsFaithful, ReadStep
<1>4. CASE CancelCommit(w) \/ RefundCommit(w)
  <2>1. ReturnedAll(o)
    BY <1>1, <1>4 DEF CancelCommit, RefundCommit, At, Faithful, Done
  <2>2. Become(w, Blank)
    BY <1>4 DEF CancelCommit, RefundCommit, Finish
  <2>3. UNCHANGED status \/ \E s \in {"Cancelled", "Refunded"} : status' = [status EXCEPT ![o] = s]
    BY <1>4 DEF CancelCommit, RefundCommit, SetStatus
  <2>4. /\ Keeps
        /\ \A p \in Orders : status'[p] \in {"Cancelled", "Refunded"} =>
             status[p] \in {"Cancelled", "Refunded"} \/ p = o
    <3>1. CASE UNCHANGED status
      BY <1>2, <3>1 DEF Keeps
    <3>2. ASSUME NEW s \in {"Cancelled", "Refunded"}, status' = [status EXCEPT ![o] = s]
          PROVE  /\ Keeps
                 /\ \A p \in Orders : status'[p] \in {"Cancelled", "Refunded"} =>
                      status[p] \in {"Cancelled", "Refunded"} \/ p = o
      BY <1>1, <1>2, <3>2, StatusKeeps
    <3>. QED BY <2>3, <3>1, <3>2
  <2>. QED BY <2>1, <2>2, <2>4, PlainBlank, PlainIsFaithful, FaithfulStep
<1>. QED BY <1>3, <1>4

LEMMA PaymentsReturn ==
  ASSUME SagaAssumption, ReleaseInv, SettlementInv', NEW w \in Workers,
         \/ ListOpenPayments(w) \/ (\E s \in Slots : CancelPayment(w, s))
         \/ ListPaidPayments(w) \/ (\E s \in Slots : MarkRefunded(w, s))
  PROVE  ReleaseInv'
<1>. DEFINE t == task[w]
            open(P) == [t EXCEPT !.pc = "cancel_open", !.pays = P]
            paid(P) == [t EXCEPT !.pc = "refund_paid", !.pays = P]
            next(P) == [t EXCEPT !.pays = P]
<1>1. /\ UNCHANGED <<status, labels, returned, rolledBack>>
      /\ t \in TaskType /\ Faithful(t) /\ t.order \in Orders
      /\ labels \in [Orders -> SUBSET Seats]
      /\ t.pc \in {"list_open", "cancel_open", "list_paid", "refund_paid"}
  BY ReleaserFacts DEF ListOpenPayments, CancelPayment, ListPaidPayments, MarkRefunded,
                       orderVars, ghostVars, At
<1>2. Compensates(t) => status[t.order] # "None"
  BY <1>1 DEF Faithful, Batch
<1>3. \/ \E P : Become(w, open(P)) \/ Become(w, paid(P)) \/ Become(w, next(P))
      \/ Become(w, AfterCancelOpen(t)) \/ Become(w, ReleaseOrder(t))
  BY DEF ListOpenPayments, CancelPayment, ListPaidPayments, MarkRefunded
<1>4. Faithful(AfterCancelOpen(t)) /\ Faithful(ReleaseOrder(t))
  BY <1>1, <1>2, ReleaseOrderFaithful
<1>5. ASSUME NEW P
      PROVE  Faithful(open(P)) /\ Faithful(paid(P)) /\ Faithful(next(P))
  <2>1. /\ open(P).pc = "cancel_open" /\ open(P).order = t.order /\ open(P).job = t.job
        /\ paid(P).pc = "refund_paid" /\ paid(P).order = t.order /\ paid(P).job = t.job
        /\ next(P).pc = t.pc /\ next(P).order = t.order /\ next(P).job = t.job
    BY <1>1 DEF TaskType
  <2>. HIDE DEF open, paid, next
  <2>. QED
    BY <1>1, <1>2, <2>1 DEF Faithful, Compensates, Done, CheckoutSteps, Batch, ReleaseSteps
<1>. HIDE DEF open, paid, next
<1>. QED BY <1>1, <1>3, <1>4, <1>5, ReadStep

-----------------------------------------------------------------------------
(* The other handlers                                                      *)

LEMMA PlainAdvance ==
  ASSUME NEW t \in TaskType, NEW s
  PROVE  Plain(Advance(t, s))
<1>. DEFINE u(x) == [t EXCEPT !.pc = "tr_read", !.target = x]
            v == [t EXCEPT !.pc = "it_read"]
<1>1. (\A x : u(x).pc = "tr_read") /\ v.pc = "it_read"
  BY DEF TaskType
<1>2. Advance(t, s) \in {u("Paid"), u("Confirmed"), v, Blank}
  BY DEF Advance
<1>. HIDE DEF u, v
<1>. QED BY <1>1, <1>2, PlainBlank DEF Plain, CheckoutSteps, Batch, ReleaseSteps

LEMMA ReadersReturn ==
  ASSUME SagaAssumption, ReleaseInv, SettlementInv', NEW w \in Workers,
         \/ PaidRead(w) \/ PaidVerify(w) \/ PaidNext(w) \/ TransitionRead(w)
         \/ IssueRead(w) \/ ExpireCheckRead(w) \/ ExpireCheckVerify(w)
  PROVE  ReleaseInv'
<1>. DEFINE t == task[w]
            seen(pc) == [t EXCEPT !.pc = pc, !.snap = status[t.order]]
            turn(j, pc) == [t EXCEPT !.job = j, !.pc = pc]
            goto(pc) == [t EXCEPT !.pc = pc]
<1>1. UNCHANGED <<status, labels, returned, rolledBack>> /\ t \in TaskType
  BY ReleaserFacts DEF PaidRead, PaidVerify, PaidNext, TransitionRead, IssueRead,
                       ExpireCheckRead, ExpireCheckVerify, orderVars, ghostVars
<1>2. \/ Become(w, Blank) \/ \E s : Become(w, Advance(t, s))
      \/ Become(w, seen("pp_verify")) \/ Become(w, seen("tr_write"))
      \/ Become(w, turn("refund", "rf_read")) \/ Become(w, turn("paid", "pp_read"))
      \/ Become(w, turn("cancel", "cw_read"))
      \/ Become(w, goto("it_write")) \/ Become(w, goto("ec_verify"))
  BY DEF PaidRead, PaidVerify, PaidNext, TransitionRead, IssueRead,
         ExpireCheckRead, ExpireCheckVerify, Finish, Goto
<1>3. \A j, pc : seen(pc).pc = pc /\ turn(j, pc).pc = pc /\ goto(pc).pc = pc
  BY <1>1 DEF TaskType
<1>. HIDE DEF seen, turn, goto
<1>4. /\ Plain(seen("pp_verify")) /\ Plain(seen("tr_write"))
      /\ Plain(turn("refund", "rf_read")) /\ Plain(turn("paid", "pp_read"))
      /\ Plain(turn("cancel", "cw_read"))
      /\ Plain(goto("it_write")) /\ Plain(goto("ec_verify"))
  BY <1>3 DEF Plain, CheckoutSteps, Batch, ReleaseSteps
<1>5. \A s : Plain(Advance(t, s))
  BY <1>1, PlainAdvance
<1>. QED BY <1>1, <1>2, <1>4, <1>5, PlainBlank, PlainIsFaithful, ReadStep

LEMMA WritersReturn ==
  ASSUME SagaAssumption, ReleaseInv, SettlementInv', NEW w \in Workers,
         TransitionWrite(w) \/ IssueWrite(w)
  PROVE  ReleaseInv'
<1>. DEFINE t == task[w]
            next == [t EXCEPT !.pc = "pp_next"]
<1>1. t \in TaskType /\ t.order \in Orders /\ TypeOK /\ Warranted(t)
  BY ReleaserFacts DEF TransitionWrite, IssueWrite, At
<1>2. UNCHANGED <<labels, returned, rolledBack>>
  BY DEF TransitionWrite, IssueWrite, ghostVars
<1>3. UNCHANGED status \/ \E s \in Status \ {"None", "Cancelled", "Refunded"} :
                             status' = [status EXCEPT ![t.order] = s]
  <2>1. CASE TransitionWrite(w)
    <3>1. t.target \in Status \ {"None", "Cancelled", "Refunded"}
      <4>1. t.snap \in AllowedFor(t.target) /\ t.target \in Status
        BY <1>1, <2>1 DEF TransitionWrite, At, Warranted, TaskType
      <4>. QED BY <4>1 DEF AllowedFor
    <3>2. UNCHANGED status \/ status' = [status EXCEPT ![t.order] = t.target]
      BY <2>1 DEF TransitionWrite, SetStatus
    <3>. QED BY <3>1, <3>2
  <2>2. CASE IssueWrite(w)
    BY <2>2 DEF IssueWrite, SetStatus, Status, Open
  <2>. QED BY <2>1, <2>2
<1>4. Keeps /\ \A p \in Orders : status'[p] \in {"Cancelled", "Refunded"} =>
                  status[p] \in {"Cancelled", "Refunded"}
  BY <1>1, <1>2, <1>3, StatusKeeps DEF Keeps
<1>5. Become(w, Blank) \/ Become(w, next)
  BY DEF TransitionWrite, IssueWrite, Goto, Finish
<1>6. Faithful(next) /\ Faithful(Blank)
  <2>1. next.pc = "pp_next"
    BY <1>1 DEF TaskType
  <2>. HIDE DEF next
  <2>. QED
    BY <2>1, PlainBlank, PlainIsFaithful DEF Plain, CheckoutSteps, Batch, ReleaseSteps
<1>. HIDE DEF next
<1>. QED BY <1>4, <1>5, <1>6, FaithfulStep

LEMMA BeginReturns ==
  ASSUME SagaAssumption, ReleaseInv, SettlementInv', NEW w \in Workers,
         \/ \E o \in Orders : SubmitCheckout(w, o)
         \/ \E o \in Orders : DeliverExpireCheck(w, o)
         \/ \E o \in Orders : CronPick(w, o)
         \/ \E o \in Orders, kind \in Commands : SendRequest(w, o, kind)
         \/ \E e \in paidEvents : DeliverPaidEvent(w, e)
  PROVE  ReleaseInv'
<1>. DEFINE ref(o, r) == [NewTask("pp_read", o) EXCEPT !.ref = r]
            cron(e, o) == [NewTask(e, o) EXCEPT !.entry = "idle"]
            send(e, o, s) == [NewTask(e, o) EXCEPT !.target = s]
<1>1. UNCHANGED <<status, labels, returned, rolledBack>>
  BY DEF SubmitCheckout, DeliverExpireCheck, CronPick, SendRequest, DeliverPaidEvent,
         orderVars, ghostVars
<1>2. \/ \E o : Become(w, NewTask("co_lookup", o)) \/ Become(w, NewTask("ec_read", o))
      \/ \E o, r : Become(w, ref(o, r))
      \/ \E o : Become(w, cron("cw_read", o)) \/ Become(w, cron("rf_read", o))
      \/ \E o, s : \E e \in {"cw_read", "rf_read", "it_read", "tr_read"} :
           Become(w, send(e, o, s))
  BY DEF SubmitCheckout, DeliverExpireCheck, CronPick, SendRequest, DeliverPaidEvent, EntryOf
<1>3. \A o : /\ NewTask("co_lookup", o).pc = "co_lookup"
             /\ NewTask("co_lookup", o).job = "checkout"
             /\ NewTask("ec_read", o).pc = "ec_read"
             /\ \A r : ref(o, r).pc = "pp_read"
             /\ \A e : cron(e, o).pc = e
             /\ \A e, s : send(e, o, s).pc = e
  BY DEF NewTask, Blank, JobOf
<1>. HIDE DEF ref, cron, send
<1>4. \A o : Faithful(NewTask("co_lookup", o))
  BY <1>3 DEF Faithful, Compensates, Done, CheckoutSteps, Batch, ReleaseSteps
<1>5. \A o : /\ Plain(NewTask("ec_read", o)) /\ \A r : Plain(ref(o, r))
             /\ Plain(cron("cw_read", o)) /\ Plain(cron("rf_read", o))
             /\ \A s : \A e \in {"cw_read", "rf_read", "it_read", "tr_read"} : Plain(send(e, o, s))
  BY <1>3 DEF Plain, CheckoutSteps, Batch, ReleaseSteps
<1>. QED BY <1>1, <1>2, <1>4, <1>5, PlainIsFaithful, ReadStep

LEMMA EnvironmentReturns ==
  ASSUME SagaAssumption, ReleaseInv, SettlementInv',
         \/ \E o \in Orders : RemoveOrder(o)
         \/ \E o \in Orders : Age(o)
         \/ \E o \in Orders, s \in Slots : Settle(o, s)
         \/ \E r \in late : RunLate(r)
         \/ UNCHANGED vars
  PROVE  ReleaseInv'
<1>1. UNCHANGED <<status, labels, returned, rolledBack, task>>
  BY DEF RemoveOrder, Age, Settle, RunLate, vars, orderVars, ghostVars
<1>2. Keeps
  BY <1>1 DEF Keeps
<1>3. ClosedOrderReturnedParts'
  BY <1>1, <1>2, ClosedFrame
<1>4. \A v \in Workers : Faithful(task[v])'
  BY <1>1, <1>2, OthersStay
<1>. QED BY <1>3, <1>4 DEF ReleaseInv

LEMMA CrashReturns ==
  ASSUME SagaAssumption, ReleaseInv, SettlementInv', Crash
  PROVE  ReleaseInv'
<1>1. UNCHANGED <<status, labels, returned, rolledBack>>
  BY DEF Crash, orderVars, ghostVars
<1>2. Keeps
  BY <1>1 DEF Keeps
<1>3. ClosedOrderReturnedParts'
  BY <1>1, <1>2, ClosedFrame
<1>4. ASSUME NEW v \in Workers PROVE Faithful(task[v])'
  <2>1. PICK t : t = task[v]
    OBVIOUS
  <2>2. PICK u : u = Restarted(t)
    OBVIOUS
  <2>3. t.entry \in Entries
    BY <2>1, ReleaserFacts
  <2>4. Plain(u) \/ (u.pc = "co_lookup" /\ u.job = "checkout")
    <3>1. CASE t.entry = "idle"
      BY <2>2, <3>1, PlainBlank DEF Restarted
    <3>2. CASE t.entry # "idle"
      <4>. DEFINE target == IF t.entry = "tr_read" THEN t.target ELSE "None"
                  x == [NewTask(t.entry, t.order) EXCEPT !.ref = t.ref, !.target = target]
      <4>1. x.pc = t.entry /\ x.job = JobOf(t.entry)
        BY DEF NewTask, Blank
      <4>2. u = x
        BY <2>2, <3>2 DEF Restarted
      <4>. HIDE DEF x
      <4>. QED
        BY <2>3, <4>1, <4>2 DEF Plain, Entries, JobOf, CheckoutSteps, Batch, ReleaseSteps
    <3>. QED BY <3>1, <3>2
  <2>5. Faithful(u)'
    BY <2>4, PlainStays DEF Faithful, Compensates, Done, CheckoutSteps, Batch, ReleaseSteps
  <2>6. task'[v] = u
    BY <2>1, <2>2 DEF Crash
  <2>. QED
    BY <2>5, <2>6 DEF Faithful, Compensates, HoldsParts, Done, ReturnedAll, Parts, CountPart
<1>. QED BY <1>3, <1>4 DEF ReleaseInv

-----------------------------------------------------------------------------
LEMMA InitRelease == ASSUME SagaAssumption, Init PROVE ReleaseInv
<1>1. SettlementInv
  BY InitSettlement
<1>2. ClosedOrderReturnedParts
  BY DEF Init, ClosedOrderReturnedParts
<1>3. \A w \in Workers : Faithful(task[w])
  BY PlainBlank, PlainIsFaithful DEF Init
<1>. QED BY <1>1, <1>2, <1>3 DEF ReleaseInv

LEMMA NextRelease ==
  ASSUME SagaAssumption, ReleaseInv, [Next]_vars
  PROVE  ReleaseInv'
<1>1. SettlementInv'
  BY NextSettlement DEF ReleaseInv
<1>2. ASSUME NEW w \in Workers, WorkerStep(w) PROVE ReleaseInv'
  BY <1>1, <1>2, CheckoutReturns, CreateReturns, RollbackReturns, ReleaseSeatReturns,
     ReleaseCountReturns, CancelReadReturns, ClaimReturns, CommitReturns, PaymentsReturn,
     ReadersReturn, WritersReturn, Zenon
     DEF WorkerStep
<1>3. ASSUME NEW w \in Workers, Deliver(w) PROVE ReleaseInv'
  BY <1>1, <1>3, BeginReturns DEF Deliver
<1>4. CASE \/ \E w \in Workers, o \in Orders : SubmitCheckout(w, o)
           \/ \E w \in Workers, o \in Orders, kind \in Commands : SendRequest(w, o, kind)
           \/ \E w \in Workers, o \in Orders : CronPick(w, o)
  BY <1>1, <1>4, BeginReturns
<1>5. CASE \/ \E o \in Orders : RemoveOrder(o)
           \/ \E o \in Orders : Age(o)
           \/ \E o \in Orders, s \in Slots : Settle(o, s)
           \/ \E r \in late : RunLate(r)
           \/ Rest \/ UNCHANGED vars
  BY <1>1, <1>5, EnvironmentReturns DEF Rest
<1>6. CASE Crash
  BY <1>1, <1>6, CrashReturns
<1>. QED BY <1>2, <1>3, <1>4, <1>5, <1>6 DEF Next

(* "Commit terminal state ... ONLY when compensation succeeds": an order   *)
(* that a cancel or a refund closed has handed back each seat and its part *)
(* by count, for any number of orders, handlers, retries and failures.     *)
THEOREM ClosedOnlyAfterRelease == Spec => []ClosedOrderReturnedParts
<1>1. Init => ReleaseInv
  BY SagaAssumption, InitRelease
<1>2. ReleaseInv /\ [Next]_vars => ReleaseInv'
  BY SagaAssumption, NextRelease
<1>3. ReleaseInv => ClosedOrderReturnedParts
  BY DEF ReleaseInv
<1>. QED BY <1>1, <1>2, <1>3, PTL DEF Spec

-----------------------------------------------------------------------------
(* The saga implements the promise about an order (OrderPromise).          *)
(*                                                                         *)
(* The steps of the promise ask where the order stands at the very moment  *)
(* of the write, and the handlers looked several steps before.  Two facts  *)
(* bridge the distance.  Past and Started are never left again, so what a  *)
(* handler saw of them is still true; and every handler that hands back or *)
(* commits has seen them, either in its read or by its own claim.          *)

(* The order was sold, refunded or voided: a cancellation is out of reach. *)
Past(o) ==
  \/ status[o] \in {"Paid", "Confirmed", "TicketIssued", "RefundPending", "Refunded"}
  \/ status[o] = "Cancelled" /\ o \in rolledBack

(* ... or its cancellation began.                                          *)
Started(o) == status[o] \notin {"None", "PendingPayment", "Expired"}

(* What follows a claim.                                                   *)
Pursued == Batch \cup {"cw_voucher", "cw_commit", "rf_commit"}

Ahead(t) ==
  /\ t.pc \in {"cw_read", "cw_claim", "cw_voucher", "cw_commit"} => t.job = "cancel"
  /\ t.pc \in {"rf_read", "rf_claim", "rf_commit"} => t.job = "refund"
  /\ t.pc = "cw_claim" => t.snap = "PendingPayment"
  /\ t.pc = "rf_claim" => t.snap \in Refundable
  /\ t.pc = "rb_cancel" => t.snap # "None"
  /\ t.pc = "it_write" => Past(t.order)
  /\ t.job = "refund" /\ t.pc \in Pursued => Past(t.order)
  /\ t.job = "cancel" /\ t.pc \in Pursued => Started(t.order)

PromiseInv ==
  /\ ReleaseInv
  /\ \A w \in Workers : Ahead(task[w])
  /\ \A o \in rolledBack : Past(o)

(* What the promise sees of the saga.                                      *)
StageMap == [o \in Orders |-> Stage(o)]
BackedSet == {o \in Orders : Backed(o)}
DueMap == [o \in Orders |-> Due(o)]

PromiseStep == [Promise!Next]_<<StageMap, BackedSet, DueMap>>

LEMMA StageFacts ==
  ASSUME NEW o \in Orders, status[o] \in Status
  PROVE  /\ Stage(o) \in Promise!After <=> Past(o)
         /\ Stage(o) \in Promise!Begun <=> Started(o)
         /\ Stage(o) = "none" <=> status[o] = "None"
         /\ Stage(o) = "waiting" <=> status[o] \in {"PendingPayment", "Expired"}
         /\ Stage(o) = "cancelling" <=> status[o] = "Cancelling"
         /\ Stage(o) = "cancelled" <=> status[o] = "Cancelled" /\ o \notin rolledBack
  BY DEF Stage, Past, Started, Promise!After, Promise!Begun, Status, Open, Closed

LEMMA PromiseFacts ==
  ASSUME SagaAssumption, PromiseInv
  PROVE  /\ TypeOK /\ status \in [Orders -> Status] /\ labels \in [Orders -> SUBSET Seats]
         /\ rolledBack \subseteq Orders
         /\ returned \in [Orders -> SUBSET (Seats \cup {None})]
         /\ \A o \in Orders : Parts(o) \subseteq Seats \cup {None}
         /\ \A w \in Workers :
              /\ task[w] \in TaskType /\ Ahead(task[w]) /\ Faithful(task[w])
              /\ Warranted(task[w]) /\ TaskOK(task[w])
              /\ task[w].pc # "idle" => task[w].order \in Orders
  BY ReleaserFacts DEF PromiseInv, ReleaseInv, SettlementInv, TypeOK, OrderTypes, HistoryTypes, Parts

(* A step that leaves what the promise sees is a stutter of it.            *)
LEMMA QuietPromise ==
  ASSUME UNCHANGED <<status, labels, returned, rolledBack, settled, manual>>
  PROVE  PromiseStep
<1>1. \A o : Stage(o)' = Stage(o) /\ Backed(o)' = Backed(o) /\ Due(o)' = Due(o)
  BY DEF Stage, Backed, Due, Parts, CountPart
<1>. QED BY <1>1 DEF PromiseStep, StageMap, BackedSet, DueMap

(* A step that writes the status of one order that exists.                 *)
LEMMA WriteMaps ==
  ASSUME TypeOK, NEW o \in Orders, NEW s \in Status \ {"None"}, status[o] # "None",
         status' = [status EXCEPT ![o] = s], UNCHANGED <<labels, returned, rolledBack>>
  PROVE  /\ status'[o] \in Status
         /\ StageMap' = [StageMap EXCEPT ![o] = Stage(o)']
         /\ DueMap' = DueMap
<1>1. status \in [Orders -> Status]
  BY DEF TypeOK, OrderTypes
<1>2. \A p \in Orders \ {o} : Stage(p)' = Stage(p)
  BY <1>1 DEF Stage
<1>3. \A p \in Orders : Due(p)' = Due(p)
  BY <1>1 DEF Due, Parts, CountPart
<1>. QED BY <1>1, <1>2, <1>3 DEF StageMap, DueMap

-----------------------------------------------------------------------------
(* Each step of the saga is a step of the promise.                         *)

LEMMA CreatePromise ==
  ASSUME SagaAssumption, PromiseInv, TypeOK', NEW w \in Workers, CreateOrder(w)
  PROVE  PromiseStep
<1>1. PICK o : o = task[w].order
  OBVIOUS
<1>2. UNCHANGED <<returned, rolledBack, settled, manual>> /\ o \in Orders
  BY <1>1, PromiseFacts DEF CreateOrder, At, ghostVars
<1>3. CASE UNCHANGED <<status, labels>>
  BY <1>2, <1>3, QuietPromise
<1>4. CASE /\ status[o] = "None" /\ status' = [status EXCEPT ![o] = "PendingPayment"]
           /\ \E H : labels' = [labels EXCEPT ![o] = H]
  <2>1. \A p \in Orders \ {o} : Stage(p)' = Stage(p) /\ Due(p)' = Due(p)
    BY <1>2, <1>4, PromiseFacts DEF Stage, Due, Parts, CountPart
  <2>2. Stage(o) = "none" /\ Stage(o)' = "waiting"
    BY <1>2, <1>4, PromiseFacts DEF Stage
  <2>3. Due(o)' \in SUBSET (Seats \cup {None})
    BY <1>2 DEF Due, Parts, TypeOK, OrderTypes
  <2>4. BackedSet' = BackedSet
    BY <1>2 DEF BackedSet, Backed
  <2>5. StageMap' = [StageMap EXCEPT ![o] = "waiting"] /\ StageMap[o] = "none"
    BY <1>2, <2>1, <2>2 DEF StageMap
  <2>6. DueMap' = [DueMap EXCEPT ![o] = Due(o)']
    BY <1>2, <2>1 DEF DueMap
  <2>. QED
    BY <1>2, <2>3, <2>4, <2>5, <2>6
       DEF PromiseStep, Promise!Next, Promise!Place, Promise!Enter, StageMap, BackedSet, DueMap
<1>. QED BY <1>1, <1>3, <1>4 DEF CreateOrder, SetStatus

(* The rollback of a checkout voids its order.                             *)
LEMMA RollbackPromise ==
  ASSUME SagaAssumption, PromiseInv, NEW w \in Workers, RollbackCancel(w)
  PROVE  PromiseStep
<1>1. PICK t : t = task[w]
  OBVIOUS
<1>2. PICK o : o = t.order
  OBVIOUS
<1>3. /\ UNCHANGED <<labels, returned, settled, manual>> /\ o \in Orders
      /\ t.pc = "rb_cancel" /\ t.snap # "None"
  BY <1>1, <1>2, PromiseFacts DEF RollbackCancel, At, Ahead
<1>4. CASE UNCHANGED <<status, rolledBack>>
  BY <1>3, <1>4, QuietPromise
<1>5. CASE /\ status[o] # "None" /\ status' = [status EXCEPT ![o] = "Cancelled"]
           /\ rolledBack' = rolledBack \cup {o}
  <2>1. \A p \in Orders \ {o} : Stage(p)' = Stage(p) /\ Due(p)' = Due(p)
    BY <1>3, <1>5, PromiseFacts DEF Stage, Due, Parts, CountPart
  <2>2. Stage(o) # "none" /\ Stage(o)' = "closed" /\ Due(o)' = {}
    BY <1>3, <1>5, PromiseFacts, StageFacts DEF Stage, Due
  <2>3. BackedSet' = BackedSet
    BY <1>3 DEF BackedSet, Backed
  <2>4. StageMap' = [StageMap EXCEPT ![o] = "closed"] /\ StageMap[o] # "none"
    BY <1>3, <2>1, <2>2 DEF StageMap
  <2>5. DueMap' = [DueMap EXCEPT ![o] = {}]
    BY <1>3, <2>1, <2>2 DEF DueMap
  <2>. QED
    BY <1>3, <2>3, <2>4, <2>5
       DEF PromiseStep, Promise!Next, Promise!Void, Promise!Enter, StageMap, BackedSet, DueMap
<1>. QED BY <1>1, <1>2, <1>3, <1>4, <1>5 DEF RollbackCancel, SetStatus, Matches

(* A claim compares the status, so it begins where the promise says.       *)
LEMMA ClaimPromise ==
  ASSUME SagaAssumption, PromiseInv, NEW w \in Workers, CancelClaim(w) \/ RefundClaim(w)
  PROVE  PromiseStep
<1>1. PICK t : t = task[w]
  OBVIOUS
<1>2. PICK o : o = t.order
  OBVIOUS
<1>3. /\ UNCHANGED <<labels, returned, rolledBack, settled, manual>> /\ o \in Orders /\ TypeOK
      /\ Ahead(t) /\ status \in [Orders -> Status]
  BY <1>1, <1>2, PromiseFacts DEF CancelClaim, RefundClaim, At, ghostVars
<1>4. BackedSet' = BackedSet
  BY <1>3 DEF BackedSet, Backed
<1>5. CASE UNCHANGED status
  BY <1>3, <1>5, QuietPromise
<1>6. CASE status[o] = "PendingPayment" /\ status' = [status EXCEPT ![o] = "Cancelling"]
  <2>1. StageMap' = [StageMap EXCEPT ![o] = Stage(o)'] /\ DueMap' = DueMap
    BY <1>3, <1>6, WriteMaps DEF Status
  <2>2. StageMap[o] = "waiting" /\ Stage(o)' = "cancelling"
    BY <1>3, <1>6 DEF StageMap, Stage
  <2>. QED
    BY <1>3, <1>4, <2>1, <2>2
       DEF PromiseStep, Promise!Next, Promise!BeginCancel, Promise!Enter, StageMap, BackedSet, DueMap
<1>7. CASE status[o] \in Refundable /\ status' = [status EXCEPT ![o] = "RefundPending"]
  <2>1. StageMap' = [StageMap EXCEPT ![o] = Stage(o)'] /\ DueMap' = DueMap
    BY <1>3, <1>7, WriteMaps DEF Status, Refundable
  <2>2. StageMap[o] \in {"waiting", "cancelled"} \cup Promise!After /\ Stage(o)' = "refunding"
    BY <1>3, <1>7 DEF StageMap, Stage, Refundable, Promise!After
  <2>. QED
    BY <1>3, <1>4, <2>1, <2>2
       DEF PromiseStep, Promise!Next, Promise!BeginRefund, Promise!Enter, StageMap, BackedSet, DueMap
<1>8. \/ UNCHANGED status
      \/ status[o] = "PendingPayment" /\ status' = [status EXCEPT ![o] = "Cancelling"]
      \/ status[o] \in Refundable /\ status' = [status EXCEPT ![o] = "RefundPending"]
  BY <1>1, <1>2, <1>3 DEF CancelClaim, RefundClaim, At, Matches, SetStatus, Ahead
<1>. QED BY <1>5, <1>6, <1>7, <1>8

(* The terminal writes come when nothing is due any more.                  *)
LEMMA CommitPromise ==
  ASSUME SagaAssumption, PromiseInv, NEW w \in Workers, CancelCommit(w) \/ RefundCommit(w)
  PROVE  PromiseStep
<1>1. PICK t : t = task[w]
  OBVIOUS
<1>2. PICK o : o = t.order
  OBVIOUS
<1>3. /\ UNCHANGED <<labels, returned, rolledBack, settled, manual>> /\ o \in Orders /\ TypeOK
      /\ Ahead(t) /\ Faithful(t) /\ status \in [Orders -> Status]
      /\ t.pc \in {"cw_commit", "rf_commit"}
  BY <1>1, <1>2, PromiseFacts DEF CancelCommit, RefundCommit, At, ghostVars
<1>4. BackedSet' = BackedSet
  BY <1>3 DEF BackedSet, Backed
<1>5. Due(o) = {} /\ status[o] # "None"
  BY <1>2, <1>3 DEF Faithful, Done, ReturnedAll, Due
<1>6. CASE UNCHANGED status
  BY <1>3, <1>6, QuietPromise
<1>7. CASE status[o] = "Cancelling" /\ status' = [status EXCEPT ![o] = "Cancelled"]
  <2>1. StageMap' = [StageMap EXCEPT ![o] = Stage(o)'] /\ DueMap' = DueMap
    BY <1>3, <1>7, WriteMaps DEF Status, Closed
  <2>2. o \notin rolledBack
    BY <1>3, <1>7 DEF PromiseInv, Past
  <2>3. StageMap[o] = "cancelling" /\ Stage(o)' = "cancelled" /\ DueMap[o] = {}
    BY <1>3, <1>5, <1>7, <2>2 DEF StageMap, DueMap, Stage
  <2>. QED
    BY <1>3, <1>4, <2>1, <2>3
       DEF PromiseStep, Promise!Next, Promise!Cancel, Promise!Enter, StageMap, BackedSet, DueMap
<1>8. CASE Past(o) /\ status' = [status EXCEPT ![o] = "Refunded"]
  <2>1. StageMap' = [StageMap EXCEPT ![o] = Stage(o)'] /\ DueMap' = DueMap
    BY <1>3, <1>5, <1>8, WriteMaps DEF Status, Closed
  <2>2. StageMap[o] \in Promise!After /\ Stage(o)' = "closed" /\ DueMap[o] = {}
    <3>1. Stage(o) \in Promise!After
      BY <1>3, <1>8, StageFacts
    <3>2. Stage(o)' = "closed"
      BY <1>3, <1>8 DEF Stage
    <3>. QED BY <1>3, <1>5, <3>1, <3>2 DEF StageMap, DueMap
  <2>. QED
    BY <1>3, <1>4, <2>1, <2>2
       DEF PromiseStep, Promise!Next, Promise!Refund, Promise!Enter, StageMap, BackedSet, DueMap
<1>9. \/ UNCHANGED status
      \/ status[o] = "Cancelling" /\ status' = [status EXCEPT ![o] = "Cancelled"]
      \/ Past(o) /\ status' = [status EXCEPT ![o] = "Refunded"]
  <2>1. CASE CancelCommit(w)
    <3>1. t.pc = "cw_commit"
      BY <1>1, <2>1 DEF CancelCommit, At
    <3>2. Started(o)
      BY <1>2, <1>3, <3>1 DEF Ahead, Pursued
    <3>. QED BY <1>1, <1>2, <2>1, <3>2 DEF CancelCommit, SetStatus, Started
  <2>2. CASE RefundCommit(w)
    <3>1. t.pc = "rf_commit"
      BY <1>1, <2>2 DEF RefundCommit, At
    <3>2. Past(o)
      BY <1>2, <1>3, <3>1 DEF Ahead, Pursued
    <3>. QED BY <1>1, <1>2, <2>2, <3>2 DEF RefundCommit, SetStatus
  <2>. QED BY <2>1, <2>2
<1>. QED BY <1>6, <1>7, <1>8, <1>9

(* A sale has a settlement or an operator behind it (SettlementInv).       *)
LEMMA SalePromise ==
  ASSUME SagaAssumption, PromiseInv, SettlementInv', NEW w \in Workers,
         TransitionWrite(w) \/ IssueWrite(w)
  PROVE  PromiseStep
<1>1. PICK t : t = task[w]
  OBVIOUS
<1>2. PICK o : o = t.order
  OBVIOUS
<1>3. /\ UNCHANGED <<labels, returned, rolledBack, settled>> /\ o \in Orders /\ TypeOK
      /\ Ahead(t) /\ Warranted(t) /\ status \in [Orders -> Status] /\ manual \subseteq Orders
      /\ t.target \in Status
  BY <1>1, <1>2, PromiseFacts
     DEF TransitionWrite, IssueWrite, At, ghostVars, TypeOK, HistoryTypes, TaskType
<1>4. ASSUME NEW s \in {"Paid", "Confirmed", "TicketIssued"},
             status' = [status EXCEPT ![o] = s],
             status[o] \in {"PendingPayment", "Expired"} \/ Past(o),
             manual' \in {manual, manual \cup {o}}
      PROVE  PromiseStep
  <2>1. StageMap' = [StageMap EXCEPT ![o] = Stage(o)'] /\ DueMap' = DueMap
    <3>1. s \in Status \ {"None"} /\ status[o] # "None"
      BY <1>4 DEF Status, Open, Past
    <3>. QED BY <1>3, <1>4, <3>1, WriteMaps
  <2>2. StageMap[o] \in {"waiting"} \cup Promise!After
    BY <1>3, <1>4, StageFacts DEF StageMap
  <2>3. Stage(o)' = "sold"
    BY <1>3, <1>4 DEF Stage
  <2>4. o \in BackedSet'
    <3>1. TicketNeedsSettlement' /\ status'[o] = s
      BY <1>3, <1>4 DEF SettlementInv
    <3>. QED BY <1>3, <1>4, <3>1 DEF TicketNeedsSettlement, BackedSet
  <2>5. BackedSet' \in {BackedSet, BackedSet \cup {o}}
    <3>1. \A p \in Orders \ {o} : Backed(p)' = Backed(p)
      BY <1>3, <1>4 DEF Backed
    <3>2. Backed(o)'
      BY <2>4 DEF BackedSet
    <3>. QED BY <1>3, <3>1, <3>2 DEF BackedSet
  <2>. QED
    BY <1>3, <2>1, <2>2, <2>3, <2>4, <2>5
       DEF PromiseStep, Promise!Next, Promise!Sell, Promise!Enter, StageMap, BackedSet, DueMap
<1>5. ASSUME NEW s \in {"PendingPayment", "Expired"},
             status' = [status EXCEPT ![o] = s],
             status[o] \in {"PendingPayment", "Expired"},
             UNCHANGED manual
      PROVE  PromiseStep
  <2>1. StageMap' = [StageMap EXCEPT ![o] = Stage(o)'] /\ DueMap' = DueMap
    <3>1. s \in Status \ {"None"} /\ status[o] # "None"
      BY <1>5 DEF Status, Open, Closed
    <3>. QED BY <1>3, <1>5, <3>1, WriteMaps
  <2>2. Stage(o) = "waiting" /\ Stage(o)' = "waiting"
    BY <1>3, <1>5 DEF Stage
  <2>3. StageMap' = StageMap
    BY <1>3, <2>1, <2>2 DEF StageMap
  <2>4. BackedSet' = BackedSet
    BY <1>3, <1>5 DEF BackedSet, Backed
  <2>. QED BY <2>1, <2>3, <2>4 DEF PromiseStep
<1>6. CASE TransitionWrite(w)
  <2>1. t.snap \in AllowedFor(t.target)
    BY <1>1, <1>3, <1>6 DEF TransitionWrite, At, Warranted
  <2>2. CASE UNCHANGED <<status, manual>>
    BY <1>3, <2>2, QuietPromise
  <2>3. CASE /\ status[o] = t.snap /\ status' = [status EXCEPT ![o] = t.target]
             /\ manual' = IF t.job = "mark" /\ t.target = "Paid"
                          THEN manual \cup {o} ELSE manual
    <3>1. t.target \in {"Paid", "Confirmed", "PendingPayment", "Expired"}
      BY <2>1 DEF AllowedFor
    <3>2. CASE t.target \in {"Paid", "Confirmed"}
      <4>1. status[o] \in {"PendingPayment", "Expired"} \/ Past(o)
        BY <2>1, <2>3, <3>2 DEF AllowedFor, Past
      <4>. QED BY <1>4, <2>3, <3>2, <4>1
    <3>3. CASE t.target \in {"PendingPayment", "Expired"}
      <4>1. status[o] \in {"PendingPayment", "Expired"}
        BY <2>1, <2>3, <3>3 DEF AllowedFor
      <4>. QED BY <1>5, <2>3, <3>3, <4>1
    <3>. QED BY <3>1, <3>2, <3>3
  <2>. QED BY <1>1, <1>2, <1>6, <2>2, <2>3 DEF TransitionWrite, Matches, SetStatus
<1>7. CASE IssueWrite(w)
  <2>1. status' = [status EXCEPT ![o] = "TicketIssued"] /\ UNCHANGED manual /\ t.pc = "it_write"
    BY <1>1, <1>2, <1>7 DEF IssueWrite, SetStatus, At, ghostVars
  <2>2. Past(o)
    BY <1>2, <1>3, <2>1 DEF Ahead
  <2>. QED BY <1>4, <2>1, <2>2
<1>. QED BY <1>6, <1>7

(* A part handed back by a cancel or a refund; a checkout that fails       *)
(* returns what no order has.                                              *)
LEMMA HandBackPromise ==
  ASSUME SagaAssumption, PromiseInv, NEW w \in Workers,
         (\E l \in Seats : ReleaseSeat(w, l)) \/ ReleaseCount(w)
  PROVE  PromiseStep
<1>1. PICK t : t = task[w]
  OBVIOUS
<1>2. PICK o : o = t.order
  OBVIOUS
<1>3. /\ UNCHANGED <<status, labels, rolledBack, settled, manual>> /\ o \in Orders
      /\ Ahead(t) /\ status \in [Orders -> Status] /\ t.pc \in ReleaseSteps
      /\ returned \in [Orders -> SUBSET (Seats \cup {None})]
  BY <1>1, <1>2, PromiseFacts DEF ReleaseSeat, ReleaseCount, At, orderVars, ReleaseSteps
<1>4. CASE UNCHANGED returned
  BY <1>3, <1>4, QuietPromise
<1>5. ASSUME NEW p \in Seats \cup {None}, Compensates(t),
             returned' = [returned EXCEPT ![o] = @ \cup {p}]
      PROVE  PromiseStep
  <2>1. Started(o)
    BY <1>2, <1>3, <1>5 DEF Ahead, Pursued, Batch, Compensates, Past, Started
  <2>2. Stage(o) \in Promise!Begun
    BY <1>3, <2>1, StageFacts
  <2>3. \A q : Stage(q)' = Stage(q) /\ Backed(q)' = Backed(q) /\ Parts(q)' = Parts(q)
    BY <1>3 DEF Stage, Backed, Parts, CountPart
  <2>4. \A q \in Orders \ {o} : Due(q)' = Due(q)
    BY <1>3, <1>5, <2>3 DEF Due
  <2>5. Due(o)' = Due(o) \ {p}
    BY <1>3, <1>5, <2>3 DEF Due
  <2>6. DueMap' = [DueMap EXCEPT ![o] = @ \ {p}]
    BY <1>3, <2>4, <2>5 DEF DueMap
  <2>7. StageMap[o] \in Promise!Begun /\ StageMap' = StageMap /\ BackedSet' = BackedSet
    BY <1>3, <2>2, <2>3 DEF StageMap, BackedSet
  <2>. QED
    BY <1>3, <2>6, <2>7
       DEF PromiseStep, Promise!Next, Promise!HandBack, StageMap, BackedSet, DueMap
<1>6. \/ UNCHANGED returned
      \/ \E p \in Seats \cup {None} : NoteReturned(t, p)
  BY <1>1 DEF ReleaseSeat, ReleaseCount
<1>. QED BY <1>2, <1>4, <1>5, <1>6 DEF NoteReturned, Compensates

LEMMA SettlePromise ==
  ASSUME SagaAssumption, PromiseInv, NEW o \in Orders, NEW s \in Slots, Settle(o, s)
  PROVE  PromiseStep
<1>1. UNCHANGED <<status, labels, returned, rolledBack, manual>> /\ settled' = settled \cup {<<o, s>>}
  BY DEF Settle, orderVars
<1>2. StageMap' = StageMap /\ DueMap' = DueMap
  BY <1>1 DEF StageMap, DueMap, Stage, Due, Parts, CountPart
<1>3. BackedSet' = BackedSet \cup {o}
  BY <1>1 DEF BackedSet, Backed
<1>. QED
  BY <1>2, <1>3 DEF PromiseStep, Promise!Next, Promise!Back, StageMap, BackedSet, DueMap

(* Every other step is a stutter.                                          *)
LEMMA CheckoutPromise ==
  ASSUME NEW w \in Workers,
         \/ CheckoutLookup(w) \/ (\E l \in Seats : ReserveSeat(w, l)) \/ ReserveCount(w)
         \/ CreatePayment(w) \/ RollbackRead(w) \/ RollbackVoucher(w)
         \/ \E o \in Orders : SubmitCheckout(w, o)
  PROVE  PromiseStep
<1>1. UNCHANGED <<status, labels, returned, rolledBack, settled, manual>>
  BY DEF CheckoutLookup, ReserveSeat, ReserveCount, CreatePayment, RollbackRead,
         RollbackVoucher, SubmitCheckout, orderVars, ghostVars
<1>. QED BY <1>1, QuietPromise

LEMMA CompensationPromise ==
  ASSUME NEW w \in Workers,
         \/ CancelRead(w) \/ CancelVoucher(w) \/ ListOpenPayments(w)
         \/ (\E s \in Slots : CancelPayment(w, s)) \/ RefundRead(w) \/ ListPaidPayments(w)
         \/ (\E s \in Slots : MarkRefunded(w, s))
  PROVE  PromiseStep
<1>1. UNCHANGED <<status, labels, returned, rolledBack, settled, manual>>
  BY DEF CancelRead, CancelVoucher, ListOpenPayments, CancelPayment, MarkRefunded,
         RefundRead, ListPaidPayments, orderVars, ghostVars
<1>. QED BY <1>1, QuietPromise

LEMMA ReaderPromise ==
  ASSUME NEW w \in Workers,
         \/ PaidRead(w) \/ PaidVerify(w) \/ PaidNext(w) \/ TransitionRead(w)
         \/ IssueRead(w) \/ ExpireCheckRead(w) \/ ExpireCheckVerify(w) \/ Deliver(w)
         \/ (\E o \in Orders : CronPick(w, o))
         \/ (\E o \in Orders, kind \in Commands : SendRequest(w, o, kind))
  PROVE  PromiseStep
<1>1. UNCHANGED <<status, labels, returned, rolledBack, settled, manual>>
  BY DEF PaidRead, PaidVerify, PaidNext, TransitionRead, IssueRead, ExpireCheckRead,
         ExpireCheckVerify, Deliver, DeliverPaidEvent, DeliverExpireCheck, CronPick,
         SendRequest, orderVars, ghostVars
<1>. QED BY <1>1, QuietPromise

LEMMA EnvironmentPromise ==
  ASSUME \/ \E o \in Orders : RemoveOrder(o)
         \/ \E o \in Orders : Age(o)
         \/ \E r \in late : RunLate(r)
         \/ Crash \/ UNCHANGED vars
  PROVE  PromiseStep
<1>1. UNCHANGED <<status, labels, returned, rolledBack, settled, manual>>
  BY DEF RemoveOrder, Age, RunLate, Crash, vars, orderVars, ghostVars
<1>. QED BY <1>1, QuietPromise

LEMMA NextPromise ==
  ASSUME SagaAssumption, PromiseInv, [Next]_vars
  PROVE  PromiseStep
<1>1. SettlementInv' /\ TypeOK'
  BY NextSettlement DEF PromiseInv, ReleaseInv, SettlementInv
<1>2. ASSUME NEW w \in Workers, WorkerStep(w) PROVE PromiseStep
  BY <1>1, <1>2, CreatePromise, RollbackPromise, ClaimPromise, CommitPromise, SalePromise,
     HandBackPromise, CheckoutPromise, CompensationPromise, ReaderPromise, Zenon
     DEF WorkerStep
<1>3. CASE \E o \in Orders, s \in Slots : Settle(o, s)
  BY <1>3, SettlePromise
<1>4. ASSUME NEW w \in Workers,
             \/ Deliver(w)
             \/ \E o \in Orders : SubmitCheckout(w, o)
             \/ \E o \in Orders, kind \in Commands : SendRequest(w, o, kind)
             \/ \E o \in Orders : CronPick(w, o)
      PROVE  PromiseStep
  BY <1>4, CheckoutPromise, ReaderPromise
<1>5. CASE \/ \E o \in Orders : RemoveOrder(o)
           \/ \E o \in Orders : Age(o)
           \/ \E r \in late : RunLate(r)
           \/ Crash \/ Rest \/ UNCHANGED vars
  BY <1>5, EnvironmentPromise DEF Rest
<1>. QED BY <1>2, <1>3, <1>4, <1>5 DEF Next

-----------------------------------------------------------------------------
(* In the promise no order comes back from where it is past cancelling.    *)
Advancing ==
  \A o \in Orders : (Past(o) => Past(o)') /\ (Started(o) => Started(o)')

LEMMA StageFactsNext ==
  ASSUME NEW o \in Orders, status'[o] \in Status
  PROVE  /\ Stage(o)' \in Promise!After <=> Past(o)'
         /\ Stage(o)' \in Promise!Begun <=> Started(o)'
  BY DEF Stage, Past, Started, Promise!After, Promise!Begun, Status, Open, Closed

LEMMA StageAdvances ==
  ASSUME PromiseStep
  PROVE  \A o \in Orders :
           /\ Stage(o) \in Promise!After => Stage(o)' \in Promise!After
           /\ Stage(o) \in Promise!Begun => Stage(o)' \in Promise!Begun
<1>1. CASE StageMap' = StageMap
  BY <1>1 DEF StageMap
<1>2. ASSUME NEW p \in Orders, NEW s, StageMap' = [StageMap EXCEPT ![p] = s],
             StageMap[p] \in Promise!After => s \in Promise!After,
             StageMap[p] \in Promise!Begun => s \in Promise!Begun
      PROVE  \A o \in Orders :
               /\ Stage(o) \in Promise!After => Stage(o)' \in Promise!After
               /\ Stage(o) \in Promise!Begun => Stage(o)' \in Promise!Begun
  <2>1. \A o \in Orders \ {p} : Stage(o)' = Stage(o)
    BY <1>2 DEF StageMap
  <2>2. Stage(p)' = s /\ Stage(p) = StageMap[p]
    BY <1>2 DEF StageMap
  <2>. QED BY <1>2, <2>1, <2>2
<1>3. \/ StageMap' = StageMap
      \/ \E p \in Orders : \E s :
           /\ StageMap' = [StageMap EXCEPT ![p] = s]
           /\ StageMap[p] \in Promise!After => s \in Promise!After
           /\ StageMap[p] \in Promise!Begun => s \in Promise!Begun
  <2>1. CASE UNCHANGED <<StageMap, BackedSet, DueMap>>
    BY <2>1
  <2>2. ASSUME NEW p \in Orders, NEW s,
               s \in Promise!After
                 \/ (s = "waiting" /\ StageMap[p] = "none")
                 \/ (s = "cancelling" /\ StageMap[p] = "waiting")
                 \/ (s = "cancelled" /\ StageMap[p] = "cancelling")
        PROVE  /\ StageMap[p] \in Promise!After => s \in Promise!After
               /\ StageMap[p] \in Promise!Begun => s \in Promise!Begun
    BY <2>2 DEF Promise!After, Promise!Begun
  <2>3. ASSUME NEW p \in Orders,
               \/ Promise!Place(p) \/ Promise!Back(p) \/ Promise!Sell(p) \/ Promise!Void(p)
               \/ Promise!BeginCancel(p) \/ Promise!Cancel(p) \/ Promise!BeginRefund(p)
               \/ Promise!Refund(p)
               \/ \E g \in Seats \cup {None} : Promise!HandBack(p, g)
        PROVE  \/ StageMap' = StageMap
               \/ \E s : /\ StageMap' = [StageMap EXCEPT ![p] = s]
                         /\ \/ s \in Promise!After
                            \/ s = "waiting" /\ StageMap[p] = "none"
                            \/ s = "cancelling" /\ StageMap[p] = "waiting"
                            \/ s = "cancelled" /\ StageMap[p] = "cancelling"
    BY <2>3 DEF Promise!Place, Promise!Back, Promise!Sell, Promise!Void, Promise!BeginCancel,
                Promise!Cancel, Promise!BeginRefund, Promise!Refund, Promise!HandBack,
                Promise!Enter, Promise!After, StageMap
  <2>. QED BY <2>1, <2>2, <2>3 DEF PromiseStep, Promise!Next, StageMap, BackedSet, DueMap
<1>. QED BY <1>1, <1>2, <1>3

LEMMA NextAdvances ==
  ASSUME SagaAssumption, PromiseInv, TypeOK', PromiseStep
  PROVE  Advancing
<1>1. \A o \in Orders : status[o] \in Status /\ status'[o] \in Status
  BY PromiseFacts DEF TypeOK, OrderTypes
<1>. QED BY <1>1, StageAdvances, StageFacts, StageFactsNext DEF Advancing

-----------------------------------------------------------------------------
(* What a handler has seen stays seen.                                     *)

(* A handler at none of the places that rely on it. *)
Unengaged(t) ==
  t.pc \notin Pursued \cup {"cw_read", "cw_claim", "rf_read", "rf_claim", "rb_cancel", "it_write"}

LEMMA UnengagedIsAhead == ASSUME NEW t, Unengaged(t) PROVE Ahead(t) /\ Ahead(t)'
  BY DEF Unengaged, Ahead, Pursued

LEMMA UnengagedBlank == Unengaged(Blank)
  BY DEF Unengaged, Blank, Pursued, Batch, ReleaseSteps

LEMMA AheadStays ==
  ASSUME SagaAssumption, Advancing, NEW t, TaskOK(t), Ahead(t)
  PROVE  Ahead(t)'
<1>1. CASE t.order \in Orders
  BY <1>1 DEF Ahead, Advancing
<1>2. CASE t.order \notin Orders
  <2>1. Unengaged(t)
    BY <1>2 DEF TaskOK, TaskType, Unengaged, Pursued, Batch, ReleaseSteps
  <2>. QED BY <2>1, UnengagedIsAhead
<1>. QED BY <1>1, <1>2

(* A task that does not change, and the one that does.                     *)
LEMMA AheadFrame ==
  ASSUME SagaAssumption, PromiseInv, ReleaseInv', Advancing, NEW w \in Workers, NEW t,
         Become(w, t), Ahead(t)', \A o \in rolledBack' : Past(o)'
  PROVE  PromiseInv'
<1>1. task' = [task EXCEPT ![w] = t] /\ task \in [Workers -> TaskType]
  BY PromiseFacts DEF Become, TypeOK, TaskTypes
<1>2. ASSUME NEW v \in Workers PROVE Ahead(task[v])'
  <2>1. PICK u : u = task'[v]
    OBVIOUS
  <2>2. Ahead(u)'
    <3>1. CASE v = w
      BY <1>1, <2>1, <3>1
    <3>2. CASE v # w
      BY <1>1, <2>1, <3>2, PromiseFacts, AheadStays
    <3>. QED BY <3>1, <3>2
  <2>. QED BY <2>1, <2>2 DEF Ahead, Past, Started
<1>. QED BY <1>2 DEF PromiseInv

LEMMA RolledBackStay ==
  ASSUME SagaAssumption, PromiseInv, Advancing, UNCHANGED rolledBack
  PROVE  \A o \in rolledBack' : Past(o)'
  BY PromiseFacts DEF PromiseInv, Advancing

(* The usual step: one handler moves on with what it has seen.             *)
LEMMA AheadStep ==
  ASSUME SagaAssumption, PromiseInv, ReleaseInv', Advancing, UNCHANGED rolledBack,
         NEW w \in Workers, NEW t, Become(w, t), Ahead(t)
  PROVE  PromiseInv'
<1>1. TaskOK(t)
  <2>1. TypeOK'
    BY DEF ReleaseInv, SettlementInv
  <2>2. task' = [task EXCEPT ![w] = t] /\ task \in [Workers -> TaskType]
    BY PromiseFacts DEF Become, TypeOK, TaskTypes
  <2>. QED BY <2>1, <2>2 DEF TypeOK, TaskTypes
<1>2. Ahead(t)'
  BY <1>1, AheadStays
<1>. QED BY <1>2, RolledBackStay, AheadFrame

(* releaseReservation keeps the job and the order.                         *)
Entitled(t) ==
  /\ t.job = "refund" => Past(t.order)
  /\ t.job = "cancel" => Started(t.order)

LEMMA PursuedAhead ==
  ASSUME NEW t, Entitled(t), t.pc \in Batch
  PROVE  Ahead(t)
  BY DEF Entitled, Ahead, Batch, ReleaseSteps

LEMMA AfterReleaseAhead ==
  ASSUME NEW t \in TaskType, NEW ok \in BOOLEAN, Entitled(t)
  PROVE  Ahead(AfterRelease(t, ok))
<1>. DEFINE rest == [Blank EXCEPT !.entry = t.entry, !.job = t.job, !.order = t.order,
                                  !.ref = t.ref, !.snap = t.snap, !.ok = ok]
            x == [rest EXCEPT !.pc = "cw_voucher"]
            y == [rest EXCEPT !.pc = "rf_commit"]
<1>1. AfterRelease(t, ok) = CASE t.job = "cancel"       -> x
                              [] t.job = "refund" /\ ok -> y
                              [] OTHER                  -> Blank
  BY DEF AfterRelease
<1>2. /\ x.pc = "cw_voucher" /\ x.job = t.job /\ x.order = t.order
      /\ y.pc = "rf_commit" /\ y.job = t.job /\ y.order = t.order
  BY DEF Blank
<1>. HIDE DEF x, y
<1>3. t.job = "cancel" => Ahead(x)
  BY <1>2 DEF Entitled, Ahead
<1>4. t.job = "refund" => Ahead(y)
  BY <1>2 DEF Entitled, Ahead
<1>. QED BY <1>1, <1>3, <1>4, UnengagedBlank, UnengagedIsAhead

LEMMA BeginReleaseAhead ==
  ASSUME NEW t \in TaskType, Entitled(t)
  PROVE  Ahead(BeginRelease(t)) /\ Ahead(RetryRelease(t))
<1>1. ASSUME NEW u \in TaskType, Entitled(u)
      PROVE  Ahead(BeginRelease(u))
  <2>. PICK x : x = [u EXCEPT !.pc = "rel_seats", !.pend = u.held]
    OBVIOUS
  <2>. PICK y : y = [u EXCEPT !.pc = "rel_count", !.pend = {}]
    OBVIOUS
  <2>1. /\ x.pc \in Batch /\ x.job = u.job /\ x.order = u.order
        /\ y.pc \in Batch /\ y.job = u.job /\ y.order = u.order
    BY DEF TaskType, Batch, ReleaseSteps
  <2>2. Ahead(x) /\ Ahead(y)
    BY <1>1, <2>1, PursuedAhead DEF Entitled
  <2>. QED BY <1>1, <2>2, AfterReleaseAhead DEF BeginRelease
<1>2. CASE t.tries > 0
  <2>. PICK u : u = [t EXCEPT !.tries = @ - 1]
    OBVIOUS
  <2>1. u \in TaskType /\ u.order = t.order /\ u.job = t.job
    BY <1>2 DEF TaskType
  <2>. QED BY <1>1, <1>2, <2>1 DEF RetryRelease, Entitled
<1>3. CASE ~(t.tries > 0)
  BY <1>1, <1>3, AfterReleaseAhead DEF RetryRelease
<1>. QED BY <1>2, <1>3

LEMMA ReleaseOrderAhead ==
  ASSUME SagaAssumption, NEW t \in TaskType, t.order \in Orders,
         labels \in [Orders -> SUBSET Seats], Entitled(t)
  PROVE  Ahead(ReleaseOrder(t)) /\ Ahead(AfterCancelOpen(t))
<1>. PICK n : n = CountPart(t.order)
  OBVIOUS
<1>. PICK u : u = [t EXCEPT !.held = labels[t.order], !.qty = n, !.pays = {}]
  OBVIOUS
<1>. PICK v : v = [t EXCEPT !.pc = "list_paid", !.pays = {}]
  OBVIOUS
<1>1. n \in Nat /\ labels[t.order] \subseteq Seats
  BY CountPartOK
<1>2. u \in TaskType /\ u.order = t.order /\ u.job = t.job
  BY <1>1 DEF TaskType
<1>3. Ahead(BeginRelease(u))
  BY <1>2, BeginReleaseAhead DEF Entitled
<1>4. v.pc \in Batch /\ v.order = t.order /\ v.job = t.job
  BY DEF TaskType, Batch
<1>5. Ahead(v)
  BY <1>4, PursuedAhead DEF Entitled
<1>. QED BY <1>3, <1>5 DEF ReleaseOrder, AfterCancelOpen

-----------------------------------------------------------------------------
(* Each step keeps what its handler and the others have seen.              *)

LEMMA CheckoutAhead ==
  ASSUME SagaAssumption, PromiseInv, ReleaseInv', Advancing, NEW w \in Workers,
         \/ CheckoutLookup(w) \/ (\E l \in Seats : ReserveSeat(w, l)) \/ ReserveCount(w)
         \/ CreateOrder(w) \/ CreatePayment(w) \/ RollbackRead(w) \/ RollbackVoucher(w)
  PROVE  PromiseInv'
<1>. DEFINE t == task[w]
            next == [t EXCEPT !.pc = "rb_cancel", !.snap = status[t.order]]
            goto(pc) == [t EXCEPT !.pc = pc]
            given(H, pc) == [t EXCEPT !.held = H, !.pc = pc]
            counted(H, q) == [t EXCEPT !.held = H, !.qty = q, !.pc = "co_create"]
<1>1. t \in TaskType /\ t.pc \in CheckoutSteps /\ UNCHANGED rolledBack
  BY PromiseFacts
     DEF CheckoutLookup, ReserveSeat, ReserveCount, CreateOrder, CreatePayment, RollbackRead,
         RollbackVoucher, At, CheckoutSteps, ghostVars
<1>2. t.job = "checkout"
  BY <1>1, PromiseFacts DEF Faithful
<1>3. Ahead(BeginRelease(t))
  BY <1>1, <1>2, BeginReleaseAhead DEF Entitled
<1>4. /\ \A pc : goto(pc).pc = pc
      /\ \A H, pc : given(H, pc).pc = pc
      /\ \A H, q : counted(H, q).pc = "co_create"
      /\ next.pc = "rb_cancel" /\ next.snap = status[t.order]
  BY <1>1 DEF TaskType
<1>5. \/ Become(w, Blank) \/ Become(w, BeginRelease(t))
      \/ \E pc \in {"co_reserve", "co_pay", "rb_read"} : Become(w, goto(pc))
      \/ \E H : \E pc \in {"co_create", "co_reserve"} : Become(w, given(H, pc))
      \/ \E H, q : Become(w, counted(H, q))
      \/ status[t.order] # "None" /\ Become(w, next)
  <2>1. CASE CheckoutLookup(w) \/ CreateOrder(w) \/ CreatePayment(w)
    BY <2>1 DEF CheckoutLookup, CreateOrder, CreatePayment, Goto, Finish
  <2>2. CASE \E l \in Seats : ReserveSeat(w, l)
    BY <2>2 DEF ReserveSeat, At
  <2>3. CASE ReserveCount(w)
    BY <2>3 DEF ReserveCount
  <2>4. CASE RollbackRead(w) \/ RollbackVoucher(w)
    BY <2>4 DEF RollbackRead, RollbackVoucher, Exists
  <2>. QED BY <2>1, <2>2, <2>3, <2>4
<1>. HIDE DEF next, goto, given, counted
<1>6. /\ \A pc \in {"co_reserve", "co_pay", "rb_read"} : Unengaged(goto(pc))
      /\ \A H : \A pc \in {"co_create", "co_reserve"} : Unengaged(given(H, pc))
      /\ \A H, q : Unengaged(counted(H, q))
  BY <1>4 DEF Unengaged, Pursued, Batch, ReleaseSteps
<1>7. status[t.order] # "None" => Ahead(next)
  BY <1>4 DEF Ahead, Pursued, Batch, ReleaseSteps
<1>. QED BY <1>1, <1>3, <1>5, <1>6, <1>7, UnengagedBlank, UnengagedIsAhead, AheadStep

LEMMA RollbackAhead ==
  ASSUME SagaAssumption, PromiseInv, ReleaseInv', Advancing, NEW w \in Workers,
         RollbackCancel(w)
  PROVE  PromiseInv'
<1>1. PICK t : t = task[w]
  OBVIOUS
<1>2. PICK next : next = [t EXCEPT !.pc = "rb_voucher"]
  OBVIOUS
<1>3. /\ t \in TaskType /\ t.pc \in CheckoutSteps /\ t.order \in Orders
      /\ status \in [Orders -> Status]
  BY <1>1, PromiseFacts DEF RollbackCancel, At, CheckoutSteps
<1>4. t.job = "checkout"
  BY <1>1, <1>3, PromiseFacts DEF Faithful
<1>5. Ahead(BeginRelease(t))
  BY <1>3, <1>4, BeginReleaseAhead DEF Entitled
<1>6. CASE Become(w, BeginRelease(t)) /\ UNCHANGED rolledBack
  BY <1>5, <1>6, AheadStep
<1>7. CASE /\ status' = [status EXCEPT ![t.order] = "Cancelled"]
           /\ rolledBack' = rolledBack \cup {t.order} /\ Become(w, next)
  <2>1. Past(t.order)'
    BY <1>3, <1>7 DEF Past
  <2>2. \A o \in rolledBack' : Past(o)'
    <3>1. ASSUME NEW o \in rolledBack' PROVE Past(o)'
      <4>1. CASE o = t.order
        BY <1>7, <2>1, <4>1 DEF Past
      <4>2. CASE o # t.order
        BY <1>7, <3>1, <4>2, PromiseFacts DEF PromiseInv, Advancing
      <4>. QED BY <4>1, <4>2
    <3>. QED BY <3>1
  <2>3. Unengaged(next)
    <3>1. next.pc = "rb_voucher"
      BY <1>2, <1>3 DEF TaskType
    <3>. QED BY <3>1 DEF Unengaged, Pursued, Batch, ReleaseSteps
  <2>. QED BY <1>7, <2>2, <2>3, UnengagedIsAhead, AheadFrame
<1>. QED BY <1>1, <1>2, <1>6, <1>7 DEF RollbackCancel, SetStatus, Goto

LEMMA HandBackAhead ==
  ASSUME SagaAssumption, PromiseInv, ReleaseInv', Advancing, NEW w \in Workers,
         (\E l \in Seats : ReleaseSeat(w, l)) \/ ReleaseCount(w)
  PROVE  PromiseInv'
<1>. DEFINE t == task[w]
            rest(P) == [t EXCEPT !.pend = P]
            count(P) == [rest(P) EXCEPT !.pc = "rel_count"]
<1>1. /\ t \in TaskType /\ t.pc \in ReleaseSteps /\ Ahead(t) /\ UNCHANGED rolledBack
  BY PromiseFacts DEF ReleaseSeat, ReleaseCount, At, ReleaseSteps
<1>2. Entitled(t)
  BY <1>1 DEF Ahead, Entitled, Pursued, Batch
<1>3. Ahead(AfterRelease(t, TRUE)) /\ Ahead(RetryRelease(t))
  BY <1>1, <1>2, AfterReleaseAhead, BeginReleaseAhead
<1>4. \/ \E P : Become(w, rest(P)) \/ Become(w, count(P))
      \/ Become(w, AfterRelease(t, TRUE)) \/ Become(w, RetryRelease(t))
  BY DEF ReleaseSeat, ReleaseCount
<1>5. ASSUME NEW P PROVE Ahead(rest(P)) /\ Ahead(count(P))
  <2>1. /\ rest(P).pc = t.pc /\ rest(P).job = t.job /\ rest(P).order = t.order
        /\ count(P).pc = "rel_count" /\ count(P).job = t.job /\ count(P).order = t.order
    BY <1>1 DEF TaskType
  <2>. HIDE DEF rest, count
  <2>. QED BY <1>1, <1>2, <2>1, PursuedAhead DEF Entitled, Batch, ReleaseSteps
<1>. HIDE DEF rest, count
<1>. QED BY <1>1, <1>3, <1>4, <1>5, AheadStep

(* The reads of cancelWorkflow and refund.                                 *)
LEMMA CancelReadAhead ==
  ASSUME SagaAssumption, PromiseInv, ReleaseInv', Advancing, NEW w \in Workers,
         CancelRead(w) \/ RefundRead(w)
  PROVE  PromiseInv'
<1>. DEFINE t == task[w]
            o == t.order
            open == [t EXCEPT !.pc = "list_open"]
            claim == [t EXCEPT !.pc = "cw_claim", !.snap = status[o]]
            read(pc) == [[t EXCEPT !.snap = status[o]] EXCEPT !.pc = pc]
<1>1. t \in TaskType /\ Ahead(t) /\ UNCHANGED rolledBack
  BY PromiseFacts DEF CancelRead, RefundRead, ghostVars
<1>2. \/ Become(w, Blank)
      \/ /\ t.job = "cancel"
         /\ \/ status[o] = "Cancelling" /\ Become(w, open)
            \/ status[o] = "PendingPayment" /\ Become(w, claim)
      \/ /\ t.job = "refund"
         /\ \/ status[o] = "RefundPending" /\ Become(w, read("list_open"))
            \/ status[o] \in Refundable /\ Become(w, read("rf_claim"))
  BY <1>1 DEF CancelRead, RefundRead, At, Ahead, Goto, Finish
<1>3. /\ open.pc = "list_open" /\ open.order = o /\ open.job = t.job
      /\ claim.pc = "cw_claim" /\ claim.snap = status[o] /\ claim.job = t.job
      /\ \A pc : /\ read(pc).pc = pc /\ read(pc).order = o /\ read(pc).job = t.job
                 /\ read(pc).snap = status[o]
  BY <1>1 DEF TaskType
<1>. HIDE DEF open, claim, read
<1>4. t.job = "cancel" /\ status[o] = "Cancelling" => Ahead(open)
  BY <1>3, PursuedAhead DEF Entitled, Started, Batch
<1>5. t.job = "cancel" /\ status[o] = "PendingPayment" => Ahead(claim)
  BY <1>3 DEF Ahead, Pursued, Batch, ReleaseSteps
<1>6. t.job = "refund" /\ status[o] = "RefundPending" => Ahead(read("list_open"))
  BY <1>3, PursuedAhead DEF Entitled, Past, Batch
<1>7. t.job = "refund" /\ status[o] \in Refundable => Ahead(read("rf_claim"))
  BY <1>3 DEF Ahead, Pursued, Batch, ReleaseSteps
<1>. QED
  BY <1>1, <1>2, <1>4, <1>5, <1>6, <1>7, UnengagedBlank, UnengagedIsAhead, AheadStep

(* A claim brings the order where its handler may go on.                   *)
LEMMA ClaimAhead ==
  ASSUME SagaAssumption, PromiseInv, ReleaseInv', Advancing, NEW w \in Workers,
         CancelClaim(w) \/ RefundClaim(w)
  PROVE  PromiseInv'
<1>1. PICK t : t = task[w]
  OBVIOUS
<1>2. PICK o : o = t.order
  OBVIOUS
<1>3. PICK next : next = [t EXCEPT !.pc = "list_open"]
  OBVIOUS
<1>4. /\ t \in TaskType /\ o \in Orders /\ Ahead(t) /\ UNCHANGED rolledBack
      /\ status \in [Orders -> Status]
  BY <1>1, <1>2, PromiseFacts DEF CancelClaim, RefundClaim, At, ghostVars
<1>5. \/ Become(w, Blank)
      \/ /\ Become(w, next)
         /\ \/ t.job = "cancel" /\ status' = [status EXCEPT ![o] = "Cancelling"]
            \/ t.job = "refund" /\ status' = [status EXCEPT ![o] = "RefundPending"]
  BY <1>1, <1>2, <1>3, <1>4 DEF CancelClaim, RefundClaim, At, Ahead, SetStatus, Goto, Finish
<1>6. CASE Become(w, Blank)
  BY <1>4, <1>6, UnengagedBlank, UnengagedIsAhead, AheadStep
<1>7. CASE /\ Become(w, next)
           /\ \/ t.job = "cancel" /\ status' = [status EXCEPT ![o] = "Cancelling"]
              \/ t.job = "refund" /\ status' = [status EXCEPT ![o] = "RefundPending"]
  <2>1. next.pc = "list_open" /\ next.job = t.job /\ next.order = o
    BY <1>2, <1>3, <1>4 DEF TaskType
  <2>2. /\ t.job = "cancel" => Started(next.order)'
        /\ t.job = "refund" => Past(next.order)'
    BY <1>4, <1>7, <2>1 DEF Started, Past
  <2>3. Ahead(next)'
    BY <2>1, <2>2 DEF Ahead
  <2>. QED BY <1>4, <1>7, <2>3, RolledBackStay, AheadFrame
<1>. QED BY <1>5, <1>6, <1>7

LEMMA CommitAhead ==
  ASSUME SagaAssumption, PromiseInv, ReleaseInv', Advancing, NEW w \in Workers,
         CancelVoucher(w) \/ CancelCommit(w) \/ RefundCommit(w)
  PROVE  PromiseInv'
<1>1. PICK t : t = task[w]
  OBVIOUS
<1>2. PICK next : next = [t EXCEPT !.pc = "cw_commit"]
  OBVIOUS
<1>3. t \in TaskType /\ Ahead(t) /\ UNCHANGED rolledBack
  BY <1>1, PromiseFacts DEF CancelVoucher, CancelCommit, RefundCommit, ghostVars
<1>4. Become(w, Blank) \/ (t.pc = "cw_voucher" /\ Become(w, next))
  BY <1>1, <1>2 DEF CancelVoucher, CancelCommit, RefundCommit, At, Goto, Finish
<1>5. t.pc = "cw_voucher" => Ahead(next)
  <2>1. next.pc = "cw_commit" /\ next.job = t.job /\ next.order = t.order
    BY <1>2, <1>3 DEF TaskType
  <2>. QED BY <1>3, <2>1 DEF Ahead, Pursued
<1>. QED BY <1>3, <1>4, <1>5, UnengagedBlank, UnengagedIsAhead, AheadStep

LEMMA PaymentsAhead ==
  ASSUME SagaAssumption, PromiseInv, ReleaseInv', Advancing, NEW w \in Workers,
         \/ ListOpenPayments(w) \/ (\E s \in Slots : CancelPayment(w, s))
         \/ ListPaidPayments(w) \/ (\E s \in Slots : MarkRefunded(w, s))
  PROVE  PromiseInv'
<1>. DEFINE t == task[w]
            open(P) == [t EXCEPT !.pc = "cancel_open", !.pays = P]
            paid(P) == [t EXCEPT !.pc = "refund_paid", !.pays = P]
            next(P) == [t EXCEPT !.pays = P]
<1>1. /\ t \in TaskType /\ Ahead(t) /\ t.order \in Orders /\ UNCHANGED rolledBack
      /\ labels \in [Orders -> SUBSET Seats]
      /\ t.pc \in {"list_open", "cancel_open", "list_paid", "refund_paid"}
  BY PromiseFacts DEF ListOpenPayments, CancelPayment, ListPaidPayments, MarkRefunded,
                      ghostVars, At
<1>2. Entitled(t)
  BY <1>1 DEF Ahead, Entitled, Pursued, Batch
<1>3. \/ \E P : Become(w, open(P)) \/ Become(w, paid(P)) \/ Become(w, next(P))
      \/ Become(w, AfterCancelOpen(t)) \/ Become(w, ReleaseOrder(t))
  BY DEF ListOpenPayments, CancelPayment, ListPaidPayments, MarkRefunded
<1>4. Ahead(AfterCancelOpen(t)) /\ Ahead(ReleaseOrder(t))
  BY <1>1, <1>2, ReleaseOrderAhead
<1>5. ASSUME NEW P
      PROVE  Ahead(open(P)) /\ Ahead(paid(P)) /\ Ahead(next(P))
  <2>1. /\ open(P).pc = "cancel_open" /\ open(P).order = t.order /\ open(P).job = t.job
        /\ paid(P).pc = "refund_paid" /\ paid(P).order = t.order /\ paid(P).job = t.job
        /\ next(P).pc = t.pc /\ next(P).order = t.order /\ next(P).job = t.job
    BY <1>1 DEF TaskType
  <2>. HIDE DEF open, paid, next
  <2>. QED BY <1>1, <1>2, <2>1, PursuedAhead DEF Entitled, Batch
<1>. HIDE DEF open, paid, next
<1>. QED BY <1>1, <1>3, <1>4, <1>5, AheadStep

LEMMA AdvanceAhead ==
  ASSUME NEW t \in TaskType, NEW s
  PROVE  Unengaged(Advance(t, s))
<1>. DEFINE u(x) == [t EXCEPT !.pc = "tr_read", !.target = x]
            v == [t EXCEPT !.pc = "it_read"]
<1>1. (\A x : u(x).pc = "tr_read") /\ v.pc = "it_read"
  BY DEF TaskType
<1>2. Advance(t, s) \in {u("Paid"), u("Confirmed"), v, Blank}
  BY DEF Advance
<1>. HIDE DEF u, v
<1>. QED BY <1>1, <1>2, UnengagedBlank DEF Unengaged, Pursued, Batch, ReleaseSteps

LEMMA ReadersAhead ==
  ASSUME SagaAssumption, PromiseInv, ReleaseInv', Advancing, NEW w \in Workers,
         \/ PaidRead(w) \/ PaidVerify(w) \/ PaidNext(w) \/ TransitionRead(w)
         \/ IssueRead(w) \/ ExpireCheckRead(w) \/ ExpireCheckVerify(w)
  PROVE  PromiseInv'
<1>. DEFINE t == task[w]
            seen(pc) == [t EXCEPT !.pc = pc, !.snap = status[t.order]]
            turn(j, pc) == [t EXCEPT !.job = j, !.pc = pc]
            goto(pc) == [t EXCEPT !.pc = pc]
<1>1. UNCHANGED rolledBack /\ t \in TaskType
  BY PromiseFacts DEF PaidRead, PaidVerify, PaidNext, TransitionRead, IssueRead,
                      ExpireCheckRead, ExpireCheckVerify, ghostVars
<1>2. \/ Become(w, Blank) \/ \E s : Become(w, Advance(t, s))
      \/ Become(w, seen("pp_verify")) \/ Become(w, seen("tr_write"))
      \/ Become(w, turn("refund", "rf_read")) \/ Become(w, turn("paid", "pp_read"))
      \/ Become(w, turn("cancel", "cw_read"))
      \/ status[t.order] \in {"Paid", "Confirmed"} /\ Become(w, goto("it_write"))
      \/ Become(w, goto("ec_verify"))
  BY DEF PaidRead, PaidVerify, PaidNext, TransitionRead, IssueRead,
         ExpireCheckRead, ExpireCheckVerify, Finish, Goto
<1>3. \A j, pc : /\ seen(pc).pc = pc /\ turn(j, pc).pc = pc /\ turn(j, pc).job = j
                 /\ goto(pc).pc = pc /\ goto(pc).order = t.order
  BY <1>1 DEF TaskType
<1>. HIDE DEF seen, turn, goto
<1>4. /\ Unengaged(seen("pp_verify")) /\ Unengaged(seen("tr_write"))
      /\ Unengaged(turn("paid", "pp_read")) /\ Unengaged(goto("ec_verify"))
      /\ \A s : Unengaged(Advance(t, s))
  BY <1>1, <1>3, AdvanceAhead DEF Unengaged, Pursued, Batch, ReleaseSteps
<1>5. /\ Ahead(turn("refund", "rf_read")) /\ Ahead(turn("cancel", "cw_read"))
      /\ status[t.order] \in {"Paid", "Confirmed"} => Ahead(goto("it_write"))
  BY <1>3 DEF Ahead, Pursued, Batch, ReleaseSteps, Past
<1>. QED BY <1>1, <1>2, <1>4, <1>5, UnengagedBlank, UnengagedIsAhead, AheadStep

LEMMA WritersAhead ==
  ASSUME SagaAssumption, PromiseInv, ReleaseInv', Advancing, NEW w \in Workers,
         TransitionWrite(w) \/ IssueWrite(w)
  PROVE  PromiseInv'
<1>. DEFINE t == task[w]
            next == [t EXCEPT !.pc = "pp_next"]
<1>1. t \in TaskType /\ UNCHANGED rolledBack
  BY PromiseFacts DEF TransitionWrite, IssueWrite, ghostVars
<1>2. Become(w, Blank) \/ Become(w, next)
  BY DEF TransitionWrite, IssueWrite, Goto, Finish
<1>3. next.pc = "pp_next"
  BY <1>1 DEF TaskType
<1>. HIDE DEF next
<1>4. Unengaged(next)
  BY <1>3 DEF Unengaged, Pursued, Batch, ReleaseSteps
<1>. QED BY <1>1, <1>2, <1>4, UnengagedBlank, UnengagedIsAhead, AheadStep

LEMMA BeginAhead ==
  ASSUME SagaAssumption, PromiseInv, ReleaseInv', Advancing, NEW w \in Workers,
         \/ \E o \in Orders : SubmitCheckout(w, o)
         \/ \E o \in Orders : DeliverExpireCheck(w, o)
         \/ \E o \in Orders : CronPick(w, o)
         \/ \E o \in Orders, kind \in Commands : SendRequest(w, o, kind)
         \/ \E e \in paidEvents : DeliverPaidEvent(w, e)
  PROVE  PromiseInv'
<1>. DEFINE ref(o, r) == [NewTask("pp_read", o) EXCEPT !.ref = r]
            cron(e, o) == [NewTask(e, o) EXCEPT !.entry = "idle"]
            send(e, o, s) == [NewTask(e, o) EXCEPT !.target = s]
<1>1. UNCHANGED rolledBack
  BY DEF SubmitCheckout, DeliverExpireCheck, CronPick, SendRequest, DeliverPaidEvent, ghostVars
<1>2. \/ \E o : Become(w, NewTask("co_lookup", o)) \/ Become(w, NewTask("ec_read", o))
      \/ \E o, r : Become(w, ref(o, r))
      \/ \E o : Become(w, cron("cw_read", o)) \/ Become(w, cron("rf_read", o))
      \/ \E o, s : \E e \in {"cw_read", "rf_read", "it_read", "tr_read"} :
           Become(w, send(e, o, s))
  BY DEF SubmitCheckout, DeliverExpireCheck, CronPick, SendRequest, DeliverPaidEvent, EntryOf
<1>3. \A o : /\ NewTask("co_lookup", o).pc = "co_lookup"
             /\ NewTask("ec_read", o).pc = "ec_read"
             /\ \A r : ref(o, r).pc = "pp_read"
             /\ \A e : cron(e, o).pc = e /\ cron(e, o).job = JobOf(e)
             /\ \A e, s : send(e, o, s).pc = e /\ send(e, o, s).job = JobOf(e)
  BY DEF NewTask, Blank
<1>. HIDE DEF ref, cron, send
<1>4. \A o : /\ Unengaged(NewTask("co_lookup", o)) /\ Unengaged(NewTask("ec_read", o))
             /\ \A r : Unengaged(ref(o, r))
             /\ \A s : \A e \in {"it_read", "tr_read"} : Unengaged(send(e, o, s))
  BY <1>3 DEF Unengaged, Pursued, Batch, ReleaseSteps
<1>5. \A o : /\ Ahead(cron("cw_read", o)) /\ Ahead(cron("rf_read", o))
             /\ \A s : \A e \in {"cw_read", "rf_read"} : Ahead(send(e, o, s))
  BY <1>3 DEF Ahead, JobOf, Pursued, Batch, ReleaseSteps
<1>. QED BY <1>1, <1>2, <1>4, <1>5, UnengagedIsAhead, AheadStep

LEMMA EnvironmentAhead ==
  ASSUME SagaAssumption, PromiseInv, ReleaseInv', Advancing,
         \/ \E o \in Orders : RemoveOrder(o)
         \/ \E o \in Orders : Age(o)
         \/ \E o \in Orders, s \in Slots : Settle(o, s)
         \/ \E r \in late : RunLate(r)
         \/ UNCHANGED vars
  PROVE  PromiseInv'
<1>1. UNCHANGED <<status, rolledBack, task>>
  BY DEF RemoveOrder, Age, Settle, RunLate, vars, orderVars, ghostVars
<1>. QED BY <1>1 DEF PromiseInv, Ahead, Past, Started

LEMMA CrashAhead ==
  ASSUME SagaAssumption, PromiseInv, ReleaseInv', Advancing, Crash
  PROVE  PromiseInv'
<1>1. UNCHANGED <<status, rolledBack>>
  BY DEF Crash, orderVars, ghostVars
<1>2. ASSUME NEW v \in Workers PROVE Ahead(task[v])'
  <2>1. PICK t : t = task[v]
    OBVIOUS
  <2>2. PICK u : u = Restarted(t)
    OBVIOUS
  <2>3. t.entry \in Entries
    BY <2>1, PromiseFacts DEF Warranted
  <2>4. Ahead(u)
    <3>1. CASE t.entry = "idle"
      BY <2>2, <3>1, UnengagedBlank, UnengagedIsAhead DEF Restarted
    <3>2. CASE t.entry # "idle"
      <4>. DEFINE target == IF t.entry = "tr_read" THEN t.target ELSE "None"
                  x == [NewTask(t.entry, t.order) EXCEPT !.ref = t.ref, !.target = target]
      <4>1. x.pc = t.entry /\ x.job = JobOf(t.entry)
        BY DEF NewTask, Blank
      <4>2. u = x
        BY <2>2, <3>2 DEF Restarted
      <4>. HIDE DEF x
      <4>. QED BY <2>3, <4>1, <4>2 DEF Ahead, Entries, JobOf, Pursued, Batch, ReleaseSteps
    <3>. QED BY <3>1, <3>2
  <2>5. task'[v] = u
    BY <2>1, <2>2 DEF Crash
  <2>. QED BY <1>1, <2>4, <2>5 DEF Ahead, Past, Started
<1>3. \A o \in rolledBack' : Past(o)'
  BY <1>1 DEF PromiseInv, Past
<1>. QED BY <1>2, <1>3 DEF PromiseInv

-----------------------------------------------------------------------------
LEMMA InitPromise == ASSUME SagaAssumption, Init PROVE PromiseInv
<1>1. ReleaseInv
  BY InitRelease
<1>2. \A w \in Workers : Ahead(task[w])
  BY UnengagedBlank, UnengagedIsAhead DEF Init
<1>. QED BY <1>1, <1>2 DEF Init, PromiseInv

LEMMA NextKeepsPromise ==
  ASSUME SagaAssumption, PromiseInv, [Next]_vars
  PROVE  PromiseInv'
<1>1. ReleaseInv' /\ TypeOK'
  BY NextRelease DEF PromiseInv, ReleaseInv, SettlementInv
<1>2. Advancing
  BY <1>1, NextPromise, NextAdvances
<1>3. ASSUME NEW w \in Workers, WorkerStep(w) PROVE PromiseInv'
  BY <1>1, <1>2, <1>3, CheckoutAhead, RollbackAhead, HandBackAhead, CancelReadAhead,
     ClaimAhead, CommitAhead, PaymentsAhead, ReadersAhead, WritersAhead, Zenon
     DEF WorkerStep
<1>4. ASSUME NEW w \in Workers, Deliver(w) PROVE PromiseInv'
  BY <1>1, <1>2, <1>4, BeginAhead DEF Deliver
<1>5. CASE \/ \E w \in Workers, o \in Orders : SubmitCheckout(w, o)
           \/ \E w \in Workers, o \in Orders, kind \in Commands : SendRequest(w, o, kind)
           \/ \E w \in Workers, o \in Orders : CronPick(w, o)
  BY <1>1, <1>2, <1>5, BeginAhead
<1>6. CASE \/ \E o \in Orders : RemoveOrder(o)
           \/ \E o \in Orders : Age(o)
           \/ \E o \in Orders, s \in Slots : Settle(o, s)
           \/ \E r \in late : RunLate(r)
           \/ Rest \/ UNCHANGED vars
  BY <1>1, <1>2, <1>6, EnvironmentAhead DEF Rest
<1>7. CASE Crash
  BY <1>1, <1>2, <1>7, CrashAhead
<1>. QED BY <1>3, <1>4, <1>5, <1>6, <1>7 DEF Next

(* The handlers of orders-service, interleaved, retried and cut short in   *)
(* any way, implement the life of an order that OrderPromise describes:    *)
(* nothing is handed back before a cancellation or a refund began, neither *)
(* is committed while something is due, an order whose cancellation began  *)
(* is never sold, and none that was sold or cancelled ever waits again.    *)
THEOREM SagaImplementsOrderPromise == Spec => ImplementsOrderPromise
<1>1. Init => Promise!Init
  <2>. SUFFICES ASSUME Init PROVE Promise!Init
    OBVIOUS
  <2>1. \A o \in Orders : Stage(o) = "none" /\ ~Backed(o) /\ Due(o) = {}
    BY DEF Init, Stage, Backed, Due
  <2>. QED BY <2>1 DEF Promise!Init
<1>2. Init => PromiseInv
  BY SagaAssumption, InitPromise
<1>3. PromiseInv /\ [Next]_vars => PromiseInv'
  BY SagaAssumption, NextKeepsPromise
<1>4. PromiseInv /\ [Next]_vars => PromiseStep
  BY SagaAssumption, NextPromise
<1>. QED BY <1>1, <1>2, <1>3, <1>4, PTL
     DEF Spec, ImplementsOrderPromise, Promise!Spec, PromiseStep, StageMap, BackedSet, DueMap
=============================================================================
