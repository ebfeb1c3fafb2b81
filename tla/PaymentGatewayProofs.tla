------------------------- MODULE PaymentGatewayProofs -------------------------
(* Proofs about the payments of an order, for any number of rows, requests *)
(* in flight and overlapping runs of the worker: the types, the outbox     *)
(* (nothing lost between commit and broker, nothing given up early), the   *)
(* notification (a success answered 00 is recorded), and the refinement of *)
(* PaidNotice.                                                             *)
EXTENDS PaymentGateway, TLAPS

TasksOK == DOMAIN task = Handlers /\ \A h \in Handlers : TaskOK(task[h])
TicksOK == DOMAIN tick = Ticks /\ \A t \in Ticks : TickOK(tick[t])

LEMMA BlankOK == ASSUME GatewayAssumption PROVE TaskOK(Blank) /\ TickOK(Off)
  BY DEF Blank, Off, TaskOK, TaskType, TickOK, TickType

LEMMA BecomeOK ==
  ASSUME TasksOK, NEW h \in Handlers, NEW t, TaskOK(t), Become(h, t)
  PROVE  TasksOK'
<1>1. DOMAIN task' = Handlers
  BY DEF TasksOK, Become
<1>2. ASSUME NEW g \in Handlers PROVE TaskOK(task'[g])
  <2>1. task'[g] = IF g = h THEN t ELSE task[g]
    BY DEF TasksOK, Become
  <2>. QED BY <2>1 DEF TasksOK
<1>. QED BY <1>1, <1>2 DEF TasksOK, TaskOK

LEMMA RunOK ==
  ASSUME TicksOK, NEW t \in Ticks, NEW k, TickOK(k), Run(t, k)
  PROVE  TicksOK'
<1>1. DOMAIN tick' = Ticks
  BY DEF TicksOK, Run
<1>2. ASSUME NEW s \in Ticks PROVE TickOK(tick'[s])
  <2>1. tick'[s] = IF s = t THEN k ELSE tick[s]
    BY DEF TicksOK, Run
  <2>. QED BY <2>1 DEF TicksOK
<1>. QED BY <1>1, <1>2 DEF TicksOK, TickOK

(* A handler that goes on with the payment it has. *)
LEMMA GotoOK ==
  ASSUME TasksOK, NEW h \in Handlers, NEW pc, Goto(h, pc),
         pc \in {"ipn_failed", "ipn_ack", "mp_read", "mp_write"},
         task[h].payment # None
  PROVE  TasksOK'
<1>. DEFINE t == [task[h] EXCEPT !.pc = pc]
<1>1. TaskOK(t)
  BY DEF TasksOK, TaskOK, TaskType
<1>. HIDE DEF t
<1>. QED BY <1>1, BecomeOK DEF Goto, t

LEMMA FinishOK ==
  ASSUME GatewayAssumption, TasksOK, NEW h \in Handlers, Finish(h) PROVE TasksOK'
  BY BlankOK, BecomeOK DEF Finish

LEMMA SpendOK ==
  ASSUME GatewayAssumption, used \in [Kinds -> Nat], NEW k \in Kinds, Spend(k)
  PROVE  used' \in [Kinds -> Nat]
  BY DEF Spend, GatewayAssumption

-----------------------------------------------------------------------------
(* The two halves of the types, so that each action touches one of them.   *)
RowsOK ==
  /\ outbox \in [Rows -> RowType]
  /\ \A r \in Rows : outbox[r].status = "free" <=> outbox[r].payment = None

DataOK ==
  /\ pay \in [Payments -> PayStatus]
  /\ removed \subseteq Payments
  /\ published \subseteq Rows
  /\ pages \subseteq Payments /\ acked \subseteq Payments
  /\ result \in [Payments -> {"none", "success", "failure"}]
  /\ used \in [Kinds -> Nat]
  /\ vouched \subseteq Payments
  /\ failures \in [Rows -> Nat]

LEMMA TypeParts == TypeOK <=> RowsOK /\ DataOK /\ TasksOK /\ TicksOK
  BY DEF TypeOK, RowsOK, DataOK, TasksOK, TicksOK

LEMMA WriteOK ==
  ASSUME pay \in [Payments -> PayStatus], NEW p \in Payments,
         NEW st \in PayStatus, Write(p, st)
  PROVE  pay' \in [Payments -> PayStatus]
  BY DEF Write

LEMMA NewPaymentOK == ASSUME Absent # {} PROVE NewPayment \in Absent
  BY DEF Absent, NewPayment

LEMMA NewRowOK == ASSUME Free # {} PROVE NewRow \in Free
  BY DEF Free, NewRow

LEMMA AfterCloseOK ==
  ASSUME NEW t, TaskOK(t), t.pc \in {"url_list", "url_close"}, NEW open \in SUBSET Payments
  PROVE  TaskOK(AfterClose(t, open))
  BY DEF TaskOK, TaskType, AfterClose

LEMMA NextRowOK ==
  ASSUME GatewayAssumption, NEW k, TickOK(k), k.row \in Rows
  PROVE  TickOK(NextRow(k))
<1>1. CASE k.batch \ {k.row} = {}
  BY <1>1, BlankOK DEF NextRow
<1>2. CASE k.batch \ {k.row} # {}
  <2>. DEFINE s == [k.seen EXCEPT ![k.row] = 0]
  <2>1. s \in [Rows -> Nat]
    BY DEF TickOK, TickType
  <2>2. NextRow(k) = [k EXCEPT !.pc = "emit", !.batch = k.batch \ {k.row}, !.row = None,
                               !.seen = s]
    BY <1>2 DEF NextRow, TickOK, TickType
  <2>. HIDE DEF s
  <2>. QED BY <1>2, <2>1, <2>2 DEF TickOK, TickType
<1>. QED BY <1>1, <1>2

-----------------------------------------------------------------------------
(* Each action keeps the types.                                            *)
LEMMA UrlTypes ==
  ASSUME GatewayAssumption, TypeOK, NEW h \in Handlers,
         \/ RequestUrl(h) \/ UrlList(h)
         \/ \E p \in Payments : UrlClose(h, p)
         \/ UrlCreate(h) \/ UrlProcessing(h)
  PROVE  TypeOK'
<1>. USE DEF serviceVars, worldVars, ghostVars
<1>0. RowsOK /\ DataOK /\ TasksOK /\ TicksOK
  BY TypeParts
<1>0a. TaskOK(task[h])
  BY <1>0 DEF TasksOK
<1>1. CASE RequestUrl(h)
  <2>. DEFINE t == [Blank EXCEPT !.pc = "url_list", !.job = "url"]
  <2>1. TaskOK(t)
    BY BlankOK DEF Blank, TaskOK, TaskType
  <2>2. Become(h, t)
    BY <1>1 DEF RequestUrl
  <2>. HIDE DEF t
  <2>3. TasksOK'
    BY <1>0, <2>1, <2>2, BecomeOK
  <2>4. DataOK'
    BY <1>0, <1>1, SpendOK DEF RequestUrl, DataOK, Kinds
  <2>5. RowsOK' /\ TicksOK'
    BY <1>0, <1>1 DEF RequestUrl, RowsOK, TicksOK
  <2>. QED BY <2>3, <2>4, <2>5, TypeParts DEF TypeOK, RowsOK, DataOK, TasksOK, TicksOK
<1>2. CASE UrlList(h)
  <2>. DEFINE open == {p \in {q \in Payments : Exists(q)} : pay[p] = "Open"}
  <2>1. Become(h, Blank) \/ Become(h, AfterClose(task[h], open))
    BY <1>2 DEF UrlList
  <2>2. TaskOK(AfterClose(task[h], open))
    BY <1>0a, <1>2, AfterCloseOK DEF UrlList, At
  <2>. HIDE DEF open
  <2>3. TasksOK'
    BY <1>0, <2>1, <2>2, BlankOK, BecomeOK
  <2>4. RowsOK' /\ DataOK' /\ TicksOK'
    BY <1>0, <1>2 DEF UrlList, RowsOK, DataOK, TicksOK
  <2>. QED BY <2>3, <2>4 DEF TypeOK, RowsOK, DataOK, TasksOK, TicksOK
<1>3. ASSUME NEW p \in Payments, UrlClose(h, p) PROVE TypeOK'
  <2>1. TaskOK(AfterClose(task[h], task[h].open \ {p}))
    BY <1>0a, <1>3, AfterCloseOK DEF UrlClose, At, TaskOK, TaskType
  <2>2. TasksOK'
    BY <1>0, <1>3, <2>1, BecomeOK DEF UrlClose
  <2>3. DataOK'
    BY <1>0, <1>3, SpendOK, WriteOK DEF UrlClose, DataOK, Kinds, PayStatus
  <2>4. RowsOK' /\ TicksOK'
    BY <1>0, <1>3 DEF UrlClose, RowsOK, TicksOK
  <2>. QED BY <2>2, <2>3, <2>4 DEF TypeOK, RowsOK, DataOK, TasksOK, TicksOK
<1>4. CASE UrlCreate(h)
  <2>. DEFINE t == [task[h] EXCEPT !.pc = "url_processing", !.payment = NewPayment]
  <2>1. CASE Absent # {} /\ Write(NewPayment, "Open") /\ Become(h, t) /\ UNCHANGED used
    <3>1. NewPayment \in Payments
      BY <2>1, NewPaymentOK DEF Absent
    <3>2. TaskOK(t)
      BY <1>0a, <1>4, <3>1 DEF UrlCreate, At, TaskOK, TaskType, GatewayAssumption
    <3>. HIDE DEF t
    <3>3. TasksOK'
      BY <1>0, <2>1, <3>2, BecomeOK
    <3>4. DataOK'
      BY <1>0, <1>4, <2>1, <3>1, WriteOK DEF UrlCreate, DataOK, PayStatus
    <3>. QED BY <1>0, <1>4, <3>3, <3>4
         DEF UrlCreate, TypeOK, RowsOK, DataOK, TasksOK, TicksOK
  <2>2. CASE Spend("error") /\ Finish(h) /\ UNCHANGED pay
    <3>1. TasksOK'
      BY <1>0, <2>2, FinishOK
    <3>2. DataOK'
      BY <1>0, <1>4, <2>2, SpendOK DEF UrlCreate, DataOK, Kinds
    <3>. QED BY <1>0, <1>4, <3>1, <3>2
         DEF UrlCreate, TypeOK, RowsOK, DataOK, TasksOK, TicksOK
  <2>. QED BY <1>4, <2>1, <2>2 DEF UrlCreate
<1>5. CASE UrlProcessing(h)
  <2>1. task[h].payment \in Payments
    BY <1>0a, <1>5 DEF UrlProcessing, At, TaskOK, TaskType
  <2>2. TasksOK'
    BY <1>0, <1>5, FinishOK DEF UrlProcessing
  <2>3. DataOK'
    BY <1>0, <1>5, <2>1, SpendOK, WriteOK DEF UrlProcessing, DataOK, Kinds, PayStatus
  <2>. QED BY <1>0, <1>5, <2>2, <2>3
       DEF UrlProcessing, TypeOK, RowsOK, DataOK, TasksOK, TicksOK
<1>. QED BY <1>1, <1>2, <1>3, <1>4, <1>5

LEMMA IpnTypes ==
  ASSUME GatewayAssumption, TypeOK, NEW h \in Handlers,
         \/ \E p \in Payments : Notify(h, p)
         \/ IpnLookup(h) \/ IpnFailed(h) \/ IpnAck(h)
  PROVE  TypeOK'
<1>. USE DEF serviceVars, worldVars, ghostVars
<1>0. RowsOK /\ DataOK /\ TasksOK /\ TicksOK
  BY TypeParts
<1>0a. TaskOK(task[h])
  BY <1>0 DEF TasksOK
<1>1. ASSUME NEW p \in Payments, Notify(h, p) PROVE TypeOK'
  <2>. DEFINE t == [Blank EXCEPT !.pc = "ipn_lookup", !.job = "notify", !.payment = p]
  <2>1. TaskOK(t)
    BY BlankOK DEF Blank, TaskOK, TaskType, GatewayAssumption
  <2>2. Become(h, t)
    BY <1>1 DEF Notify
  <2>. HIDE DEF t
  <2>3. TasksOK'
    BY <1>0, <2>1, <2>2, BecomeOK
  <2>. QED BY <1>0, <1>1, <2>3
       DEF Notify, TypeOK, RowsOK, DataOK, TasksOK, TicksOK
<1>2. CASE IpnLookup(h)
  <2>1. task[h].payment # None
    BY <1>0a, <1>2 DEF IpnLookup, At, TaskOK
  <2>2. IpnNext(task[h].payment) \in {"ipn_failed", "ipn_ack", "mp_read"}
    BY DEF IpnNext
  <2>3. TasksOK'
    BY <1>0, <1>2, <2>1, <2>2, GotoOK, FinishOK DEF IpnLookup
  <2>4. used' \in [Kinds -> Nat]
    BY <1>0, <1>2, SpendOK DEF IpnLookup, DataOK, Kinds
  <2>. QED BY <1>0, <1>2, <2>3, <2>4
       DEF IpnLookup, TypeOK, RowsOK, DataOK, TasksOK, TicksOK
<1>3. CASE IpnFailed(h)
  <2>1. task[h].payment # None /\ task[h].payment \in Payments
    BY <1>0a, <1>3 DEF IpnFailed, At, TaskOK, TaskType
  <2>2. TasksOK'
    BY <1>0, <1>3, <2>1, GotoOK, FinishOK DEF IpnFailed
  <2>3. DataOK'
    BY <1>0, <1>3, <2>1, SpendOK, WriteOK DEF IpnFailed, DataOK, Kinds, PayStatus
  <2>. QED BY <1>0, <1>3, <2>2, <2>3
       DEF IpnFailed, TypeOK, RowsOK, DataOK, TasksOK, TicksOK
<1>4. CASE IpnAck(h)
  <2>1. task[h].payment \in Payments
    BY <1>0a, <1>4 DEF IpnAck, At, TaskOK, TaskType
  <2>2. TasksOK'
    BY <1>0, <1>4, FinishOK DEF IpnAck
  <2>. QED BY <1>0, <1>4, <2>1, <2>2
       DEF IpnAck, TypeOK, RowsOK, DataOK, TasksOK, TicksOK
<1>. QED BY <1>1, <1>2, <1>3, <1>4

(* What a settlement does to the outbox: one free row is filled.           *)
LEMMA FilledRow ==
  ASSUME GatewayAssumption, RowsOK, Free # {}, NEW p \in Payments,
         outbox' = [outbox EXCEPT ![NewRow] =
           [payment |-> p, status |-> "pending", due |-> TRUE, attempts |-> 0]]
  PROVE  /\ RowsOK'
         /\ NewRow \in Rows
         /\ outbox[NewRow].payment = None
         /\ \A r \in Rows : outbox'[r] = IF r = NewRow
              THEN [payment |-> p, status |-> "pending", due |-> TRUE, attempts |-> 0]
              ELSE outbox[r]
<1>1. NewRow \in Rows /\ outbox[NewRow].payment = None
  BY NewRowOK DEF Free, RowsOK
<1>. DEFINE filled == [payment |-> p, status |-> "pending", due |-> TRUE, attempts |-> 0]
<1>2. /\ filled \in RowType
      /\ filled.status # "free" /\ filled.payment # None
  BY DEF RowType, OutboxStatus, GatewayAssumption
<1>. HIDE DEF filled
<1>3. outbox' = [outbox EXCEPT ![NewRow] = filled]
  BY DEF filled
<1>4. \A r \in Rows : outbox'[r] = IF r = NewRow THEN filled ELSE outbox[r]
  BY <1>1, <1>3 DEF RowsOK
<1>5. RowsOK'
  BY <1>1, <1>2, <1>3, <1>4 DEF RowsOK
<1>. QED BY <1>1, <1>4, <1>5 DEF filled

LEMMA MarkPaidTypes ==
  ASSUME GatewayAssumption, TypeOK, NEW h \in Handlers,
         \/ MarkPaidRead(h) \/ MarkPaidWrite(h)
         \/ \E p \in Payments : MarkPaidByHand(h, p)
  PROVE  TypeOK'
<1>. USE DEF serviceVars, worldVars, ghostVars
<1>0. RowsOK /\ DataOK /\ TasksOK /\ TicksOK
  BY TypeParts
<1>0a. TaskOK(task[h])
  BY <1>0 DEF TasksOK
<1>1. CASE MarkPaidRead(h)
  <2>1. task[h].payment # None
    BY <1>0a, <1>1 DEF MarkPaidRead, At, TaskOK
  <2>2. TasksOK'
    BY <1>0, <1>1, <2>1, GotoOK, FinishOK DEF MarkPaidRead
  <2>3. used' \in [Kinds -> Nat]
    BY <1>0, <1>1, SpendOK DEF MarkPaidRead, DataOK, Kinds
  <2>. QED BY <1>0, <1>1, <2>2, <2>3
       DEF MarkPaidRead, TypeOK, RowsOK, DataOK, TasksOK, TicksOK
<1>2. CASE MarkPaidWrite(h)
  <2>1. task[h].payment # None /\ task[h].payment \in Payments
    BY <1>0a, <1>2 DEF MarkPaidWrite, At, TaskOK, TaskType
  <2>2. TasksOK'
    BY <1>0, <1>2, <2>1, GotoOK, FinishOK DEF MarkPaidWrite
  <2>3. DataOK'
    BY <1>0, <1>2, <2>1, SpendOK, WriteOK DEF MarkPaidWrite, DataOK, Kinds, PayStatus
  <2>4. RowsOK'
    BY <1>0, <1>2, <2>1, FilledRow DEF MarkPaidWrite, RowsOK
  <2>. QED BY <1>0, <1>2, <2>2, <2>3, <2>4
       DEF MarkPaidWrite, TypeOK, RowsOK, DataOK, TasksOK, TicksOK
<1>3. ASSUME NEW p \in Payments, MarkPaidByHand(h, p) PROVE TypeOK'
  <2>. DEFINE t == [Blank EXCEPT !.pc = "mp_read", !.job = "operator", !.payment = p]
  <2>1. TaskOK(t)
    BY BlankOK DEF Blank, TaskOK, TaskType, GatewayAssumption
  <2>2. Become(h, t)
    BY <1>3 DEF MarkPaidByHand
  <2>. HIDE DEF t
  <2>3. TasksOK'
    BY <1>0, <2>1, <2>2, BecomeOK
  <2>4. DataOK'
    BY <1>0, <1>3, SpendOK DEF MarkPaidByHand, DataOK, Kinds
  <2>. QED BY <1>0, <1>3, <2>3, <2>4
       DEF MarkPaidByHand, TypeOK, RowsOK, DataOK, TasksOK, TicksOK
<1>. QED BY <1>1, <1>2, <1>3

(* A write of the worker to a row that is not free keeps the row's payment. *)
LEMMA RowWriteOK ==
  ASSUME GatewayAssumption, RowsOK, NEW r \in Rows, outbox[r].status # "free",
         NEW row \in RowType, row.status # "free", row.payment = outbox[r].payment,
         outbox' = [outbox EXCEPT ![r] = row]
  PROVE  RowsOK'
<1>1. \A s \in Rows : outbox'[s] = IF s = r THEN row ELSE outbox[s]
  BY DEF RowsOK
<1>. QED BY <1>1 DEF RowsOK

LEMMA FailRowTypes ==
  ASSUME GatewayAssumption, TypeOK, NEW t \in Ticks, NEW r \in Rows, r \in tick[t].batch,
         Running(t, "emit") \/ Running(t, "mark"), FailRow(t, r)
  PROVE  TicksOK' /\ used' \in [Kinds -> Nat] /\ failures' \in [Rows -> Nat]
<1>0. DataOK /\ TicksOK /\ TickOK(tick[t])
  BY TypeParts DEF TicksOK
<1>1. used' \in [Kinds -> Nat] /\ failures' \in [Rows -> Nat]
  BY <1>0, SpendOK DEF FailRow, DataOK, Kinds
<1>. DEFINE k == [tick[t] EXCEPT !.pc = "fail", !.row = r]
<1>2. TickOK(k)
  BY <1>0 DEF TickOK, TickType, Running
<1>3. Run(t, k)
  BY DEF FailRow
<1>. HIDE DEF k
<1>. QED BY <1>0, <1>1, <1>2, <1>3, RunOK

(* A run of the worker holds rows of the outbox only.                      *)
BatchesOK == \A t \in Ticks : \A r \in tick[t].batch : outbox[r].status # "free"

LEMMA TickTypes ==
  ASSUME GatewayAssumption, TypeOK, BatchesOK, NEW t \in Ticks,
         \/ TickStart(t)
         \/ \E r \in Rows : TickEmit(t, r)
         \/ TickMark(t) \/ TickFail(t)
  PROVE  TypeOK'
<1>. USE DEF serviceVars, worldVars, ghostVars
<1>0. RowsOK /\ DataOK /\ TasksOK /\ TicksOK
  BY TypeParts
<1>0a. TickOK(tick[t])
  BY <1>0 DEF TicksOK
<1>1. CASE TickStart(t)
  <2>. DEFINE due == {r \in Rows : outbox[r].status = "pending" /\ outbox[r].due}
              seen == [r \in Rows |-> IF r \in due THEN outbox[r].attempts ELSE 0]
              k == [Off EXCEPT !.pc = "emit", !.batch = due, !.seen = seen]
  <2>1. due # {} /\ Run(t, k)
    BY <1>1 DEF TickStart
  <2>2. seen \in [Rows -> Nat]
    BY <1>0 DEF RowsOK, RowType
  <2>3. due \in SUBSET Rows
    OBVIOUS
  <2>. HIDE DEF due, seen
  <2>4. TickOK(k)
    BY <2>1, <2>2, <2>3 DEF Off, TickOK, TickType
  <2>. HIDE DEF k
  <2>5. TicksOK'
    BY <1>0, <2>1, <2>4, RunOK
  <2>. QED BY <1>0, <1>1, <2>5
       DEF TickStart, TypeOK, RowsOK, DataOK, TasksOK, TicksOK
<1>2. ASSUME NEW r \in Rows, TickEmit(t, r) PROVE TypeOK'
  <2>. DEFINE k == [tick[t] EXCEPT !.pc = "mark", !.row = r]
  <2>1. CASE published' = published \cup {r} /\ Run(t, k) /\ UNCHANGED <<used, failures>>
    <3>1. TickOK(k)
      BY <1>0a, <1>2 DEF TickEmit, TickOK, TickType, Running
    <3>. HIDE DEF k
    <3>2. TicksOK'
      BY <1>0, <2>1, <3>1, RunOK
    <3>. QED BY <1>0, <1>2, <2>1, <3>2
         DEF TickEmit, TypeOK, RowsOK, DataOK, TasksOK, TicksOK
  <2>2. CASE FailRow(t, r) /\ UNCHANGED published
    <3>1. TicksOK' /\ used' \in [Kinds -> Nat] /\ failures' \in [Rows -> Nat]
      BY <1>2, <2>2, FailRowTypes DEF TickEmit
    <3>. QED BY <1>0, <1>2, <2>2, <3>1
         DEF TickEmit, TypeOK, RowsOK, DataOK, TasksOK, TicksOK
  <2>. QED BY <1>2, <2>1, <2>2 DEF TickEmit
<1>3. CASE TickMark(t)
  <2>. DEFINE r == tick[t].row
  <2>1. r \in tick[t].batch /\ r \in Rows /\ outbox[r].status # "free"
    BY <1>0a, <1>3 DEF TickMark, Running, TickOK, TickType, BatchesOK
  <2>2. CASE outbox' = [outbox EXCEPT ![r].status = "processed"] /\ Run(t, NextRow(tick[t]))
             /\ UNCHANGED <<used, failures>>
    <3>. DEFINE row == [outbox[r] EXCEPT !.status = "processed"]
    <3>1. /\ row \in RowType /\ row.status # "free" /\ row.payment = outbox[r].payment
          /\ outbox' = [outbox EXCEPT ![r] = row]
      BY <1>0, <2>1, <2>2 DEF RowsOK, RowType, OutboxStatus
    <3>. HIDE DEF row
    <3>2. RowsOK'
      BY <1>0, <2>1, <3>1, RowWriteOK
    <3>3. TicksOK'
      BY <1>0, <1>0a, <2>1, <2>2, NextRowOK, RunOK
    <3>. QED BY <1>0, <1>3, <2>2, <3>2, <3>3
         DEF TickMark, TypeOK, RowsOK, DataOK, TasksOK, TicksOK
  <2>3. CASE FailRow(t, r) /\ UNCHANGED outbox
    <3>1. TicksOK' /\ used' \in [Kinds -> Nat] /\ failures' \in [Rows -> Nat]
      BY <1>3, <2>1, <2>3, FailRowTypes DEF TickMark
    <3>. QED BY <1>0, <1>3, <2>3, <3>1
         DEF TickMark, TypeOK, RowsOK, DataOK, TasksOK, TicksOK
  <2>. QED BY <1>3, <2>2, <2>3 DEF TickMark
<1>4. CASE TickFail(t)
  <2>. DEFINE r == tick[t].row
              n == tick[t].seen[r] + 1
              st == IF ReachedMax(n) THEN "failed" ELSE outbox[r].status
              row == [outbox[r] EXCEPT !.attempts = n, !.due = FALSE, !.status = st]
  <2>1. r \in tick[t].batch /\ r \in Rows /\ outbox[r].status # "free"
    BY <1>0a, <1>4 DEF TickFail, Running, TickOK, TickType, BatchesOK
  <2>2. CASE outbox' = [outbox EXCEPT ![r] = row] /\ Run(t, NextRow(tick[t]))
             /\ UNCHANGED used
    <3>1. outbox[r] \in RowType
      BY <1>0, <2>1 DEF RowsOK
    <3>2. n \in Nat
      BY <1>0a, <2>1 DEF TickOK, TickType
    <3>3. st \in OutboxStatus /\ st # "free"
      BY <2>1, <3>1 DEF RowType, OutboxStatus
    <3>. HIDE DEF n, st
    <3>4. row \in RowType /\ row.status # "free" /\ row.payment = outbox[r].payment
      BY <3>1, <3>2, <3>3 DEF RowType
    <3>. HIDE DEF row
    <3>5. RowsOK'
      BY <1>0, <2>1, <2>2, <3>4, RowWriteOK
    <3>6. TicksOK'
      BY <1>0, <1>0a, <2>1, <2>2, NextRowOK, RunOK
    <3>. QED BY <1>0, <1>4, <2>2, <3>5, <3>6
         DEF TickFail, TypeOK, RowsOK, DataOK, TasksOK, TicksOK
  <2>3. CASE Spend("error") /\ Run(t, Off) /\ UNCHANGED outbox
    <3>1. TicksOK'
      BY <1>0, <2>3, BlankOK, RunOK
    <3>2. used' \in [Kinds -> Nat]
      BY <1>0, <2>3, SpendOK DEF DataOK, Kinds
    <3>. QED BY <1>0, <1>4, <2>3, <3>1, <3>2
         DEF TickFail, TypeOK, RowsOK, DataOK, TasksOK, TicksOK
  <2>4. \/ outbox' = [outbox EXCEPT ![r] = row] /\ Run(t, NextRow(tick[t])) /\ UNCHANGED used
        \/ Spend("error") /\ Run(t, Off) /\ UNCHANGED outbox
    BY <1>4 DEF TickFail
  <2>. QED BY <2>2, <2>3, <2>4
<1>. QED BY <1>1, <1>2, <1>3, <1>4

LEMMA EnvironmentTypes ==
  ASSUME GatewayAssumption, TypeOK,
         \/ \E r \in Rows : BackoffOver(r)
         \/ \E p \in Payments, outcome \in {"success", "failure"} : PayAtProvider(p, outcome)
         \/ \E p \in Payments, st \in {"Open", "Closed"} : UpdatePaymentStatus(p, st)
         \/ \E p \in Payments : SoftDelete(p)
         \/ Crash
         \/ \E h \in Handlers : LoseRequest(h)
         \/ UNCHANGED vars
  PROVE  TypeOK'
<1>. USE DEF serviceVars, worldVars, ghostVars
<1>0. RowsOK /\ DataOK /\ TasksOK /\ TicksOK
  BY TypeParts
<1>1. ASSUME NEW r \in Rows, BackoffOver(r) PROVE TypeOK'
  <2>. DEFINE row == [outbox[r] EXCEPT !.due = TRUE]
  <2>1. /\ row \in RowType /\ row.status # "free" /\ row.payment = outbox[r].payment
        /\ outbox' = [outbox EXCEPT ![r] = row] /\ outbox[r].status # "free"
    BY <1>0, <1>1 DEF BackoffOver, RowsOK, RowType
  <2>. HIDE DEF row
  <2>2. RowsOK'
    BY <1>0, <2>1, RowWriteOK
  <2>. QED BY <1>0, <1>1, <2>2 DEF BackoffOver, TypeOK, RowsOK, DataOK, TasksOK, TicksOK
<1>2. ASSUME NEW p \in Payments, NEW outcome \in {"success", "failure"},
             PayAtProvider(p, outcome)
      PROVE  TypeOK'
  BY <1>0, <1>2 DEF PayAtProvider, TypeOK, RowsOK, DataOK, TasksOK, TicksOK
<1>3. ASSUME NEW p \in Payments, NEW st \in {"Open", "Closed"}, UpdatePaymentStatus(p, st)
      PROVE  TypeOK'
  <2>1. DataOK'
    BY <1>0, <1>3, SpendOK, WriteOK DEF UpdatePaymentStatus, DataOK, Kinds, PayStatus
  <2>. QED BY <1>0, <1>3, <2>1
       DEF UpdatePaymentStatus, TypeOK, RowsOK, DataOK, TasksOK, TicksOK
<1>4. ASSUME NEW p \in Payments, SoftDelete(p) PROVE TypeOK'
  <2>1. DataOK'
    BY <1>0, <1>4, SpendOK DEF SoftDelete, DataOK, Kinds
  <2>. QED BY <1>0, <1>4, <2>1 DEF SoftDelete, TypeOK, RowsOK, DataOK, TasksOK, TicksOK
<1>5. CASE Crash
  <2>1. DataOK'
    BY <1>0, <1>5, SpendOK DEF Crash, DataOK, Kinds
  <2>2. TicksOK'
    BY <1>5, BlankOK DEF Crash, TicksOK, TickOK
  <2>3. TasksOK'
    <3>1. DOMAIN task' = Handlers
      BY <1>5 DEF Crash
    <3>2. ASSUME NEW g \in Handlers PROVE TaskOK(task'[g])
      <4>1. TaskOK(task[g])
        BY <1>0 DEF TasksOK
      <4>2. task'[g] = IF task[g].pc = "mp_write" THEN [task[g] EXCEPT !.pc = "mp_read"]
                       ELSE task[g]
        BY <1>5 DEF Crash, At
      <4>. QED BY <4>1, <4>2 DEF TaskOK, TaskType
    <3>. QED BY <3>1, <3>2 DEF TasksOK, TaskOK
  <2>. QED BY <1>0, <1>5, <2>1, <2>2, <2>3
       DEF Crash, TypeOK, RowsOK, DataOK, TasksOK, TicksOK
<1>6. ASSUME NEW h \in Handlers, LoseRequest(h) PROVE TypeOK'
  <2>. DEFINE t == IF task[h].pc \in {"mp_read", "mp_write"}
                   THEN [task[h] EXCEPT !.job = "orphan"] ELSE Blank
  <2>1. TaskOK(task[h])
    BY <1>0 DEF TasksOK
  <2>2. TaskOK(t)
    BY <2>1, BlankOK DEF TaskOK, TaskType
  <2>3. Become(h, t)
    BY <1>6 DEF LoseRequest
  <2>. HIDE DEF t
  <2>4. TasksOK'
    BY <1>0, <2>2, <2>3, BecomeOK
  <2>5. DataOK'
    BY <1>0, <1>6, SpendOK DEF LoseRequest, DataOK, Kinds
  <2>. QED BY <1>0, <1>6, <2>4, <2>5
       DEF LoseRequest, TypeOK, RowsOK, DataOK, TasksOK, TicksOK
<1>7. CASE UNCHANGED vars
  BY <1>0, <1>7 DEF vars, TypeOK, RowsOK, DataOK, TasksOK, TicksOK
<1>. QED BY <1>1, <1>2, <1>3, <1>4, <1>5, <1>6, <1>7

-----------------------------------------------------------------------------
(* The outbox.  A run of the worker that is about to mark a row has sent   *)
(* it; an attempt count, in a row or read by a run, is never ahead of the  *)
(* failures, and lags behind them when a failure is still to be written.   *)
Honest(k) ==
  /\ k.pc = "mark" => k.row \in published
  /\ \A r \in Rows : k.seen[r] <= failures[r]
  /\ k.pc = "fail" => k.seen[k.row] < failures[k.row]

RowHonest(r) ==
  /\ outbox[r].attempts <= failures[r]
  /\ outbox[r].status = "failed" => failures[r] >= MaxAttempts
  /\ outbox[r].status = "processed" => r \in published
  /\ r \in published => outbox[r].status # "free"

OutboxInv ==
  /\ TypeOK
  /\ BatchesOK
  /\ \A r \in Rows : RowHonest(r)
  /\ \A t \in Ticks : Honest(tick[t])

(* What a run of the worker did is never taken back. *)
Advancing ==
  /\ published \subseteq published'
  /\ \A r \in Rows : failures[r] <= failures'[r]
  /\ \A r \in Rows : outbox[r].status # "free" => outbox'[r].status # "free"

LEMMA HonestStays ==
  ASSUME TypeOK, TypeOK', Advancing, NEW k \in TickType, TickOK(k), Honest(k)
  PROVE  Honest(k)'
  BY DEF TypeOK, Advancing, TickOK, TickType, Honest

LEMMA OutboxFrame ==
  ASSUME OutboxInv, TypeOK', UNCHANGED <<outbox, published, tick, failures>>
  PROVE  OutboxInv'
  BY DEF OutboxInv, BatchesOK, RowHonest, Honest

LEMMA HonestOff ==
  ASSUME TypeOK PROVE Honest(Off)
  BY DEF TypeOK, Off, Honest

(* A run of the worker does step k: what has to be shown for the others.   *)
LEMMA RunHonest ==
  ASSUME OutboxInv, TypeOK', Advancing, NEW t \in Ticks, NEW k, TickOK(k), Run(t, k),
         Honest(k)', \A r \in k.batch : r \in tick[t].batch \/ outbox[r].status # "free"
  PROVE  BatchesOK' /\ \A s \in Ticks : Honest(tick[s])'
<1>1. ASSUME NEW s \in Ticks PROVE tick'[s] = IF s = t THEN k ELSE tick[s]
  BY DEF Run, OutboxInv, TypeOK
<1>2. ASSUME NEW s \in Ticks PROVE Honest(tick[s])'
  <2>1. TickOK(tick[s]) /\ tick[s] \in TickType /\ Honest(tick[s])
    BY DEF OutboxInv, TypeOK, TickOK
  <2>2. ASSUME s # t PROVE Honest(tick[s])'
    <3>. DEFINE q == tick[s]
    <3>1. TickOK(q) /\ q \in TickType /\ Honest(q)
      BY <2>1
    <3>2. tick'[s] = q
      BY <1>1, <2>2
    <3>3. /\ q.pc = "mark" => q.row \in published'
          /\ \A r \in Rows : q.seen[r] <= failures'[r]
          /\ q.pc = "fail" => q.seen[q.row] < failures'[q.row]
      <4>. HIDE DEF q
      <4>. QED BY <3>1 DEF TypeOK, OutboxInv, Advancing, TickOK, TickType, Honest
    <3>. HIDE DEF q
    <3>. QED BY <3>2, <3>3 DEF Honest
  <2>3. ASSUME s = t PROVE Honest(tick[s])'
    BY <1>1, <2>3 DEF Honest
  <2>. QED BY <2>2, <2>3
<1>3. BatchesOK'
  <2>. SUFFICES ASSUME NEW s \in Ticks, NEW r \in tick'[s].batch
                PROVE  outbox'[r].status # "free"
    BY DEF BatchesOK
  <2>1. r \in Rows
    BY DEF TypeOK, TickOK, TickType
  <2>. QED BY <1>1, <2>1 DEF BatchesOK, OutboxInv, Advancing
<1>. QED BY <1>2, <1>3

LEMMA OutboxStart ==
  ASSUME GatewayAssumption, OutboxInv, NEW t \in Ticks, TickStart(t)
  PROVE  OutboxInv'
<1>. USE DEF serviceVars, worldVars, ghostVars
<1>1. TypeOK'
  BY TickTypes DEF OutboxInv
<1>2. PICK due, seen :
        /\ due = {r \in Rows : outbox[r].status = "pending" /\ outbox[r].due}
        /\ seen = [r \in Rows |-> IF r \in due THEN outbox[r].attempts ELSE 0]
  OBVIOUS
<1>3. PICK k : k = [Off EXCEPT !.pc = "emit", !.batch = due, !.seen = seen]
  OBVIOUS
<1>4. due # {} /\ Run(t, k) /\ UNCHANGED <<outbox, published, failures>>
  BY <1>2, <1>3 DEF TickStart
<1>5. Advancing
  BY <1>4 DEF Advancing, OutboxInv, TypeOK
<1>6. /\ seen \in [Rows -> Nat]
      /\ \A r \in Rows : seen[r] <= failures[r]
      /\ due \in SUBSET Rows
      /\ \A r \in due : outbox[r].status # "free"
  BY <1>2 DEF OutboxInv, TypeOK, RowType, RowHonest
<1>7. TickOK(k) /\ k.batch = due /\ k.seen = seen /\ k.pc = "emit"
  BY <1>3, <1>4, <1>6 DEF Off, TickOK, TickType
<1>8. Honest(k)'
  BY <1>4, <1>6, <1>7 DEF Honest
<1>9. BatchesOK' /\ \A s \in Ticks : Honest(tick[s])'
  BY <1>1, <1>4, <1>5, <1>6, <1>7, <1>8, RunHonest
<1>. QED BY <1>1, <1>4, <1>9 DEF OutboxInv, RowHonest

LEMMA FailHonest ==
  ASSUME GatewayAssumption, OutboxInv, TypeOK', NEW t \in Ticks, NEW r \in Rows,
         r \in tick[t].batch, FailRow(t, r),
         UNCHANGED <<outbox, published>>
  PROVE  OutboxInv'
<1>0. PICK k : k = [tick[t] EXCEPT !.pc = "fail", !.row = r]
  OBVIOUS
<1>1. TickOK(tick[t]) /\ tick[t] \in TickType /\ Honest(tick[t])
  BY DEF OutboxInv, TypeOK, TickOK
<1>2. Run(t, k) /\ failures' = [failures EXCEPT ![r] = @ + 1]
  BY <1>0 DEF FailRow
<1>3. failures \in [Rows -> Nat]
  BY DEF OutboxInv, TypeOK
<1>4. Advancing
  BY <1>2, <1>3 DEF Advancing
<1>5. TickOK(k) /\ k.batch = tick[t].batch /\ k.seen = tick[t].seen
      /\ k.row = r /\ k.pc = "fail"
  BY <1>0, <1>1 DEF TickOK, TickType
<1>6. k.seen \in [Rows -> Nat] /\ \A s \in Rows : k.seen[s] <= failures[s]
  BY <1>1, <1>5 DEF TickType, Honest
<1>7. Honest(k)'
  BY <1>2, <1>3, <1>5, <1>6 DEF Honest
<1>8. BatchesOK' /\ \A s \in Ticks : Honest(tick[s])'
  BY <1>2, <1>4, <1>5, <1>7, RunHonest
<1>9. ASSUME NEW s \in Rows PROVE RowHonest(s)'
  <2>1. RowHonest(s) /\ outbox[s].attempts \in Nat /\ MaxAttempts \in Nat
    BY DEF OutboxInv, TypeOK, RowType, GatewayAssumption
  <2>2. failures'[s] \in Nat /\ failures[s] \in Nat /\ failures[s] <= failures'[s]
    BY <1>2, <1>3
  <2>. QED BY <2>1, <2>2 DEF RowHonest
<1>. QED BY <1>8, <1>9 DEF OutboxInv

LEMMA OutboxEmit ==
  ASSUME GatewayAssumption, OutboxInv, NEW t \in Ticks, NEW r \in Rows, TickEmit(t, r)
  PROVE  OutboxInv'
<1>. USE DEF serviceVars, worldVars, ghostVars
<1>0. PICK k : k = [tick[t] EXCEPT !.pc = "mark", !.row = r]
  OBVIOUS
<1>1. TypeOK'
  BY TickTypes DEF OutboxInv
<1>2. TickOK(tick[t]) /\ tick[t] \in TickType /\ Honest(tick[t])
      /\ r \in tick[t].batch /\ tick[t].pc = "emit"
  BY DEF OutboxInv, TypeOK, TickOK, TickEmit, Running
<1>3. CASE published' = published \cup {r} /\ Run(t, k) /\ UNCHANGED failures
  <2>1. Advancing
    BY <1>3 DEF Advancing, TickEmit, OutboxInv, TypeOK
  <2>2. TickOK(k) /\ k.batch = tick[t].batch /\ k.seen = tick[t].seen
        /\ k.row = r /\ k.pc = "mark"
    BY <1>0, <1>2 DEF TickOK, TickType
  <2>3. Honest(k)'
    BY <1>2, <1>3, <2>2 DEF Honest
  <2>4. BatchesOK' /\ \A s \in Ticks : Honest(tick[s])'
    BY <1>1, <1>3, <2>1, <2>2, <2>3, RunHonest
  <2>5. outbox[r].status # "free"
    BY <1>2 DEF OutboxInv, BatchesOK
  <2>6. \A s \in Rows : RowHonest(s)'
    BY <1>3, <2>5 DEF TickEmit, OutboxInv, RowHonest
  <2>. QED BY <1>1, <2>4, <2>6 DEF OutboxInv
<1>4. CASE FailRow(t, r) /\ UNCHANGED published
  BY <1>1, <1>2, <1>4, FailHonest DEF TickEmit
<1>. QED BY <1>0, <1>3, <1>4 DEF TickEmit

(* On to the next row: the run forgets what it knew of the last one.       *)
LEMMA NextRowHonest ==
  ASSUME GatewayAssumption, TypeOK, NEW t \in Ticks, Honest(tick[t]), tick[t].row \in Rows
  PROVE  /\ Honest(NextRow(tick[t])) /\ TickOK(NextRow(tick[t]))
         /\ NextRow(tick[t]).batch \subseteq tick[t].batch
         /\ NextRow(tick[t]).pc \in {"idle", "emit"}
<1>. DEFINE k == tick[t]
<1>0. TickOK(k) /\ k \in TickType
  BY DEF TypeOK, TickOK
<1>1. TickOK(NextRow(k))
  BY <1>0, NextRowOK
<1>2. CASE k.batch \ {k.row} = {}
  BY <1>1, <1>2, HonestOff DEF NextRow, Off
<1>3. CASE k.batch \ {k.row} # {}
  <2>. DEFINE s == [k.seen EXCEPT ![k.row] = 0]
  <2>1. /\ NextRow(k) = [k EXCEPT !.pc = "emit", !.batch = k.batch \ {k.row}, !.row = None,
                                  !.seen = s]
        /\ s \in [Rows -> Nat] /\ \A r \in Rows : s[r] <= failures[r]
    BY <1>0, <1>3 DEF NextRow, TickOK, TickType, Honest, TypeOK
  <2>. HIDE DEF s
  <2>2. /\ NextRow(k).pc = "emit" /\ NextRow(k).seen = s
        /\ NextRow(k).batch = k.batch \ {k.row}
    BY <1>0, <2>1 DEF TickOK, TickType
  <2>. QED BY <1>1, <2>1, <2>2 DEF Honest
<1>. QED BY <1>2, <1>3

LEMMA OutboxMark ==
  ASSUME GatewayAssumption, OutboxInv, NEW t \in Ticks, TickMark(t)
  PROVE  OutboxInv'
<1>. USE DEF serviceVars, worldVars, ghostVars
<1>0. PICK k, r : k = NextRow(tick[t]) /\ r = tick[t].row
  OBVIOUS
<1>1. TypeOK' /\ TypeOK
  BY TickTypes DEF OutboxInv
<1>2. TickOK(tick[t]) /\ tick[t] \in TickType /\ Honest(tick[t])
      /\ r \in tick[t].batch /\ tick[t].pc = "mark" /\ r \in Rows
  BY <1>0 DEF OutboxInv, TypeOK, TickOK, TickType, TickMark, Running
<1>3. CASE outbox' = [outbox EXCEPT ![r].status = "processed"] /\ Run(t, k)
           /\ UNCHANGED <<published, failures>>
  <2>1. Advancing
    BY <1>1, <1>2, <1>3 DEF Advancing, TypeOK, RowType
  <2>2. Honest(k) /\ TickOK(k) /\ k.batch \subseteq tick[t].batch
    BY <1>0, <1>1, <1>2, NextRowHonest
  <2>3. Honest(k)'
    BY <1>3, <2>2 DEF Honest
  <2>4. BatchesOK' /\ \A s \in Ticks : Honest(tick[s])'
    BY <1>1, <1>3, <2>1, <2>2, <2>3, RunHonest
  <2>5. r \in published
    BY <1>0, <1>2 DEF Honest
  <2>6. ASSUME NEW s \in Rows PROVE RowHonest(s)'
    BY <1>1, <1>3, <2>5 DEF OutboxInv, RowHonest, TypeOK, RowType
  <2>. QED BY <1>1, <2>4, <2>6 DEF OutboxInv
<1>4. CASE FailRow(t, r) /\ UNCHANGED outbox
  BY <1>1, <1>2, <1>4, FailHonest DEF TickMark
<1>. QED BY <1>0, <1>3, <1>4 DEF TickMark

LEMMA OutboxFail ==
  ASSUME GatewayAssumption, OutboxInv, NEW t \in Ticks, TickFail(t)
  PROVE  OutboxInv'
<1>. USE DEF serviceVars, worldVars, ghostVars
<1>0. PICK r, n, st : /\ r = tick[t].row /\ n = tick[t].seen[r] + 1
                      /\ st = IF ReachedMax(n) THEN "failed" ELSE outbox[r].status
  OBVIOUS
<1>1. TypeOK' /\ TypeOK /\ UNCHANGED <<published, failures>>
  BY TickTypes DEF OutboxInv, TickFail
<1>2. TickOK(tick[t]) /\ tick[t] \in TickType /\ Honest(tick[t])
      /\ r \in tick[t].batch /\ tick[t].pc = "fail" /\ r \in Rows
  BY <1>0 DEF OutboxInv, TypeOK, TickOK, TickType, TickFail, Running
<1>3. n \in Nat /\ n <= failures[r]
  BY <1>0, <1>1, <1>2 DEF TickType, Honest, TypeOK
<1>4. outbox[r].status # "free" /\ st # "free"
  BY <1>0, <1>2 DEF OutboxInv, BatchesOK
<1>5. CASE outbox' = [outbox EXCEPT ![r] = [@ EXCEPT !.attempts = n, !.due = FALSE, !.status = st]]
           /\ Run(t, NextRow(tick[t]))
  <2>0. PICK k : k = NextRow(tick[t])
    OBVIOUS
  <2>1. \A s \in Rows : /\ s # r => outbox'[s] = outbox[s]
                        /\ outbox'[r].attempts = n /\ outbox'[r].status = st
    BY <1>1, <1>2, <1>5 DEF TypeOK, RowType
  <2>2. Advancing
    BY <1>1, <1>2, <1>4, <2>1 DEF Advancing, TypeOK
  <2>3. Honest(k) /\ TickOK(k) /\ k.batch \subseteq tick[t].batch
    BY <2>0, <1>0, <1>1, <1>2, NextRowHonest
  <2>4. Honest(k)'
    BY <1>1, <2>3 DEF Honest
  <2>5. BatchesOK' /\ \A s \in Ticks : Honest(tick[s])'
    BY <1>1, <1>5, <2>0, <2>2, <2>3, <2>4, RunHonest
  <2>6. ASSUME NEW s \in Rows, s # r PROVE RowHonest(s)'
    BY <1>1, <2>1, <2>6 DEF OutboxInv, RowHonest
  <2>7. RowHonest(r)'
    <3>1. RowHonest(r) /\ failures[r] \in Nat /\ MaxAttempts \in Nat
      BY <1>1, <1>2 DEF OutboxInv, TypeOK, GatewayAssumption
    <3>2. st = "failed" => failures[r] >= MaxAttempts
      BY <1>0, <1>3, <3>1 DEF ReachedMax, RowHonest
    <3>3. st = "processed" => r \in published
      BY <1>0, <3>1 DEF RowHonest
    <3>. QED BY <1>1, <1>2, <1>3, <1>4, <2>1, <3>2, <3>3 DEF RowHonest
  <2>. QED BY <1>1, <2>5, <2>6, <2>7 DEF OutboxInv
<1>6. CASE Run(t, Off) /\ UNCHANGED outbox
  <2>0. PICK k : k = Off
    OBVIOUS
  <2>1. Advancing
    BY <1>1, <1>6 DEF Advancing, TypeOK
  <2>2. Honest(k) /\ TickOK(k) /\ k.batch = {}
    BY <2>0, <1>1, HonestOff, BlankOK DEF Off
  <2>3. Honest(k)'
    BY <1>1, <2>2 DEF Honest
  <2>4. BatchesOK' /\ \A s \in Ticks : Honest(tick[s])'
    BY <1>1, <1>6, <2>0, <2>1, <2>2, <2>3, RunHonest
  <2>. QED BY <1>1, <1>6, <2>4 DEF OutboxInv, RowHonest
<1>. QED BY <1>0, <1>5, <1>6 DEF TickFail

(* A change of rows alone. *)
LEMMA OutboxRows ==
  ASSUME OutboxInv, TypeOK', UNCHANGED <<published, tick, failures>>,
         \A r \in Rows : outbox[r].status # "free" => outbox'[r].status # "free",
         \A r \in Rows : RowHonest(r)'
  PROVE  OutboxInv'
<1>1. BatchesOK'
  <2>. SUFFICES ASSUME NEW t \in Ticks, NEW r \in tick[t].batch
                PROVE  outbox'[r].status # "free"
    BY DEF BatchesOK
  <2>1. r \in Rows
    BY DEF OutboxInv, TypeOK, TickOK, TickType
  <2>. QED BY <2>1 DEF OutboxInv, BatchesOK
<1>2. \A t \in Ticks : Honest(tick[t])'
  BY DEF OutboxInv, Honest
<1>. QED BY <1>1, <1>2 DEF OutboxInv

LEMMA OutboxSettle ==
  ASSUME GatewayAssumption, OutboxInv, NEW h \in Handlers, MarkPaidWrite(h)
  PROVE  OutboxInv'
<1>. USE DEF serviceVars, worldVars, ghostVars
<1>1. TypeOK' /\ TypeOK /\ UNCHANGED <<published, tick, failures>>
  BY MarkPaidTypes DEF OutboxInv, MarkPaidWrite
<1>2. CASE UNCHANGED outbox
  BY <1>1, <1>2, OutboxFrame
<1>3. CASE Free # {} /\ outbox' = [outbox EXCEPT ![NewRow] =
             [payment |-> task[h].payment, status |-> "pending", due |-> TRUE, attempts |-> 0]]
  <2>1. PICK n : n = NewRow
    OBVIOUS
  <2>2. n \in Rows /\ outbox[n].status = "free"
    BY <1>3, <2>1, NewRowOK DEF Free
  <2>3. \A r \in Rows : outbox'[r] = IF r = n
          THEN [payment |-> task[h].payment, status |-> "pending", due |-> TRUE, attempts |-> 0]
          ELSE outbox[r]
    BY <1>1, <1>3, <2>1, <2>2 DEF TypeOK
  <2>4. ASSUME NEW r \in Rows PROVE RowHonest(r)'
    <3>1. RowHonest(r) /\ failures[r] \in Nat
      BY <1>1 DEF OutboxInv, TypeOK
    <3>. QED BY <1>1, <2>2, <2>3, <3>1 DEF RowHonest
  <2>. QED BY <1>1, <2>3, <2>4, OutboxRows
<1>. QED BY <1>2, <1>3 DEF MarkPaidWrite

LEMMA OutboxOther ==
  ASSUME GatewayAssumption, OutboxInv, TypeOK',
         \/ \E r \in Rows : BackoffOver(r)
         \/ Crash
  PROVE  OutboxInv'
<1>. USE DEF serviceVars, worldVars, ghostVars
<1>0. TypeOK
  BY DEF OutboxInv
<1>1. ASSUME NEW q \in Rows, BackoffOver(q) PROVE OutboxInv'
  <2>1. UNCHANGED <<published, tick, failures>>
    BY <1>1 DEF BackoffOver
  <2>2. \A r \in Rows : /\ outbox'[r].status = outbox[r].status
                        /\ outbox'[r].attempts = outbox[r].attempts
    BY <1>0, <1>1 DEF BackoffOver, TypeOK, RowType
  <2>3. \A r \in Rows : RowHonest(r)'
    BY <2>1, <2>2 DEF OutboxInv, RowHonest
  <2>. QED BY <2>1, <2>2, <2>3, OutboxRows
<1>2. CASE Crash
  <2>1. UNCHANGED <<outbox, published, failures>> /\ tick' = [t \in Ticks |-> Off]
    BY <1>2 DEF Crash
  <2>2. PICK k : k = Off
    OBVIOUS
  <2>3. Honest(k) /\ k.batch = {}
    BY <1>0, <2>2, HonestOff DEF Off
  <2>4. \A t \in Ticks : tick'[t] = k
    BY <2>1, <2>2
  <2>5. BatchesOK'
    BY <2>3, <2>4 DEF BatchesOK
  <2>6. \A t \in Ticks : Honest(tick[t])'
    BY <2>1, <2>3, <2>4 DEF Honest
  <2>. QED BY <2>1, <2>5, <2>6 DEF OutboxInv, RowHonest
<1>. QED BY <1>1, <1>2

LEMMA InitOutbox == ASSUME GatewayAssumption, Init PROVE OutboxInv
<1>1. DataOK
  BY DEF Init, DataOK, GatewayAssumption, PayStatus
<1>2. RowsOK
  BY DEF Init, RowsOK, RowType, OutboxStatus, GatewayAssumption
<1>3. TasksOK /\ TicksOK
  BY BlankOK DEF Init, TasksOK, TicksOK
<1>4. TypeOK
  BY <1>1, <1>2, <1>3, TypeParts
<1>5. BatchesOK
  BY DEF Init, BatchesOK, Off
<1>6. \A r \in Rows : RowHonest(r)
  BY DEF Init, RowHonest
<1>7. \A t \in Ticks : Honest(tick[t])
  BY <1>4, HonestOff DEF Init
<1>. QED BY <1>4, <1>5, <1>6, <1>7 DEF OutboxInv

LEMMA NextOutbox ==
  ASSUME GatewayAssumption, OutboxInv, [Next]_vars
  PROVE  OutboxInv'
<1>. USE DEF serviceVars, worldVars, ghostVars
<1>0. TypeOK /\ BatchesOK
  BY DEF OutboxInv
<1>1. ASSUME NEW h \in Handlers, HandlerStep(h) PROVE OutboxInv'
  <2>1. CASE UrlList(h) \/ (\E p \in Payments : UrlClose(h, p)) \/ UrlCreate(h)
             \/ UrlProcessing(h)
    <3>1. TypeOK'
      BY <1>0, <2>1, UrlTypes
    <3>. QED BY <2>1, <3>1, OutboxFrame DEF UrlList, UrlClose, UrlCreate, UrlProcessing
  <2>2. CASE IpnLookup(h) \/ IpnFailed(h) \/ IpnAck(h)
    <3>1. TypeOK'
      BY <1>0, <2>2, IpnTypes
    <3>. QED BY <2>2, <3>1, OutboxFrame DEF IpnLookup, IpnFailed, IpnAck
  <2>3. CASE MarkPaidRead(h)
    <3>1. TypeOK'
      BY <1>0, <2>3, MarkPaidTypes
    <3>. QED BY <2>3, <3>1, OutboxFrame DEF MarkPaidRead
  <2>4. CASE MarkPaidWrite(h)
    BY <2>4, OutboxSettle
  <2>. QED BY <1>1, <2>1, <2>2, <2>3, <2>4 DEF HandlerStep
<1>2. ASSUME NEW h \in Handlers, RequestUrl(h) PROVE OutboxInv'
  BY <1>0, <1>2, UrlTypes, OutboxFrame DEF RequestUrl
<1>3. ASSUME NEW h \in Handlers, NEW p \in Payments, Notify(h, p) PROVE OutboxInv'
  BY <1>0, <1>3, IpnTypes, OutboxFrame DEF Notify
<1>4. ASSUME NEW h \in Handlers, NEW p \in Payments, MarkPaidByHand(h, p) PROVE OutboxInv'
  BY <1>0, <1>4, MarkPaidTypes, OutboxFrame DEF MarkPaidByHand
<1>5. ASSUME NEW t \in Ticks, TickStep(t) PROVE OutboxInv'
  BY <1>5, OutboxStart, OutboxEmit, OutboxMark, OutboxFail DEF TickStep
<1>6. CASE (\E r \in Rows : BackoffOver(r)) \/ Crash
  BY <1>0, <1>6, EnvironmentTypes, OutboxOther
<1>7. CASE \/ \E p \in Payments, outcome \in {"success", "failure"} : PayAtProvider(p, outcome)
           \/ \E p \in Payments, st \in {"Open", "Closed"} : UpdatePaymentStatus(p, st)
           \/ \E p \in Payments : SoftDelete(p)
           \/ \E h \in Handlers : LoseRequest(h)
           \/ UNCHANGED vars
  <2>1. TypeOK'
    BY <1>0, <1>7, EnvironmentTypes
  <2>2. UNCHANGED <<outbox, published, tick, failures>>
    BY <1>7 DEF PayAtProvider, UpdatePaymentStatus, SoftDelete, LoseRequest, vars
  <2>. QED BY <2>1, <2>2, OutboxFrame
<1>8. CASE Rest
  BY <1>7, <1>8 DEF Rest
<1>. QED BY <1>1, <1>2, <1>3, <1>4, <1>5, <1>6, <1>7, <1>8 DEF Next

LEMMA OutboxInvariant == Spec => []OutboxInv
<1>1. Init => OutboxInv
  BY GatewayAssumption, InitOutbox
<1>2. OutboxInv /\ [Next]_vars => OutboxInv'
  BY GatewayAssumption, NextOutbox
<1>. QED BY <1>1, <1>2, PTL DEF Spec

(* All variables keep their types, however many requests, runs of the      *)
(* worker, failures and crashes there are (schema.ts, payment.service.ts). *)
THEOREM GatewayTypeCorrect == Spec => []TypeOK
<1>1. OutboxInv => TypeOK
  BY DEF OutboxInv
<1>. QED BY <1>1, OutboxInvariant, PTL

(* A row of the outbox is processed only if its event was sent: nothing is *)
(* lost between the commit of markPaidWorkflow and the broker, whatever    *)
(* runs of processOutbox overlap or die half-way.                          *)
THEOREM ProcessedOnlyIfPublished == Spec => []ProcessedWasPublished
<1>1. OutboxInv => ProcessedWasPublished
  BY DEF OutboxInv, RowHonest, ProcessedWasPublished
<1>. QED BY <1>1, OutboxInvariant, PTL

(* processOutbox gives a row up only after OUTBOX_MAX_ATTEMPTS failures,   *)
(* although overlapping runs write attempt counts they read earlier.       *)
THEOREM GivenUpOnlyAfterMax == Spec => []GivenUpAfterMax
<1>1. OutboxInv => GivenUpAfterMax
  BY DEF OutboxInv, RowHonest, GivenUpAfterMax
<1>. QED BY <1>1, OutboxInvariant, PTL

-----------------------------------------------------------------------------
(* The notification.  A handler decides on a row it read earlier, so the   *)
(* invariant says what it knows: before a settlement somebody approved the *)
(* payment, and before the answer 00 a success is recorded.                *)
Confirmable(p) == Recorded(p) \/ result[p] = "failure"

Grounded(t) ==
  /\ t.pc = "ipn_lookup" => result[t.payment] # "none"
  /\ t.pc = "ipn_failed" => result[t.payment] = "failure"
  /\ t.pc = "ipn_ack" => Confirmable(t.payment)
  /\ t.pc \in {"mp_read", "mp_write"} => t.payment \in Approved

PaidIsRecorded == \A p \in Payments : pay[p] = "Paid" => Recorded(p)

NoticeInv ==
  /\ OutboxInv
  /\ PaidIsRecorded
  /\ \A p \in acked : Confirmable(p)
  /\ \A h \in Handlers : Grounded(task[h])

(* Rows keep their payments, outcomes are final, and so is an approval.    *)
Gaining ==
  /\ \A r \in Rows : outbox[r].payment # None => outbox'[r].payment = outbox[r].payment
  /\ \A p \in Payments : result[p] # "none" => result'[p] = result[p]
  /\ vouched \subseteq vouched'

LEMMA RecordedStays ==
  ASSUME GatewayAssumption, Gaining, NEW p \in Payments
  PROVE  /\ Recorded(p) => Recorded(p)'
         /\ Confirmable(p) => Confirmable(p)'
         /\ p \in Approved => p \in Approved'
<1>1. Recorded(p) => Recorded(p)'
  BY DEF Gaining, Recorded, GatewayAssumption
<1>. QED BY <1>1 DEF Gaining, Confirmable, Approved

LEMMA GroundedStays ==
  ASSUME GatewayAssumption, Gaining, NEW t, TaskOK(t), Grounded(t)
  PROVE  Grounded(t)'
<1>1. CASE t.payment \in Payments
  BY <1>1, RecordedStays DEF Grounded, Gaining
<1>2. CASE t.payment = None
  BY <1>2 DEF Grounded, TaskOK
<1>. QED BY <1>1, <1>2 DEF TaskOK, TaskType

LEMMA GroundedBlank == Grounded(Blank)
  BY DEF Grounded, Blank

(* Handler h does step u, or nobody does: what has to be shown besides.    *)
LEMMA NoticeFrame ==
  ASSUME GatewayAssumption, NoticeInv, OutboxInv', Gaining,
         \/ UNCHANGED task
         \/ \E h \in Handlers : \E u : Become(h, u) /\ Grounded(u)',
         \A p \in Payments : pay'[p] = "Paid" => pay[p] = "Paid" \/ Recorded(p)',
         \A p \in acked' : p \in acked \/ Confirmable(p)'
  PROVE  NoticeInv'
<1>1. TypeOK /\ TypeOK'
  BY DEF NoticeInv, OutboxInv
<1>2. PaidIsRecorded'
  BY RecordedStays DEF NoticeInv, PaidIsRecorded
<1>3. \A p \in acked' : Confirmable(p)'
  BY <1>1, RecordedStays DEF NoticeInv, TypeOK
<1>4. ASSUME NEW g \in Handlers PROVE Grounded(task[g])'
  <2>1. PICK t : t = task[g]
    OBVIOUS
  <2>2. Grounded(t)'
    BY <1>1, <2>1, GroundedStays DEF NoticeInv, TypeOK
  <2>3. CASE UNCHANGED task
    BY <2>1, <2>2, <2>3 DEF Grounded
  <2>4. ASSUME NEW h \in Handlers, NEW u, Become(h, u), Grounded(u)'
        PROVE  Grounded(task[g])'
    <3>1. task'[g] = IF g = h THEN u ELSE t
      BY <1>1, <2>1, <2>4 DEF Become, TypeOK
    <3>. QED BY <2>2, <2>4, <3>1 DEF Grounded
  <2>. QED BY <2>3, <2>4
<1>. QED BY <1>2, <1>3, <1>4 DEF NoticeInv

LEMMA FinishGrounded ==
  ASSUME NEW h \in Handlers, Finish(h)
  PROVE  \E g \in Handlers : \E u : Become(g, u) /\ Grounded(u)'
<1>1. PICK u : u = Blank
  OBVIOUS
<1>2. Grounded(u)'
  BY <1>1 DEF Grounded, Blank
<1>. QED BY <1>1, <1>2 DEF Finish

LEMMA GotoGrounded ==
  ASSUME TypeOK, NEW h \in Handlers, NEW pc, Goto(h, pc), NEW p, p = task[h].payment,
         \/ pc = "ipn_failed" /\ result'[p] = "failure"
         \/ pc = "ipn_ack" /\ Confirmable(p)'
         \/ pc \in {"mp_read", "mp_write"} /\ p \in Approved'
  PROVE  \E g \in Handlers : \E u : Become(g, u) /\ Grounded(u)'
<1>1. PICK u : u = [task[h] EXCEPT !.pc = pc]
  OBVIOUS
<1>2. u.pc = pc /\ u.payment = p
  BY <1>1 DEF TypeOK, TaskOK, TaskType
<1>3. Grounded(u)'
  BY <1>2 DEF Grounded
<1>. QED BY <1>1, <1>3 DEF Goto

LEMMA SameKnowledge ==
  ASSUME UNCHANGED <<outbox, result, vouched>>
  PROVE  /\ Gaining
         /\ \A p : /\ Recorded(p)' <=> Recorded(p)
                   /\ Confirmable(p)' <=> Confirmable(p)
                   /\ p \in Approved' <=> p \in Approved
  BY DEF Gaining, Recorded, Confirmable, Approved

LEMMA NoticeUrl ==
  ASSUME GatewayAssumption, NoticeInv, OutboxInv', NEW h \in Handlers,
         \/ RequestUrl(h) \/ UrlList(h)
         \/ \E p \in Payments : UrlClose(h, p)
         \/ UrlCreate(h) \/ UrlProcessing(h)
  PROVE  NoticeInv'
<1>. USE DEF serviceVars, worldVars, ghostVars
<1>0. TypeOK /\ TaskOK(task[h])
  BY DEF NoticeInv, OutboxInv, TypeOK
<1>1. UNCHANGED <<outbox, result, vouched, acked>>
  BY DEF RequestUrl, UrlList, UrlClose, UrlCreate, UrlProcessing
<1>2. \A p \in Payments : pay'[p] = "Paid" => pay[p] = "Paid"
  BY <1>0 DEF RequestUrl, UrlList, UrlClose, UrlCreate, UrlProcessing, Write, TypeOK
<1>3. \E u : Become(h, u) /\ u.pc \in {"idle", "url_list", "url_close", "url_create", "url_processing"}
  <2>1. CASE RequestUrl(h)
    <3>1. PICK u : u = [Blank EXCEPT !.pc = "url_list", !.job = "url"]
      OBVIOUS
    <3>2. u.pc = "url_list" /\ Become(h, u)
      BY <2>1, <3>1 DEF RequestUrl, Blank
    <3>. QED BY <3>2
  <2>2. ASSUME NEW open \in SUBSET Payments
        PROVE  AfterClose(task[h], open).pc \in {"url_close", "url_create"}
    BY <1>0 DEF AfterClose, TaskOK, TaskType
  <2>3. CASE UrlList(h)
    <3>1. PICK open \in SUBSET Payments : Become(h, Blank) \/ Become(h, AfterClose(task[h], open))
      BY <2>3 DEF UrlList
    <3>. QED BY <2>2, <3>1 DEF Blank
  <2>4. CASE \E p \in Payments : UrlClose(h, p)
    <3>1. PICK open \in SUBSET Payments : Become(h, AfterClose(task[h], open))
      BY <1>0, <2>4 DEF UrlClose, TaskOK, TaskType
    <3>. QED BY <2>2, <3>1
  <2>5. CASE UrlCreate(h)
    <3>1. PICK u : u = [task[h] EXCEPT !.pc = "url_processing", !.payment = NewPayment]
      OBVIOUS
    <3>2. u.pc = "url_processing"
      BY <1>0, <3>1 DEF TaskOK, TaskType
    <3>3. Become(h, u) \/ Become(h, Blank)
      BY <2>5, <3>1 DEF UrlCreate, Finish
    <3>. QED BY <3>2, <3>3 DEF Blank
  <2>6. CASE UrlProcessing(h)
    BY <2>6 DEF UrlProcessing, Finish, Blank
  <2>. QED BY <2>1, <2>3, <2>4, <2>5, <2>6
<1>4. \E g \in Handlers : \E u : Become(g, u) /\ Grounded(u)'
  BY <1>3 DEF Grounded
<1>. QED BY <1>1, <1>2, <1>4, SameKnowledge, NoticeFrame

LEMMA NoticeIpn ==
  ASSUME GatewayAssumption, NoticeInv, OutboxInv', NEW h \in Handlers,
         \/ \E p \in Payments : Notify(h, p)
         \/ IpnLookup(h) \/ IpnFailed(h) \/ IpnAck(h)
  PROVE  NoticeInv'
<1>. USE DEF serviceVars, worldVars, ghostVars
<1>0. TypeOK /\ TaskOK(task[h]) /\ Grounded(task[h])
  BY DEF NoticeInv, OutboxInv, TypeOK
<1>1. UNCHANGED <<outbox, result, vouched>>
  BY DEF Notify, IpnLookup, IpnFailed, IpnAck
<1>2. \A p \in Payments : pay'[p] = "Paid" => pay[p] = "Paid"
  BY <1>0 DEF Notify, IpnLookup, IpnFailed, IpnAck, Write, TypeOK
<1>3. PICK q : q = task[h].payment
  OBVIOUS
<1>4. ASSUME NEW p \in Payments, Notify(h, p) PROVE NoticeInv'
  <2>1. PICK u : u = [Blank EXCEPT !.pc = "ipn_lookup", !.job = "notify", !.payment = p]
    OBVIOUS
  <2>2. u.pc = "ipn_lookup" /\ u.payment = p
    BY <2>1 DEF Blank
  <2>3. Grounded(u)'
    BY <1>4, <2>2 DEF Grounded, Notify
  <2>4. Become(h, u) /\ UNCHANGED acked
    BY <1>4, <2>1 DEF Notify
  <2>. QED BY <1>1, <1>2, <2>3, <2>4, SameKnowledge, NoticeFrame
<1>5. CASE IpnLookup(h)
  <2>1. q \in Payments /\ result[q] # "none" /\ result[q] \in {"none", "success", "failure"}
    BY <1>0, <1>3, <1>5 DEF IpnLookup, At, TaskOK, TaskType, Grounded, TypeOK
  <2>2. \/ IpnNext(q) = "ipn_failed" /\ result[q] = "failure"
        \/ IpnNext(q) = "ipn_ack" /\ Confirmable(q)
        \/ IpnNext(q) = "mp_read" /\ q \in Approved
    BY <2>1 DEF IpnNext, NoticeInv, PaidIsRecorded, Confirmable, Approved
  <2>3. PICK pc : pc = IpnNext(q)
    OBVIOUS
  <2>4. Goto(h, pc) \/ Finish(h)
    BY <1>3, <1>5, <2>3 DEF IpnLookup
  <2>5. \/ pc = "ipn_failed" /\ result'[q] = "failure"
        \/ pc = "ipn_ack" /\ Confirmable(q)'
        \/ pc \in {"mp_read", "mp_write"} /\ q \in Approved'
    BY <1>1, <2>2, <2>3, SameKnowledge
  <2>6. \E g \in Handlers : \E u : Become(g, u) /\ Grounded(u)'
    BY <1>0, <1>3, <2>4, <2>5, GotoGrounded, FinishGrounded
  <2>. QED BY <1>1, <1>2, <1>5, <2>6, SameKnowledge, NoticeFrame DEF IpnLookup
<1>6. CASE IpnFailed(h)
  <2>1. Confirmable(q)'
    BY <1>0, <1>1, <1>3, <1>6, SameKnowledge DEF IpnFailed, At, Grounded, Confirmable
  <2>2. \E g \in Handlers : \E u : Become(g, u) /\ Grounded(u)'
    BY <1>0, <1>3, <1>6, <2>1, GotoGrounded, FinishGrounded DEF IpnFailed
  <2>. QED BY <1>1, <1>2, <1>6, <2>2, SameKnowledge, NoticeFrame DEF IpnFailed
<1>7. CASE IpnAck(h)
  <2>1. Confirmable(q)'
    BY <1>0, <1>1, <1>3, <1>7, SameKnowledge DEF IpnAck, At, Grounded
  <2>2. acked' = acked \cup {q}
    BY <1>3, <1>7 DEF IpnAck
  <2>3. \A p \in acked' : p \in acked \/ Confirmable(p)'
    BY <2>1, <2>2
  <2>4. \E g \in Handlers : \E u : Become(g, u) /\ Grounded(u)'
    BY <1>7, FinishGrounded DEF IpnAck
  <2>. QED BY <1>1, <1>2, <2>3, <2>4, SameKnowledge, NoticeFrame
<1>. QED BY <1>4, <1>5, <1>6, <1>7

(* The worker and the passing of time leave a row's payment alone.         *)
LEMMA RowsKeepPayments ==
  ASSUME TypeOK,
         \/ \E t \in Ticks : TickStep(t)
         \/ \E r \in Rows : BackoffOver(r)
  PROVE  \A r \in Rows : outbox'[r].payment = outbox[r].payment
<1>. USE DEF serviceVars, worldVars, ghostVars
<1>0. TypeOK
  OBVIOUS
<1>1. ASSUME NEW t \in Ticks, TickFail(t)
      PROVE  \A r \in Rows : outbox'[r].payment = outbox[r].payment
  <2>1. PICK q, n, st : \/ UNCHANGED outbox
                        \/ outbox' = [outbox EXCEPT ![q] =
                             [outbox[q] EXCEPT !.attempts = n, !.due = FALSE, !.status = st]]
    BY <1>1 DEF TickFail
  <2>2. ASSUME q \in Rows
        PROVE  [outbox[q] EXCEPT !.attempts = n, !.due = FALSE, !.status = st].payment
                 = outbox[q].payment
    BY <1>0, <2>2 DEF TypeOK, RowType
  <2>. QED BY <1>0, <2>1, <2>2 DEF TypeOK
<1>2. ASSUME NEW t \in Ticks, TickMark(t)
      PROVE  \A r \in Rows : outbox'[r].payment = outbox[r].payment
  BY <1>0, <1>2 DEF TickMark, TypeOK, RowType
<1>3. ASSUME NEW t \in Ticks, TickStart(t) \/ (\E r \in Rows : TickEmit(t, r))
      PROVE  \A r \in Rows : outbox'[r].payment = outbox[r].payment
  BY <1>3 DEF TickStart, TickEmit
<1>4. ASSUME NEW q \in Rows, BackoffOver(q)
      PROVE  \A r \in Rows : outbox'[r].payment = outbox[r].payment
  BY <1>0, <1>4 DEF BackoffOver, TypeOK, RowType
<1>. QED BY <1>1, <1>2, <1>3, <1>4 DEF TickStep

LEMMA NoticeTicks ==
  ASSUME GatewayAssumption, NoticeInv, OutboxInv',
         \/ \E t \in Ticks : TickStep(t)
         \/ \E r \in Rows : BackoffOver(r)
  PROVE  NoticeInv'
<1>. USE DEF serviceVars, worldVars, ghostVars
<1>0. TypeOK
  BY DEF NoticeInv, OutboxInv
<1>1. UNCHANGED <<pay, result, vouched, acked, task>>
  BY DEF TickStep, TickStart, TickEmit, TickMark, TickFail, BackoffOver, FailRow
<1>2. \A r \in Rows : outbox'[r].payment = outbox[r].payment
  BY <1>0, RowsKeepPayments
<1>3. Gaining
  BY <1>1, <1>2 DEF Gaining
<1>. QED BY <1>1, <1>3, NoticeFrame

(* A settlement of p is recorded, and every earlier row keeps its payment. *)
LEMMA SettleRecords ==
  ASSUME GatewayAssumption, TypeOK, NEW p \in Payments, Free # {},
         outbox' = [outbox EXCEPT ![NewRow] =
           [payment |-> p, status |-> "pending", due |-> TRUE, attempts |-> 0]]
  PROVE  /\ Recorded(p)'
         /\ \A r \in Rows : outbox[r].payment # None => outbox'[r].payment = outbox[r].payment
         /\ \A r \in Rows : outbox'[r].payment \in {p, outbox[r].payment}
<1>1. RowsOK
  BY TypeParts
<1>2. PICK n : n = NewRow
  OBVIOUS
<1>3. /\ n \in Rows /\ outbox[n].payment = None
      /\ outbox'[n].payment = p
      /\ \A r \in Rows : r # n => outbox'[r] = outbox[r]
  <2>1. /\ NewRow \in Rows /\ outbox[NewRow].payment = None
        /\ \A r \in Rows : outbox'[r] = IF r = NewRow
             THEN [payment |-> p, status |-> "pending", due |-> TRUE, attempts |-> 0]
             ELSE outbox[r]
    BY <1>1, FilledRow
  <2>. QED BY <1>2, <2>1
<1>. QED BY <1>3 DEF Recorded

LEMMA NoticeMarkPaid ==
  ASSUME GatewayAssumption, NoticeInv, OutboxInv', NEW h \in Handlers,
         \/ MarkPaidRead(h) \/ MarkPaidWrite(h)
         \/ \E p \in Payments : MarkPaidByHand(h, p)
  PROVE  NoticeInv'
<1>. USE DEF serviceVars, worldVars, ghostVars
<1>0. TypeOK /\ TaskOK(task[h]) /\ Grounded(task[h])
  BY DEF NoticeInv, OutboxInv, TypeOK
<1>1. PICK q : q = task[h].payment
  OBVIOUS
<1>2. CASE MarkPaidRead(h)
  <2>1. UNCHANGED <<outbox, result, vouched, pay, acked>>
    BY <1>2 DEF MarkPaidRead
  <2>2. q \in Approved'
    BY <1>0, <1>1, <1>2, <2>1, SameKnowledge DEF MarkPaidRead, At, Grounded
  <2>3. \E g \in Handlers : \E u : Become(g, u) /\ Grounded(u)'
    BY <1>0, <1>1, <1>2, <2>2, GotoGrounded, FinishGrounded DEF MarkPaidRead
  <2>. QED BY <2>1, <2>3, SameKnowledge, NoticeFrame
<1>3. CASE MarkPaidWrite(h)
  <2>1. q \in Payments /\ UNCHANGED <<result, vouched, acked>>
    BY <1>0, <1>1, <1>3 DEF MarkPaidWrite, At, TaskOK, TaskType
  <2>2. CASE /\ Free # {} /\ Write(q, "Paid")
             /\ outbox' = [outbox EXCEPT ![NewRow] =
                  [payment |-> q, status |-> "pending", due |-> TRUE, attempts |-> 0]]
             /\ Goto(h, "ipn_ack") \/ Finish(h)
    <3>1. Recorded(q)' /\ Gaining
      BY <1>0, <2>1, <2>2, SettleRecords DEF Gaining
    <3>2. \E g \in Handlers : \E u : Become(g, u) /\ Grounded(u)'
      BY <1>0, <1>1, <2>2, <3>1, GotoGrounded, FinishGrounded DEF Confirmable
    <3>3. \A p \in Payments : pay'[p] = "Paid" => pay[p] = "Paid" \/ Recorded(p)'
      BY <1>0, <2>2, <3>1 DEF Write, TypeOK
    <3>. QED BY <2>1, <3>1, <3>2, <3>3, NoticeFrame
  <2>3. CASE Finish(h) /\ UNCHANGED <<pay, outbox>>
    <3>1. \E g \in Handlers : \E u : Become(g, u) /\ Grounded(u)'
      BY <2>3, FinishGrounded
    <3>. QED BY <2>1, <2>3, <3>1, SameKnowledge, NoticeFrame
  <2>. QED BY <1>1, <1>3, <2>2, <2>3 DEF MarkPaidWrite
<1>4. ASSUME NEW p \in Payments, MarkPaidByHand(h, p) PROVE NoticeInv'
  <2>1. PICK u : u = [Blank EXCEPT !.pc = "mp_read", !.job = "operator", !.payment = p]
    OBVIOUS
  <2>2. u.pc = "mp_read" /\ u.payment = p
    BY <2>1 DEF Blank
  <2>3. /\ UNCHANGED <<outbox, result, pay, acked>> /\ vouched' = vouched \cup {p}
        /\ Become(h, u)
    BY <1>4, <2>1 DEF MarkPaidByHand
  <2>4. Grounded(u)'
    BY <2>2, <2>3 DEF Grounded, Approved
  <2>5. Gaining
    BY <2>3 DEF Gaining
  <2>. QED BY <2>3, <2>4, <2>5, NoticeFrame
<1>. QED BY <1>2, <1>3, <1>4

LEMMA NoticeEnvironment ==
  ASSUME GatewayAssumption, NoticeInv, OutboxInv',
         \/ \E p \in Payments, outcome \in {"success", "failure"} : PayAtProvider(p, outcome)
         \/ \E p \in Payments, st \in {"Open", "Closed"} : UpdatePaymentStatus(p, st)
         \/ \E p \in Payments : SoftDelete(p)
         \/ Crash
         \/ \E h \in Handlers : LoseRequest(h)
         \/ UNCHANGED vars
  PROVE  NoticeInv'
<1>. USE DEF serviceVars, worldVars, ghostVars
<1>0. TypeOK
  BY DEF NoticeInv, OutboxInv
<1>1. ASSUME NEW p \in Payments, NEW outcome \in {"success", "failure"},
             PayAtProvider(p, outcome)
      PROVE  NoticeInv'
  <2>1. Gaining
    BY <1>0, <1>1 DEF PayAtProvider, Gaining, TypeOK
  <2>. QED BY <1>1, <2>1, NoticeFrame DEF PayAtProvider
<1>2. CASE \/ \E p \in Payments, st \in {"Open", "Closed"} : UpdatePaymentStatus(p, st)
           \/ \E p \in Payments : SoftDelete(p)
           \/ UNCHANGED vars
  <2>1. \A p \in Payments : pay'[p] = "Paid" => pay[p] = "Paid"
    BY <1>0, <1>2 DEF UpdatePaymentStatus, SoftDelete, vars, Write, TypeOK
  <2>2. UNCHANGED <<outbox, result, vouched, acked, task>>
    BY <1>2 DEF UpdatePaymentStatus, SoftDelete, vars
  <2>. QED BY <2>1, <2>2, SameKnowledge, NoticeFrame
<1>3. CASE Crash
  <2>1. UNCHANGED <<pay, outbox, result, vouched, acked>>
    BY <1>3 DEF Crash
  <2>2. ASSUME NEW g \in Handlers PROVE Grounded(task[g])'
    <3>1. PICK u : u = IF task[g].pc = "mp_write" THEN [task[g] EXCEPT !.pc = "mp_read"]
                       ELSE task[g]
      OBVIOUS
    <3>2. task'[g] = u
      BY <1>3, <3>1 DEF Crash, At
    <3>3. Grounded(task[g]) /\ TaskOK(task[g])
      BY <1>0 DEF NoticeInv, TypeOK
    <3>4. Grounded(u)
      BY <3>1, <3>3 DEF Grounded, TaskOK, TaskType
    <3>5. Grounded(u)'
      BY <2>1, <3>4, SameKnowledge DEF Grounded
    <3>. QED BY <3>2, <3>5 DEF Grounded
  <2>. QED BY <2>1, <2>2, SameKnowledge DEF NoticeInv, PaidIsRecorded
<1>4. ASSUME NEW h \in Handlers, LoseRequest(h) PROVE NoticeInv'
  <2>1. UNCHANGED <<pay, outbox, result, vouched, acked>>
    BY <1>4 DEF LoseRequest
  <2>2. PICK u : u = IF task[h].pc \in {"mp_read", "mp_write"}
                     THEN [task[h] EXCEPT !.job = "orphan"] ELSE Blank
    OBVIOUS
  <2>3. Become(h, u)
    BY <1>4, <2>2 DEF LoseRequest
  <2>4. Grounded(task[h]) /\ TaskOK(task[h])
    BY <1>0 DEF NoticeInv, TypeOK
  <2>5. Grounded(u)
    BY <2>2, <2>4, GroundedBlank DEF Grounded, TaskOK, TaskType
  <2>6. Grounded(u)'
    BY <2>1, <2>5, SameKnowledge DEF Grounded
  <2>. QED BY <2>1, <2>3, <2>6, SameKnowledge, NoticeFrame
<1>. QED BY <1>1, <1>2, <1>3, <1>4

LEMMA InitNotice == ASSUME GatewayAssumption, Init PROVE NoticeInv
<1>1. OutboxInv
  BY InitOutbox
<1>2. \A h \in Handlers : Grounded(task[h])
  BY GroundedBlank DEF Init
<1>3. PaidIsRecorded /\ \A p \in acked : Confirmable(p)
  BY DEF Init, PaidIsRecorded
<1>. QED BY <1>1, <1>2, <1>3 DEF NoticeInv

LEMMA NextNotice ==
  ASSUME GatewayAssumption, NoticeInv, [Next]_vars
  PROVE  NoticeInv'
<1>0. OutboxInv'
  BY NextOutbox DEF NoticeInv
<1>1. ASSUME NEW h \in Handlers, HandlerStep(h) PROVE NoticeInv'
  BY <1>0, <1>1, NoticeUrl, NoticeIpn, NoticeMarkPaid DEF HandlerStep
<1>2. CASE \/ \E h \in Handlers : RequestUrl(h)
           \/ \E h \in Handlers, p \in Payments : Notify(h, p)
           \/ \E h \in Handlers, p \in Payments : MarkPaidByHand(h, p)
  BY <1>0, <1>2, NoticeUrl, NoticeIpn, NoticeMarkPaid
<1>3. CASE (\E t \in Ticks : TickStep(t)) \/ (\E r \in Rows : BackoffOver(r))
  BY <1>0, <1>3, NoticeTicks
<1>4. CASE \/ \E p \in Payments, outcome \in {"success", "failure"} : PayAtProvider(p, outcome)
           \/ \E p \in Payments, st \in {"Open", "Closed"} : UpdatePaymentStatus(p, st)
           \/ \E p \in Payments : SoftDelete(p)
           \/ Crash
           \/ \E h \in Handlers : LoseRequest(h)
           \/ Rest \/ UNCHANGED vars
  BY <1>0, <1>4, NoticeEnvironment DEF Rest
<1>. QED BY <1>1, <1>2, <1>3, <1>4 DEF Next

LEMMA NoticeInvariant == Spec => []NoticeInv
<1>1. Init => NoticeInv
  BY GatewayAssumption, InitNotice
<1>2. NoticeInv /\ [Next]_vars => NoticeInv'
  BY GatewayAssumption, NextNotice
<1>. QED BY <1>1, <1>2, PTL DEF Spec

(* Once handleIpn answered 00 to a success, the event that tells the order *)
(* is in the outbox, whatever was written to the payment's row meanwhile.  *)
THEOREM AcknowledgedSuccessIsRecorded == Spec => []AcknowledgedIsRecorded
<1>1. NoticeInv => AcknowledgedIsRecorded
  BY DEF NoticeInv, Confirmable, AcknowledgedIsRecorded
<1>. QED BY <1>1, NoticeInvariant, PTL

-----------------------------------------------------------------------------
(* The refinement: what an action may do to what PaidNotice sees.          *)
RecordedSet == {p \in Payments : Recorded(p)}
Told == {outbox[r].payment : r \in published}

NoticeStep == [Notice!Next]_<<Approved, RecordedSet, Told>>

LEMMA SameNotice ==
  ASSUME NoticeInv, UNCHANGED <<published, result, vouched>>,
         \A r \in Rows : outbox'[r].payment = outbox[r].payment
  PROVE  NoticeStep
<1>1. Approved' = Approved
  BY DEF Approved
<1>2. RecordedSet' = RecordedSet
  BY DEF RecordedSet, Recorded
<1>3. Told' = Told
  BY DEF Told, NoticeInv, OutboxInv, TypeOK
<1>. QED BY <1>1, <1>2, <1>3 DEF NoticeStep

LEMMA SettleNotice ==
  ASSUME GatewayAssumption, NoticeInv, NEW h \in Handlers, MarkPaidWrite(h)
  PROVE  NoticeStep
<1>. USE DEF serviceVars, worldVars, ghostVars
<1>0. TypeOK /\ TaskOK(task[h]) /\ Grounded(task[h]) /\ RowsOK
  BY TypeParts DEF NoticeInv, OutboxInv, TypeOK
<1>1. PICK p : p = task[h].payment
  OBVIOUS
<1>2. p \in Payments /\ p \in Approved /\ UNCHANGED <<published, result, vouched>>
  BY <1>0, <1>1 DEF MarkPaidWrite, At, TaskOK, TaskType, Grounded
<1>3. CASE UNCHANGED outbox
  BY <1>2, <1>3, SameNotice
<1>4. CASE Free # {} /\ outbox' = [outbox EXCEPT ![NewRow] =
             [payment |-> p, status |-> "pending", due |-> TRUE, attempts |-> 0]]
  <2>1. /\ Recorded(p)'
        /\ \A r \in Rows : outbox[r].payment # None => outbox'[r].payment = outbox[r].payment
        /\ \A r \in Rows : outbox'[r].payment \in {p, outbox[r].payment}
    BY <1>0, <1>2, <1>4, SettleRecords
  <2>2. RecordedSet' = RecordedSet \cup {p}
    BY <1>2, <2>1 DEF RecordedSet, Recorded, GatewayAssumption
  <2>3. \A r \in published : r \in Rows /\ outbox[r].payment # None
    BY <1>0 DEF NoticeInv, OutboxInv, RowHonest, TypeOK
  <2>4. Told' = Told
    BY <1>2, <2>1, <2>3 DEF Told
  <2>5. Approved' = Approved
    BY <1>2 DEF Approved
  <2>. QED BY <1>2, <2>2, <2>4, <2>5 DEF NoticeStep, Notice!Next, Notice!Record, RecordedSet, Told
<1>. QED BY <1>1, <1>3, <1>4 DEF MarkPaidWrite

LEMMA EmitNotice ==
  ASSUME GatewayAssumption, NoticeInv, NEW t \in Ticks, NEW r \in Rows, TickEmit(t, r)
  PROVE  NoticeStep
<1>. USE DEF serviceVars, worldVars, ghostVars
<1>0. TypeOK
  BY DEF NoticeInv, OutboxInv
<1>1. UNCHANGED <<outbox, result, vouched>>
  BY DEF TickEmit
<1>2. CASE UNCHANGED published
  BY <1>1, <1>2, SameNotice
<1>3. CASE published' = published \cup {r}
  <2>1. PICK p : p = outbox[r].payment
    OBVIOUS
  <2>2. outbox[r].status # "free" /\ p \in Payments
    BY <1>0, <2>1 DEF TickEmit, NoticeInv, OutboxInv, BatchesOK, TypeOK, RowType
  <2>3. p \in RecordedSet
    BY <2>1, <2>2 DEF RecordedSet, Recorded
  <2>4. Told' = Told \cup {p}
    BY <1>1, <1>3, <2>1 DEF Told
  <2>5. Approved' = Approved /\ RecordedSet' = RecordedSet
    BY <1>1 DEF Approved, RecordedSet, Recorded
  <2>. QED BY <2>2, <2>3, <2>4, <2>5 DEF NoticeStep, Notice!Next, Notice!Tell, RecordedSet, Told
<1>. QED BY <1>2, <1>3 DEF TickEmit

LEMMA ApprovalNotice ==
  ASSUME GatewayAssumption, NoticeInv, NEW p \in Payments,
         \/ \E outcome \in {"success", "failure"} : PayAtProvider(p, outcome)
         \/ \E h \in Handlers : MarkPaidByHand(h, p)
  PROVE  NoticeStep
<1>. USE DEF serviceVars, worldVars, ghostVars
<1>0. TypeOK
  BY DEF NoticeInv, OutboxInv
<1>1. UNCHANGED <<outbox, published>>
  BY DEF PayAtProvider, MarkPaidByHand
<1>2. RecordedSet' = RecordedSet /\ Told' = Told
  BY <1>1 DEF RecordedSet, Recorded, Told
<1>3. Approved' = Approved \/ Approved' = Approved \cup {p}
  BY <1>0 DEF PayAtProvider, MarkPaidByHand, Approved, TypeOK
<1>. QED BY <1>2, <1>3 DEF NoticeStep, Notice!Next, Notice!Approve, RecordedSet, Told

LEMMA QuietNotice ==
  ASSUME GatewayAssumption, NoticeInv,
         \/ \E h \in Handlers : RequestUrl(h)
         \/ \E h \in Handlers : UrlList(h) \/ UrlCreate(h) \/ UrlProcessing(h)
         \/ \E h \in Handlers, p \in Payments : UrlClose(h, p) \/ Notify(h, p)
         \/ \E h \in Handlers : IpnLookup(h) \/ IpnFailed(h) \/ IpnAck(h) \/ MarkPaidRead(h)
         \/ \E t \in Ticks : TickStart(t) \/ TickMark(t) \/ TickFail(t)
         \/ \E r \in Rows : BackoffOver(r)
         \/ \E p \in Payments, st \in {"Open", "Closed"} : UpdatePaymentStatus(p, st)
         \/ \E p \in Payments : SoftDelete(p)
         \/ Crash
         \/ \E h \in Handlers : LoseRequest(h)
         \/ Rest \/ UNCHANGED vars
  PROVE  NoticeStep
<1>. USE DEF serviceVars, worldVars, ghostVars
<1>1. UNCHANGED <<published, result, vouched>>
  BY DEF RequestUrl, UrlList, UrlCreate, UrlProcessing, UrlClose, Notify, IpnLookup,
         IpnFailed, IpnAck, MarkPaidRead, TickStart, TickMark, TickFail, FailRow,
         BackoffOver, UpdatePaymentStatus, SoftDelete, Crash, LoseRequest, Rest, vars
<1>2. CASE UNCHANGED outbox
  BY <1>1, <1>2, SameNotice
<1>3. CASE \/ \E t \in Ticks : TickMark(t) \/ TickFail(t)
           \/ \E r \in Rows : BackoffOver(r)
  <2>1. \A r \in Rows : outbox'[r].payment = outbox[r].payment
    BY <1>3, RowsKeepPayments DEF NoticeInv, OutboxInv, TickStep
  <2>. QED BY <1>1, <2>1, SameNotice
<1>. QED BY <1>2, <1>3
     DEF RequestUrl, UrlList, UrlCreate, UrlProcessing, UrlClose, Notify, IpnLookup,
         IpnFailed, IpnAck, MarkPaidRead, TickStart,
         UpdatePaymentStatus, SoftDelete, Crash, LoseRequest, Rest, vars

(* payments-service and the gateway implement PaidNotice: a payment is     *)
(* recorded as paid only when its payer's success or an operator stands    *)
(* behind it, and orders-service is told only of recorded payments.        *)
THEOREM GatewayImplementsPaidNotice == Spec => ImplementsPaidNotice
<1>1. Init => Notice!Init
  <2>. SUFFICES ASSUME Init PROVE Notice!Init
    OBVIOUS
  <2>1. Approved = {}
    BY DEF Init, Approved
  <2>2. {p \in Payments : Recorded(p)} = {}
    BY GatewayAssumption DEF Init, Recorded, GatewayAssumption
  <2>3. {outbox[r].payment : r \in published} = {}
    BY DEF Init
  <2>. QED BY <2>1, <2>2, <2>3 DEF Notice!Init
<1>2. NoticeInv /\ [Next]_vars => NoticeStep
  <2>. SUFFICES ASSUME NoticeInv, [Next]_vars PROVE NoticeStep
    OBVIOUS
  <2>1. ASSUME NEW h \in Handlers, HandlerStep(h) PROVE NoticeStep
    BY <2>1, GatewayAssumption, SettleNotice, QuietNotice DEF HandlerStep
  <2>2. ASSUME NEW t \in Ticks, TickStep(t) PROVE NoticeStep
    BY <2>2, GatewayAssumption, EmitNotice, QuietNotice DEF TickStep
  <2>3. CASE \/ \E h \in Handlers, p \in Payments : MarkPaidByHand(h, p)
             \/ \E p \in Payments, outcome \in {"success", "failure"} :
                  PayAtProvider(p, outcome)
    BY <2>3, GatewayAssumption, ApprovalNotice
  <2>4. CASE \/ \E h \in Handlers : RequestUrl(h)
             \/ \E h \in Handlers, p \in Payments : Notify(h, p)
             \/ \E r \in Rows : BackoffOver(r)
             \/ \E p \in Payments, st \in {"Open", "Closed"} : UpdatePaymentStatus(p, st)
             \/ \E p \in Payments : SoftDelete(p)
             \/ Crash
             \/ \E h \in Handlers : LoseRequest(h)
             \/ Rest \/ UNCHANGED vars
    BY <2>4, GatewayAssumption, QuietNotice
  <2>. QED BY <2>1, <2>2, <2>3, <2>4 DEF Next
<1>. QED BY <1>1, <1>2, NoticeInvariant, PTL
     DEF Spec, ImplementsPaidNotice, Notice!Spec, NoticeStep, RecordedSet, Told
=============================================================================
