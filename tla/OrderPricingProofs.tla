-------------------------- MODULE OrderPricingProofs --------------------------
(* Proofs about what is sold (OrderPricing) and what is searched           *)
(* (TripSearch).                                                           *)
(*                                                                         *)
(* For any number of customers, orders and requests in progress, a         *)
(* voucher's counter is the number of its uses and stays within the        *)
(* limits, an order costs what its passengers cost, and counts as paid     *)
(* only when its total has been paid or an operator marked it paid.  The   *)
(* second part shows that amounts stay natural numbers, which needs that a *)
(* sum over a passenger list exists and is one.  The third, for any        *)
(* catalogue and page size, that whoever pages through a search sees every *)
(* trip once.                                                              *)
EXTENDS OrderPricing, TripSearch, FiniteSetTheorems, WellFoundedInduction, TLAPS

-----------------------------------------------------------------------------
(* The shapes of orders and requests.                                      *)

OrderFields == {"status", "user", "unit", "rows", "coupon", "discount", "total"}

OrdersOK ==
  /\ DOMAIN order = Bookings
  /\ \A o \in Bookings : DOMAIN order[o] = OrderFields

Creating(j) == j.op = "create" /\ j.stage \in {"read", "insert"}

JobOK(j) ==
  j # NoJob =>
    /\ {"op", "stage", "order"} \subseteq DOMAIN j
    /\ j.op \in {"create", "edit", "page", "settle"}
    /\ j.order \in Bookings
    /\ j.op = "create" =>
         /\ {"seen", "row"} \subseteq DOMAIN j
         /\ j.stage \in {"read", "insert", "pay"}
         /\ DOMAIN j.row = OrderFields
         /\ j.row.user \in Buyers
         /\ j.row.status = "pending"
         /\ j.row.total = Minus(FullPrice(j.row.unit, j.row.rows), j.row.discount)
    /\ j.op = "edit" =>
         /\ j.stage \in {"delete", "write", "list", "cancel"}
         /\ j.stage \in {"delete", "write"} =>
              {"gone", "rows", "total", "discount"} \subseteq DOMAIN j
    /\ j.op = "page" => j.stage \in {"list", "create"}
    /\ j.op = "settle" => j.stage = "advance"

JobsOK ==
  /\ DOMAIN job = Jobs
  /\ \A c \in Jobs : JobOK(job[c])

ShapesOK == OrdersOK /\ JobsOK

USE DEF NoJob

(* Replacing one request, and one order.                                   *)
LEMMA SetJobOK ==
  ASSUME JobsOK, NEW c \in Jobs, NEW j, JobOK(j), job' = [job EXCEPT ![c] = j]
  PROVE  JobsOK' /\ \A d \in Jobs : job'[d] = IF d = c THEN j ELSE job[d]
  BY DEF JobsOK, JobOK

LEMMA NoJobOK == JobOK(NoJob)
  BY DEF JobOK

LEMMA EndJobOK ==
  ASSUME JobsOK, NEW c \in Jobs, EndJob(c)
  PROVE  JobsOK' /\ \A d \in Jobs : job'[d] = IF d = c THEN NoJob ELSE job[d]
  BY SetJobOK, NoJobOK DEF EndJob

-----------------------------------------------------------------------------
(* The voucher.                                                            *)

(* What a request has read is covered by the largest limit there was.      *)
Covered(limit, largest) == largest # NoLimit => limit # NoLimit /\ limit <= largest

LedgerInv ==
  /\ VoucherShape(voucher)
  /\ granted.limit \in Limits /\ granted.perUser \in Limits
  /\ Covered(voucher.limit, granted.limit) /\ Covered(voucher.perUser, granted.perUser)
  /\ voucher.state = "none" => usages = {}
  /\ admin # NoLimit =>
       /\ "used" \notin DOMAIN admin
       /\ "state" \in DOMAIN admin => admin.state = "deleted"
       /\ "limit" \in DOMAIN admin => admin.limit \in Limits
       /\ "perUser" \in DOMAIN admin => admin.perUser \in Limits
  /\ IsFiniteSet(usages)
  /\ CounterMatchesUsages
  /\ WithinLimits

(* A subset of the uses holds no more uses of a customer, one more use one *)
(* more of its customer.                                                   *)
LEMMA FewerUses ==
  ASSUME IsFiniteSet(usages), usages' \subseteq usages, NEW u \in Buyers
  PROVE  UsesOf(u) \in Nat /\ UsesOf(u)' \in Nat /\ UsesOf(u)' <= UsesOf(u)
<1>. DEFINE A == {x \in usages : x.user = u}
            B == {x \in usages' : x.user = u}
<1>1. IsFiniteSet(A) /\ B \subseteq A
  BY FS_Subset
<1>2. IsFiniteSet(B) /\ Cardinality(B) <= Cardinality(A)
  BY <1>1, FS_Subset
<1>3. Cardinality(A) \in Nat /\ Cardinality(B) \in Nat
  BY <1>1, <1>2, FS_CardinalityType
<1>. QED BY <1>2, <1>3 DEF UsesOf

LEMMA OneMoreUse ==
  ASSUME IsFiniteSet(usages), NEW x, usages' = usages \cup {x}, NEW u \in Buyers
  PROVE  /\ UsesOf(u) \in Nat /\ UsesOf(u)' \in Nat
         /\ UsesOf(u)' <= UsesOf(u) + 1
         /\ x.user # u => UsesOf(u)' = UsesOf(u)
<1>. DEFINE A == {y \in usages : y.user = u}
            B == {y \in usages' : y.user = u}
<1>1. IsFiniteSet(A)
  BY FS_Subset
<1>2. Cardinality(A) \in Nat
  BY <1>1, FS_CardinalityType
<1>3. CASE x.user # u
  <2>1. B = A
    BY <1>3
  <2>. QED BY <1>2, <2>1 DEF UsesOf
<1>4. CASE x.user = u
  <2>1. B = A \cup {x}
    BY <1>4
  <2>2. IsFiniteSet(B) /\ (Cardinality(B) = Cardinality(A) \/ Cardinality(B) = Cardinality(A) + 1)
    BY <1>1, <2>1, FS_AddElement
  <2>. QED BY <1>2, <1>4, <2>2 DEF UsesOf
<1>. QED BY <1>3, <1>4

(* Claims: the use is new, and both limits that were read allow one more.  *)
LEMMA ClaimKeeps ==
  ASSUME LedgerInv, NEW o, NEW u \in Buyers, NEW seen, ClaimUse(o, u), Claimable(u, seen),
         \A x \in usages : x.order # o,
         seen.limit \in Limits, seen.perUser \in Limits,
         Covered(seen.limit, granted.limit), Covered(seen.perUser, granted.perUser)
  PROVE  LedgerInv'
<1>. DEFINE x == [order |-> o, user |-> u]
<1>. USE DEF LedgerInv, ClaimUse, Claimable, Below, Limits
<1>1. IsFiniteSet(usages)' /\ Cardinality(usages)' = Cardinality(usages) + 1
  <2>1. x \notin usages
    OBVIOUS
  <2>. QED BY <2>1, FS_AddElement
<1>2. VoucherShape(voucher)' /\ voucher'.used = voucher.used + 1
      /\ voucher'.limit = voucher.limit /\ voucher'.perUser = voucher.perUser
      /\ voucher'.state = "live"
  BY DEF VoucherShape, CanClaim
<1>3. CounterMatchesUsages'
  BY <1>1, <1>2 DEF CounterMatchesUsages
<1>4. AtMost(voucher.used, granted.limit)'
  BY <1>2 DEF AtMost, Covered, VoucherShape
<1>5. ASSUME NEW w \in Buyers PROVE AtMost(UsesOf(w), granted.perUser)'
  <2>1. AtMost(UsesOf(w), granted.perUser)
    BY DEF WithinLimits
  <2>2. /\ UsesOf(w) \in Nat /\ UsesOf(w)' \in Nat /\ UsesOf(w)' <= UsesOf(w) + 1
        /\ u # w => UsesOf(w)' = UsesOf(w)
    <3>1. x.user = u /\ usages' = usages \cup {x} /\ IsFiniteSet(usages)
      OBVIOUS
    <3>. HIDE DEF x
    <3>. QED BY <3>1, OneMoreUse, Zenon
  <2>3. CASE w # u
    BY <2>1, <2>2, <2>3 DEF AtMost
  <2>4. CASE w = u
    <3>1. seen.perUser # NoLimit => UsesOf(w) < seen.perUser
      BY <2>4
    <3>. QED BY <2>2, <3>1 DEF AtMost, Covered
  <2>. QED BY <2>3, <2>4
<1>6. WithinLimits'
  BY <1>4, <1>5 DEF WithinLimits
<1>. QED BY <1>1, <1>2, <1>3, <1>6

LEMMA ReturnKeeps ==
  ASSUME LedgerInv, NEW o, ReturnUse(o)
  PROVE  LedgerInv' /\ usages' \subseteq usages
<1>. DEFINE gone == {x \in usages : x.order = o}
<1>. USE DEF LedgerInv, ReturnUse
<1>1. usages' = usages \ gone /\ UNCHANGED <<admin, granted>>
  OBVIOUS
<1>2. IsFiniteSet(usages')
  BY <1>1, FS_Subset
<1>3. VoucherShape(voucher)' /\ voucher'.used = Cardinality(usages') /\ voucher'.used <= voucher.used
      /\ voucher'.limit = voucher.limit /\ voucher'.perUser = voucher.perUser
      /\ voucher'.state = voucher.state
  <2>1. CASE gone = {}
    <3>1. usages' = usages /\ voucher' = voucher
      BY <1>1, <2>1
    <3>2. VoucherShape(voucher) /\ voucher.used = Cardinality(usages)
      BY DEF CounterMatchesUsages
    <3>3. voucher.used \in Nat
      BY <3>2 DEF VoucherShape
    <3>. HIDE DEF LedgerInv, ReturnUse, gone
    <3>. QED BY <3>1, <3>2, <3>3 DEF VoucherShape
  <2>2. CASE gone # {}
    <3>1. PICK x \in usages : gone = {x}
      <4>1. PICK x \in usages : x.order = o
        BY <2>2
      <4>2. \A y \in usages : y.order = o => y = x
        BY <4>1 DEF CounterMatchesUsages
      <4>3. x \in gone /\ \A y \in gone : y = x
        BY <4>1, <4>2
      <4>. HIDE DEF gone
      <4>. QED BY <4>3, Zenon
    <3>2. Cardinality(usages') = Cardinality(usages) - 1
      BY <1>1, <3>1, FS_RemoveElement
    <3>3. Cardinality(usages') \in Nat
      BY <1>2, FS_CardinalityType
    <3>4. voucher.used > 0 /\ voucher' = [voucher EXCEPT !.used = @ - 1]
      BY <2>2, <3>2, <3>3 DEF CounterMatchesUsages, VoucherShape
    <3>5. voucher'.used = voucher.used - 1 /\ DOMAIN voucher' = DOMAIN voucher
          /\ voucher'.limit = voucher.limit /\ voucher'.perUser = voucher.perUser
          /\ voucher'.state = voucher.state
      BY <3>4 DEF VoucherShape
    <3>. QED BY <3>2, <3>3, <3>5 DEF CounterMatchesUsages, VoucherShape
  <2>. QED BY <2>1, <2>2
<1>4. CounterMatchesUsages'
  BY <1>1, <1>3 DEF CounterMatchesUsages
<1>5. WithinLimits'
  <2>1. AtMost(voucher.used, granted.limit)'
    BY <1>1, <1>3 DEF WithinLimits, AtMost, VoucherShape, Limits
  <2>2. ASSUME NEW u \in Buyers PROVE AtMost(UsesOf(u), granted.perUser)'
    <3>1. UsesOf(u) \in Nat /\ UsesOf(u)' \in Nat /\ UsesOf(u)' <= UsesOf(u)
      BY <1>1, FewerUses
    <3>. QED BY <1>1, <3>1 DEF WithinLimits, AtMost, Limits
  <2>. QED BY <2>1, <2>2 DEF WithinLimits
<1>. QED BY <1>1, <1>2, <1>3, <1>4, <1>5

(* The largest limits only grow.                                           *)
GrantsGrow ==
  \A l \in Limits :
    /\ Covered(l, granted.limit) => Covered(l, granted.limit)'
    /\ Covered(l, granted.perUser) => Covered(l, granted.perUser)'

LEMMA LargerCovers ==
  ASSUME NEW a \in Limits, NEW b \in Limits
  PROVE  /\ Larger(a, b) \in Limits
         /\ Covered(b, Larger(a, b))
         /\ \A l \in Limits : Covered(l, a) => Covered(l, Larger(a, b))
         /\ \A n \in Nat : AtMost(n, a) => AtMost(n, Larger(a, b))
  BY DEF Larger, Limits, Covered, AtMost

LEMMA WriteKeeps ==
  ASSUME LedgerInv, NEW row, VoucherShape(row), row.used = voucher.used, WriteVoucher(row),
         row.state = "none" => usages = {},
         UNCHANGED usages, admin' = admin \/ admin' = NoLimit
  PROVE  LedgerInv' /\ GrantsGrow
<1>1. /\ granted.limit \in Limits /\ granted.perUser \in Limits
      /\ row.limit \in Limits /\ row.perUser \in Limits /\ row.used \in Nat
  BY DEF LedgerInv, VoucherShape
<1>2. /\ voucher' = row
      /\ granted'.limit = Larger(granted.limit, row.limit)
      /\ granted'.perUser = Larger(granted.perUser, row.perUser)
  BY DEF WriteVoucher
<1>3. /\ granted.limit' \in Limits /\ granted.perUser' \in Limits
      /\ Covered(voucher.limit, granted.limit)' /\ Covered(voucher.perUser, granted.perUser)'
  BY <1>1, <1>2, LargerCovers
<1>4. CounterMatchesUsages'
  BY <1>2 DEF LedgerInv, CounterMatchesUsages
<1>5. AtMost(voucher.used, granted.limit)'
  BY <1>1, <1>2, LargerCovers DEF LedgerInv, WithinLimits
<1>6. ASSUME NEW u \in Buyers PROVE AtMost(UsesOf(u), granted.perUser)'
  <2>1. UsesOf(u) \in Nat /\ UsesOf(u)' = UsesOf(u)
    <3>1. UsesOf(u) \in Nat
      BY FS_Subset, FS_CardinalityType DEF LedgerInv, UsesOf
    <3>. QED BY <3>1 DEF UsesOf
  <2>2. AtMost(UsesOf(u), granted.perUser)
    BY DEF LedgerInv, WithinLimits
  <2>. QED BY <1>1, <1>2, <2>1, <2>2, LargerCovers
<1>7. WithinLimits'
  BY <1>5, <1>6 DEF WithinLimits
<1>8. GrantsGrow
  BY <1>1, <1>2, LargerCovers DEF GrantsGrow
<1>. QED BY <1>2, <1>3, <1>4, <1>7, <1>8 DEF LedgerInv

(* Operators and dates: the counter goes with the row it is on.            *)
LEMMA OperateKeeps ==
  ASSUME LedgerInv, Operate
  PROVE  LedgerInv' /\ GrantsGrow /\ UNCHANGED usages
<1>1. CASE AdminCreate
  <2>1. PICK row \in VoucherRows : row.state = "live" /\ WriteVoucher(row)
    BY <1>1 DEF AdminCreate
  <2>2. VoucherShape(row) /\ row.used = 0
    BY LedgerAssumption
  <2>3. voucher.used = 0
    BY <1>1, FS_EmptySet DEF AdminCreate, LedgerInv, CounterMatchesUsages
  <2>4. UNCHANGED <<usages, admin>>
    BY <1>1 DEF AdminCreate
  <2>. QED BY <2>1, <2>2, <2>3, <2>4, WriteKeeps
<1>2. CASE CheckVoucher
  <2>1. PICK columns \in VoucherEdits \cup {[state |-> "deleted", active |-> FALSE]} :
          admin' = columns
    BY <1>2 DEF CheckVoucher
  <2>2. UNCHANGED <<voucher, usages, granted>>
    BY <1>2 DEF CheckVoucher
  <2>3. /\ "used" \notin DOMAIN columns
        /\ "state" \in DOMAIN columns => columns.state = "deleted"
        /\ "limit" \in DOMAIN columns => columns.limit \in Limits
        /\ "perUser" \in DOMAIN columns => columns.perUser \in Limits
    BY LedgerAssumption
  <2>. QED BY <2>1, <2>2, <2>3 DEF LedgerInv, GrantsGrow, CounterMatchesUsages, WithinLimits, UsesOf
<1>3. CASE UpdateVoucher
  <2>. DEFINE row == Overwrite(voucher, admin)
  <2>1. WriteVoucher(row) /\ UNCHANGED usages /\ admin' = NoLimit /\ admin # NoLimit
    BY <1>3 DEF UpdateVoucher
  <2>2. VoucherShape(row) /\ row.used = voucher.used
    BY <2>1 DEF LedgerInv, VoucherShape, Overwrite
  <2>3. row.state = "none" => usages = {}
    BY <2>1 DEF LedgerInv, VoucherShape, Overwrite
  <2>. HIDE DEF row
  <2>. QED BY <2>1, <2>2, <2>3, WriteKeeps
<1>4. CASE DatesPass
  <2>1. UNCHANGED <<usages, admin, granted>>
    BY <1>4 DEF DatesPass
  <2>2. VoucherShape(voucher)' /\ voucher'.used = voucher.used /\ voucher'.state = voucher.state
        /\ voucher'.limit = voucher.limit /\ voucher'.perUser = voucher.perUser
    BY <1>4 DEF DatesPass, LedgerInv, VoucherShape
  <2>. QED BY <2>1, <2>2 DEF LedgerInv, GrantsGrow, CounterMatchesUsages, WithinLimits, UsesOf
<1>. QED BY <1>1, <1>2, <1>3, <1>4 DEF Operate

-----------------------------------------------------------------------------
(* Orders, requests and payments.                                          *)

(* A use belongs to an order that was created.                             *)
UsagesKnown ==
  \A x \in usages : x.order \in Bookings /\ order[x.order].status # "none"

(* What a request in progress may rely on: the order it creates is not     *)
(* there yet and the limits it has read were granted; the order it works   *)
(* on is there; an edit writes what its passengers cost, and has deleted   *)
(* all rows unless it was overtaken; a settlement has seen the money.      *)
JobInv(j) ==
  /\ Creating(j) =>
       /\ order[j.order].status = "none"
       /\ j.seen.limit \in Limits /\ Covered(j.seen.limit, granted.limit)
       /\ j.seen.perUser \in Limits /\ Covered(j.seen.perUser, granted.perUser)
  /\ j # NoJob /\ ~Creating(j) => order[j.order].status # "none"
  /\ j.op = "edit" /\ j.stage \in {"delete", "write"} =>
       /\ j.total = Minus(FullPrice(order[j.order].unit, j.rows), j.discount)
       /\ j.stage = "write" /\ j.order \notin overtaken => j.gone = order[j.order].rows
  /\ j.op = "settle" /\ j.order \notin overtaken =>
       [order |-> j.order, amount |-> order[j.order].total] \in money

JobsInv == \A c \in Jobs : JobInv(job[c])

(* Nobody else works on an order that is being created.                    *)
Exclusive ==
  \A c, d \in Jobs :
    c # d /\ Creating(job[c]) /\ job[d] # NoJob => job[d].order # job[c].order

IsSeq(s) == \E S : s \in Seq(S)

PaymentOK(row) ==
  /\ {"order", "amount", "status"} \subseteq DOMAIN row
  /\ row.order \in Bookings
  /\ row.status = "paid" => [order |-> row.order, amount |-> row.amount] \in money

PaymentsOK == IsSeq(payment) /\ \A n \in DOMAIN payment : PaymentOK(payment[n])

OrdersInv == AmountMatchesPassengers /\ PaidCoversTotal

PricingInv ==
  /\ ShapesOK
  /\ LedgerInv
  /\ UsagesKnown
  /\ JobsInv
  /\ Exclusive
  /\ PaymentsOK
  /\ OrdersInv

LEMMA AppendRow ==
  ASSUME NEW s, IsSeq(s), NEW row
  PROVE  /\ IsSeq(Append(s, row))
         /\ \A n \in DOMAIN Append(s, row) :
              \/ Append(s, row)[n] = row
              \/ n \in DOMAIN s /\ Append(s, row)[n] = s[n]
<1>1. PICK R : s \in Seq(R)
  BY DEF IsSeq
<1>. DEFINE S == R \cup {row}
            t == Append(s, row)
<1>2. s \in Seq(S) /\ row \in S
  <2>1. s \in [1 .. Len(s) -> R] /\ Len(s) \in Nat
    BY <1>1
  <2>2. s \in [1 .. Len(s) -> S]
    BY <2>1
  <2>. QED BY <2>1, <2>2
<1>3. /\ t \in Seq(S) /\ Len(t) = Len(s) + 1
      /\ \A n \in 1 .. Len(s) : t[n] = s[n]
      /\ t[Len(s) + 1] = row
  BY <1>2
<1>4. DOMAIN t = 1 .. Len(s) + 1 /\ DOMAIN s = 1 .. Len(s) /\ Len(s) \in Nat
  BY <1>2, <1>3
<1>. QED BY <1>3, <1>4 DEF IsSeq

LEMMA RewriteRows ==
  ASSUME NEW s, IsSeq(s), NEW S, NEW t \in [DOMAIN s -> S]
  PROVE  IsSeq(t)
<1>1. DOMAIN s = 1 .. Len(s) /\ Len(s) \in Nat
  BY DEF IsSeq
<1>2. t \in [1 .. Len(s) -> S]
  BY <1>1
<1>3. t \in Seq(S)
  BY <1>1, <1>2
<1>. QED BY <1>3 DEF IsSeq

-----------------------------------------------------------------------------
(* A step of one request that changes nothing else.                        *)
LEMMA JobStep ==
  ASSUME PricingInv, NEW c \in Jobs, NEW j, JobOK(j), JobInv(j),
         job' = [job EXCEPT ![c] = j],
         UNCHANGED <<voucher, usages, admin, granted, order, payment, money, overtaken, byHand>>,
         \/ j = NoJob
         \/ j # NoJob /\ ~Creating(j)
         \/ Creating(j) /\ Creating(job[c]) /\ j.order = job[c].order
         \/ Creating(j) /\ \A d \in Jobs : job[d] # NoJob => job[d].order # j.order
  PROVE  PricingInv'
<1>1. JobsOK' /\ \A d \in Jobs : job'[d] = IF d = c THEN j ELSE job[d]
  <2>1. JobsOK
    BY DEF PricingInv, ShapesOK
  <2>. QED BY <2>1 DEF JobsOK, JobOK
<1>2. ShapesOK'
  BY <1>1 DEF PricingInv, ShapesOK, OrdersOK
<1>3. LedgerInv'
  BY DEF PricingInv, LedgerInv, CounterMatchesUsages, WithinLimits, UsesOf
<1>4. UsagesKnown' /\ PaymentsOK' /\ OrdersInv'
  BY DEF PricingInv, UsagesKnown, PaymentsOK, PaymentOK, OrdersInv, AmountMatchesPassengers,
         PaidCoversTotal
<1>5. ASSUME NEW d \in Jobs PROVE JobInv(job[d])'
  BY <1>1 DEF PricingInv, JobsInv, JobInv
<1>6. Exclusive'
  <2>1. ASSUME NEW k, NEW d \in Jobs, k = job[d], Creating(k) PROVE order[k.order].status = "none"
    BY <2>1 DEF PricingInv, JobsInv, JobInv
  <2>2. j # NoJob /\ ~Creating(j) => order[j.order].status # "none"
    BY DEF JobInv
  <2>3. ~Creating(NoJob)
    BY DEF Creating
  <2>. QED BY <1>1, <2>1, <2>2, <2>3 DEF PricingInv, Exclusive
<1>. QED BY <1>2, <1>3, <1>4, <1>5, <1>6 DEF PricingInv, JobsInv

LEMMA JobFacts ==
  ASSUME PricingInv, NEW c \in Jobs
  PROVE  JobOK(job[c]) /\ JobInv(job[c]) /\ c \in DOMAIN job
  BY DEF PricingInv, ShapesOK, JobsOK, JobsInv

LEMMA NoJobInv == JobInv(NoJob)
  BY DEF JobInv, Creating

LEMMA EndStep ==
  ASSUME PricingInv, NEW c \in Jobs, EndJob(c),
         UNCHANGED <<voucher, usages, admin, granted, order, payment, money, overtaken, byHand>>
  PROVE  PricingInv'
  BY JobStep, NoJobOK, NoJobInv DEF EndJob

(* create: the order is a new one, and the limits are the current ones.    *)
LEMMA StartOrderKeeps ==
  ASSUME PricingInv, NEW c \in Jobs, StartOrder(c)
  PROVE  PricingInv'
<1>1. PICK u \in Buyers, unit \in UnitPrices, mix \in Mixes, coupon \in BOOLEAN :
        LET o == CHOOSE o \in Fresh : TRUE
            rows == RowsOf(mix, <<c, requests["create"]>>)
            price == Priced(unit, rows, coupon, u)
        IN  /\ Len(mix) <= Quantity
            /\ price.ok
            /\ job' = [job EXCEPT ![c] =
                 [op |-> "create", stage |-> IF coupon THEN "read" ELSE "insert", order |-> o,
                  seen |-> LimitsRead,
                  row |-> [status |-> "pending", user |-> u, unit |-> unit, rows |-> rows,
                           coupon |-> coupon, discount |-> price.discount,
                           total |-> price.total]]]
  BY Zenon DEF StartOrder
<1>. DEFINE o == CHOOSE o \in Fresh : TRUE
            rows == RowsOf(mix, <<c, requests["create"]>>)
            price == Priced(unit, rows, coupon, u)
            row == [status |-> "pending", user |-> u, unit |-> unit, rows |-> rows,
                    coupon |-> coupon, discount |-> price.discount, total |-> price.total]
            j == [op |-> "create", stage |-> IF coupon THEN "read" ELSE "insert", order |-> o,
                  seen |-> LimitsRead, row |-> row]
<1>2. o \in Bookings /\ order[o].status = "none"
      /\ \A d \in Jobs : job[d] # NoJob => job[d].order # o
  <2>1. o \in Fresh
    BY DEF StartOrder
  <2>. HIDE DEF o
  <2>. QED BY <2>1 DEF Fresh
<1>3. price.total = Minus(FullPrice(unit, rows), price.discount)
  BY DEF Priced
<1>4. /\ voucher.limit \in Limits /\ Covered(voucher.limit, granted.limit)
      /\ voucher.perUser \in Limits /\ Covered(voucher.perUser, granted.perUser)
  BY DEF PricingInv, LedgerInv, VoucherShape
<1>. HIDE DEF o, rows, price
<1>5. JobOK(j)
  BY <1>2, <1>3 DEF JobOK, OrderFields
<1>6. JobInv(j) /\ Creating(j)
  BY <1>2, <1>4 DEF JobInv, Creating, LimitsRead
<1>7. UNCHANGED <<voucher, usages, admin, granted, order, payment, money, overtaken, byHand>>
  BY DEF StartOrder, lvars
<1>8. job' = [job EXCEPT ![c] = j]
  BY <1>1 DEF o, rows, price
<1>9. j.order = o
  OBVIOUS
<1>. HIDE DEF j
<1>. QED BY <1>2, <1>5, <1>6, <1>7, <1>8, <1>9, JobStep

LEMMA ReadLimitsKeeps ==
  ASSUME PricingInv, NEW c \in Jobs, ReadLimits(c)
  PROVE  PricingInv'
<1>1. UNCHANGED <<voucher, usages, admin, granted, order, payment, money, overtaken, byHand>>
  BY DEF ReadLimits, lvars
<1>2. CASE ~CanClaim
  BY <1>1, <1>2, EndStep DEF ReadLimits
<1>3. CASE CanClaim
  <2>. DEFINE j == [job[c] EXCEPT !.stage = "insert", !.seen = LimitsRead]
  <2>1. job' = [job EXCEPT ![c] = j]
    BY <1>3, JobFacts DEF ReadLimits
  <2>2. job[c].op = "create" /\ job[c].stage = "read" /\ job[c] # NoJob
    BY DEF ReadLimits, In
  <2>3. JobOK(job[c]) /\ JobInv(job[c])
    BY JobFacts
  <2>4. /\ voucher.limit \in Limits /\ Covered(voucher.limit, granted.limit)
        /\ voucher.perUser \in Limits /\ Covered(voucher.perUser, granted.perUser)
    BY DEF PricingInv, LedgerInv, VoucherShape
  <2>5. /\ DOMAIN j = DOMAIN job[c] /\ j.order = job[c].order /\ j.op = "create"
        /\ j.stage = "insert" /\ j.row = job[c].row /\ j.seen = LimitsRead
        /\ {"op", "stage", "order", "seen", "row"} \subseteq DOMAIN j /\ j # NoJob
    BY <2>2, <2>3 DEF JobOK
  <2>. HIDE DEF j
  <2>6. JobOK(j)
    BY <2>2, <2>3, <2>5 DEF JobOK
  <2>7. JobInv(j) /\ Creating(j) /\ Creating(job[c])
    BY <2>2, <2>3, <2>4, <2>5 DEF JobInv, Creating, LimitsRead
  <2>. QED BY <1>1, <2>1, <2>5, <2>6, <2>7, JobStep
<1>. QED BY <1>2, <1>3

LEMMA StartEditKeeps ==
  ASSUME PricingInv, NEW c \in Jobs, StartEdit(c)
  PROVE  PricingInv'
<1>1. PICK o \in Bookings, mix \in Mixes :
        LET rows == RowsOf(mix, <<c, requests["edit"]>>)
            price == Priced(order[o].unit, rows, order[o].coupon, order[o].user)
        IN  /\ order[o].status = "pending"
            /\ job' = [job EXCEPT ![c] =
                 [op |-> "edit", stage |-> "delete", order |-> o, rows |-> rows, gone |-> {},
                  discount |-> price.discount, total |-> price.total,
                  changed |-> price.total # order[o].total]]
  BY DEF StartEdit
<1>. DEFINE rows == RowsOf(mix, <<c, requests["edit"]>>)
            price == Priced(order[o].unit, rows, order[o].coupon, order[o].user)
            j == [op |-> "edit", stage |-> "delete", order |-> o, rows |-> rows, gone |-> {},
                  discount |-> price.discount, total |-> price.total,
                  changed |-> price.total # order[o].total]
<1>2. price.total = Minus(FullPrice(order[o].unit, rows), price.discount)
  BY DEF Priced
<1>3. order[o].status = "pending" /\ job' = [job EXCEPT ![c] = j]
  BY <1>1
<1>. HIDE DEF rows, price
<1>4. JobOK(j) /\ j # NoJob /\ ~Creating(j)
  BY DEF JobOK, Creating
<1>5. JobInv(j)
  BY <1>2, <1>3 DEF JobInv, Creating
<1>6. UNCHANGED <<voucher, usages, admin, granted, order, payment, money, overtaken, byHand>>
  BY DEF StartEdit, lvars
<1>. HIDE DEF j
<1>. QED BY <1>3, <1>4, <1>5, <1>6, JobStep

LEMMA DeleteRowsKeeps ==
  ASSUME PricingInv, NEW c \in Jobs, DeleteRows(c)
  PROVE  PricingInv'
<1>. DEFINE j == [job[c] EXCEPT !.gone = order[job[c].order].rows, !.stage = "write"]
<1>1. job' = [job EXCEPT ![c] = j]
  BY JobFacts DEF DeleteRows
<1>2. job[c].op = "edit" /\ job[c].stage = "delete" /\ job[c] # NoJob
  BY DEF DeleteRows, In
<1>3. JobOK(job[c]) /\ JobInv(job[c])
  BY JobFacts
<1>4. /\ DOMAIN j = DOMAIN job[c] /\ j.order = job[c].order /\ j.op = "edit"
      /\ j.stage = "write" /\ j.gone = order[j.order].rows /\ j.total = job[c].total
      /\ j.rows = job[c].rows /\ j.discount = job[c].discount
      /\ {"op", "stage", "order"} \subseteq DOMAIN j /\ j # NoJob
  BY <1>2, <1>3 DEF JobOK
<1>. HIDE DEF j
<1>5. JobOK(j) /\ ~Creating(j)
  BY <1>2, <1>3, <1>4 DEF JobOK, Creating
<1>6. JobInv(j)
  BY <1>2, <1>3, <1>4 DEF JobInv, Creating
<1>7. UNCHANGED <<voucher, usages, admin, granted, order, payment, money, overtaken, byHand>>
  BY DEF DeleteRows, lvars
<1>. QED BY <1>1, <1>4, <1>5, <1>6, <1>7, JobStep

LEMMA ListPaymentsKeeps ==
  ASSUME PricingInv, NEW c \in Jobs, ListPayments(c)
  PROVE  PricingInv'
<1>1. UNCHANGED <<voucher, usages, admin, granted, order, payment, money, overtaken, byHand>>
  BY DEF ListPayments, lvars
<1>2. CASE EndJob(c)
  BY <1>1, <1>2, EndStep
<1>3. CASE ~EndJob(c)
  <2>. DEFINE j == [op |-> "edit", stage |-> "cancel", order |-> job[c].order,
                    open |-> OpenPayments(job[c].order)]
  <2>1. job' = [job EXCEPT ![c] = j]
    BY <1>3 DEF ListPayments
  <2>2. job[c].op = "edit" /\ job[c] # NoJob /\ JobOK(job[c]) /\ JobInv(job[c])
    BY JobFacts DEF ListPayments, In
  <2>3. JobOK(j) /\ j # NoJob /\ ~Creating(j)
    BY <2>2 DEF JobOK, Creating
  <2>4. JobInv(j)
    BY <2>2 DEF JobInv, Creating
  <2>. HIDE DEF j
  <2>. QED BY <1>1, <2>1, <2>3, <2>4, JobStep
<1>. QED BY <1>2, <1>3

LEMMA StartPageKeeps ==
  ASSUME PricingInv, NEW c \in Jobs, StartPage(c)
  PROVE  PricingInv'
<1>1. PICK o \in Bookings :
        /\ order[o].status = "pending"
        /\ job' = [job EXCEPT ![c] =
             [op |-> "page", stage |-> "list", order |-> o, amount |-> order[o].total]]
  BY DEF StartPage
<1>. DEFINE j == [op |-> "page", stage |-> "list", order |-> o, amount |-> order[o].total]
<1>2. job' = [job EXCEPT ![c] = j]
  BY <1>1
<1>3. JobOK(j) /\ j # NoJob /\ ~Creating(j)
  BY DEF JobOK, Creating
<1>4. JobInv(j)
  BY <1>1 DEF JobInv, Creating
<1>5. UNCHANGED <<voucher, usages, admin, granted, order, payment, money, overtaken, byHand>>
  BY DEF StartPage, lvars
<1>. HIDE DEF j
<1>. QED BY <1>2, <1>3, <1>4, <1>5, JobStep

LEMMA ListForPageKeeps ==
  ASSUME PricingInv, NEW c \in Jobs, ListForPage(c)
  PROVE  PricingInv'
<1>1. UNCHANGED <<voucher, usages, admin, granted, order, payment, money, overtaken, byHand>>
  BY DEF ListForPage, lvars
<1>2. CASE EndJob(c)
  BY <1>1, <1>2, EndStep
<1>3. CASE ~EndJob(c)
  <2>. DEFINE j == [op |-> "page", stage |-> "create", order |-> job[c].order,
                    amount |-> job[c].amount, open |-> OpenPayments(job[c].order)]
  <2>1. job' = [job EXCEPT ![c] = j]
    BY <1>3 DEF ListForPage
  <2>2. job[c].op = "page" /\ job[c] # NoJob /\ JobOK(job[c]) /\ JobInv(job[c])
    BY JobFacts DEF ListForPage, In
  <2>3. JobOK(j) /\ j # NoJob /\ ~Creating(j)
    BY <2>2 DEF JobOK, Creating
  <2>4. JobInv(j)
    BY <2>2 DEF JobInv, Creating
  <2>. HIDE DEF j
  <2>. QED BY <1>1, <2>1, <2>3, <2>4, JobStep
<1>. QED BY <1>2, <1>3

(* A settlement starts from a payment of the order's total that was paid.  *)
LEMMA StartSettlementKeeps ==
  ASSUME PricingInv, NEW c \in Jobs, StartSettlement(c)
  PROVE  PricingInv'
<1>1. PICK n \in DOMAIN payment :
        /\ payment[n].status = "paid" /\ order[payment[n].order].status = "pending"
        /\ Covers(n, payment[n].order)
        /\ job' = [job EXCEPT ![c] =
             [op |-> "settle", stage |-> "advance", order |-> payment[n].order]]
  BY DEF StartSettlement
<1>. DEFINE j == [op |-> "settle", stage |-> "advance", order |-> payment[n].order]
<1>2. PaymentOK(payment[n])
  BY DEF PricingInv, PaymentsOK
<1>3. job' = [job EXCEPT ![c] = j]
  BY <1>1
<1>4. JobOK(j) /\ j # NoJob /\ ~Creating(j)
  BY <1>2 DEF JobOK, Creating, PaymentOK
<1>5. JobInv(j)
  BY <1>1, <1>2 DEF JobInv, Creating, PaymentOK, Covers
<1>6. UNCHANGED <<voucher, usages, admin, granted, order, payment, money, overtaken, byHand>>
  BY DEF StartSettlement, lvars
<1>. HIDE DEF j
<1>. QED BY <1>3, <1>4, <1>5, <1>6, JobStep

-----------------------------------------------------------------------------
(* Steps that change payments only, and end a request.                     *)
LEMMA PaymentStep ==
  ASSUME PricingInv, NEW c \in Jobs, EndJob(c), PaymentsOK',
         UNCHANGED <<voucher, usages, admin, granted, order, money, overtaken, byHand>>
  PROVE  PricingInv'
<1>1. JobsOK' /\ \A d \in Jobs : job'[d] = IF d = c THEN NoJob ELSE job[d]
  <2>1. JobsOK
    BY DEF PricingInv, ShapesOK
  <2>. QED BY <2>1, EndJobOK
<1>2. ShapesOK'
  BY <1>1 DEF PricingInv, ShapesOK, OrdersOK
<1>3. LedgerInv'
  BY DEF PricingInv, LedgerInv, CounterMatchesUsages, WithinLimits, UsesOf
<1>4. UsagesKnown' /\ OrdersInv'
  BY DEF PricingInv, UsagesKnown, OrdersInv, AmountMatchesPassengers, PaidCoversTotal
<1>5. ASSUME NEW d \in Jobs PROVE JobInv(job[d])'
  <2>1. JobInv(job[d]) /\ JobInv(NoJob)
    BY NoJobInv DEF PricingInv, JobsInv
  <2>. QED BY <1>1, <2>1 DEF JobInv
<1>6. Exclusive'
  BY <1>1 DEF PricingInv, Exclusive, Creating
<1>. QED BY <1>2, <1>3, <1>4, <1>5, <1>6 DEF PricingInv, JobsInv

LEMMA ClosedOK ==
  ASSUME PaymentsOK, NEW rows
  PROVE  IsSeq(Closed(rows)) /\ \A n \in DOMAIN Closed(rows) : PaymentOK(Closed(rows)[n])
<1>. DEFINE t == Closed(rows)
            S == {t[n] : n \in DOMAIN payment}
<1>1. t \in [DOMAIN payment -> S]
  BY DEF Closed
<1>2. IsSeq(t)
  BY <1>1, RewriteRows DEF PaymentsOK
<1>3. ASSUME NEW n \in DOMAIN payment PROVE PaymentOK(t[n])
  <2>1. PaymentOK(payment[n])
    BY DEF PaymentsOK
  <2>2. t[n] = payment[n] \/ t[n] = [payment[n] EXCEPT !.status = "closed"]
    BY DEF Closed
  <2>. HIDE DEF t
  <2>. QED BY <2>1, <2>2 DEF PaymentOK
<1>. QED BY <1>1, <1>2, <1>3

(* A row that is open may be appended.                                     *)
LEMMA AppendOK ==
  ASSUME NEW s, IsSeq(s), \A n \in DOMAIN s : PaymentOK(s[n]),
         NEW o \in Bookings, NEW amount,
         payment' = Append(s, [order |-> o, amount |-> amount, status |-> "open"]),
         UNCHANGED money
  PROVE  PaymentsOK'
<1>. DEFINE row == [order |-> o, amount |-> amount, status |-> "open"]
<1>1. PaymentOK(row)
  BY DEF PaymentOK
<1>. HIDE DEF row
<1>2. /\ IsSeq(Append(s, row))
      /\ \A n \in DOMAIN Append(s, row) :
           Append(s, row)[n] = row \/ (n \in DOMAIN s /\ Append(s, row)[n] = s[n])
  BY AppendRow, Zenon
<1>3. payment' = Append(s, row)
  BY DEF row
<1>4. \A n \in DOMAIN payment' : payment'[n] = row \/ (n \in DOMAIN s /\ payment'[n] = s[n])
  BY <1>2, <1>3, Zenon
<1>5. \A n \in DOMAIN payment' : PaymentOK(payment'[n])
  BY <1>1, <1>4
<1>. QED BY <1>2, <1>3, <1>5 DEF PaymentsOK, PaymentOK

LEMMA CancelPaymentsKeeps ==
  ASSUME PricingInv, NEW c \in Jobs, CancelPayments(c)
  PROVE  PricingInv'
<1>1. /\ payment' = Closed(job[c].open) /\ EndJob(c)
      /\ UNCHANGED <<voucher, usages, admin, granted, order, money, overtaken, byHand>>
  BY DEF CancelPayments, lvars
<1>2. PaymentsOK
  BY DEF PricingInv
<1>3. IsSeq(payment') /\ \A n \in DOMAIN payment' : PaymentOK(payment'[n])
  BY <1>1, <1>2, ClosedOK
<1>4. PaymentsOK'
  BY <1>1, <1>3 DEF PaymentsOK, PaymentOK
<1>. QED BY <1>1, <1>4, PaymentStep

LEMMA CreatePageKeeps ==
  ASSUME PricingInv, NEW c \in Jobs, CreatePage(c)
  PROVE  PricingInv'
<1>1. EndJob(c) /\ UNCHANGED <<voucher, usages, admin, granted, order, money, overtaken, byHand>>
  BY DEF CreatePage, lvars
<1>2. PaymentsOK /\ job[c].order \in Bookings
  BY JobFacts DEF PricingInv, CreatePage, In, JobOK
<1>3. PICK s \in {payment, Closed(job[c].open)} :
        payment' = Append(s, [order |-> job[c].order, amount |-> job[c].amount, status |-> "open"])
  BY DEF CreatePage
<1>4. IsSeq(s) /\ \A n \in DOMAIN s : PaymentOK(s[n])
  BY <1>2, ClosedOK DEF PaymentsOK
<1>5. PaymentsOK'
  BY <1>1, <1>2, <1>3, <1>4, AppendOK
<1>. QED BY <1>1, <1>5, PaymentStep

(* Money and payment come together.                                        *)
LEMMA PayKeeps ==
  ASSUME PricingInv, NEW n \in DOMAIN payment, Pay(n)
  PROVE  PricingInv'
<1>1. /\ payment' = [payment EXCEPT ![n].status = "paid"]
      /\ money' = money \cup {[order |-> payment[n].order, amount |-> payment[n].amount]}
      /\ UNCHANGED <<voucher, usages, admin, granted, order, job, overtaken, byHand>>
  BY DEF Pay, lvars
<1>2. PaymentsOK'
  <2>1. IsSeq(payment) /\ \A k \in DOMAIN payment : PaymentOK(payment[k])
    BY DEF PricingInv, PaymentsOK
  <2>. DEFINE S == {payment'[k] : k \in DOMAIN payment}
  <2>2. payment' \in [DOMAIN payment -> S]
    <3>1. DOMAIN payment' = DOMAIN payment /\ \A k \in DOMAIN payment : payment'[k] \in S
      BY <1>1
    <3>2. payment' = [k \in DOMAIN payment |-> payment'[k]]
      BY <1>1
    <3>. HIDE DEF S
    <3>. QED BY <3>1, <3>2
  <2>3. IsSeq(payment')
    BY <2>1, <2>2, RewriteRows
  <2>4. ASSUME NEW k \in DOMAIN payment' PROVE PaymentOK(payment[k])'
    <3>1. PaymentOK(payment[k])
      BY <1>1, <2>1
    <3>2. CASE k = n
      <4>1. /\ payment'[k].order = payment[k].order /\ payment'[k].amount = payment[k].amount
            /\ DOMAIN payment'[k] = DOMAIN payment[k]
        BY <1>1, <3>1, <3>2 DEF PaymentOK
      <4>. QED BY <1>1, <3>1, <3>2, <4>1 DEF PaymentOK
    <3>3. CASE k # n
      <4>1. payment'[k] = payment[k]
        BY <1>1, <3>3
      <4>. QED BY <1>1, <3>1, <4>1 DEF PaymentOK
    <3>. QED BY <3>2, <3>3
  <2>. QED BY <2>3, <2>4 DEF PaymentsOK
<1>3. ShapesOK' /\ UsagesKnown' /\ Exclusive'
  BY <1>1 DEF PricingInv, ShapesOK, OrdersOK, JobsOK, UsagesKnown, Exclusive
<1>4. LedgerInv'
  BY <1>1 DEF PricingInv, LedgerInv, CounterMatchesUsages, WithinLimits, UsesOf
<1>5. OrdersInv'
  BY <1>1 DEF PricingInv, OrdersInv, AmountMatchesPassengers, PaidCoversTotal
<1>6. JobsInv'
  BY <1>1 DEF PricingInv, JobsInv, JobInv
<1>. QED BY <1>2, <1>3, <1>4, <1>5, <1>6 DEF PricingInv

-----------------------------------------------------------------------------
(* Steps that change the status of an order, and maybe return its use.     *)
LEMMA StatusStep ==
  ASSUME PricingInv, NEW o \in Bookings, NEW status, status # "none",
         order[o].status # "none",
         order' = [order EXCEPT ![o].status = status],
         status = "paid" /\ o \notin overtaken \cup byHand' /\ order[o].status # "paid" =>
           [order |-> o, amount |-> order[o].total] \in money,
         UNCHANGED <<granted, payment, money, overtaken>>, byHand' \in {byHand, byHand \cup {o}},
         LedgerInv', usages' \subseteq usages,
         job' = job \/ \E c \in Jobs : EndJob(c)
  PROVE  PricingInv'
<1>1. /\ DOMAIN order' = Bookings
      /\ \A p \in Bookings :
           /\ DOMAIN order'[p] = OrderFields
           /\ order'[p].unit = order[p].unit /\ order'[p].rows = order[p].rows
           /\ order'[p].discount = order[p].discount /\ order'[p].total = order[p].total
           /\ order'[p].status = IF p = o THEN status ELSE order[p].status
  BY DEF PricingInv, ShapesOK, OrdersOK, OrderFields
<1>2. JobsOK' /\ \A d \in Jobs : job'[d] = job[d] \/ job'[d] = NoJob
  <2>1. JobsOK
    BY DEF PricingInv, ShapesOK
  <2>2. CASE job' = job
    BY <2>1, <2>2 DEF JobsOK
  <2>3. CASE \E c \in Jobs : EndJob(c)
    BY <2>1, <2>3, EndJobOK
  <2>. QED BY <2>2, <2>3
<1>3. ShapesOK'
  BY <1>1, <1>2 DEF ShapesOK, OrdersOK
<1>4. UsagesKnown'
  BY <1>1 DEF PricingInv, UsagesKnown
<1>5. ASSUME NEW d \in Jobs PROVE JobInv(job[d])'
  <2>1. JobInv(job[d]) /\ JobOK(job[d])
    BY JobFacts
  <2>2. CASE job'[d] = NoJob
    BY <2>2 DEF JobInv, Creating
  <2>3. CASE job'[d] = job[d] /\ job[d] # NoJob
    <3>1. job[d].order \in Bookings
      BY <2>1, <2>3 DEF JobOK
    <3>. QED BY <1>1, <2>1, <2>3, <3>1 DEF JobInv
  <2>. QED BY <1>2, <2>2, <2>3
<1>6. Exclusive'
  BY <1>2 DEF PricingInv, Exclusive, Creating
<1>7. PaymentsOK'
  BY DEF PricingInv, PaymentsOK, PaymentOK
<1>8. OrdersInv'
  BY <1>1 DEF PricingInv, OrdersInv, AmountMatchesPassengers, PaidCoversTotal
<1>. QED BY <1>3, <1>4, <1>5, <1>6, <1>7, <1>8 DEF PricingInv, JobsInv

LEMMA CancelOrderKeeps ==
  ASSUME PricingInv, NEW o \in Bookings, CancelOrder(o)
  PROVE  PricingInv'
<1>1. /\ order[o].status = "pending"
      /\ order' = [order EXCEPT ![o].status = "cancelled"]
      /\ UNCHANGED <<payment, job, money, overtaken, byHand>>
  BY DEF CancelOrder
<1>2. LedgerInv' /\ usages' \subseteq usages /\ UNCHANGED granted
  <2>1. LedgerInv
    BY DEF PricingInv
  <2>2. CASE ReturnUse(o)
    BY <2>1, <2>2, ReturnKeeps DEF ReturnUse
  <2>3. CASE UNCHANGED lvars
    BY <2>1, <2>3 DEF lvars, LedgerInv, CounterMatchesUsages, WithinLimits, UsesOf
  <2>. QED BY <2>2, <2>3 DEF CancelOrder, ReleaseUsage
<1>. QED BY <1>1, <1>2, StatusStep

LEMMA MarkPaidKeeps ==
  ASSUME PricingInv, NEW o \in Bookings, MarkPaid(o)
  PROVE  PricingInv'
<1>1. /\ order[o].status = "pending"
      /\ order' = [order EXCEPT ![o].status = "paid"]
      /\ byHand' = byHand \cup {o}
      /\ UNCHANGED <<voucher, usages, admin, granted, payment, job, money, overtaken>>
  BY DEF MarkPaid, lvars
<1>2. LedgerInv'
  BY <1>1 DEF PricingInv, LedgerInv, CounterMatchesUsages, WithinLimits, UsesOf
<1>. QED BY <1>1, <1>2, StatusStep

LEMMA AdvanceOrderKeeps ==
  ASSUME PricingInv, NEW c \in Jobs, AdvanceOrder(c)
  PROVE  PricingInv'
<1>. DEFINE o == job[c].order
            status == IF order[o].status = "pending" THEN "paid" ELSE order[o].status
<1>1. job[c].op = "settle" /\ job[c].stage = "advance" /\ job[c] # NoJob
      /\ JobOK(job[c]) /\ JobInv(job[c])
  BY JobFacts DEF AdvanceOrder, In
<1>2. o \in Bookings /\ order[o].status # "none"
      /\ (o \notin overtaken => [order |-> o, amount |-> order[o].total] \in money)
  BY <1>1 DEF JobOK, JobInv, Creating
<1>3. order' = [order EXCEPT ![o].status = status]
  BY DEF AdvanceOrder
<1>4. UNCHANGED <<voucher, usages, admin, granted, payment, money, overtaken, byHand>> /\ EndJob(c)
  BY DEF AdvanceOrder, lvars
<1>5. LedgerInv'
  BY <1>4 DEF PricingInv, LedgerInv, CounterMatchesUsages, WithinLimits, UsesOf
<1>6. status # "none" /\ usages' \subseteq usages
      /\ (status = "paid" /\ o \notin overtaken /\ order[o].status # "paid" =>
            [order |-> o, amount |-> order[o].total] \in money)
  BY <1>2, <1>4
<1>. HIDE DEF o, status
<1>. QED BY <1>2, <1>3, <1>4, <1>5, <1>6, StatusStep

LEMMA FirstPaymentKeeps ==
  ASSUME PricingInv, NEW c \in Jobs, FirstPayment(c)
  PROVE  PricingInv'
<1>. DEFINE o == job[c].order
<1>1. job[c].op = "create" /\ job[c].stage = "pay" /\ job[c] # NoJob
      /\ JobOK(job[c]) /\ JobInv(job[c])
  BY JobFacts DEF FirstPayment, In
<1>2. o \in Bookings /\ order[o].status # "none"
  BY <1>1 DEF JobOK, JobInv, Creating
<1>3. EndJob(c) /\ UNCHANGED <<money, overtaken, byHand>>
  BY DEF FirstPayment
<1>4. CASE AddPayment(o, job[c].row.total) /\ UNCHANGED <<lvars, order, requests>>
  <2>1. IsSeq(payment) /\ \A n \in DOMAIN payment : PaymentOK(payment[n])
    BY DEF PricingInv, PaymentsOK
  <2>2. payment' = Append(payment, [order |-> o, amount |-> job[c].row.total, status |-> "open"])
    BY <1>4 DEF AddPayment
  <2>3. PaymentsOK'
    BY <1>2, <1>3, <2>1, <2>2, AppendOK
  <2>4. UNCHANGED <<voucher, usages, admin, granted, order, money, overtaken, byHand>>
    BY <1>3, <1>4 DEF lvars
  <2>. QED BY <1>3, <2>3, <2>4, PaymentStep
<1>5. CASE /\ order' = [order EXCEPT ![o].status = "cancelled"]
           /\ ReleaseUsage(o) /\ UNCHANGED payment
  <2>1. LedgerInv
    BY DEF PricingInv
  <2>2. LedgerInv' /\ usages' \subseteq usages /\ UNCHANGED granted
    <3>1. CASE ReturnUse(o)
      BY <2>1, <3>1, ReturnKeeps DEF ReturnUse
    <3>2. CASE UNCHANGED lvars
      BY <2>1, <3>2 DEF lvars, LedgerInv, CounterMatchesUsages, WithinLimits, UsesOf
    <3>. QED BY <1>5, <3>1, <3>2 DEF ReleaseUsage
  <2>. HIDE DEF o
  <2>. QED BY <1>2, <1>3, <1>5, <2>2, StatusStep
<1>. QED BY <1>4, <1>5 DEF FirstPayment

-----------------------------------------------------------------------------
(* The transaction of create: nobody else works on the order, and it has   *)
(* no use yet.                                                             *)
LEMMA InsertOrderKeeps ==
  ASSUME PricingInv, NEW c \in Jobs, InsertOrder(c)
  PROVE  PricingInv'
<1>. DEFINE o == job[c].order
            row == job[c].row
            j == [job[c] EXCEPT !.stage = "pay"]
<1>1. job[c].op = "create" /\ job[c].stage = "insert" /\ job[c] # NoJob
      /\ JobOK(job[c]) /\ JobInv(job[c])
  BY JobFacts DEF InsertOrder, In
<1>2. Creating(job[c])
  BY <1>1 DEF Creating
<1>3. /\ o \in Bookings /\ order[o].status = "none"
      /\ DOMAIN row = OrderFields /\ row.user \in Buyers /\ row.status = "pending"
      /\ row.total = Minus(FullPrice(row.unit, row.rows), row.discount)
  BY <1>1, <1>2 DEF JobOK, JobInv
<1>4. CASE EndJob(c) /\ UNCHANGED <<lvars, order>>
  <2>1. UNCHANGED <<voucher, usages, admin, granted, order, payment, money, overtaken, byHand>>
    BY <1>4 DEF InsertOrder, lvars
  <2>. QED BY <1>4, <2>1, EndStep
<1>5. CASE /\ row.coupon => Claimable(row.user, job[c].seen)
           /\ order' = [order EXCEPT ![o] = row]
           /\ IF row.coupon THEN ClaimUse(o, row.user) ELSE UNCHANGED lvars
           /\ Goto(c, "pay")
  <2>1. /\ j.op = "create" /\ j.stage = "pay" /\ j.order = o /\ j # NoJob /\ ~Creating(j)
        /\ JobOK(j)
    BY <1>1 DEF JobOK, Creating
  <2>2. job' = [job EXCEPT ![c] = j]
    BY <1>5, JobFacts DEF Goto
  <2>3. UNCHANGED <<payment, money, overtaken, byHand>>
    BY DEF InsertOrder
  <2>. HIDE DEF j
  <2>4. JobsOK' /\ \A d \in Jobs : job'[d] = IF d = c THEN j ELSE job[d]
    <3>1. JobsOK
      BY DEF PricingInv, ShapesOK
    <3>. QED BY <2>1, <2>2, <3>1 DEF JobsOK, JobOK
  <2>5. DOMAIN order' = Bookings /\ \A p \in Bookings : order'[p] = IF p = o THEN row ELSE order[p]
    BY <1>3, <1>5 DEF PricingInv, ShapesOK, OrdersOK
  <2>. HIDE DEF o, row
  <2>6. ShapesOK'
    BY <1>3, <2>4, <2>5 DEF PricingInv, ShapesOK, OrdersOK
  <2>7. \A x \in usages : x.order # o
    BY <1>3 DEF PricingInv, UsagesKnown
  <2>8. /\ LedgerInv' /\ UNCHANGED granted
        /\ \A x \in usages' : x \in usages \/ x.order = o
    <3>1. LedgerInv
      BY DEF PricingInv
    <3>2. CASE row.coupon
      <4>1. ClaimUse(o, row.user) /\ Claimable(row.user, job[c].seen)
        BY <1>5, <3>2 DEF o, row
      <4>2. /\ job[c].seen.limit \in Limits /\ Covered(job[c].seen.limit, granted.limit)
            /\ job[c].seen.perUser \in Limits /\ Covered(job[c].seen.perUser, granted.perUser)
        BY <1>1, <1>2 DEF JobInv
      <4>3. LedgerInv'
        BY <1>3, <2>7, <3>1, <4>1, <4>2, ClaimKeeps
      <4>. QED BY <4>1, <4>3 DEF ClaimUse
    <3>3. CASE ~row.coupon
      <4>1. UNCHANGED lvars
        BY <1>5, <3>3 DEF row
      <4>. QED BY <3>1, <4>1 DEF lvars, LedgerInv, CounterMatchesUsages, WithinLimits, UsesOf
    <3>. QED BY <3>2, <3>3
  <2>9. UsagesKnown'
    BY <1>3, <2>5, <2>8 DEF PricingInv, UsagesKnown
  <2>10. ASSUME NEW d \in Jobs PROVE JobInv(job[d])'
    <3>1. CASE d = c
      BY <1>3, <2>1, <2>4, <2>5, <3>1 DEF JobInv
    <3>2. CASE d # c /\ job[d] = NoJob
      BY <2>4, <3>2 DEF JobInv, Creating
    <3>3. CASE d # c /\ job[d] # NoJob
      <4>1. job'[d] = job[d] /\ JobInv(job[d]) /\ JobOK(job[d])
        BY <2>4, <3>3, JobFacts
      <4>2. job[d].order \in Bookings /\ job[d].order # o
        BY <1>2, <3>3, <4>1 DEF JobOK, PricingInv, Exclusive, o
      <4>3. order'[job[d].order] = order[job[d].order]
        BY <2>5, <4>2
      <4>. QED BY <2>3, <2>8, <4>1, <4>3 DEF JobInv
    <3>. QED BY <3>1, <3>2, <3>3
  <2>11. Exclusive'
    <3>1. job[c].order = o
      BY DEF o
    <3>. QED BY <1>1, <2>1, <2>4, <3>1 DEF PricingInv, Exclusive
  <2>12. PaymentsOK'
    BY <2>3 DEF PricingInv, PaymentsOK, PaymentOK
  <2>13. OrdersInv'
    BY <1>3, <2>3, <2>5 DEF PricingInv, OrdersInv, AmountMatchesPassengers, PaidCoversTotal
  <2>. QED BY <2>6, <2>8, <2>9, <2>10, <2>11, <2>12, <2>13 DEF PricingInv, JobsInv
<1>. QED BY <1>4, <1>5 DEF InsertOrder

(* The transaction of an edit: the rows it has deleted are all there were, *)
(* and no settlement counts on the old total, or the order is overtaken.   *)
LEMMA CommitEditKeeps ==
  ASSUME PricingInv, NEW c \in Jobs, CommitEdit(c)
  PROVE  PricingInv'
<1>. DEFINE o == job[c].order
            row == Edited(order[o], job[c])
<1>1. job[c].op = "edit" /\ job[c].stage = "write" /\ job[c] # NoJob
      /\ JobOK(job[c]) /\ JobInv(job[c])
  BY JobFacts DEF CommitEdit, In
<1>2. o \in Bookings /\ order[o].status # "none" /\ DOMAIN order[o] = OrderFields
  BY <1>1 DEF JobOK, JobInv, Creating, PricingInv, ShapesOK, OrdersOK
<1>3. /\ job[c].total = Minus(FullPrice(order[o].unit, job[c].rows), job[c].discount)
      /\ o \notin overtaken => job[c].gone = order[o].rows
  BY <1>1 DEF JobInv
<1>4. /\ DOMAIN row = OrderFields /\ row.unit = order[o].unit /\ row.status = order[o].status
      /\ row.rows = (order[o].rows \ job[c].gone) \cup job[c].rows
      /\ row.total = job[c].total /\ row.discount = job[c].discount
  BY <1>2 DEF Edited, OrderFields
<1>5. DOMAIN order' = Bookings /\ \A p \in Bookings : order'[p] = IF p = o THEN row ELSE order[p]
  BY <1>2 DEF CommitEdit, PricingInv, ShapesOK, OrdersOK
<1>6. /\ overtaken' = IF Overtakes(c, o) THEN overtaken \cup {o} ELSE overtaken
      /\ UNCHANGED <<voucher, usages, admin, granted, payment, money, byHand>>
  BY DEF CommitEdit, lvars
<1>7. PICK j \in {NoJob, [job[c] EXCEPT !.stage = "list"]} : job' = [job EXCEPT ![c] = j]
  BY JobFacts DEF CommitEdit, Goto, EndJob
<1>8. JobOK(j) /\ (j # NoJob => j.op = "edit" /\ j.stage = "list" /\ j.order = o)
  BY <1>1 DEF JobOK
<1>9. JobsOK' /\ \A d \in Jobs : job'[d] = IF d = c THEN j ELSE job[d]
  <2>1. JobsOK
    BY DEF PricingInv, ShapesOK
  <2>. QED BY <1>7, <1>8, <2>1 DEF JobsOK, JobOK
<1>. HIDE DEF o, row
<1>10. ShapesOK'
  BY <1>4, <1>5, <1>9 DEF PricingInv, ShapesOK, OrdersOK
<1>11. LedgerInv'
  BY <1>6 DEF PricingInv, LedgerInv, CounterMatchesUsages, WithinLimits, UsesOf
<1>12. UsagesKnown'
  BY <1>2, <1>4, <1>5, <1>6 DEF PricingInv, UsagesKnown
<1>13. ASSUME NEW d \in Jobs PROVE JobInv(job[d])'
  <2>1. CASE d = c
    <3>1. ~Creating(j) /\ (j # NoJob => j.order = o /\ j.stage = "list" /\ j.op = "edit")
      BY <1>8 DEF Creating
    <3>2. order'[o].status # "none"
      BY <1>2, <1>4, <1>5
    <3>. QED BY <1>9, <2>1, <3>1, <3>2 DEF JobInv
  <2>2. CASE d # c /\ job[d] = NoJob
    BY <1>9, <2>2 DEF JobInv, Creating
  <2>3. CASE d # c /\ job[d] # NoJob
    <3>1. job'[d] = job[d] /\ JobInv(job[d]) /\ JobOK(job[d])
      BY <1>9, <2>3, JobFacts
    <3>2. job[d].order \in Bookings
      BY <2>3, <3>1 DEF JobOK
    <3>3. CASE job[d].order # o
      <4>1. order'[job[d].order] = order[job[d].order]
        BY <1>5, <3>2, <3>3
      <4>2. job[d].order \in overtaken' <=> job[d].order \in overtaken
        BY <1>6, <3>3
      <4>. QED BY <1>6, <3>1, <4>1, <4>2 DEF JobInv
    <3>4. CASE job[d].order = o
      <4>1. ~Creating(job[d])
        BY <1>2, <3>1, <3>4 DEF JobInv
      <4>2. order'[o].unit = order[o].unit /\ order'[o].status # "none"
        BY <1>2, <1>4, <1>5
      <4>3. job[d].op = "edit" /\ job[d].stage = "write" => o \in overtaken'
        BY <1>6, <2>3, <3>4 DEF Overtakes, In
      <4>4. job[d].op = "settle" => o \in overtaken'
        BY <1>6, <2>3, <3>1, <3>4 DEF Overtakes, In, JobOK
      <4>. QED BY <3>1, <3>4, <4>1, <4>2, <4>3, <4>4 DEF JobInv
    <3>. QED BY <3>3, <3>4
  <2>. QED BY <2>1, <2>2, <2>3
<1>14. Exclusive'
  <2>1. job[c].order = o /\ ~Creating(j)
    BY <1>8 DEF o, Creating
  <2>. QED BY <1>1, <1>8, <1>9, <2>1 DEF PricingInv, Exclusive
<1>15. PaymentsOK'
  BY <1>6 DEF PricingInv, PaymentsOK, PaymentOK
<1>16. OrdersInv'
  <2>1. ASSUME NEW p \in Bookings \ overtaken', p # o
        PROVE  p \in Bookings \ overtaken /\ order'[p] = order[p]
    BY <1>5, <1>6, <2>1
  <2>2. ASSUME o \notin overtaken'
        PROVE  /\ order'[o].total =
                    Minus(FullPrice(order'[o].unit, order'[o].rows), order'[o].discount)
               /\ order'[o].status = "pending"
    <3>1. ~Overtakes(c, o) /\ o \notin overtaken
      BY <1>6, <2>2
    <3>2. row.rows = job[c].rows
      BY <1>3, <1>4, <3>1
    <3>3. order[o].status = "pending"
      BY <3>1 DEF Overtakes
    <3>. QED BY <1>2, <1>3, <1>4, <1>5, <3>2, <3>3
  <2>. QED BY <1>6, <2>1, <2>2 DEF PricingInv, OrdersInv, AmountMatchesPassengers, PaidCoversTotal
<1>. QED BY <1>10, <1>11, <1>12, <1>13, <1>14, <1>15, <1>16 DEF PricingInv, JobsInv

LEMMA OperateStep ==
  ASSUME PricingInv, Operate, UNCHANGED <<order, payment, job, requests, money, overtaken, byHand>>
  PROVE  PricingInv'
<1>1. LedgerInv' /\ GrantsGrow /\ UNCHANGED usages
  BY OperateKeeps DEF PricingInv
<1>2. JobsInv'
  BY <1>1 DEF PricingInv, JobsInv, JobInv, GrantsGrow
<1>3. ShapesOK' /\ UsagesKnown' /\ Exclusive'
  BY <1>1 DEF PricingInv, ShapesOK, OrdersOK, JobsOK, UsagesKnown, Exclusive
<1>4. PaymentsOK' /\ OrdersInv'
  BY DEF PricingInv, PaymentsOK, PaymentOK, OrdersInv, AmountMatchesPassengers, PaidCoversTotal
<1>. QED BY <1>1, <1>2, <1>3, <1>4 DEF PricingInv

-----------------------------------------------------------------------------
(* Every behaviour.                                                        *)
LEMMA InitHolds ==
  ASSUME InitPricing PROVE PricingInv
<1>1. /\ order = [o \in Bookings |-> NewOrder] /\ payment = <<>>
      /\ job = [c \in Jobs |-> NoJob] /\ money = {} /\ overtaken = {} /\ byHand = {}
  BY DEF InitPricing
<1>2. /\ VoucherShape(voucher) /\ voucher.used = 0 /\ usages = {} /\ admin = NoLimit
      /\ granted.limit = voucher.limit /\ granted.perUser = voucher.perUser
  BY LedgerAssumption DEF InitPricing, InitLedger
<1>3. LedgerInv
  <2>1. IsFiniteSet(usages) /\ CounterMatchesUsages
    BY <1>2, FS_EmptySet DEF CounterMatchesUsages
  <2>2. \A u \in Buyers : UsesOf(u) = 0
    <3>1. \A u : {x \in usages : x.user = u} = {}
      BY <1>2
    <3>. QED BY <3>1, FS_EmptySet DEF UsesOf
  <2>3. granted.limit \in Limits /\ granted.perUser \in Limits
    BY <1>2 DEF VoucherShape
  <2>4. WithinLimits
    BY <1>2, <2>2, <2>3 DEF WithinLimits, AtMost, Limits
  <2>5. Covered(voucher.limit, granted.limit) /\ Covered(voucher.perUser, granted.perUser)
    BY <1>2, <2>3 DEF Covered, Limits
  <2>. QED BY <1>2, <2>1, <2>3, <2>4, <2>5 DEF LedgerInv
<1>4. ShapesOK
  BY <1>1 DEF ShapesOK, OrdersOK, JobsOK, JobOK, NewOrder, OrderFields
<1>5. JobsInv /\ Exclusive
  BY <1>1 DEF JobsInv, JobInv, Exclusive, Creating
<1>6. PaymentsOK
  <2>1. payment \in Seq({}) /\ DOMAIN payment = {}
    BY <1>1
  <2>. QED BY <2>1 DEF PaymentsOK, IsSeq
<1>7. UsagesKnown /\ OrdersInv
  BY <1>1, <1>2 DEF UsagesKnown, OrdersInv, AmountMatchesPassengers, PaidCoversTotal, NewOrder
<1>. QED BY <1>3, <1>4, <1>5, <1>6, <1>7 DEF PricingInv

LEMMA StepHolds ==
  ASSUME PricingInv, [NextPricing]_pvars
  PROVE  PricingInv'
<1>1. ASSUME NEW c \in Jobs,
             \/ StartOrder(c) \/ ReadLimits(c) \/ InsertOrder(c) \/ FirstPayment(c)
             \/ StartEdit(c) \/ DeleteRows(c) \/ CommitEdit(c) \/ ListPayments(c)
             \/ CancelPayments(c) \/ StartPage(c) \/ ListForPage(c) \/ CreatePage(c)
             \/ StartSettlement(c) \/ AdvanceOrder(c)
      PROVE  PricingInv'
  BY <1>1, StartOrderKeeps, ReadLimitsKeeps, InsertOrderKeeps, FirstPaymentKeeps, StartEditKeeps,
     DeleteRowsKeeps, CommitEditKeeps, ListPaymentsKeeps, CancelPaymentsKeeps, StartPageKeeps,
     ListForPageKeeps, CreatePageKeeps, StartSettlementKeeps, AdvanceOrderKeeps
<1>2. ASSUME NEW n \in DOMAIN payment, Pay(n) PROVE PricingInv'
  BY <1>2, PayKeeps
<1>3. ASSUME NEW o \in Bookings, MarkPaid(o) \/ CancelOrder(o) PROVE PricingInv'
  BY <1>3, MarkPaidKeeps, CancelOrderKeeps
<1>4. CASE Operate /\ UNCHANGED <<order, payment, job, requests, money, overtaken, byHand>>
  BY <1>4, OperateStep
<1>5. CASE UNCHANGED pvars
  <2>1. UNCHANGED <<voucher, usages, admin, granted, order, payment, job, money, overtaken, byHand>>
    BY <1>5 DEF pvars, lvars
  <2>2. LedgerInv'
    BY <2>1 DEF PricingInv, LedgerInv, CounterMatchesUsages, WithinLimits, UsesOf
  <2>3. JobsInv'
    BY <2>1 DEF PricingInv, JobsInv, JobInv
  <2>4. ShapesOK' /\ UsagesKnown' /\ Exclusive'
    BY <2>1 DEF PricingInv, ShapesOK, OrdersOK, JobsOK, UsagesKnown, Exclusive
  <2>5. PaymentsOK' /\ OrdersInv'
    BY <2>1 DEF PricingInv, PaymentsOK, PaymentOK, OrdersInv, AmountMatchesPassengers,
                PaidCoversTotal
  <2>. QED BY <2>2, <2>3, <2>4, <2>5 DEF PricingInv
<1>. QED BY <1>1, <1>2, <1>3, <1>4, <1>5 DEF NextPricing

LEMMA PricingInductive == SpecPricing => []PricingInv
  BY InitHolds, StepHolds, PTL DEF SpecPricing

(* The counter compared with the limit is the number of redemptions, and   *)
(* no order is redeemed twice (VoucherLedger!CounterMatchesUsages).        *)
THEOREM CounterMatchesUsagesHolds == SpecPricing => []CounterMatchesUsages
<1>1. PricingInv => CounterMatchesUsages
  BY DEF PricingInv, LedgerInv
<1>. QED BY <1>1, PricingInductive, PTL

(* However many checkouts race, a voucher stays within its largest limits  *)
(* (VoucherLedger!WithinLimits).                                           *)
THEOREM WithinLimitsHolds == SpecPricing => []WithinLimits
<1>1. PricingInv => WithinLimits
  BY DEF PricingInv, LedgerInv
<1>. QED BY <1>1, PricingInductive, PTL

(* An order that nobody overtook costs what its passengers cost            *)
(* (OrderPricing!AmountMatchesPassengers).                                 *)
THEOREM AmountMatchesHolds == SpecPricing => []AmountMatchesPassengers
<1>1. PricingInv => AmountMatchesPassengers
  BY DEF PricingInv, OrdersInv
<1>. QED BY <1>1, PricingInductive, PTL

(* An order that nobody overtook, and that no operator marked paid, counts *)
(* as paid only once a payment of exactly its total has been settled       *)
(* (OrderPricing!PaidCoversTotal).                                         *)
THEOREM PaidCoversTotalHolds == SpecPricing => []PaidCoversTotal
<1>1. PricingInv => PaidCoversTotal
  BY DEF PricingInv, OrdersInv
<1>. QED BY <1>1, PricingInductive, PTL

-----------------------------------------------------------------------------
(* Sums over finite sets.  The fold of the library is a recursive function *)
(* over the subsets of a set; it exists, and adds natural numbers to one.  *)
(* Both by the least number of elements at which they fail.                *)

Pick(s) == CHOOSE x \in s : TRUE

AddOne(F, sum, s) == IF s = {} THEN 0 ELSE F[Pick(s)] + sum[s \ {Pick(s)}]

(* The sums of F over the subsets of S, as the library computes them.      *)
IsSum(F, S, sum) == sum = [s \in SUBSET S |-> AddOne(F, sum, s)]

(* The sets of at most n elements.                                         *)
Upto(S, n) == {s \in SUBSET S : Cardinality(s) <= n}

LEMMA LeastNumber ==
  ASSUME NEW T, T \subseteq Nat, T # {}
  PROVE  \E n \in T : \A m \in T : n <= m
<1>1. PICK n \in T : \A m \in T : ~ (<<m, n>> \in OpToRel(<, Nat))
  BY NatLessThanWellFounded, WFMin
<1>2. ASSUME NEW m \in T PROVE n <= m
  <2>1. m < n => <<m, n>> \in OpToRel(<, Nat)
    BY <1>2 DEF OpToRel
  <2>2. m \in Nat /\ n \in Nat /\ ~(m < n)
    BY <1>1, <1>2, <2>1
  <2>. QED BY <2>2
<1>. QED BY <1>2

LEMMA OneLess ==
  ASSUME NEW S, IsFiniteSet(S), NEW s \in SUBSET S, s # {}
  PROVE  /\ Pick(s) \in s /\ s \ {Pick(s)} \in SUBSET S
         /\ Cardinality(s) \in Nat /\ Cardinality(s \ {Pick(s)}) \in Nat
         /\ Cardinality(s) = Cardinality(s \ {Pick(s)}) + 1
<1>1. Pick(s) \in s
  BY DEF Pick
<1>2. IsFiniteSet(s) /\ Cardinality(s) \in Nat
  BY FS_Subset, FS_CardinalityType
<1>3. IsFiniteSet(s \ {Pick(s)}) /\ Cardinality(s \ {Pick(s)}) = Cardinality(s) - 1
  BY <1>1, <1>2, FS_RemoveElement
<1>4. Cardinality(s \ {Pick(s)}) \in Nat
  BY <1>3, FS_CardinalityType
<1>. QED BY <1>1, <1>2, <1>3, <1>4

LEMMA PartialSums ==
  ASSUME NEW S, IsFiniteSet(S), NEW F \in [S -> Nat], NEW n \in Nat
  PROVE  \E h \in [Upto(S, n) -> Nat] : \A s \in Upto(S, n) : h[s] = AddOne(F, h, s)
<1>. DEFINE Has(m) == \E h \in [Upto(S, m) -> Nat] : \A s \in Upto(S, m) : h[s] = AddOne(F, h, s)
            Bad == {m \in Nat : ~Has(m)}
<1>1. SUFFICES ASSUME Bad # {} PROVE FALSE
  BY DEF Bad
<1>2. PICK m \in Bad : \A k \in Bad : m <= k
  BY <1>1, LeastNumber
<1>3. m \in Nat /\ ~Has(m)
  BY <1>2
<1>4. CASE m = 0
  <2>1. ASSUME NEW s \in Upto(S, m) PROVE s = {}
    <3>1. IsFiniteSet(s) /\ Cardinality(s) <= 0
      BY <1>4, FS_Subset DEF Upto
    <3>2. Cardinality(s) = 0
      BY <3>1, FS_CardinalityType
    <3>. QED BY <3>1, <3>2, FS_EmptySet
  <2>. DEFINE h == [s \in Upto(S, m) |-> 0]
  <2>2. h \in [Upto(S, m) -> Nat] /\ \A s \in Upto(S, m) : h[s] = AddOne(F, h, s)
    BY <2>1 DEF AddOne
  <2>. QED BY <1>3, <2>2
<1>5. CASE m > 0
  <2>1. m - 1 \in Nat /\ m - 1 \notin Bad
    BY <1>2, <1>3, <1>5
  <2>2. Has(m - 1)
    BY <2>1
  <2>3. PICK g \in [Upto(S, m - 1) -> Nat] :
           \A s \in Upto(S, m - 1) : g[s] = AddOne(F, g, s)
    BY <2>2
  <2>. DEFINE h == [s \in Upto(S, m) |-> AddOne(F, g, s)]
  <2>4. ASSUME NEW s \in Upto(S, m), s # {}
        PROVE  Pick(s) \in S /\ s \ {Pick(s)} \in Upto(S, m - 1)
    BY <1>3, <2>4, OneLess DEF Upto
  <2>5. ASSUME NEW s \in Upto(S, m - 1) PROVE s \in Upto(S, m) /\ h[s] = g[s]
    <3>1. s \in Upto(S, m)
      <4>1. Cardinality(s) \in Nat
        BY FS_Subset, FS_CardinalityType DEF Upto
      <4>. QED BY <1>3, <4>1 DEF Upto
    <3>. QED BY <2>3, <3>1
  <2>6. ASSUME NEW s \in Upto(S, m) PROVE h[s] \in Nat /\ h[s] = AddOne(F, h, s)
    <3>1. CASE s = {}
      BY <3>1 DEF AddOne
    <3>2. CASE s # {}
      <4>1. Pick(s) \in S /\ s \ {Pick(s)} \in Upto(S, m - 1)
        BY <2>4, <3>2
      <4>2. h[s \ {Pick(s)}] = g[s \ {Pick(s)}] /\ g[s \ {Pick(s)}] \in Nat
        BY <2>3, <2>5, <4>1
      <4>3. h[s] = F[Pick(s)] + g[s \ {Pick(s)}]
        BY <3>2 DEF AddOne
      <4>. HIDE DEF h
      <4>. QED BY <3>2, <4>1, <4>2, <4>3 DEF AddOne
    <3>. QED BY <3>1, <3>2
  <2>7. h \in [Upto(S, m) -> Nat]
    <3>1. h = [s \in Upto(S, m) |-> h[s]]
      OBVIOUS
    <3>. HIDE DEF h
    <3>. QED BY <2>6, <3>1
  <2>. HIDE DEF h
  <2>8. Has(m)
    BY <2>6, <2>7
  <2>. QED BY <1>3, <2>8
<1>. QED BY <1>3, <1>4, <1>5

LEMMA SumExists ==
  ASSUME NEW S, IsFiniteSet(S), NEW F \in [S -> Nat]
  PROVE  \E sum : IsSum(F, S, sum)
<1>1. Cardinality(S) \in Nat
  BY FS_CardinalityType
<1>2. Upto(S, Cardinality(S)) = SUBSET S
  BY FS_Subset DEF Upto
<1>3. \E h \in [Upto(S, Cardinality(S)) -> Nat] :
        \A s \in Upto(S, Cardinality(S)) : h[s] = AddOne(F, h, s)
  BY <1>1, PartialSums
<1>4. PICK h \in [SUBSET S -> Nat] : \A s \in SUBSET S : h[s] = AddOne(F, h, s)
  BY <1>2, <1>3
<1>5. h = [s \in SUBSET S |-> AddOne(F, h, s)]
  BY <1>4
<1>. QED BY <1>5 DEF IsSum

LEMMA SumIsNatural ==
  ASSUME NEW S, IsFiniteSet(S), NEW F \in [S -> Nat],
         NEW sum, IsSum(F, S, sum)
  PROVE  sum[S] \in Nat
<1>. DEFINE Bad == {n \in Nat : \E s \in SUBSET S : Cardinality(s) = n /\ sum[s] \notin Nat}
<1>1. ASSUME Bad # {} PROVE FALSE
  <2>1. PICK n \in Bad : \A m \in Bad : n <= m
    BY <1>1, LeastNumber
  <2>2. PICK s \in SUBSET S : Cardinality(s) = n /\ sum[s] \notin Nat
    BY <2>1
  <2>3. sum[s] = AddOne(F, sum, s)
    BY DEF IsSum
  <2>4. s # {}
    BY <2>2, <2>3 DEF AddOne
  <2>. DEFINE t == s \ {Pick(s)}
  <2>5. Pick(s) \in S /\ t \in SUBSET S /\ Cardinality(t) \in Nat /\ n \in Nat /\ n = Cardinality(t) + 1
    BY <2>2, <2>4, OneLess
  <2>6. ASSUME sum[t] \notin Nat PROVE FALSE
    <3>1. Cardinality(t) \in Bad
      BY <2>5, <2>6
    <3>2. n <= Cardinality(t)
      BY <2>1, <3>1
    <3>. HIDE DEF t
    <3>. QED BY <2>5, <3>2
  <2>7. sum[s] = F[Pick(s)] + sum[t]
    BY <2>3, <2>4 DEF AddOne
  <2>8. F[Pick(s)] \in Nat
    BY <2>5
  <2>. HIDE DEF t
  <2>. QED BY <2>2, <2>6, <2>7, <2>8
<1>2. Cardinality(S) \in Nat /\ S \in SUBSET S
  BY FS_CardinalityType
<1>. QED BY <1>1, <1>2

-----------------------------------------------------------------------------
(* Prices.                                                                 *)
Kinds == [class : DOMAIN Rate, document : BOOLEAN]

LEMMA ProductNat ==
  ASSUME NEW a \in Nat, NEW b \in Nat PROVE a * b \in Nat
  OBVIOUS

(* The fare of one passenger, and of a whole list.                         *)
LEMMA PassengerPriceType ==
  ASSUME NEW unit \in Nat, NEW p, p.document \in BOOLEAN, p.class \in DOMAIN Rate
  PROVE  PassengerPrice(unit, p) \in Nat
<1>1. FareRate(p) \in Nat
  BY DEF FareRate, Rate
<1>2. unit * FareRate(p) \in Nat
  BY <1>1
<1>. DEFINE n == unit * FareRate(p)
<1>. HIDE DEF n
<1>3. (n + 50000) \div 100000 \in Nat
  BY <1>2 DEF n
<1>. QED BY <1>3 DEF PassengerPrice, n

LEMMA FullPriceType ==
  ASSUME NEW unit \in Nat, NEW mix \in Mixes, NEW by
  PROVE  FullPrice(unit, RowsOf(mix, by)) \in Nat
<1>. DEFINE rows == RowsOf(mix, by)
            F == [p \in rows |-> PassengerPrice(unit, p)]
            row(n) == [by |-> by, seat |-> n, class |-> mix[n].class,
                       document |-> mix[n].document]
<1>1. mix \in Seq(Kinds)
  BY PricingAssumption DEF Kinds
<1>2. DOMAIN mix = 1 .. Len(mix) /\ Len(mix) \in Nat
  BY <1>1
<1>3. IsFiniteSet(rows)
  <2>1. IsFiniteSet(DOMAIN mix)
    BY <1>2, FS_Interval
  <2>. DEFINE g == [n \in DOMAIN mix |-> row(n)]
  <2>2. g \in Surjection(DOMAIN mix, rows)
    BY DEF Surjection, RowsOf
  <2>. HIDE DEF g
  <2>. QED BY <2>1, <2>2, FS_Surjection DEF ExistsSurjection
<1>4. ASSUME NEW p \in rows PROVE p.class \in DOMAIN Rate /\ p.document \in BOOLEAN
  <2>1. PICK n \in DOMAIN mix : p = row(n)
    BY DEF RowsOf
  <2>2. mix[n] \in Kinds
    BY <1>1, <1>2, <2>1
  <2>. QED BY <2>1, <2>2 DEF Kinds
<1>5. F \in [rows -> Nat]
  BY <1>4, PassengerPriceType
<1>. HIDE DEF rows, F
<1>6. \A iter : [s \in SUBSET rows |->
                   IF s = {} THEN 0
                   ELSE PassengerPrice(unit, CHOOSE x \in s : TRUE)
                          + iter[s \ {CHOOSE x \in s : TRUE}]]
                = [s \in SUBSET rows |-> AddOne(F, iter, s)]
  <2>1. ASSUME NEW iter, NEW s \in SUBSET rows, s # {}
        PROVE  PassengerPrice(unit, CHOOSE x \in s : TRUE)
                 + iter[s \ {CHOOSE x \in s : TRUE}] = AddOne(F, iter, s)
    <3>1. (CHOOSE x \in s : TRUE) \in rows
      BY <2>1
    <3>. QED BY <2>1, <3>1 DEF AddOne, Pick, F
  <2>. QED BY <2>1 DEF AddOne
<1>7. MapThenSumSet(LAMBDA p : PassengerPrice(unit, p), rows) \in Nat
  <2>. DEFINE iter == CHOOSE iter : iter = [s \in SUBSET rows |->
                   IF s = {} THEN 0
                   ELSE PassengerPrice(unit, CHOOSE x \in s : TRUE)
                          + iter[s \ {CHOOSE x \in s : TRUE}]]
  <2>1. PICK sum : IsSum(F, rows, sum)
    BY <1>3, <1>5, SumExists
  <2>2. sum = [s \in SUBSET rows |->
                   IF s = {} THEN 0
                   ELSE PassengerPrice(unit, CHOOSE x \in s : TRUE)
                          + sum[s \ {CHOOSE x \in s : TRUE}]]
    BY <2>1, <1>6 DEF IsSum
  <2>3. iter = [s \in SUBSET rows |->
                   IF s = {} THEN 0
                   ELSE PassengerPrice(unit, CHOOSE x \in s : TRUE)
                          + iter[s \ {CHOOSE x \in s : TRUE}]]
    BY <2>2
  <2>4. MapThenSumSet(LAMBDA p : PassengerPrice(unit, p), rows) = iter[rows]
    BY DEF MapThenSumSet, MapThenFoldSet
  <2>. HIDE DEF iter
  <2>5. IsSum(F, rows, iter)
    BY <2>3, <1>6 DEF IsSum
  <2>6. iter[rows] \in Nat
    BY <1>3, <1>5, <2>5, SumIsNatural
  <2>. QED BY <2>4, <2>6
<1>8. Cardinality(rows) \in Nat
  BY <1>3, FS_CardinalityType
<1>9. (IF Quantity - Cardinality(rows) > 0 THEN (Quantity - Cardinality(rows)) * unit ELSE 0) \in Nat
  BY <1>8, PricingAssumption
<1>. QED BY <1>7, <1>9 DEF FullPrice, rows

-----------------------------------------------------------------------------
(* Types.                                                                  *)

(* An order as it is written, and what the requests carry on to it.        *)
RowTyped(row) ==
  /\ row.status \in {"none", "pending", "paid", "cancelled"}
  /\ row.total \in Nat /\ row.discount \in Nat /\ row.unit \in Nat
  /\ row.coupon \in BOOLEAN

OrdersTyped == \A o \in Bookings : RowTyped(order[o])

JobTyped(j) ==
  /\ j.op = "create" => RowTyped(j.row)
  /\ j.op = "edit" /\ j.stage \in {"delete", "write"} => j.total \in Nat /\ j.discount \in Nat

JobsTyped == \A c \in Jobs : JobTyped(job[c])

PaymentsTyped == \A n \in DOMAIN payment : payment[n].status \in {"open", "paid", "closed"}

VoucherTyped ==
  /\ LedgerTypeOK
  /\ admin # NoLimit => TermsOK(admin)

TypesInv ==
  /\ VoucherTyped
  /\ OrdersTyped
  /\ JobsTyped
  /\ PaymentsTyped
  /\ requests \in [RequestKinds -> Nat]
  /\ overtaken \subseteq Bookings /\ byHand \subseteq Bookings

LEMMA TypesInvTypes == TypesInv => PricingTypeOK
  BY DEF TypesInv, PricingTypeOK, VoucherTyped, OrdersTyped, RowTyped, PaymentsTyped

-----------------------------------------------------------------------------
(* What is computed.                                                       *)
LEMMA DiscountType ==
  ASSUME VoucherTyped, NEW amount \in Nat
  PROVE  VoucherDiscount(amount) \in Nat
<1>1. /\ voucher.value \in Nat /\ voucher.cap \in Limits /\ voucher.percent \in BOOLEAN
  BY DEF VoucherTyped, LedgerTypeOK, TermsOK, VoucherTerms
<1>2. Percent(amount, voucher.value) \in Nat
  <2>1. 2 * amount * voucher.value \in Nat
    <3>1. amount * voucher.value \in Nat /\ 2 * amount \in Nat
      BY <1>1
    <3>. QED BY <1>1, <3>1, ProductNat
  <2>. DEFINE n == 2 * amount * voucher.value
  <2>. HIDE DEF n
  <2>2. (n + 100) \div 200 \in Nat
    BY <2>1 DEF n
  <2>. QED BY <2>2 DEF Percent, n
<1>. QED BY <1>1, <1>2 DEF VoucherDiscount, Limits

LEMMA PricedType ==
  ASSUME VoucherTyped, NEW unit \in Nat, NEW mix \in Mixes, NEW by, NEW coupon \in BOOLEAN, NEW u
  PROVE  LET price == Priced(unit, RowsOf(mix, by), coupon, u)
         IN  price.discount \in Nat /\ price.total \in Nat
<1>. DEFINE full == FullPrice(unit, RowsOf(mix, by))
            discount == IF coupon THEN VoucherDiscount(full) ELSE 0
<1>1. full \in Nat
  BY FullPriceType
<1>. HIDE DEF full
<1>2. discount \in Nat
  BY <1>1, DiscountType
<1>. HIDE DEF discount
<1>3. Minus(full, discount) \in Nat
  BY <1>1, <1>2 DEF Minus
<1>. QED BY <1>2, <1>3 DEF Priced, full, discount

-----------------------------------------------------------------------------
(* The voucher.                                                            *)
LEMMA ClaimTyped ==
  ASSUME VoucherTyped, NEW o \in Bookings, NEW u \in Buyers, ClaimUse(o, u)
  PROVE  VoucherTyped'
<1>1. voucher' = [voucher EXCEPT !.used = voucher.used + 1]
  BY DEF ClaimUse
<1>2. VoucherShape(voucher) /\ voucher.used \in Nat
  BY DEF VoucherTyped, LedgerTypeOK, VoucherShape
<1>3. DOMAIN voucher' = DOMAIN voucher /\ voucher'.used \in Nat
      /\ \A f \in DOMAIN voucher : f # "used" => voucher'[f] = voucher[f]
  BY <1>1, <1>2 DEF VoucherShape
<1>4. VoucherShape(voucher)' /\ voucher'.state = voucher.state /\ TermsOK(voucher)'
  BY <1>2, <1>3 DEF VoucherShape, TermsOK, VoucherTyped, LedgerTypeOK, VoucherTerms
<1>. QED BY <1>3, <1>4 DEF VoucherTyped, LedgerTypeOK, ClaimUse, TermsOK

LEMMA ReturnTyped ==
  ASSUME VoucherTyped, NEW o, ReturnUse(o)
  PROVE  VoucherTyped'
<1>1. /\ usages' \subseteq usages /\ UNCHANGED <<admin, edits, granted>>
      /\ \/ voucher' = voucher
         \/ voucher.used > 0 /\ voucher' = [voucher EXCEPT !.used = voucher.used - 1]
  BY DEF ReturnUse
<1>2. CASE voucher' = voucher
  BY <1>1, <1>2 DEF VoucherTyped, LedgerTypeOK, TermsOK, VoucherShape
<1>3. CASE voucher.used > 0 /\ voucher' = [voucher EXCEPT !.used = voucher.used - 1]
  <2>1. VoucherShape(voucher) /\ voucher.used \in Nat
    BY DEF VoucherTyped, LedgerTypeOK, VoucherShape
  <2>2. DOMAIN voucher' = DOMAIN voucher /\ voucher'.used \in Nat
        /\ \A f \in DOMAIN voucher : f # "used" => voucher'[f] = voucher[f]
    BY <1>3, <2>1 DEF VoucherShape
  <2>3. VoucherShape(voucher)' /\ voucher'.state = voucher.state /\ TermsOK(voucher)'
    BY <2>1, <2>2 DEF VoucherShape, TermsOK, VoucherTyped, LedgerTypeOK, VoucherTerms
  <2>. QED BY <1>1, <2>2, <2>3 DEF VoucherTyped, LedgerTypeOK, TermsOK
<1>. QED BY <1>1, <1>2, <1>3

LEMMA OperateTyped ==
  ASSUME VoucherTyped, LedgerInv, Operate
  PROVE  VoucherTyped'
<1>1. CASE AdminCreate
  <2>1. PICK row \in VoucherRows : voucher' = row
    BY <1>1 DEF AdminCreate, WriteVoucher
  <2>2. /\ VoucherShape(row) /\ row.state \in States
        /\ DOMAIN VoucherTerms \subseteq DOMAIN row /\ TermsOK(row)
    BY LedgerAssumption
  <2>3. UNCHANGED <<usages, admin>> /\ edits' \in Nat
    BY <1>1 DEF AdminCreate, Edit, VoucherTyped, LedgerTypeOK
  <2>. QED BY <2>1, <2>2, <2>3 DEF VoucherTyped, LedgerTypeOK, TermsOK
<1>2. CASE CheckVoucher
  <2>1. PICK columns \in VoucherEdits \cup {[state |-> "deleted", active |-> FALSE]} :
          admin' = columns
    BY <1>2 DEF CheckVoucher
  <2>2. TermsOK(columns)
    <3>1. TermsOK([state |-> "deleted", active |-> FALSE])
      <4>. DEFINE gone == [state |-> "deleted", active |-> FALSE]
      <4>1. ASSUME NEW f \in DOMAIN gone \cap DOMAIN VoucherTerms PROVE f = "active"
        BY DEF VoucherTerms
      <4>2. gone["active"] \in VoucherTerms["active"]
        BY DEF VoucherTerms
      <4>. HIDE DEF gone
      <4>3. TermsOK(gone)
        BY <4>1, <4>2 DEF TermsOK
      <4>. QED BY <4>3 DEF gone
    <3>. QED BY <3>1, LedgerAssumption
  <2>3. UNCHANGED <<voucher, usages>> /\ edits' \in Nat
    BY <1>2 DEF CheckVoucher, Edit, VoucherTyped, LedgerTypeOK
  <2>. QED BY <2>1, <2>2, <2>3 DEF VoucherTyped, LedgerTypeOK, TermsOK, VoucherShape
<1>3. CASE UpdateVoucher
  <2>. DEFINE row == Overwrite(voucher, admin)
  <2>1. voucher' = row /\ UNCHANGED <<usages, edits>> /\ admin' = NoLimit /\ admin # NoLimit
    BY <1>3 DEF UpdateVoucher, WriteVoucher
  <2>2. DOMAIN row = DOMAIN voucher
        /\ \A f \in DOMAIN row : row[f] = IF f \in DOMAIN admin THEN admin[f] ELSE voucher[f]
    BY DEF Overwrite
  <2>. HIDE DEF row
  <2>3. VoucherShape(row) /\ row.state \in States
    BY <2>1, <2>2 DEF LedgerInv, VoucherShape, VoucherTyped, LedgerTypeOK, States
  <2>4. DOMAIN VoucherTerms \subseteq DOMAIN row /\ TermsOK(row)
    BY <2>1, <2>2 DEF TermsOK, VoucherTyped, LedgerTypeOK
  <2>. QED BY <2>1, <2>3, <2>4 DEF VoucherTyped, LedgerTypeOK, TermsOK
<1>4. CASE DatesPass
  <2>1. PICK d \in {"valid", "late"} : voucher' = [voucher EXCEPT !.dates = d]
    BY <1>4 DEF DatesPass
  <2>2. UNCHANGED <<usages, admin>> /\ edits' \in Nat
    BY <1>4 DEF DatesPass, Edit, VoucherTyped, LedgerTypeOK
  <2>3. DOMAIN voucher' = DOMAIN voucher
        /\ \A f \in DOMAIN voucher : voucher'[f] = IF f = "dates" THEN d ELSE voucher[f]
    BY <2>1 DEF VoucherTyped, LedgerTypeOK, VoucherTerms
  <2>4. VoucherShape(voucher)' /\ voucher'.state \in States
    BY <2>3 DEF VoucherTyped, LedgerTypeOK, VoucherShape
  <2>5. TermsOK(voucher)'
    BY <2>3 DEF VoucherTyped, LedgerTypeOK, TermsOK, VoucherTerms
  <2>. QED BY <2>2, <2>3, <2>4, <2>5 DEF VoucherTyped, LedgerTypeOK, TermsOK
<1>. QED BY <1>1, <1>2, <1>3, <1>4 DEF Operate

LEMMA SameVoucherTyped ==
  ASSUME VoucherTyped, UNCHANGED lvars PROVE VoucherTyped'
  BY DEF VoucherTyped, LedgerTypeOK, TermsOK, VoucherShape, lvars

-----------------------------------------------------------------------------
(* The steps.                                                              *)
LEMMA SpentType ==
  ASSUME TypesInv, NEW kind \in RequestKinds, Spent(kind)
  PROVE  requests' \in [RequestKinds -> Nat]
<1>1. requests \in [RequestKinds -> Nat] /\ requests[kind] > 0
      /\ requests' = [requests EXCEPT ![kind] = requests[kind] - 1]
  BY DEF TypesInv, Spent
<1>2. requests[kind] - 1 \in Nat
  BY <1>1
<1>. QED BY <1>1, <1>2

LEMMA SetJobTyped ==
  ASSUME PricingInv, TypesInv, NEW c \in Jobs, NEW j, JobTyped(j), job' = [job EXCEPT ![c] = j]
  PROVE  JobsTyped'
<1>1. \A d \in Jobs : job'[d] = IF d = c THEN j ELSE job[d]
  BY DEF PricingInv, ShapesOK, JobsOK
<1>2. ASSUME NEW d \in Jobs PROVE JobTyped(job[d])'
  BY <1>1 DEF TypesInv, JobsTyped, JobTyped, RowTyped
<1>. QED BY <1>2 DEF JobsTyped

LEMMA EndJobTyped ==
  ASSUME PricingInv, TypesInv, NEW c \in Jobs, EndJob(c) PROVE JobsTyped'
<1>1. JobTyped(NoJob)
  BY DEF JobTyped
<1>. QED BY <1>1, SetJobTyped DEF EndJob

(* A request that goes on and changes nothing else.                        *)
LEMMA JobStepTyped ==
  ASSUME TypesInv, JobsTyped', UNCHANGED <<lvars, order, payment, overtaken, byHand>>,
         requests' \in [RequestKinds -> Nat]
  PROVE  TypesInv'
<1>1. VoucherTyped'
  BY SameVoucherTyped DEF TypesInv
<1>2. OrdersTyped' /\ PaymentsTyped' /\ overtaken' \subseteq Bookings /\ byHand' \subseteq Bookings
  BY DEF TypesInv, OrdersTyped, RowTyped, PaymentsTyped
<1>. QED BY <1>1, <1>2 DEF TypesInv

LEMMA SameRequests == TypesInv /\ UNCHANGED requests => requests' \in [RequestKinds -> Nat]
  BY DEF TypesInv

LEMMA StartOrderTyped ==
  ASSUME PricingInv, TypesInv, NEW c \in Jobs, StartOrder(c)
  PROVE  TypesInv'
<1>1. PICK u \in Buyers, unit \in UnitPrices, mix \in Mixes, coupon \in BOOLEAN :
        LET o == CHOOSE o \in Fresh : TRUE
            rows == RowsOf(mix, <<c, requests["create"]>>)
            price == Priced(unit, rows, coupon, u)
        IN  /\ Len(mix) <= Quantity
            /\ price.ok
            /\ job' = [job EXCEPT ![c] =
                 [op |-> "create", stage |-> IF coupon THEN "read" ELSE "insert", order |-> o,
                  seen |-> LimitsRead,
                  row |-> [status |-> "pending", user |-> u, unit |-> unit, rows |-> rows,
                           coupon |-> coupon, discount |-> price.discount,
                           total |-> price.total]]]
  BY Zenon DEF StartOrder
<1>. DEFINE o == CHOOSE o \in Fresh : TRUE
            rows == RowsOf(mix, <<c, requests["create"]>>)
            price == Priced(unit, rows, coupon, u)
            row == [status |-> "pending", user |-> u, unit |-> unit, rows |-> rows,
                    coupon |-> coupon, discount |-> price.discount, total |-> price.total]
            j == [op |-> "create", stage |-> IF coupon THEN "read" ELSE "insert", order |-> o,
                  seen |-> LimitsRead, row |-> row]
<1>2. unit \in Nat
  BY PricingAssumption
<1>3. price.discount \in Nat /\ price.total \in Nat
  BY <1>2, PricedType DEF TypesInv
<1>. HIDE DEF o, rows, price
<1>4. RowTyped(row)
  BY <1>2, <1>3 DEF RowTyped
<1>5. JobTyped(j)
  BY <1>4 DEF JobTyped
<1>6. job' = [job EXCEPT ![c] = j]
  BY <1>1 DEF o, rows, price
<1>7. UNCHANGED <<lvars, order, payment, overtaken, byHand>> /\ Spent("create")
  BY DEF StartOrder
<1>. HIDE DEF j
<1>. QED BY <1>5, <1>6, <1>7, SetJobTyped, JobStepTyped, SpentType
   DEF RequestKinds

LEMMA ReadLimitsTyped ==
  ASSUME PricingInv, TypesInv, NEW c \in Jobs, ReadLimits(c)
  PROVE  TypesInv'
<1>1. UNCHANGED <<lvars, order, payment, requests, overtaken, byHand>>
  BY DEF ReadLimits
<1>2. JobsTyped'
  <2>1. CASE ~CanClaim
    BY <2>1, EndJobTyped DEF ReadLimits
  <2>2. CASE CanClaim
    <3>. DEFINE j == [job[c] EXCEPT !.stage = "insert", !.seen = LimitsRead]
    <3>1. job' = [job EXCEPT ![c] = j]
      BY <2>2, JobFacts DEF ReadLimits
    <3>2. job[c].op = "create" /\ j.op = job[c].op /\ j.row = job[c].row
      BY JobFacts DEF ReadLimits, In, JobOK
    <3>. HIDE DEF j
    <3>3. JobTyped(j)
      BY <3>2 DEF TypesInv, JobsTyped, JobTyped
    <3>. QED BY <3>1, <3>3, SetJobTyped
  <2>. QED BY <2>1, <2>2
<1>. QED BY <1>1, <1>2, JobStepTyped, SameRequests

LEMMA StartEditTyped ==
  ASSUME PricingInv, TypesInv, NEW c \in Jobs, StartEdit(c)
  PROVE  TypesInv'
<1>1. PICK o \in Bookings, mix \in Mixes :
        LET rows == RowsOf(mix, <<c, requests["edit"]>>)
            price == Priced(order[o].unit, rows, order[o].coupon, order[o].user)
        IN  job' = [job EXCEPT ![c] =
                 [op |-> "edit", stage |-> "delete", order |-> o, rows |-> rows, gone |-> {},
                  discount |-> price.discount, total |-> price.total,
                  changed |-> price.total # order[o].total]]
  BY DEF StartEdit
<1>. DEFINE rows == RowsOf(mix, <<c, requests["edit"]>>)
            price == Priced(order[o].unit, rows, order[o].coupon, order[o].user)
            j == [op |-> "edit", stage |-> "delete", order |-> o, rows |-> rows, gone |-> {},
                  discount |-> price.discount, total |-> price.total,
                  changed |-> price.total # order[o].total]
<1>2. order[o].unit \in Nat /\ order[o].coupon \in BOOLEAN
  BY DEF TypesInv, OrdersTyped, RowTyped
<1>3. price.discount \in Nat /\ price.total \in Nat
  BY <1>2, PricedType DEF TypesInv
<1>4. job' = [job EXCEPT ![c] = j]
  BY <1>1
<1>. HIDE DEF rows, price
<1>5. JobTyped(j)
  BY <1>3 DEF JobTyped
<1>6. UNCHANGED <<lvars, order, payment, overtaken, byHand>> /\ Spent("edit")
  BY DEF StartEdit
<1>. HIDE DEF j
<1>. QED BY <1>4, <1>5, <1>6, SetJobTyped, JobStepTyped, SpentType
   DEF RequestKinds

LEMMA DeleteRowsTyped ==
  ASSUME PricingInv, TypesInv, NEW c \in Jobs, DeleteRows(c)
  PROVE  TypesInv'
<1>. DEFINE j == [job[c] EXCEPT !.gone = order[job[c].order].rows, !.stage = "write"]
<1>1. job' = [job EXCEPT ![c] = j]
  BY JobFacts DEF DeleteRows
<1>2. job[c].op = "edit" /\ job[c].stage = "delete" /\ j.op = "edit"
      /\ j.total = job[c].total /\ j.discount = job[c].discount
  BY JobFacts DEF DeleteRows, In, JobOK
<1>. HIDE DEF j
<1>3. JobTyped(j)
  BY <1>2 DEF TypesInv, JobsTyped, JobTyped
<1>4. UNCHANGED <<lvars, order, payment, requests, overtaken, byHand>>
  BY DEF DeleteRows
<1>. QED BY <1>1, <1>3, <1>4, SetJobTyped, JobStepTyped, SameRequests

(* The requests that carry no prices.                                      *)
LEMMA PlainJobTyped ==
  ASSUME PricingInv, TypesInv, NEW c \in Jobs, NEW j, job' = [job EXCEPT ![c] = j],
         j.op # "create", j.op = "edit" => j.stage = "cancel"
  PROVE  JobsTyped'
<1>1. JobTyped(j)
  BY DEF JobTyped
<1>. QED BY <1>1, SetJobTyped

LEMMA StartPageTyped ==
  ASSUME PricingInv, TypesInv, NEW c \in Jobs, StartPage(c)
  PROVE  TypesInv'
<1>1. UNCHANGED <<lvars, order, payment, overtaken, byHand>> /\ Spent("page")
  BY DEF StartPage
<1>2. PICK o \in Bookings : job' = [job EXCEPT ![c] =
             [op |-> "page", stage |-> "list", order |-> o, amount |-> order[o].total]]
  BY DEF StartPage
<1>. DEFINE j == [op |-> "page", stage |-> "list", order |-> o, amount |-> order[o].total]
<1>3. /\ job' = [job EXCEPT ![c] = j]
      /\ j.op # "create" /\ (j.op = "edit" => j.stage = "cancel")
  BY <1>2
<1>. HIDE DEF j
<1>4. JobsTyped'
  BY <1>3, PlainJobTyped
<1>. QED BY <1>1, <1>4, JobStepTyped, SpentType DEF RequestKinds

LEMMA ListForPageTyped ==
  ASSUME PricingInv, TypesInv, NEW c \in Jobs, ListForPage(c)
  PROVE  TypesInv'
<1>1. UNCHANGED <<lvars, order, payment, requests, overtaken, byHand>>
  BY DEF ListForPage
<1>2. \/ EndJob(c)
      \/ job' = [job EXCEPT ![c] =
           [op |-> "page", stage |-> "create", order |-> job[c].order,
            amount |-> job[c].amount, open |-> OpenPayments(job[c].order)]]
  BY DEF ListForPage
<1>. DEFINE j == [op |-> "page", stage |-> "create", order |-> job[c].order,
                  amount |-> job[c].amount, open |-> OpenPayments(job[c].order)]
<1>3. \/ EndJob(c)
      \/ /\ job' = [job EXCEPT ![c] = j]
         /\ j.op # "create" /\ (j.op = "edit" => j.stage = "cancel")
  BY <1>2
<1>. HIDE DEF j
<1>4. JobsTyped'
  BY <1>3, EndJobTyped, PlainJobTyped
<1>. QED BY <1>1, <1>4, JobStepTyped, SameRequests

LEMMA ListPaymentsTyped ==
  ASSUME PricingInv, TypesInv, NEW c \in Jobs, ListPayments(c)
  PROVE  TypesInv'
<1>1. /\ UNCHANGED <<lvars, order, payment, overtaken, byHand>>
      /\ UNCHANGED requests \/ Spent("error")
  BY DEF ListPayments
<1>2. \/ EndJob(c)
      \/ job' = [job EXCEPT ![c] =
           [op |-> "edit", stage |-> "cancel", order |-> job[c].order,
            open |-> OpenPayments(job[c].order)]]
  BY DEF ListPayments
<1>. DEFINE j == [op |-> "edit", stage |-> "cancel", order |-> job[c].order,
                  open |-> OpenPayments(job[c].order)]
<1>3. \/ EndJob(c)
      \/ /\ job' = [job EXCEPT ![c] = j]
         /\ j.op # "create" /\ (j.op = "edit" => j.stage = "cancel")
  BY <1>2
<1>. HIDE DEF j
<1>4. JobsTyped'
  BY <1>3, EndJobTyped, PlainJobTyped
<1>. QED BY <1>1, <1>4, JobStepTyped, SpentType, SameRequests DEF RequestKinds

LEMMA StartSettlementTyped ==
  ASSUME PricingInv, TypesInv, NEW c \in Jobs, StartSettlement(c)
  PROVE  TypesInv'
<1>1. UNCHANGED <<lvars, order, payment, overtaken, byHand>> /\ Spent("settle")
  BY DEF StartSettlement
<1>2. PICK n \in DOMAIN payment : job' = [job EXCEPT ![c] =
             [op |-> "settle", stage |-> "advance", order |-> payment[n].order]]
  BY DEF StartSettlement
<1>. DEFINE j == [op |-> "settle", stage |-> "advance", order |-> payment[n].order]
<1>3. /\ job' = [job EXCEPT ![c] = j]
      /\ j.op # "create" /\ (j.op = "edit" => j.stage = "cancel")
  BY <1>2
<1>. HIDE DEF j
<1>4. JobsTyped'
  BY <1>3, PlainJobTyped
<1>. QED BY <1>1, <1>4, JobStepTyped, SpentType DEF RequestKinds

-----------------------------------------------------------------------------
(* Steps that write payments.                                              *)
LEMMA AppendTyped ==
  ASSUME NEW s, IsSeq(s), \A n \in DOMAIN s : s[n].status \in {"open", "paid", "closed"},
         NEW o, NEW amount,
         payment' = Append(s, [order |-> o, amount |-> amount, status |-> "open"])
  PROVE  PaymentsTyped'
<1>. DEFINE row == [order |-> o, amount |-> amount, status |-> "open"]
<1>1. row.status = "open"
  OBVIOUS
<1>. HIDE DEF row
<1>2. \A n \in DOMAIN Append(s, row) :
        Append(s, row)[n] = row \/ (n \in DOMAIN s /\ Append(s, row)[n] = s[n])
  BY AppendRow, Zenon
<1>3. payment' = Append(s, row)
  BY DEF row
<1>4. \A n \in DOMAIN payment' : payment'[n] = row \/ (n \in DOMAIN s /\ payment'[n] = s[n])
  BY <1>2, <1>3, Zenon
<1>. QED BY <1>1, <1>4 DEF PaymentsTyped

LEMMA ClosedTyped ==
  ASSUME PricingInv, TypesInv, NEW rows
  PROVE  /\ IsSeq(Closed(rows))
         /\ \A n \in DOMAIN Closed(rows) : Closed(rows)[n].status \in {"open", "paid", "closed"}
<1>1. IsSeq(Closed(rows))
  BY ClosedOK DEF PricingInv
<1>2. ASSUME NEW n \in DOMAIN payment
      PROVE  Closed(rows)[n].status \in {"open", "paid", "closed"}
  <2>1. "status" \in DOMAIN payment[n] /\ payment[n].status \in {"open", "paid", "closed"}
    BY DEF PricingInv, PaymentsOK, PaymentOK, TypesInv, PaymentsTyped
  <2>2. Closed(rows)[n] = payment[n] \/ Closed(rows)[n] = [payment[n] EXCEPT !.status = "closed"]
    BY DEF Closed
  <2>. QED BY <2>1, <2>2
<1>3. DOMAIN Closed(rows) = DOMAIN payment
  BY DEF Closed
<1>. QED BY <1>1, <1>2, <1>3

LEMMA PaymentStepTyped ==
  ASSUME TypesInv, JobsTyped', PaymentsTyped', UNCHANGED <<lvars, order, overtaken, byHand>>,
         requests' \in [RequestKinds -> Nat]
  PROVE  TypesInv'
<1>1. VoucherTyped'
  BY SameVoucherTyped DEF TypesInv
<1>2. OrdersTyped' /\ overtaken' \subseteq Bookings /\ byHand' \subseteq Bookings
  BY DEF TypesInv, OrdersTyped, RowTyped
<1>. QED BY <1>1, <1>2 DEF TypesInv

LEMMA CancelPaymentsTyped ==
  ASSUME PricingInv, TypesInv, NEW c \in Jobs, CancelPayments(c)
  PROVE  TypesInv'
<1>1. /\ payment' = Closed(job[c].open) /\ EndJob(c)
      /\ UNCHANGED <<lvars, order, requests, overtaken, byHand>>
  BY DEF CancelPayments
<1>2. PaymentsTyped'
  BY <1>1, ClosedTyped DEF PaymentsTyped
<1>. QED BY <1>1, <1>2, EndJobTyped, PaymentStepTyped, SameRequests

LEMMA CreatePageTyped ==
  ASSUME PricingInv, TypesInv, NEW c \in Jobs, CreatePage(c)
  PROVE  TypesInv'
<1>1. /\ EndJob(c) /\ UNCHANGED <<lvars, order, overtaken, byHand>>
      /\ UNCHANGED requests \/ Spent("error")
  BY DEF CreatePage
<1>2. PICK s \in {payment, Closed(job[c].open)} :
        payment' = Append(s, [order |-> job[c].order, amount |-> job[c].amount, status |-> "open"])
  BY DEF CreatePage
<1>3. IsSeq(s) /\ \A n \in DOMAIN s : s[n].status \in {"open", "paid", "closed"}
  <2>1. CASE s = payment
    BY <2>1 DEF PricingInv, PaymentsOK, TypesInv, PaymentsTyped
  <2>2. CASE s = Closed(job[c].open)
    BY <2>2, ClosedTyped
  <2>. QED BY <2>1, <2>2
<1>4. PaymentsTyped'
  BY <1>2, <1>3, AppendTyped
<1>5. requests' \in [RequestKinds -> Nat]
  BY <1>1, SpentType, SameRequests DEF RequestKinds
<1>. QED BY <1>1, <1>4, <1>5, EndJobTyped, PaymentStepTyped

LEMMA PayTyped ==
  ASSUME PricingInv, TypesInv, NEW n \in DOMAIN payment, Pay(n)
  PROVE  TypesInv'
<1>1. payment' = [payment EXCEPT ![n].status = "paid"]
      /\ UNCHANGED <<lvars, order, job, overtaken, byHand>> /\ Spent("pay")
  BY DEF Pay
<1>2. PaymentsTyped'
  <2>1. ASSUME NEW k \in DOMAIN payment PROVE payment'[k].status \in {"open", "paid", "closed"}
    <3>1. "status" \in DOMAIN payment[k] /\ payment[k].status \in {"open", "paid", "closed"}
      BY DEF PricingInv, PaymentsOK, PaymentOK, TypesInv, PaymentsTyped
    <3>2. payment'[k] = IF k = n THEN [payment[k] EXCEPT !.status = "paid"] ELSE payment[k]
      BY <1>1
    <3>. QED BY <3>1, <3>2
  <2>2. DOMAIN payment' = DOMAIN payment
    BY <1>1
  <2>. QED BY <2>1, <2>2 DEF PaymentsTyped
<1>3. JobsTyped'
  BY <1>1 DEF TypesInv, JobsTyped, JobTyped, RowTyped
<1>. QED BY <1>1, <1>2, <1>3, PaymentStepTyped, SpentType DEF RequestKinds

-----------------------------------------------------------------------------
(* Steps that write an order.                                              *)
LEMMA OrderStepTyped ==
  ASSUME PricingInv, TypesInv, NEW o \in Bookings, NEW row, RowTyped(row),
         order' = [order EXCEPT ![o] = row]
  PROVE  OrdersTyped'
<1>1. \A p \in Bookings : order'[p] = IF p = o THEN row ELSE order[p]
  BY DEF PricingInv, ShapesOK, OrdersOK
<1>. QED BY <1>1 DEF TypesInv, OrdersTyped, RowTyped

LEMMA StatusTyped ==
  ASSUME PricingInv, TypesInv, NEW o \in Bookings,
         NEW status \in {"none", "pending", "paid", "cancelled"},
         order' = [order EXCEPT ![o].status = status]
  PROVE  OrdersTyped'
<1>. DEFINE row == [order[o] EXCEPT !.status = status]
<1>1. order' = [order EXCEPT ![o] = row]
  BY DEF PricingInv, ShapesOK, OrdersOK
<1>2. RowTyped(order[o]) /\ DOMAIN order[o] = OrderFields
  BY DEF TypesInv, OrdersTyped, PricingInv, ShapesOK, OrdersOK
<1>3. RowTyped(row)
  BY <1>2 DEF RowTyped, OrderFields
<1>. HIDE DEF row
<1>. QED BY <1>1, <1>3, OrderStepTyped

LEMMA SamePaymentsTyped == TypesInv /\ UNCHANGED payment => PaymentsTyped'
  BY DEF TypesInv, PaymentsTyped

LEMMA AdvanceOrderTyped ==
  ASSUME PricingInv, TypesInv, NEW c \in Jobs, AdvanceOrder(c)
  PROVE  TypesInv'
<1>. DEFINE o == job[c].order
            status == IF order[o].status = "pending" THEN "paid" ELSE order[o].status
<1>1. o \in Bookings
  BY JobFacts DEF AdvanceOrder, In, JobOK
<1>2. order' = [order EXCEPT ![o].status = status] /\ EndJob(c)
      /\ UNCHANGED <<lvars, payment, requests, overtaken, byHand>>
  BY DEF AdvanceOrder
<1>3. status \in {"none", "pending", "paid", "cancelled"}
  BY <1>1 DEF TypesInv, OrdersTyped, RowTyped
<1>. HIDE DEF o, status
<1>4. OrdersTyped' /\ JobsTyped' /\ PaymentsTyped'
  BY <1>1, <1>2, <1>3, StatusTyped, EndJobTyped, SamePaymentsTyped
<1>5. VoucherTyped'
  BY <1>2, SameVoucherTyped DEF TypesInv
<1>. QED BY <1>2, <1>4, <1>5 DEF TypesInv

LEMMA MarkPaidTyped ==
  ASSUME PricingInv, TypesInv, NEW o \in Bookings, MarkPaid(o)
  PROVE  TypesInv'
<1>1. order' = [order EXCEPT ![o].status = "paid"] /\ byHand' = byHand \cup {o}
      /\ UNCHANGED <<lvars, payment, job, overtaken>> /\ Spent("mark")
  BY DEF MarkPaid
<1>2. OrdersTyped' /\ PaymentsTyped' /\ requests' \in [RequestKinds -> Nat]
  BY <1>1, StatusTyped, SamePaymentsTyped, SpentType DEF RequestKinds
<1>3. JobsTyped'
  BY <1>1 DEF TypesInv, JobsTyped, JobTyped, RowTyped
<1>4. VoucherTyped'
  BY <1>1, SameVoucherTyped DEF TypesInv
<1>. QED BY <1>1, <1>2, <1>3, <1>4 DEF TypesInv

LEMMA CancelOrderTyped ==
  ASSUME PricingInv, TypesInv, NEW o \in Bookings, CancelOrder(o)
  PROVE  TypesInv'
<1>1. order' = [order EXCEPT ![o].status = "cancelled"]
      /\ UNCHANGED <<payment, job, overtaken, byHand>> /\ Spent("cancel")
  BY DEF CancelOrder
<1>2. OrdersTyped' /\ PaymentsTyped' /\ requests' \in [RequestKinds -> Nat]
  BY <1>1, StatusTyped, SamePaymentsTyped, SpentType DEF RequestKinds
<1>3. JobsTyped'
  BY <1>1 DEF TypesInv, JobsTyped, JobTyped, RowTyped
<1>4. VoucherTyped'
  BY ReturnTyped, SameVoucherTyped DEF TypesInv, CancelOrder, ReleaseUsage
<1>. QED BY <1>1, <1>2, <1>3, <1>4 DEF TypesInv

LEMMA FirstPaymentTyped ==
  ASSUME PricingInv, TypesInv, NEW c \in Jobs, FirstPayment(c)
  PROVE  TypesInv'
<1>. DEFINE o == job[c].order
<1>1. o \in Bookings
  BY JobFacts DEF FirstPayment, In, JobOK
<1>2. EndJob(c) /\ UNCHANGED <<overtaken, byHand>>
  BY DEF FirstPayment
<1>3. CASE AddPayment(o, job[c].row.total) /\ UNCHANGED <<lvars, order, requests>>
  <2>1. IsSeq(payment) /\ \A n \in DOMAIN payment : payment[n].status \in {"open", "paid", "closed"}
    BY DEF PricingInv, PaymentsOK, TypesInv, PaymentsTyped
  <2>2. payment' = Append(payment, [order |-> o, amount |-> job[c].row.total, status |-> "open"])
    BY <1>3 DEF AddPayment
  <2>. HIDE DEF o
  <2>3. PaymentsTyped'
    BY <2>1, <2>2, AppendTyped
  <2>. QED BY <1>2, <1>3, <2>3, EndJobTyped, PaymentStepTyped, SameRequests
<1>4. CASE /\ Spent("error") /\ order' = [order EXCEPT ![o].status = "cancelled"]
           /\ ReleaseUsage(o) /\ UNCHANGED payment
  <2>. HIDE DEF o
  <2>1. OrdersTyped' /\ PaymentsTyped' /\ requests' \in [RequestKinds -> Nat] /\ JobsTyped'
    BY <1>1, <1>2, <1>4, StatusTyped, SamePaymentsTyped, SpentType, EndJobTyped DEF RequestKinds
  <2>2. VoucherTyped'
    BY <1>4, ReturnTyped, SameVoucherTyped DEF TypesInv, ReleaseUsage
  <2>. QED BY <1>2, <2>1, <2>2 DEF TypesInv
<1>. QED BY <1>3, <1>4 DEF FirstPayment

LEMMA InsertOrderTyped ==
  ASSUME PricingInv, TypesInv, NEW c \in Jobs, InsertOrder(c)
  PROVE  TypesInv'
<1>. DEFINE o == job[c].order
            row == job[c].row
            j == [job[c] EXCEPT !.stage = "pay"]
<1>1. /\ job[c].op = "create" /\ o \in Bookings /\ row.user \in Buyers
      /\ j.op = "create" /\ j.row = row
  BY JobFacts DEF InsertOrder, In, JobOK
<1>2. RowTyped(row)
  BY <1>1 DEF TypesInv, JobsTyped, JobTyped
<1>3. UNCHANGED <<payment, requests, overtaken, byHand>>
  BY DEF InsertOrder
<1>4. CASE EndJob(c) /\ UNCHANGED <<lvars, order>>
  BY <1>3, <1>4, EndJobTyped, JobStepTyped, SameRequests
<1>5. CASE /\ order' = [order EXCEPT ![o] = row]
           /\ IF row.coupon THEN ClaimUse(o, row.user) ELSE UNCHANGED lvars
           /\ Goto(c, "pay")
  <2>1. job' = [job EXCEPT ![c] = j]
    BY <1>5, JobFacts DEF Goto
  <2>2. VoucherTyped'
    BY <1>1, <1>5, ClaimTyped, SameVoucherTyped DEF TypesInv
  <2>. HIDE DEF o, row, j
  <2>3. JobTyped(j)
    BY <1>1, <1>2 DEF JobTyped
  <2>4. OrdersTyped' /\ PaymentsTyped' /\ JobsTyped'
    BY <1>1, <1>2, <1>3, <1>5, <2>1, <2>3, OrderStepTyped, SamePaymentsTyped, SetJobTyped
  <2>. QED BY <1>3, <2>2, <2>4 DEF TypesInv
<1>. QED BY <1>4, <1>5 DEF InsertOrder

LEMMA CommitEditTyped ==
  ASSUME PricingInv, TypesInv, NEW c \in Jobs, CommitEdit(c)
  PROVE  TypesInv'
<1>. DEFINE o == job[c].order
            row == Edited(order[o], job[c])
<1>1. job[c].op = "edit" /\ job[c].stage = "write" /\ o \in Bookings
  BY JobFacts DEF CommitEdit, In, JobOK
<1>2. job[c].total \in Nat /\ job[c].discount \in Nat
  BY <1>1 DEF TypesInv, JobsTyped, JobTyped
<1>3. RowTyped(order[o]) /\ DOMAIN order[o] = OrderFields
  BY <1>1 DEF TypesInv, OrdersTyped, PricingInv, ShapesOK, OrdersOK
<1>4. RowTyped(row)
  BY <1>2, <1>3 DEF RowTyped, OrderFields, Edited
<1>5. /\ order' = [order EXCEPT ![o] = row] /\ UNCHANGED <<lvars, payment, requests, byHand>>
      /\ overtaken' \in {overtaken, overtaken \cup {o}}
  BY DEF CommitEdit
<1>6. PICK j \in {NoJob, [job[c] EXCEPT !.stage = "list"]} : job' = [job EXCEPT ![c] = j]
  BY JobFacts DEF CommitEdit, Goto, EndJob
<1>7. JobTyped(j)
  <2>1. j.op = "none" \/ (j.op = "edit" /\ j.stage = "list")
    BY <1>1, JobFacts DEF JobOK
  <2>. QED BY <2>1 DEF JobTyped
<1>. HIDE DEF o, row
<1>8. OrdersTyped' /\ PaymentsTyped' /\ JobsTyped'
  BY <1>1, <1>4, <1>5, <1>6, <1>7, OrderStepTyped, SamePaymentsTyped, SetJobTyped
<1>9. VoucherTyped' /\ overtaken' \subseteq Bookings /\ byHand' \subseteq Bookings
  BY <1>1, <1>5, SameVoucherTyped DEF TypesInv
<1>. QED BY <1>5, <1>8, <1>9 DEF TypesInv

LEMMA OperateStepTyped ==
  ASSUME PricingInv, TypesInv, Operate,
         UNCHANGED <<order, payment, job, requests, overtaken, byHand>>
  PROVE  TypesInv'
<1>1. VoucherTyped'
  BY OperateTyped DEF TypesInv, PricingInv
<1>. QED BY <1>1 DEF TypesInv, OrdersTyped, JobsTyped, JobTyped, RowTyped, PaymentsTyped

-----------------------------------------------------------------------------
LEMMA InitTyped ==
  ASSUME InitPricing PROVE TypesInv
<1>1. /\ order = [o \in Bookings |-> NewOrder] /\ payment = <<>>
      /\ job = [c \in Jobs |-> NoJob] /\ overtaken = {} /\ byHand = {}
      /\ usages = {} /\ admin = NoLimit
      /\ voucher \in VoucherRows
  BY DEF InitPricing, InitLedger
<1>2. edits \in Nat /\ requests \in [RequestKinds -> Nat]
  BY PricingAssumption DEF InitPricing
<1>3. VoucherTyped
  BY <1>1, <1>2, LedgerAssumption DEF VoucherTyped, LedgerTypeOK
<1>4. OrdersTyped /\ JobsTyped
  BY <1>1 DEF OrdersTyped, RowTyped, NewOrder, JobsTyped, JobTyped
<1>5. PaymentsTyped
  BY <1>1 DEF PaymentsTyped
<1>. QED BY <1>1, <1>2, <1>3, <1>4, <1>5 DEF TypesInv

LEMMA NextTyped ==
  ASSUME PricingInv, TypesInv, [NextPricing]_pvars
  PROVE  TypesInv'
<1>1. ASSUME NEW c \in Jobs,
             \/ StartOrder(c) \/ ReadLimits(c) \/ InsertOrder(c) \/ FirstPayment(c)
             \/ StartEdit(c) \/ DeleteRows(c) \/ CommitEdit(c) \/ ListPayments(c)
             \/ CancelPayments(c) \/ StartPage(c) \/ ListForPage(c) \/ CreatePage(c)
             \/ StartSettlement(c) \/ AdvanceOrder(c)
      PROVE  TypesInv'
  BY <1>1, StartOrderTyped, ReadLimitsTyped, InsertOrderTyped, FirstPaymentTyped, StartEditTyped,
     DeleteRowsTyped, CommitEditTyped, ListPaymentsTyped, CancelPaymentsTyped, StartPageTyped,
     ListForPageTyped, CreatePageTyped, StartSettlementTyped, AdvanceOrderTyped
<1>2. ASSUME NEW n \in DOMAIN payment, Pay(n) PROVE TypesInv'
  BY <1>2, PayTyped
<1>3. ASSUME NEW o \in Bookings, MarkPaid(o) \/ CancelOrder(o) PROVE TypesInv'
  BY <1>3, MarkPaidTyped, CancelOrderTyped
<1>4. CASE Operate /\ UNCHANGED <<order, payment, job, requests, money, overtaken, byHand>>
  BY <1>4, OperateStepTyped
<1>5. CASE UNCHANGED pvars
  <2>1. UNCHANGED <<lvars, order, payment, job, requests, overtaken, byHand>>
    BY <1>5 DEF pvars
  <2>2. JobsTyped'
    BY <2>1 DEF TypesInv, JobsTyped, JobTyped, RowTyped
  <2>. QED BY <2>1, <2>2, JobStepTyped, SameRequests
<1>. QED BY <1>1, <1>2, <1>3, <1>4, <1>5 DEF NextPricing

(* Amounts are natural numbers whatever is priced, discounted, edited and  *)
(* paid, the statuses are those of the code, and the voucher's row keeps   *)
(* its columns (OrderPricing!PricingTypeOK).                               *)
THEOREM PricingTypesHold == SpecPricing => []PricingTypeOK
<1>1. InitPricing => TypesInv
  BY InitTyped
<1>2. PricingInv /\ TypesInv /\ [NextPricing]_pvars => TypesInv'
  BY NextTyped
<1>. QED BY <1>1, <1>2, PricingInductive, TypesInvTypes, PTL DEF SpecPricing

-----------------------------------------------------------------------------
(* Paging through a search (TripSearch).  The second sum of the project,   *)
(* the seats that are left on a trip, is needed here.                      *)
(*                                                                         *)
(* A set with an order that has no ties can be listed,    *)
(* each element at the place that the number of its predecessors gives it. *)
LinearOrder(S, R) ==
  /\ R \subseteq S \X S
  /\ \A x \in S : <<x, x>> \notin R
  /\ \A x, y, z \in S : <<x, y>> \in R /\ <<y, z>> \in R => <<x, z>> \in R
  /\ \A x, y \in S : x # y => <<x, y>> \in R \/ <<y, x>> \in R

IsListing(S, R, list) ==
  /\ list \in [1..Cardinality(S) -> S]
  /\ \A i, j \in DOMAIN list : i < j => <<list[i], list[j]>> \in R

Earlier(S, R, x) == {y \in S : <<y, x>> \in R}

Rank(S, R, x) == Cardinality(Earlier(S, R, x)) + 1

LEMMA RankGrows ==
  ASSUME NEW S, IsFiniteSet(S), NEW R, LinearOrder(S, R), NEW x \in S
  PROVE  /\ Rank(S, R, x) \in 1..Cardinality(S)
         /\ \A y \in S : <<x, y>> \in R => Rank(S, R, x) < Rank(S, R, y)
<1>1. ASSUME NEW T \in SUBSET S, NEW y \in S, y \notin T, NEW U \in SUBSET S, T \subseteq U, y \in U
      PROVE  Cardinality(T) \in Nat /\ Cardinality(U) \in Nat /\ Cardinality(T) < Cardinality(U)
  <2>1. IsFiniteSet(U) /\ IsFiniteSet(T)
    BY FS_Subset
  <2>2. Cardinality(T) \in Nat /\ Cardinality(U) \in Nat
    BY <2>1, FS_CardinalityType
  <2>3. Cardinality(T) <= Cardinality(U) /\ (Cardinality(U) = Cardinality(T) => U = T)
    BY <1>1, <2>1, FS_Subset
  <2>4. U # T
    BY <1>1
  <2>. QED BY <2>2, <2>3, <2>4
<1>2. Earlier(S, R, x) \in SUBSET S /\ x \notin Earlier(S, R, x)
  BY DEF Earlier, LinearOrder
<1>3. Rank(S, R, x) \in 1..Cardinality(S)
  BY <1>1, <1>2 DEF Rank
<1>4. ASSUME NEW y \in S, <<x, y>> \in R PROVE Rank(S, R, x) < Rank(S, R, y)
  <2>1. Earlier(S, R, y) \in SUBSET S /\ x \in Earlier(S, R, y)
    BY <1>4 DEF Earlier
  <2>2. Earlier(S, R, x) \subseteq Earlier(S, R, y)
    BY <1>4 DEF Earlier, LinearOrder
  <2>. QED BY <1>1, <1>2, <2>1, <2>2 DEF Rank
<1>. QED BY <1>3, <1>4

LEMMA ListingIsOrdered ==
  ASSUME NEW S, IsFiniteSet(S), NEW R, LinearOrder(S, R)
  PROVE  IsListing(S, R, Listing(S, R))
<1>. DEFINE n == Cardinality(S)
            rank == [x \in S |-> Rank(S, R, x)]
            place(i) == CHOOSE x \in S : rank[x] = i
            list == [i \in 1..n |-> place(i)]
<1>0. n \in Nat
  BY FS_CardinalityType
<1>1. rank \in [S -> 1..n] /\ \A x, y \in S : <<x, y>> \in R => rank[x] < rank[y]
  BY RankGrows
<1>. HIDE DEF rank, n
<1>2. \A x, y \in S : rank[x] < rank[y] => <<x, y>> \in R
  <2>1. ASSUME NEW x \in S, NEW y \in S, rank[x] < rank[y] PROVE <<x, y>> \in R
    <3>1. rank[x] \in Int /\ rank[y] \in Int
      BY <1>0, <1>1
    <3>2. <<y, x>> \notin R
      BY <1>1, <2>1, <3>1
    <3>3. x # y
      BY <2>1, <3>1
    <3>. QED BY <3>2, <3>3 DEF LinearOrder
  <2>. QED BY <2>1
<1>3. rank \in Surjection(S, 1..n)
  <2>1. ASSUME NEW x \in S, NEW y \in S, rank[x] = rank[y] PROVE x = y
    <3>1. rank[x] \in Int /\ rank[y] \in Int
      BY <1>0, <1>1
    <3>2. <<x, y>> \notin R /\ <<y, x>> \notin R
      BY <1>1, <2>1, <3>1
    <3>. QED BY <3>2 DEF LinearOrder
  <2>2. rank \in Injection(S, 1..n)
    BY <1>1, <2>1 DEF Injection, IsInjective
  <2>3. IsFiniteSet(1..n) /\ Cardinality(1..n) = n
    <3>1. 1 <= n => n - 1 + 1 = n
      BY <1>0
    <3>2. IsFiniteSet(1..n) /\ Cardinality(1..n) = IF 1 > n THEN 0 ELSE n - 1 + 1
      BY <1>0, FS_Interval
    <3>. QED BY <1>0, <3>2
  <2>4. Cardinality(S) = Cardinality(1..n)
    BY <2>3 DEF n
  <2>. QED BY <2>2, <2>3, <2>4, FS_Injection
<1>4. ASSUME NEW i \in 1..n PROVE list[i] \in S /\ rank[list[i]] = i
  <2>1. \E x \in S : rank[x] = i
    BY <1>3 DEF Surjection
  <2>. QED BY <2>1
<1>5. list \in [1..n -> S]
  BY <1>4
<1>6. ASSUME NEW i \in DOMAIN list, NEW j \in DOMAIN list, i < j
      PROVE  <<list[i], list[j]>> \in R
  <2>1. i \in 1..n /\ j \in 1..n
    OBVIOUS
  <2>. HIDE DEF list
  <2>2. rank[list[i]] < rank[list[j]]
    BY <1>4, <1>6, <2>1
  <2>. QED BY <1>2, <1>4, <2>1, <2>2
<1>. HIDE DEF list
<1>7. \E l \in [1..Cardinality(S) -> S] :
        \A i, j \in DOMAIN l : i < j => <<l[i], l[j]>> \in R
  BY <1>5, <1>6 DEF n
<1>. QED BY <1>7 DEF IsListing, Listing

LEMMA ListingShowsAll ==
  ASSUME NEW S, IsFiniteSet(S), NEW R, LinearOrder(S, R), NEW list, IsListing(S, R, list)
  PROVE  /\ list \in Seq(S) /\ Len(list) = Cardinality(S)
         /\ {list[i] : i \in DOMAIN list} = S
<1>. DEFINE n == Cardinality(S)
<1>1. n \in Nat
  BY FS_CardinalityType
<1>2. list \in [1..n -> S] /\ DOMAIN list = 1..n
  BY DEF IsListing
<1>3. \A i, j \in 1..n : i < j => <<list[i], list[j]>> \in R
  BY <1>2 DEF IsListing
<1>. HIDE DEF n
<1>4. list \in Seq(S) /\ Len(list) = n
  BY <1>1, <1>2
<1>5. ASSUME NEW i \in 1..n, NEW j \in 1..n, list[i] = list[j] PROVE i = j
  <2>1. list[i] \in S /\ list[j] \in S
    BY <1>2
  <2>2. <<list[i], list[j]>> \notin R /\ <<list[j], list[i]>> \notin R
    BY <1>5, <2>1 DEF LinearOrder
  <2>3. ~(i < j) /\ ~(j < i)
    BY <1>3, <2>2
  <2>. QED BY <1>1, <2>3
<1>6. list \in Injection(1..n, S)
  BY <1>2, <1>5 DEF Injection, IsInjective
<1>7. Cardinality(1..n) = n
  <2>1. Cardinality(1..n) = IF 1 > n THEN 0 ELSE n - 1 + 1
    BY <1>1, FS_Interval
  <2>. QED BY <1>1, <2>1
<1>8. list \in Surjection(1..n, S)
  BY <1>6, <1>7, FS_Injection DEF n
<1>9. {list[i] : i \in DOMAIN list} = S
  BY <1>2, <1>8 DEF Surjection
<1>. QED BY <1>4, <1>9 DEF n

(* Pages: what the first p of them show of a list.                         *)
Shown(list, p) == SubSeq(list, 1, IF p * Limit < Len(list) THEN p * Limit ELSE Len(list))

LEMMA PagesType ==
  ASSUME NEW p \in Nat
  PROVE  Limit \in Nat \ {0} /\ p * Limit \in Nat /\ (p + 1) * Limit = p * Limit + Limit
<1>1. Limit \in Nat \ {0}
  BY SearchAssumption
<1>. QED BY <1>1

LEMMA FirstPage ==
  ASSUME NEW S, NEW list \in Seq(S)
  PROVE  PageOf(list, 1) = Shown(list, 1)
<1>1. (1 - 1) * Limit + 1 = 1
  BY PagesType
<1>. QED BY <1>1 DEF PageOf, Shown

LEMMA PagesJoin ==
  ASSUME NEW S, NEW list \in Seq(S), NEW p \in Nat, p * Limit < Len(list)
  PROVE  Shown(list, p) \o PageOf(list, p + 1) = Shown(list, p + 1)
<1>. DEFINE a == p * Limit
            b == (p + 1) * Limit
            c == IF b < Len(list) THEN b ELSE Len(list)
<1>1. a \in Nat /\ b \in Nat /\ a < b /\ (p + 1 - 1) * Limit + 1 = a + 1 /\ a < Len(list)
  <2>1. Limit \in Nat \ {0} /\ a \in Nat /\ b = a + Limit
    BY PagesType
  <2>2. p + 1 - 1 = p
    OBVIOUS
  <2>3. (p + 1 - 1) * Limit = a
    BY <2>2
  <2>. HIDE DEF a, b
  <2>4. a \in Nat /\ b \in Nat /\ a < b
    BY <2>1
  <2>. QED BY <2>3, <2>4 DEF a
<1>2. /\ Shown(list, p) = SubSeq(list, 1, a)
      /\ PageOf(list, p + 1) = SubSeq(list, a + 1, c)
      /\ Shown(list, p + 1) = SubSeq(list, 1, c)
  BY <1>1 DEF Shown, PageOf
<1>3. Len(list) \in Nat
  OBVIOUS
<1>. HIDE DEF a, b
<1>4. c \in Nat /\ a < c /\ c <= Len(list)
  BY <1>1, <1>3
<1>. HIDE DEF c
<1>5. SubSeq(list, 1, a) \o SubSeq(list, a + 1, c) = SubSeq(list, 1, c)
  BY <1>1, <1>3, <1>4
<1>. QED BY <1>2, <1>5

LEMMA PagesCount ==
  ASSUME NEW n \in Nat, NEW p \in Nat
  PROVE  p < TotalPages(n) <=> p * Limit < n
<1>. DEFINE x == n + Limit - 1
            q == x \div Limit
<1>1. Limit \in Nat /\ Limit > 0 /\ x \in Nat /\ x = n + Limit - 1 /\ p * Limit \in Nat
  <2>1. Limit \in Nat \ {0} /\ p * Limit \in Nat
    BY PagesType
  <2>2. Limit \in Nat /\ Limit > 0 /\ x \in Nat /\ x = n + Limit - 1
    BY <2>1
  <2>. QED BY <2>1, <2>2
<1>. HIDE DEF x
<1>2. q \in Nat /\ x = q * Limit + (x % Limit) /\ x % Limit \in 0..(Limit - 1)
  BY <1>1
<1>. HIDE DEF q
<1>3. q * Limit \in Nat /\ q * Limit >= n /\ q * Limit < n + Limit
  BY <1>1, <1>2
<1>4. CASE p < q
  <2>1. (p + 1) * Limit <= q * Limit /\ (p + 1) * Limit = p * Limit + Limit
    BY <1>1, <1>2, <1>4
  <2>. QED BY <1>1, <1>3, <1>4, <2>1 DEF TotalPages, q, x
<1>5. CASE q <= p
  <2>1. q * Limit <= p * Limit
    BY <1>1, <1>2, <1>5
  <2>. QED BY <1>1, <1>2, <1>3, <1>5, <2>1 DEF TotalPages, q, x
<1>. QED BY <1>2, <1>4, <1>5

LEMMA AllShown ==
  ASSUME NEW S, NEW list \in Seq(S), NEW p \in Nat, p * Limit >= Len(list)
  PROVE  Shown(list, p) = list
<1>1. p * Limit \in Nat /\ Len(list) \in Nat
  BY PagesType
<1>2. ~(p * Limit < Len(list))
  BY <1>1
<1>. QED BY <1>2 DEF Shown

-----------------------------------------------------------------------------
(* What a result is sorted by are numbers.                                 *)
LEMMA MinIsNatural ==
  ASSUME NEW S, S \subseteq Nat, S # {}
  PROVE  Min(S) \in Nat
<1>1. PICK n \in S : \A m \in S : n <= m
  BY LeastNumber
<1>. QED BY <1>1 DEF Min

LEMMA MinPriceType ==
  ASSUME NEW t \in Trips, TripOK(trip[t])
  PROVE  MinPrice(t) \in Nat \cup {Missing}
<1>. DEFINE prices == {DisplayPrice(trip[t].items[i]) : i \in Shop(t)} \ {Missing}
<1>1. prices \subseteq Nat
  BY DEF Shop, TripOK, ItemOK, DisplayPrice
<1>2. MinPrice(t) = IF prices = {} THEN Missing ELSE Min(prices)
  BY DEF MinPrice
<1>. HIDE DEF prices
<1>. QED BY <1>1, <1>2, MinIsNatural

(* The seats of a trip, as the sum the library computes.                   *)
Stocks(t) == [i \in Shop(t) |-> trip[t].items[i].stock]

SeatSum(F, S) == CHOOSE sum : IsSum(F, S, sum)

SeatTable(items, S, sum) ==
  [s \in SUBSET S |->
    IF s = {} THEN 0
    ELSE items[CHOOSE x \in s : TRUE].stock + sum[s \ {CHOOSE x \in s : TRUE}]]

LEMMA SeatTableIsSum ==
  ASSUME NEW items, NEW S
  PROVE  (CHOOSE sum : sum = SeatTable(items, S, sum)) = SeatSum([i \in S |-> items[i].stock], S)
<1>. DEFINE F == [i \in S |-> items[i].stock]
<1>1. ASSUME NEW sum PROVE SeatTable(items, S, sum) = [s \in SUBSET S |-> AddOne(F, sum, s)]
  <2>1. ASSUME NEW s \in SUBSET S, s # {}
        PROVE  items[CHOOSE x \in s : TRUE].stock + sum[s \ {CHOOSE x \in s : TRUE}]
                 = AddOne(F, sum, s)
    <3>1. (CHOOSE x \in s : TRUE) \in S
      BY <2>1
    <3>. QED BY <2>1, <3>1 DEF AddOne, Pick
  <2>. QED BY <2>1 DEF AddOne, SeatTable
<1>2. ASSUME NEW sum PROVE (sum = SeatTable(items, S, sum)) <=> IsSum(F, S, sum)
  BY <1>1 DEF IsSum
<1>. QED BY <1>2 DEF SeatSum

LEMMA SeatsAreASum ==
  ASSUME NEW t PROVE AvailableSeats(t) = SeatSum(Stocks(t), Shop(t))[Shop(t)]
<1>1. AvailableSeats(t)
        = (CHOOSE sum : sum = SeatTable(trip[t].items, Shop(t), sum))[Shop(t)]
  BY DEF AvailableSeats, MapThenSumSet, MapThenFoldSet, SeatTable
<1>. QED BY <1>1, SeatTableIsSum DEF Stocks

LEMMA AvailableSeatsType ==
  ASSUME NEW t \in Trips, TripOK(trip[t])
  PROVE  AvailableSeats(t) \in Nat
<1>1. IsFiniteSet(Shop(t))
  BY FS_Subset DEF Shop, TripOK
<1>2. Stocks(t) \in [Shop(t) -> Nat]
  BY DEF Stocks, Shop, TripOK, ItemOK
<1>3. IsSum(Stocks(t), Shop(t), SeatSum(Stocks(t), Shop(t)))
  BY <1>1, <1>2, SumExists DEF SeatSum
<1>4. SeatSum(Stocks(t), Shop(t))[Shop(t)] \in Nat
  BY <1>1, <1>2, <1>3, SumIsNatural
<1>. QED BY <1>4, SeatsAreASum

LEMMA SortKeyType ==
  ASSUME NEW t \in Trips, TripOK(trip[t]), NEW sort \in Sorts
  PROVE  /\ SortKey(t, sort) \in Int
         /\ Departs(t, Infinity) \in Int
<1>1. Departs(t, Infinity) \in Int /\ Departs(t, -1) \in Int
  BY DEF Departs, TripOK, Infinity
<1>2. sort = "price" => SortKey(t, sort) \in Int
  BY MinPriceType DEF SortKey, Infinity
<1>3. sort = "departure" => SortKey(t, sort) \in Int
  BY <1>1 DEF SortKey
<1>4. sort = "recommended" => SortKey(t, sort) \in Int
  BY AvailableSeatsType DEF SortKey
<1>. QED BY <1>1, <1>2, <1>3, <1>4 DEF Sorts

(* A search's order has no ties: rows that sort alike are told apart by    *)
(* the order of the SELECT, and that by their age.                         *)
TripsOK == DOMAIN trip = Trips /\ \A t \in Trips : TripOK(trip[t])

SortOrder(q) == {p \in Found(q) \X Found(q) : Precedes(p[1], p[2], q.sort)}

LEMMA SortIsLinear ==
  ASSUME TripsOK, NEW q \in Searches
  PROVE  IsFiniteSet(Found(q)) /\ LinearOrder(Found(q), SortOrder(q))
<1>. DEFINE S == Found(q)
            R == SortOrder(q)
<1>1. S \subseteq Trips /\ Trips \subseteq Int /\ IsFiniteSet(Trips) /\ q.sort \in Sorts
  BY SearchAssumption DEF Found
<1>2. IsFiniteSet(S)
  BY <1>1, FS_Subset
<1>3. ASSUME NEW s \in S
      PROVE  s \in Int /\ SortKey(s, q.sort) \in Int /\ Departs(s, Infinity) \in Int
  BY <1>1, SortKeyType DEF TripsOK
<1>4. \A s, t \in S : <<s, t>> \in R <=> Precedes(s, t, q.sort)
  BY DEF SortOrder
<1>5. R \subseteq S \X S
  BY DEF SortOrder
<1>. HIDE DEF S, R
<1>6. ASSUME NEW s \in S PROVE <<s, s>> \notin R
  BY <1>3, <1>4 DEF Precedes, SelectedBefore
<1>7. ASSUME NEW r \in S, NEW s \in S, NEW t \in S, <<r, s>> \in R, <<s, t>> \in R
      PROVE  <<r, t>> \in R
  BY <1>3, <1>4, <1>7 DEF Precedes, SelectedBefore
<1>8. ASSUME NEW s \in S, NEW t \in S, s # t PROVE <<s, t>> \in R \/ <<t, s>> \in R
  BY <1>3, <1>4, <1>8 DEF Precedes, SelectedBefore
<1>9. LinearOrder(S, R)
  BY <1>5, <1>6, <1>7, <1>8 DEF LinearOrder
<1>. QED BY <1>2, <1>9 DEF S, R

LEMMA SortedShowsAll ==
  ASSUME TripsOK, NEW q \in Searches
  PROVE  /\ Sorted(q) \in Seq(Found(q)) /\ Len(Sorted(q)) = Cardinality(Found(q))
         /\ {Sorted(q)[i] : i \in DOMAIN Sorted(q)} = Found(q)
<1>1. IsListing(Found(q), SortOrder(q), Sorted(q))
  BY SortIsLinear, ListingIsOrdered DEF Sorted, SortOrder
<1>. QED BY <1>1, SortIsLinear, ListingShowsAll

-----------------------------------------------------------------------------
(* The walk: until a change disturbs the order, what was shown is the      *)
(* beginning of the one list that every search of the walk computes.       *)
Settled == stirred \cap Unsettles(walk.query.sort) = {}

WalkOK ==
  walk # NoWalk =>
    /\ DOMAIN walk = {"query", "shown", "page", "pages"}
    /\ walk.query \in Searches /\ walk.page \in Nat \ {0}
    /\ Settled =>
         /\ walk.shown = Shown(Sorted(walk.query), walk.page)
         /\ walk.pages = TotalPages(Cardinality(Found(walk.query)))

SearchInv == TripsOK /\ WalkOK

LEMMA SearchInvShows == SearchInv => WalkShowsEveryTripOnce
<1>. SUFFICES ASSUME SearchInv, walk # NoWalk, ~Underway, Settled
              PROVE  /\ {walk.shown[i] : i \in DOMAIN walk.shown} = Found(walk.query)
                     /\ Len(walk.shown) = Cardinality(Found(walk.query))
  BY DEF WalkShowsEveryTripOnce, Settled
<1>. DEFINE list == Sorted(walk.query)
            n == Cardinality(Found(walk.query))
<1>1. /\ walk.query \in Searches /\ walk.page \in Nat /\ TripsOK
      /\ walk.shown = Shown(list, walk.page) /\ walk.pages = TotalPages(n)
  BY DEF SearchInv, WalkOK
<1>2. /\ list \in Seq(Found(walk.query)) /\ Len(list) = n
      /\ {list[i] : i \in DOMAIN list} = Found(walk.query)
  BY <1>1, SortedShowsAll
<1>3. n \in Nat
  BY <1>2
<1>4. ~(walk.page * Limit < n)
  BY <1>1, <1>3, PagesCount DEF Underway
<1>5. walk.page * Limit >= Len(list)
  <2>1. walk.page * Limit \in Nat
    BY <1>1, PagesType
  <2>. QED BY <1>2, <1>3, <1>4, <2>1
<1>. HIDE DEF list, n
<1>6. walk.shown = list
  BY <1>1, <1>2, <1>5, AllShown
<1>. QED BY <1>2, <1>6 DEF n

(* A change that leaves a trip where it was.                               *)
LooksSame(t) ==
  /\ trip'[t].public = trip[t].public
  /\ trip'[t].from = trip[t].from /\ trip'[t].to = trip[t].to
  /\ trip'[t].day = trip[t].day /\ trip'[t].hour = trip[t].hour
  /\ DOMAIN trip'[t].items = DOMAIN trip[t].items
  /\ \A i \in DOMAIN trip[t].items :
       /\ trip'[t].items[i].live = trip[t].items[i].live
       /\ trip'[t].items[i].class = trip[t].items[i].class

SamePrices(t) ==
  \A i \in DOMAIN trip[t].items : DisplayPrice(trip'[t].items[i]) = DisplayPrice(trip[t].items[i])

SameSeats(t) ==
  \A i \in DOMAIN trip[t].items : trip'[t].items[i].stock = trip[t].items[i].stock

LEMMA SameKey ==
  ASSUME NEW t \in Trips, LooksSame(t), NEW sort \in Sorts,
         sort = "price" => SamePrices(t), sort = "recommended" => SameSeats(t)
  PROVE  /\ SortKey(t, sort)' = SortKey(t, sort)
         /\ Departs(t, Infinity)' = Departs(t, Infinity)
<1>1. Shop(t)' = Shop(t)
  BY DEF LooksSame, Shop
<1>2. Departs(t, Infinity)' = Departs(t, Infinity) /\ Departs(t, -1)' = Departs(t, -1)
  BY DEF LooksSame, Departs
<1>3. CASE sort = "price"
  <2>1. {DisplayPrice(trip'[t].items[i]) : i \in Shop(t)}
          = {DisplayPrice(trip[t].items[i]) : i \in Shop(t)}
    BY <1>3 DEF SamePrices, Shop
  <2>2. MinPrice(t)' = MinPrice(t)
    BY <1>1, <2>1 DEF MinPrice
  <2>. QED BY <1>2, <1>3, <2>2 DEF SortKey
<1>4. CASE sort = "recommended"
  <2>1. Stocks(t)' = Stocks(t)
    BY <1>1, <1>4 DEF Stocks, SameSeats, Shop
  <2>2. AvailableSeats(t)' = AvailableSeats(t)
    <3>1. AvailableSeats(t)'
            = (CHOOSE sum : sum = SeatTable(trip'[t].items, Shop(t)', sum))[Shop(t)']
      BY DEF AvailableSeats, MapThenSumSet, MapThenFoldSet, SeatTable
    <3>2. AvailableSeats(t)' = SeatSum(Stocks(t)', Shop(t)')[Shop(t)']
      BY <3>1, SeatTableIsSum DEF Stocks
    <3>. QED BY <1>1, <2>1, <3>2, SeatsAreASum
  <2>. QED BY <1>2, <1>4, <2>2 DEF SortKey
<1>5. CASE sort = "departure"
  BY <1>2, <1>5 DEF SortKey
<1>. QED BY <1>2, <1>3, <1>4, <1>5 DEF Sorts

LEMMA SameResult ==
  ASSUME NEW q \in Searches, \A t \in Trips : LooksSame(t),
         q.sort = "price" => \A t \in Trips : SamePrices(t),
         q.sort = "recommended" => \A t \in Trips : SameSeats(t)
  PROVE  Found(q)' = Found(q) /\ Sorted(q)' = Sorted(q)
<1>1. ASSUME NEW t \in Trips
      PROVE  /\ Selected(t, q)' <=> Selected(t, q)
             /\ MatchesTimeOfDay(t, q.time)' <=> MatchesTimeOfDay(t, q.time)
             /\ MatchesSeatClass(t, q.class)' <=> MatchesSeatClass(t, q.class)
  <2>1. LooksSame(t)
    OBVIOUS
  <2>2. Selected(t, q)' <=> Selected(t, q)
    BY <2>1 DEF LooksSame, Selected
  <2>3. MatchesTimeOfDay(t, q.time)' <=> MatchesTimeOfDay(t, q.time)
    BY <2>1 DEF LooksSame, MatchesTimeOfDay
  <2>4. Shop(t)' = Shop(t)
    BY <2>1 DEF LooksSame, Shop
  <2>5. {trip'[t].items[i].class : i \in Shop(t)} = {trip[t].items[i].class : i \in Shop(t)}
    BY <2>1 DEF LooksSame, Shop
  <2>6. MatchesSeatClass(t, q.class)' <=> MatchesSeatClass(t, q.class)
    BY <2>4, <2>5 DEF MatchesSeatClass
  <2>. QED BY <2>2, <2>3, <2>6
<1>2. Found(q)' = Found(q)
  BY <1>1 DEF Found
<1>3. ASSUME NEW s \in Trips, NEW t \in Trips
      PROVE  Precedes(s, t, q.sort)' <=> Precedes(s, t, q.sort)
  <2>1. q.sort \in Sorts
    BY SearchAssumption
  <2>2. /\ SortKey(s, q.sort)' = SortKey(s, q.sort) /\ SortKey(t, q.sort)' = SortKey(t, q.sort)
        /\ Departs(s, Infinity)' = Departs(s, Infinity)
        /\ Departs(t, Infinity)' = Departs(t, Infinity)
    BY <2>1, SameKey
  <2>. QED BY <2>2 DEF Precedes, SelectedBefore
<1>4. SortOrder(q)' = SortOrder(q)
  <2>1. Found(q) \subseteq Trips
    BY DEF Found
  <2>2. SortOrder(q)' = {p \in Found(q) \X Found(q) : Precedes(p[1], p[2], q.sort)'}
    BY <1>2 DEF SortOrder
  <2>3. ASSUME NEW p \in Found(q) \X Found(q)
        PROVE  Precedes(p[1], p[2], q.sort)' <=> Precedes(p[1], p[2], q.sort)
    <3>1. p[1] \in Trips /\ p[2] \in Trips
      BY <2>1
    <3>. QED BY <1>3, <3>1
  <2>. QED BY <2>2, <2>3 DEF SortOrder
<1>5. Sorted(q)' = Listing(Found(q)', SortOrder(q)') /\ Sorted(q) = Listing(Found(q), SortOrder(q))
  BY DEF Sorted, SortOrder
<1>. QED BY <1>2, <1>4, <1>5

-----------------------------------------------------------------------------
LEMMA SetItem ==
  ASSUME TripsOK, NEW t \in Trips, NEW i \in DOMAIN trip[t].items, NEW new, ItemOK(new),
         NEW kind, Swap(t, i, new, kind)
  PROVE  /\ TripsOK'
         /\ DOMAIN trip'[t].items = DOMAIN trip[t].items
         /\ \A j \in DOMAIN trip[t].items :
              trip'[t].items[j] = IF j = i THEN new ELSE trip[t].items[j]
         /\ \A s \in Trips : s # t => trip'[s] = trip[s]
         /\ new.live = trip[t].items[i].live /\ new.class = trip[t].items[i].class =>
              \A s \in Trips : LooksSame(s)
<1>. DEFINE row == [trip[t] EXCEPT !.items[i] = new]
<1>1. TripOK(trip[t]) /\ \A s \in Trips : TripOK(trip[s])
  BY DEF TripsOK
<1>2. /\ DOMAIN trip' = Trips /\ trip'[t] = row
      /\ \A s \in Trips : s # t => trip'[s] = trip[s]
  BY DEF Swap, Alter, TripsOK
<1>3. /\ DOMAIN row = DOMAIN trip[t]
      /\ \A f \in DOMAIN trip[t] : f # "items" => row[f] = trip[t][f]
      /\ row.items = [trip[t].items EXCEPT ![i] = new]
  BY <1>1 DEF TripOK
<1>4. /\ DOMAIN row.items = DOMAIN trip[t].items
      /\ \A j \in DOMAIN trip[t].items : row.items[j] = IF j = i THEN new ELSE trip[t].items[j]
  BY <1>3
<1>5. /\ row.public = trip[t].public /\ row.from = trip[t].from /\ row.to = trip[t].to
      /\ row.day = trip[t].day /\ row.hour = trip[t].hour
  BY <1>1, <1>3 DEF TripOK
<1>. HIDE DEF row
<1>6. TripOK(row)
  BY <1>1, <1>3, <1>4, <1>5 DEF TripOK
<1>7. TripsOK'
  BY <1>1, <1>2, <1>6 DEF TripsOK
<1>8. ASSUME new.live = trip[t].items[i].live, new.class = trip[t].items[i].class,
             NEW s \in Trips
      PROVE  LooksSame(s)
  <2>1. CASE s = t
    BY <1>2, <1>4, <1>5, <1>8, <2>1 DEF LooksSame
  <2>2. CASE s # t
    BY <1>2, <2>2 DEF LooksSame
  <2>. QED BY <2>1, <2>2
<1>. QED BY <1>2, <1>4, <1>7, <1>8

(* A change of the rows while a walk is under way.                         *)
LEMMA AlterKeeps ==
  ASSUME SearchInv, NEW t \in Trips, NEW row, NEW kind, Alter(t, row, kind), TripsOK',
         kind \notin Unsettles(walk.query.sort) =>
           /\ Found(walk.query)' = Found(walk.query)
           /\ Sorted(walk.query)' = Sorted(walk.query)
  PROVE  SearchInv'
<1>1. walk' = walk /\ walk # NoWalk /\ stirred' = stirred \cup {kind}
  BY DEF Alter, Underway
<1>2. CASE Settled'
  <2>1. Settled /\ kind \notin Unsettles(walk.query.sort)
    BY <1>1, <1>2 DEF Settled, Unsettles
  <2>2. Found(walk.query)' = Found(walk.query) /\ Sorted(walk.query)' = Sorted(walk.query)
    BY <2>1
  <2>. QED BY <1>1, <2>1, <2>2 DEF SearchInv, WalkOK, Shown, TotalPages
<1>3. CASE ~Settled'
  BY <1>1, <1>3 DEF SearchInv, WalkOK
<1>. QED BY <1>2, <1>3

LEMMA SellOneKeeps ==
  ASSUME SearchInv, NEW t \in Trips, SellOne(t) PROVE SearchInv'
<1>1. PICK i \in Shop(t) :
        /\ trip[t].items[i].stock > 0
        /\ Swap(t, i, [trip[t].items[i] EXCEPT !.stock = @ - 1], "seats")
  BY DEF SellOne
<1>. DEFINE it == trip[t].items[i]
            new == [it EXCEPT !.stock = @ - 1]
<1>2. TripsOK /\ i \in DOMAIN trip[t].items /\ ItemOK(it)
  BY DEF SearchInv, TripsOK, TripOK, Shop
<1>3. /\ ItemOK(new)
      /\ new.live = it.live /\ new.class = it.class /\ new.price = it.price
      /\ new.flash = it.flash /\ new.onSale = it.onSale
  BY <1>1, <1>2 DEF ItemOK
<1>4. Swap(t, i, new, "seats")
  BY <1>1
<1>. HIDE DEF new
<1>5. /\ TripsOK' /\ \A s \in Trips : LooksSame(s)
      /\ \A j \in DOMAIN trip[t].items :
           trip'[t].items[j] = IF j = i THEN new ELSE trip[t].items[j]
      /\ \A s \in Trips : s # t => trip'[s] = trip[s]
  BY <1>2, <1>3, <1>4, SetItem
<1>6. ASSUME NEW s \in Trips PROVE SamePrices(s)
  BY <1>3, <1>5 DEF SamePrices, DisplayPrice
<1>7. ASSUME "seats" \notin Unsettles(walk.query.sort)
      PROVE  /\ Found(walk.query)' = Found(walk.query)
             /\ Sorted(walk.query)' = Sorted(walk.query)
  <2>1. walk.query \in Searches
    BY <1>4 DEF Swap, Alter, Underway, SearchInv, WalkOK
  <2>2. walk.query.sort # "recommended"
    BY <1>7 DEF Unsettles
  <2>3. ASSUME NEW q \in Searches, q = walk.query
        PROVE  Found(q)' = Found(q) /\ Sorted(q)' = Sorted(q)
    BY <1>5, <1>6, <2>2, <2>3, SameResult
  <2>4. walk' = walk
    BY <1>4 DEF Swap, Alter
  <2>. QED BY <2>1, <2>3, <2>4
<1>. QED BY <1>4, <1>5, <1>7, AlterKeeps DEF Swap

LEMMA WindowPassesKeeps ==
  ASSUME SearchInv, NEW t \in Trips, WindowPasses(t) PROVE SearchInv'
<1>1. PICK i \in Shop(t) : Swap(t, i, [trip[t].items[i] EXCEPT !.onSale = ~@], "prices")
  BY DEF WindowPasses
<1>. DEFINE it == trip[t].items[i]
            new == [it EXCEPT !.onSale = ~@]
<1>2. TripsOK /\ i \in DOMAIN trip[t].items /\ ItemOK(it)
  BY DEF SearchInv, TripsOK, TripOK, Shop
<1>3. /\ ItemOK(new)
      /\ new.live = it.live /\ new.class = it.class /\ new.stock = it.stock
  BY <1>2 DEF ItemOK
<1>4. Swap(t, i, new, "prices")
  BY <1>1
<1>. HIDE DEF new
<1>5. /\ TripsOK' /\ \A s \in Trips : LooksSame(s)
      /\ \A j \in DOMAIN trip[t].items :
           trip'[t].items[j] = IF j = i THEN new ELSE trip[t].items[j]
      /\ \A s \in Trips : s # t => trip'[s] = trip[s]
  BY <1>2, <1>3, <1>4, SetItem
<1>6. ASSUME NEW s \in Trips PROVE SameSeats(s)
  BY <1>3, <1>5 DEF SameSeats
<1>7. ASSUME "prices" \notin Unsettles(walk.query.sort)
      PROVE  /\ Found(walk.query)' = Found(walk.query)
             /\ Sorted(walk.query)' = Sorted(walk.query)
  <2>1. walk.query \in Searches
    BY <1>4 DEF Swap, Alter, Underway, SearchInv, WalkOK
  <2>2. walk.query.sort # "price"
    BY <1>7 DEF Unsettles
  <2>3. ASSUME NEW q \in Searches, q = walk.query
        PROVE  Found(q)' = Found(q) /\ Sorted(q)' = Sorted(q)
    BY <1>5, <1>6, <2>2, <2>3, SameResult
  <2>4. walk' = walk
    BY <1>4 DEF Swap, Alter
  <2>. QED BY <2>1, <2>3, <2>4
<1>. QED BY <1>4, <1>5, <1>7, AlterKeeps DEF Swap

LEMMA RepublishKeeps ==
  ASSUME SearchInv, NEW t \in Trips, Republish(t) PROVE SearchInv'
<1>. DEFINE row == [trip[t] EXCEPT !.public = ~@]
<1>1. TripsOK /\ TripOK(trip[t]) /\ Alter(t, row, "trips")
  BY DEF SearchInv, TripsOK, Republish
<1>2. TripOK(row)
  BY <1>1 DEF TripOK
<1>. HIDE DEF row
<1>3. TripsOK'
  BY <1>1, <1>2 DEF TripsOK, Alter
<1>. QED BY <1>1, <1>3, AlterKeeps DEF Unsettles

LEMMA DropItemKeeps ==
  ASSUME SearchInv, NEW t \in Trips, DropItem(t) PROVE SearchInv'
<1>1. PICK i \in Shop(t) : Swap(t, i, [trip[t].items[i] EXCEPT !.live = FALSE], "trips")
  BY DEF DropItem
<1>. DEFINE new == [trip[t].items[i] EXCEPT !.live = FALSE]
<1>2. TripsOK /\ i \in DOMAIN trip[t].items /\ ItemOK(trip[t].items[i])
  BY DEF SearchInv, TripsOK, TripOK, Shop
<1>3. ItemOK(new) /\ Swap(t, i, new, "trips")
  BY <1>1, <1>2 DEF ItemOK
<1>. HIDE DEF new
<1>4. TripsOK'
  BY <1>2, <1>3, SetItem
<1>. QED BY <1>3, <1>4, AlterKeeps DEF Unsettles, Swap

-----------------------------------------------------------------------------
(* Searching changes no row, so the list that the next page is cut from is *)
(* the one the pages before were cut from.                                 *)
LEMMA SameRows ==
  ASSUME NEW q \in Searches, UNCHANGED trip
  PROVE  Found(q)' = Found(q) /\ Sorted(q)' = Sorted(q)
<1>1. \A t \in Trips : LooksSame(t) /\ SamePrices(t) /\ SameSeats(t)
  BY DEF LooksSame, SamePrices, SameSeats
<1>. QED BY <1>1, SameResult

LEMMA BeginWalkKeeps ==
  ASSUME SearchInv, BeginWalk PROVE SearchInv'
<1>1. PICK q \in Searches :
        walk' = [query |-> q, shown |-> PageOf(Sorted(q), 1), page |-> 1,
                 pages |-> TotalPages(Cardinality(Found(q)))]
  BY DEF BeginWalk
<1>2. TripsOK /\ TripsOK' /\ UNCHANGED trip
  BY DEF SearchInv, TripsOK, BeginWalk
<1>3. Sorted(q) \in Seq(Found(q)) /\ Sorted(q)' = Sorted(q) /\ Found(q)' = Found(q)
  BY <1>2, SortedShowsAll, SameRows
<1>4. PageOf(Sorted(q), 1) = Shown(Sorted(q), 1)
  BY <1>3, FirstPage
<1>5. /\ DOMAIN walk' = {"query", "shown", "page", "pages"}
      /\ walk'.query = q /\ walk'.page = 1
      /\ walk'.shown = Shown(Sorted(q)', 1)
      /\ walk'.pages = TotalPages(Cardinality(Found(q)'))
  BY <1>1, <1>3, <1>4
<1>6. ASSUME NEW w, w = walk' PROVE
        /\ w.query = q
        /\ Sorted(w.query)' = Sorted(q)' /\ Found(w.query)' = Found(q)'
  BY <1>5, <1>6
<1>7. Sorted(walk.query)' = Sorted(q)' /\ Found(walk.query)' = Found(q)'
  BY <1>6
<1>8. walk'.page \in Nat \ {0}
  BY <1>5
<1>9. WalkOK'
  BY <1>5, <1>7, <1>8 DEF WalkOK, Shown, TotalPages
<1>. QED BY <1>2, <1>9 DEF SearchInv

LEMMA NextPageKeeps ==
  ASSUME SearchInv, NextPage PROVE SearchInv'
<1>1. TripsOK /\ TripsOK' /\ UNCHANGED <<trip, stirred>>
  BY DEF SearchInv, TripsOK, NextPage
<1>2. /\ DOMAIN walk = {"query", "shown", "page", "pages"}
      /\ walk.query \in Searches /\ walk.page \in Nat \ {0} /\ walk.page < walk.pages
      /\ Settled =>
           /\ walk.shown = Shown(Sorted(walk.query), walk.page)
           /\ walk.pages = TotalPages(Cardinality(Found(walk.query)))
  BY DEF SearchInv, WalkOK, NextPage, Underway
<1>. DEFINE q == walk.query
            list == Sorted(q)
            n == Cardinality(Found(q))
<1>3. list \in Seq(Found(q)) /\ Len(list) = n
  BY <1>1, <1>2, SortedShowsAll
<1>4. /\ DOMAIN walk' = {"query", "shown", "page", "pages"}
      /\ walk'.query = q /\ walk'.page = walk.page + 1
      /\ walk'.shown = walk.shown \o PageOf(list, walk.page + 1)
      /\ walk'.pages = TotalPages(n)
  BY <1>2 DEF NextPage
<1>5. ASSUME NEW r \in Searches, r = walk.query
      PROVE  Sorted(r)' = list /\ Found(r)' = Found(q)
  BY <1>1, <1>5, SameRows
<1>6. Sorted(walk.query)' = list /\ Found(walk.query)' = Found(q)
  BY <1>2, <1>4, <1>5
<1>7. Settled' => Settled
  BY <1>1, <1>4 DEF Settled, Unsettles
<1>8. ASSUME Settled PROVE walk'.shown = Shown(list, walk'.page)
  <2>1. n \in Nat
    BY <1>3
  <2>2. walk.page * Limit < Len(list)
    BY <1>2, <1>3, <1>8, <2>1, PagesCount
  <2>3. Shown(list, walk.page) \o PageOf(list, walk.page + 1) = Shown(list, walk.page + 1)
    BY <1>2, <1>3, <2>2, PagesJoin
  <2>. QED BY <1>2, <1>4, <1>8, <2>3
<1>9. walk'.page \in Nat \ {0}
  BY <1>2, <1>4
<1>. HIDE DEF list, n
<1>10. WalkOK'
  BY <1>2, <1>4, <1>6, <1>7, <1>8, <1>9 DEF WalkOK, Shown, TotalPages, n
<1>. QED BY <1>1, <1>10 DEF SearchInv

LEMMA SearchInit == InitSearch => SearchInv
  BY SearchAssumption DEF InitSearch, SearchInv, TripsOK, WalkOK

LEMMA SearchStep == SearchInv /\ [NextSearch]_svars => SearchInv'
<1>. SUFFICES ASSUME SearchInv, [NextSearch]_svars PROVE SearchInv'
  OBVIOUS
<1>1. CASE BeginWalk
  BY <1>1, BeginWalkKeeps
<1>2. CASE NextPage
  BY <1>2, NextPageKeeps
<1>3. CASE EndWalk
  BY <1>3 DEF EndWalk, SearchInv, TripsOK, WalkOK, NoWalk
<1>4. ASSUME NEW t \in Trips, SellOne(t) PROVE SearchInv'
  BY <1>4, SellOneKeeps
<1>5. ASSUME NEW t \in Trips, WindowPasses(t) PROVE SearchInv'
  BY <1>5, WindowPassesKeeps
<1>6. ASSUME NEW t \in Trips, Republish(t) PROVE SearchInv'
  BY <1>6, RepublishKeeps
<1>7. ASSUME NEW t \in Trips, DropItem(t) PROVE SearchInv'
  BY <1>7, DropItemKeeps
<1>8. CASE UNCHANGED svars
  <2>1. TripsOK' /\ UNCHANGED <<trip, walk, stirred>>
    BY <1>8 DEF SearchInv, TripsOK, svars
  <2>2. ASSUME NEW q \in Searches, q = walk.query
        PROVE  Sorted(q)' = Sorted(walk.query) /\ Found(q)' = Found(walk.query)
    BY <2>1, <2>2, SameRows
  <2>3. walk # NoWalk =>
          Sorted(walk.query)' = Sorted(walk.query) /\ Found(walk.query)' = Found(walk.query)
    BY <2>1, <2>2 DEF SearchInv, WalkOK
  <2>4. Settled' <=> Settled
    BY <2>1 DEF Settled, Unsettles
  <2>. QED BY <2>1, <2>3, <2>4 DEF SearchInv, WalkOK, Shown, TotalPages
<1>. QED BY <1>1, <1>2, <1>3, <1>4, <1>5, <1>6, <1>7, <1>8 DEF NextSearch

(* Whoever pages through a search to the end has been shown every matching *)
(* trip once and nothing else, whatever was sold and whichever sale began  *)
(* or ended meanwhile, so long as the result is not sorted by it           *)
(* (searchTrips).                                                          *)
THEOREM WalkShowsEveryTripOnceHolds == SpecSearch => []WalkShowsEveryTripOnce
<1>1. InitSearch => SearchInv
  BY SearchInit
<1>2. SearchInv /\ [NextSearch]_svars => SearchInv'
  BY SearchStep
<1>3. SearchInv => WalkShowsEveryTripOnce
  BY SearchInvShows
<1>. QED BY <1>1, <1>2, <1>3, PTL DEF SpecSearch
=============================================================================
