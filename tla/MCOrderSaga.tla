----------------------------- MODULE MCOrderSaga -----------------------------
(* Small instances of the order saga for TLC: the orders, their seats and  *)
(* the budgets of requests and failures of each run.                       *)
EXTENDS OrderSaga, TLC

Symmetry == Permutations(Workers)

(* A budget: how often each kind may happen, zero unless said otherwise.   *)
Budget(b) == [k \in Kinds |-> IF k \in DOMAIN b THEN b[k] ELSE 0]

OneOrder == {"a"}
TwoOrders == {"a", "b"}
ThreeOrders == {"a", "b", "c"}
OneSeat == {"s1"}
TwoSeats == {"s1", "s2"}

(* Checkouts that compete for seats: a wants both, b and c one each; one   *)
(* customer submits twice.                                                 *)
CompeteWanted == [o \in ThreeOrders |->
  CASE o = "a" -> {"s1", "s2"} [] o = "b" -> {"s2"} [] OTHER -> {"s1"}]
NoExtra == [o \in ThreeOrders |-> 0]
CompeteLimit == Budget([error |-> 1, resubmit |-> 1])
CompeteVoucher == {"b", "c"}

(* The life of one order of two seats: payment, expiry by message and by   *)
(* cron, cancellation and refund race, and one call fails.                 *)
BothWanted == [o \in OneOrder |-> TwoSeats]
NoExtra1 == [o \in OneOrder |-> 0]
LifeLimit == Budget([error |-> 1, age |-> 1])

(* An order by count: orders-service dies once, one answer is lost, an     *)
(* event is delivered twice, an operator sends any command.                *)
NoneWanted == [o \in OneOrder |-> {}]
OneExtra == [o \in OneOrder |-> 1]
FaultLimit == Budget(
  [timeout |-> 1, crash |-> 1, duplicate |-> 1, age |-> 1, command |-> 1])

(* One seat and one order.                                                 *)
OneWanted == [o \in OneOrder |-> OneSeat]

(* Everybody keeps running, with two orders by count and a batch of one:   *)
(* an older order can keep a later one out of it.  orders-service dies     *)
(* once and an operator removes an order.  One handler runs at a time, and *)
(* nothing is tried again.                                                 *)
NoneWanted2 == [o \in TwoOrders |-> {}]
OneExtra2 == [o \in TwoOrders |-> 1]
LiveLimit == Budget([age |-> 2, crash |-> 1, remove |-> 1])

(* A paid order and an operator who refunds it; nothing fails.             *)
RefundLimit == Budget([age |-> 1, command |-> 1])
RefundOnly == {"refund"}

(* Two customers of one seat; a customer cancels while the cron does.      *)
SameSeat == [o \in TwoOrders |-> OneSeat]
NoExtra2 == [o \in TwoOrders |-> 0]
CancelOnly == {"cancelWorkflow"}
CancelLimit == Budget([age |-> 1, command |-> 1])

(* An operator refunds an order that is being ticketed.                    *)
IssueLimit == Budget([command |-> 1])
=============================================================================
