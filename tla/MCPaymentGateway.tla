--------------------------- MODULE MCPaymentGateway ---------------------------
(* Small instances of PaymentGateway for TLC.                              *)
EXTENDS PaymentGateway, TLC

TwoPayments == {"p1", "p2"}

Budget(b) == [k \in Kinds |-> IF k \in DOMAIN b THEN b[k] ELSE 0]

Symmetry == Permutations(Handlers) \cup Permutations(Ticks)

(* Two requests for a page, a failed call, a crash or lost request, and    *)
(* one command of an operator or of orders-service.                        *)
PaymentsLimit == Budget([request |-> 2, error |-> 1, crash |-> 1, command |-> 1])

(* One page; two attempts to publish fail; a crash or lost request.        *)
SettlementLimit == Budget([request |-> 1, error |-> 2, crash |-> 1])

(* One page and nothing fails. *)
QuietLimit == Budget([request |-> 1])
=============================================================================
