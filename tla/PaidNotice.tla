------------------------------ MODULE PaidNotice ------------------------------
(***************************************************************************)
(* What payments-service and the VNPay gateway promise about the payments  *)
(* of an order: a payment is recorded as paid only if somebody approved    *)
(* it - the payer at VNPay, or an operator by hand - and orders-service is *)
(* told only of recorded payments.  Nothing is ever taken back.            *)
(***************************************************************************)
CONSTANT Payments
VARIABLES approved, recorded, told

Init == approved = {} /\ recorded = {} /\ told = {}

Approve(p) == approved' = approved \cup {p} /\ UNCHANGED <<recorded, told>>

Record(p) ==
  /\ p \in approved
  /\ recorded' = recorded \cup {p}
  /\ UNCHANGED <<approved, told>>

Tell(p) ==
  /\ p \in recorded
  /\ told' = told \cup {p}
  /\ UNCHANGED <<approved, recorded>>

Next == \E p \in Payments : Approve(p) \/ Record(p) \/ Tell(p)

Spec == Init /\ [][Next]_<<approved, recorded, told>>
=============================================================================
