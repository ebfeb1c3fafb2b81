------------------------------ MODULE OrderPromise ------------------------------
(***************************************************************************)
(* What orders-service promises about an order, whatever its handlers do   *)
(* side by side.  An order is placed once and waits; it is sold when a     *)
(* settlement or an operator stands behind it, or its cancellation begins, *)
(* and neither is ever waiting again.  What it bought is handed back only  *)
(* once a cancellation or a refund has begun, and all of it before that is *)
(* committed; an order whose cancellation began is never sold.             *)
(*                                                                         *)
(* Two things the code does beside that are part of the promise, because   *)
(* it cannot keep a stronger one: the rollback of a checkout may void an   *)
(* order at any time (the checkout hands back what it took, not the order) *)
(* and a ticket may be issued for an order whose refund has begun, or that *)
(* was voided.                                                             *)
(***************************************************************************)
CONSTANTS Orders, Goods
VARIABLES
  stage,   \* how far each order has come
  backed,  \* orders with a settlement or an operator behind them
  due      \* what each order still has to hand back

After == {"sold", "refunding", "closed"}
Begun == After \cup {"cancelling", "cancelled"}
Stages == Begun \cup {"none", "waiting"}

Init ==
  /\ stage = [o \in Orders |-> "none"]
  /\ backed = {}
  /\ due = [o \in Orders |-> {}]

Enter(o, s) == stage' = [stage EXCEPT ![o] = s]

Place(o) ==
  /\ stage[o] = "none" /\ Enter(o, "waiting")
  /\ \E goods \in SUBSET Goods : due' = [due EXCEPT ![o] = goods]
  /\ UNCHANGED backed

Back(o) == backed' = backed \cup {o} /\ UNCHANGED <<stage, due>>

(* The settlement came before, or the operator's word with the sale.       *)
Sell(o) ==
  /\ stage[o] \in {"waiting"} \cup After /\ Enter(o, "sold")
  /\ o \in backed' /\ backed' \in {backed, backed \cup {o}}
  /\ UNCHANGED due

BeginCancel(o) == stage[o] = "waiting" /\ Enter(o, "cancelling") /\ UNCHANGED <<backed, due>>

BeginRefund(o) ==
  /\ stage[o] \in {"waiting", "cancelled"} \cup After /\ Enter(o, "refunding")
  /\ UNCHANGED <<backed, due>>

HandBack(o, p) ==
  /\ stage[o] \in Begun
  /\ due' = [due EXCEPT ![o] = @ \ {p}]
  /\ UNCHANGED <<stage, backed>>

Cancel(o) ==
  /\ stage[o] = "cancelling" /\ due[o] = {} /\ Enter(o, "cancelled")
  /\ UNCHANGED <<backed, due>>

Refund(o) ==
  /\ stage[o] \in After /\ due[o] = {} /\ Enter(o, "closed")
  /\ UNCHANGED <<backed, due>>

(* The rollback of its checkout, which has the goods.                      *)
Void(o) ==
  /\ stage[o] # "none" /\ Enter(o, "closed")
  /\ due' = [due EXCEPT ![o] = {}]
  /\ UNCHANGED backed

Next ==
  \E o \in Orders :
    \/ Place(o) \/ Back(o) \/ Sell(o) \/ Void(o)
    \/ BeginCancel(o) \/ Cancel(o) \/ BeginRefund(o) \/ Refund(o)
    \/ \E p \in Goods : HandBack(o, p)

Spec == Init /\ [][Next]_<<stage, backed, due>>
=============================================================================
