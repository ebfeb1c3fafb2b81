---------------------------- MODULE VoucherLedger ----------------------------
(***************************************************************************)
(* One voucher of orders-service and its redemptions (voucher.service.ts). *)
(*                                                                         *)
(* validateVoucher only looks: it prices the discount and refuses early.   *)
(* What keeps a voucher within its limits is reserveUsage, inside the      *)
(* transaction that inserts the order: it reads the voucher, then claims a *)
(* use with a conditional UPDATE, whose row lock the later claims wait     *)
(* for, counts the customer's uses and inserts its own.  So a claim is two *)
(* steps: the read, and the rest with the commit.                          *)
(*                                                                         *)
(* Amounts are whole VND.  Codes and texts are left out; the dates are     *)
(* where today lies in the voucher's period.                               *)
(***************************************************************************)
EXTENDS Integers, FiniteSets

CONSTANTS
  Buyers,      \* customers
  Bookings,    \* orders
  NoLimit,     \* a limit, a minimum or a cap that is null
  VoucherRows, \* the vouchers an operator may create or start with
  VoucherEdits \* the columns an operator may rewrite, as partial rows

VARIABLES
  voucher,  \* the row
  usages,   \* the rows of voucher_usages
  admin,    \* an operator's write between its check and its UPDATE
  edits,    \* bound: how many changes of operators and dates follow
  granted   \* history: the largest limits the voucher ever had

lvars == <<voucher, usages, admin, edits, granted>>

Limits == Nat \cup {NoLimit}

VoucherShape(row) ==
  /\ {"state", "used", "limit", "perUser"} \subseteq DOMAIN row
  /\ row.used \in Nat /\ row.limit \in Limits /\ row.perUser \in Limits

(* The columns an operator writes with a new voucher and may rewrite one   *)
(* by one; where the dates are follows from two of them.                   *)
VoucherTerms ==
  [active |-> BOOLEAN, dates |-> {"early", "valid", "late"}, percent |-> BOOLEAN,
   value |-> Nat, cap |-> Limits, minimum |-> Limits]

TermsOK(columns) ==
  \A f \in DOMAIN columns \cap DOMAIN VoucherTerms : columns[f] \in VoucherTerms[f]

States == {"none", "live", "deleted"}

(* adminCreate and adminUpdate write no counter of uses, and only          *)
(* adminDelete a state.                                                    *)
ASSUME LedgerAssumption ==
  /\ \A row \in VoucherRows :
       /\ VoucherShape(row) /\ row.used = 0 /\ row.state \in States
       /\ DOMAIN VoucherTerms \subseteq DOMAIN row /\ TermsOK(row)
  /\ \A columns \in VoucherEdits :
       /\ {"used", "state"} \cap DOMAIN columns = {}
       /\ "limit" \in DOMAIN columns => columns.limit \in Limits
       /\ "perUser" \in DOMAIN columns => columns.perUser \in Limits
       /\ TermsOK(columns)

LedgerTypeOK ==
  /\ VoucherShape(voucher) /\ voucher.state \in States
  /\ DOMAIN VoucherTerms \subseteq DOMAIN voucher /\ TermsOK(voucher)
  /\ usages \subseteq [order: Bookings, user: Buyers]
  /\ edits \in Nat

AtMost(n, limit) == limit # NoLimit => n <= limit

Below(n, limit) == limit # NoLimit => n < limit

UsesOf(u) == Cardinality({x \in usages : x.user = u})

-----------------------------------------------------------------------------
(* validateVoucher.                                                        *)

ValidVoucher(u, amount) ==
  /\ voucher.state = "live" /\ voucher.active /\ voucher.dates = "valid"
  /\ Below(voucher.used, voucher.limit)
  /\ Below(UsesOf(u), voucher.perUser)
  /\ voucher.minimum # NoLimit => amount >= voucher.minimum

Percent(amount, rate) == (2 * amount * rate + 100) \div 200

VoucherDiscount(amount) ==
  LET raw == IF voucher.percent THEN Percent(amount, voucher.value) ELSE voucher.value
      cap == IF voucher.percent THEN voucher.cap ELSE amount
  IN  IF cap = NoLimit \/ raw <= cap THEN raw ELSE cap

-----------------------------------------------------------------------------
(* reserveUsage: the limits it has read, and the claim.                    *)

CanClaim == voucher.state = "live" /\ voucher.active

LimitsRead == [limit |-> voucher.limit, perUser |-> voucher.perUser]

(* Mutant: the limit is only compared when the voucher is read.            *)
ClaimableUnchecked(u, seen) == CanClaim /\ Below(UsesOf(u), seen.perUser)

Claimable(u, seen) ==
  /\ CanClaim
  /\ Below(voucher.used, seen.limit)
  /\ Below(UsesOf(u), seen.perUser)

ClaimUse(o, u) ==
  /\ voucher' = [voucher EXCEPT !.used = @ + 1]
  /\ usages' = usages \cup {[order |-> o, user |-> u]}
  /\ UNCHANGED <<admin, edits, granted>>

(* Mutant: the counter goes down whether or not there was a use.           *)
ReturnUseAlways(o) ==
  /\ usages' = {x \in usages : x.order # o}
  /\ voucher' = [voucher EXCEPT !.used = @ - 1]
  /\ UNCHANGED <<admin, edits, granted>>

(* releaseUsage: nothing for an order without a use.                       *)
ReturnUse(o) ==
  LET gone == {x \in usages : x.order = o}
  IN  /\ usages' = usages \ gone
      /\ voucher' = IF gone # {} /\ voucher.used > 0
                    THEN [voucher EXCEPT !.used = @ - 1] ELSE voucher
      /\ UNCHANGED <<admin, edits, granted>>

-----------------------------------------------------------------------------
(* Operators.  The row is written with only the columns sent, so a counter *)
(* that moves between check and UPDATE is not written back.                *)

Larger(a, b) == IF a = NoLimit \/ b = NoLimit THEN NoLimit ELSE IF a < b THEN b ELSE a

Overwrite(row, columns) ==
  [f \in DOMAIN row |-> IF f \in DOMAIN columns THEN columns[f] ELSE row[f]]

WriteVoucher(row) ==
  /\ voucher' = row
  /\ granted' = [limit |-> Larger(granted.limit, row.limit),
                 perUser |-> Larger(granted.perUser, row.perUser)]

InitLedger ==
  /\ voucher \in VoucherRows
  /\ usages = {}
  /\ admin = NoLimit
  /\ granted = [limit |-> voucher.limit, perUser |-> voucher.perUser]

Edit == edits > 0 /\ edits' = edits - 1

(* adminCreate: the code is free when no live voucher has it - but the     *)
(* column is UNIQUE, so the code of a deleted voucher cannot be used again.*)
AdminCreate ==
  /\ voucher.state = "none"
  /\ Edit
  /\ \E row \in VoucherRows : row.state = "live" /\ WriteVoucher(row)
  /\ UNCHANGED <<usages, admin>>

(* adminUpdate and adminDelete: the voucher is there, and what is written. *)
CheckVoucher ==
  /\ admin = NoLimit /\ voucher.state = "live"
  /\ Edit
  /\ \E columns \in VoucherEdits \cup {[state |-> "deleted", active |-> FALSE]} :
       admin' = columns
  /\ UNCHANGED <<voucher, usages, granted>>

(* Mutant: the counter read at the check is written back.                  *)
OverwriteVoucherCounter ==
  /\ admin # NoLimit
  /\ WriteVoucher([Overwrite(voucher, admin) EXCEPT !.used = 0])
  /\ admin' = NoLimit
  /\ UNCHANGED <<usages, edits>>

UpdateVoucher ==
  /\ admin # NoLimit
  /\ WriteVoucher(Overwrite(voucher, admin))
  /\ admin' = NoLimit
  /\ UNCHANGED <<usages, edits>>

(* Time: the voucher's period begins, and ends.                            *)
DatesPass ==
  /\ Edit
  /\ \/ voucher.dates = "early" /\ voucher' = [voucher EXCEPT !.dates = "valid"]
     \/ voucher.dates = "valid" /\ voucher' = [voucher EXCEPT !.dates = "late"]
  /\ UNCHANGED <<usages, admin, granted>>

Operate == AdminCreate \/ CheckVoucher \/ UpdateVoucher \/ DatesPass

-----------------------------------------------------------------------------
(* Properties.                                                             *)

(* The counter that is compared with the limit counts the redemptions:     *)
(* claims, roll-backs, returns and operators' writes in any order move     *)
(* both together (voucher.service.ts: usedCount and voucher_usages).       *)
CounterMatchesUsages ==
  /\ voucher.used = Cardinality(usages)
  /\ \A x, y \in usages : x.order = y.order => x = y

(* However many checkouts hold the voucher at once, it is redeemed no more *)
(* often, in all and by one customer, than the largest limit it ever had:  *)
(* the overshoot the comment on reserveUsage says is gone.                 *)
WithinLimits ==
  /\ AtMost(voucher.used, granted.limit)
  /\ \A u \in Buyers : AtMost(UsesOf(u), granted.perUser)
=============================================================================
