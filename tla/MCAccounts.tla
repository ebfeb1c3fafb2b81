------------------------------ MODULE MCAccounts ------------------------------
(***************************************************************************)
(* auth-service and notification-service side by side.  Each initial state *)
(* gives requests to one of the two; the scenarios are the budgets below.  *)
(***************************************************************************)
EXTENDS AuthSessions, Notifications

CONSTANTS u1, u2, e1, e2

Budget(kinds, b) == [k \in kinds |-> IF k \in DOMAIN b THEN b[k] ELSE 0]

NoRequests == Budget(Kinds, [login |-> 0])
NoWork == Budget(WorkKinds, [event |-> 0])

AccountBudgets ==
  {NoRequests} \cup
  {Budget(Kinds, b) : b \in {
     [login |-> 1, refresh |-> 1, change |-> 1, forgot |-> 1, reset |-> 1, crash |-> 1],
     [login |-> 1, change |-> 2, revokeAll |-> 1],
     [refresh |-> 3, logout |-> 1, error |-> 1],
     [register |-> 1, resend |-> 1, verify |-> 2, update |-> 2, error |-> 1],
     [create |-> 1, delete |-> 1, refresh |-> 1, update |-> 1, change |-> 1]}}

NotificationWorks ==
  {NoWork} \cup
  {Budget(WorkKinds, w) : w \in {
     [event |-> 2, error |-> 1],
     [event |-> 1, read |-> 2, error |-> 2, crash |-> 1],
     [broadcast |-> 1, error |-> 1, crash |-> 1],
     [event |-> 1, broadcast |-> 1, read |-> 1]}}

Lifetimes == [t \in TokenTypes |-> IF t = "refresh" THEN 9 ELSE 2]

Customers ==
  {[user |-> u1, email |-> e1], [user |-> None, email |-> e2]}

OldRow(t) ==
  [to |-> [user |-> u1, email |-> e1], type |-> t, body |-> "secret", status |-> "sent",
   isRead |-> FALSE]

OldRows == {<<>>, <<OldRow("email_verification")>>}

InitAccounts ==
  /\ Init /\ InitNotifications
  /\ left = NoRequests \/ work = NoWork
  /\ work = NoWork => up /\ ~transporter /\ notifications = <<>>

NextAccounts ==
  \/ Next /\ UNCHANGED nvars
  \/ NextNotifications /\ UNCHANGED vars

SpecAccounts ==
  InitAccounts /\ [][NextAccounts]_<<vars, nvars>> /\ NotificationFairness
=============================================================================
