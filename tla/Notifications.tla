----------------------------- MODULE Notifications -----------------------------
(***************************************************************************)
(* notification-service: events of the other services and the broadcasts   *)
(* of an operator become mails and rows that a user reads later.           *)
(*                                                                         *)
(* A delivery is one message of the durable queue.  Its handler goes       *)
(* through a list of recipients, as it was sent: an entry that stands      *)
(* there twice is mailed twice.  It mails each and inserts a row for it;   *)
(* the message is acknowledged when the handler completes, and delivered   *)
(* again when the service dies before that.  Deliveries are handled        *)
(* concurrently.                                                           *)
(*                                                                         *)
(* A body is abstracted to what it gives away: "secret" carries a token,   *)
(* "redacted" had one taken out, "plain" never had one.                    *)
(***************************************************************************)
EXTENDS Integers, FiniteSets, Sequences

CONSTANTS
  Nobody,       \* the user of a recipient without an account
  Recipients,   \* records [user, email]
  Messages,     \* bound: messages of a run
  MaxList,      \* bound: length of the list of a broadcast
  Emitted,      \* types of events that are emitted
  Legacy,       \* the rows an earlier version may have left: one sequence is chosen
  Works         \* budgets of requests and failures: one is chosen at the start

(* The accounts. *)
Readers == {r.user : r \in Recipients} \ {Nobody}

SecretTypes == {"password_reset", "email_verification"}

EventTypes ==
  SecretTypes \cup {"user_registered", "order_created", "payment_paid", "order_refunded"}

Types == EventTypes \cup {"marketing_promotion"}

Row ==
  [to: Recipients, type: Types, body: {"secret", "redacted", "plain"},
   status: {"sent", "failed", "skipped"}, isRead: BOOLEAN]

WorkKinds == {"event", "broadcast", "read", "error", "crash"}

Deliveries == 1..Messages

ASSUME NotificationAssumption ==
  /\ Messages \in Nat
  /\ MaxList \in Nat
  /\ Emitted \subseteq EventTypes
  /\ Recipients \subseteq [user: Readers \cup {Nobody}, email: {r.email : r \in Recipients}]
  /\ Legacy \subseteq Seq(Row)
  /\ \A old \in Legacy : \A i \in DOMAIN old :
       old[i].body = "secret" => old[i].type \in SecretTypes
  /\ Works \subseteq [WorkKinds -> Nat]

VARIABLES
  notifications,  \* the table, oldest row first
  delivery,       \* delivery[d]: the message, and how far its handler is
  transporter,    \* mail is configured
  up,             \* the service runs
  work,           \* what is left of the budget
  legacy,         \* history: the number of rows that were there at the start
  clean,          \* history: a redaction of the old rows went through
  attempts,       \* history: attempts[d]: times the message was taken up
  mails           \* history: mails[d][r]: mails sent to r on behalf of d

nvars == <<notifications, delivery, transporter, up, work, legacy, clean, attempts, mails>>
-----------------------------------------------------------------------------
Unused ==
  [pc |-> "unused", type |-> "user_registered", audience |-> <<>>, list |-> <<>>, next |-> 1,
   status |-> "sent"]

(* The text that is mailed. *)
Text(type) == IF type \in SecretTypes THEN "secret" ELSE "plain"

(* Mutant: a body is kept and shown as it was mailed.                      *)
SanitizeNothing(body, type) == body

sanitizeBody(body, type) == IF type \in SecretTypes THEN "redacted" ELSE body

Pay(kind) == work[kind] > 0 /\ work' = [work EXCEPT ![kind] = @ - 1]

(* listAll, without its pages; listByUser keeps the rows of one user.      *)
ListAll ==
  {[notifications[i] EXCEPT !.body = sanitizeBody(@, notifications[i].type)] :
     i \in DOMAIN notifications}

DeliveryAt(d, pc) == delivery[d].pc = pc
FirstUnused(d) ==
  DeliveryAt(d, "unused") /\ \A c \in 1..(d - 1) : ~DeliveryAt(c, "unused")
PutDelivery(d, r) == delivery' = [delivery EXCEPT ![d] = r]

InitNotifications ==
  /\ notifications \in Legacy
  /\ legacy = Len(notifications)
  /\ delivery = [d \in Deliveries |-> Unused]
  /\ transporter \in BOOLEAN
  /\ up \in BOOLEAN
  /\ clean = FALSE
  /\ work \in Works
  /\ attempts = [d \in Deliveries |-> 0]
  /\ mails = [d \in Deliveries |-> [r \in Recipients |-> 0]]
-----------------------------------------------------------------------------
(* Requests                                                                *)

(* A client.emit of another service. *)
Emit(d, type, r) ==
  /\ FirstUnused(d) /\ Pay("event")
  /\ PutDelivery(d, [Unused EXCEPT !.pc = "queued", !.type = type, !.audience = <<r>>])
  /\ UNCHANGED <<notifications, transporter, up, legacy, clean, attempts, mails>>

(* The lists that can be sent: nothing removes an entry that is repeated.  *)
Lists == UNION {[1..n -> Recipients] : n \in 0..MaxList}

(* broadcastMarketing at the gateway: the addresses the operator names, or *)
(* every user, or nobody when the users cannot be listed.                  *)
BroadcastMarketing(d, audience) ==
  /\ FirstUnused(d) /\ Pay("broadcast")
  /\ PutDelivery(d, [Unused EXCEPT !.pc = "queued", !.type = "marketing_promotion",
       !.audience = audience])
  /\ UNCHANGED <<notifications, transporter, up, legacy, clean, attempts, mails>>

(* markAsRead reads and then writes; no row changes its user in between.   *)
MarkAsRead(u, i) ==
  /\ up /\ Pay("read")
  /\ notifications[i].to.user \in {u, Nobody}
  /\ notifications' = [notifications EXCEPT ![i].isRead = TRUE]
  /\ UNCHANGED <<delivery, transporter, up, legacy, clean, attempts, mails>>

MarkAllAsRead(u) ==
  /\ up /\ Pay("read")
  /\ notifications' = [i \in DOMAIN notifications |->
       [notifications[i] EXCEPT !.isRead = @ \/ notifications[i].to.user = u]]
  /\ UNCHANGED <<delivery, transporter, up, legacy, clean, attempts, mails>>
-----------------------------------------------------------------------------
(* The handlers of a delivery                                              *)

(* One row per address, as SELECT DISTINCT ON returns them, in any order.  *)
KnownLists ==
  LET known == {notifications[i].to : i \in DOMAIN notifications}
      emails == {r.email : r \in known}
  IN  {q \in [1..Cardinality(emails) -> known] :
         \A i, j \in DOMAIN q : q[i].email = q[j].email => i = j}

(* A broadcast for nobody goes to everyone who ever was sent something.    *)
Take(d) ==
  /\ up /\ DeliveryAt(d, "queued")
  /\ \E list \in IF delivery[d].audience = <<>> THEN KnownLists
                 ELSE {delivery[d].audience} :
       PutDelivery(d, [delivery[d] EXCEPT !.pc = "send", !.list = list, !.next = 1])
  /\ attempts' = [attempts EXCEPT ![d] = @ + 1]
  /\ UNCHANGED <<notifications, transporter, up, work, legacy, clean, mails>>

(* The entry of the list whose turn it is. *)
Left(d) == delivery[d].next <= Len(delivery[d].list)
Current(d) == delivery[d].list[delivery[d].next]

(* sendAndPersist, the mail: a failure is recorded and never retried.      *)
SendMail(d) ==
  LET Sent(status) == PutDelivery(d, [delivery[d] EXCEPT !.pc = "persist", !.status = status])
  IN  /\ up /\ DeliveryAt(d, "send") /\ Left(d)
      /\ \/ /\ transporter /\ Sent("sent")
            /\ mails' = [mails EXCEPT ![d][Current(d)] = @ + 1]
            /\ UNCHANGED work
         \/ transporter /\ Sent("failed") /\ Pay("error") /\ UNCHANGED mails
         \/ ~transporter /\ Sent("skipped") /\ UNCHANGED <<work, mails>>
      /\ UNCHANGED <<notifications, transporter, up, legacy, clean, attempts>>

(* The row of the current entry.                                           *)
Insert(d) ==
  notifications' = Append(notifications,
    [to |-> Current(d), type |-> delivery[d].type, status |-> delivery[d].status,
     body |-> sanitizeBody(Text(delivery[d].type), delivery[d].type), isRead |-> FALSE])

(* Mutant: a row that cannot be inserted puts the message back.            *)
PersistOrRequeue(d) ==
  /\ up /\ DeliveryAt(d, "persist")
  /\ \/ Insert(d) /\ PutDelivery(d, [delivery[d] EXCEPT !.pc = "send", !.next = @ + 1])
        /\ UNCHANGED work
     \/ /\ Pay("error") /\ UNCHANGED notifications
        /\ PutDelivery(d, [delivery[d] EXCEPT !.pc = "send", !.next = 1])
  /\ UNCHANGED <<transporter, up, legacy, clean, attempts, mails>>

(* sendAndPersist, the row: an insert that fails is logged, and the next   *)
(* entry of the list has its turn.                                         *)
Persist(d) ==
  /\ up /\ DeliveryAt(d, "persist")
  /\ \/ Insert(d) /\ UNCHANGED work
     \/ Pay("error") /\ UNCHANGED notifications
  /\ PutDelivery(d, [delivery[d] EXCEPT !.pc = "send", !.next = @ + 1])
  /\ UNCHANGED <<transporter, up, legacy, clean, attempts, mails>>

(* The handler completes and RmqAckInterceptor acknowledges the message.   *)
Ack(d) ==
  /\ up /\ DeliveryAt(d, "send") /\ ~Left(d)
  /\ PutDelivery(d, [delivery[d] EXCEPT !.pc = "done"])
  /\ UNCHANGED <<notifications, transporter, up, work, legacy, clean, attempts, mails>>
-----------------------------------------------------------------------------
(* Crash and start                                                         *)

(* Mutant: messages are acknowledged as they are taken up.                 *)
CrashServiceForgets ==
  /\ up /\ Pay("crash")
  /\ up' = FALSE
  /\ delivery' = [d \in Deliveries |->
       IF delivery[d].pc \in {"send", "persist"} THEN Unused ELSE delivery[d]]
  /\ UNCHANGED <<notifications, transporter, legacy, clean, attempts, mails>>

(* Messages that were not acknowledged go back to the queue.               *)
CrashService ==
  /\ up /\ Pay("crash")
  /\ up' = FALSE
  /\ delivery' = [d \in Deliveries |->
       IF delivery[d].pc \in {"send", "persist"}
       THEN [delivery[d] EXCEPT !.pc = "queued", !.list = <<>>, !.next = 1]
       ELSE delivery[d]]
  /\ UNCHANGED <<notifications, transporter, legacy, clean, attempts, mails>>

Redact(types) ==
  [i \in DOMAIN notifications |->
     IF notifications[i].type \in types
     THEN [notifications[i] EXCEPT !.body = IF @ = "secret" THEN "redacted" ELSE @]
     ELSE notifications[i]]

(* onModuleInit redacts old bodies in two statements, before the service   *)
(* consumes; when one fails it warns and goes on.                          *)
StartUp ==
  /\ ~up /\ up' = TRUE
  /\ \/ notifications' = Redact(SecretTypes) /\ clean' = TRUE /\ UNCHANGED work
     \/ /\ Pay("error") /\ UNCHANGED clean
        /\ notifications' \in {notifications, Redact({"password_reset"})}
  /\ UNCHANGED <<delivery, transporter, legacy, attempts, mails>>

Handle(d) == Take(d) \/ SendMail(d) \/ Persist(d) \/ Ack(d)

NextNotifications ==
  \/ \E d \in Deliveries, type \in Emitted, r \in Recipients : Emit(d, type, r)
  \/ \E d \in Deliveries, audience \in Lists : BroadcastMarketing(d, audience)
  \/ \E d \in Deliveries : Handle(d)
  \/ \E u \in Readers, i \in DOMAIN notifications : MarkAsRead(u, i)
  \/ \E u \in Readers : MarkAllAsRead(u)
  \/ CrashService
  \/ StartUp

SpecNotifications == InitNotifications /\ [][NextNotifications]_nvars

(* The queue and the service keep working; a crash is not forced.          *)
NotificationFairness ==
  /\ WF_nvars(StartUp)
  /\ \A d \in Deliveries : WF_nvars(Handle(d))
-----------------------------------------------------------------------------
(* Properties                                                              *)

(* Every variable keeps its type. *)
NotificationTypes ==
  /\ \A i \in DOMAIN notifications : notifications[i] \in Row
  /\ \A d \in Deliveries :
       /\ delivery[d].pc \in {"unused", "queued", "send", "persist", "done"}
       /\ delivery[d].audience \in Seq(Recipients) /\ delivery[d].list \in Seq(Recipients)
       /\ delivery[d].next \in 1..(Len(delivery[d].list) + 1)
  /\ work \in [WorkKinds -> Nat]

(* A token that was mailed is nowhere else: no row written by this version *)
(* holds it, nor an old row once a redaction went through, and no list     *)
(* shows it (sanitizeBody, onModuleInit).                                  *)
SecretsStayInTheMail ==
  /\ \A i \in DOMAIN notifications :
       notifications[i].body = "secret" => i <= legacy /\ ~clean
  /\ \A row \in ListAll : row.body # "secret"

Occurrences(q, r) == Cardinality({i \in DOMAIN q : q[i] = r})

(* How often recipient r is due in one attempt.                            *)
Share(audience, r) == IF audience = <<>> THEN 1 ELSE Occurrences(audience, r)

(* A recipient gets the mail of a message, each time the message is taken  *)
(* up, at most as often as the list names it, and once when the list is    *)
(* drawn from the table: a failed insert does not repeat a mail, only a    *)
(* crash before the acknowledgement does, and a message that names nobody  *)
(* else does not reach anybody else.                                       *)
OneMailPerAttempt ==
  \A d \in Deliveries, r \in Recipients :
    mails[d][r] <= attempts[d] * Share(delivery[d].audience, r)

(* Every message of the queue is acknowledged in the end, whatever mails   *)
(* and inserts fail and although the service may crash.                    *)
MessagesAreAnswered ==
  \A d \in Deliveries : DeliveryAt(d, "queued") ~> DeliveryAt(d, "done")
=============================================================================
