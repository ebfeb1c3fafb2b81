# Railway ticket booking: a TLA+ verification project

The repository is a NestJS back end for selling train tickets: five services
behind an API gateway, each with its own PostgreSQL database, talking over
RabbitMQ. This directory holds TLA+ models of its core, the TLC configurations
that check them on small instances, and TLAPS proofs for all values of the
constants. The reference is the source under `src/`; `PROJECT.json` names, for
each definition, the lines it stands for.

To run a check: `tlc -workers 2 -config lifecycle.cfg MCOrderSaga` (`MCAccounts`
for `accounts`, `MCSales` for `sales`, `MCPaymentGateway` for the payments). To
check the proofs: `tlapm OrderSagaProofs.tla`, and the same for the other
`*Proofs` modules.

## 1. Inventory

### Components, their state and operations

| Component | State | Operations that change it |
| --- | --- | --- |
| **Orders** (`orders-service`, `order.service.ts`) | `orders` (status, idempotency key, quantity, deleted_at), `order_seat_labels`, `order_passengers` | `checkout`, `create`, `updatePassengers`, `markPendingPayment`, `markPaid`, `confirm`, `issueTicket`, `cancel`, `cancelWorkflow`, `expire`, `refund`, `remove`, `handlePaymentPaidEvent`, `handleOrderExpireCheck`, `handleExpiredOrdersCron` |
| **Order pricing** (same file, `utils/order.utils.ts`) | the order's total and discount, its passengers, the amounts of its payments | `calculateOrderPricing`, `createOrder`, `updatePassengers`, `verifyPaymentSettledForOrder` |
| **Vouchers** (`orders-service`, `voucher.service.ts`) | `vouchers.usedCount`, `voucher_usages` | `reserveUsage` (inside the order's transaction), `releaseUsage`, `adminCreate/Update/Delete` |
| **Ticket stock** (`tickets-service`, `ticket.service.ts`, `utils/ticket.utils.ts`) | per item: `seatLabels`, `availableSeatLabels`, `stockInitial`, `stockAvailable`, `stockPrepared`, sale window | `reserve`, `reserveSeat`, `release`, `releaseSeat`; for operators `create`, `update`, `addTicketItem`, `updateTicketItem`, `removeTicketItem`, `prepareStock`, `openSale`, `closeSale`, `changeSaleWindow`, `changePrice`, `publish`, `unpublish`, `remove` |
| **Ticket cache** (same file, `redis/`) | Redis keys `ticket:*`, `tickets:*`, pending fetches, Redlock locks | read-through reads, invalidation after each write, the reservation lock |
| **Search** (same file, `utils/search.utils.ts`) | none; reads the catalogue | `searchTrips`, `findAll`, `searchByName`, `suggestStations` |
| **Payments** (`payments-service`) | `payments.status`, `payment_outbox` | `createPayment`, `markProcessing`, `markPaid`, `markPaidWorkflow`, `markFailed`, `markRefunded`, `cancel`, `expire`, `softDelete`, cron `processOutbox` |
| **VNPay gateway** (`api-gateway/src/payment/vnpay.service.ts`) | none of its own; several calls to payments per request | `createPaymentUrl`, `verifyReturnUrl`, `handleIpn` |
| **Accounts and sessions** (`auth-service`) | accounts (password, `tokenVersion`), refresh tokens, reset and verification tokens | `register`, `login`, `refreshToken`, `logout`, `changePassword`, `resetPassword`, `verifyEmail`, ... |
| **Notifications** (`notification-service`) | one row for each mail, the durable queue | events, `sendAndPersist`, `markAsRead`, `markAllAsRead`, broadcast, redaction at start-up |
| **API gateway** | none | guards (throttle, JWT, roles) and forwarding controllers, uploads |

### How they interact

* **Checkout** (synchronous RPC over RabbitMQ, 10 s timeout): orders →
  `tickets.reserve_seat` for each chosen label, `tickets.reserve` for the rest →
  its own transaction (order row, labels, voucher use) → `payments.create` → an
  `orders.expire_check` message into a queue with a time to live of 10 minutes.
  A failure runs a compensation: cancel the order, release the seats with
  retries, free the voucher.
* **Payment** (asynchronous): VNPay → gateway `handleIpn` →
  `markPaidWorkflow` (row and outbox row in one transaction) → cron
  `processOutbox` → event `payment.paid` → orders `handlePaymentPaidEvent`: ask
  payments whether the payment is really Paid, then Paid → Confirmed →
  TicketIssued. A late payment of a closed order starts `refund`.
* **Expiry**: the dead-lettered `expire_check` and the minute cron run
  `cancelWorkflow` (or fulfil a paid order): claim Cancelling, cancel open
  payments, release seats, free the voucher, commit Cancelled.
* Messages are acknowledged after the handler ran (`RmqAckInterceptor`), so a
  crash means redelivery; a request whose caller timed out stays in its durable
  queue and is executed later.

### What is hard, and what makes each part correct

| Component | Hard behaviour | Correct when |
| --- | --- | --- |
| Order saga | handlers of one order interleave between any two statements; stale reads; remote calls that fail, or take effect after the caller gave up; crash and redelivery; duplicated events | no ticket without a settlement; an order is closed only after its seats are handed back; failed checkouts leave nothing behind; nobody's compensation takes a seat from another order; every order past its time is decided; refunds end |
| Ticket stock | two views of one pool; labels and counts mixed; releases repeated by retries | counter = free labels; 0 ≤ counter ≤ initial |
| Ticket cache | fetch-then-store against write-then-invalidate; calls that commit several times | a stored answer is not older than the last write |
| Order pricing | an order is priced when it is created and again by every edit, while pages are open and paid; the edit writes by id | the total is the price of the passengers on the order, and an order that payments settled was paid exactly that |
| Search | one customer's pages are separate searches of a moving catalogue | paging shows every trip once |
| Payments, VNPay | checks outside the transaction; blind status writes; outbox crash between emit and mark; several payments of an order | each settled payment reaches its order; none is forgotten by a later write |
| Vouchers | last use contested; claims undone | uses ≤ limit; counter = usage rows |
| Sessions | refresh, password change and reset side by side, each several statements | a session dies with its password; an exchanged refresh token is dead; a verified address was proven |
| Notifications | mail first, row later, acknowledgement last; crash and redelivery; lists of recipients that name someone twice | each time a message is taken up, one mail for each time its list names the recipient; mailed tokens are nowhere else; every message is acknowledged |

The list of hazards, each at its line, is in `PROJECT.json` under "hazards".

## 2. Plan

The modules, in the order in which they were written:

1. `TicketStock`: the item's pool as pure operators, shared by 2 and 5.
2. `OrderSaga`: handlers of orders-service over `TicketStock` and payment rows,
   instantiated by `MCOrderSaga`, and the abstract specification it implements,
   `OrderPromise`.
3. `PaymentGateway` and the abstract specification it implements, `PaidNotice`;
   `MCPaymentGateway`.
4. `AuthSessions` and `Notifications`, side by side in `MCAccounts`.
5. `TicketInventory`, `TicketCache`, `OrderPricing` (over `VoucherLedger`) and
   `TripSearch`, side by side in `MCSales`.
6. Proofs: `TicketStockProofs`, `OrderSagaProofs`, `OrderSeatProofs`,
   `PaymentGatewayProofs`, `OrderPricingProofs`, `TicketCacheProofs`,
   `AccountsProofs`, `TicketInventoryProofs`.

`MCAccounts` and `MCSales` compose modules that share no variable. In each of
their behaviours one part is given requests and the others none, so a run is the
union of the parts' state spaces and not their product.

The plan is carried out; what it leaves to the model checker is at the end of
section 5, what it leaves out in section 6.

## 3. What is modelled

### TicketStock

An item is a record of the labels, the free labels (`avail`), the counter
(`stock`), the declared stock, and whether it is prepared and on sale. Each
operation of `ticket.service.ts` runs under `SELECT ... FOR UPDATE` on the
ticket's row, so it is one step here: `CanTakeSeat`/`TakeSeat`
(`reserveSeatInternal`), `CanTakeCount`/`TakeCount` (`reserve` through
`consumeAvailableStock`, including the branch that empties the label pool),
`CanReturnSeat`/`ReturnSeat` (`releaseSeatInternal`, which refuses a label that
is free), `CanReturnCount`/`ReturnCount` (`release` through `returnStockToPool`).
Which labels a request by count receives depends on the sort order of labels;
the model allows any choice.

### OrderSaga

A **worker** is one handler in flight. Its record holds the program counter
`pc`, the order, the status it read (`snap`), what it reserved or is to release
(`held`, `qty`, `pend`), the payments it still has to visit (`pays`), its
remaining retries. One action is one database statement or one RPC, so two
handlers interleave between a read and the write that relies on it, as the
source's `await`s allow:

| Source | Actions |
| --- | --- |
| `checkout` 110-269 | `SubmitCheckout`, `CheckoutLookup`, `ReserveSeat`, `ReserveCount`, `CreateOrder`, `CreatePayment`; compensation `RollbackRead`, `RollbackCancel`, `RollbackVoucher` and the release |
| `releaseReservation` 1457-1492, `retry` 1716-1732 | `ReleaseSeat`, `ReleaseCount`, `BeginRelease`, `RetryRelease`, `AfterRelease` |
| `cancelWorkflow` 965-1069 | `CancelRead`, `CancelClaim`, `ListOpenPayments`, `CancelPayment`, release, `CancelVoucher`, `CancelCommit` |
| `refund` 1078-1161 | `RefundRead`, `RefundClaim`, `ListOpenPayments`, `CancelPayment`, `ListPaidPayments`, `MarkRefunded`, release, `RefundCommit` |
| `handlePaymentPaidEvent` 768-866 | `DeliverPaidEvent`, `PaidRead`, `PaidVerify`, `PaidNext` and the transitions it calls |
| `markPendingPayment`, `markPaid`, `confirm`, `expire`, `transitionStatus` | `TransitionRead`, `TransitionWrite` |
| `issueTicket` 880-907 | `IssueRead`, `IssueWrite` (a write by id, without compare-and-swap) |
| `handleOrderExpireCheck`, `handleExpiredOrdersCron` 1734-1832 | `DeliverExpireCheck`, `ExpireCheckRead`, `ExpireCheckVerify`, `CronPick` (only orders of the query's batch: `InCronBatch`, from `older`, the order of `createdAt`, and `CronBatch`, its LIMIT) |
| `remove` 1163-1177 | `RemoveOrder` |
| payments-service | `Settle` (`markPaidWorkflow` and its event), the blind writes of `CancelPayment`, `MarkRefunded`, `LatePay` |

Failures, each with a budget in `Limit`: `error` (a call refused or lost before
the service took it; also a failure the code swallows, of `releaseUsage`
(`voucher.service.ts:272`) in `RollbackVoucher` and `CancelVoucher`, and of the
emit of the expiry message in `CreatePayment`), `timeout` (the caller gives up, the request stays in the
durable queue `late` and is executed later by `RunLate`), `crash` (every handler
is lost; unacknowledged messages are delivered again, a cron iteration is not),
`duplicate` (an event delivered twice). `command`, `resubmit`, `remove` and `age`
bound the inputs. The variables `settled`, `manual`, `returned`, `rolledBack`,
`unfreed` (orders a release of whose voucher failed or was skipped) and `stranded`
(seats reserved by a checkout that then joined an order placed before) are
history: no action reads them.

Abstractions:

* Prices, amounts, passengers, mail and read-only handlers are left out; so is
  the status Draft, which nothing writes. Payment states Failed and Expired act
  as Cancelled. The check of the amount in `verifyPaymentSettledForOrder` is
  taken to pass for a payment that is Paid.
* The re-read of an order after a successful swap is folded into the swap when
  nothing depends on it; where the next step does depend on it (`PaidNext`) it
  is a step of its own.
* `checkout` first looks up the ticket and its item; a failure there takes
  nothing and changes nothing, so it is omitted.
* A sequential request in flight when orders-service dies counts as executed or
  refused before the crash; those of a `Promise.all` stay queued (`InFlight`).
* `Age` waits for a running checkout of its order: ten minutes are far more than
  the time a checkout with its 10 s timeouts can take. And an order ages after
  those created before it.
* `createPayment` and the emit of the expiry message are one step: nothing but
  the message depends on the emit, and that it is lost is one of its outcomes.

`OrderPromise` is the abstract specification: an order is placed once and waits;
it is sold when a settlement or an operator is behind it, or its cancellation
begins, and neither ever waits again; it hands goods back only once a
cancellation or refund has begun, and all of them before that is committed; an
order whose cancellation began is not sold. The handlers do not appear in it.
Two weaknesses of the code are part of the promise, since nothing stronger is
kept: a checkout's rollback may void an order at any time, and a ticket may be
issued for an order that was voided or whose refund began. The refinement
mapping reads the stage off the status (`Stage`; a Cancelled that a rollback
wrote is "closed", told apart by `rolledBack`), who is behind an order off its
settlements and operators (`Backed`), and what is still to be handed back off
the parts of the order and `returned` (`Due`).

### PaymentGateway

The payments of one order (payments of different orders share nothing). A
**handler** is a request of the gateway in flight, and one action is one RPC; a
**tick** is one run of the outbox worker, and one action is one emit or one
database statement. The scheduler starts a run every ten seconds whether or not
the last one has ended, so runs overlap.

| Source | Actions |
| --- | --- |
| `createPaymentUrl` (`vnpay.service.ts` 67-108, 261-309) | `RequestUrl`, `UrlList`, `UrlClose`, `UrlCreate`, `UrlProcessing` |
| `handleIpn` 166-224 | `Notify`, `IpnLookup` (`IpnNext`), `IpnFailed`, `IpnAck` |
| `markPaidWorkflow` (`payment.service.ts` 190-231) | `MarkPaidRead` (outside the transaction), `MarkPaidWrite` (row and outbox row), `MarkPaidByHand` (the operator's route) |
| `processOutbox` 249-299 | `TickStart`, `TickEmit`, `TickMark`, `TickFail`, `BackoffOver` |
| `updatePaymentStatus` 332-348 and its callers, `softDeletePayment` | `UpdatePaymentStatus` (blind), `SoftDelete` |

A row's status keeps what the code tests: `Open` is Pending or Processing,
`Closed` is Failed, Cancelled, Expired or Refunded. The environment: the payer
pays or fails once on a page (`PayAtProvider`, external), VNPay repeats its
notification until the answer is 00, payments-service dies (`Crash`: its runs
are gone, an unacknowledged `markPaidWorkflow` starts again at its read), and
the gateway loses a request (`LoseRequest`), for which payments-service goes on.
`vouched` and `failures` are history. Amounts and checksums are taken to match;
a page asks for the amount of its own row.

`PaidNotice` is the abstract specification: approved, recorded and told
payments, each only growing, recorded only if approved, told only if recorded.
The refinement mapping reads "recorded" off the outbox and "told" off the
published rows, not off the status of the row, which later writes may change.

### AuthSessions

One **call** of auth-service is in flight in each slot; an action is one
statement, so what a call has read may be old when it writes. A token is the
record of its claims and the second it was signed in: two tokens signed in one
second from the same claims are the same token, as in the code, where they are
the same JWT. `revoked` holds the rows of `refresh_tokens` with `revokedAt`.

| Source | Actions |
| --- | --- |
| `login`, `issueTokenPair`, `storeRefreshToken` | `Login`, `Mint`, `StoreRefreshToken` (a failed upsert is only logged) |
| `refreshToken` | `RefreshCheck` (passes when the table cannot be read), `RefreshLoad`, `RefreshRevoke` (best effort), `Mint`, `StoreRefreshToken` |
| `logout`, `revokeAllSessions` | `Logout`, `RequestRevokeAll`, `RevokeAllSessions` |
| `changePassword` | `RequestChangePassword` (behind the gateway's JWT guard), `ChangeRead`, `ChangeWrite`, `ChangeBump`, `Mint`, `StoreRefreshToken` |
| `forgotPassword`, `resetPassword` | `ForgotPassword`, `ForgotStore`, `ResetRead`, `ResetCommit` |
| `register`, `createUser`, `resendVerification`, `verifyEmail` | `Register`, `CreateUser`, `ResendVerification`, `VerificationStore`, `VerifyEmail`, `VerifyCommit` |
| `updateUser`, `deleteUser` | `UpdateUser`, `UpdateWrite`, `DeleteUser`, `DeleteWrite` |
| a statement that throws, a process that dies | `Die` |

Passwords are values and a wrong one ends the call. `torn`, `proof`, `moved`
and `exchanged`, and `over` and `replay` in calls and sessions, are history.

### Notifications

A **delivery** is one message of the durable queue: `Emit` and
`BroadcastMarketing` put it there, `Take` delivers it with its list, a sequence in
which a recipient may stand several times (neither the gateway nor the handler
removes repeated entries; only the list that is drawn from the table names each
address once, by `SELECT DISTINCT ON`), then for each entry `SendMail` and
`Persist` (`sendAndPersist`: a mail that fails is a row with
status failed, a row that cannot be inserted is logged), and `Ack`.
`CrashService` puts unacknowledged messages back; `StartUp` is `onModuleInit`,
which redacts the bodies an earlier version stored in two statements and goes on
when one fails. `MarkAsRead`, `MarkAllAsRead` and the lists complete it. A body
is only "secret", "redacted" or "plain"; `sanitizeBody` maps the first to the
second for the types that carry a token.

### TicketInventory

The rows of one ticket and its items as customers and operators call for them.
A **call** that goes through `withTicketRowLock` takes the lock (`TakeRowLock`),
reads ticket and items (`ReadTicket`), and commits by writing whole rows built
from what it read (`Write`), or is refused (`Refuse`); the others check the
ticket (`CheckTicket`) and write without the lock. A crash rolls a transaction
back and frees its lock. `call` holds for each caller the stage it is at, its
request, and the rows it has seen; what a request may carry (`IsRequest`,
`IsPatch`) is what the DTOs let through, and a new item has an id no row has had.

| Source (`ticket.service.ts`) | Actions |
| --- | --- |
| `reserve`, `reserveSeat`, `release`, `releaseSeat` | `Reserve`, `ReserveSeat`, `Release`, `ReleaseSeat` (one transaction for each label of a list) |
| `updateTicketItem`, `removeTicketItem`, `changePrice`, `changeSaleWindow` | the same names |
| `prepareStock`, `openSale`, `closeSale` | `PrepareStock`, `OpenSale`, `CloseSale`, for one item or all |
| `create` | `Create`, then `AddTicketItem`: two statements |
| `addTicketItem`, `update`/`publish`/`unpublish`, `remove` | `CheckTicket`, then `AddTicketItem`, `UpdateTicket`, `RemoveTicket` |

`Normalise` fills in counters a payload leaves out, `View` is what
`TicketStock`'s operators need of a row. `held` and `out` are history: the
labels and the seats by count that are in customers' hands. `rewritten` names
the items whose pool an operator dictated (`updateTicketItem` with pool fields,
`prepareStock` after a sale, a new item with counters of its own); `closed` is
when the sale was last closed.

### TicketCache

Key by key, which version the database, the Redis master and the replicas hold.
A **reader** is `getCachedOrFetchWithLock`: `Get` from a replica, join the
process's pending fetch or lead one, `AcquireFillLock` or `FillLockBusy` (503),
`DoubleCheck`, `Fetch`, `Set`, `FreeFillLock`; `FillFails` at any step in
between. A **writer** takes its reservation locks (`executeWithReservationLock`:
`AcquireReservationLock`, `ReservationLockBusy`), commits once or several times
(`Commit`, `Transactions`: a release of several labels commits each, `create` the
ticket and then its items), deletes the keys its kind of change deletes
(`Invalidate`, `InvalidateFails`). A call that is refused or fails at its first
or a later transaction (`BreakOff`), or cannot read the ticket again for its
answer, throws before the deletes. Around them: `Replicate`, `Expire`, `LeaseRunsOut`, `CrashInstance`. Which keys a
change alters and which it deletes are `Touches` and `Invalidates`: a sale
leaves the lists, `changePrice` and `changeSaleWindow` delete nothing.

### VoucherLedger and OrderPricing

`VoucherLedger` is one voucher and its redemptions: `ValidVoucher`
(`validateVoucher`, which only looks), `LimitsRead`, `Claimable`, `ClaimUse`
(`reserveUsage` reads the voucher, then claims with a conditional UPDATE under
whose row lock it counts the customer's uses), `ReturnUse` (`releaseUsage`) and
the operators' `AdminCreate`, `CheckVoucher`, `UpdateVoucher`. One operator's write
is in flight at a time; that is a bound. The customers' claims and returns
interleave with it as they like.

`OrderPricing` composes it with orders and their payments. A **job** is a request
in flight:

| Source (`order.service.ts`) | Actions |
| --- | --- |
| `create`, `createOrder`, `calculateOrderPricing` | `StartOrder`, `ReadLimits`, `InsertOrder`, `FirstPayment` (a failure cancels the order and returns the use) |
| `updatePassengers`, `cancelPendingPayments` | `StartEdit` (reads and prices), `DeleteRows`, `CommitEdit`, `ListPayments`, `CancelPayments` |
| `createPaymentUrl` of the gateway | `StartPage`, `ListForPage`, `CreatePage` |
| `markPaidWorkflow`, `verifyPaymentSettledForOrder`, the swap to Paid | `Pay`, `StartSettlement`, `AdvanceOrder` |
| `markPaid` of an operator (`POST orders/:orderId/mark-paid`) | `MarkPaid`: a swap that asks for no payment |
| `cancelWorkflow` in one step | `CancelOrder` (its `releaseUsage` may fail: `ReleaseUsage`) |

Fares (`FareRate`, rounding to thousands in `PassengerPrice`) and discounts
(`VoucherDiscount`) are computed as in the code, on whole VND. `granted` (the
largest limits the voucher ever had), `money`, `overtaken` and `byHand` are
history.

### TripSearch

`searchTrips` as operators (`Selected`, `MatchesTimeOfDay`, `MatchesSeatClass`,
`Found`, `Sorted`, `PageOf`), and a customer who pages through a result
(`BeginWalk`, `NextPage`, `EndWalk`) while the catalogue changes: `SellOne`,
`WindowPasses` (a flash sale begins or ends), `Republish`, `DropItem`.
`Precedes` is the comparison of the sort, with the SELECT's order where it finds
no difference (`Array.prototype.sort` is stable), and `Sorted` the trips found,
listed in that order: nothing is said of how they are sorted. A row's items are
a function of their ids, so two classes with equal columns stay two.

## 4. What the runs check

Deadlock is checked everywhere; `Rest` stands for the services waiting with
nothing in flight. In `accounts` and `sales` a part whose requests have ended may
stutter, so a deadlock of another part would not be noticed there: that calls
end is what the liveness properties say (`CallsAreAnswered`,
`MessagesAreAnswered`). The runs of the saga are instances of `MCOrderSaga`.

| Run | Instance | Shows |
| --- | --- | --- |
| `checkout` | 3 customers, 2 seats, one voucher use, 3 workers, one failed call, one customer submits twice | a refused or failed checkout gives back all it took and nothing else (`NoLeakedSeat`, `LiveOrderHoldsItsSeats`, `StockMatchesPool`) |
| `lifecycle` | 1 order of 2 seats with a voucher, 2 workers, one failed call, aging | payment, expiry message and cron race; closed only with both seats and the voucher handed back, none leaked (`ClosedOrderReturnedParts`, `NoLeakedSeat`, `NoLeakedVoucher`) |
| `faults` | 1 order by count; one lost answer, one crash, one duplicate, one command of any kind | `TypeOK`, `TicketNeedsSettlement`, `ClosedOrderReturnedParts`, `StockMatchesPool`; every step of every handler is one of `OrderPromise` (`ImplementsOrderPromise`) |
| `live` | 2 orders by count, a cron batch of one, one crash, a removal, `FairSpec` | `AgedOrderDecided`: expiry does not depend on the message having been sent, as long as the order has its turn in the cron's batch |
| `refund` (violation) | 1 order, 1 worker, no failure | `RefundEnds` fails: see below |
| `doublecancel` (violation) | 2 customers of one seat, a cancel request and the cron | `LiveOrderHoldsItsSeats` fails |
| `issue` (violation) | 1 order, one refund command | `TicketIssuedOnlyWhenPaid` fails |
| `payments` | 2 payments from 2 requests, 2 handlers; one failed call, one crash or lost request, one command | `TypeOK`, `AcknowledgedIsRecorded`, `ImplementsPaidNotice` while two requests close each other's payments |
| `settlement` | 2 payments (one of the checkout), 2 overlapping runs of the worker; two failures, one crash, `FairSpec` | `ProcessedWasPublished`, `GivenUpAfterMax`, `SettlementIsTold` |
| `settletwice` (violation) | 2 notifications of one payment, nothing fails | `SettledOnce` fails |
| `accounts` (`MCAccounts`) | 2 accounts, 2 addresses, 3 passwords, 2 calls at a time; five budgets of auth-service, four of notification-service | no session outlives its password, no exchanged refresh token is honoured, no address is verified unproven, no mailed token is stored or listed, no mail is sent more often than its list says without a crash, every message is acknowledged |
| `sales` (`MCSales`) | eight situations of `TicketInventory`, six of `TicketCache`, six of `OrderPricing`, one catalogue of `TripSearch` with three changes | see the next table |

The properties of `sales`:

| Property | Says |
| --- | --- |
| `HeldSeatIsTaken`, `PoolConserved` | through calls of every kind, whole-row writes, half-done releases and crashes, a customer's label is never free, and every label is free or in someone's hands |
| `ClosedSaleSellsNothing` | nothing is sold after the closing, not by a call that waits for the row lock and not after an `openSale` without an end |
| `QuietCacheIsFresh`, `StaleEntriesGo` | with no writer between a commit and its deletes an entry is what the database holds, and what is stale goes |
| `OneFillPerKey`, `CallsAreAnswered` | one fill at a time; readers and writers all get an answer |
| `CounterMatchesUsages`, `WithinLimits` | the voucher's counter is its redemptions, and they stay within the largest limit it ever had |
| `AmountMatchesPassengers`, `PaidCoversTotal` | the total is the price of the passengers, and what payments settled is the total |
| `WalkShowsEveryTripOnce` | whoever pages through a search sees every trip once |

Several of them name the cases in which the code does not keep them, with a
history variable. Each exception is needed: without it TLC finds the property
violated.

| Exception | Case |
| --- | --- |
| `rewritten` | an operator dictated the pool (`prepareStock` sets every label free, whatever is sold; `updateTicketItem` takes any labels and counters) |
| `excused` | the change never deletes the key (a sale leaves the lists; `changePrice` and `changeSaleWindow` delete nothing); the call ended before its deletes (a later label or statement was refused or failed, the ticket could not be read again, the delete failed, the process died); or a fetch begun before the commit filled the entry after the delete |
| `overrun` | a lease ran out under its holder |
| `overtaken` | two edits of one order, or an edit and a settlement, overlapped |
| `byHand` | an operator marked the order paid, which asks for no payment |
| `unfreed` | the release of an order's voucher failed, which `releaseUsage` logs and its caller ignores, or the rollback could not read the order again |
| `stranded` | a customer submits again with the key of an order that was placed meanwhile: the second checkout joins that order and does not give back what it reserved |
| `Crowded` again and again | as many older orders as the cron's batch holds stay in its query, so that it never comes to this one |
| `torn`, `over` | a password change died between its two statements; or the session was handed out by a change whose password was overwritten meanwhile |
| `replay` is counted only without errors | the table of revoked tokens could not be read or written |
| `moved` | an operator changed an address that was verified, or was being verified |
| `Unsettles` | the result is sorted by what changed |

Bounds. Three customers for two seats give a checkout that gets all, one that
gets part and must give it back, and one that gets nothing. Two workers are
enough for every race of two handlers over one order, which is what the guards
and swaps of the code are about. Two seats make a release fail half-way. One
retry (three in the code) already separates "retried" from "given up". One
failure of each kind is enough for each compensation path to start, and the
budgets of `faults` combine four kinds.

For the payments, two handlers and two runs of the worker give every race of two
parties over a row; two failures reach the limit of attempts, which is 2 here
and 5 in the code; three outbox rows leave room for a second settlement. A
settlement starts only while a row is left for each that may be in flight
(`RoomToSettle`), so the bound never blocks a transaction.

`accounts` and `sales` are a choice of situations, each with the calls that race
in the source and as many as it takes: two calls at a time in auth-service,
two callers of an item, two readers in one process and one in another beside two
writers, two jobs over two orders of two seats. Two customers and a voucher with
one use give the contested last use; vouchers come with and without a limit, a
limit for each customer, a cap, a minimum, before their period; an operator sets
the limit to one, the least the DTOs admit, removes it, or deactivates the
voucher. Fares of 10400
make rounding matter. Three trips on pages of two give a full and a half-full
page. One error, lost lease or crash in each situation is enough to leave each
call half done at each of its steps. The clocks go to 1 (tokens) and 2 (sale
windows), enough for each token to be valid and expired and each window to be
early, open and over.

Lists of recipients have up to two entries, which a repeated one needs, and a
release has up to two labels, the least that can break off half-way. `live` runs
one handler at a time: what it asks is who gets a turn at all, not how two
handlers interleave, which the other runs of the saga show.

The seat properties are checked where the code can keep them: without timeouts
(a late `reserve_seat` reserves for a checkout that is gone), without crashes in
a checkout, and with chosen labels (the compensation of
labels allocated by count releases them twice). These limits are properties of
the code and are listed as hazards.

Fairness (`FairSpec`): each handler goes on (Node runs its continuations, each
RPC ends or times out); a queue with a message hands it to a free worker; the
cron, which runs each minute over the 100 oldest orders of its query, comes to
each order that is in this batch again and again (strong fairness, because it
needs a free worker at that time, and because the batch changes). An order that
older ones keep out of the batch is promised nothing, and `AgedOrderDecided` says
so.
Nothing is assumed of customers, operators, the payer or failures. In
`PaymentGateway` handlers and runs of the worker go on, a run starts while rows
are due (the cron), delays end, and VNPay repeats a notification until it is
answered 00 (strong fairness: it needs a free handler). That VNPay repeats is
its side of the contract `handleIpn` is written for; it is assumed, not modelled
from this repository. In `TicketCache` calls that have begun go on, Redis replicates,
and entries expire, because `set` always gives a time to live; nothing is assumed
of leases. In `Notifications` a service that died is started again and RabbitMQ
hands out its messages. The other parts have no liveness property and no
fairness.

### Disagreements found

1. **A refund does not end** (`order.service.ts:1125`). After claiming
   RefundPending the handler commits Refunded by comparing with the status it
   read before the claim. The swap cannot match: seats are released, the payment
   is marked Refunded, and the call fails. Every retry by the cron releases the
   same seats, is refused, and throws before the commit.
2. **Two cancellations of one order run side by side** (`order.service.ts:988`):
   the swap is skipped when the order is read as Cancelling. The second release
   can free a seat that another order has bought in between.
3. **`issueTicket` writes by id** (`order.service.ts:895`): an order whose refund
   was claimed after the check is set to TicketIssued.
4. **A payment is settled twice** (`payment.service.ts:193`): the check that it
   is not Paid is made before the transaction, the update in it is by id alone.
   Two notifications both pass, and `payment.paid` is sent twice (the consumer
   in orders-service tolerates that, see `duplicate` above).

5. **Stuck orders starve the cron** (`order.service.ts:1806`, a consequence of 1
   and of releases that are refused for ever). The batch is the 100 oldest orders
   of the query, and orders that are stuck as RefundPending or Cancelling never
   leave it. An order placed after them whose expiry message was lost stays
   PendingPayment. In `live` with its batch of one, `AgedOrderDecided` is violated
   without its disjunct `[]<>Crowded(o)`.

### Races the exceptions stand for

The exceptions above, and what was seen beside them, are behaviours of the code
that its comments or documents do not lead one to expect. They have no run of
their own; the property that excludes each shows it when the exception is
removed.

* **Two edits of the passengers at once** leave both passenger lists on the order
  and one total (`order.service.ts` 703-740): each deletes the rows it can see
  and inserts its own, and the order is written by id.
* **An edit that overlaps the settlement** re-prices an order that is paid, since
  the order's status is checked before the transaction only.
* **An order that holds a voucher with one use for each customer cannot be edited**:
  the re-pricing validates the voucher again and counts the order's own use. And
  the discount stored with the use is not updated by an edit.
* **A fare is rounded to thousands**, an undiscounted one as well, but seats
  without a listed passenger are not.
* **`cancelPendingPayments` writes by id** (`order.service.ts:1494`): a payment
  settled after the listing is set from Paid to Cancelled (`OrderSaga` has it).
* **The code of a deleted voucher cannot be used again**: the check looks at live
  rows, the column is unique over all.
* **A closed order may keep its voucher** (`order.service.ts:1027`,
  `voucher.service.ts:272`): when `releaseUsage` fails, Cancelled is committed all
  the same, and nothing tries again.
* **A second checkout with the same key** that has reserved its seats when it
  joins the order of the first leaves them reserved, also after that order was
  rolled back (`createOrder`, `order.service.ts:565`): `stranded`.
* **A release of several labels refused half-way leaves the cache stale**: each
  label is committed, the refusal skips the invalidation
  (`ticket.service.ts:1283`), and the entry shows the seats as sold until it
  expires. The same holds of `create` when its items cannot be inserted, and of
  `addTicketItem`, `prepareStock`, `openSale` and `closeSale` when the ticket cannot
  be read again.
* **A broadcast mails an address as often as its list names it.**
* **`mark-paid` of an operator asks for no payment**: the order is confirmed and
  its ticket issued, and nothing compares its total with what was paid.
* **A cache entry can be older than the last write** until it expires, as listed
  under `excused`; the second look before a fetch reads a replica, which may lag.
* **A sale whose locks cannot be released, or whose invalidation fails, has been
  committed** but is answered as an error (`ticket.service.ts:1475`, 1252): to its
  caller the seats look as if they had not been reserved.
* **`openSale` without an end keeps the end `closeSale` wrote**, so the sale stays
  closed; and `openSale`, `changeSaleWindow` and `updateTicketItem` check a window
  only when both ends are in the payload, so a row may hold a start after its end.
* **A release of several labels** that failed half-way is refused at its first
  label when repeated.
* **`create` inserts the ticket and its items in two statements**: a crash in
  between leaves a ticket without items.
* **Pages sorted by free seats** shift when seats are sold: a trip is shown twice
  or not at all.

## 5. What is proved

### The saga

For every value of the constants under `SagaAssumption` (a finite set of seats,
a declared stock equal to their number when there are labels, budgets that are
natural numbers, `None` distinct from orders, seats and slots):

| Theorem | Module | States |
| --- | --- | --- |
| `SagaTypeCorrect` | `OrderSagaProofs` | `Spec => []TypeOK` |
| `StockSound` | `OrderSagaProofs` | `Spec => []StockMatchesPool` |
| `SettlementBeforeTicket` | `OrderSagaProofs` | `Spec => []TicketNeedsSettlement` |
| `ClosedOnlyAfterRelease` | `OrderSagaProofs` | `Spec => []ClosedOrderReturnedParts` |
| `SagaImplementsOrderPromise` | `OrderSagaProofs` | `Spec => ImplementsOrderPromise` |
| `NoLeakedVoucherHolds` | `OrderSeatProofs` | `NoCrash`: `Spec => []NoLeakedVoucher`, which names the orders whose release failed |
| `NoLeakedSeatHolds` | `OrderSeatProofs` | `Calm`, `FewErrors`: `Spec => []NoLeakedSeat` |
| `LiveOrderHoldsItsSeatsHolds` | `OrderSeatProofs` | `Calm`, `Uncontested`: `Spec => [](LiveOrderHoldsItsSeats /\ SoldOnce)` |

* **Stock.** `TicketStockProofs` shows for each operation that an accepted
  request keeps `PoolSound` (counter = free labels, within bounds, free labels
  among the labels). `StockInv` adds that labels and declared stock never change,
  without which the bound `initial` says nothing.
* **Settlement.** The property alone is not inductive: a worker between the
  verification and the swap relies on what it saw. `SettlementInv` adds that a
  row that is Paid was settled (`PaidIsSettled`) and, for every worker, that its
  program counter is `Warranted`: in a fulfilment step of the paid event, before
  a swap to Confirmed and before the ticket's write the order is backed by a
  settlement or an operator. Being backed is never lost, so other workers cannot
  break it.
* **Release.** `ReleaseInv` adds `Faithful`: for each step of a cancel or a
  refund, which parts of its order are already in `returned` and which are still
  in `pend` or `qty`; a handler that got to the commit has returned them all.
  Interference is bounded by a frame condition, `Keeps`: the labels of an order
  never change once it exists, and `returned` only grows.
* **Refinement.** Each action of `OrderSaga` is shown to be a step of
  `OrderPromise` or a stutter (`PromiseStep`). What makes this hard is that a
  handler decides from a status it read several steps before it writes. Two
  facts bridge the distance: an order that is `Past` cancelling (sold, refunded
  or voided) stays so, and one whose cancellation has `Started` never waits
  again, whatever other handlers do (`Advancing`, which follows from the promise
  itself). `PromiseInv` therefore adds to `ReleaseInv` only what each handler has
  seen of these two (`Ahead`): who hands back or commits has seen its
  cancellation started, in its read or by its own claim; who writes TicketIssued
  has seen the order past cancelling; the swaps compare with a status of the
  right kind. That all goods are back at a commit is `Faithful`.

* **Vouchers.** `VoucherInv` adds that only an order that exists has used a
  voucher, and that whoever is about to write Cancelled has freed it or met an
  error in freeing it. What the theorem leaves is that no order of the handlers'
  steps loses a voucher: only a failed release, or one skipped because the order
  was removed in between, does.
* **Seats.** `SeatInv` adds `CheckoutInv` (what a checkout knows of its order: it
  is its own until the INSERT, and no two checkouts have one order) and
  `Covered`: a label that is not free is *carried* by a checkout that will
  create an order or give it back, *owned* by an order that has not returned it,
  or *queued* for release. A checkout that releases may meet an error at each
  label and starts over `MaxRetries` times; the invariant counts the errors used
  against the retries left, so that with `FewErrors` it never gives up.
* **Exclusive sale.** `TradeInv` adds `Usual` (every handler is a checkout of an
  order without payment rows or the fulfilment of an order with one) and
  `Exclusive`: a label of an open order, or one a checkout has and has not
  returned, is not free and is nobody else's. `SoldOnce`, which no run checks by
  that name, is its consequence: no two open orders share a label.

Each proof has one lemma for each action, then one QED over `Next`.

The hypotheses of the last three are bounds on what may go wrong, and each but one is
there because the code fails without it (the exception, no repeated key, keeps the
proofs to one checkout for each order). Checkouts, payments, fulfilment, and
where the table does not exclude them cancellations, refunds, expiry and
operator requests, remain in any number and any order.

| Hypothesis | Without it |
| --- | --- |
| `NoCrash` | a crash between the Cancelled a rollback writes and the release of the voucher loses the voucher: the checkout that is delivered again finds its order and stops. A crash before the order is written loses the labels |
| `Calm` (also no lost answer, no repeated key, no removal) | a `reserve_seat` whose answer is lost reserves for a caller that has given up; a removed order keeps its labels. A repeated idempotency key is left to TLC: `NoLeakedSeat` names the labels its second checkout may strand, and `checkout` repeats a key |
| `FewErrors` (no more failed calls than a release has retries) | a release that is refused once more than it retries gives up, and the labels of its checkout stay taken |
| `Uncontested`: no aging, no command | two cancellations of one order release its labels twice (disagreement 2) |
| `Uncontested`: no seats by count beside labels | the return of a count that fails makes the whole release start over, labels included |
| `Uncontested`: no failed call, or one label for each order | a release of two labels that failed half-way starts over and releases the first one again, which may be sold by then |

`LiveOrderHoldsItsSeats` is therefore proved for a part of what `checkout`
checks: that run has one failed call beside an order of two labels, which takes
the failed call to be rolled back with both labels, so that no second one stops
its release half-way. With two failed calls TLC finds the property violated. `Limit` bounds how often something
happens in a whole behaviour, so `FewErrors` is a statement about behaviours
with few failures, not about failures in each checkout.

### The payments

Under `GatewayAssumption` (`None` distinct from payments and rows, at least one
attempt, budgets that are natural numbers), in `PaymentGatewayProofs`:

| Theorem | States |
| --- | --- |
| `GatewayTypeCorrect` | `Spec => []TypeOK` |
| `ProcessedOnlyIfPublished` | `Spec => []ProcessedWasPublished` |
| `GivenUpOnlyAfterMax` | `Spec => []GivenUpAfterMax` |
| `AcknowledgedSuccessIsRecorded` | `Spec => []AcknowledgedIsRecorded` |
| `GatewayImplementsPaidNotice` | `Spec => ImplementsPaidNotice` |

* **Outbox.** `OutboxInv` says what a run of the worker knows (`Honest`): it has
  sent the row it is about to mark; the attempt counts it read are not ahead of
  the failures, and lag behind by one while a failure is still to be written;
  its rows are rows of the outbox (`BatchesOK`). Overlapping runs only add to
  what was sent and to the failures (`Advancing`), so they cannot break it.
* **Notification.** `NoticeInv` adds `Grounded`: a handler about to settle has an
  approval behind it, a handler about to answer 00 has a recorded success or a
  failure. Outcomes are final, and rows of the outbox keep their payments
  (`Gaining`), so the blind writes of others do not matter. The refinement maps
  the outcome of a page and an operator's request to `Approve`, the transaction
  of `markPaidWorkflow` to `Record`, an emit to `Tell`, the rest to stuttering.

### Pricing and vouchers

Under `LedgerAssumption` (the rows an operator may write have limits that are
numbers or none, a counter of zero and columns of their types, and edits name
neither the counter nor the state) and `PricingAssumption` (prices, seats and
budgets are natural numbers, passengers are of a known class), in
`OrderPricingProofs`, for any customers, orders, jobs, prices, passenger lists
and situations:

| Theorem | States |
| --- | --- |
| `CounterMatchesUsagesHolds` | `SpecPricing => []CounterMatchesUsages` |
| `WithinLimitsHolds` | `SpecPricing => []WithinLimits` |
| `AmountMatchesHolds` | `SpecPricing => []AmountMatchesPassengers` |
| `PaidCoversTotalHolds` | `SpecPricing => []PaidCoversTotal` |
| `PricingTypesHold` | `SpecPricing => []PricingTypeOK` |

The inductive invariant of the first four is `PricingInv`; the last has its own,
`TypesInv`.

* **Vouchers.** `LedgerInv` joins the counter, the limits and `granted`. A claim in
  progress compares with limits it read earlier, so `JobInv` adds that those were
  granted; and a use belongs to an order that exists (`UsagesKnown`), while the
  order of a creation in progress does not exist yet and nobody else works on it
  (`Exclusive`), so the use it claims is its first. The counter is the size of a
  finite set: a claim adds one, a return takes one away.
* **Amounts.** An edit between its read and its commit carries the price of the
  passengers it will write, and has deleted every row of the order unless it was
  overtaken (`JobInv`); two edits at once would break exactly this.
* **Payments.** A row that is paid has its money recorded (`PaymentsOK`), and a
  settlement between its check and its swap knows that the order's total was paid
  (`JobInv`); an edit in between makes the order overtaken. An order that an
  operator marked paid is named (`byHand`), so the theorem is about all the other
  ways to Paid.
* **Types.** That an amount is a natural number needs that the sum of the fares
  exists and is one. The library computes it as a function on the sets of
  passengers that is defined by itself, and induction over data is out of the
  provers' reach; but the least number of passengers at which a partial sum is
  missing (`PartialSums`), or not natural (`SumIsNatural`), can be taken from the
  well-foundedness of the naturals (`LeastNumber`), and has none below it.
  `TypesInv` then follows amounts from the rows into the requests that carry them
  (`JobTyped`), and a voucher's columns into the edit an operator has begun.

### Search

Under `SearchAssumption` (finitely many trips, numbered by age; a positive page
size; catalogues with rows of their types; queries with a known order of
sorting), also in `OrderPricingProofs`, because the sum of the seats that are
left needs the lemmas of the fares:

| Theorem | States |
| --- | --- |
| `WalkShowsEveryTripOnceHolds` | `SpecSearch => []WalkShowsEveryTripOnce` |

* **The list.** `Precedes` is a linear order of the trips found (`SortIsLinear`),
  and a finite set with a linear order has a list in that order, which puts each
  element at the place the number of its predecessors gives
  (`ListingIsOrdered`), and shows each element once (`ListingShowsAll`).
* **The walk.** `SearchInv`: until a change disturbs the order, what was shown is
  the beginning of the list that a search would compute now (`WalkOK`). The next
  page continues it (`PagesJoin`), and the last page is the one that completes it
  (`PagesCount`, by the rounding of `Math.ceil`).
* **The changes.** A sale leaves the prices as they were and a passing window the
  seats (`SameKey`), so neither changes what is found nor how it compares unless
  the result is sorted by it (`SameResult`). The seats are a sum over the trip's
  items, the same sum if no item's stock changed (`SeatTableIsSum`).

### The cache

Under `CacheAssumption` (finitely many seats; every call runs in some process;
`Empty` is no version, key or reader; each call of a situation asks for a key or
makes a change of a known kind; its mishaps are numbers), in
`TicketCacheProofs`, for any readers, writers, processes, keys and mishaps:

| Theorem | States |
| --- | --- |
| `QuietCacheIsFreshHolds` | `SpecCache => []QuietCacheIsFresh` |
| `OneFillPerKeyHolds` | `SpecCache => []OneFillPerKey` |
| `CacheTypesHold` | `SpecCache => []CacheTypeOK` |

The inductive invariant is `CacheInv`. What a reader is about to store was in the
database at some time (`FetchedBefore`), so it is either the current version or
an older one, which excuses the key; a commit puts each key it changes among the
keys to delete or excuses it, and a key leaves that set only by being deleted or
excused (`TodoAfterCommit`). Who is between lease and release holds the lease,
unless one ran out (`LeaseHeld`): so two such readers of one key are one.

A call that breaks off between two commits excuses the keys it has yet to delete,
which is what lets the invariant hold of calls with several transactions.

`CacheTypeOK` says that every copy, in Redis or in a reader's hands, is of a
version that was committed, which needs two more invariants: `VersionInv` (what is
stored or fetched was committed) and `PendingInv` (a fetch pending in a process is
led by a reader of that process and that key).

### Accounts and notifications

Under `AuthAssumption` and `NotificationAssumption` (`None` is no account, address
or password; times and budgets are numbers; rows of an earlier version that show
a token are of a type that has one), in `AccountsProofs`, for any accounts,
addresses, passwords, calls, recipients and messages:

| Theorem | States |
| --- | --- |
| `AccountTypesHold` | `Spec => []TypeOK` |
| `SessionNeedsCurrentPasswordHolds` | `Spec => []SessionNeedsCurrentPassword` |
| `ExchangedTokenIsDeadHolds` | `Spec => []ExchangedTokenIsDead` |
| `VerifiedAddressWasProvenHolds` | `Spec => []VerifiedAddressWasProven` |
| `NotificationTypesHold` | `SpecNotifications => []NotificationTypes` |
| `OneMailPerAttemptHolds` | `SpecNotifications => []OneMailPerAttempt` |
| `SecretsStayInTheMailHolds` | `SpecNotifications => []SecretsStayInTheMail` |

* **Sessions.** `AuthInv` is about pairs of a version and a password that were read
  together and travel on, in a call or in a session: while the version is still
  the account's, so is the password, unless a change is between its two
  statements, died there, or was overwritten (`Credible`, for calls and for
  sessions). `BumpWrote` says what the account holds while a change is between
  its two statements, `Known` that nobody acts for an account that was never
  created.
* **Refresh tokens.** `RevokedStays`: what an exchange revoked stays revoked until
  the same token is minted again, so a second exchange cannot pass its check.
* **Addresses.** `ProofInHand`: who is about to write "verified" has a token for the
  address the account has, unless that was changed meanwhile.
* **Mail.** `MailInv` adds that the mails a recipient has had and those that are
  still to come in this attempt are together no more than the attempts times the
  entries of the list that name them (`MailsDue`), and that a row that shows a token is an old
  row of a type that has one, and no redaction has gone through
  (`SecretsHaveTypes`).

### Inventory

Under `InventoryAssumption` (finitely many labels; the situations begin with
nothing sold, and their requests are those the DTOs let through), in
`TicketInventoryProofs`, for any items, callers and requests:

| Theorem | States |
| --- | --- |
| `InventoryTypesHold` | `SpecInventory => []InventoryTypeOK` |
| `HeldSeatIsTakenHolds` | `SpecInventory => []HeldSeatIsTaken` |
| `PoolConservedHolds` | `SpecInventory => []PoolConserved` |
| `ClosedSaleSellsNothingHolds` | `SpecInventory => ClosedSaleSellsNothing` |

A call writes whole rows from what it read, so no property of the pool is
inductive without `LockHeld`: who is between read and write holds the row lock
and has the rows as they are. `PoolsSound` says of every item whose pool no
operator dictated that free and held labels are disjoint and together are all
labels, and that counter and units in customers' hands add up to the declared
stock; and that an item closed by `closeSale` has the end written there, from
which the action property follows.

### Only model-checked

* Every liveness property (`AgedOrderDecided`, `SettlementIsTold`,
  `CallsAreAnswered`, `StaleEntriesGo`, `MessagesAreAnswered`): liveness under
  fairness is out of the prover's reach. Every safety property that a passing
  run checks is also stated by a theorem.
* `LiveOrderHoldsItsSeats` where the theorem's hypotheses end, as said above.

## 6. Not modelled

* **Uploads**: I/O to an image host, with no state of its own.
* **Infrastructure**: compose files, migrations, build files, seeds and scripts.
* **Guards for roles and throttling, and the controllers that forward a request**:
  they change no state; what they admit is what the models take as input.
* **`findAll`, `searchByName`, `suggestStations`**: single queries over rows that
  `TicketInventory` and `TripSearch` have; nothing relates one answer to another.
* **The dead-letter queue**: messages are put there and nothing reads them.
* **Profile fields** (names, phone numbers, pictures): no other state depends on
  them. `updateUser` is modelled for the address.
* **`markPaid` of payments-service**: no route of the gateway calls it.
* **`updateSeatLabels`**: always answers 400.
* **Lost updates inside PostgreSQL or Redis**: transactions, row locks and
  single commands are taken to be what their documentation says.
