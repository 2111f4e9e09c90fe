# A verification project for the store platform's commerce core

The repository is a Django 5.2 application that hosts many online stores. This
directory models the part of it in which money, stock and promises to third
parties change hands, checks the models with TLC and proves theorems about them
with TLAPS. Every definition
is translated from the source under `src/apps/`; `PROJECT.json` (`map`) names the
lines.

How the program runs matters to the models. Web requests are served by several
gunicorn threads, background work by Celery workers, and all of them share one
PostgreSQL database at its default isolation level, READ COMMITTED. There is no
transaction per request (`ATOMIC_REQUESTS` is off): a view loads an object, then
calls a service that runs in a transaction of its own and, with
`save(update_fields=...)`, writes some columns of the object it was given. Row
locks (`select_for_update`) are taken only in `record_movement`, `place_order`,
`handle_webhook`, `refund_payment`, `apply_to_order`, the cart and a few others;
billing takes one, in its webhook, and outgoing webhooks none. Celery tasks are
acknowledged late (`acks_late`): a task whose worker is lost runs again, a task
that ends with an exception does not.

## 1. Inventory of the system

| Component | State | Operations | Interacts with |
|---|---|---|---|
| inventory | `InventoryItem` (quantity, reserved, threshold), `StockMovement` ledger, `InventoryTransfer` | record_movement and its callers: reserve, release, consume_sale, receive_stock, adjust_stock, complete_transfer | called by orders and the back office; written behind its back by the catalogue importer and the variant editor; emits `inventory.low` |
| orders | `Order` (status, payment_status, stock_reserved), `OrderItem` | place_order, transition_order, mark_paid, fulfill_order, cancel_order, expire_stale_pending_orders | calls inventory; called by checkout, payments, shipping, views and the hourly sweep |
| payments | `Payment`, `Refund`, `PaymentEvent` | initiate, verify, capture, record_offline, UPI reference, handle_webhook, refund, reconcile | calls orders.mark_paid and transition_order; talks to the gateway |
| checkout | none of its own | complete_checkout | calls orders, coupons, shipping, payments in separate transactions |
| cart | `Cart`, `CartItem` | get_or_create_cart, add, change, merge at login, recovery mails | read and closed by place_order |
| coupons | `Coupon.used_count`, `CouponRedemption` | validate, apply_to_order, release, the back-office form | applied by checkout; a `post_save` signal of Order releases |
| outgoing webhooks | `WebhookDelivery` (status, attempts, next_retry_at) | trigger, retry_delivery, retry_due | driven by domain events and a 5-minute task |
| domain events | none (Django signal) | emit, after commit | notifications, webhooks, analytics |
| billing | `Subscription`, `Invoice`, `ManagerCommission` | change_plan, issue_invoice, start_payment, confirm_payment, webhook, suspend_overdue, the administrator's overrides | gateway, periodic tasks every 6 hours |
| shipping | `Shipment`, `ShipmentEvent` | create, update status, courier webhook | asks orders for transitions |
| referrals, b2b, customers, reviews, accounts, crm, social, ... | single rows, derived totals | edits | listed in `PROJECT.json` with the reason they are left out |

What is hard in it, and what makes it correct:

- *Stock under concurrency* (inventory): absolute counters computed from a read
  must not lose updates; two orders must not take one unit; transactions that
  lock rows in line order deadlock; a batch is all or nothing. Correct means the
  ledger reconstructs the counters, nothing is oversold, nothing is negative and
  alerts fire exactly at the crossing.
- *Stale objects* (orders): every service decides from the loaded order and
  overwrites columns of the stored one. Correct means a hold on stock is neither
  lost nor kept for ever whatever races, and closed orders hold nothing.
- *Unreliable delivery* (payments): callbacks get lost, webhooks come late, twice
  and out of order, answers of refunds get lost. Correct means every capture
  reaches the order, and every refund the gateway makes is recorded, once, as
  what it was. One shape of refund event breaks the "once"; the properties say
  by how much.
- *Several transactions in a row* (checkout): the order is committed before the
  coupon is looked at, carts are picked without a lock, and a login merges two
  of them meanwhile. Correct means nothing a shopper put into a cart is ordered
  twice, and nothing half done costs a coupon.
- *Callbacks on save* (coupons): the counter of uses is kept beside the rows it
  counts, and given back by a signal. Correct means it counts them, and limits
  hold for any number of checkouts at once.
- *Retries with crashes* (outgoing webhooks): the deliver task, the retry task
  and staff attempt a delivery from copies of its row and save all of it.
  Correct means every event is delivered or given up after enough attempts,
  what was delivered stays so, and nothing is sent again without a cause.
- *Unlocked services on one row* (billing): owner, administrator, two jobs, a
  callback and a webhook. Correct means no bill is issued twice, one credit for it,
  no store suspended that owes nothing, none unsuspended that does, and what
  was paid is settled.

The hazards, each at its line, are in `PROJECT.json`.

## 2. Modules and how they correspond to the code

**StockLedger** is the abstract specification of apps/inventory: two counters per
record and the sums of its movement rows. `Move(delta)` applies one
transaction's movements atomically if none of the two refusals of
`record_movement` applies. `Overwrite` is the one write beside the ledger.

**Inventory** is the detailed one. A worker in a transaction (`mode = "running"`)
has movements to make (`todo`), rows it holds locked (`held`), the rows as it
sees them (`draft`), inserted movement rows (`pending`) and events queued with
`on_commit` (`low`). `RecordMovement` is one call of `record_movement`, from
`select_for_update` to the queued event; `Refuse` is `InsufficientStockError`
leaving the atomic block; `Commit` publishes the rows and `EmitLow` emits the
queued events after it, one by one (`mode = "emitting"`): a worker killed in
between leaves the rest unemitted. `AdjustRead` and
`AdjustStock` are the two halves of a stock adjustment: the view reads the item
without a lock, `adjust_stock` subtracts from what was read. `SetStock` is the
importer's and the variant editor's `save(update_fields=["quantity"])`.
`DeadlockAbort` and `Crash` are external. `row`, `ledger` and `alerts` are what
is committed. A movement the database has not committed is visible to nobody
else (READ COMMITTED), which is why readers use `row` and holders `draft`.

**Orders** EXTENDS StockLedger, so each service is one step with one `Move`:
Inventory shows that the lock protocol implements that. A request first runs `Load`,
which keeps the fields its service will read (`Job`), and later commits
`Transition`, `MarkPaid`, `FulfillOrder` or `RecordCod` from them, any number of
other commits in between. `MarkPaid` writes the status only if the loaded status
was pending, `Transition` always, as `update_fields` says. The outstanding lines
of a fulfilment are read in its transaction, but without a lock, so `Load`
reads them too. The sweep is `SweepQuery`
(one evaluation of the queryset, the loaded objects in `batch`), a `SweepCancel`
per order, and `SweepCrash`. Two details: lines of products without a stock
record ("untracked") are lines with `Qty = 0`; `FulfillOrder` ships everything
outstanding, because nothing in the code fulfils an order in part. `booked` is not stored
by the program as such: it is the sum of the `reserved_delta` of the movement
rows whose `reference` names the order.

**Payments** models gateway payments of one order. Database and gateway are kept
apart: `offered`, `captured`, `issued` and `events` belong to the gateway, whose
actions are external. `events` only grows (but for `WebhookUnmatched`), so every
event is delivered any number of times, at any time, in any order.
`RefundBegin` takes the row lock; `RefundAtGateway` is the gateway's act,
whose answer is on the way; `RefundCommit` and `RefundAbort` are the answer
that arrives and the one that does not. Every other writer of the row waits
(`~Locked`). A staff capture is split like an adjustment: the copy that staff loaded
(`capturing`) carries the gateway payment id that `_settle` saves again, blank
if a webhook has stored one only since. `gatewayId` is
`Payment.provider_payment_id`, and lookups go by it (`Holders`) before they go
by the order. `GatewayPayment` has payments of other orders too, because
`Verify` takes the order id from the handshake and does not compare it with the
payment's: a handshake of any captured payment settles.

`parse_webhook` reads a refund event from the payment's entity if it carries
one, and from the refund's otherwise (razorpay.py:134-149). The gateway of the
model sends either shape or both. `WebhookRefund` is the event with the refund
alone; `WebhookRefundOfPayment` the other one, which finds the payment by its
order and stores the payment's id as the refund's. A `Row` keeps the id it is
stored under apart from the refund it was made for, so that the model sees
what the program cannot.

`RefundOrder` is the order's move to refunded, made by `RefundCommit` and, with
no refund at all, by staff (`RefundOrderByHand`). Abstractions:
`payment.authorized` is handled as the capture is, and `order.paid`
(`WebhookOrderPaid`) as one that names no payment; a webhook whose amount is too
small or whose signature is wrong raises inside the transaction and changes
nothing; the order is written through `mark_paid`'s effect on the current row
(`PaidOrder`), Orders being the module for stale copies; "confirmed" stands for
all the statuses after it. One staff capture is under way at a time (a bound).

**UsagePool** is the abstract specification of coupons: each has a number of
uses, an order holds one at most, a use is taken while one is left.

**Coupons** is the detailed one: the counter (`used`), the unreleased
redemptions (`use`), and the two writers that run beside checkouts, the
back-office form, which saves the `used_count` it loaded (`FormLoad`,
`FormSave`), and a later save of a closed order, whose signal reads and releases
outside any lock (`SaverReads`, `SaverReleases`). `Valid` is
`validate_coupon`'s unlocked look, `Apply` is `apply_to_order` from
`select_for_update` on. Coupons that these two writers touch are `Disturbed`:
their counters do go wrong, and the properties except them. Dates, minimum
amounts and discounts are left out of `Valid`, which only refuses more with
them.

**Carts** has the Cart rows of one shopper, as sets of units rather than lines with
quantities, so that a unit counted twice shows. `AddToCart` and `TakeOut` act on
a cart that was picked earlier and may be closed by now; `MergeAdopts` and
`MergeFolds` are the two branches of the merge at login. `MergeFolds` leaves
units in the session's cart when lines collide, as the code does. The
reminders of `cart/tasks.py` are left out: they mail, and write a date that only
they read (section 5).

**Checkout** EXTENDS both and adds orders and requests: `Start` picks a cart,
`PlaceOrder` is `place_order`'s transaction with its tests under the cart's
lock, `Validate` and `ApplyCoupon` are the coupon's two steps, `GiveUp` ends the
request anywhere. `Close` is any transition to a closed status, from whatever
copy of the order, with its signal. A coupon that is applied after its order
was closed keeps its use until the order is saved again; this is a state of the
model, and no property forbids it. `Solo` names customers who run one checkout
at a time: only for them is the limit per customer kept.

**Webhooks** follows a domain event from its commit. `Emit` hands it to the broker
or loses it, `TakeTask` starts the deliver task, `Trigger` creates the next
endpoint's row, `Attempt` is `_attempt` up to the answer, on the copy, and `Save`
is the `save()` that follows. `RetryDue` loads a batch of copies, newest first;
`RetryDelivery` is the staff's. `AttemptUnread` is a 2xx whose body times out or
is reset in `resp.read` and that is therefore retried. `Raise` is an exception that
none of `_attempt`'s handlers names, before the answer or after it (the soft
time limit, the database at the save), `Kill` a lost worker; these and manual
retries are counted (`Disturbance`), and `MaxTrouble` bounds them together. The
endpoints in `Broken` may raise before the answer without a bound. `tries`,
`accepted` and `dropped` are history: the attempts, the 2xx answers, and the
events whose deliver task an exception ended. One retry task at a time is assumed.

**Billing** has one store's subscription. `view[s]` is what a process loaded;
the actions that follow decide from it and write what the code writes, with
no look at what was committed since, where the code takes none. `slipped` is
history: some service has acted on a copy that had gone out of date, or was
killed between two commits. `change_plan` is `PlanLoad`, `ChangePlan` and
`BillPlan`: its UPDATE comes before its look at what is open, so from then on
it holds the subscription's row (`Locked`) and every other writer of that row
waits. The renewal job writes that row only of a store that was active, so
`Renew` may come between a plan change's look and its commit, and a plan change
between `RenewLoad` and `Renew`. `renewal` tells the invoices of the two apart;
the program does not store it. `MarkInvoicePaid` is shared by the callback, the
webhook and the administrator. `Webhook` may find no webhook secret, at any
time: the event is then answered and lost (`ignored`). `ExtendVoid` and
`ExtendSave` are the two halves of `admin_extend`, which is not a transaction.
`StartPayment` replaces the gateway order an invoice names. Left out: the
status "cancelled" (nothing calls `cancel()`), amounts, trial reminders, how
near the period's end is (time may pass between any two steps, so a renewal may
fall due at any of them), and payments in test mode, which need no gateway.

**MCInventory**, **MCOrders** and **MCCheckout** only define order lines,
limits and symmetry for TLC. **InventoryProofs**, **OrdersProofs**,
**PaymentsProofs**, **CheckoutProofs**, **WebhooksProofs**,
**WebhooksOnceProofs** and **BillingProofs** hold the theorems about the modules they
are named after, and **SumProofs** what they need to know of sums. A definition
that a comment calls a *mutant* is a plausible bug that the specification does not use:
putting it in the place of the definition it is named after makes the property
listed beside it in `PROJECT.json` fail.

## 3. What the runs check

| Run | Shows |
|---|---|
| `Inventory.cfg` | All six safety properties and the liveness property below, and that Inventory implements StockLedger. |
| `InventoryImport.cfg` (violation) | `EveryChangeIsLedgered`: an import changes a quantity with no movement row. |
| `Orders.cfg` | Holds, flags, statuses and the sweep under races. |
| `OrdersFulfil.cfg` (violation) | `ReservedIsAllocated`: cancel, then fulfil, takes units reserved for others. |
| `OrdersUpi.cfg` (violation) | `UpiStaysPending`: the sweep cancels direct UPI orders. |
| `OrdersExpiry.cfg` (violation) | `ExpiryOnlyUnpaid`: a payment between the sweep's query and its cancellation is overridden. |
| `Payments.cfg` | Settlement and refunds under lost, late, repeated and reordered messages. |
| `PaymentsSync.cfg` (violation) | `OrderInSync`: a late failure event, or a second callback, turns PAID into FAILED. |
| `Checkout.cfg` | Carts, orders and coupons under double submits, merges, refusals and closed orders, and that Coupons implements UsagePool. |
| `Webhooks.cfg` | Deliveries under lost workers, manual retries and exceptions. |
| `Billing.cfg` | Bills, credits, suspension and settlement of one store under stale copies. |
| `BillingOrders.cfg` (violation) | `EveryCaptureSettles`: money paid for the first of two gateway orders of an invoice settles nothing. |

The six violations are disagreements between the code and its own comments and
are described, with the lines quoted, under `findings` in `PROJECT.json`.

Inventory. `LedgerReconstructs` (movement rows sum up to the counters),
`NeverNegative`, `NoOversell` (a reserved count that rises stays within the
quantity), `AlertsOnCrossing` (a commit owes the low-stock event of exactly the
items it takes across the threshold, each owed event is emitted once, and only
a killed worker loses one), `ImplementsStockLedger`,
`TransactionsEnd`. Imported items are excepted where the importer really breaks
the promise.

Orders. `HoldMatchesFlag` relates the ledger's rows for an order to its
`stock_reserved` flag; it says "nothing or less" for an unflagged order because
two stale cancellations do release twice (`ReservedIsAllocated` is the violated
exact form). `NoLeakedReservation`: no unit stays reserved that no flagged
order accounts for. `ClosedHoldsNothing`, `PaidNeverPending`, and the liveness
property `AbandonedOrdersExpire`.

Payments. `RefundsRecordedOnce` and `NeverOverRefunded` relate the Refund rows to
the gateway's refunds: a row is of a real refund, no two of a payment share an
id, and the rows under a refund's own id never exceed the payment. What they do
not say is that a refund has one row. It may have two, if its event carries the
payment: a full refund by staff followed by such an event leaves a refunded
total of twice the amount, and TLC shows it when the condition on `id` is taken
out of either property. The comment at `payments/services.py:296`, "A refund we
didn't originate", takes for granted that this branch is only reached by
refunds from the dashboard. `PaidPaymentMeansPaidOrder` and the liveness properties
`CapturedReachesOrder` and `RefundsReconciled` complete the list. The last is
stated while some payment has the gateway id stored: a refund event that
names an unknown payment is acknowledged and lost (`WebhookUnmatched`), also after
a staff capture has saved a blank id. Nothing is claimed of an order that reads
refunded: staff can set that status with no refund made.

Checkout. `OrderedOnce` relates orders, and carts that can still become orders:
no two share a unit. `UsedIsLive` (the counter is the number of orders that hold a
use), `LimitRespected`, `PerCustomerRespected` (for `Solo` customers),
and the refinement `ImplementsPool`.

Webhooks. `AcceptedOnce` (an endpoint accepts an event once, and once more at
most for each lost worker, manual retry, exception and unread 2xx),
`NeverGivesUpEarly` (exhausted only after `MAX_ATTEMPTS` attempts, though copies
overwrite each other), `DeliveredStaysDelivered`, and the liveness properties
`FailedSettle` and `QueuedSettles`. Two limits of the code show where the
properties make exceptions. A task that ends with an exception leaves its row
PENDING for good, since `retry_due` looks for FAILED rows and the message is
acknowledged (`dropped` in `QueuedSettles`). And an endpoint that answers with
malformed HTTP, or an error whose body never comes (`exc.read` at line 146),
ends every retry run at its row (`apps/webhooks/services.py:136-149` does not
catch that, line 177 is one loop). The run has such an endpoint
(`Broken = {p2}`): the rows older than a failed one of its own starve with it
(`Behind`), and the properties promise the end of all the others. No comment or
document promises more, so this is no finding.

Billing. `OneOpenInvoice`: however often the jobs run and from whatever copies, a
store has at most one open invoice of its renewals and one of its plan changes. It
may have one of each, when a renewal's look and a plan change overlap; no
document excludes that. `SuspendedOwes` holds as long as no service
`slipped`: it says that suspension is right step by step, and which steps can go
wrong. `CreditedOnce` and `PaidIsFinal` hold without that. `OverdueSuspends`: an
overdue store is suspended in the end. `CapturedSettles`: money taken for the
gateway order an invoice names settles the invoice, unless its event came while
no webhook secret was set, which the docstring at `billing/services.py:215-217`
announces; `EveryCaptureSettles`, of every gateway order, is the violated one.

### Bounds

- Inventory: two records, two workers, orders of one unit of each in both lock
  orders, `MaxStock = 1`, threshold 1, one imported record with the import value
  0, `MaxDebt = 1` (72,267 states). Two workers suffice for every lock conflict and a deadlock
  cycle; one unit suffices for a race for the last one; the threshold is
  crossed in both directions. `MaxStock` bounds calls that add stock, in the
  counters and in the ledger; `MaxDebt` how far below zero a call may take a
  reserved count, which no refusal of the code keeps from happening.
- Orders: one order, two requests and the sweep (257,166 states). Three actors
  with their own stale copies of the same order cover every pair of racing services;
  the models of orders only meet in the stock counters, which `OrdersFulfil`
  shows and the proofs treat for any number of orders. Targets: processing,
  packed, cancelled; the remaining statuses follow the same edges and are
  covered by the proofs, where `Target` is any set of statuses.
- Payments: one payment of two units, two gateway payments, two refund ids
  (278,371 states), so that partial, full, simultaneous and dashboard refunds
  occur, each told of in both shapes, and handshakes and captures name the other
  payment. The safety theorems hold for any number of payments.
- Checkout: two units, two carts, two requests, two orders, two coupons with
  limits of 1, one of them disturbed, two customers, one of them `Solo`
  (215,500 states, symmetry in units, orders and requests: only safety is
  checked). Two units make carts that share and split; two of everything else
  is what it takes to race for one cart or for the last use. The theorems treat
  any number.
- Webhooks: one event, two endpoints, two attempts, batches of two, one
  disturbance, one broken endpoint (165,216 states). Two disturbances are beyond TLC
  here (over 19 million states). Deliveries of different events only meet in the
  batch, where two endpoints' rows meet in the same way. The safety theorems hold for any
  number of disturbances.
- Billing: two invoices and one gateway order (604,036 states): a bill that is
  voided or doubled, one after it, and a renewal beside a plan change. One
  request of the owner is under way at a time; a second one that changes plans
  would wait for the first at the row's lock.
  `BillingOrders` takes one invoice with two gateway orders.

Deadlock checking is on for Inventory and off elsewhere, where everything may
have come to its end: orders closed, payments refunded, deliveries settled,
bounds used up.

### Fairness

- Inventory: strong fairness of a worker's steps (PostgreSQL queues row locks,
  so a lock that is free again and again is granted), weak fairness of the
  deadlock detector, and of an adjustment's second half.
- Orders: weak fairness of the sweep's query (Celery beat runs it every hour, and
  acknowledges late, so that a killed run is repeated) and strong fairness of its
  cancellations: not every run is killed midway. Nothing is assumed of shoppers
  or staff.
- Payments: strong fairness of a captured event's and a refund event's delivery
  (the gateway repeats what is not acknowledged with a 2xx answer), and weak fairness of the
  end of a refund transaction (the network call times out). Callbacks, staff and
  retries get none.
- Checkout: none, as only safety is checked.
- Webhooks: weak fairness of the deliver task (Celery runs queued tasks), of the
  retry task (beat starts it every five minutes; requests end within `TIMEOUT`)
  and of time. Nothing of staff, and a lost worker is not a fair one.
- Billing: strong fairness of the suspension job's query and of its save (it runs
  every six hours, and not every run is killed, finds nothing or meets a plan
  change), weak fairness of the end of a plan change that holds the row, and
  strong fairness of the delivery of a webhook event until it is acknowledged
  (the gateway repeats it, and who waits for a row lock gets it). Nothing of
  owners, administrators or the renewal job.

## 4. What is proved

For every value of the constants, under the named assumptions beside them.

InventoryProofs. The invariant `IInv` strengthens what is checked by: two workers
never hold one row (`Exclusive`), a worker outside a transaction has nothing
(`Quiet`), the draft of a locked row is the committed row shifted by the inserted
movements (`DraftIsRow`), the movements of one call either leave the quantity
alone or reserve nothing (`OneKind`), and what the refusals leave true of a
draft (`DraftsBacked`). `DraftIsRow` is why it is needed: `LedgerReconstructs` alone says
nothing of what a commit will write. From it follow `TypeCorrect`,
`LedgerHolds`, `NonNegative`, `NeverOversold`, and `Refinement`, with the identity
as mapping: a commit is a `Move` by the movements inserted, an import an
`Overwrite`, every other step stutters. That the batch is accepted *as a whole*
in the abstract step is where `OneKind` comes in: each movement was
accepted alone, and the sum must be. `AlertsExact` has an invariant of its own,
`CrossInv`. The event is queued by the movement that crosses the threshold, inside a
transaction, and the property speaks of what is owed once the rows are committed.
`LowIsCrossed` ties the two: the events queued in a transaction are those of
the locked rows whose draft is at the threshold or below and whose committed row is
above it. It is inductive because
no call lowers an item's available count and raises it again (`OneWay`), not even
one whose lines repeat an item.

OrdersProofs. `IInv` adds to the checked invariants that an order not placed is blank,
that a fulfilled one holds nothing, and that what a request or the sweep has loaded
lies in the past (`LoadedInPast`, `FoundInPast`): an order loaded unflagged is
still unflagged, one loaded as no longer pending is not pending now. The stored
order moves only forward in these respects (the step lemma `Forward`), which
makes stale decisions harmless for `HoldsMatchFlags`, `ClosedReleased` and
`PaidConfirmed`. `NothingLeaked` compares a counter with a sum over the flagged
orders. A step changes reserved counts, flags and books together in one of three ways
(`HoldsChange`), and `HeldInv` follows the sum through each. The same argument yields
`DriftIsOverRelease`, the other side of the violated `ReservedIsAllocated`: a
reserved count is exact until some order has given back more than it reserved, so
that the double release is the one way for it to drift. `StockUsed` says that Orders
implements StockLedger, and never by an `Overwrite`; with `Refinement` of
InventoryProofs it joins the two modules that meet there.

PaymentsProofs. What is known of refunds is in four places: the gateway's list
(`issued`), its events of either shape (`Told`), the answers that refund
transactions have got and the Refund rows. `GatewayHonest` says an id is one
refund and events tell of real ones; `AnswersNew`, that a refund whose answer has
come is of the gateway payment still stored, and its payment has no row under its
id. Every step either brings no news, is a new refund of the gateway, or writes
one row (`RefundChanges`: `NoNews`, `MakesRefund`, `WebhookWrites`, `StaffWrites`).
The webhook's row has an id of its own because `KnownRefund` found none, and whoever
holds an answer holds the lock the webhook waits for. So `RecordedOnce`: one row for
an id, not one row for a refund. `PaidReachesOrder`: each step settles a payment
together with its order or settles none, and none unpays an order
(`StatusChange`). `MoneyInv` is about amounts: `refunded` is the sum of the rows
(`Totalled`), the sets summed are finite (`Finite`), and the gateway's refunds stay
within what it took (`WithinAmount`, which is the guard of the external
`GatewayRefund`). The code's own test of the amount is not enough for
`NoOverRefund`, since refunds from the dashboard come in by webhook untested. What
is: the rows under their refund's own id (`Own`) map one to one into the gateway's
refunds, by `RecordedOnce`, and so cannot sum up to more.

SumProofs. `MapThenSumSet` and `SumFunctionOnSet` of the community modules are
recursive functions on the subsets of a set. That the recursion has a solution, that
the sum is that of any element and the rest, that it is a natural number and that an
injection bounds it (`SumInjected`) would be inductions over the set. The induction
theorems of the library take an operator and cannot be used; instead a claim that
fails for some subset fails for a smallest one (`LeastSubset`, from the
well-foundedness of strict inclusion on the subsets of a finite set), of which it
would hold of the rest and therefore of the subset. That the sets are finite is not
assumed: it is part of the invariants (`Finite`, `HeldInv`), as rows and flags come
one at a time.

CheckoutProofs. `UnitsOnce` adds to `OrderedOnce` that a unit not yet in any cart
is in no order and no open cart. `OrdersApart` says that a request about to apply a
coupon has an order of its own, which holds none yet, so that a use given back is
never one that was not taken. `CouponInv` ties `used` to the set of orders that
hold the coupon, with facts on the cardinality of sets that gain or lose one
member, and says that no form is open on an undisturbed coupon. `SoloInv` is behind
`PerCustomerHolds`: a `Solo` customer has one request at a time, and between its
`Validate` and `Apply` the customer's open orders with the coupon stay below the
limit. `PoolImplemented` is the refinement, with `held[o]` the coupon of order `o`
where it is undisturbed.

WebhooksProofs. Each step passes, creates a row, loads copies, attempts one, or
saves one (`Effects`). `Counted` extends the claim about rows to all copies in
hand: neither tells of an attempt that was not made, so overwriting one with
another keeps `TriedEnough` true. `CopiesApart` says that, while staff keep
out of it, the deliver task has copies of rows that still read pending and the
retry task of rows that read failed; so no save hits a successful row
(`SuccessStays`).

WebhooksOnceProofs. `AcceptedOnce` bounds a counter by the disturbances so far,
which is not inductive. `Bounded` adds to the counter what may still be
accepted, the `Chances` of event `e` at endpoint `p`: each row of theirs that
reads failed, or of which the retry task has a copy that was not accepted; one
for the deliver task, while the event is to be emitted or taken, or its task
comes to `p` yet or attempts it; one for a copy staff have. A step moves a
chance from one place to another, spends one on an acceptance, or is a
disturbance and makes one, or accepts without spending it (`Balanced`). `OnceInv`
says why no step does both: only the copy in hand can have been accepted, a copy
keeps the event and endpoint of its row, and the deliver task comes to each
endpoint once. An exception that comes
before the answer makes no chance, because the message is acknowledged all the
same; one that comes after it leaves a row that may be tried again, and counts.

BillingProofs. Every step's effect on the invoices is one of a few row changes
(`RowChange`), and each of them moves rows forward only and credits exactly what
it settles (`CreditsMatch`, `PaidStays`). `BilledOnce`
assumes nothing of what was loaded. Its invariant `OneEach` adds what a plan
change and a renewal rely on: while the plan change holds the subscription's row, no
open invoice but a renewal's can appear, and while a renewal is under way, none of
its own kind. `SuspensionOwed` carries the `slipped` condition through every action:
whoever acts on an up-to-date copy finds, at its write, what its test found.

Only model-checked: the eight liveness properties (`TransactionsEnd`,
`AbandonedOrdersExpire`, `CapturedReachesOrder`, `RefundsReconciled`, `FailedSettle`,
`QueuedSettles`, `OverdueSuspends`, `CapturedSettles`), whose proofs need `ENABLED`
and fairness, which the prover does not support. Every invariant, action property and refinement that a
passing run checks is a theorem. That the proofs' own invariants hold on small
instances (`CrossInv`, `HeldInv`, `MoneyInv` and the others) was tried with TLC before
they were proved.

## 5. Not modelled, and why

Parts without a protocol between steps: totals, prices and taxes (arithmetic);
warehouses, thresholds, the event timeline and audit rows; customers, reviews
and wishlists (derived totals and single-row edits); pages, CMS, SEO, media,
analytics and themes (rendering and content); the CRM and the b2b ledger
(single-row edits by one party at a time, and periodic jobs that make a row once); referrals (a get-or-create per
payment event); the clients of external services for mail, WhatsApp, social
posts and AI (best effort, nothing depends on what they keep). They are the
larger part of the repository's lines, and a model of them would restate
assignments.

Parts with a protocol, left out of modelled components: the PENDING test of a
transfer record, stock records that appear after an untracked order was placed,
UPI references, the reminders of `cart/tasks.py` (mail and mark are two steps, and
what happens between them mails a second time), edits of endpoints while deliveries are under way, two runs of
one periodic task at a time, shipments (their transitions are requests of
Orders), and the team and two-factor parts of accounts. Each that is a hazard
is listed as one without a property.

## 6. Plan

Done: Inventory and StockLedger, Orders, Payments, Carts, Coupons with
UsagePool, Checkout, Webhooks, Billing, and the theorems above.

Left, in this order:

1. Inventory and Orders: transfer records with their unlocked test, and stock
   records that appear after an order was placed.
2. Payments composed with Orders, where `mark_paid` starts from a stale order
   object.
3. Accounts: the last owner of a team under its lock, and backup codes that two
   logins use at once.
