------------------------------ MODULE Payments ------------------------------
(***************************************************************************)
(* apps/payments/services.py for gateway (Razorpay) payments of one order: *)
(* the checkout callback, webhooks that arrive late, twice and out of      *)
(* order, staff capture, and refunds that hold the payment row locked      *)
(* across a network call whose answer may be lost. The gateway is external *)
(* and modelled from what the code sends it and accepts from it.           *)
(***************************************************************************)
EXTENDS Integers, FiniteSetsExt

CONSTANTS
    Payment,         \* the Payment rows of the order, one per checkout attempt
    GatewayPayment,  \* the gateway's payments: the one for the gateway order of
                     \* row p has the name p, the others are for other orders
    RefundId,        \* ids the gateway gives its refunds
    Amount,          \* what each payment is for
    NoPayment,       \* no gateway payment (id)
    NoRefund         \* no refund (id)

ASSUME AmountAssumption == Amount \in Nat \ {0}
ASSUME PaymentAssumption == Payment \subseteq GatewayPayment
ASSUME NoPaymentAssumption == NoPayment \notin GatewayPayment
ASSUME NoRefundAssumption == NoRefund \notin RefundId
ASSUME IdAssumption == RefundId \cap GatewayPayment = {}

VARIABLES
    status,     \* Payment.status, "none" before the row exists
    refunded,   \* Payment.amount_refunded
    refunds,    \* the Refund rows with status PROCESSED
    gatewayId,  \* Payment.provider_payment_id
    order,      \* the order's status, and whether payment_status is "paid"
    refunding,  \* refunding[p]: the refund_payment transaction that has p locked
    capturing,  \* the copy of a payment a staff capture loaded without a lock
    offered,    \* gateway: the payments whose checkout the shopper can open
    captured,   \* gateway: the shopper's money has been taken
    issued,     \* gateway: the refunds it has made
    events      \* gateway: webhook events sent, each delivered any number of times

dbVars == <<status, refunded, refunds, gatewayId, order>>
gatewayVars == <<offered, captured, issued, events>>
vars == <<status, refunded, refunds, gatewayId, order, refunding, capturing,
          offered, captured, issued, events>>

PaymentStatus == {"none", "created", "pending", "paid", "failed",
                  "refunded", "partially_refunded"}

Settled == {"paid", "partially_refunded", "refunded"}

Issue == [id : RefundId, payment : GatewayPayment, amount : 1..Amount]

\* A Refund row of a payment: the id it is stored under, the gateway refund it
\* was made for, and who wrote it.
Row == [id : RefundId \cup GatewayPayment, payment : Payment, amount : 1..Amount,
        refund : Issue, by : {"staff", "webhook"}]

\* A refund event carries the refund alone, or the payment beside it.
Event == [type : {"captured", "failed"}, payment : GatewayPayment]
           \cup [type : {"refund", "refund_with_payment"}, refund : Issue]

RefundEvent(r) == [type |-> "refund", refund |-> r]

RefundPaymentEvent(r) == [type |-> "refund_with_payment", refund |-> r]

CapturedEvent(q) == [type |-> "captured", payment |-> q]

NotRefunding == [amount |-> 0, id |-> NoRefund]

Sum(rows) == MapThenSumSet(LAMBDA r : r.amount, rows)

Locked(p) == refunding[p] # NotRefunding

\* The payments that a lookup by gateway payment id finds.
Holders(q) == {p \in Payment : gatewayId[p] = q}

Init ==
    /\ status = [p \in Payment |-> "none"]
    /\ refunded = [p \in Payment |-> 0]
    /\ refunds = {}
    /\ gatewayId = [p \in Payment |-> NoPayment]
    /\ order = [status |-> "pending", paid |-> FALSE]
    /\ refunding = [p \in Payment |-> NotRefunding]
    /\ capturing = {}
    /\ offered = {}
    /\ captured = GatewayPayment \ Payment
    /\ issued = {}
    /\ events = {CapturedEvent(q) : q \in GatewayPayment \ Payment}
-----------------------------------------------------------------------------
\* initiate_payment: the row is committed before the gateway is called. Its
\* refusal of a paid order tests an order loaded earlier, when no attempt may
\* have been paid yet, so two attempts can both be paid.
Initiate(p) ==
    /\ status[p] = "none"
    /\ status' = [status EXCEPT ![p] = "created"]
    /\ UNCHANGED <<refunded, refunds, gatewayId, order, refunding, capturing,
                   gatewayVars>>

\* provider.start() answered, or failed.
Started(p) ==
    /\ status[p] = "created"
    /\ \/ /\ status' = [status EXCEPT ![p] = "pending"]
          /\ offered' = offered \cup {p}
       \/ /\ status' = [status EXCEPT ![p] = "failed"]
          /\ UNCHANGED offered
    /\ UNCHANGED <<refunded, refunds, gatewayId, order, refunding, capturing,
                   captured, issued, events>>

\* mark_paid: an order paid for the first time while pending is confirmed.
PaidOrder == [status |-> IF order.status = "pending" THEN "confirmed"
                                                     ELSE order.status,
              paid |-> TRUE]

\* Mutants of Settle: a gateway status is stored as it comes; the order is not
\* told.
SettleRawStatus(p, id) ==
    /\ status' = [status EXCEPT ![p] = "captured"]
    /\ gatewayId' = [gatewayId EXCEPT ![p] = id]
    /\ order' = PaidOrder
    /\ UNCHANGED <<refunded, refunds>>

SettleAlone(p, id) ==
    /\ status' = [status EXCEPT ![p] = "paid"]
    /\ gatewayId' = [gatewayId EXCEPT ![p] = id]
    /\ UNCHANGED <<order, refunded, refunds>>

\* _settle: no look at what the payment was before. It saves the gateway
\* payment id that its caller's object has.
Settle(p, id) ==
    /\ status' = [status EXCEPT ![p] = "paid"]
    /\ gatewayId' = [gatewayId EXCEPT ![p] = id]
    /\ order' = PaidOrder
    /\ UNCHANGED <<refunded, refunds>>

\* verify_payment with the handshake of a completed checkout: q is any payment
\* that the gateway took, for the order id comes with the handshake and is not
\* compared with that of p. Its UPDATE waits for the row lock of a refund.
Verify(p, q) ==
    /\ p \in offered /\ q \in captured /\ ~Locked(p)
    /\ Settle(p, q)
    /\ UNCHANGED <<refunding, capturing, gatewayVars>>

\* verify_payment with a handshake that does not verify.
VerifyFails(p) ==
    /\ p \in offered /\ ~Locked(p)
    /\ status' = [status EXCEPT ![p] = "failed"]
    /\ UNCHANGED <<refunded, refunds, gatewayId, order, refunding, capturing,
                   gatewayVars>>

\* capture_payment tests the status of an object loaded without a lock, ...
\* (Bound: one staff capture at a time.)
StaffLoad(p) ==
    /\ status[p] \notin {"none", "paid"}
    /\ capturing = {}
    /\ capturing' = {[payment |-> p, id |-> gatewayId[p]]}
    /\ UNCHANGED <<dbVars, refunding, gatewayVars>>

\* ... and settles, with the gateway payment id that object was loaded with.
StaffCapture(p) ==
    /\ ~Locked(p)
    /\ \E copy \in capturing : copy.payment = p /\ Settle(p, copy.id)
    /\ capturing' = {}
    /\ UNCHANGED <<refunding, gatewayVars>>
-----------------------------------------------------------------------------
\* Mutant of ApplyTotals: adds to the old total instead of summing afresh.
AccumulateTotals(p, rows) ==
    LET total == refunded[p] + Sum({r \in rows : r.payment = p})
    IN  /\ refunds' = rows
        /\ refunded' = [refunded EXCEPT ![p] = total]
        /\ status' = [status EXCEPT ![p] = IF total >= Amount THEN "refunded"
                                           ELSE "partially_refunded"]

\* _apply_refund_totals over the rows of p.
ApplyTotals(p, rows) ==
    LET total == Sum({r \in rows : r.payment = p})
    IN  /\ refunds' = rows
        /\ refunded' = [refunded EXCEPT ![p] = total]
        /\ status' = [status EXCEPT ![p] = IF total >= Amount THEN "refunded"
                                           ELSE "partially_refunded"]

\* Mutant of WebhookCaptured: only a payment that still reads pending settles.
WebhookCapturedPending(p, q) ==
    /\ CapturedEvent(q) \in events /\ ~Locked(p)
    /\ p \in Holders(q) \/ (Holders(q) = {} /\ p = q)
    /\ status[p] = "pending"
    /\ Settle(p, q)
    /\ UNCHANGED <<refunding, capturing, gatewayVars>>

\* handle_webhook, payment q captured: looked up by its id, or else by its
\* order, and settled unless the row reads PAID.
WebhookCaptured(p, q) ==
    /\ CapturedEvent(q) \in events /\ ~Locked(p)
    /\ p \in Holders(q) \/ (Holders(q) = {} /\ p = q)
    /\ status[p] # "paid"
    /\ Settle(p, q)
    /\ UNCHANGED <<refunding, capturing, gatewayVars>>

\* handle_webhook, order.paid: names the order alone, so no id is stored.
WebhookOrderPaid(p) ==
    /\ CapturedEvent(p) \in events /\ ~Locked(p)
    /\ status[p] # "paid"
    /\ Settle(p, gatewayId[p])
    /\ UNCHANGED <<refunding, capturing, gatewayVars>>

\* A failed attempt's own id is never stored; its order finds the payment.
WebhookFailed(p) ==
    /\ [type |-> "failed", payment |-> p] \in events /\ ~Locked(p)
    /\ status' = [status EXCEPT ![p] = "failed"]
    /\ UNCHANGED <<refunded, refunds, gatewayId, order, refunding, capturing,
                   gatewayVars>>

KnownRefund(p, id) == \E row \in refunds : row.payment = p /\ row.id = id

\* _sync_refund_from_webhook: a row for a refund that has none under that id.
RecordRefund(p, id, r) ==
    /\ ~KnownRefund(p, id)
    /\ ApplyTotals(p, refunds \cup
            {[id |-> id, payment |-> p, amount |-> r.amount, refund |-> r,
              by |-> "webhook"]})
    /\ UNCHANGED <<gatewayId, order, refunding, capturing, gatewayVars>>

\* Mutant of WebhookRefund: the payment is read without a lock.
WebhookRefundUnlocked(p, r) ==
    /\ RefundEvent(r) \in events
    /\ p \in Holders(r.payment)
    /\ RecordRefund(p, r.id, r)

\* A refund event that carries the refund alone names its payment by the
\* gateway payment id, and the refund by its own.
WebhookRefund(p, r) ==
    /\ RefundEvent(r) \in events
    /\ p \in Holders(r.payment) /\ ~Locked(p)
    /\ RecordRefund(p, r.id, r)

\* One that carries the payment too is read from the payment's entity: that
\* finds the payment by its order, and takes the payment's id for the refund's.
WebhookRefundOfPayment(r) ==
    /\ RefundPaymentEvent(r) \in events
    /\ r.payment \in Payment /\ ~Locked(r.payment)
    /\ RecordRefund(r.payment, r.payment, r)

\* Mutant of WebhookUnmatched: select_for_update(skip_locked=True).
WebhookSkipsLocked(r) ==
    /\ RefundEvent(r) \in events /\ \A p \in Holders(r.payment) : Locked(p)
    /\ events' = events \ {RefundEvent(r)}
    /\ UNCHANGED <<dbVars, refunding, capturing, offered, captured, issued>>

\* Acknowledged, nothing to match: the gateway need not repeat it.
WebhookUnmatched(r) ==
    /\ RefundEvent(r) \in events /\ Holders(r.payment) = {}
    /\ events' = events \ {RefundEvent(r)}
    /\ UNCHANGED <<dbVars, refunding, capturing, offered, captured, issued>>
-----------------------------------------------------------------------------
\* refund_payment locks the row, then asks the gateway while holding the lock.
RefundBegin(p, n) ==
    /\ ~Locked(p)
    /\ status[p] \in Settled
    /\ n <= Amount - refunded[p]
    /\ refunding' = [refunding EXCEPT ![p] = [amount |-> n, id |-> NoRefund]]
    /\ UNCHANGED <<dbVars, capturing, gatewayVars>>

\* ProviderError, or a worker that dies: everything the transaction wrote is
\* rolled back, whether or not the gateway has made the refund.
RefundAbort(p) ==
    /\ Locked(p)
    /\ refunding' = [refunding EXCEPT ![p] = NotRefunding]
    /\ UNCHANGED <<dbVars, capturing, gatewayVars>>

\* The order's move to refunded, from delivered or returned: "confirmed" stands
\* for every status that follows it (see Orders), so it may be refused.
RefundOrder ==
    /\ order.status = "confirmed"
    /\ order' = [order EXCEPT !.status = "refunded"]

\* The answer of the gateway has come: the row, the totals, and the order.
RefundCommit(p) ==
    LET r == [id |-> refunding[p].id, payment |-> gatewayId[p],
              amount |-> refunding[p].amount]
    IN  /\ refunding[p].id # NoRefund
        /\ ApplyTotals(p, refunds \cup
                {[id |-> r.id, payment |-> p, amount |-> r.amount, refund |-> r,
                  by |-> "staff"]})
        /\ UNCHANGED order \/ (status'[p] = "refunded" /\ RefundOrder)
        /\ refunding' = [refunding EXCEPT ![p] = NotRefunding]
        /\ UNCHANGED <<gatewayId, capturing, gatewayVars>>

\* Staff call the order refunded by hand, with no refund made.
RefundOrderByHand ==
    /\ RefundOrder
    /\ UNCHANGED <<status, refunded, refunds, gatewayId, refunding, capturing,
                   gatewayVars>>
-----------------------------------------------------------------------------
\* External: the gateway. Attempts may fail before one succeeds.
Attempts(p) ==
    /\ p \in offered /\ p \notin captured
    /\ \/ /\ captured' = captured \cup {p}
          /\ events' = events \cup {[type |-> "captured", payment |-> p]}
       \/ /\ events' = events \cup {[type |-> "failed", payment |-> p]}
          /\ UNCHANGED captured
    /\ UNCHANGED <<dbVars, refunding, capturing, offered, issued>>

\* The gateway refunds no more than it took, and sends events of either shape.
GatewayRefund(q, id, n) ==
    /\ q \in captured
    /\ \A r \in issued : r.id # id
    /\ Sum({r \in issued : r.payment = q}) + n <= Amount
    /\ LET r == [id |-> id, payment |-> q, amount |-> n]
       IN  /\ issued' = issued \cup {r}
           /\ \E told \in SUBSET {RefundEvent(r), RefundPaymentEvent(r)} :
                told # {} /\ events' = events \cup told
    /\ UNCHANGED <<offered, captured>>

\* provider.refund() reaches the gateway, under the stored payment id; its
\* answer is still on the way.
RefundAtGateway(p, id) ==
    /\ Locked(p) /\ refunding[p].id = NoRefund
    /\ gatewayId[p] # NoPayment
    /\ GatewayRefund(gatewayId[p], id, refunding[p].amount)
    /\ refunding' = [refunding EXCEPT ![p].id = id]
    /\ UNCHANGED <<dbVars, capturing>>

\* A refund issued from the gateway's own dashboard.
DashboardRefund(q, id, n) ==
    /\ GatewayRefund(q, id, n)
    /\ UNCHANGED <<dbVars, refunding, capturing>>

Next ==
    \/ \E p \in Payment :
        \/ Initiate(p) \/ Started(p) \/ Attempts(p)
        \/ VerifyFails(p) \/ StaffLoad(p) \/ StaffCapture(p)
        \/ WebhookOrderPaid(p) \/ WebhookFailed(p)
        \/ RefundAbort(p) \/ RefundCommit(p)
    \/ \E p \in Payment, q \in GatewayPayment :
        Verify(p, q) \/ WebhookCaptured(p, q)
    \/ \E p \in Payment, r \in Issue : WebhookRefund(p, r)
    \/ \E r \in Issue : WebhookRefundOfPayment(r) \/ WebhookUnmatched(r)
    \/ \E p \in Payment, n \in 1..Amount : RefundBegin(p, n)
    \/ \E p \in Payment, id \in RefundId : RefundAtGateway(p, id)
    \/ \E q \in GatewayPayment, id \in RefundId, n \in 1..Amount :
        DashboardRefund(q, id, n)
    \/ RefundOrderByHand

Spec == Init /\ [][Next]_vars

\* The gateway repeats an event until it is acknowledged, and the database
\* grants the row lock in queue order; a refund's network call times out.
Fairness ==
    /\ SF_vars(\E p, q \in Payment : WebhookCaptured(p, q))
    /\ \A p \in Payment : WF_vars(RefundAbort(p) \/ RefundCommit(p))
    /\ SF_vars(\E p \in Payment, r \in Issue : WebhookRefund(p, r))

FairSpec == Spec /\ Fairness
-----------------------------------------------------------------------------
TypeOK ==
    /\ status \in [Payment -> PaymentStatus]
    /\ refunded \in [Payment -> Nat]
    /\ refunds \subseteq Row
    /\ gatewayId \in [Payment -> GatewayPayment \cup {NoPayment}]
    /\ order \in [status : {"pending", "confirmed", "refunded"}, paid : BOOLEAN]
    /\ refunding \in [Payment -> [amount : 0..Amount, id : RefundId \cup {NoRefund}]]
    /\ capturing \subseteq [payment : Payment, id : GatewayPayment \cup {NoPayment}]
    /\ offered \subseteq Payment
    /\ captured \subseteq GatewayPayment
    /\ issued \subseteq Issue
    /\ events \subseteq Event

\* Every row is of a refund that the gateway made, as what it was, and a payment
\* has one row for each id: the webhook of a refund that refund_payment is still
\* making waits for its row lock and then finds the row. A row under a refund's
\* own id is of that refund; one under a payment's id (WebhookRefundOfPayment)
\* is of a refund of that payment, which may have a row of its own besides.
RefundsRecordedOnce ==
    \A a \in refunds :
        /\ a.refund \in issued /\ a.amount = a.refund.amount
        /\ a.id \in {a.refund.id, a.refund.payment}
        /\ \A b \in refunds : a.payment = b.payment /\ a.id = b.id => a = b

\* The refunded total is the sum of the payment's rows, and the rows under a
\* refund's own id never sum up to more than the gateway took, whatever answers
\* are lost and whatever is refunded from the dashboard: the total is too high
\* by no more than the one row that is under the payment's id.
NeverOverRefunded ==
    \A p \in Payment :
        /\ refunded[p] = Sum({r \in refunds : r.payment = p})
        /\ \A q \in GatewayPayment :
            Sum({r \in refunds : /\ r.payment = p /\ r.refund.payment = q
                                 /\ r.id = r.refund.id}) <= Amount

\* services.py:6-7: every settlement reaches the order.
PaidPaymentMeansPaidOrder == (\E p \in Payment : status[p] = "paid") => order.paid

\* A captured payment reaches the order, be the callback lost, the payment
\* marked failed in between, or its row locked by refunds.
CapturedReachesOrder == \A p \in Payment : p \in captured ~> order.paid

\* A refund that the gateway tells of by itself is recorded in the end, also one
\* whose answer or whose worker was lost after the gateway acted, as long as
\* some payment has the id of the refunded gateway payment stored: events that
\* come before that are lost, and a staff capture may save a blank id over it.
RefundsReconciled ==
    \A id \in RefundId :
        (\E r \in issued : /\ r.id = id /\ RefundEvent(r) \in events
                           /\ Holders(r.payment) # {})
        ~> \/ \E p \in Payment : KnownRefund(p, id)
           \/ \E r \in issued : r.id = id /\ Holders(r.payment) = {}

\* services.py:6-8: the order's payment status and its payments stay in sync.
OrderInSync == order.paid => \E p \in Payment : status[p] \in Settled
=============================================================================
