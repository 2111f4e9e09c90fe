\* One payment of two units, refunded in up to two parts, beside another payment
\* that the gateway has taken for another order.
SPECIFICATION FairSpec
CONSTANTS
    Payment = {p1}
    GatewayPayment = {p1, p2}
    RefundId = {f1, f2}
    Amount = 2
    NoPayment = NoPayment
    NoRefund = NoRefund
INVARIANTS TypeOK RefundsRecordedOnce  PaidPaymentMeansPaidOrder
PROPERTIES CapturedReachesOrder RefundsReconciled
CHECK_DEADLOCK FALSE
