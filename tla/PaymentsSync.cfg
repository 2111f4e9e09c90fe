\* A late failure event, or a callback that does not verify, after the capture.
SPECIFICATION Spec
CONSTANTS
    Payment = {p1}
    GatewayPayment = {p1}
    RefundId = {f1}
    Amount = 1
    NoPayment = NoPayment
    NoRefund = NoRefund
INVARIANT OrderInSync
CHECK_DEADLOCK FALSE
