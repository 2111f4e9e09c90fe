\* Two invoices of one store and one gateway order.
SPECIFICATION FairSpec
CONSTANTS
    MaxInvoices = 2
    MaxOrders = 1
INVARIANTS TypeOK  SuspendedOwes CreditedOnce
PROPERTIES PaidIsFinal OverdueSuspends CapturedSettles
CHECK_DEADLOCK FALSE
