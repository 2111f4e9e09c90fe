\* One invoice whose payment is started twice: the shopper pays in the first
\* checkout after the second was opened.
SPECIFICATION FairSpec
CONSTANTS
    MaxInvoices = 1
    MaxOrders = 2
PROPERTIES EveryCaptureSettles
CHECK_DEADLOCK FALSE
