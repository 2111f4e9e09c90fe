\* A payment commits between the sweep's query and its cancellation.
SPECIFICATION Spec
CONSTANTS
    Order = {o1}
    Item = {i1}
    Request = {r1}
    Qty <- OneEach
    Target = {"processing", "cancelled"}
    Online = {"gateway"}
    MaxStock = 1
PROPERTY ExpiryOnlyUnpaid
CHECK_DEADLOCK FALSE
