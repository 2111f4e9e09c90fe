\* One request at a time: cancel, then fulfil.
SPECIFICATION Spec
CONSTANTS
    Order = {o1}
    Item = {i1}
    Request = {r1}
    Qty <- OneEach
    Target = {"processing", "cancelled"}
    Online = {"gateway"}
    MaxStock = 1
INVARIANT ReservedIsAllocated
CHECK_DEADLOCK FALSE
