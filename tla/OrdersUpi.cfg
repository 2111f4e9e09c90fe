\* Orders paid by direct UPI and the expiry sweep.
SPECIFICATION Spec
CONSTANTS
    Order = {o1}
    Item = {i1}
    Request = {r1}
    Qty <- OneEach
    Target = {"processing", "cancelled"}
    Online = {"upi"}
    MaxStock = 1
PROPERTY UpiStaysPending
CHECK_DEADLOCK FALSE
