\* Two requests and the expiry sweep race on one order.
SPECIFICATION FairSpec
CONSTANTS
    Order = {o1}
    Item = {i1}
    Request = {r1, r2}
    Qty <- OneEach
    Target = {"processing", "packed", "cancelled"}
    Online = {"gateway"}
    MaxStock = 1
INVARIANTS TypeOK HoldMatchesFlag NoLeakedReservation ClosedHoldsNothing PaidNeverPending
PROPERTIES AbandonedOrdersExpire
CHECK_DEADLOCK FALSE
