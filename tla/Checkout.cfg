\* Two checkouts of one shopper's carts race for the uses of two coupons.
SPECIFICATION Spec
CONSTANTS
    Unit = {u1, u2}
    MaxCarts = 2
    Coupon = {c1, c2}
    Disturbed = {c2}
    NoCoupon = NoCoupon
    Order = {o1, o2}
    Customer = {m1, m2}
    Solo = {m1}
    Limit <- OneEach
    PerCustomer <- OneEach
    Request = {r1, r2}
INVARIANTS TypeOK OrderedOnce UsedIsLive LimitRespected PerCustomerRespected
PROPERTIES ImplementsPool
SYMMETRY Symmetry
CHECK_DEADLOCK FALSE
