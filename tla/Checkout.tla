------------------------------ MODULE Checkout ------------------------------
(***************************************************************************)
(* apps/checkout/services.py: a checkout turns a cart into an order in one  *)
(* transaction and applies the coupon in another, with nothing that undoes  *)
(* the first when the second is refused or never runs. Several checkouts,   *)
(* of one cart or of several, overlap with the cart's own operations        *)
(* (Carts.tla) and with the closing of orders, which gives coupons back     *)
(* (Coupons.tla). The payment that follows is Payments.tla.                 *)
(***************************************************************************)
EXTENDS Carts, Coupons

CONSTANTS
    Request,    \* checkout requests in flight at the same time
    Solo        \* customers who run one checkout at a time

ASSUME SoloAssumption == Solo \subseteq Customer

VARIABLES
    order,      \* order[o]: its status ("none" before it exists), its units
                \* and the customer who placed it
    job         \* job[r]: what request r is about to do

vars == <<cartVars, couponVars, order, job>>

Idle == [pc |-> "idle"]

\* A request that has its cart, and one that has its order.
Job == [pc : {"place"}, cart : 1..MaxCarts, customer : Customer]
         \cup [pc : {"validate", "apply"}, order : Order, coupon : Coupon,
               customer : Customer]

NoOrder == [status |-> "none", units |-> {}]

Placed == {o \in Order : order[o].status # "none"}

OrdersOf(m) == {o \in Placed : order[o].customer = m}

Init ==
    /\ CartInit
    /\ CouponInit
    /\ order = [o \in Order |-> NoOrder]
    /\ job = [r \in Request |-> Idle]

Done(r) == job' = [job EXCEPT ![r] = Idle]

InFlight(m) == \E r \in Request : job[r] # Idle /\ job[r].customer = m
-----------------------------------------------------------------------------
\* A view picks the cart and finds items in it.
Start(r) ==
    /\ job[r] = Idle
    /\ \E k \in DOMAIN carts, m \in Customer :
         /\ carts[k].active /\ carts[k].units # {}
         /\ m \in Solo => ~InFlight(m)
         /\ job' = [job EXCEPT ![r] = [pc |-> "place", cart |-> k,
                                       customer |-> m]]
    /\ UNCHANGED <<cartVars, couponVars, order>>

\* Mutant of Open: the cart's is_active is read before the row is locked.
OpenWhenPicked(k) == carts[k].units # {}

\* place_order's tests under the lock of the cart's row.
Open(k) == carts[k].active /\ carts[k].units # {}

\* place_order. A customer record, the shipping price and the items' stock
\* follow the order's row in the same way every time; then the coupon code
\* that came with the request is looked at, if there was one.
PlaceOrder(r) ==
    LET j == job[r]
    IN /\ j.pc = "place" /\ Open(j.cart)
       /\ \E o \in Order :
            /\ order[o].status = "none"
            /\ order' = [order EXCEPT ![o] = [status |-> "pending",
                                              units |-> carts[j.cart].units,
                                              customer |-> j.customer]]
            /\ \/ Done(r)
               \/ \E c \in Coupon :
                    job' = [job EXCEPT ![r] =
                              [pc |-> "validate", order |-> o, coupon |-> c,
                               customer |-> j.customer]]
       /\ Deactivate(j.cart)
       /\ UNCHANGED <<fresh, couponVars>>

\* validate_coupon reads the coupon and the customer's redemptions.
Validate(r) ==
    /\ job[r].pc = "validate"
    /\ Valid(job[r].coupon, OrdersOf(job[r].customer))
    /\ job' = [job EXCEPT ![r].pc = "apply"]
    /\ UNCHANGED <<cartVars, couponVars, order>>

ApplyCoupon(r) ==
    /\ job[r].pc = "apply"
    /\ Apply(job[r].order, job[r].coupon)
    /\ Done(r)
    /\ UNCHANGED <<cartVars, order>>

\* The request ends where it is: an item is out of stock, the cart was checked
\* out by another request, the coupon is refused, or the worker is killed.
GiveUp(r) ==
    /\ job[r] # Idle
    /\ Done(r)
    /\ UNCHANGED <<cartVars, couponVars, order>>

\* The store, a courier, a failed payment or the expiry sweep closes the
\* order, perhaps from a stale copy of it that still reads open.
Close(o) ==
    /\ o \in Placed
    /\ order' = [order EXCEPT ![o].status = "cancelled"]
    /\ Release(o)
    /\ UNCHANGED <<cartVars, job>>

\* A closed order is saved again (OrderArchiveView, OrderShippingView).
SaveClosed(o) ==
    /\ order[o].status = "cancelled"
    /\ SaverReads(o)
    /\ UNCHANGED <<cartVars, order, job>>
-----------------------------------------------------------------------------
Step(r) == Start(r) \/ PlaceOrder(r) \/ Validate(r) \/ ApplyCoupon(r) \/ GiveUp(r)

Next ==
    \/ \E r \in Request : Step(r)
    \/ \E o \in Order : Close(o) \/ SaveClosed(o)
    \/ Shop /\ UNCHANGED <<couponVars, order, job>>
    \/ /\ \/ \E c \in Coupon : FormLoad(c) \/ FormSave(c)
          \/ \E o \in Order : SaverReleases(o)
       /\ UNCHANGED <<cartVars, order, job>>

Spec == Init /\ [][Next]_vars
-----------------------------------------------------------------------------
TypeOK ==
    /\ carts \in Seq(Cart) /\ Len(carts) <= MaxCarts
    /\ fresh \subseteq Unit
    /\ used \in [Coupon -> Nat]
    /\ use \in [Order -> Coupon \cup {NoCoupon}]
    /\ form \in [Coupon -> Nat \cup {-1}]
    /\ saver \in [Order -> Disturbed \cup {NoCoupon}]
    /\ order \in [Order -> {NoOrder} \cup
                    [status : {"pending", "cancelled"}, units : SUBSET Unit,
                     customer : Customer]]
    /\ job \in [Request -> {Idle} \cup Job]

\* A unit the shopper put into a cart is ordered once at most: by one order,
\* and no cart that can still be checked out holds it or shares it, after
\* double clicks, retries and a login that merges two carts.
OrderedOnce ==
    /\ \A o, p \in Order : o # p => order[o].units \cap order[p].units = {}
    /\ \A k \in DOMAIN carts : carts[k].active =>
         /\ \A o \in Order : carts[k].units \cap order[o].units = {}
         /\ \A h \in DOMAIN carts : h # k /\ carts[h].active =>
                carts[k].units \cap carts[h].units = {}

\* A shopper who runs one checkout at a time has no more open orders with a
\* coupon than its limit per customer; two checkouts at once get past it.
PerCustomerRespected ==
    \A c \in Coupon, m \in Solo :
        Cardinality(Live(c) \cap OrdersOf(m)) <= PerCustomer[c]
=============================================================================
