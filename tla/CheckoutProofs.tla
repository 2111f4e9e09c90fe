--------------------------- MODULE CheckoutProofs ---------------------------
(***************************************************************************)
(* Theorems about Checkout, for any number of carts, units, orders,         *)
(* coupons, customers and requests. One invariant for each of the three     *)
(* parts of the state: the carts (CartTyped), what has                      *)
(* been ordered (OrderInv), and the uses of coupons (CouponInv).            *)
(***************************************************************************)
EXTENDS Checkout, FiniteSetTheorems, SequenceTheorems, TLAPS

\* The parts of TypeOK.
CartTyped ==
    /\ carts \in Seq(Cart) /\ Len(carts) <= MaxCarts
    /\ fresh \subseteq Unit

CouponTyped ==
    /\ used \in [Coupon -> Nat]
    /\ use \in [Order -> Coupon \cup {NoCoupon}]
    /\ form \in [Coupon -> Nat \cup {-1}]
    /\ saver \in [Order -> Disturbed \cup {NoCoupon}]

OrderTyped ==
    /\ order \in [Order -> {NoOrder} \cup
                    [status : {"pending", "cancelled"}, units : SUBSET Unit,
                     customer : Customer]]
    /\ job \in [Request -> {Idle} \cup Job]

\* A request that has picked a cart has picked one that exists.
PickedExists == \A r \in Request : job[r].pc = "place" => job[r].cart \in DOMAIN carts

\* A unit not yet in any cart is in no order and in no active cart.
FreshUnused ==
    \A u \in fresh :
        /\ \A o \in Order : u \notin order[o].units
        /\ \A k \in DOMAIN carts : carts[k].active => u \notin carts[k].units

\* What makes OrderedOnce inductive.
UnitsOnce == OrderedOnce /\ FreshUnused

Applying(r) == job[r].pc \in {"validate", "apply"}

\* A request has an order to itself, which has no coupon yet.
OrdersApart ==
    /\ \A r \in Request : Applying(r) =>
        /\ order[job[r].order].status # "none"
        /\ order[job[r].order].customer = job[r].customer
        /\ use[job[r].order] = NoCoupon /\ saver[job[r].order] = NoCoupon
        /\ \A q \in Request : q # r /\ Applying(q) => job[q].order # job[r].order
    /\ \A o \in Order :
        order[o].status = "none" => use[o] = NoCoupon /\ saver[o] = NoCoupon
    /\ \A o \in Order : saver[o] # NoCoupon => use[o] \in {saver[o], NoCoupon}

\* What makes UsedIsLive inductive: no form is open on an undisturbed coupon.
CouponInv ==
    /\ CouponTyped
    /\ UsedIsLive /\ LimitRespected
    /\ \A c \in Steady : form[c] = -1
-----------------------------------------------------------------------------
\* A function on 1..n is a sequence of length n.
LEMMA FunctionIsSeq ==
    ASSUME NEW S, NEW n \in Nat, NEW f \in [1..n -> S]
    PROVE  f \in Seq(S) /\ Len(f) = n /\ DOMAIN f = 1..n
OBVIOUS

\* Two updates of rows leave a sequence of carts.
LEMMA CartRows ==
    ASSUME NEW s \in Seq(Cart), NEW a \in DOMAIN s, NEW b \in DOMAIN s,
           NEW c \in Cart, NEW d \in Cart,
           NEW t, t = [s EXCEPT ![a] = c, ![b] = d]
    PROVE  /\ t \in Seq(Cart)
           /\ Len(t) = Len(s)
           /\ DOMAIN t = DOMAIN s
           /\ t[b] = d
           /\ a # b => t[a] = c
           /\ \A k \in DOMAIN s : k \notin {a, b} => t[k] = s[k]
<1>1. s \in [1..Len(s) -> Cart] /\ Len(s) \in Nat /\ DOMAIN s = 1..Len(s)
  OBVIOUS
<1>2. t \in [1..Len(s) -> Cart]
  BY <1>1
<1> QED
  BY <1>1, <1>2, FunctionIsSeq

\* One update.
LEMMA CartRow ==
    ASSUME NEW s \in Seq(Cart), NEW a \in DOMAIN s, NEW c \in Cart,
           NEW t, t = [s EXCEPT ![a] = c]
    PROVE  /\ t \in Seq(Cart)
           /\ Len(t) = Len(s)
           /\ DOMAIN t = DOMAIN s
           /\ t[a] = c
           /\ \A k \in DOMAIN s : k # a => t[k] = s[k]
<1>1. s \in [1..Len(s) -> Cart] /\ Len(s) \in Nat /\ DOMAIN s = 1..Len(s)
  OBVIOUS
<1>2. t \in [1..Len(s) -> Cart]
  BY <1>1
<1> QED
  BY <1>1, <1>2, FunctionIsSeq

\* A row of a sequence of carts.
LEMMA CartFields ==
    ASSUME CartTyped, NEW k \in DOMAIN carts
    PROVE  /\ carts[k] \in Cart
           /\ carts[k].owner \in Owner
           /\ carts[k].active \in BOOLEAN
           /\ carts[k].units \in SUBSET Unit
           /\ k \in 1..MaxCarts
<1>1. carts[k] \in Cart /\ k \in 1..Len(carts) /\ Len(carts) \in Nat
  BY DEF CartTyped
<1>2. k \in 1..MaxCarts
  BY <1>1, CartBounds DEF CartTyped
<1> QED
  BY <1>1, <1>2 DEF Cart
-----------------------------------------------------------------------------
\* What keeps the carts in order.
LEMMA CartsRearranged ==
    ASSUME CartTyped, carts' \in Seq(Cart), Len(carts') = Len(carts),
           fresh' \subseteq Unit
    PROVE  CartTyped'
BY DEF CartTyped

LEMMA CreateCartKeeps ==
    ASSUME CartTyped, NEW owner \in Owner, CreateCart(owner)
    PROVE  CartTyped'
<1> DEFINE new == [owner |-> owner, active |-> TRUE, units |-> {}]
<1>1. new \in Cart
  BY DEF Cart
<1>2. carts \in Seq(Cart) /\ Len(carts) < MaxCarts /\ carts' = Append(carts, new)
  BY DEF CreateCart, CartTyped
<1> HIDE DEF new
<1>3. /\ carts' \in Seq(Cart) /\ Len(carts') = Len(carts) + 1
      /\ \A k \in DOMAIN carts : carts'[k] = carts[k]
      /\ carts'[Len(carts) + 1] = new
      /\ DOMAIN carts' = DOMAIN carts \cup {Len(carts) + 1}
      /\ Len(carts) + 1 \notin DOMAIN carts
  BY <1>1, <1>2, AppendProperties
<1>4. Len(carts) \in Nat /\ Len(carts') <= MaxCarts
  BY <1>2, <1>3, CartBounds
<1> QED
  BY <1>3, <1>4 DEF CreateCart, CartTyped

\* A row is replaced.
LEMMA RowKeeps ==
    ASSUME CartTyped, NEW k \in DOMAIN carts, NEW c \in Cart,
           carts' = [carts EXCEPT ![k] = c], fresh' \subseteq Unit
    PROVE  CartTyped'
<1>1. carts \in Seq(Cart)
  BY DEF CartTyped
<1> QED
  BY <1>1, CartRow, CartsRearranged

LEMMA MergeFoldsEffect ==
    ASSUME CartTyped, NEW s \in DOMAIN carts, NEW a \in DOMAIN carts, MergeFolds(s, a)
    PROVE  /\ s # a /\ carts[s].active /\ carts[a].active
           /\ carts' \in Seq(Cart) /\ Len(carts') = Len(carts)
           /\ DOMAIN carts' = DOMAIN carts
           /\ carts'[a].units = carts[a].units \cup carts[s].units
           /\ ~carts'[s].active
           /\ \A k \in DOMAIN carts : k \notin {s, a} => carts'[k] = carts[k]
           /\ fresh' = fresh
<1>1. /\ carts[s].owner = "session" /\ carts[a].owner = "user"
      /\ carts[s].active /\ carts[a].active
  BY DEF MergeFolds, Mergeable, Newest, ActiveCarts
<1> DEFINE new == [carts[a] EXCEPT !.units = @ \cup carts[s].units]
           old == [carts[s] EXCEPT !.units = IF carts[a].units = {} THEN {} ELSE @,
                                   !.active = FALSE]
<1>2. new \in Cart /\ old \in Cart
  BY CartFields DEF Cart
<1>3. carts \in Seq(Cart)
  BY DEF CartTyped
<1>4. carts' = [carts EXCEPT ![a] = new, ![s] = old]
  BY <1>1, <1>3 DEF MergeFolds
<1>5. /\ new.units = carts[a].units \cup carts[s].units
      /\ ~old.active
  BY CartFields DEF Cart
<1> HIDE DEF new, old
<1>6. s # a
  BY <1>1
<1>7. /\ carts' \in Seq(Cart) /\ Len(carts') = Len(carts)
      /\ DOMAIN carts' = DOMAIN carts
      /\ carts'[a] = new /\ carts'[s] = old
      /\ \A k \in DOMAIN carts : k \notin {s, a} => carts'[k] = carts[k]
  BY <1>2, <1>3, <1>4, <1>6, CartRows
<1>8. fresh' = fresh
  BY DEF MergeFolds
<1> QED
  BY <1>1, <1>5, <1>6, <1>7, <1>8

LEMMA ShopKeeps ==
    ASSUME CartTyped, Shop
    PROVE  CartTyped'
<1>1. CartTyped
  BY DEF CartTyped
<1>2. ASSUME NEW k \in DOMAIN carts, NEW u \in Unit, AddToCart(k, u) PROVE CartTyped'
  <2>1. [carts[k] EXCEPT !.units = @ \cup {u}] \in Cart
    BY <1>1, CartFields DEF Cart
  <2>2. carts' = [carts EXCEPT ![k] = [carts[k] EXCEPT !.units = @ \cup {u}]]
    BY <1>2 DEF AddToCart
  <2> QED
    BY <1>1, <1>2, <2>1, <2>2, CartFields, RowKeeps DEF AddToCart, CartTyped, Cart
<1>3. ASSUME NEW k \in DOMAIN carts, NEW units \in SUBSET Unit, TakeOut(k, units)
      PROVE  CartTyped'
  <2>1. [carts[k] EXCEPT !.units = @ \ units] \in Cart
    BY <1>1, CartFields DEF Cart
  <2>2. carts' = [carts EXCEPT ![k] = [carts[k] EXCEPT !.units = @ \ units]]
    BY <1>3 DEF TakeOut
  <2> QED
    BY <1>1, <1>3, <2>1, <2>2, CartFields, RowKeeps DEF TakeOut, CartTyped, Cart
<1>4. ASSUME NEW s \in DOMAIN carts, MergeAdopts(s) PROVE CartTyped'
  <2>1. [carts[s] EXCEPT !.owner = "user"] \in Cart
    BY <1>1, CartFields DEF Cart, Owner
  <2>2. carts' = [carts EXCEPT ![s] = [carts[s] EXCEPT !.owner = "user"]]
    BY <1>4 DEF MergeAdopts
  <2> QED
    BY <1>1, <1>4, <2>1, <2>2, CartFields, RowKeeps DEF MergeAdopts, CartTyped, Cart
<1>5. ASSUME NEW s \in DOMAIN carts, NEW a \in DOMAIN carts, MergeFolds(s, a)
      PROVE  CartTyped'
  BY <1>1, <1>5, MergeFoldsEffect, CartsRearranged DEF CartTyped
<1> QED
  BY <1>2, <1>3, <1>4, <1>5, CreateCartKeeps DEF Shop

-----------------------------------------------------------------------------
\* No step removes a cart.
LEMMA CartsStay ==
    ASSUME CartTyped, Shop \/ UNCHANGED carts \/ \E k : Deactivate(k)
    PROVE  DOMAIN carts \subseteq DOMAIN carts'
<1>1. ASSUME NEW owner \in Owner, CreateCart(owner)
      PROVE  DOMAIN carts \subseteq DOMAIN carts'
  <2> DEFINE new == [owner |-> owner, active |-> TRUE, units |-> {}]
  <2>1. new \in Cart /\ carts \in Seq(Cart) /\ carts' = Append(carts, new)
    BY <1>1 DEF CreateCart, Cart, CartTyped
  <2> HIDE DEF new
  <2> QED
    BY <2>1, AppendProperties
<1>2. ASSUME NEW k \in DOMAIN carts, \E u \in Unit : AddToCart(k, u)
      PROVE  DOMAIN carts' = DOMAIN carts
  BY <1>2 DEF AddToCart
<1>3. ASSUME NEW k \in DOMAIN carts,
             MergeAdopts(k) \/ \E units \in SUBSET Unit : TakeOut(k, units)
      PROVE  DOMAIN carts' = DOMAIN carts
  BY <1>3 DEF TakeOut, MergeAdopts
<1>4. ASSUME NEW k \in DOMAIN carts, NEW a \in DOMAIN carts, MergeFolds(k, a)
      PROVE  DOMAIN carts' = DOMAIN carts
  BY <1>4 DEF MergeFolds
<1>5. ASSUME NEW k, Deactivate(k) PROVE DOMAIN carts' = DOMAIN carts
  BY <1>5 DEF Deactivate
<1> QED
  BY <1>1, <1>2, <1>3, <1>4, <1>5 DEF Shop

\* The fields of a request's job, by where it has come to.
LEMMA JobFields ==
    ASSUME NEW j \in {Idle} \cup Job
    PROVE  /\ j.pc \in {"idle", "place", "validate", "apply"}
           /\ j.pc = "idle" <=> j = Idle
           /\ j.pc # "idle" => j \in Job /\ j.customer \in Customer
           /\ j.pc = "place" => j.cart \in 1..MaxCarts
           /\ j.pc \in {"validate", "apply"} =>
                j.order \in Order /\ j.coupon \in Coupon
BY DEF Job, Idle

LEMMA PlaceOrderEffect ==
    ASSUME CartTyped, OrderTyped, PickedExists, NEW r \in Request, PlaceOrder(r)
    PROVE  /\ job[r].cart \in DOMAIN carts /\ carts[job[r].cart].active
           /\ \E o \in Order :
                /\ order[o].status = "none"
                /\ order' = [order EXCEPT ![o] =
                               [status |-> "pending",
                                units |-> carts[job[r].cart].units,
                                customer |-> job[r].customer]]
                /\ \/ job' = [job EXCEPT ![r] = Idle]
                   \/ \E c \in Coupon :
                        job' = [job EXCEPT ![r] =
                                  [pc |-> "validate", order |-> o, coupon |-> c,
                                   customer |-> job[r].customer]]
           /\ \E c \in Cart :
                /\ carts' = [carts EXCEPT ![job[r].cart] = c]
                /\ ~c.active /\ c.units = carts[job[r].cart].units
           /\ fresh' = fresh /\ UNCHANGED couponVars
<1>1. job[r].cart \in DOMAIN carts /\ carts[job[r].cart].active
  BY DEF PlaceOrder, PickedExists, Open
<1> DEFINE c == [carts[job[r].cart] EXCEPT !.active = FALSE]
<1>2. c \in Cart /\ ~c.active /\ c.units = carts[job[r].cart].units
  BY <1>1, CartFields DEF CartTyped, Cart
<1>3. carts' = [carts EXCEPT ![job[r].cart] = c]
  BY DEF PlaceOrder, Deactivate
<1>4. fresh' = fresh /\ UNCHANGED couponVars
  BY DEF PlaceOrder
<1> HIDE DEF c
<1> QED
  BY <1>1, <1>2, <1>3, <1>4 DEF PlaceOrder, Done

LEMMA CartStep ==
    ASSUME CartTyped, OrderTyped, PickedExists, [Next]_vars
    PROVE  CartTyped'
<1>1. ASSUME UNCHANGED cartVars PROVE CartTyped'
  BY <1>1 DEF cartVars, CartTyped
<1>2. ASSUME NEW r \in Request, PlaceOrder(r) PROVE CartTyped'
  <2>1. PICK c \in Cart : carts' = [carts EXCEPT ![job[r].cart] = c]
    BY <1>2, PlaceOrderEffect
  <2>2. job[r].cart \in DOMAIN carts /\ fresh' = fresh
    BY <1>2, PlaceOrderEffect
  <2> QED
    BY <2>1, <2>2, RowKeeps DEF CartTyped
<1>3. ASSUME NEW r \in Request, Step(r), ~PlaceOrder(r) PROVE UNCHANGED cartVars
  BY <1>3 DEF Step, Start, Validate, ApplyCoupon, GiveUp
<1>4. ASSUME NEW o \in Order, Close(o) \/ SaveClosed(o) PROVE UNCHANGED cartVars
  BY <1>4 DEF Close, SaveClosed
<1>5. CASE UNCHANGED vars
  BY <1>1, <1>5 DEF vars, cartVars
<1> QED
  BY <1>1, <1>2, <1>3, <1>4, <1>5, ShopKeeps DEF Next

LEMMA JobStep ==
    ASSUME CartTyped, OrderTyped, PickedExists, [Next]_vars
    PROVE  OrderTyped' /\ PickedExists'
<1>1. ASSUME DOMAIN carts \subseteq DOMAIN carts', UNCHANGED <<order, job>>
      PROVE  OrderTyped' /\ PickedExists'
  BY <1>1 DEF OrderTyped, PickedExists
<1>2. ASSUME NEW r \in Request, Start(r) PROVE OrderTyped' /\ PickedExists'
  <2>1. PICK k \in DOMAIN carts, m \in Customer :
            job' = [job EXCEPT ![r] = [pc |-> "place", cart |-> k, customer |-> m]]
    BY <1>2 DEF Start
  <2>2. k \in 1..MaxCarts
    BY CartFields DEF CartTyped
  <2>3. [pc |-> "place", cart |-> k, customer |-> m] \in Job
    BY <2>2 DEF Job
  <2>4. carts' = carts /\ order' = order
    BY <1>2 DEF Start, cartVars
  <2> QED
    BY <2>1, <2>3, <2>4 DEF OrderTyped, PickedExists
<1>3. ASSUME NEW r \in Request, PlaceOrder(r) PROVE OrderTyped' /\ PickedExists'
  <2>1. PICK o \in Order :
            /\ order' = [order EXCEPT ![o] = [status |-> "pending",
                                              units |-> carts[job[r].cart].units,
                                              customer |-> job[r].customer]]
            /\ \/ job' = [job EXCEPT ![r] = Idle]
               \/ \E c \in Coupon :
                    job' = [job EXCEPT ![r] =
                              [pc |-> "validate", order |-> o, coupon |-> c,
                               customer |-> job[r].customer]]
    BY <1>3, PlaceOrderEffect
  <2>2. /\ job[r].cart \in DOMAIN carts /\ DOMAIN carts' = DOMAIN carts
        /\ job[r].pc = "place"
    BY <1>3, PlaceOrderEffect DEF PlaceOrder
  <2>3. carts[job[r].cart].units \in SUBSET Unit
    BY <2>2, CartFields DEF CartTyped
  <2>4. job[r].customer \in Customer
    BY <2>2, JobFields DEF OrderTyped
  <2>5. \A c \in Coupon : [pc |-> "validate", order |-> o, coupon |-> c,
                           customer |-> job[r].customer] \in Job
    BY <2>4 DEF Job
  <2>6. job' \in [Request -> {Idle} \cup Job]
    BY <2>1, <2>5 DEF OrderTyped
  <2>7. OrderTyped'
    BY <2>1, <2>3, <2>4, <2>6 DEF OrderTyped
  <2>8. PickedExists'
    BY <2>1, <2>2 DEF PickedExists, Idle, OrderTyped
  <2> QED
    BY <2>7, <2>8
<1>4. ASSUME NEW r \in Request, Validate(r) PROVE OrderTyped' /\ PickedExists'
  <2>1. job[r] \in Job /\ job[r].pc = "validate"
    BY <1>4, JobFields DEF Validate, OrderTyped
  <2>2. [job[r] EXCEPT !.pc = "apply"] \in Job
    BY <2>1 DEF Job
  <2>3. /\ job' = [job EXCEPT ![r] = [job[r] EXCEPT !.pc = "apply"]]
        /\ [job[r] EXCEPT !.pc = "apply"].pc = "apply"
        /\ carts' = carts /\ order' = order
    BY <1>4, <2>1 DEF Validate, cartVars, Job
  <2> QED
    BY <2>2, <2>3 DEF OrderTyped, PickedExists
<1>5. ASSUME NEW r \in Request, ApplyCoupon(r) \/ GiveUp(r)
      PROVE  OrderTyped' /\ PickedExists'
  BY <1>5 DEF ApplyCoupon, GiveUp, Done, OrderTyped, PickedExists, Idle, cartVars
<1>6. ASSUME NEW o \in Order, Close(o) PROVE OrderTyped' /\ PickedExists'
  BY <1>6 DEF Close, Placed, OrderTyped, NoOrder, PickedExists, cartVars
<1>7. ASSUME NEW o \in Order, SaveClosed(o) PROVE UNCHANGED <<carts, order, job>>
  BY <1>7 DEF SaveClosed, cartVars
<1>8. CASE UNCHANGED vars
  BY <1>1, <1>8 DEF vars, cartVars
<1> QED
  BY <1>1, <1>2, <1>3, <1>4, <1>5, <1>6, <1>7, <1>8, CartsStay
     DEF Next, Step, cartVars
-----------------------------------------------------------------------------
\* Units neither leave nor enter orders and active carts: what was put in once
\* stays in one place.
LEMMA UnitsKept ==
    ASSUME CartTyped, UnitsOnce, DOMAIN carts' = DOMAIN carts,
           \A o \in Order : order'[o].units = order[o].units,
           \A k \in DOMAIN carts : carts'[k].active =>
               carts[k].active /\ carts'[k].units \subseteq carts[k].units,
           fresh' = fresh
    PROVE  UnitsOnce'
BY DEF UnitsOnce, OrderedOnce, FreshUnused

LEMMA AddToCartUnits ==
    ASSUME CartTyped, UnitsOnce, NEW k \in DOMAIN carts, NEW u \in Unit,
           AddToCart(k, u), order' = order
    PROVE  UnitsOnce'
<1> DEFINE c == [carts[k] EXCEPT !.units = @ \cup {u}]
<1>1. c \in Cart /\ c.units = carts[k].units \cup {u} /\ c.active = carts[k].active
  BY CartFields DEF Cart
<1>2. carts' = [carts EXCEPT ![k] = c] /\ u \in fresh /\ fresh' = fresh \ {u}
  BY DEF AddToCart
<1> HIDE DEF c
<1>3. /\ DOMAIN carts' = DOMAIN carts /\ carts'[k] = c
      /\ \A h \in DOMAIN carts : h # k => carts'[h] = carts[h]
  BY <1>1, <1>2, CartRow DEF CartTyped
<1>4. OrderedOnce'
  <2>1. ASSUME NEW h \in DOMAIN carts, carts'[h].active, NEW o \in Order
        PROVE  carts'[h].units \cap order[o].units = {}
    BY <1>1, <1>2, <1>3, <2>1 DEF UnitsOnce, OrderedOnce, FreshUnused
  <2>2. ASSUME NEW h \in DOMAIN carts, NEW g \in DOMAIN carts, h # g,
               carts'[h].active, carts'[g].active
        PROVE  carts'[h].units \cap carts'[g].units = {}
    BY <1>1, <1>2, <1>3, <2>2 DEF UnitsOnce, OrderedOnce, FreshUnused
  <2> QED
    BY <1>3, <2>1, <2>2 DEF UnitsOnce, OrderedOnce
<1>5. FreshUnused'
  BY <1>1, <1>2, <1>3 DEF UnitsOnce, FreshUnused
<1> QED
  BY <1>4, <1>5 DEF UnitsOnce

LEMMA CreateCartUnits ==
    ASSUME CartTyped, UnitsOnce, NEW owner \in Owner, CreateCart(owner), order' = order
    PROVE  UnitsOnce'
<1> DEFINE new == [owner |-> owner, active |-> TRUE, units |-> {}]
<1>1. new \in Cart /\ new.units = {}
  BY DEF Cart
<1>2. carts' = Append(carts, new) /\ fresh' = fresh /\ carts \in Seq(Cart)
  BY DEF CreateCart, CartTyped
<1> HIDE DEF new
<1>3. /\ DOMAIN carts' = DOMAIN carts \cup {Len(carts) + 1}
      /\ carts'[Len(carts) + 1] = new
      /\ \A h \in DOMAIN carts : carts'[h] = carts[h]
  BY <1>1, <1>2, AppendProperties
<1>4. \A h \in DOMAIN carts' : h \notin DOMAIN carts => carts'[h].units = {}
  BY <1>1, <1>3
<1> QED
  BY <1>2, <1>3, <1>4 DEF UnitsOnce, OrderedOnce, FreshUnused

LEMMA MergeFoldsUnits ==
    ASSUME CartTyped, UnitsOnce, NEW s \in DOMAIN carts, NEW a \in DOMAIN carts,
           MergeFolds(s, a), order' = order
    PROVE  UnitsOnce'
<1>1. /\ s # a /\ carts[s].active /\ carts[a].active
      /\ DOMAIN carts' = DOMAIN carts
      /\ carts'[a].units = carts[a].units \cup carts[s].units
      /\ ~carts'[s].active
      /\ \A k \in DOMAIN carts : k \notin {s, a} => carts'[k] = carts[k]
      /\ fresh' = fresh
  BY MergeFoldsEffect
<1>2. \A k \in DOMAIN carts, o \in Order :
        carts'[k].active => carts'[k].units \cap order[o].units = {}
  BY <1>1 DEF UnitsOnce, OrderedOnce
<1>3. ASSUME NEW k \in DOMAIN carts, NEW h \in DOMAIN carts, h # k,
             carts'[k].active, carts'[h].active
      PROVE  carts'[k].units \cap carts'[h].units = {}
  <2>1. k # s /\ h # s
    BY <1>1, <1>3
  <2>2. CASE k = a
    BY <1>1, <1>3, <2>1, <2>2 DEF UnitsOnce, OrderedOnce
  <2>3. CASE h = a
    BY <1>1, <1>3, <2>1, <2>3 DEF UnitsOnce, OrderedOnce
  <2>4. CASE k # a /\ h # a
    BY <1>1, <1>3, <2>1, <2>4 DEF UnitsOnce, OrderedOnce
  <2> QED
    BY <2>2, <2>3, <2>4
<1>4. OrderedOnce'
  BY <1>1, <1>2, <1>3 DEF UnitsOnce, OrderedOnce
<1>5. FreshUnused'
  BY <1>1 DEF UnitsOnce, FreshUnused
<1> QED
  BY <1>4, <1>5 DEF UnitsOnce

\* place_order moves the units of the cart it closes into one new order.
LEMMA PlaceOrderUnits ==
    ASSUME CartTyped, OrderTyped, PickedExists, UnitsOnce,
           NEW r \in Request, PlaceOrder(r)
    PROVE  UnitsOnce'
<1> DEFINE k == job[r].cart
<1>1. k \in DOMAIN carts /\ carts[k].active /\ fresh' = fresh
  BY PlaceOrderEffect
<1>2. PICK o \in Order : order' = [order EXCEPT ![o] = [status |-> "pending",
                                                        units |-> carts[k].units,
                                                        customer |-> job[r].customer]]
  BY PlaceOrderEffect
<1>3. PICK c \in Cart : carts' = [carts EXCEPT ![k] = c] /\ ~c.active
  BY PlaceOrderEffect
<1>4. /\ DOMAIN carts' = DOMAIN carts /\ ~carts'[k].active
      /\ \A h \in DOMAIN carts : h # k => carts'[h] = carts[h]
  BY <1>1, <1>3, CartRow DEF CartTyped
<1>5. /\ order'[o].units = carts[k].units
      /\ \A p \in Order : p # o => order'[p] = order[p]
  BY <1>2 DEF OrderTyped
<1> HIDE DEF k
<1>6. OrderedOnce'
  <2>1. ASSUME NEW p \in Order, NEW q \in Order, p # q
        PROVE  order'[p].units \cap order'[q].units = {}
    BY <1>1, <1>5, <2>1 DEF UnitsOnce, OrderedOnce
  <2>2. ASSUME NEW h \in DOMAIN carts, carts'[h].active
        PROVE  /\ \A p \in Order : carts'[h].units \cap order'[p].units = {}
               /\ \A g \in DOMAIN carts : h # g /\ carts'[g].active =>
                    carts'[h].units \cap carts'[g].units = {}
    BY <1>1, <1>4, <1>5, <2>2 DEF UnitsOnce, OrderedOnce
  <2> QED
    BY <1>4, <2>1, <2>2 DEF OrderedOnce
<1>7. FreshUnused'
  BY <1>1, <1>4, <1>5 DEF UnitsOnce, FreshUnused
<1> QED
  BY <1>6, <1>7 DEF UnitsOnce

LEMMA UnitsStep ==
    ASSUME CartTyped, OrderTyped, PickedExists, UnitsOnce, [Next]_vars
    PROVE  UnitsOnce'
<1>1. CartTyped /\ carts \in Seq(Cart)
  BY DEF CartTyped
<1>2. ASSUME UNCHANGED <<carts, fresh, order>> PROVE UnitsOnce'
  BY <1>2 DEF UnitsOnce, OrderedOnce, FreshUnused
<1>3. ASSUME NEW k \in DOMAIN carts, NEW c \in Cart,
             carts' = [carts EXCEPT ![k] = c], UNCHANGED <<fresh, order>>,
             c.active => carts[k].active /\ c.units \subseteq carts[k].units
      PROVE  UnitsOnce'
  <2>1. /\ DOMAIN carts' = DOMAIN carts /\ carts'[k] = c
        /\ \A h \in DOMAIN carts : h # k => carts'[h] = carts[h]
    BY <1>1, <1>3, CartRow
  <2> QED
    BY <1>1, <1>3, <2>1, UnitsKept
<1>4. ASSUME NEW k \in DOMAIN carts, NEW units \in SUBSET Unit, TakeOut(k, units),
             order' = order
      PROVE  UnitsOnce'
  <2> DEFINE c == [carts[k] EXCEPT !.units = @ \ units]
  <2>1. c \in Cart /\ c.active = carts[k].active /\ c.units \subseteq carts[k].units
    BY <1>1, CartFields DEF Cart
  <2>2. carts' = [carts EXCEPT ![k] = c] /\ fresh' = fresh
    BY <1>4 DEF TakeOut
  <2> HIDE DEF c
  <2> QED
    BY <1>3, <1>4, <2>1, <2>2
<1>5. ASSUME NEW s \in DOMAIN carts, MergeAdopts(s), order' = order PROVE UnitsOnce'
  <2> DEFINE c == [carts[s] EXCEPT !.owner = "user"]
  <2>1. c \in Cart /\ c.active = carts[s].active /\ c.units = carts[s].units
    BY <1>1, CartFields DEF Cart, Owner
  <2>2. carts' = [carts EXCEPT ![s] = c] /\ fresh' = fresh
    BY <1>5 DEF MergeAdopts
  <2> HIDE DEF c
  <2> QED
    BY <1>3, <1>5, <2>1, <2>2
<1>6. ASSUME Shop, order' = order PROVE UnitsOnce'
  BY <1>1, <1>4, <1>5, <1>6, AddToCartUnits, CreateCartUnits, MergeFoldsUnits DEF Shop
<1>7. ASSUME NEW o \in Order, Close(o) PROVE UnitsOnce'
  <2>1. /\ \A p \in Order : order'[p].units = order[p].units
        /\ carts' = carts /\ fresh' = fresh
    BY <1>7 DEF Close, Placed, OrderTyped, NoOrder, cartVars
  <2> QED
    BY <1>1, <2>1, UnitsKept
<1>8. ASSUME NEW r \in Request, Step(r), ~PlaceOrder(r) PROVE UNCHANGED <<carts, fresh, order>>
  BY <1>8 DEF Step, Start, Validate, ApplyCoupon, GiveUp, cartVars
<1>9. ASSUME NEW o \in Order, SaveClosed(o) PROVE UNCHANGED <<carts, fresh, order>>
  BY <1>9 DEF SaveClosed, cartVars
<1>10. CASE UNCHANGED vars
  BY <1>2, <1>10 DEF vars, cartVars
<1> QED
  BY <1>2, <1>6, <1>7, <1>8, <1>9, <1>10, PlaceOrderUnits DEF Next, cartVars
-----------------------------------------------------------------------------
\* A coupon is no longer counted for an order, or never was.
LEMMA WithoutEffect ==
    ASSUME CouponTyped, NEW u \in Coupon \cup {NoCoupon}
    PROVE  /\ Without(used, u) \in [Coupon -> Nat]
           /\ \A c \in Coupon :
                Without(used, u)[c] = IF u = c /\ used[c] > 0 THEN used[c] - 1
                                                              ELSE used[c]
BY CouponNames DEF Without, Drop, CouponTyped

\* How many orders use a coupon after one order's use changes.
LEMMA UseEffect ==
    ASSUME CouponTyped, NEW o \in Order, NEW x \in Coupon \cup {NoCoupon},
           use' = [use EXCEPT ![o] = x], NEW c \in Coupon
    PROVE  /\ Cardinality(Live(c)) \in Nat
           /\ use[o] = c => Cardinality(Live(c)) > 0
           /\ Cardinality(Live(c)') =
                Cardinality(Live(c)) + (IF x = c THEN 1 ELSE 0)
                                     - (IF use[o] = c THEN 1 ELSE 0)
<1>1. Live(c) \in SUBSET Order /\ IsFiniteSet(Live(c)) /\ Cardinality(Live(c)) \in Nat
  BY OrderFinite, FS_Subset, FS_CardinalityType DEF Live
<1>2. o \in Live(c) <=> use[o] = c
  BY DEF Live
<1>3. Live(c)' = IF x = c THEN Live(c) \cup {o} ELSE Live(c) \ {o}
  BY DEF Live, CouponTyped
<1>4. use[o] = c => Cardinality(Live(c)) > 0
  BY <1>1, <1>2, FS_EmptySet
<1> DEFINE L == Live(c)
           n == Cardinality(L)
<1>5. Cardinality(L \cup {o}) = IF use[o] = c THEN n ELSE n + 1
  BY <1>1, <1>2, FS_AddElement
<1>6. Cardinality(L \ {o}) = IF use[o] = c THEN n - 1 ELSE n
  BY <1>1, <1>2, FS_RemoveElement
<1>7. Cardinality(L') = IF x = c THEN Cardinality(L \cup {o})
                                 ELSE Cardinality(L \ {o})
  BY <1>3
<1>8. n \in Nat
  BY <1>1
<1>9. n + (IF x = c THEN 1 ELSE 0) - (IF use[o] = c THEN 1 ELSE 0) = Cardinality(L')
  <2> HIDE DEF n
  <2>1. CASE x = c
    BY <1>5, <1>7, <1>8, <2>1
  <2>2. CASE x # c
    BY <1>6, <1>7, <1>8, <2>2
  <2> QED
    BY <2>1, <2>2
<1> QED
  BY <1>1, <1>4, <1>9

LEMMA ReleaseKeeps ==
    ASSUME CouponInv, NEW o \in Order, Release(o)
    PROVE  CouponInv'
<1>1. CouponTyped /\ use[o] \in Coupon \cup {NoCoupon}
  BY DEF CouponInv, CouponTyped
<1>2. use' = [use EXCEPT ![o] = NoCoupon] /\ used' = Without(used, use[o])
      /\ form' = form /\ saver' = saver
  BY DEF Release
<1>3. CouponTyped'
  BY <1>1, <1>2, WithoutEffect DEF CouponTyped
<1>4. ASSUME NEW c \in Steady
      PROVE  /\ used'[c] = Cardinality(Live(c)')
             /\ Cardinality(Live(c)') <= Limit[c]
  <2>1. c \in Coupon /\ c # NoCoupon /\ Limit[c] \in Nat
    BY CouponNames, CouponLimits DEF Steady
  <2>2. used[c] = Cardinality(Live(c)) /\ Cardinality(Live(c)) <= Limit[c]
    BY DEF CouponInv, UsedIsLive, LimitRespected
  <2>3. used'[c] = IF use[o] = c /\ used[c] > 0 THEN used[c] - 1 ELSE used[c]
    BY <1>1, <1>2, <2>1, WithoutEffect
  <2>4. /\ Cardinality(Live(c)) \in Nat
        /\ use[o] = c => Cardinality(Live(c)) > 0
        /\ Cardinality(Live(c)') = Cardinality(Live(c))
                                     + (IF NoCoupon = c THEN 1 ELSE 0)
                                     - (IF use[o] = c THEN 1 ELSE 0)
    BY <1>1, <1>2, <2>1, UseEffect
  <2> QED
    BY <2>1, <2>2, <2>3, <2>4
<1> QED
  BY <1>2, <1>3, <1>4 DEF CouponInv, UsedIsLive, LimitRespected

LEMMA ApplyKeeps ==
    ASSUME CouponInv, NEW o \in Order, NEW x \in Coupon, Apply(o, x)
    PROVE  CouponInv'
<1>1. CouponTyped /\ use[o] \in Coupon \cup {NoCoupon}
  BY DEF CouponInv, CouponTyped
<1> DEFINE less == Without(used, use[o])
<1>2. /\ use' = [use EXCEPT ![o] = x] /\ used' = [less EXCEPT ![x] = @ + 1]
      /\ form' = form /\ saver' = saver /\ used[x] < Limit[x]
  BY DEF Apply, Usable
<1>3. less \in [Coupon -> Nat]
  BY <1>1, WithoutEffect
<1>4. \A c \in Coupon : less[c] = IF use[o] = c /\ used[c] > 0 THEN used[c] - 1
                                                              ELSE used[c]
  BY <1>1, WithoutEffect
<1> HIDE DEF less
<1>5. CouponTyped'
  BY <1>1, <1>2, <1>3 DEF CouponTyped
<1>6. ASSUME NEW c \in Steady
      PROVE  /\ used'[c] = Cardinality(Live(c)')
             /\ Cardinality(Live(c)') <= Limit[c]
  <2>1. c \in Coupon /\ c # NoCoupon /\ Limit[c] \in Nat
    BY CouponNames, CouponLimits DEF Steady
  <2>2. used[c] = Cardinality(Live(c)) /\ Cardinality(Live(c)) <= Limit[c]
    BY DEF CouponInv, UsedIsLive, LimitRespected
  <2>3. used'[c] = IF x = c THEN less[c] + 1 ELSE less[c]
    BY <1>2, <1>3, <2>1
  <2>4. /\ Cardinality(Live(c)) \in Nat
        /\ use[o] = c => Cardinality(Live(c)) > 0
        /\ Cardinality(Live(c)') = Cardinality(Live(c)) + (IF x = c THEN 1 ELSE 0)
                                     - (IF use[o] = c THEN 1 ELSE 0)
    BY <1>1, <1>2, <2>1, UseEffect
  <2> QED
    BY <1>2, <1>4, <2>1, <2>2, <2>3, <2>4
<1> QED
  BY <1>2, <1>5, <1>6 DEF CouponInv, UsedIsLive, LimitRespected

\* A save of a closed order gives back a disturbed coupon only.
LEMMA SaverKeeps ==
    ASSUME CouponInv, OrdersApart, NEW o \in Order, SaverReleases(o)
    PROVE  CouponInv'
<1>1. CouponTyped /\ saver[o] \in Coupon /\ saver[o] \in Disturbed
  BY CouponNames DEF CouponInv, CouponTyped, SaverReleases
<1>2. /\ use' = [use EXCEPT ![o] = NoCoupon] /\ used' = Without(used, saver[o])
      /\ form' = form /\ saver' = [saver EXCEPT ![o] = NoCoupon]
  BY DEF SaverReleases
<1>3. CouponTyped'
  BY <1>1, <1>2, WithoutEffect DEF CouponTyped
<1>4. use[o] \in {saver[o], NoCoupon}
  BY <1>1, CouponNames DEF OrdersApart
<1>5. ASSUME NEW c \in Steady
      PROVE  used'[c] = used[c] /\ Live(c)' = Live(c)
  <2>1. c \in Coupon /\ c # NoCoupon /\ c # saver[o] /\ c # use[o]
    BY <1>1, <1>4, CouponNames DEF Steady
  <2>2. used'[c] = used[c]
    BY <1>1, <1>2, <2>1, WithoutEffect
  <2>3. Live(c)' = Live(c)
    BY <1>2, <2>1 DEF Live, CouponInv, CouponTyped
  <2> QED
    BY <2>2, <2>3
<1> QED
  BY <1>2, <1>3, <1>5 DEF CouponInv, UsedIsLive, LimitRespected

LEMMA CouponStep ==
    ASSUME CouponInv, OrderTyped, OrdersApart, [Next]_vars
    PROVE  CouponInv'
<1>1. ASSUME UNCHANGED couponVars PROVE CouponInv'
  BY <1>1 DEF couponVars, CouponInv, CouponTyped, UsedIsLive, LimitRespected, Live
<1>2. ASSUME NEW r \in Request, ApplyCoupon(r) PROVE CouponInv'
  <2>1. job[r].order \in Order /\ job[r].coupon \in Coupon
    BY <1>2, JobFields DEF ApplyCoupon, OrderTyped
  <2> QED
    BY <1>2, <2>1, ApplyKeeps DEF ApplyCoupon
<1>3. ASSUME NEW r \in Request, Step(r), ~ApplyCoupon(r) PROVE UNCHANGED couponVars
  BY <1>3 DEF Step, Start, PlaceOrder, Validate, GiveUp
<1>4. ASSUME NEW o \in Order, Close(o) PROVE CouponInv'
  BY <1>4, ReleaseKeeps DEF Close
<1>5. ASSUME NEW o \in Order, SaveClosed(o) PROVE CouponInv'
  <2>1. /\ saver' = [saver EXCEPT ![o] = use[o]] /\ use[o] \in Disturbed
        /\ used' = used /\ use' = use /\ form' = form
    BY <1>5 DEF SaveClosed, SaverReads
  <2> QED
    BY <2>1 DEF CouponInv, CouponTyped, UsedIsLive, LimitRespected, Live
<1>6. ASSUME NEW c \in Coupon, FormLoad(c) PROVE CouponInv'
  <2>1. /\ form' = [form EXCEPT ![c] = used[c]] /\ c \notin Steady
        /\ used' = used /\ use' = use /\ saver' = saver
    BY <1>6 DEF FormLoad, Steady
  <2> QED
    BY <2>1 DEF CouponInv, CouponTyped, UsedIsLive, LimitRespected, Live, Steady
<1>7. ASSUME NEW c \in Coupon, FormSave(c) PROVE CouponInv'
  <2>1. /\ used' = [used EXCEPT ![c] = form[c]] /\ form' = [form EXCEPT ![c] = -1]
        /\ use' = use /\ saver' = saver /\ form[c] \in Nat /\ c \notin Steady
    BY <1>7 DEF FormSave, CouponInv, CouponTyped
  <2> QED
    BY <2>1 DEF CouponInv, CouponTyped, UsedIsLive, LimitRespected, Live, Steady
<1>8. CASE UNCHANGED vars
  BY <1>1, <1>8 DEF vars, couponVars
<1> QED
  BY <1>1, <1>2, <1>3, <1>4, <1>5, <1>6, <1>7, <1>8, SaverKeeps DEF Next
-----------------------------------------------------------------------------
\* Requests that end or start leave the others apart.
LEMMA ApartKept ==
    ASSUME OrdersApart, NEW r \in Request,
           \A q \in Request : q # r => job'[q] = job[q],
           ~Applying(r)' \/ (Applying(r) /\ /\ job'[r].order = job[r].order
                                            /\ job'[r].customer = job[r].customer),
           UNCHANGED <<order, use, saver>>
    PROVE  OrdersApart'
BY DEF OrdersApart, Applying

LEMMA ApartStep ==
    ASSUME CartTyped, OrderTyped, PickedExists, CouponTyped, OrdersApart, [Next]_vars
    PROVE  OrdersApart'
<1>1. ASSUME UNCHANGED <<order, job, use, saver>> PROVE OrdersApart'
  BY <1>1 DEF OrdersApart, Applying
<1>2. ASSUME NEW r \in Request, Start(r) \/ GiveUp(r) PROVE OrdersApart'
  <2>1. /\ \A q \in Request : q # r => job'[q] = job[q]
        /\ ~Applying(r)'
        /\ UNCHANGED <<order, use, saver>>
    BY <1>2 DEF Start, GiveUp, Done, Idle, Applying, couponVars, OrderTyped
  <2> QED
    BY <2>1, ApartKept
<1>3. ASSUME NEW r \in Request, Validate(r) PROVE OrdersApart'
  <2>1. /\ job[r] \in Job /\ job[r].pc = "validate"
        /\ job' = [job EXCEPT ![r] = [job[r] EXCEPT !.pc = "apply"]]
        /\ UNCHANGED <<order, use, saver>>
    BY <1>3, JobFields DEF Validate, couponVars, OrderTyped
  <2>2. /\ Applying(r)
        /\ job'[r].order = job[r].order /\ job'[r].customer = job[r].customer
    BY <2>1 DEF Applying, OrderTyped, Job
  <2>3. \A q \in Request : q # r => job'[q] = job[q]
    BY <2>1 DEF OrderTyped
  <2> QED
    BY <2>1, <2>2, <2>3, ApartKept
<1>4. ASSUME NEW r \in Request, PlaceOrder(r) PROVE OrdersApart'
  <2>1. PICK o \in Order :
            /\ order[o].status = "none"
            /\ order' = [order EXCEPT ![o] = [status |-> "pending",
                                              units |-> carts[job[r].cart].units,
                                              customer |-> job[r].customer]]
            /\ \/ job' = [job EXCEPT ![r] = Idle]
               \/ \E c \in Coupon :
                    job' = [job EXCEPT ![r] =
                              [pc |-> "validate", order |-> o, coupon |-> c,
                               customer |-> job[r].customer]]
    BY <1>4, PlaceOrderEffect
  <2>2. use' = use /\ saver' = saver
    BY <1>4, PlaceOrderEffect DEF couponVars
  <2>3. /\ order'[o].status = "pending" /\ order'[o].customer = job[r].customer
        /\ \A p \in Order : p # o => order'[p] = order[p]
    BY <2>1 DEF OrderTyped
  <2>4. /\ \A q \in Request : q # r => job'[q] = job[q]
        /\ Applying(r)' => job'[r].order = o /\ job'[r].customer = job[r].customer
    BY <2>1 DEF OrderTyped, Idle, Applying
  <2>5. \A q \in Request : Applying(q) => job[q].order # o /\ job[q].order \in Order
    BY <2>1, JobFields DEF OrdersApart, Applying, OrderTyped
  <2>6. use[o] = NoCoupon /\ saver[o] = NoCoupon
    BY <2>1 DEF OrdersApart
  <2> QED
    BY <2>2, <2>3, <2>4, <2>5, <2>6 DEF OrdersApart, Applying
<1>5. ASSUME NEW r \in Request, ApplyCoupon(r) PROVE OrdersApart'
  <2>1. /\ Applying(r) /\ job[r].order \in Order /\ job[r].coupon \in Coupon
        /\ use' = [use EXCEPT ![job[r].order] = job[r].coupon]
        /\ saver' = saver /\ order' = order /\ job' = [job EXCEPT ![r] = Idle]
    BY <1>5, JobFields DEF ApplyCoupon, Apply, Done, Applying, OrderTyped
  <2>2. /\ ~Applying(r)' /\ \A q \in Request : q # r => job'[q] = job[q]
    BY <2>1 DEF Applying, Idle, OrderTyped
  <2>3. \A p \in Order : p # job[r].order => use'[p] = use[p]
    BY <2>1 DEF CouponTyped
  <2>4. \A q \in Request : Applying(q) => job[q].order \in Order
    BY JobFields DEF Applying, OrderTyped
  <2> QED
    BY <2>1, <2>2, <2>3, <2>4 DEF OrdersApart, Applying
<1>6. ASSUME NEW o \in Order, Close(o) PROVE OrdersApart'
  <2>1. /\ order[o].status # "none" /\ order'[o].status # "none"
        /\ order'[o].customer = order[o].customer
        /\ \A p \in Order : p # o => order'[p] = order[p]
        /\ use' = [use EXCEPT ![o] = NoCoupon] /\ saver' = saver /\ job' = job
    BY <1>6 DEF Close, Placed, OrderTyped, NoOrder, Release
  <2>2. \A q \in Request : Applying(q) => job[q].order \in Order
    BY JobFields DEF Applying, OrderTyped
  <2> QED
    BY <2>1, <2>2 DEF OrdersApart, Applying, CouponTyped
<1>7. ASSUME NEW o \in Order, SaveClosed(o) PROVE OrdersApart'
  <2>1. /\ order[o].status = "cancelled" /\ use[o] \in Disturbed
        /\ saver' = [saver EXCEPT ![o] = use[o]]
        /\ use' = use /\ job' = job /\ order' = order
    BY <1>7 DEF SaveClosed, SaverReads
  <2>2. use[o] # NoCoupon
    BY <2>1, CouponNames
  <2>3. \A q \in Request : Applying(q) => job[q].order \in Order /\ job[q].order # o
    BY <2>2, JobFields DEF Applying, OrderTyped, OrdersApart
  <2> QED
    BY <2>1, <2>3 DEF OrdersApart, Applying, CouponTyped
<1>8. ASSUME NEW o \in Order, SaverReleases(o), UNCHANGED <<order, job>>
      PROVE  OrdersApart'
  <2>1. /\ use' = [use EXCEPT ![o] = NoCoupon]
        /\ saver' = [saver EXCEPT ![o] = NoCoupon]
    BY <1>8 DEF SaverReleases
  <2>2. \A q \in Request : Applying(q) => job[q].order \in Order
    BY JobFields DEF Applying, OrderTyped
  <2> QED
    BY <1>8, <2>1, <2>2 DEF OrdersApart, Applying, CouponTyped
<1>9. ASSUME NEW c \in Coupon, FormLoad(c) \/ FormSave(c) PROVE use' = use /\ saver' = saver
  BY <1>9 DEF FormLoad, FormSave
<1>10. CASE UNCHANGED vars
  BY <1>1, <1>10 DEF vars, couponVars
<1> QED
  BY <1>1, <1>2, <1>3, <1>4, <1>5, <1>6, <1>7, <1>8, <1>9, <1>10
     DEF Next, Step, couponVars
-----------------------------------------------------------------------------
IInv == CartTyped /\ OrderTyped /\ PickedExists /\ UnitsOnce /\ CouponInv /\ OrdersApart

LEMMA InitHolds == Init => IInv
<1> SUFFICES ASSUME Init PROVE IInv
  OBVIOUS
<1> USE DEF Init
<1>1. CartTyped
  BY CartBounds DEF CartInit, CartTyped
<1>2. OrderTyped /\ PickedExists
  BY DEF OrderTyped, PickedExists, Idle
<1>3. UnitsOnce
  BY DEF CartInit, UnitsOnce, OrderedOnce, FreshUnused, NoOrder
<1>4. CouponInv
  <2>1. \A c \in Coupon : Live(c) = {}
    BY CouponNames DEF CouponInit, Live
  <2>2. \A c \in Coupon : Cardinality(Live(c)) = 0
    BY <2>1, FS_EmptySet
  <2> QED
    BY <2>2, CouponLimits DEF CouponInit, CouponInv, CouponTyped, UsedIsLive,
       LimitRespected, Steady
<1>5. OrdersApart
  BY DEF OrdersApart, Applying, Idle, CouponInit
<1> QED
  BY <1>1, <1>2, <1>3, <1>4, <1>5 DEF IInv

\* Every step keeps the parts of the invariant.
LEMMA Invariance == Spec => []IInv
<1>1. IInv /\ [Next]_vars => IInv'
  <2> SUFFICES ASSUME IInv, [Next]_vars PROVE IInv'
    OBVIOUS
  <2>1. CartTyped' /\ OrderTyped' /\ PickedExists'
    BY CartStep, JobStep DEF IInv
  <2>2. UnitsOnce'
    BY UnitsStep DEF IInv
  <2>3. CouponInv'
    BY CouponStep DEF IInv
  <2>4. OrdersApart'
    BY ApartStep DEF IInv, CouponInv
  <2> QED
    BY <2>1, <2>2, <2>3, <2>4 DEF IInv
<1> QED
  BY <1>1, InitHolds, PTL DEF Spec

\* Type correctness of carts, coupons, orders and requests.
THEOREM TypeCorrect == Spec => []TypeOK
<1>1. IInv => TypeOK
  BY DEF IInv, CartTyped, CouponInv, CouponTyped, OrderTyped, TypeOK
<1> QED
  BY <1>1, Invariance, PTL

\* place_order and merge_session_cart_into_user: no unit put into a cart is
\* ordered twice, however many requests check out the carts they once picked.
THEOREM NoDoubleOrder == Spec => []OrderedOnce
<1>1. IInv => OrderedOnce
  BY DEF IInv, UnitsOnce
<1> QED
  BY <1>1, Invariance, PTL

\* apply_to_order and the release by signal: the used_count of a coupon nobody
\* disturbs is the number of the open orders that use it.
THEOREM UsesCounted == Spec => []UsedIsLive
<1>1. IInv => UsedIsLive
  BY DEF IInv, CouponInv
<1> QED
  BY <1>1, Invariance, PTL

\* apply_to_order's second look under the lock: the usage limit holds.
THEOREM LimitHolds == Spec => []LimitRespected
<1>1. IInv => LimitRespected
  BY DEF IInv, CouponInv
<1> QED
  BY <1>1, Invariance, PTL
-----------------------------------------------------------------------------
\* Which undisturbed coupon each order holds a use of, as UsagePool sees it.
Held == [o \in Order |-> IF use[o] \in Steady THEN use[o] ELSE NoCoupon]

LEMMA HeldReturned ==
    ASSUME CouponTyped, NEW o \in Order, NEW x \in Coupon \cup {NoCoupon},
           x \notin Steady, use' = [use EXCEPT ![o] = x]
    PROVE  Held' = [Held EXCEPT ![o] = NoCoupon]
BY DEF Held, CouponTyped

\* Coupons and checkouts implement the pool of uses: an application that passes
\* the test under the lock takes a use that is left, and closing an order
\* returns it, whatever is stale in between.
THEOREM PoolImplemented == Spec => ImplementsPool
<1>1. Init => Pool!PoolInit
  BY CouponNames DEF Init, CouponInit, Pool!PoolInit, Steady
<1>2. IInv /\ [Next]_vars => [Pool!PoolNext]_Held
  <2> SUFFICES ASSUME IInv, [Next]_vars PROVE Pool!PoolNext \/ UNCHANGED Held
    BY DEF Held
  <2>1. CouponTyped /\ UsedIsLive /\ OrderTyped
    BY DEF IInv, CouponInv
  <2>2. ASSUME NEW o \in Order, Held' = [Held EXCEPT ![o] = NoCoupon]
        PROVE  Pool!PoolNext
    BY <2>2 DEF Held, Pool!PoolNext, Pool!Return
  <2>3. ASSUME NEW o \in Order, NEW c \in Coupon, Apply(o, c)
        PROVE  Pool!PoolNext
    <3>1. use' = [use EXCEPT ![o] = c] /\ used[c] < Limit[c]
      BY <2>3 DEF Apply, Usable
    <3>2. CASE c \notin Steady
      BY <2>1, <2>2, <3>1, <3>2, HeldReturned
    <3>3. CASE c \in Steady
      <4>1. c # NoCoupon /\ {h \in Order : Held[h] = c} = Live(c)
        BY <3>3, CouponNames DEF Held, Live, Steady
      <4>2. Cardinality(Pool!Holders(c)) < Limit[c]
        BY <2>1, <3>1, <3>3, <4>1 DEF UsedIsLive, Pool!Holders, Held
      <4>3. Held' = [Held EXCEPT ![o] = c]
        BY <2>1, <3>1, <3>3 DEF Held, CouponTyped
      <4>4. Pool!Cardinality(Pool!Holders(c)) = Cardinality(Pool!Holders(c))
        BY DEF Pool!Cardinality, Cardinality
      <4>5. Pool!Take(o, c)
        BY <3>3, <4>2, <4>3, <4>4 DEF Pool!Take, Held
      <4> QED
        BY <3>3, <4>5 DEF Pool!PoolNext
    <3> QED
      BY <3>2, <3>3
  <2>4. ASSUME NEW o \in Order, Release(o) \/ SaverReleases(o)
        PROVE  Pool!PoolNext
    <3>1. use' = [use EXCEPT ![o] = NoCoupon] /\ NoCoupon \notin Steady
      BY <2>4, CouponNames DEF Release, SaverReleases, Steady
    <3> QED
      BY <2>1, <2>2, <3>1, HeldReturned
  <2>5. ASSUME use' = use PROVE UNCHANGED Held
    BY <2>5 DEF Held
  <2>6. ASSUME NEW r \in Request, ApplyCoupon(r) PROVE Pool!PoolNext
    <3>1. job[r].order \in Order /\ job[r].coupon \in Coupon
      BY <2>1, <2>6, JobFields DEF ApplyCoupon, OrderTyped
    <3> QED
      BY <2>3, <2>6, <3>1 DEF ApplyCoupon
  <2>7. ASSUME NEW r \in Request, Step(r), ~ApplyCoupon(r) PROVE use' = use
    BY <2>7 DEF Step, Start, PlaceOrder, Validate, GiveUp, couponVars
  <2>8. ASSUME NEW o \in Order, Close(o) PROVE Pool!PoolNext
    BY <2>4, <2>8 DEF Close
  <2>9. ASSUME NEW o \in Order, SaveClosed(o) PROVE use' = use
    BY <2>9 DEF SaveClosed, SaverReads
  <2>10. ASSUME NEW c \in Coupon, FormLoad(c) \/ FormSave(c) PROVE use' = use
    BY <2>10 DEF FormLoad, FormSave
  <2>11. CASE UNCHANGED vars
    BY <2>5, <2>11 DEF vars, couponVars
  <2> QED
    BY <2>4, <2>5, <2>6, <2>7, <2>8, <2>9, <2>10, <2>11 DEF Next, couponVars
<1> QED
  BY <1>1, <1>2, Invariance, PTL DEF Spec, ImplementsPool, Pool!PoolSpec, Held
-----------------------------------------------------------------------------
\* The open orders of customer m that use coupon c.
Mine(c, m) == Live(c) \cap OrdersOf(m)

\* A customer who runs one checkout at a time does; an application validated
\* for such a customer finds room under the limit when it commits.
SoloInv ==
    /\ PerCustomerRespected
    /\ \A r, q \in Request :
        r # q /\ job[r] # Idle /\ job[q] # Idle /\ job[r].customer \in Solo
            => job[q].customer # job[r].customer
    /\ \A r \in Request :
        job[r].pc = "apply" /\ job[r].customer \in Solo
            => Cardinality(Mine(job[r].coupon, job[r].customer))
                 < PerCustomer[job[r].coupon]

LEMMA MineFinite ==
    ASSUME NEW c, NEW m
    PROVE  IsFiniteSet(Mine(c, m)) /\ Cardinality(Mine(c, m)) \in Nat
<1>1. Mine(c, m) \in SUBSET Order
  BY DEF Mine, Live
<1> QED
  BY <1>1, OrderFinite, FS_Subset, FS_CardinalityType

\* A customer's orders with a coupon do not get more when their set does not
\* grow.
LEMMA MineShrinks ==
    ASSUME NEW c, NEW m, Mine(c, m)' \subseteq Mine(c, m)
    PROVE  Cardinality(Mine(c, m)') <= Cardinality(Mine(c, m))
BY MineFinite, FS_Subset

\* Steps that let no request in, validate nothing and add no use.
LEMMA SoloKept ==
    ASSUME OrderTyped, SoloInv,
           \A c \in Coupon, m \in Customer : Mine(c, m)' \subseteq Mine(c, m),
           \A r \in Request :
               \/ job'[r] \in {job[r], Idle}
               \/ /\ job[r] # Idle /\ job'[r].pc # "apply"
                  /\ job'[r].customer = job[r].customer
    PROVE  SoloInv'
<1>1. \A c \in Coupon, m \in Customer :
        /\ Cardinality(Mine(c, m)') <= Cardinality(Mine(c, m))
        /\ Cardinality(Mine(c, m)) \in Nat /\ Cardinality(Mine(c, m)') \in Nat
  <2>1. ASSUME NEW c \in Coupon, NEW m \in Customer
        PROVE  Cardinality(Mine(c, m)') \in Nat
    <3>1. Mine(c, m)' \in SUBSET Mine(c, m)
      OBVIOUS
    <3> QED
      BY <3>1, MineFinite, FS_Subset, FS_CardinalityType
  <2> QED
    BY <2>1, MineShrinks, MineFinite
<1>2. \A c \in Coupon : PerCustomer[c] \in Nat
  BY CouponLimits
<1>3. PerCustomerRespected'
  <2>1. \A c \in Coupon, m \in Solo : Cardinality(Mine(c, m)) <= PerCustomer[c]
    BY DEF SoloInv, PerCustomerRespected, Mine
  <2>2. \A c \in Coupon, m \in Solo : Cardinality(Mine(c, m)') <= PerCustomer[c]
    BY <1>1, <1>2, <2>1, SoloAssumption
  <2> QED
    BY <2>2 DEF PerCustomerRespected, Mine
<1>4. \A r, q \in Request :
        r # q /\ job'[r] # Idle /\ job'[q] # Idle /\ job'[r].customer \in Solo
            => job'[q].customer # job'[r].customer
  BY DEF SoloInv
<1>5. ASSUME NEW r \in Request, job'[r].pc = "apply", job'[r].customer \in Solo
      PROVE  (Cardinality(Mine(job[r].coupon, job[r].customer))
                < PerCustomer[job[r].coupon])'
  <2>1. PICK c \in Coupon, m \in Customer :
            /\ job[r].coupon = c /\ job[r].customer = m
            /\ job'[r].coupon = c /\ job'[r].customer = m
            /\ job[r].pc = "apply" /\ m \in Solo
    BY <1>5, JobFields DEF OrderTyped, Idle
  <2>2. Cardinality(Mine(c, m)) < PerCustomer[c]
    BY <2>1 DEF SoloInv
  <2>3. Cardinality(Mine(c, m)') < PerCustomer[c]
    BY <1>1, <1>2, <2>2
  <2>4. (Mine(job[r].coupon, job[r].customer))' = Mine(c, m)'
    BY <2>1 DEF Mine, Live, OrdersOf, Placed
  <2> QED
    BY <2>1, <2>3, <2>4
<1> QED
  BY <1>3, <1>4, <1>5 DEF SoloInv

\* A coupon validated for a lone customer is applied within the limit.
LEMMA SoloApply ==
    ASSUME OrderTyped, CouponTyped, OrdersApart, SoloInv,
           NEW r \in Request, ApplyCoupon(r)
    PROVE  SoloInv'
<1>1. PICK o \in Order, x \in Coupon, n \in Customer :
          /\ job[r].order = o /\ job[r].coupon = x /\ job[r].customer = n
          /\ job[r].pc = "apply" /\ job[r] # Idle
          /\ use' = [use EXCEPT ![o] = x] /\ order' = order
          /\ job' = [job EXCEPT ![r] = Idle]
          /\ order[o].customer = n
  BY JobFields DEF ApplyCoupon, Apply, Done, OrderTyped, OrdersApart, Applying, Idle
<1>2. /\ job'[r] = Idle /\ job'[r].pc = "idle"
      /\ \A q \in Request : q # r => job'[q] = job[q]
  BY <1>1 DEF OrderTyped, Idle
<1>3. ASSUME NEW c \in Coupon, NEW m \in Customer, c # x \/ m # n
      PROVE  /\ Cardinality(Mine(c, m)') <= Cardinality(Mine(c, m))
             /\ Cardinality(Mine(c, m)) \in Nat /\ Cardinality(Mine(c, m)') \in Nat
  <2>1. Mine(c, m)' \in SUBSET Mine(c, m)
    BY <1>1, <1>3 DEF Mine, Live, OrdersOf, Placed, CouponTyped
  <2> QED
    BY <2>1, MineFinite, FS_Subset, FS_CardinalityType
<1>4. /\ Cardinality(Mine(x, n)') <= Cardinality(Mine(x, n)) + 1
      /\ Cardinality(Mine(x, n)) \in Nat /\ Cardinality(Mine(x, n)') \in Nat
  <2>1. PICK S : S = Mine(x, n)
    OBVIOUS
  <2>2. Mine(x, n)' \in SUBSET (S \cup {o})
    BY <1>1, <2>1 DEF Mine, Live, OrdersOf, Placed, CouponTyped
  <2>3. IsFiniteSet(S) /\ Cardinality(S) \in Nat
    BY <2>1, MineFinite
  <2>4. /\ IsFiniteSet(S \cup {o}) /\ Cardinality(S \cup {o}) \in Nat
        /\ Cardinality(S \cup {o}) <= Cardinality(S) + 1
    <3>1. /\ IsFiniteSet(S \cup {o})
          /\ Cardinality(S \cup {o}) =
                IF o \in S THEN Cardinality(S) ELSE Cardinality(S) + 1
      BY <2>3, FS_AddElement
    <3>2. Cardinality(S \cup {o}) \in {Cardinality(S), Cardinality(S) + 1}
      BY <3>1
    <3> QED
      BY <2>3, <3>1, <3>2
  <2>5. /\ Cardinality(Mine(x, n)') \in Nat
        /\ Cardinality(Mine(x, n)') <= Cardinality(S \cup {o})
    BY <2>2, <2>4, FS_Subset, FS_CardinalityType
  <2>6. Cardinality(Mine(x, n)') <= Cardinality(S) + 1
    BY <2>3, <2>4, <2>5
  <2> QED
    BY <2>1, <2>3, <2>5, <2>6
<1>5. \A c \in Coupon : PerCustomer[c] \in Nat
  BY CouponLimits
<1>6. PerCustomerRespected'
  <2>1. ASSUME NEW c \in Coupon, NEW m \in Solo
        PROVE  Cardinality(Mine(c, m)') <= PerCustomer[c]
    <3>1. m \in Customer /\ Cardinality(Mine(c, m)) <= PerCustomer[c]
      BY SoloAssumption DEF SoloInv, PerCustomerRespected, Mine
    <3>2. CASE c # x \/ m # n
      BY <1>3, <1>5, <3>1, <3>2
    <3>3. CASE c = x /\ m = n
      <4>1. Cardinality(Mine(x, n)) < PerCustomer[x]
        BY <1>1, <3>3 DEF SoloInv
      <4>2. Cardinality(Mine(x, n)') <= PerCustomer[x]
        BY <1>4, <1>5, <4>1
      <4> QED
        BY <3>3, <4>2
    <3> QED
      BY <3>2, <3>3
  <2> QED
    BY <2>1 DEF PerCustomerRespected, Mine
<1>7. ASSUME NEW q \in Request, job'[q].pc = "apply", job'[q].customer \in Solo
      PROVE  (Cardinality(Mine(job[q].coupon, job[q].customer))
                < PerCustomer[job[q].coupon])'
  <2>1. PICK c \in Coupon, m \in Solo :
            /\ job[q].coupon = c /\ job[q].customer = m /\ job[q].pc = "apply"
            /\ job'[q].coupon = c /\ job'[q].customer = m
            /\ q # r /\ job[q] # Idle
    BY <1>2, <1>7, JobFields DEF OrderTyped, Idle
  <2>2. m # n /\ m \in Customer
    BY <1>1, <2>1, SoloAssumption DEF SoloInv
  <2>3. Cardinality(Mine(c, m)) < PerCustomer[c]
    BY <2>1 DEF SoloInv
  <2>4. Cardinality(Mine(c, m)') < PerCustomer[c]
    BY <1>3, <1>5, <2>2, <2>3
  <2>5. (Mine(job[q].coupon, job[q].customer))' = Mine(c, m)'
    BY <2>1 DEF Mine, Live, OrdersOf, Placed
  <2> QED
    BY <2>1, <2>4, <2>5
<1>8. \A p, q \in Request :
        p # q /\ job'[p] # Idle /\ job'[q] # Idle /\ job'[p].customer \in Solo
            => job'[q].customer # job'[p].customer
  BY <1>2 DEF SoloInv
<1> QED
  BY <1>6, <1>7, <1>8 DEF SoloInv

LEMMA SoloStep ==
    ASSUME IInv, SoloInv, [Next]_vars
    PROVE  SoloInv'
<1>1. CartTyped /\ OrderTyped /\ PickedExists /\ CouponTyped /\ OrdersApart
  BY DEF IInv, CouponInv
<1>2. ASSUME UNCHANGED <<order, job, use>> PROVE SoloInv'
  BY <1>2 DEF SoloInv, PerCustomerRespected, Mine, Live, OrdersOf, Placed
<1>3. ASSUME NEW r \in Request, Start(r) PROVE SoloInv'
  <2>1. PICK k \in DOMAIN carts, m \in Customer :
            /\ m \in Solo => ~InFlight(m)
            /\ job' = [job EXCEPT ![r] = [pc |-> "place", cart |-> k, customer |-> m]]
            /\ job[r] = Idle
    BY <1>3 DEF Start
  <2>2. order' = order /\ use' = use
    BY <1>3 DEF Start, couponVars
  <2>3. /\ job'[r] = [pc |-> "place", cart |-> k, customer |-> m]
        /\ \A q \in Request : q # r => job'[q] = job[q]
    BY <1>1, <2>1 DEF OrderTyped
  <2>4. \A p, q \in Request :
          p # q /\ job'[p] # Idle /\ job'[q] # Idle /\ job'[p].customer \in Solo
              => job'[q].customer # job'[p].customer
    BY <2>1, <2>3 DEF SoloInv, InFlight
  <2>5. PerCustomerRespected'
    BY <2>2 DEF SoloInv, PerCustomerRespected, Live, OrdersOf, Placed
  <2>6. \A q \in Request : job'[q].pc = "apply" => q # r /\ job'[q] = job[q]
    BY <2>3
  <2>7. \A q \in Request :
          (job[q].pc = "apply" /\ job[q].customer \in Solo
              => Cardinality(Mine(job[q].coupon, job[q].customer))
                   < PerCustomer[job[q].coupon])'
    BY <2>2, <2>6 DEF SoloInv, Mine, Live, OrdersOf, Placed
  <2> QED
    BY <2>4, <2>5, <2>7 DEF SoloInv
<1>4. ASSUME NEW r \in Request, PlaceOrder(r) PROVE SoloInv'
  <2>1. PICK o \in Order :
            /\ order[o].status = "none"
            /\ order' = [order EXCEPT ![o] = [status |-> "pending",
                                              units |-> carts[job[r].cart].units,
                                              customer |-> job[r].customer]]
            /\ \/ job' = [job EXCEPT ![r] = Idle]
               \/ \E c \in Coupon :
                    job' = [job EXCEPT ![r] =
                              [pc |-> "validate", order |-> o, coupon |-> c,
                               customer |-> job[r].customer]]
    BY <1>1, <1>4, PlaceOrderEffect
  <2>2. use' = use /\ job[r] # Idle
    BY <1>1, <1>4, PlaceOrderEffect DEF couponVars, PlaceOrder, Idle
  <2>3. use[o] = NoCoupon
    BY <1>1, <2>1 DEF OrdersApart
  <2>4. \A c \in Coupon, m \in Customer : Mine(c, m)' \subseteq Mine(c, m)
    BY <1>1, <2>1, <2>2, <2>3, CouponNames
       DEF Mine, Live, OrdersOf, Placed, OrderTyped
  <2>5. \A q \in Request :
          \/ job'[q] \in {job[q], Idle}
          \/ /\ job[q] # Idle /\ job'[q].pc # "apply"
             /\ job'[q].customer = job[q].customer
    BY <1>1, <2>1, <2>2 DEF OrderTyped
  <2> QED
    BY <1>1, <2>4, <2>5, SoloKept
<1>5. ASSUME NEW r \in Request, Validate(r) PROVE SoloInv'
  <2>1. /\ job[r] \in Job /\ job[r].pc = "validate" /\ job[r] # Idle
        /\ job' = [job EXCEPT ![r] = [job[r] EXCEPT !.pc = "apply"]]
        /\ Cardinality(Mine(job[r].coupon, job[r].customer)) < PerCustomer[job[r].coupon]
        /\ order' = order /\ use' = use
    BY <1>1, <1>5, JobFields DEF Validate, Valid, Mine, couponVars, OrderTyped, Idle
  <2>2. /\ job'[r].coupon = job[r].coupon /\ job'[r].customer = job[r].customer
        /\ \A q \in Request : q # r => job'[q] = job[q]
    BY <1>1, <2>1 DEF OrderTyped, Job
  <2>3. PerCustomerRespected'
    BY <2>1 DEF SoloInv, PerCustomerRespected, Live, OrdersOf, Placed
  <2>4. \A p, q \in Request :
          p # q /\ job'[p] # Idle /\ job'[q] # Idle /\ job'[p].customer \in Solo
              => job'[q].customer # job'[p].customer
    BY <2>1, <2>2 DEF SoloInv
  <2>5. ASSUME NEW q \in Request
        PROVE  (job[q].pc = "apply" /\ job[q].customer \in Solo
                    => Cardinality(Mine(job[q].coupon, job[q].customer))
                         < PerCustomer[job[q].coupon])'
    <3>1. CASE q = r
      BY <2>1, <2>2, <3>1 DEF Mine, Live, OrdersOf, Placed
    <3>2. CASE q # r
      BY <2>1, <2>2, <3>2 DEF SoloInv, Mine, Live, OrdersOf, Placed
    <3> QED
      BY <3>1, <3>2
  <2> QED
    BY <2>3, <2>4, <2>5 DEF SoloInv
<1>6. ASSUME NEW r \in Request, ApplyCoupon(r) PROVE SoloInv'
  BY <1>1, <1>6, SoloApply
<1>7. ASSUME NEW r \in Request, GiveUp(r) PROVE SoloInv'
  <2>1. /\ \A c \in Coupon, m \in Customer : Mine(c, m)' \subseteq Mine(c, m)
        /\ \A q \in Request : job'[q] \in {job[q], Idle}
    BY <1>1, <1>7 DEF GiveUp, Done, couponVars, Mine, Live, OrdersOf, Placed, OrderTyped
  <2> QED
    BY <1>1, <2>1, SoloKept
<1>8. ASSUME NEW o \in Order, Close(o) PROVE SoloInv'
  <2>1. /\ use' = [use EXCEPT ![o] = NoCoupon] /\ job' = job
        /\ order[o].status # "none" /\ order[o] # NoOrder
        /\ order' = [order EXCEPT ![o].status = "cancelled"]
    BY <1>8 DEF Close, Placed, Release, NoOrder
  <2>2. \A p \in Order : order'[p].customer = order[p].customer
                         /\ (order'[p].status # "none" <=> order[p].status # "none")
    BY <1>1, <2>1 DEF OrderTyped
  <2>3. \A c \in Coupon, m \in Customer : Mine(c, m)' \subseteq Mine(c, m)
    BY <1>1, <2>1, <2>2, CouponNames DEF Mine, Live, OrdersOf, Placed, CouponTyped
  <2> QED
    BY <1>1, <2>1, <2>3, SoloKept
<1>9. ASSUME NEW o \in Order, SaverReleases(o), UNCHANGED <<order, job>> PROVE SoloInv'
  <2>1. use' = [use EXCEPT ![o] = NoCoupon]
    BY <1>9 DEF SaverReleases
  <2>2. \A c \in Coupon, m \in Customer : Mine(c, m)' \subseteq Mine(c, m)
    BY <1>1, <1>9, <2>1, CouponNames DEF Mine, Live, OrdersOf, Placed, CouponTyped
  <2> QED
    BY <1>1, <1>9, <2>2, SoloKept
<1>10. ASSUME NEW o \in Order, SaveClosed(o) PROVE UNCHANGED <<order, job, use>>
  BY <1>10 DEF SaveClosed, SaverReads
<1>11. ASSUME NEW c \in Coupon, FormLoad(c) \/ FormSave(c) PROVE use' = use
  BY <1>11 DEF FormLoad, FormSave
<1>12. CASE UNCHANGED vars
  BY <1>2, <1>12 DEF vars, couponVars
<1> QED
  BY <1>2, <1>3, <1>4, <1>5, <1>6, <1>7, <1>8, <1>9, <1>10, <1>11, <1>12
     DEF Next, Step, couponVars

\* validate_coupon: a customer who runs one checkout at a time keeps to the
\* limit per customer, although it is tested before the lock only.
THEOREM PerCustomerHolds == Spec => []PerCustomerRespected
<1>1. Init => SoloInv
  <2> SUFFICES ASSUME Init PROVE SoloInv
    OBVIOUS
  <2>1. \A c \in Coupon, m \in Customer : Live(c) \cap OrdersOf(m) = {}
    BY CouponNames DEF Init, CouponInit, Live
  <2>2. \A c \in Coupon, m \in Solo :
            Cardinality(Live(c) \cap OrdersOf(m)) <= PerCustomer[c]
    BY <2>1, FS_EmptySet, CouponLimits, SoloAssumption
  <2>3. \A r \in Request : job[r] = Idle /\ job[r].pc = "idle"
    BY DEF Init, Idle
  <2> QED
    BY <2>2, <2>3 DEF SoloInv, PerCustomerRespected
<1>2. SoloInv => PerCustomerRespected
  BY DEF SoloInv
<1>3. IInv /\ SoloInv /\ [Next]_vars => SoloInv'
  BY SoloStep
<1> QED
  BY <1>1, <1>2, <1>3, Invariance, PTL DEF Spec
=============================================================================
