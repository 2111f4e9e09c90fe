------------------------------ MODULE Coupons ------------------------------
(***************************************************************************)
(* apps/coupons/services.py: a coupon's used_count is bumped, under a row   *)
(* lock, when a checkout applies the coupon to its order, and dropped when  *)
(* the order is closed (apps/coupons/signals.py). The redemptions say which *)
(* orders use which coupon; the counter is kept beside them, and the        *)
(* back-office form and a later save of a closed order also write it.       *)
(***************************************************************************)
EXTENDS Integers, FiniteSets

CONSTANTS
    Coupon,
    Order,
    Customer,       \* the e-mail addresses of the shoppers
    Limit,          \* Limit[c]: Coupon.usage_limit
    PerCustomer,    \* PerCustomer[c]: Coupon.usage_limit_per_customer
    Disturbed,      \* the coupons edited while in use, or on a closed order
                    \* that is saved again
    NoCoupon

ASSUME CouponLimits == /\ Limit \in [Coupon -> Nat]
                       /\ PerCustomer \in [Coupon -> Nat]
ASSUME OrderFinite == IsFiniteSet(Order)
ASSUME CouponNames == NoCoupon \notin Coupon /\ Disturbed \subseteq Coupon

VARIABLES
    used,       \* used[c]: Coupon.used_count
    use,        \* use[o]: the coupon of order o's unreleased CouponRedemption
    form,       \* form[c]: the used_count that a coupon form loaded, or -1
    saver       \* saver[o]: the unreleased redemption a save of the closed
                \* order o has read and is about to release

couponVars == <<used, use, form, saver>>

Live(c) == {o \in Order : use[o] = c}

CouponInit ==
    /\ used = [c \in Coupon |-> 0]
    /\ use = [o \in Order |-> NoCoupon]
    /\ form = [c \in Coupon |-> -1]
    /\ saver = [o \in Order |-> NoCoupon]

\* Mutant of Usable: one use too many.
UsableUpTo(c) == used[c] <= Limit[c]

\* is_exhausted, negated.
Usable(c) == used[c] < Limit[c]

\* Mutant of Valid: the limit per customer is not looked at.
ValidForAnyone(c, mine) == Usable(c)

\* validate_coupon: every test of it that can change while a checkout runs.
Valid(c, mine) ==
    /\ Usable(c)
    /\ Cardinality(Live(c) \cap mine) < PerCustomer[c]

\* Mutant of Drop: nothing stops the counter at zero.
DropBelowZero(count, c, n) == [count EXCEPT ![c] = @ - n]

\* The UPDATE of used_count, which is limited to rows above zero.
Drop(count, c, n) == [count EXCEPT ![c] = IF @ > 0 THEN @ - n ELSE @]

\* The counters once the use that u stands for is given back.
Without(count, u) == IF u \in Coupon THEN Drop(count, u, 1) ELSE count

\* Mutant of Release: the redemption is marked and the coupon forgotten.
ReleaseUncounted(o) ==
    /\ use' = [use EXCEPT ![o] = NoCoupon]
    /\ UNCHANGED <<used, form, saver>>

\* _release_order_redemptions in the transaction that holds the order's row.
Release(o) ==
    /\ used' = Without(used, use[o])
    /\ use' = [use EXCEPT ![o] = NoCoupon]
    /\ UNCHANGED <<form, saver>>

\* Mutant of Apply: validated before the lock and not again under it.
ApplyUnchecked(o, c) ==
    /\ used' = [Without(used, use[o]) EXCEPT ![c] = @ + 1]
    /\ use' = [use EXCEPT ![o] = c]
    /\ UNCHANGED <<form, saver>>

\* apply_to_order from select_for_update on: the order's earlier use is given
\* back and a new one taken.
Apply(o, c) ==
    /\ Usable(c)
    /\ used' = [Without(used, use[o]) EXCEPT ![c] = @ + 1]
    /\ use' = [use EXCEPT ![o] = c]
    /\ UNCHANGED <<form, saver>>
-----------------------------------------------------------------------------
\* CouponUpdateView: the form's object is loaded, validated and saved whole.
FormLoad(c) ==
    /\ c \in Disturbed /\ form[c] = -1
    /\ form' = [form EXCEPT ![c] = used[c]]
    /\ UNCHANGED <<used, use, saver>>

FormSave(c) ==
    /\ form[c] # -1
    /\ used' = [used EXCEPT ![c] = form[c]]
    /\ form' = [form EXCEPT ![c] = -1]
    /\ UNCHANGED <<use, saver>>

\* A closed order is saved for another reason (archived, given a tracking
\* number): the same signal runs, after the save and outside any lock.
SaverReads(o) ==
    /\ use[o] \in Disturbed /\ saver[o] = NoCoupon
    /\ saver' = [saver EXCEPT ![o] = use[o]]
    /\ UNCHANGED <<used, use, form>>

SaverReleases(o) ==
    /\ saver[o] # NoCoupon
    /\ used' = Without(used, saver[o])
    /\ use' = [use EXCEPT ![o] = NoCoupon]
    /\ saver' = [saver EXCEPT ![o] = NoCoupon]
    /\ UNCHANGED form
-----------------------------------------------------------------------------
Steady == Coupon \ Disturbed

\* The counter of a coupon nobody disturbs counts the orders that hold a use of
\* it, whatever checkouts, cancellations and crashes overlap.
UsedIsLive == \A c \in Steady : used[c] = Cardinality(Live(c))

\* A coupon is on no more orders than its usage limit allows, also when several
\* checkouts found the last use free before any of them took it.
LimitRespected == \A c \in Steady : Cardinality(Live(c)) <= Limit[c]

\* The coupons nobody disturbs are a pool of uses.
Pool == INSTANCE UsagePool WITH
            Coupon <- Steady,
            Holder <- Order,
            Limit <- [c \in Steady |-> Limit[c]],
            held <- [o \in Order |-> IF use[o] \in Steady THEN use[o]
                                                          ELSE NoCoupon]

ImplementsPool == Pool!PoolSpec
=============================================================================
