----------------------------- MODULE UsagePool -----------------------------
(***************************************************************************)
(* What apps/coupons promises a checkout: every coupon has a number of uses *)
(* and an order holds at most one of them; a use is taken only while one is *)
(* left, and comes back when the order is closed. Coupons.tla keeps the     *)
(* number of uses taken in a counter of its own and implements this module. *)
(***************************************************************************)
EXTENDS Integers, FiniteSets

CONSTANTS
    Coupon,
    Holder,     \* what holds a use: an order
    Limit,      \* Limit[c]: the uses of coupon c
    NoCoupon

VARIABLE held   \* held[h]: the coupon h holds a use of, or NoCoupon

Holders(c) == {h \in Holder : held[h] = c}

\* Take a use, giving back the one held before.
Take(h, c) ==
    /\ Cardinality(Holders(c)) < Limit[c]
    /\ held' = [held EXCEPT ![h] = c]

Return(h) == held' = [held EXCEPT ![h] = NoCoupon]

PoolInit == held = [h \in Holder |-> NoCoupon]

PoolNext == \E h \in Holder : Return(h) \/ \E c \in Coupon : Take(h, c)

PoolSpec == PoolInit /\ [][PoolNext]_held
=============================================================================
