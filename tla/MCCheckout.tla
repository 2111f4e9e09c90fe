----------------------------- MODULE MCCheckout -----------------------------
(***************************************************************************)
(* Instances of Checkout for TLC.                                           *)
(***************************************************************************)
EXTENDS Checkout, TLC

OneEach == [c \in Coupon |-> 1]

Symmetry == Permutations(Unit) \cup Permutations(Order) \cup Permutations(Request)
=============================================================================
