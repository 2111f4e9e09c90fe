------------------------------- MODULE Carts -------------------------------
(***************************************************************************)
(* apps/cart: the carts of one shopper, who browses with a session and may  *)
(* log in to an account. Views pick a cart without a lock and change it     *)
(* later; place_order and the merge at login lock the cart rows.            *)
(***************************************************************************)
EXTENDS Integers, Sequences

CONSTANTS
    Unit,       \* units of one product the shopper may put into a cart
    MaxCarts    \* bound on the carts created

ASSUME CartBounds == MaxCarts \in Nat

VARIABLES
    carts,      \* the Cart rows, oldest first
    fresh       \* the units not yet added to any cart

cartVars == <<carts, fresh>>

Owner == {"session", "user"}

Cart == [owner : Owner, active : BOOLEAN, units : SUBSET Unit]

CartInit ==
    /\ carts = <<>>
    /\ fresh = Unit

ActiveCarts(owner) ==
    {k \in DOMAIN carts : carts[k].active /\ carts[k].owner = owner}

\* The cart get_or_create_cart picks among the active ones.
Newest(k, owner) ==
    /\ k \in ActiveCarts(owner)
    /\ \A h \in ActiveCarts(owner) : h <= k

Deactivate(k) == carts' = [carts EXCEPT ![k].active = FALSE]
-----------------------------------------------------------------------------
\* get_or_create_cart, creating: no constraint makes a visitor's cart unique,
\* and two requests that both found none create one each.
CreateCart(owner) ==
    /\ Len(carts) < MaxCarts
    /\ carts' = Append(carts, [owner |-> owner, active |-> TRUE, units |-> {}])
    /\ UNCHANGED fresh

\* add_to_cart: the cart was picked earlier, without a lock; it may have been
\* checked out or merged since.
AddToCart(k, u) ==
    /\ u \in fresh
    /\ carts' = [carts EXCEPT ![k].units = @ \cup {u}]
    /\ fresh' = fresh \ {u}

\* set_quantity downwards, remove_item, clear_cart.
TakeOut(k, units) ==
    /\ units # {} /\ units \subseteq carts[k].units
    /\ carts' = [carts EXCEPT ![k].units = @ \ units]
    /\ UNCHANGED fresh

Mergeable(s) == Newest(s, "session") /\ carts[s].units # {}

\* The session's cart becomes the account's.
MergeAdopts(s) ==
    /\ Mergeable(s) /\ ActiveCarts("user") = {}
    /\ carts' = [carts EXCEPT ![s].owner = "user"]
    /\ UNCHANGED fresh

\* The session's lines are added to the account's cart. A line the account's
\* cart already has takes over the quantity and leaves the session's line
\* where it was, in a cart that is active no longer.
MergeFolds(s, a) ==
    /\ Mergeable(s) /\ Newest(a, "user")
    /\ carts' = [carts EXCEPT
                    ![a].units = @ \cup carts[s].units,
                    ![s].units = IF carts[a].units = {} THEN {} ELSE @,
                    ![s].active = FALSE]
    /\ UNCHANGED fresh
-----------------------------------------------------------------------------
Shop ==
    \/ \E owner \in Owner : CreateCart(owner)
    \/ \E k \in DOMAIN carts, u \in Unit : AddToCart(k, u)
    \/ \E k \in DOMAIN carts, units \in SUBSET Unit : TakeOut(k, units)
    \/ \E s \in DOMAIN carts :
         MergeAdopts(s) \/ \E a \in DOMAIN carts : MergeFolds(s, a)
=============================================================================
