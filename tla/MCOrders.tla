------------------------------ MODULE MCOrders ------------------------------
(***************************************************************************)
(* Instances of Orders for TLC: orders of one unit of each item.            *)
(***************************************************************************)
EXTENDS Orders

OneEach == [o \in Order |-> [i \in Item |-> 1]]
=============================================================================
