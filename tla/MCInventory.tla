---------------------------- MODULE MCInventory ----------------------------
(***************************************************************************)
(* Instances of Inventory for TLC: two records, and orders whose lines     *)
(* name them in opposite orders, so that transactions overlap and deadlock.*)
(***************************************************************************)
EXTENDS Inventory, TLC

CONSTANTS i1, i2

Line(i, n) == [item |-> i, quantity |-> n]

MCOrderLines == { <<Line(i1, 1), Line(i2, 1)>>, <<Line(i2, 1), Line(i1, 1)>> }
=============================================================================
