---------------------------- MODULE StockLedger ----------------------------
(***************************************************************************)
(* What apps/inventory promises its callers: every stock record carries    *)
(* two counters, the on-hand quantity and the reserved count, and they     *)
(* change in atomic batches of movements, each batch refused as a whole or *)
(* applied as a whole and written to the movement ledger.                  *)
(* Inventory.tla, with its row locks, transactions and crashes, implements *)
(* this module; Orders.tla is built on it.                                 *)
(***************************************************************************)
EXTENDS Integers

CONSTANT Item   \* the InventoryItem rows of one store

VARIABLES
    row,        \* row[i]: the counters of item i
    ledger      \* ledger[i]: the sums of the StockMovement deltas of item i

ledgerVars == <<row, ledger>>

Counters == [quantity : Int, reserved : Int]

Zero == [quantity |-> 0, reserved |-> 0]

\* A row after a movement.
Shift(r, d) == [quantity |-> r.quantity + d.quantity,
                reserved |-> r.reserved + d.reserved]

Unshift(r, d) == [quantity |-> r.quantity - d.quantity,
                  reserved |-> r.reserved - d.reserved]

Available(r) == r.quantity - r.reserved

\* Mutants of Accepts: one of the two refusals is missing.
AcceptsAnyReservation(r, d) == r.quantity + d.quantity >= 0

AcceptsAnyQuantity(r, d) ==
    d.reserved > 0 => r.reserved + d.reserved <= r.quantity

\* record_movement's two refusals. Nothing refuses a negative reserved count.
Accepts(r, d) ==
    /\ d.reserved > 0 => r.reserved + d.reserved <= r.quantity
    /\ r.quantity + d.quantity >= 0

Accepted(delta) == \A i \in Item : delta[i] # Zero => Accepts(row[i], delta[i])

\* One transaction's movements, delta[i] being their sum on item i.
Move(delta) ==
    /\ Accepted(delta)
    /\ row' = [i \in Item |-> Shift(row[i], delta[i])]
    /\ ledger' = [i \in Item |-> Shift(ledger[i], delta[i])]

\* The catalogue importer and the variant editor write the quantity alone.
Overwrite(i, n) ==
    /\ row' = [row EXCEPT ![i].quantity = n]
    /\ UNCHANGED ledger

LedgerInit ==
    /\ row = [i \in Item |-> Zero]
    /\ ledger = [i \in Item |-> Zero]

LedgerNext ==
    \/ Move([i \in Item |-> Unshift(ledger'[i], ledger[i])])
    \/ \E i \in Item : Overwrite(i, row'[i].quantity)

LedgerSpec == LedgerInit /\ [][LedgerNext]_ledgerVars
=============================================================================
