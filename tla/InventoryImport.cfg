\* A catalogue import writes stock values beside the movement ledger.
SPECIFICATION Spec
CONSTANTS
    i1 = i1
    i2 = i2
    Item = {i1, i2}
    Worker = {w1, w2}
    OrderLines <- MCOrderLines
    MaxStock = 1
    MaxDebt = 0
    Threshold = 0
    Imported = {i2}
    ImportQuantity = {0}
INVARIANT EveryChangeIsLedgered
