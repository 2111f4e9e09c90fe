\* Two workers on two records: locks, deadlocks, refusals, crashes.
SPECIFICATION FairSpec
CONSTANTS
    i1 = i1
    i2 = i2
    Item = {i1, i2}
    Worker = {w1, w2}
    OrderLines <- MCOrderLines
    MaxStock = 1
    MaxDebt = 1
    Threshold = 1
    Imported = {i2}
    ImportQuantity = {0}
INVARIANTS TypeOK LedgerReconstructs NeverNegative
PROPERTIES NoOversell AlertsOnCrossing ImplementsStockLedger TransactionsEnd
