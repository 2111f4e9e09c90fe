----------------------------- MODULE Inventory -----------------------------
(***************************************************************************)
(* apps/inventory/services.py as the database runs it: web and Celery      *)
(* workers call the stock operations concurrently, each inside one         *)
(* transaction that locks a row per movement (select_for_update), checks   *)
(* and rewrites the counters it read under the lock, and appends a         *)
(* StockMovement. Transactions commit, are refused, are killed with their  *)
(* worker, or are chosen as the victim of a deadlock between two orders    *)
(* whose lines name the same items in opposite orders.                     *)
(***************************************************************************)
EXTENDS Integers, Sequences

CONSTANTS
    Item,           \* InventoryItem rows
    Worker,         \* gunicorn threads and Celery workers
    OrderLines,     \* the line lists of the orders: sequences of [item, quantity]
    MaxStock,       \* bound: no call that adds stock starts above it, nor
                    \* above it in the ledger, which imports leave behind
    MaxDebt,        \* bound: how far below zero a call may take a reserved count
    Threshold,      \* low_stock_threshold, the same for every item
    Imported,       \* items whose stock is a column of the import file or of
                    \* the size and colour editor
    ImportQuantity  \* stock values those write

ASSUME ConstantsAssumption ==
    /\ OrderLines \subseteq Seq([item : Item, quantity : Nat \ {0}])
    /\ MaxStock \in Nat
    /\ MaxDebt \in Nat
    /\ Threshold \in Nat
    /\ Imported \subseteq Item
    /\ ImportQuantity \subseteq Int

VARIABLES
    row,        \* committed counters
    ledger,     \* committed sums of movement deltas
    alerts,     \* items whose low-stock event the latest step emitted
    todo,       \* todo[w]: movements the transaction of w has still to make
    mode,       \* mode[w]: "idle", "adjusting", "running" (in a transaction) or
                \* "emitting" (committed, events still to be emitted)
    seen,       \* seen[w]: the item an adjustment read, without a lock
    held,       \* held[w]: rows locked by the transaction of w
    draft,      \* draft[w]: the locked rows as the transaction sees them
    pending,    \* pending[w]: sums of the movement rows it has inserted
    low         \* low[w]: items with an event queued by transaction.on_commit

\* Its refinement mapping is the identity: the rows and the ledger as committed.
Stock == INSTANCE StockLedger WITH Item <- Item, row <- row, ledger <- ledger

committed == <<row, ledger, alerts>>
txVars == <<todo, mode, seen, held, draft, pending, low>>
vars == <<row, ledger, alerts, todo, mode, seen, held, draft, pending, low>>

Movement == [item : Item, quantity : Int, reserved : Int]

Reserve(lines) ==
    [k \in DOMAIN lines |->
        [item |-> lines[k].item, quantity |-> 0, reserved |-> lines[k].quantity]]

Release(lines) ==
    [k \in DOMAIN lines |->
        [item |-> lines[k].item, quantity |-> 0, reserved |-> -lines[k].quantity]]

ConsumeSale(lines) ==
    [k \in DOMAIN lines |->
        [item |-> lines[k].item, quantity |-> -lines[k].quantity,
                                 reserved |-> -lines[k].quantity]]

ReceiveStock(i, n) == <<[item |-> i, quantity |-> n, reserved |-> 0]>>

CompleteTransfer(src, dst, n) ==
    <<[item |-> src, quantity |-> -n, reserved |-> 0],
      [item |-> dst, quantity |-> n, reserved |-> 0]>>

\* Orders may release or sell twice what they reserved once (see Orders): no
\* refusal keeps a reserved count from falling below zero.
MayLower(lines) == \A k \in DOMAIN lines :
                    row[lines[k].item].reserved + MaxDebt >= lines[k].quantity

HasRoom(i) == row[i].quantity < MaxStock /\ ledger[i].quantity < MaxStock

Calls ==
    { Reserve(l) : l \in OrderLines }
      \cup { Release(l) : l \in {m \in OrderLines : MayLower(m)} }
      \cup { ConsumeSale(l) : l \in {m \in OrderLines : MayLower(m)} }
      \cup { ReceiveStock(i, 1) : i \in {j \in Item : HasRoom(j)} }
      \cup { CompleteTransfer(p[1], p[2], 1) :
                p \in {q \in Item \X Item : q[1] # q[2] /\ HasRoom(q[2])} }
-----------------------------------------------------------------------------
Init ==
    /\ row = [i \in Item |-> Stock!Zero]
    /\ ledger = [i \in Item |-> Stock!Zero]
    /\ alerts = {}
    /\ todo = [w \in Worker |-> <<>>]
    /\ mode = [w \in Worker |-> "idle"]
    /\ seen = [w \in Worker |-> {}]
    /\ held = [w \in Worker |-> {}]
    /\ draft = [w \in Worker |-> [i \in Item |-> Stock!Zero]]
    /\ pending = [w \in Worker |-> [i \in Item |-> Stock!Zero]]
    /\ low = [w \in Worker |-> {}]

\* The transaction of w is over; its locks are released.
Close(w) ==
    /\ mode' = [mode EXCEPT ![w] = "idle"]
    /\ todo' = [todo EXCEPT ![w] = <<>>]
    /\ seen' = [seen EXCEPT ![w] = {}]
    /\ held' = [held EXCEPT ![w] = {}]
    /\ draft' = [draft EXCEPT ![w] = [i \in Item |-> Stock!Zero]]
    /\ pending' = [pending EXCEPT ![w] = [i \in Item |-> Stock!Zero]]
    /\ low' = [low EXCEPT ![w] = {}]

Rollback(w) ==
    /\ Close(w)
    /\ alerts' = {}
    /\ UNCHANGED <<row, ledger>>

Begin(w, moves) ==
    /\ mode' = [mode EXCEPT ![w] = "running"]
    /\ todo' = [todo EXCEPT ![w] = moves]
    /\ seen' = [seen EXCEPT ![w] = {}]
    /\ alerts' = {}
    /\ UNCHANGED <<row, ledger, held, draft, pending, low>>

Call(w) ==
    /\ mode[w] = "idle"
    /\ \E moves \in Calls : Begin(w, moves)

\* InventoryAdjustView reads the item before adjust_stock subtracts from it.
AdjustRead(w, i) ==
    /\ mode[w] = "idle"
    /\ row[i].quantity <= MaxStock /\ ledger[i].quantity <= MaxStock
    /\ mode' = [mode EXCEPT ![w] = "adjusting"]
    /\ seen' = [seen EXCEPT ![w] = {[item |-> i, quantity |-> row[i].quantity]}]
    /\ alerts' = {}
    /\ UNCHANGED <<row, ledger, todo, held, draft, pending, low>>

AdjustStock(w, n) ==
    /\ mode[w] = "adjusting"
    /\ \E s \in seen[w] :
        \/ n = s.quantity /\ Rollback(w)
        \/ n # s.quantity /\ Begin(w, ReceiveStock(s.item, n - s.quantity))
-----------------------------------------------------------------------------
\* Mutant of HeldByOther: get() without select_for_update().
NoRowLock(w, i) == FALSE

HeldByOther(w, i) == \E v \in Worker \ {w} : i \in held[v]

\* select_for_update().get(): the row as this transaction may see it.
Locked(w, i) == IF i \in held[w] THEN draft[w][i] ELSE row[i]

\* Mutant of BecomesLow: no look at what was available before.
IsLow(r, m) ==
    /\ m.quantity < 0 \/ m.reserved > 0
    /\ Threshold > 0
    /\ Stock!Available(Stock!Shift(r, m)) <= Threshold

BecomesLow(r, m) ==
    /\ m.quantity < 0 \/ m.reserved > 0
    /\ Threshold > 0
    /\ Stock!Available(Stock!Shift(r, m)) <= Threshold
    /\ Stock!Available(r) > Threshold

RecordMovement(w) ==
    /\ mode[w] = "running" /\ todo[w] # <<>>
    /\ LET m == Head(todo[w])
           r == Locked(w, m.item)
       IN  /\ ~HeldByOther(w, m.item)
           /\ Stock!Accepts(r, m)
           /\ held' = [held EXCEPT ![w] = @ \cup {m.item}]
           /\ draft' = [draft EXCEPT ![w][m.item] = Stock!Shift(r, m)]
           /\ pending' = [pending EXCEPT ![w][m.item] = Stock!Shift(@, m)]
           /\ low' = [low EXCEPT ![w] =
                        IF BecomesLow(r, m) THEN @ \cup {m.item} ELSE @]
    /\ todo' = [todo EXCEPT ![w] = Tail(@)]
    /\ alerts' = {}
    /\ UNCHANGED <<row, ledger, mode, seen>>

\* InsufficientStockError leaves the atomic block.
Refuse(w) ==
    /\ mode[w] = "running" /\ todo[w] # <<>>
    /\ LET m == Head(todo[w])
       IN  ~HeldByOther(w, m.item) /\ ~Stock!Accepts(Locked(w, m.item), m)
    /\ Rollback(w)

\* A committed transaction keeps nothing but the events it has queued.
Committed(w) ==
    /\ mode' = [mode EXCEPT ![w] = IF low[w] = {} THEN "idle" ELSE "emitting"]
    /\ held' = [held EXCEPT ![w] = {}]
    /\ draft' = [draft EXCEPT ![w] = [i \in Item |-> Stock!Zero]]
    /\ pending' = [pending EXCEPT ![w] = [i \in Item |-> Stock!Zero]]
    /\ alerts' = {}
    /\ UNCHANGED <<todo, seen, low>>

\* Mutant of Commit: save(update_fields=["quantity"]) leaves reserved behind.
CommitQuantityOnly(w) ==
    /\ mode[w] = "running" /\ todo[w] = <<>>
    /\ row' = [i \in Item |-> [Locked(w, i) EXCEPT !.reserved = row[i].reserved]]
    /\ ledger' = [i \in Item |-> Stock!Shift(ledger[i], pending[w][i])]
    /\ Committed(w)

Commit(w) ==
    /\ mode[w] = "running" /\ todo[w] = <<>>
    /\ row' = [i \in Item |-> Locked(w, i)]
    /\ ledger' = [i \in Item |-> Stock!Shift(ledger[i], pending[w][i])]
    /\ Committed(w)

\* Mutant of EmitLow: the queued event closes over the wrong instance.
EmitWorker(w) ==
    /\ mode[w] = "emitting"
    /\ alerts' = {w}
    /\ low' = [low EXCEPT ![w] = {}]
    /\ mode' = [mode EXCEPT ![w] = "idle"]
    /\ UNCHANGED <<row, ledger, todo, seen, held, draft, pending>>

\* on_commit runs the queued events one by one; the row locks are gone by then.
\* A receiver that raises stops neither this event nor the next (send_robust).
EmitLow(w) ==
    /\ mode[w] = "emitting"
    /\ \E i \in low[w] :
        /\ alerts' = {i}
        /\ low' = [low EXCEPT ![w] = @ \ {i}]
        /\ mode' = [mode EXCEPT ![w] = IF low[w] = {i} THEN "idle" ELSE @]
    /\ UNCHANGED <<row, ledger, todo, seen, held, draft, pending>>
-----------------------------------------------------------------------------
WaitsFor(w, v) ==
    /\ mode[w] = "running" /\ todo[w] # <<>>
    /\ v # w
    /\ Head(todo[w]).item \in held[v]

\* Mutant of DeadlockAbort: nothing breaks a cycle of waiting transactions.
NoDeadlockDetection(w) == FALSE

\* PostgreSQL aborts a transaction of a set that waits within itself.
DeadlockAbort(w) ==
    /\ \E S \in SUBSET Worker :
        w \in S /\ \A v \in S : \E u \in S : WaitsFor(v, u)
    /\ Rollback(w)

\* gunicorn or Celery kills the worker; the database drops its transaction, and
\* what a committed one had still to emit is lost.
Crash(w) == mode[w] # "idle" /\ Rollback(w)

\* The importer's and the variant editor's item.save(update_fields=["quantity"]).
SetStock(i, n) ==
    /\ \A w \in Worker : i \notin held[w]
    /\ row[i].quantity # n
    /\ row' = [row EXCEPT ![i].quantity = n]
    /\ alerts' = {}
    /\ UNCHANGED <<ledger, txVars>>

Step(w) == RecordMovement(w) \/ Refuse(w) \/ Commit(w) \/ EmitLow(w)

Next ==
    \/ \E w \in Worker : Call(w) \/ Step(w) \/ DeadlockAbort(w) \/ Crash(w)
    \/ \E w \in Worker, i \in Item : AdjustRead(w, i)
    \/ \E w \in Worker, n \in 0..MaxStock : AdjustStock(w, n)
    \/ \E i \in Imported, n \in ImportQuantity : SetStock(i, n)

Spec == Init /\ [][Next]_vars

\* The database grants a row lock in queue order and breaks deadlocks; a
\* running worker goes on.
Fairness ==
    \A w \in Worker : SF_vars(Step(w)) /\ WF_vars(DeadlockAbort(w))
                      /\ WF_vars(\E n \in 0..MaxStock : AdjustStock(w, n))

FairSpec == Spec /\ Fairness
-----------------------------------------------------------------------------
\* Every variable ranges over the values the code can store.
TypeOK ==
    /\ row \in [Item -> Stock!Counters]
    /\ ledger \in [Item -> Stock!Counters]
    /\ alerts \subseteq Item
    /\ todo \in [Worker -> Seq(Movement)]
    /\ mode \in [Worker -> {"idle", "adjusting", "running", "emitting"}]
    /\ seen \in [Worker -> SUBSET [item : Item, quantity : Int]]
    /\ held \in [Worker -> SUBSET Item]
    /\ draft \in [Worker -> [Item -> Stock!Counters]]
    /\ pending \in [Worker -> [Item -> Stock!Counters]]
    /\ low \in [Worker -> SUBSET Item]

\* The movement rows of an item sum up to its counters (inventory/models.py:6-8
\* calls the history reconstructable), but for the quantity of imported items.
\* record_movement writes absolute values it computed from what it read, so
\* this rests on the row lock.
LedgerReconstructs ==
    \A i \in Item : /\ row[i].reserved = ledger[i].reserved
                    /\ i \notin Imported => row[i].quantity = ledger[i].quantity

\* On-hand stock is never negative, though an adjustment subtracts a quantity
\* it read before the lock; imports are the one unguarded way in.
NeverNegative == \A i \in Item \ Imported : row[i].quantity >= 0

\* What inventory/models.py:6-8 says of every change to either number.
EveryChangeIsLedgered == row = ledger

\* A committed step that raises a reserved count leaves it within the on-hand
\* quantity: two racing checkouts cannot both take the last unit.
NoOversell ==
    [][\A i \in Item : row'[i].reserved > row[i].reserved
                        => row'[i].reserved <= row'[i].quantity]_vars

\* The events that w has to emit for the transaction it has committed.
Owed(w) == IF mode[w] = "emitting" THEN low[w] ELSE {}

\* inventory/services.py:71-84: a committed transaction comes to owe the event
\* of exactly the items that its movements take from above the threshold to it
\* or below. Each owed event is emitted once and none else; only a worker killed
\* between its commit and the emission owes one and never emits it.
AlertsOnCrossing ==
    [][/\ \A i \in Item :
            (\E w \in Worker : i \in Owed(w)' /\ i \notin Owed(w))
              <=> /\ ledger'[i] # ledger[i] /\ Threshold > 0
                  /\ Stock!Available(row[i]) > Threshold
                  /\ Stock!Available(row'[i]) <= Threshold
       /\ \A i \in alerts' : \E w \in Worker : i \in Owed(w) /\ i \notin Owed(w)'
       /\ \A w \in Worker : Owed(w) \subseteq Owed(w)' \cup alerts' \/ Crash(w)]_vars

\* Row locks, rollbacks, deadlock victims and crashes implement atomic batches
\* of movements.
ImplementsStockLedger == Stock!LedgerSpec

\* Opposite lock orders never leave a transaction open for ever: each ends, and
\* has its events emitted or is killed, whatever the other workers do.
TransactionsEnd == \A w \in Worker : mode[w] = "running" ~> mode[w] = "idle"
=============================================================================
