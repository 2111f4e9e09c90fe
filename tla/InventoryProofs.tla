--------------------------- MODULE InventoryProofs ---------------------------
(***************************************************************************)
(* Proofs about Inventory for any set of workers, records and orders: type *)
(* correctness, the ledger invariant, on-hand stock that is never negative, *)
(* low-stock events at the crossing alone and the refinement of StockLedger.*)
(***************************************************************************)
EXTENDS Inventory, SequenceTheorems, TLAPS

\* A row is locked by one transaction at a time.
Exclusive == \A v, w \in Worker : v # w => held[v] \cap held[w] = {}

\* What a transaction sees of a row it has locked is the committed row and its
\* own movements; it has made no movement on any other row.
DraftIsRow ==
    \A w \in Worker, i \in Item :
        IF i \in held[w] THEN draft[w][i] = Stock!Shift(row[i], pending[w][i])
                         ELSE pending[w][i] = Stock!Zero

\* The movements of one call either leave the quantity alone or reserve nothing.
Moves(w) == {todo[w][k] : k \in DOMAIN todo[w]} \cup {pending[w][i] : i \in Item}

OneKind ==
    \A w \in Worker : \/ \A m \in Moves(w) : m.quantity = 0
                      \/ \A m \in Moves(w) : m.reserved <= 0

\* What the refusals of record_movement leave true of a locked row.
DraftsBacked ==
    \A w \in Worker : \A i \in held[w] :
        /\ draft[w][i].quantity >= 0
        /\ pending[w][i].reserved > 0 => draft[w][i].reserved <= draft[w][i].quantity

\* Movements are made, and locks taken, inside a transaction alone.
Quiet == \A w \in Worker : mode[w] # "running" => held[w] = {} /\ todo[w] = <<>>

IInv == /\ TypeOK /\ Exclusive /\ Quiet /\ DraftIsRow /\ OneKind /\ DraftsBacked
        /\ LedgerReconstructs /\ NeverNegative
-----------------------------------------------------------------------------
\* The calls of the stock services are lists of movements of one kind.
LEMMA CallsTyped ==
    ASSUME NEW moves \in Calls
    PROVE  /\ moves \in Seq(Movement)
           /\ \/ \A k \in DOMAIN moves : moves[k].quantity = 0
              \/ \A k \in DOMAIN moves : moves[k].reserved <= 0
<1>1. ASSUME NEW l \in OrderLines
      PROVE  /\ Len(l) \in Nat /\ DOMAIN l = 1..Len(l)
             /\ \A k \in 1..Len(l) : l[k].item \in Item /\ l[k].quantity \in Nat
  <2> DEFINE S == [item : Item, quantity : Nat \ {0}]
  <2>1. l \in Seq(S)
    BY ConstantsAssumption
  <2>2. \A s \in S : s.item \in Item /\ s.quantity \in Nat
    OBVIOUS
  <2> HIDE DEF S
  <2> QED
    BY <2>1, <2>2, LenProperties
<1>2. ASSUME NEW l \in OrderLines, moves \in [1..Len(l) -> Movement]
      PROVE  moves \in Seq(Movement)
  BY <1>1, <1>2
<1>3. ASSUME NEW l \in OrderLines, moves = Reserve(l)
      PROVE  moves \in Seq(Movement) /\ \A k \in DOMAIN moves : moves[k].quantity = 0
  <2>1. moves \in [1..Len(l) -> Movement] /\ \A k \in 1..Len(l) : moves[k].quantity = 0
    BY <1>1, <1>3 DEF Reserve, Movement
  <2> QED
    BY <1>2, <2>1
<1>4. ASSUME NEW l \in OrderLines, moves = Release(l)
      PROVE  moves \in Seq(Movement) /\ \A k \in DOMAIN moves : moves[k].reserved <= 0
  <2>1. moves \in [1..Len(l) -> Movement] /\ \A k \in 1..Len(l) : moves[k].reserved <= 0
    BY <1>1, <1>4 DEF Release, Movement
  <2> QED
    BY <1>2, <2>1
<1>5. ASSUME NEW l \in OrderLines, moves = ConsumeSale(l)
      PROVE  moves \in Seq(Movement) /\ \A k \in DOMAIN moves : moves[k].reserved <= 0
  <2>1. moves \in [1..Len(l) -> Movement] /\ \A k \in 1..Len(l) : moves[k].reserved <= 0
    BY <1>1, <1>5 DEF ConsumeSale, Movement
  <2> QED
    BY <1>2, <2>1
<1>6. ASSUME NEW i \in Item, moves = ReceiveStock(i, 1)
      PROVE  moves \in Seq(Movement) /\ \A k \in DOMAIN moves : moves[k].reserved <= 0
  BY <1>6 DEF ReceiveStock, Movement
<1>7. ASSUME NEW i \in Item, NEW j \in Item, moves = CompleteTransfer(i, j, 1)
      PROVE  moves \in Seq(Movement) /\ \A k \in DOMAIN moves : moves[k].reserved <= 0
  BY <1>7 DEF CompleteTransfer, Movement
<1> QED
  BY <1>3, <1>4, <1>5, <1>6, <1>7 DEF Calls

\* Movements add up.
LEMMA ShiftFacts ==
    ASSUME NEW a \in Stock!Counters, NEW m, m.quantity \in Int, m.reserved \in Int
    PROVE  /\ Stock!Shift(a, m) \in Stock!Counters
           /\ Stock!Shift(a, Stock!Zero) = a
           /\ \A b \in Stock!Counters :
                Stock!Shift(Stock!Shift(b, a), m) = Stock!Shift(b, Stock!Shift(a, m))
<1> USE DEF Stock!Shift, Stock!Counters, Stock!Zero
<1>1. Stock!Shift(a, m) \in Stock!Counters
  OBVIOUS
<1>2. Stock!Shift(a, Stock!Zero) = a
  OBVIOUS
<1>3. ASSUME NEW b \in Stock!Counters
      PROVE  Stock!Shift(Stock!Shift(b, a), m) = Stock!Shift(b, Stock!Shift(a, m))
  OBVIOUS
<1> QED
  BY <1>1, <1>2, <1>3

\* An adjustment is one movement of the quantity.
LEMMA AdjustmentTyped ==
    ASSUME NEW i \in Item, NEW n \in Int
    PROVE  /\ ReceiveStock(i, n) \in Seq(Movement)
           /\ \A k \in DOMAIN ReceiveStock(i, n) : ReceiveStock(i, n)[k].reserved <= 0
BY DEF ReceiveStock, Movement

\* A store without stock and without transactions satisfies the invariant.
LEMMA InitIInv == Init => IInv
<1> SUFFICES ASSUME Init PROVE IInv
  OBVIOUS
<1>1. TypeOK
  BY DEF Init, TypeOK, Stock!Zero, Stock!Counters
<1>2. Exclusive /\ Quiet /\ DraftIsRow /\ DraftsBacked
  BY DEF Init, Exclusive, Quiet, DraftIsRow, DraftsBacked
<1>3. OneKind
  BY DEF Init, OneKind, Moves, Stock!Zero
<1>4. LedgerReconstructs /\ NeverNegative
  BY DEF Init, LedgerReconstructs, NeverNegative, Stock!Zero
<1> QED
  BY <1>1, <1>2, <1>3, <1>4 DEF IInv

\* Opening a transaction keeps the invariant.
LEMMA BeginIInv ==
    ASSUME IInv, NEW w \in Worker, held[w] = {}, NEW moves \in Seq(Movement),
           \/ \A k \in DOMAIN moves : moves[k].quantity = 0
           \/ \A k \in DOMAIN moves : moves[k].reserved <= 0,
           Begin(w, moves)
    PROVE  IInv'
<1> USE DEF IInv
<1>1. TypeOK'
  BY DEF Begin, TypeOK
<1>2. (Exclusive /\ Quiet /\ DraftIsRow /\ DraftsBacked)'
  BY DEF Begin, Exclusive, Quiet, TypeOK, DraftIsRow, DraftsBacked
<1>3. OneKind'
  <2> SUFFICES ASSUME NEW v \in Worker
               PROVE  \/ \A m \in Moves(v)' : m.quantity = 0
                      \/ \A m \in Moves(v)' : m.reserved <= 0
    BY DEF OneKind
  <2>1. CASE v = w
    <3>1. \A i \in Item : pending'[w][i] = Stock!Zero
      BY DEF DraftIsRow, Begin
    <3>2. todo'[w] = moves
      BY DEF Begin, TypeOK
    <3> QED
      BY <2>1, <3>1, <3>2 DEF Moves, Stock!Zero
  <2>2. CASE v # w
    <3>1. todo'[v] = todo[v] /\ pending' = pending
      BY <2>2 DEF Begin, TypeOK
    <3> QED
      BY <3>1 DEF Moves, OneKind
  <2> QED
    BY <2>1, <2>2
<1>4. (LedgerReconstructs /\ NeverNegative)'
  BY DEF Begin, LedgerReconstructs, NeverNegative
<1> QED
  BY <1>1, <1>2, <1>3, <1>4

\* A refusal, a deadlock victim or a dead worker takes its movements with it.
LEMMA RollbackIInv ==
    ASSUME IInv, NEW w \in Worker, Rollback(w)
    PROVE  IInv'
<1> USE DEF IInv, Rollback, Close
<1>1. TypeOK'
  BY DEF TypeOK, Stock!Zero, Stock!Counters
<1>2. \A v \in Worker : v # w => /\ held'[v] = held[v] /\ draft'[v] = draft[v]
                                 /\ pending'[v] = pending[v] /\ todo'[v] = todo[v]
  BY DEF TypeOK
<1>3. /\ held'[w] = {} /\ todo'[w] = <<>>
      /\ pending'[w] = [i \in Item |-> Stock!Zero]
  BY DEF TypeOK
<1>4. (Exclusive /\ Quiet /\ DraftIsRow /\ DraftsBacked)'
  BY <1>2, <1>3 DEF Exclusive, Quiet, TypeOK, DraftIsRow, DraftsBacked
<1>5. OneKind'
  BY <1>2, <1>3 DEF OneKind, Moves, Stock!Zero
<1>6. (LedgerReconstructs /\ NeverNegative)'
  BY DEF LedgerReconstructs, NeverNegative
<1> QED
  BY <1>1, <1>4, <1>5, <1>6

\* A movement changes the locked row and the movement rows alike.
LEMMA RecordMovementIInv ==
    ASSUME IInv, NEW w \in Worker, RecordMovement(w)
    PROVE  IInv'
<1> USE DEF IInv
<1> DEFINE m == Head(todo[w])
           r == Locked(w, m.item)
<1>1. /\ m \in Movement /\ Tail(todo[w]) \in Seq(Movement)
      /\ Len(Tail(todo[w])) = Len(todo[w]) - 1 /\ Len(todo[w]) \in Nat
      /\ \A k \in 1..Len(Tail(todo[w])) : Tail(todo[w])[k] = todo[w][k + 1]
      /\ DOMAIN todo[w] = 1..Len(todo[w])
      /\ DOMAIN Tail(todo[w]) = 1..Len(Tail(todo[w]))
      /\ m = todo[w][1] /\ Len(todo[w]) >= 1
  <2> HIDE DEF m
  <2>1. todo[w] \in Seq(Movement) /\ todo[w] # <<>>
    BY DEF RecordMovement, TypeOK
  <2>2. m = Head(todo[w])
    BY DEF m
  <2> HIDE DEF Movement
  <2> QED
    BY <2>1, <2>2, HeadTailProperties, LenProperties
<1>2. m.item \in Item /\ m.quantity \in Int /\ m.reserved \in Int
  BY <1>1 DEF Movement
<1>3. r \in Stock!Counters /\ Stock!Accepts(r, m) /\ ~HeldByOther(w, m.item)
  BY <1>2 DEF RecordMovement, Locked, TypeOK
<1>4. /\ held' = [held EXCEPT ![w] = @ \cup {m.item}]
      /\ draft' = [draft EXCEPT ![w][m.item] = Stock!Shift(r, m)]
      /\ pending' = [pending EXCEPT ![w][m.item] = Stock!Shift(@, m)]
      /\ todo' = [todo EXCEPT ![w] = Tail(@)]
      /\ mode[w] = "running"
      /\ UNCHANGED <<row, ledger, mode, seen>>
  BY DEF RecordMovement
<1>5. low' \in [Worker -> SUBSET Item] /\ alerts' = {}
  BY <1>2 DEF RecordMovement, TypeOK
<1>6. r = IF m.item \in held[w] THEN draft[w][m.item] ELSE row[m.item]
  BY DEF Locked
<1> HIDE DEF m, r
<1>11. pending[w][m.item] \in Stock!Counters /\ row[m.item] \in Stock!Counters
  BY <1>2 DEF TypeOK
<1>7. TypeOK'
  <2>1. /\ Stock!Shift(r, m) \in Stock!Counters
        /\ Stock!Shift(pending[w][m.item], m) \in Stock!Counters
    BY <1>2, <1>3, <1>11, ShiftFacts
  <2>2. todo' \in [Worker -> Seq(Movement)] /\ held' \in [Worker -> SUBSET Item]
    BY <1>1, <1>2, <1>4 DEF TypeOK
  <2>3. /\ draft' \in [Worker -> [Item -> Stock!Counters]]
        /\ pending' \in [Worker -> [Item -> Stock!Counters]]
    BY <1>2, <1>4, <2>1 DEF TypeOK
  <2> QED
    BY <1>4, <1>5, <2>2, <2>3 DEF TypeOK
<1>8. \A v \in Worker : v # w => /\ held'[v] = held[v] /\ draft'[v] = draft[v]
                                 /\ pending'[v] = pending[v] /\ todo'[v] = todo[v]
  BY <1>4 DEF TypeOK
<1>9. /\ held'[w] = held[w] \cup {m.item}
      /\ \A i \in Item : i # m.item => /\ draft'[w][i] = draft[w][i]
                                       /\ pending'[w][i] = pending[w][i]
      /\ draft'[w][m.item] = Stock!Shift(r, m)
      /\ pending'[w][m.item] = Stock!Shift(pending[w][m.item], m)
      /\ todo'[w] = Tail(todo[w])
  BY <1>2, <1>4 DEF TypeOK
<1>10. (Exclusive /\ Quiet)'
  BY <1>3, <1>4, <1>8, <1>9 DEF Exclusive, Quiet, HeldByOther
<1>12. DraftIsRow'
  <2>1. Stock!Shift(r, m) = Stock!Shift(row[m.item], pending'[w][m.item])
    <3>1. r = Stock!Shift(row[m.item], pending[w][m.item])
      BY <1>2, <1>6, <1>11, ShiftFacts DEF DraftIsRow, Stock!Zero
    <3> QED
      BY <1>2, <1>9, <1>11, <3>1, ShiftFacts
  <2> QED
    BY <1>4, <1>8, <1>9, <2>1 DEF DraftIsRow
<1>13. m \in Moves(w) /\ pending[w][m.item] \in Moves(w)
  BY <1>1, <1>2 DEF Moves
<1>16. OneKind'
  <2> SUFFICES ASSUME NEW v \in Worker
               PROVE  \/ \A n \in Moves(v)' : n.quantity = 0
                      \/ \A n \in Moves(v)' : n.reserved <= 0
    BY DEF OneKind
  <2>1. CASE v # w
    BY <1>8, <2>1 DEF Moves, OneKind
  <2>2. CASE v = w
    <3>1. \A k \in DOMAIN todo'[w] : todo'[w][k] \in Moves(w)
      BY <1>1, <1>9 DEF Moves
    <3>2. \A i \in Item : i # m.item => pending'[w][i] \in Moves(w)
      BY <1>9 DEF Moves
    <3>3. \A n \in Moves(w)' : n \in Moves(w) \/ n = Stock!Shift(pending[w][m.item], m)
      BY <1>9, <3>1, <3>2 DEF Moves
    <3>4. CASE \A n \in Moves(w) : n.quantity = 0
      BY <1>2, <1>11, <1>13, <2>2, <3>3, <3>4 DEF Stock!Shift, Stock!Counters
    <3>5. CASE \A n \in Moves(w) : n.reserved <= 0
      BY <1>2, <1>11, <1>13, <2>2, <3>3, <3>5 DEF Stock!Shift, Stock!Counters
    <3> QED
      BY <3>4, <3>5 DEF OneKind
  <2> QED
    BY <2>1, <2>2
<1>17. DraftsBacked'
  <2> SUFFICES ASSUME NEW v \in Worker, NEW i \in held'[v]
               PROVE  /\ draft'[v][i].quantity >= 0
                      /\ pending'[v][i].reserved > 0
                           => draft'[v][i].reserved <= draft'[v][i].quantity
    BY DEF DraftsBacked
  <2>1. CASE v # w \/ i # m.item
    <3>1. i \in held[v] /\ i \in Item
      BY <1>8, <1>9, <2>1 DEF TypeOK
    <3> QED
      BY <1>8, <1>9, <2>1, <3>1 DEF DraftsBacked
  <2>2. CASE v = w /\ i = m.item
    <3>1. /\ draft'[w][i] = [quantity |-> r.quantity + m.quantity,
                             reserved |-> r.reserved + m.reserved]
          /\ pending'[w][i].reserved = pending[w][i].reserved + m.reserved
      BY <1>9, <2>2 DEF Stock!Shift
    <3>2. r.quantity \in Int /\ r.reserved \in Int /\ pending[w][i].reserved \in Int
      BY <1>3, <1>11, <2>2 DEF Stock!Counters
    <3>3. draft'[w][i].quantity >= 0
      BY <1>2, <1>3, <3>1, <3>2 DEF Stock!Accepts
    <3>4. CASE \A n \in Moves(w) : n.reserved <= 0
      BY <1>2, <1>13, <2>2, <3>1, <3>2, <3>3, <3>4
    <3>5. CASE \A n \in Moves(w) : n.quantity = 0
      <4>1. m.quantity = 0
        BY <1>13, <3>5
      <4>2. CASE m.reserved > 0
        BY <1>2, <1>3, <2>2, <3>1, <3>2, <3>3, <4>1, <4>2 DEF Stock!Accepts
      <4>3. CASE m.reserved <= 0 /\ i \in held[w]
        <5>1. pending[w][i].reserved > 0 => r.reserved <= r.quantity
          BY <1>6, <2>2, <4>3 DEF DraftsBacked
        <5> QED
          BY <1>2, <2>2, <3>1, <3>2, <3>3, <4>1, <4>3, <5>1
      <4>4. CASE m.reserved <= 0 /\ i \notin held[w]
        BY <1>2, <2>2, <3>1, <3>2, <3>3, <4>4 DEF DraftIsRow, Stock!Zero
      <4> QED
        BY <1>2, <4>2, <4>3, <4>4
    <3> QED
      BY <3>4, <3>5 DEF OneKind
  <2> QED
    BY <2>1, <2>2
<1>18. (LedgerReconstructs /\ NeverNegative)'
  BY <1>4 DEF LedgerReconstructs, NeverNegative
<1> QED
  BY <1>7, <1>10, <1>12, <1>16, <1>17, <1>18

\* A commit publishes its drafts; the rows the others have locked are not its.
LEMMA CommitIInv ==
    ASSUME IInv, NEW w \in Worker, Commit(w)
    PROVE  IInv'
<1> USE DEF IInv
<1>1. /\ row' = [i \in Item |-> Locked(w, i)]
      /\ ledger' = [i \in Item |-> Stock!Shift(ledger[i], pending[w][i])]
      /\ todo[w] = <<>>
      /\ Committed(w)
  BY DEF Commit
<1>2. \A i \in Item : row'[i] = IF i \in held[w] THEN draft[w][i] ELSE row[i]
  BY <1>1 DEF Locked
<1>3. \A v \in Worker : v # w => /\ held'[v] = held[v] /\ draft'[v] = draft[v]
                                 /\ pending'[v] = pending[v] /\ todo'[v] = todo[v]
                                 /\ mode'[v] = mode[v]
  BY <1>1 DEF Committed, TypeOK
<1>4. /\ held'[w] = {} /\ todo'[w] = <<>>
      /\ pending'[w] = [i \in Item |-> Stock!Zero]
  BY <1>1 DEF Committed, TypeOK
<1>5. \A i \in Item : /\ pending[w][i] \in Stock!Counters
                      /\ row[i] \in Stock!Counters /\ ledger[i] \in Stock!Counters
                      /\ draft[w][i] \in Stock!Counters
  BY DEF TypeOK
<1>6. TypeOK'
  <2>1. row' \in [Item -> Stock!Counters]
    BY <1>1, <1>2, <1>5
  <2>2. ledger' \in [Item -> Stock!Counters]
    BY <1>1, <1>5 DEF Stock!Shift, Stock!Counters
  <2>3. mode' \in [Worker -> {"idle", "adjusting", "running", "emitting"}]
    BY <1>1 DEF Committed, TypeOK
  <2>4. /\ draft' \in [Worker -> [Item -> Stock!Counters]]
        /\ pending' \in [Worker -> [Item -> Stock!Counters]]
    BY <1>1 DEF Committed, TypeOK, Stock!Zero, Stock!Counters
  <2> QED
    BY <1>1, <2>1, <2>2, <2>3, <2>4 DEF Committed, TypeOK
<1>7. (Exclusive /\ Quiet)'
  BY <1>3, <1>4 DEF Exclusive, Quiet
<1>8. \A v \in Worker : \A i \in held'[v] : v # w /\ i \in Item /\ row'[i] = row[i]
  <2> SUFFICES ASSUME NEW v \in Worker, NEW i \in held'[v]
               PROVE  v # w /\ i \in Item /\ row'[i] = row[i]
    OBVIOUS
  <2>1. v # w /\ i \in held[v] /\ i \in Item
    BY <1>3, <1>4 DEF TypeOK
  <2>2. i \notin held[w]
    BY <2>1 DEF Exclusive
  <2> QED
    BY <1>2, <2>1, <2>2
<1>9. DraftIsRow'
  <2> SUFFICES ASSUME NEW v \in Worker, NEW i \in Item
               PROVE  IF i \in held'[v]
                      THEN draft'[v][i] = Stock!Shift(row'[i], pending'[v][i])
                      ELSE pending'[v][i] = Stock!Zero
    BY DEF DraftIsRow, Stock!Shift, Stock!Zero
  <2>1. CASE v = w
    BY <1>4, <2>1
  <2>2. CASE v # w
    BY <1>3, <1>8, <2>2 DEF DraftIsRow
  <2> QED
    BY <2>1, <2>2
<1>10. OneKind'
  BY <1>3, <1>4 DEF OneKind, Moves, Stock!Zero
<1>11. DraftsBacked'
  BY <1>3, <1>8 DEF DraftsBacked
<1>12. LedgerReconstructs'
  <2> SUFFICES ASSUME NEW i \in Item
               PROVE  /\ row'[i].reserved = ledger'[i].reserved
                      /\ i \notin Imported => row'[i].quantity = ledger'[i].quantity
    BY DEF LedgerReconstructs
  <2>1. /\ row[i].reserved = ledger[i].reserved
        /\ i \notin Imported => row[i].quantity = ledger[i].quantity
    BY DEF LedgerReconstructs
  <2>2. ledger'[i] = Stock!Shift(ledger[i], pending[w][i])
    BY <1>1
  <2>3. row'[i] = Stock!Shift(row[i], pending[w][i])
    BY <1>2, <1>5, ShiftFacts DEF DraftIsRow, Stock!Zero
  <2> QED
    BY <1>5, <2>1, <2>2, <2>3 DEF Stock!Shift, Stock!Counters
<1>13. NeverNegative'
  BY <1>2 DEF NeverNegative, DraftsBacked
<1> QED
  BY <1>6, <1>7, <1>9, <1>10, <1>11, <1>12, <1>13

\* An emission changes nothing that is committed or locked.
LEMMA EmitIInv ==
    ASSUME IInv, NEW w \in Worker, EmitLow(w)
    PROVE  IInv'
<1> USE DEF IInv
<1>1. TypeOK'
  BY DEF EmitLow, TypeOK
<1>2. Quiet'
  BY DEF EmitLow, Quiet, TypeOK
<1>3. (Exclusive /\ DraftIsRow /\ OneKind /\ DraftsBacked)'
  BY DEF EmitLow, Exclusive, DraftIsRow, OneKind, Moves, DraftsBacked
<1>4. (LedgerReconstructs /\ NeverNegative)'
  BY DEF EmitLow, LedgerReconstructs, NeverNegative
<1> QED
  BY <1>1, <1>2, <1>3, <1>4

\* An import writes the quantity of a row that no transaction has locked.
LEMMA SetStockIInv ==
    ASSUME IInv, NEW i \in Imported, NEW n \in ImportQuantity, SetStock(i, n)
    PROVE  IInv'
<1> USE DEF IInv
<1>1. i \in Item /\ n \in Int
  BY ConstantsAssumption
<1>2. /\ row' = [row EXCEPT ![i].quantity = n]
      /\ alerts' = {} /\ UNCHANGED <<ledger, txVars>>
      /\ \A w \in Worker : i \notin held[w]
  BY DEF SetStock
<1>3. /\ \A j \in Item : j # i => row'[j] = row[j]
      /\ row'[i].reserved = row[i].reserved
      /\ row' \in [Item -> Stock!Counters]
  <2> DEFINE new == [row[i] EXCEPT !.quantity = n]
  <2>1. row[i] \in Stock!Counters
    BY <1>1 DEF TypeOK
  <2>2. new \in Stock!Counters /\ new.reserved = row[i].reserved
    BY <1>1, <2>1 DEF Stock!Counters
  <2>3. row' = [row EXCEPT ![i] = new]
    BY <1>2
  <2> HIDE DEF new
  <2> QED
    BY <1>1, <2>2, <2>3 DEF TypeOK
<1>4. TypeOK'
  BY <1>2, <1>3 DEF TypeOK, txVars
<1>5. (Exclusive /\ Quiet /\ OneKind /\ DraftsBacked)'
  BY <1>2 DEF Exclusive, Quiet, OneKind, Moves, DraftsBacked, txVars
<1>6. DraftIsRow'
  BY <1>2, <1>3 DEF DraftIsRow, txVars
<1>7. (LedgerReconstructs /\ NeverNegative)'
  BY <1>2, <1>3 DEF LedgerReconstructs, NeverNegative
<1> QED
  BY <1>4, <1>5, <1>6, <1>7

\* An adjustment's read writes nothing.
LEMMA AdjustReadIInv ==
    ASSUME IInv, NEW w \in Worker, NEW i \in Item, AdjustRead(w, i)
    PROVE  IInv'
<1> USE DEF IInv
<1>1. TypeOK'
  BY DEF AdjustRead, TypeOK, Stock!Counters
<1>2. Quiet'
  BY DEF AdjustRead, Quiet, TypeOK
<1>3. (Exclusive /\ DraftIsRow /\ OneKind /\ DraftsBacked)'
  BY DEF AdjustRead, Exclusive, DraftIsRow, OneKind, Moves, DraftsBacked
<1>4. (LedgerReconstructs /\ NeverNegative)'
  BY DEF AdjustRead, LedgerReconstructs, NeverNegative
<1> QED
  BY <1>1, <1>2, <1>3, <1>4
-----------------------------------------------------------------------------
\* Every step keeps the invariant.
LEMMA NextIInv == IInv /\ [Next]_vars => IInv'
<1> SUFFICES ASSUME IInv, [Next]_vars PROVE IInv'
  OBVIOUS
<1>1. ASSUME NEW w \in Worker, Call(w) PROVE IInv'
  <2>1. PICK moves \in Calls : Begin(w, moves)
    BY <1>1 DEF Call
  <2>2. held[w] = {}
    BY <1>1 DEF Call, IInv, Quiet
  <2> QED
    BY <2>1, <2>2, CallsTyped, BeginIInv
<1>2. ASSUME NEW w \in Worker, NEW n \in 0..MaxStock, AdjustStock(w, n) PROVE IInv'
  <2>1. PICK s \in seen[w] : \/ n = s.quantity /\ Rollback(w)
                             \/ n # s.quantity
                                  /\ Begin(w, ReceiveStock(s.item, n - s.quantity))
    BY <1>2 DEF AdjustStock
  <2>2. s \in [item : Item, quantity : Int]
    BY DEF IInv, TypeOK
  <2>3. s.item \in Item /\ n - s.quantity \in Int
    BY <2>2, ConstantsAssumption
  <2>4. held[w] = {}
    BY <1>2 DEF AdjustStock, IInv, Quiet
  <2> QED
    BY <2>1, <2>3, <2>4, AdjustmentTyped, BeginIInv, RollbackIInv
<1>3. ASSUME NEW w \in Worker, Refuse(w) \/ DeadlockAbort(w) \/ Crash(w) PROVE IInv'
  BY <1>3, RollbackIInv DEF Refuse, DeadlockAbort, Crash
<1>4. CASE UNCHANGED vars
  <2> USE <1>4 DEF IInv, vars
  <2>1. TypeOK'
    BY DEF TypeOK
  <2>2. (Exclusive /\ Quiet /\ DraftIsRow /\ OneKind /\ DraftsBacked)'
    BY DEF Exclusive, Quiet, DraftIsRow, OneKind, Moves, DraftsBacked
  <2>3. (LedgerReconstructs /\ NeverNegative)'
    BY DEF LedgerReconstructs, NeverNegative
  <2> QED
    BY <2>1, <2>2, <2>3
<1> QED
  BY <1>1, <1>2, <1>3, <1>4, RecordMovementIInv, CommitIInv, EmitIInv,
     SetStockIInv, AdjustReadIInv DEF Next, Step

\* The inductive invariant holds of every reachable state.
THEOREM Invariance == Spec => []IInv
<1>1. Init => IInv
  BY InitIInv
<1>2. IInv /\ [Next]_vars => IInv'
  BY NextIInv
<1> QED
  BY <1>1, <1>2, PTL DEF Spec

\* Every variable keeps its type, for any workers, records and orders.
THEOREM TypeCorrect == Spec => []TypeOK
<1>1. IInv => TypeOK
  BY DEF IInv
<1> QED
  BY <1>1, Invariance, PTL

\* The counters are the sums of the ledger, for any number of workers.
THEOREM LedgerHolds == Spec => []LedgerReconstructs
<1>1. IInv => LedgerReconstructs
  BY DEF IInv
<1> QED
  BY <1>1, Invariance, PTL

\* On-hand stock of items that no import writes is never negative.
THEOREM NonNegative == Spec => []NeverNegative
<1>1. IInv => NeverNegative
  BY DEF IInv
<1> QED
  BY <1>1, Invariance, PTL
-----------------------------------------------------------------------------
\* Only a commit and an import change the stock.
Idles == UNCHANGED <<row, ledger>>

\* What a commit adds to the ledger is a batch the ledger's own rules accept.
LEMMA CommitMoves ==
    ASSUME IInv, NEW w \in Worker, Commit(w)
    PROVE  Stock!Move([i \in Item |-> Stock!Unshift(ledger'[i], ledger[i])])
<1> USE DEF IInv
<1>1. \A i \in Item : /\ pending[w][i] \in Stock!Counters
                      /\ row[i] \in Stock!Counters /\ ledger[i] \in Stock!Counters
  BY DEF TypeOK
<1>2. /\ row' = [i \in Item |-> Locked(w, i)]
      /\ ledger' = [i \in Item |-> Stock!Shift(ledger[i], pending[w][i])]
  BY DEF Commit
<1>3. \A i \in Item : Stock!Unshift(ledger'[i], ledger[i]) = pending[w][i]
  BY <1>1, <1>2 DEF Stock!Unshift, Stock!Shift, Stock!Counters
<1>4. \A i \in Item : row'[i] = Stock!Shift(row[i], pending[w][i])
  BY <1>1, <1>2, ShiftFacts DEF Locked, DraftIsRow, Stock!Zero
<1>5. ASSUME NEW i \in Item, pending[w][i] # Stock!Zero
      PROVE  Stock!Accepts(row[i], pending[w][i])
  <2> DEFINE p == pending[w][i]
             r == row[i]
  <2>1. /\ i \in held[w]
        /\ draft[w][i].quantity = r.quantity + p.quantity
        /\ draft[w][i].reserved = r.reserved + p.reserved
    <3>1. i \in held[w] /\ draft[w][i] = Stock!Shift(r, p)
      BY <1>5 DEF DraftIsRow
    <3> QED
      BY <3>1 DEF Stock!Shift
  <2>2. /\ r.quantity \in Int /\ r.reserved \in Int
        /\ p.quantity \in Int /\ p.reserved \in Int
    BY <1>1 DEF Stock!Counters
  <2>3. p \in Moves(w)
    BY DEF Moves
  <2>4. p.quantity = 0 \/ p.reserved <= 0
    BY <2>3 DEF OneKind
  <2>5. /\ r.quantity + p.quantity >= 0
        /\ p.reserved > 0 => r.reserved + p.reserved <= r.quantity + p.quantity
    BY <2>1 DEF DraftsBacked
  <2> QED
    BY <2>2, <2>4, <2>5 DEF Stock!Accepts
<1>6. row' = [i \in Item |-> Stock!Shift(row[i],
                    [j \in Item |-> Stock!Unshift(ledger'[j], ledger[j])][i])]
  BY <1>2, <1>3, <1>4
<1>7. ledger' = [i \in Item |-> Stock!Shift(ledger[i],
                    [j \in Item |-> Stock!Unshift(ledger'[j], ledger[j])][i])]
  BY <1>2, <1>3
<1> QED
  BY <1>3, <1>5, <1>6, <1>7 DEF Stock!Move, Stock!Accepted

\* Every step of the detailed specification is a batch of movements, an
\* overwritten quantity or nothing to the abstract one.
LEMMA StepRefines ==
    IInv /\ [Next]_vars => [Stock!LedgerNext]_<<row, ledger>>
<1> SUFFICES ASSUME IInv, [Next]_vars PROVE Stock!LedgerNext \/ Idles
  BY DEF Idles
<1>1. ASSUME NEW w \in Worker, Commit(w) PROVE Stock!LedgerNext
  BY <1>1, CommitMoves DEF Stock!LedgerNext
<1>2. ASSUME NEW i \in Imported, NEW n \in ImportQuantity, SetStock(i, n)
      PROVE  Stock!LedgerNext
  <2>1. /\ row' = [row EXCEPT ![i].quantity = n] /\ ledger' = ledger
        /\ i \in Item /\ row \in [Item -> Stock!Counters]
    BY <1>2, ConstantsAssumption DEF SetStock, IInv, TypeOK
  <2>2. row'[i].quantity = n
    BY <2>1 DEF Stock!Counters
  <2> QED
    BY <2>1, <2>2 DEF Stock!LedgerNext, Stock!Overwrite
<1>3. ASSUME NEW w \in Worker, Call(w) PROVE Idles
  BY <1>3 DEF Call, Begin, Idles
<1>4. ASSUME NEW w \in Worker, NEW n \in 0..MaxStock, AdjustStock(w, n) PROVE Idles
  BY <1>4 DEF AdjustStock, Begin, Rollback, Idles
<1>5. ASSUME NEW w \in Worker, Refuse(w) \/ DeadlockAbort(w) \/ Crash(w) PROVE Idles
  BY <1>5 DEF Refuse, DeadlockAbort, Crash, Rollback, Idles
<1>6. ASSUME NEW w \in Worker, RecordMovement(w) \/ EmitLow(w) PROVE Idles
  BY <1>6 DEF RecordMovement, EmitLow, Idles
<1>7. ASSUME NEW w \in Worker, NEW i \in Item, AdjustRead(w, i) PROVE Idles
  BY <1>7 DEF AdjustRead, Idles
<1>8. CASE UNCHANGED vars
  BY <1>8 DEF vars, Idles
<1> QED
  BY <1>1, <1>2, <1>3, <1>4, <1>5, <1>6, <1>7, <1>8 DEF Next, Step

\* Row locks, rollbacks, deadlock victims and crashes implement atomic batches
\* of movements, for any workers, records and orders.
THEOREM Refinement == Spec => ImplementsStockLedger
<1>1. Init => Stock!LedgerInit
  BY DEF Init, Stock!LedgerInit
<1>2. IInv /\ [Next]_vars => [Stock!LedgerNext]_<<row, ledger>>
  BY StepRefines
<1> QED
  BY <1>1, <1>2, Invariance, PTL
     DEF Spec, ImplementsStockLedger, Stock!LedgerSpec, Stock!ledgerVars

\* No committed step raises a reserved count above the on-hand quantity.
THEOREM NeverOversold == Spec => NoOversell
<1> DEFINE Safe == \A i \in Item : row'[i].reserved > row[i].reserved
                                     => row'[i].reserved <= row'[i].quantity
<1>1. ASSUME IInv, NEW w \in Worker, Commit(w) PROVE Safe
  <2> SUFFICES ASSUME NEW i \in Item, row'[i].reserved > row[i].reserved
               PROVE  row'[i].reserved <= row'[i].quantity
    OBVIOUS
  <2>1. row'[i] = IF i \in held[w] THEN draft[w][i] ELSE row[i]
    BY <1>1 DEF Commit, Locked
  <2>2. /\ row[i] \in Stock!Counters /\ pending[w][i] \in Stock!Counters
    BY <1>1 DEF IInv, TypeOK
  <2>3. i \in held[w] /\ row'[i] = draft[w][i]
    BY <2>1, <2>2 DEF Stock!Counters
  <2>4. draft[w][i].reserved = row[i].reserved + pending[w][i].reserved
    <3>1. draft[w][i] = Stock!Shift(row[i], pending[w][i])
      BY <1>1, <2>3 DEF IInv, DraftIsRow
    <3> QED
      BY <3>1 DEF Stock!Shift
  <2>5. pending[w][i].reserved > 0
    BY <2>2, <2>3, <2>4 DEF Stock!Counters
  <2> QED
    BY <1>1, <2>3, <2>5 DEF IInv, DraftsBacked
<1>2. ASSUME IInv, NEW i \in Imported, NEW n \in ImportQuantity, SetStock(i, n)
      PROVE  Safe
  <2>1. /\ row' = [row EXCEPT ![i].quantity = n]
        /\ i \in Item /\ row \in [Item -> Stock!Counters]
    BY <1>2, ConstantsAssumption DEF SetStock, IInv, TypeOK
  <2>2. \A j \in Item : row'[j].reserved = row[j].reserved /\ row[j].reserved \in Int
    BY <2>1 DEF Stock!Counters
  <2> QED
    BY <2>2
<1>3. ASSUME IInv, UNCHANGED row PROVE Safe
  <2>1. \A i \in Item : row[i].reserved \in Int
    BY <1>3 DEF IInv, TypeOK, Stock!Counters
  <2> QED
    BY <1>3, <2>1
<1>4. IInv /\ [Next]_vars => Safe
  <2> SUFFICES ASSUME IInv, [Next]_vars PROVE Safe
    OBVIOUS
  <2> HIDE DEF Safe
  <2>1. ASSUME NEW w \in Worker, Call(w) PROVE UNCHANGED row
    BY <2>1 DEF Call, Begin
  <2>2. ASSUME NEW w \in Worker, NEW n \in 0..MaxStock, AdjustStock(w, n)
        PROVE  UNCHANGED row
    BY <2>2 DEF AdjustStock, Begin, Rollback
  <2>3. ASSUME NEW w \in Worker, Refuse(w) \/ DeadlockAbort(w) \/ Crash(w)
        PROVE  UNCHANGED row
    BY <2>3 DEF Refuse, DeadlockAbort, Crash, Rollback
  <2>4. ASSUME NEW w \in Worker, RecordMovement(w) \/ EmitLow(w) PROVE UNCHANGED row
    BY <2>4 DEF RecordMovement, EmitLow
  <2>5. ASSUME NEW w \in Worker, NEW i \in Item, AdjustRead(w, i) PROVE UNCHANGED row
    BY <2>5 DEF AdjustRead
  <2>6. CASE UNCHANGED vars
    BY <1>3, <2>6 DEF vars
  <2> QED
    BY <1>1, <1>2, <1>3, <2>1, <2>2, <2>3, <2>4, <2>5, <2>6 DEF Next, Step
<1> QED
  BY <1>4, Invariance, PTL DEF Spec, NoOversell
-----------------------------------------------------------------------------
\* Low-stock events against the stock as committed.

\* What a movement, or several added up, gives to the available count.
Gain(m) == m.quantity - m.reserved

Lowers(w, i) ==
    /\ Gain(pending[w][i]) <= 0
    /\ \A k \in DOMAIN todo[w] : todo[w][k].item = i => Gain(todo[w][k]) <= 0

Raises(w, i) ==
    /\ Gain(pending[w][i]) >= 0
    /\ \A k \in DOMAIN todo[w] : todo[w][k].item = i => Gain(todo[w][k]) >= 0

\* No call lowers an item's available count and raises it again, so that what a
\* movement crosses stays crossed until the commit.
OneWay == \A w \in Worker, i \in Item : Lowers(w, i) \/ Raises(w, i)

\* The events a transaction has queued, before its commit, are those of the rows
\* that it takes to the threshold or below.
LowIsCrossed ==
    \A w \in Worker, i \in Item : mode[w] # "emitting" =>
        (i \in low[w] <=> /\ i \in held[w] /\ Threshold > 0
                          /\ Stock!Available(row[i]) > Threshold
                          /\ Stock!Available(draft[w][i]) <= Threshold)

CrossInv == OneWay /\ LowIsCrossed

OneWayCall(moves) ==
    \A i \in Item :
        \/ \A k \in DOMAIN moves : moves[k].item = i => Gain(moves[k]) <= 0
        \/ \A k \in DOMAIN moves : moves[k].item = i => Gain(moves[k]) >= 0

\* Calls reserve, release, sell or receive: each moves available counts one way.
LEMMA CallsOneWay ==
    ASSUME NEW moves \in Calls
    PROVE  OneWayCall(moves)
<1>1. ASSUME NEW l \in OrderLines
      PROVE  \A k \in DOMAIN l : l[k].quantity \in Nat
  <2> DEFINE S == [item : Item, quantity : Nat \ {0}]
  <2>1. l \in Seq(S)
    BY ConstantsAssumption
  <2>2. \A s \in S : s.quantity \in Nat
    OBVIOUS
  <2> HIDE DEF S
  <2> QED
    BY <2>1, <2>2, LenProperties
<1>2. ASSUME NEW l \in OrderLines, moves = Reserve(l)
      PROVE  \A k \in DOMAIN moves : Gain(moves[k]) <= 0
  BY <1>1, <1>2 DEF Reserve, Gain
<1>3. ASSUME NEW l \in OrderLines, moves = Release(l)
      PROVE  \A k \in DOMAIN moves : Gain(moves[k]) >= 0
  BY <1>1, <1>3 DEF Release, Gain
<1>4. ASSUME NEW l \in OrderLines, moves = ConsumeSale(l)
      PROVE  \A k \in DOMAIN moves : Gain(moves[k]) <= 0
  BY <1>1, <1>4 DEF ConsumeSale, Gain
<1>5. ASSUME NEW i \in Item, moves = ReceiveStock(i, 1)
      PROVE  \A k \in DOMAIN moves : Gain(moves[k]) >= 0
  BY <1>5 DEF ReceiveStock, Gain
<1>6. ASSUME NEW i \in Item, NEW j \in Item, i # j, moves = CompleteTransfer(i, j, 1)
      PROVE  OneWayCall(moves)
  <2>1. /\ DOMAIN moves = {1, 2}
        /\ moves[1].item = i /\ Gain(moves[1]) = -1
        /\ moves[2].item = j /\ Gain(moves[2]) = 1
    BY <1>6 DEF CompleteTransfer, Gain
  <2> QED
    BY <1>6, <2>1 DEF OneWayCall
<1> QED
  BY <1>2, <1>3, <1>4, <1>5, <1>6 DEF Calls, OneWayCall

\* An adjustment is one movement.
LEMMA AdjustmentOneWay ==
    ASSUME NEW i \in Item, NEW n \in Int
    PROVE  OneWayCall(ReceiveStock(i, n))
<1>1. /\ DOMAIN ReceiveStock(i, n) = {1}
      /\ Gain(ReceiveStock(i, n)[1]) = n
  BY DEF ReceiveStock, Gain
<1> QED
  BY <1>1 DEF OneWayCall

\* A transaction that a step leaves alone, the rows it has locked included, and
\* one that a step ends.
Undisturbed(v) ==
    /\ todo'[v] = todo[v] /\ pending'[v] = pending[v] /\ held'[v] = held[v]
    /\ draft'[v] = draft[v] /\ low'[v] = low[v]
    /\ mode'[v] # "emitting" => mode[v] # "emitting"
    /\ \A i \in held[v] : row'[i] = row[i]

Ended(v) ==
    /\ todo'[v] = <<>> /\ held'[v] = {}
    /\ low'[v] = {} \/ mode'[v] = "emitting"
    /\ \A i \in Item : pending'[v][i] = Stock!Zero

\* Steps that leave a transaction alone, or end it with nothing in hand.
LEMMA CrossKept ==
    ASSUME CrossInv, \A v \in Worker : Undisturbed(v) \/ Ended(v)
    PROVE  CrossInv'
<1>1. OneWay'
  <2> SUFFICES ASSUME NEW v \in Worker, NEW i \in Item
               PROVE  Lowers(v, i)' \/ Raises(v, i)'
    BY DEF OneWay
  <2>1. CASE Undisturbed(v)
    BY <2>1 DEF CrossInv, OneWay, Lowers, Raises, Undisturbed
  <2>2. CASE Ended(v)
    BY <2>2 DEF Ended, Lowers, Gain, Stock!Zero
  <2> QED
    BY <2>1, <2>2
<1>2. LowIsCrossed'
  <2> SUFFICES ASSUME NEW v \in Worker, NEW i \in Item, mode'[v] # "emitting"
               PROVE  i \in low'[v] <=>
                        /\ i \in held'[v] /\ Threshold > 0
                        /\ Stock!Available(row'[i]) > Threshold
                        /\ Stock!Available(draft'[v][i]) <= Threshold
    BY DEF LowIsCrossed, Stock!Available
  <2>1. CASE Undisturbed(v)
    BY <2>1 DEF CrossInv, LowIsCrossed, Undisturbed
  <2>2. CASE Ended(v)
    BY <2>2 DEF Ended
  <2> QED
    BY <2>1, <2>2
<1> QED
  BY <1>1, <1>2 DEF CrossInv

\* A call that begins has queued nothing.
LEMMA BeginCross ==
    ASSUME IInv, CrossInv, NEW w \in Worker, held[w] = {}, mode[w] # "emitting",
           NEW moves, OneWayCall(moves), Begin(w, moves)
    PROVE  CrossInv'
<1>1. /\ todo' = [todo EXCEPT ![w] = moves]
      /\ mode' = [mode EXCEPT ![w] = "running"]
      /\ UNCHANGED <<row, held, draft, pending, low>>
  BY DEF Begin
<1>2. OneWay'
  <2> SUFFICES ASSUME NEW v \in Worker, NEW i \in Item
               PROVE  Lowers(v, i)' \/ Raises(v, i)'
    BY DEF OneWay
  <2>1. CASE v = w
    <3>1. pending'[v][i] = Stock!Zero /\ todo'[v] = moves
      BY <1>1, <2>1 DEF IInv, DraftIsRow, TypeOK
    <3>2. Gain(pending'[v][i]) = 0
      BY <3>1 DEF Gain, Stock!Zero
    <3> QED
      BY <3>1, <3>2 DEF OneWayCall, Lowers, Raises, Gain
  <2>2. CASE v # w
    BY <1>1, <2>2 DEF CrossInv, OneWay, Lowers, Raises, IInv, TypeOK
  <2> QED
    BY <2>1, <2>2
<1>3. LowIsCrossed'
  <2>1. \A v \in Worker : mode'[v] # "emitting" => mode[v] # "emitting"
    BY <1>1 DEF IInv, TypeOK
  <2> QED
    BY <1>1, <2>1 DEF CrossInv, LowIsCrossed
<1> QED
  BY <1>2, <1>3 DEF CrossInv

\* A rollback drops the queued events with the movements.
LEMMA RollbackCross ==
    ASSUME IInv, CrossInv, NEW w \in Worker, Rollback(w)
    PROVE  CrossInv'
<1>1. Ended(w)
  BY DEF Rollback, Close, Ended, IInv, TypeOK
<1>2. \A v \in Worker : v # w => Undisturbed(v)
  BY DEF Rollback, Close, Undisturbed, IInv, TypeOK
<1> QED
  BY <1>1, <1>2, CrossKept

\* A commit changes rows that it alone has locked.
LEMMA CommitCross ==
    ASSUME IInv, CrossInv, NEW w \in Worker, Commit(w)
    PROVE  CrossInv'
<1>1. Committed(w) /\ todo[w] = <<>> /\ row' = [i \in Item |-> Locked(w, i)]
  BY DEF Commit
<1>2. Ended(w)
  BY <1>1 DEF Committed, Ended, IInv, TypeOK
<1>3. ASSUME NEW v \in Worker, v # w PROVE Undisturbed(v)
  <2>1. \A i \in held[v] : i \in Item /\ i \notin held[w]
    BY <1>3 DEF IInv, TypeOK, Exclusive
  <2>2. \A i \in held[v] : row'[i] = row[i]
    BY <1>1, <2>1 DEF Locked
  <2> QED
    BY <1>1, <1>3, <2>2 DEF Committed, Undisturbed, IInv, TypeOK
<1> QED
  BY <1>2, <1>3, CrossKept

\* An emission takes what it emits off the queue, and ends with the last.
LEMMA EmitCross ==
    ASSUME IInv, CrossInv, NEW w \in Worker, EmitLow(w)
    PROVE  CrossInv'
<1>1. held[w] = {} /\ todo[w] = <<>> /\ \A i \in Item : pending[w][i] = Stock!Zero
  BY DEF EmitLow, IInv, Quiet, DraftIsRow
<1>2. low'[w] = {} \/ mode'[w] = "emitting"
  BY DEF EmitLow, IInv, TypeOK
<1>3. Ended(w)
  BY <1>1, <1>2 DEF EmitLow, Ended
<1>4. \A v \in Worker : v # w => Undisturbed(v)
  BY DEF EmitLow, Undisturbed, IInv, TypeOK
<1> QED
  BY <1>3, <1>4, CrossKept

\* An import waits for the lock of the row, and so moves no row in a draft.
LEMMA SetStockCross ==
    ASSUME IInv, CrossInv, NEW i \in Imported, NEW n \in ImportQuantity, SetStock(i, n)
    PROVE  CrossInv'
<1>1. /\ row' = [row EXCEPT ![i].quantity = n] /\ UNCHANGED txVars
      /\ \A v \in Worker : i \notin held[v]
  BY DEF SetStock
<1>2. ASSUME NEW v \in Worker PROVE Undisturbed(v)
  <2>1. \A j \in held[v] : j \in Item /\ j # i
    BY <1>1 DEF IInv, TypeOK
  <2>2. \A j \in held[v] : row'[j] = row[j]
    BY <1>1, <2>1 DEF IInv, TypeOK
  <2> QED
    BY <1>1, <2>2 DEF txVars, Undisturbed
<1> QED
  BY <1>2, CrossKept

\* What one more movement on a row makes of its available count, in numbers:
\* a is the committed count, p what the transaction did to it so far, g what the
\* movement does.
LEMMA Crossing ==
    ASSUME NEW a \in Int, NEW p \in Int, NEW g \in Int, NEW T \in Int,
           (p <= 0 /\ g <= 0) \/ (p >= 0 /\ g >= 0)
    PROVE  (a > T /\ a + p <= T) \/ (a + p + g <= T /\ a + p > T)
             <=> a > T /\ a + p + g <= T
OBVIOUS

\* A movement queues its event at the crossing and not again after it.
LEMMA RecordCross ==
    ASSUME IInv, CrossInv, NEW w \in Worker, RecordMovement(w)
    PROVE  CrossInv'
<1> USE DEF IInv
<1> DEFINE m == Head(todo[w])
           r == Locked(w, m.item)
<1>1. /\ m \in Movement
      /\ \A k \in DOMAIN Tail(todo[w]) :
            k + 1 \in DOMAIN todo[w] /\ Tail(todo[w])[k] = todo[w][k + 1]
      /\ 1 \in DOMAIN todo[w] /\ m = todo[w][1]
  <2> HIDE DEF m
  <2>1. todo[w] \in Seq(Movement) /\ todo[w] # <<>>
    BY DEF RecordMovement, TypeOK
  <2>2. m = Head(todo[w])
    BY DEF m
  <2> HIDE DEF Movement
  <2> QED
    BY <2>1, <2>2, HeadTailProperties, LenProperties
<1>2. m.item \in Item /\ m.quantity \in Int /\ m.reserved \in Int
  BY <1>1 DEF Movement
<1>3. /\ held' = [held EXCEPT ![w] = @ \cup {m.item}]
      /\ draft' = [draft EXCEPT ![w][m.item] = Stock!Shift(r, m)]
      /\ pending' = [pending EXCEPT ![w][m.item] = Stock!Shift(@, m)]
      /\ low' = [low EXCEPT ![w] = IF BecomesLow(r, m) THEN @ \cup {m.item} ELSE @]
      /\ todo' = [todo EXCEPT ![w] = Tail(@)]
      /\ row' = row /\ mode' = mode /\ mode[w] = "running"
  BY DEF RecordMovement
<1>4. r = IF m.item \in held[w] THEN draft[w][m.item] ELSE row[m.item]
  BY DEF Locked
<1> HIDE DEF m, r
<1>5. \A v \in Worker : v # w =>
        /\ held'[v] = held[v] /\ draft'[v] = draft[v] /\ low'[v] = low[v]
        /\ pending'[v] = pending[v] /\ todo'[v] = todo[v]
  BY <1>3 DEF TypeOK
<1>6. /\ held'[w] = held[w] \cup {m.item} /\ todo'[w] = Tail(todo[w])
      /\ \A i \in Item : i # m.item => /\ draft'[w][i] = draft[w][i]
                                       /\ pending'[w][i] = pending[w][i]
      /\ draft'[w][m.item] = Stock!Shift(r, m)
      /\ pending'[w][m.item] = Stock!Shift(pending[w][m.item], m)
  BY <1>2, <1>3 DEF TypeOK
<1>7. /\ \A i \in Item : i # m.item => (i \in low'[w] <=> i \in low[w])
      /\ m.item \in low'[w] <=> m.item \in low[w] \/ BecomesLow(r, m)
  BY <1>2, <1>3 DEF TypeOK
<1> DEFINE g == Gain(m)
           p == Gain(pending[w][m.item])
           a == Stock!Available(row[m.item])
<1>8. /\ g \in Int /\ p \in Int /\ a \in Int /\ Threshold \in Int
      /\ Gain(pending'[w][m.item]) = p + g
      /\ Stock!Available(r) = a + p
      /\ Stock!Available(Stock!Shift(r, m)) = a + p + g
  <2>1. /\ pending[w][m.item] \in Stock!Counters /\ row[m.item] \in Stock!Counters
        /\ pending[w][m.item].quantity \in Int /\ pending[w][m.item].reserved \in Int
        /\ row[m.item].quantity \in Int /\ row[m.item].reserved \in Int
    BY <1>2 DEF TypeOK, Stock!Counters
  <2>2. r = Stock!Shift(row[m.item], pending[w][m.item])
    BY <1>2, <1>4, <2>1, ShiftFacts DEF DraftIsRow, Stock!Zero
  <2>3. /\ r.quantity = row[m.item].quantity + pending[w][m.item].quantity
        /\ r.reserved = row[m.item].reserved + pending[w][m.item].reserved
    BY <2>2 DEF Stock!Shift
  <2>4. /\ Stock!Shift(r, m).quantity = r.quantity + m.quantity
        /\ Stock!Shift(r, m).reserved = r.reserved + m.reserved
        /\ pending'[w][m.item].quantity = pending[w][m.item].quantity + m.quantity
        /\ pending'[w][m.item].reserved = pending[w][m.item].reserved + m.reserved
    BY <1>6 DEF Stock!Shift
  <2>5. Threshold \in Int
    BY ConstantsAssumption
  <2> QED
    BY <1>2, <2>1, <2>3, <2>4, <2>5 DEF Gain, Stock!Available
<1>9. (p <= 0 /\ g <= 0) \/ (p >= 0 /\ g >= 0)
  BY <1>1, <1>2 DEF CrossInv, OneWay, Lowers, Raises
<1>10. OneWay'
  <2> SUFFICES ASSUME NEW v \in Worker, NEW i \in Item
               PROVE  Lowers(v, i)' \/ Raises(v, i)'
    BY DEF OneWay
  <2>1. CASE v # w
    BY <1>5, <2>1 DEF CrossInv, OneWay, Lowers, Raises
  <2>2. CASE v = w
    <3>1. Lowers(w, i) \/ Raises(w, i)
      BY DEF CrossInv, OneWay
    <3>2. CASE i = m.item
      <4>1. CASE Lowers(w, i)
        <5>1. p <= 0 /\ g <= 0
          BY <1>1, <3>2, <4>1 DEF Lowers
        <5>2. Gain(pending'[w][i]) <= 0
          <6> HIDE DEF p, g
          <6> QED
            BY <1>8, <3>2, <5>1
        <5>3. \A k \in DOMAIN todo'[w] :
                todo'[w][k].item = i => Gain(todo'[w][k]) <= 0
          BY <1>1, <1>6, <4>1 DEF Lowers
        <5> QED
          BY <2>2, <5>2, <5>3 DEF Lowers, Gain
      <4>2. CASE Raises(w, i)
        <5>1. p >= 0 /\ g >= 0
          BY <1>1, <3>2, <4>2 DEF Raises
        <5>2. Gain(pending'[w][i]) >= 0
          <6> HIDE DEF p, g
          <6> QED
            BY <1>8, <3>2, <5>1
        <5>3. \A k \in DOMAIN todo'[w] :
                todo'[w][k].item = i => Gain(todo'[w][k]) >= 0
          BY <1>1, <1>6, <4>2 DEF Raises
        <5> QED
          BY <2>2, <5>2, <5>3 DEF Raises, Gain
      <4> QED
        BY <3>1, <4>1, <4>2
    <3>3. CASE i # m.item
      <4>1. pending'[w][i] = pending[w][i]
        BY <1>6, <3>3
      <4>2. \A k \in DOMAIN todo'[w] :
              k + 1 \in DOMAIN todo[w] /\ todo'[w][k] = todo[w][k + 1]
        BY <1>1, <1>6
      <4>3. Lowers(w, i) => Lowers(w, i)'
        BY <4>1, <4>2 DEF Lowers, Gain
      <4>4. Raises(w, i) => Raises(w, i)'
        BY <4>1, <4>2 DEF Raises, Gain
      <4> QED
        BY <2>2, <3>1, <4>3, <4>4
    <3> QED
      BY <3>2, <3>3
  <2> QED
    BY <2>1, <2>2
<1>11. LowIsCrossed'
  <2> SUFFICES ASSUME NEW v \in Worker, NEW i \in Item, mode[v] # "emitting"
               PROVE  i \in low'[v] <=>
                        /\ i \in held'[v] /\ Threshold > 0
                        /\ Stock!Available(row[i]) > Threshold
                        /\ Stock!Available(draft'[v][i]) <= Threshold
    BY <1>3 DEF LowIsCrossed, Stock!Available
  <2>1. CASE v # w
    BY <1>5, <2>1 DEF CrossInv, LowIsCrossed
  <2>2. CASE v = w /\ i # m.item
    BY <1>6, <1>7, <2>2 DEF CrossInv, LowIsCrossed
  <2>3. CASE v = w /\ i = m.item
    <3>1. m.item \in low[w] <=> Threshold > 0 /\ a > Threshold /\ a + p <= Threshold
      <4>1. CASE m.item \in held[w]
        <5>1. Stock!Available(draft[w][m.item]) = a + p
          BY <1>4, <1>8, <4>1
        <5> QED
          BY <1>2, <1>3, <4>1, <5>1 DEF CrossInv, LowIsCrossed
      <4>2. CASE m.item \notin held[w]
        <5>1. p = 0
          BY <1>2, <4>2 DEF DraftIsRow, Gain, Stock!Zero
        <5>2. m.item \notin low[w]
          BY <1>2, <1>3, <4>2 DEF CrossInv, LowIsCrossed
        <5> HIDE DEF p, a
        <5> QED
          BY <1>8, <5>1, <5>2
      <4> QED
        BY <4>1, <4>2
    <3>2. BecomesLow(r, m) <=> /\ Threshold > 0 /\ a + p + g <= Threshold
                               /\ a + p > Threshold
      <4>1. a + p + g <= Threshold /\ a + p > Threshold
              => m.quantity < 0 \/ m.reserved > 0
        <5>1. a + p + g <= Threshold /\ a + p > Threshold => g < 0
          <6> HIDE DEF a, p, g
          <6> QED
            BY <1>8
        <5>2. g < 0 => m.quantity < 0 \/ m.reserved > 0
          BY <1>2 DEF Gain
        <5> QED
          BY <5>1, <5>2
      <4> QED
        BY <1>8, <4>1 DEF BecomesLow
    <3>3. (a > Threshold /\ a + p <= Threshold)
            \/ (a + p + g <= Threshold /\ a + p > Threshold)
          <=> a > Threshold /\ a + p + g <= Threshold
      <4> HIDE DEF a, p, g
      <4> QED
        BY <1>8, <1>9, Crossing
    <3>4. Stock!Available(draft'[w][m.item]) = a + p + g
      BY <1>6, <1>8
    <3> QED
      BY <1>6, <1>7, <2>3, <3>1, <3>2, <3>3, <3>4
  <2> QED
    BY <2>1, <2>2, <2>3
<1> QED
  BY <1>10, <1>11 DEF CrossInv

\* Every step keeps the queued events at the crossing.
LEMMA NextCross == IInv /\ CrossInv /\ [Next]_vars => CrossInv'
<1> SUFFICES ASSUME IInv, CrossInv, [Next]_vars PROVE CrossInv'
  OBVIOUS
<1>1. ASSUME NEW w \in Worker, Call(w) PROVE CrossInv'
  <2>1. PICK moves \in Calls : Begin(w, moves)
    BY <1>1 DEF Call
  <2>2. held[w] = {} /\ mode[w] # "emitting"
    BY <1>1 DEF Call, IInv, Quiet
  <2> QED
    BY <2>1, <2>2, CallsOneWay, BeginCross
<1>2. ASSUME NEW w \in Worker, NEW n \in 0..MaxStock, AdjustStock(w, n) PROVE CrossInv'
  <2>1. PICK s \in seen[w] : \/ n = s.quantity /\ Rollback(w)
                             \/ n # s.quantity
                                  /\ Begin(w, ReceiveStock(s.item, n - s.quantity))
    BY <1>2 DEF AdjustStock
  <2>2. s.item \in Item /\ n - s.quantity \in Int
    <3>1. s \in [item : Item, quantity : Int]
      BY DEF IInv, TypeOK
    <3> QED
      BY <3>1, ConstantsAssumption
  <2>3. held[w] = {} /\ mode[w] # "emitting"
    BY <1>2 DEF AdjustStock, IInv, Quiet
  <2>4. OneWayCall(ReceiveStock(s.item, n - s.quantity))
    BY <2>2, AdjustmentOneWay
  <2> QED
    BY <2>1, <2>3, <2>4, BeginCross, RollbackCross
<1>3. ASSUME NEW w \in Worker, Refuse(w) \/ DeadlockAbort(w) \/ Crash(w) PROVE CrossInv'
  BY <1>3, RollbackCross DEF Refuse, DeadlockAbort, Crash
<1>4. ASSUME NEW w \in Worker, NEW i \in Item, AdjustRead(w, i) PROVE CrossInv'
  <2>1. \A v \in Worker : Undisturbed(v)
    BY <1>4 DEF AdjustRead, Undisturbed, IInv, TypeOK
  <2> QED
    BY <2>1, CrossKept
<1>5. CASE UNCHANGED vars
  <2>1. \A v \in Worker : Undisturbed(v)
    BY <1>5 DEF vars, Undisturbed
  <2> QED
    BY <2>1, CrossKept
<1> QED
  BY <1>1, <1>2, <1>3, <1>4, <1>5, RecordCross, CommitCross, EmitCross,
     SetStockCross DEF Next, Step

\* What a step that owes and emits nothing, and keeps the ledger, shows.
Quietly == /\ alerts' = {} /\ ledger' = ledger
           /\ \A w \in Worker : Owed(w)' = Owed(w)

\* services.py:71-84: a commit owes the low-stock events of exactly the items
\* that it takes from above the threshold to it or below, for any orders (with
\* lines that repeat an item), workers and thresholds, and a rollback owes none;
\* what is owed is emitted, and once, unless its worker is killed before that.
THEOREM AlertsExact == Spec => AlertsOnCrossing
<1> DEFINE Crossed ==
             {i \in Item : /\ ledger'[i] # ledger[i] /\ Threshold > 0
                           /\ Stock!Available(row[i]) > Threshold
                           /\ Stock!Available(row'[i]) <= Threshold}
           Owes == \A i \in Item :
                     (\E w \in Worker : i \in Owed(w)' /\ i \notin Owed(w))
                       <=> i \in Crossed
           Emits == \A i \in alerts' :
                      \E w \in Worker : i \in Owed(w) /\ i \notin Owed(w)'
           Loses == \A w \in Worker : Owed(w) \subseteq Owed(w)' \cup alerts' \/ Crash(w)
<1>1. Init => CrossInv
  <2> SUFFICES ASSUME Init PROVE CrossInv
    OBVIOUS
  <2>1. OneWay
    <3> SUFFICES ASSUME NEW w \in Worker, NEW i \in Item PROVE Lowers(w, i)
      BY DEF OneWay
    <3>1. todo[w] = <<>> /\ pending[w][i] = Stock!Zero
      BY DEF Init
    <3> QED
      BY <3>1 DEF Lowers, Gain, Stock!Zero
  <2>2. LowIsCrossed
    BY DEF Init, LowIsCrossed
  <2> QED
    BY <2>1, <2>2 DEF CrossInv
<1>2. IInv /\ CrossInv /\ [Next]_vars => CrossInv'
  BY NextCross
<1>3. ASSUME IInv, CrossInv, NEW w \in Worker, Commit(w)
      PROVE  low[w] = Crossed
  <2>1. /\ low[w] \subseteq Item /\ mode[w] # "emitting"
        /\ row' = [i \in Item |-> Locked(w, i)]
        /\ ledger' = [i \in Item |-> Stock!Shift(ledger[i], pending[w][i])]
    BY <1>3 DEF Commit, IInv, TypeOK
  <2>2. ASSUME NEW i \in Item PROVE i \in low[w] <=> i \in Crossed
    <3>1. /\ row[i] \in Stock!Counters /\ ledger[i] \in Stock!Counters
          /\ pending[w][i] \in Stock!Counters
      BY <1>3 DEF IInv, TypeOK
    <3>2. CASE i \in held[w]
      <4>1. row'[i] = draft[w][i] /\ draft[w][i] = Stock!Shift(row[i], pending[w][i])
        BY <1>3, <2>1, <3>2 DEF Locked, IInv, DraftIsRow
      <4>2. ledger'[i] = Stock!Shift(ledger[i], pending[w][i])
        BY <2>1
      <4>3. ledger'[i] = ledger[i] => row'[i] = row[i]
        <5> DEFINE d == pending[w][i]
                   l == ledger[i]
                   c == row[i]
        <5>1. /\ l.quantity \in Int /\ l.reserved \in Int
              /\ d.quantity \in Int /\ d.reserved \in Int
              /\ c = [quantity |-> c.quantity, reserved |-> c.reserved]
              /\ c.quantity \in Int /\ c.reserved \in Int
          BY <3>1 DEF Stock!Counters
        <5>2. Stock!Shift(l, d) = l => d.quantity = 0 /\ d.reserved = 0
          <6> HIDE DEF d, l, c
          <6> SUFFICES ASSUME Stock!Shift(l, d) = l
                       PROVE  d.quantity = 0 /\ d.reserved = 0
            OBVIOUS
          <6>1. /\ l.quantity = l.quantity + d.quantity
                /\ l.reserved = l.reserved + d.reserved
            BY DEF Stock!Shift
          <6> QED
            BY <5>1, <6>1
        <5>3. d.quantity = 0 /\ d.reserved = 0 => Stock!Shift(c, d) = c
          <6> HIDE DEF d, l, c
          <6> QED
            BY <5>1 DEF Stock!Shift
        <5> QED
          BY <4>1, <4>2, <5>2, <5>3
      <4>4. Stock!Available(row[i]) \in Int /\ Threshold \in Int
        BY <3>1, ConstantsAssumption DEF Stock!Available, Stock!Counters
      <4>5. i \in low[w] <=> /\ Threshold > 0
                             /\ Stock!Available(row[i]) > Threshold
                             /\ Stock!Available(row'[i]) <= Threshold
        BY <1>3, <2>1, <3>2, <4>1 DEF CrossInv, LowIsCrossed
      <4> QED
        BY <4>3, <4>4, <4>5
    <3>3. CASE i \notin held[w]
      <4>1. row'[i] = row[i] /\ i \notin low[w]
        BY <1>3, <2>1, <3>3 DEF Locked, CrossInv, LowIsCrossed
      <4>2. Stock!Available(row[i]) \in Int /\ Threshold \in Int
        BY <3>1, ConstantsAssumption DEF Stock!Available, Stock!Counters
      <4> QED
        BY <4>1, <4>2
    <3> QED
      BY <3>2, <3>3
  <2> HIDE DEF Crossed
  <2>3. Crossed \subseteq Item
    BY DEF Crossed
  <2> QED
    BY <2>1, <2>2, <2>3
<1>4. ASSUME IInv, CrossInv, NEW w \in Worker, Commit(w)
      PROVE  Owes /\ Emits /\ Loses
  <2>1. Committed(w) /\ mode[w] = "running"
    BY <1>4 DEF Commit
  <2>2. alerts' = {} /\ Owed(w) = {} /\ Owed(w)' = low[w]
    BY <1>4, <2>1 DEF Committed, Owed, IInv, TypeOK
  <2>3. \A v \in Worker : v # w => Owed(v)' = Owed(v)
    BY <1>4, <2>1 DEF Committed, Owed, IInv, TypeOK
  <2>4. low[w] = Crossed
    BY <1>3, <1>4
  <2> HIDE DEF Crossed
  <2>5. Owes
    BY <2>2, <2>3, <2>4
  <2> QED
    BY <2>2, <2>3, <2>5
<1>5. ASSUME IInv, NEW w \in Worker, EmitLow(w)
      PROVE  Owes /\ Emits /\ Loses
  <2>1. PICK i \in low[w] :
          /\ alerts' = {i}
          /\ low' = [low EXCEPT ![w] = @ \ {i}]
          /\ mode' = [mode EXCEPT ![w] = IF low[w] = {i} THEN "idle" ELSE @]
    BY <1>5 DEF EmitLow
  <2>2. Owed(w) = low[w] /\ Owed(w)' = low[w] \ {i}
    BY <1>5, <2>1 DEF EmitLow, Owed, IInv, TypeOK
  <2>3. \A v \in Worker : v # w => Owed(v)' = Owed(v)
    BY <1>5, <2>1 DEF Owed, IInv, TypeOK
  <2>4. Crossed = {}
    BY <1>5 DEF EmitLow
  <2> HIDE DEF Crossed
  <2> QED
    BY <2>1, <2>2, <2>3, <2>4
<1>6. ASSUME NEW w \in Worker, Crash(w), IInv
      PROVE  Owes /\ Emits /\ Loses
  <2>1. alerts' = {} /\ ledger' = ledger /\ Owed(w)' = {}
    BY <1>6 DEF Crash, Rollback, Close, Owed, IInv, TypeOK
  <2>2. \A v \in Worker : v # w => Owed(v)' = Owed(v)
    BY <1>6 DEF Crash, Rollback, Close, Owed, IInv, TypeOK
  <2>3. Crossed = {}
    BY <2>1
  <2> HIDE DEF Crossed
  <2> QED
    BY <1>6, <2>1, <2>2, <2>3
<1>7. ASSUME Quietly
      PROVE  Owes /\ Emits /\ Loses
  <2>1. Crossed = {}
    BY <1>7 DEF Quietly
  <2> HIDE DEF Crossed
  <2> QED
    BY <1>7, <2>1 DEF Quietly
<1>8. ASSUME IInv, NEW w \in Worker, mode[w] # "emitting",
             Rollback(w) \/ (\E moves : Begin(w, moves)) \/ RecordMovement(w)
               \/ (\E i \in Item : AdjustRead(w, i))
      PROVE  Quietly
  <2>1. alerts' = {} /\ ledger' = ledger
    BY <1>8 DEF Rollback, Begin, RecordMovement, AdjustRead
  <2>2. mode'[w] # "emitting"
    BY <1>8 DEF Rollback, Close, Begin, RecordMovement, AdjustRead, IInv, TypeOK
  <2>3. \A v \in Worker : v # w => mode'[v] = mode[v] /\ low'[v] = low[v]
    <3>1. CASE Rollback(w)
      BY <3>1 DEF Rollback, Close, IInv, TypeOK
    <3>2. CASE RecordMovement(w)
      BY <3>2 DEF RecordMovement, IInv, TypeOK
    <3> QED
      BY <1>8, <3>1, <3>2 DEF Begin, AdjustRead, IInv, TypeOK
  <2> QED
    BY <1>8, <2>1, <2>2, <2>3 DEF Quietly, Owed
<1>9. IInv /\ CrossInv /\ [Next]_vars => ((Owes /\ Emits /\ Loses) \/ UNCHANGED vars)
  <2> SUFFICES ASSUME IInv, CrossInv, Next PROVE Owes /\ Emits /\ Loses
    OBVIOUS
  <2> HIDE DEF Crossed, Owes, Emits, Loses
  <2>1. ASSUME NEW w \in Worker, Call(w) PROVE Quietly
    BY <1>8, <2>1 DEF Call
  <2>2. ASSUME NEW w \in Worker, NEW n \in 0..MaxStock, AdjustStock(w, n)
        PROVE  Quietly
    BY <1>8, <2>2 DEF AdjustStock
  <2>3. ASSUME NEW w \in Worker, Refuse(w) \/ DeadlockAbort(w) PROVE Quietly
    <3>1. mode[w] = "running" /\ Rollback(w)
      BY <2>3 DEF Refuse, DeadlockAbort, WaitsFor
    <3> QED
      BY <1>8, <3>1
  <2>4. ASSUME NEW w \in Worker, RecordMovement(w) PROVE Quietly
    <3>1. mode[w] = "running"
      BY <2>4 DEF RecordMovement
    <3> QED
      BY <1>8, <2>4, <3>1
  <2>5. ASSUME NEW w \in Worker, NEW i \in Item, AdjustRead(w, i)
        PROVE  Quietly
    <3>1. mode[w] = "idle"
      BY <2>5 DEF AdjustRead
    <3> QED
      BY <1>8, <2>5, <3>1
  <2>6. ASSUME NEW i \in Imported, NEW n \in ImportQuantity, SetStock(i, n)
        PROVE  Quietly
    BY <2>6 DEF SetStock, txVars, Quietly, Owed
  <2> QED
    BY <1>4, <1>5, <1>6, <1>7, <2>1, <2>2, <2>3, <2>4, <2>5, <2>6 DEF Next, Step
<1>10. IInv /\ CrossInv /\ [Next]_vars =>
         (\/ UNCHANGED vars
          \/ /\ \A i \in Item :
                  (\E w \in Worker : i \in Owed(w)' /\ i \notin Owed(w))
                    <=> /\ ledger'[i] # ledger[i] /\ Threshold > 0
                        /\ Stock!Available(row[i]) > Threshold
                        /\ Stock!Available(row'[i]) <= Threshold
             /\ Emits /\ Loses)
  <2>1. \A i \in Item : i \in Crossed <=> /\ ledger'[i] # ledger[i] /\ Threshold > 0
                                          /\ Stock!Available(row[i]) > Threshold
                                          /\ Stock!Available(row'[i]) <= Threshold
    OBVIOUS
  <2> HIDE DEF Crossed, Emits, Loses
  <2> QED
    BY <1>9, <2>1
<1> QED
  BY <1>1, <1>2, <1>10, Invariance, PTL DEF Spec, AlertsOnCrossing
=============================================================================
