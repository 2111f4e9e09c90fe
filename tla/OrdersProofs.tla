---------------------------- MODULE OrdersProofs ----------------------------
(***************************************************************************)
(* Proofs about Orders for any orders, items, quantities and requests: type *)
(* correctness, what stale objects cannot break, what they can (the drift   *)
(* of reserved counts), and that the orders use the stock as StockLedger,   *)
(* the abstract specification of apps/inventory, lets them.                 *)
(***************************************************************************)
EXTENDS Orders, SumProofs

\* Nothing is known of an order before its cart is checked out.
UnplacedIsBlank ==
    \A o \in Order : status[o] = "none" =>
        /\ ~stockReserved[o] /\ ~fulfilled[o] /\ ~paid[o]
        /\ \A i \in Item : booked[o][i] = 0

FulfilledHoldsNothing == \A o \in Order : fulfilled[o] => ~stockReserved[o]

\* What a loaded object may say although the database has moved on: it may still
\* show the flag or "pending", it never lacks what the database still has.
LoadedInPast ==
    \A r \in Request : request[r].op # "idle" =>
        LET j == request[r]
        IN  /\ status[j.order] # "none"
            /\ j.op = "transition" /\ ~j.stockReserved => ~stockReserved[j.order]
            /\ j.op # "fulfil" /\ j.status # "pending" => status[j.order] # "pending"
            /\ j.op = "fulfil" /\ ~j.outstanding => fulfilled[j.order]

FoundInPast ==
    \A e \in batch : /\ status[e.order] # "none"
                     /\ ~e.stockReserved => ~stockReserved[e.order]

\* TypeOK without the requests and the sweep's batch.
StoreTyped ==
    /\ row \in [Item -> Counters] /\ ledger \in [Item -> Counters]
    /\ status \in [Order -> Status \cup {"none"}] /\ paid \in [Order -> BOOLEAN]
    /\ stockReserved \in [Order -> BOOLEAN] /\ fulfilled \in [Order -> BOOLEAN]
    /\ providers \in [Order -> SUBSET {"gateway", "upi", "cod"}]
    /\ aged \in [Order -> BOOLEAN] /\ booked \in [Order -> [Item -> Int]]

StoreInv == /\ StoreTyped /\ UnplacedIsBlank /\ FulfilledHoldsNothing
            /\ HoldMatchesFlag /\ ClosedHoldsNothing /\ PaidNeverPending

IInv == TypeOK /\ StoreInv /\ LoadedInPast /\ FoundInPast

\* No step un-places an order, makes it pending again, sets its flag again or
\* takes back its fulfilment.
Forward ==
    \A o \in Order :
        /\ status[o] # "none" => status'[o] # "none"
        /\ status[o] \notin {"none", "pending"} => status'[o] # "pending"
        /\ status[o] # "none" /\ ~stockReserved[o] => ~stockReserved'[o]
        /\ fulfilled[o] => fulfilled'[o]
-----------------------------------------------------------------------------
\* No transition leads back to pending.
LEMMA TransitionsForward ==
    ASSUME NEW s \in Status, NEW t \in TRANSITIONS[s]
    PROVE  t \in Status \ {"pending"}
BY DEF TRANSITIONS, Status

\* The fields of a loaded object, by what it is for.
LEMMA JobFields ==
    ASSUME NEW j \in Job \cup {Idle}
    PROVE  /\ j.op \in {"idle", "transition", "pay", "cod", "fulfil"}
           /\ j.op # "idle" => j \in Job /\ j.order \in Order
           /\ j.op = "transition" =>
                j.to \in Target /\ j.status \in Status /\ j.stockReserved \in BOOLEAN
           /\ j.op \in {"pay", "cod"} => j.status \in Status
           /\ j.op = "fulfil" => j.outstanding \in BOOLEAN
BY DEF Job, Idle

\* A batch of movements keeps the counters integers.
LEMMA MoveTyped ==
    ASSUME TypeOK, NEW o \in Order, NEW k \in Int, NEW l \in Int, Move(Lines(o, k, l))
    PROVE  row' \in [Item -> Counters] /\ ledger' \in [Item -> Counters]
<1>1. \A i \in Item : k * Qty[o][i] \in Int /\ l * Qty[o][i] \in Int
  BY QtyAssumption
<1>2. \A i \in Item : /\ Lines(o, k, l)[i].quantity \in Int
                      /\ Lines(o, k, l)[i].reserved \in Int
  BY <1>1 DEF Lines
<1>3. \A i \in Item : row[i] \in Counters /\ ledger[i] \in Counters
  BY DEF TypeOK
<1> QED
  BY <1>2, <1>3 DEF Move, Shift, Counters

\* What booking a multiple of an order's lines does to the books.
LEMMA BookEffect ==
    ASSUME TypeOK, NEW o \in Order, NEW l \in Int, Book(o, l)
    PROVE  /\ booked' \in [Order -> [Item -> Int]]
           /\ \A i \in Item : booked'[o][i] = booked[o][i] + l * Qty[o][i]
           /\ \A p \in Order : p # o => booked'[p] = booked[p]
<1>1. \A i \in Item : l * Qty[o][i] \in Int
  BY QtyAssumption
<1>2. booked[o] \in [Item -> Int]
  BY DEF TypeOK
<1> DEFINE new == [i \in Item |-> booked[o][i] + l * Qty[o][i]]
<1>3. new \in [Item -> Int] /\ \A i \in Item : new[i] = booked[o][i] + l * Qty[o][i]
  BY <1>1, <1>2
<1>4. booked' = [booked EXCEPT ![o] = new]
  BY DEF Book
<1> HIDE DEF new
<1> QED
  BY <1>3, <1>4 DEF TypeOK

\* Objects loaded before a forward step are still in the past after it.
LEMMA PastKept ==
    ASSUME TypeOK, LoadedInPast, Forward,
           \A r \in Request : request'[r] \in {request[r], Idle}
    PROVE  LoadedInPast'
<1> SUFFICES ASSUME NEW r \in Request, request'[r].op # "idle"
             PROVE  LET j == request[r]
                    IN  /\ status'[j.order] # "none"
                        /\ j.op = "transition" /\ ~j.stockReserved
                             => ~stockReserved'[j.order]
                        /\ j.op # "fulfil" /\ j.status # "pending"
                             => status'[j.order] # "pending"
                        /\ j.op = "fulfil" /\ ~j.outstanding => fulfilled'[j.order]
  BY DEF LoadedInPast, Idle
<1>1. request'[r] = request[r] /\ request[r].op # "idle"
  BY DEF Idle
<1>2. request[r].order \in Order
  BY <1>1, JobFields DEF TypeOK
<1> QED
  BY <1>1, <1>2 DEF LoadedInPast, Forward

\* ... and so are the objects the sweep found.
LEMMA FoundKept ==
    ASSUME TypeOK, FoundInPast, Forward, batch' \subseteq batch
    PROVE  FoundInPast'
<1>1. \A e \in batch : e.order \in Order
  BY DEF TypeOK, Found
<1> QED
  BY <1>1 DEF FoundInPast, Forward

\* A release, from a flag that may be stale the one way it can be stale, leaves
\* the order without stock and the books in keeping.
LEMMA ReleaseEffect ==
    ASSUME IInv, NEW o \in Order, status[o] # "none", NEW flag \in BOOLEAN,
           ~flag => ~stockReserved[o], ReleaseStock(o, flag)
    PROVE  /\ row' \in [Item -> Counters] /\ ledger' \in [Item -> Counters]
           /\ booked' \in [Order -> [Item -> Int]]
           /\ stockReserved' \in [Order -> BOOLEAN]
           /\ ~stockReserved'[o]
           /\ \A p \in Order : p # o => /\ stockReserved'[p] = stockReserved[p]
                                        /\ booked'[p] = booked[p]
           /\ HoldMatchesFlag'
<1> USE DEF IInv, StoreInv
<1>1. CASE ~flag
  <2>1. UNCHANGED <<row, ledger, booked, stockReserved>>
    BY <1>1 DEF ReleaseStock
  <2> QED
    BY <1>1, <2>1 DEF TypeOK, HoldMatchesFlag
<1>2. CASE flag
  <2>1. /\ Move(Lines(o, 0, -1)) /\ Book(o, -1)
        /\ stockReserved' = [stockReserved EXCEPT ![o] = FALSE]
    BY <1>2 DEF ReleaseStock
  <2>2. row' \in [Item -> Counters] /\ ledger' \in [Item -> Counters]
    BY <2>1, MoveTyped
  <2>3. /\ booked' \in [Order -> [Item -> Int]]
        /\ \A i \in Item : booked'[o][i] = booked[o][i] + (-1) * Qty[o][i]
        /\ \A p \in Order : p # o => booked'[p] = booked[p]
    BY <2>1, BookEffect
  <2>4. /\ stockReserved' \in [Order -> BOOLEAN]
        /\ ~stockReserved'[o]
        /\ \A p \in Order : p # o => stockReserved'[p] = stockReserved[p]
    BY <2>1 DEF TypeOK
  <2>5. \A i \in Item : booked'[o][i] <= 0
    BY <2>3, QtyAssumption DEF HoldMatchesFlag, TypeOK
  <2> QED
    BY <2>2, <2>3, <2>4, <2>5 DEF HoldMatchesFlag
<1> QED
  BY <1>1, <1>2
-----------------------------------------------------------------------------
\* transition_order goes forward and keeps the store in order, whoever calls it.
LEMMA TransitionEffect ==
    ASSUME IInv, NEW o \in Order, status[o] # "none", NEW flag \in BOOLEAN,
           ~flag => ~stockReserved[o], NEW from \in Status,
           from # "pending" => status[o] # "pending", NEW to,
           TransitionOrder(o, from, to, flag),
           UNCHANGED <<paid, fulfilled, providers, aged>>
    PROVE  StoreInv' /\ Forward
<1> USE DEF IInv, StoreInv
<1>1. to \in Status \ {"pending"} /\ status' = [status EXCEPT ![o] = to]
  BY TransitionsForward DEF TransitionOrder
<1>2. /\ row' \in [Item -> Counters] /\ ledger' \in [Item -> Counters]
      /\ booked' \in [Order -> [Item -> Int]]
      /\ stockReserved' \in [Order -> BOOLEAN]
      /\ to \in ReleaseOn => ~stockReserved'[o]
      /\ stockReserved'[o] => stockReserved[o]
      /\ \A p \in Order : p # o => /\ stockReserved'[p] = stockReserved[p]
                                   /\ booked'[p] = booked[p]
      /\ HoldMatchesFlag'
  <2>1. CASE to \in ReleaseOn
    <3>1. ReleaseStock(o, flag)
      BY <2>1 DEF TransitionOrder
    <3> QED
      BY <3>1, ReleaseEffect
  <2>2. CASE to \notin ReleaseOn
    <3>1. UNCHANGED <<row, ledger, booked, stockReserved>>
      BY <2>2 DEF TransitionOrder
    <3> QED
      BY <2>2, <3>1 DEF TypeOK, HoldMatchesFlag
  <2> QED
    BY <2>1, <2>2
<1>3. /\ status'[o] = to /\ \A p \in Order : p # o => status'[p] = status[p]
      /\ "none" \notin Status
  BY <1>1 DEF StoreTyped, Status
<1>4. StoreTyped'
  BY <1>1, <1>2 DEF StoreTyped
<1>5. UnplacedIsBlank'
  BY <1>1, <1>2, <1>3 DEF UnplacedIsBlank
<1>6. FulfilledHoldsNothing'
  BY <1>2 DEF FulfilledHoldsNothing, StoreTyped
<1>7. ClosedHoldsNothing'
  BY <1>2, <1>3 DEF ClosedHoldsNothing
<1>8. PaidNeverPending'
  BY <1>1, <1>3 DEF PaidNeverPending
<1>9. Forward
  BY <1>1, <1>2, <1>3 DEF Forward, StoreTyped
<1> QED
  BY <1>2, <1>4, <1>5, <1>6, <1>7, <1>8, <1>9

\* A step that leaves the orders and the stock alone.
LEMMA StoreKept ==
    ASSUME StoreInv, UNCHANGED <<row, ledger, status, paid, stockReserved, fulfilled, booked>>,
           providers' \in [Order -> SUBSET {"gateway", "upi", "cod"}],
           aged' \in [Order -> BOOLEAN]
    PROVE  StoreInv' /\ Forward
<1> USE DEF StoreInv
<1>1. StoreTyped'
  BY DEF StoreTyped
<1>2. (UnplacedIsBlank /\ FulfilledHoldsNothing /\ HoldMatchesFlag
         /\ ClosedHoldsNothing /\ PaidNeverPending)'
  BY DEF UnplacedIsBlank, FulfilledHoldsNothing, HoldMatchesFlag,
         ClosedHoldsNothing, PaidNeverPending
<1>3. Forward
  BY DEF Forward
<1> QED
  BY <1>1, <1>2, <1>3

\* The parts of the invariant make the whole.
LEMMA Assemble ==
    ASSUME StoreInv', LoadedInPast', FoundInPast',
           request' \in [Request -> Job \cup {Idle}], batch' \subseteq Found
    PROVE  IInv'
BY DEF IInv, StoreInv, StoreTyped, TypeOK

\* A forward step that only empties requests and the batch keeps the invariant.
LEMMA ForwardIInv ==
    ASSUME IInv, StoreInv', Forward,
           request' \in [Request -> Job \cup {Idle}],
           \A r \in Request : request'[r] \in {request[r], Idle},
           batch' \subseteq batch
    PROVE  IInv'
<1>1. LoadedInPast' /\ FoundInPast'
  BY PastKept, FoundKept DEF IInv
<1>2. batch' \subseteq Found
  BY DEF IInv, TypeOK
<1> QED
  BY <1>1, <1>2, Assemble

\* A service that ends empties the slot of its request.
LEMMA DoneTyped ==
    ASSUME IInv, NEW r \in Request, Done(r)
    PROVE  /\ request' \in [Request -> Job \cup {Idle}]
           /\ \A q \in Request : request'[q] \in {request[q], Idle}
BY DEF IInv, TypeOK, Done

\* The initial state.
LEMMA InitIInv == Init => IInv
<1> SUFFICES ASSUME Init PROVE IInv
  OBVIOUS
<1>1. TypeOK
  BY DEF Init, LedgerInit, TypeOK, Zero, Counters
<1>2. StoreInv
  <2>1. StoreTyped
    BY <1>1 DEF TypeOK, StoreTyped
  <2>2. HoldMatchesFlag /\ UnplacedIsBlank /\ FulfilledHoldsNothing
    BY DEF Init, HoldMatchesFlag, UnplacedIsBlank, FulfilledHoldsNothing
  <2>3. ClosedHoldsNothing /\ PaidNeverPending
    BY DEF Init, ClosedHoldsNothing, PaidNeverPending
  <2> QED
    BY <2>1, <2>2, <2>3 DEF StoreInv
<1>3. LoadedInPast /\ FoundInPast
  BY DEF Init, LoadedInPast, FoundInPast, Idle
<1> QED
  BY <1>1, <1>2, <1>3 DEF IInv
-----------------------------------------------------------------------------
\* Placing an order books its lines and sets its flag.
LEMMA PlaceOrderIInv ==
    ASSUME IInv, NEW o \in Order, PlaceOrder(o)
    PROVE  IInv'
<1> USE DEF IInv, StoreInv
<1>1. /\ status[o] = "none" /\ Move(Lines(o, 0, 1)) /\ Book(o, 1)
      /\ status' = [status EXCEPT ![o] = "pending"]
      /\ stockReserved' = [stockReserved EXCEPT ![o] = TRUE]
      /\ UNCHANGED <<paid, fulfilled, providers, aged, request, batch>>
  BY DEF PlaceOrder
<1>2. /\ booked' \in [Order -> [Item -> Int]]
      /\ \A i \in Item : booked'[o][i] = booked[o][i] + 1 * Qty[o][i]
      /\ \A p \in Order : p # o => booked'[p] = booked[p]
  BY <1>1, BookEffect
<1>3. row' \in [Item -> Counters] /\ ledger' \in [Item -> Counters]
  BY <1>1, MoveTyped
<1>4. /\ status'[o] = "pending" /\ stockReserved'[o]
      /\ \A p \in Order : p # o => /\ status'[p] = status[p]
                                   /\ stockReserved'[p] = stockReserved[p]
      /\ \A i \in Item : booked'[o][i] = Qty[o][i]
  <2>1. /\ status'[o] = "pending" /\ stockReserved'[o]
        /\ \A p \in Order : p # o => /\ status'[p] = status[p]
                                     /\ stockReserved'[p] = stockReserved[p]
    BY <1>1 DEF StoreTyped
  <2>2. \A i \in Item : booked[o][i] = 0 /\ Qty[o][i] \in Nat
    BY <1>1, QtyAssumption DEF UnplacedIsBlank
  <2> QED
    BY <1>2, <2>1, <2>2
<1>5. StoreTyped'
  BY <1>1, <1>2, <1>3 DEF StoreTyped, Status
<1>6. (HoldMatchesFlag /\ UnplacedIsBlank)'
  BY <1>1, <1>2, <1>4 DEF HoldMatchesFlag, UnplacedIsBlank
<1>7. (FulfilledHoldsNothing /\ ClosedHoldsNothing /\ PaidNeverPending)'
  BY <1>1, <1>4 DEF FulfilledHoldsNothing, ClosedHoldsNothing, PaidNeverPending,
                    ReleaseOn, UnplacedIsBlank
<1>8. Forward
  BY <1>1, <1>4 DEF Forward
<1> QED
  BY <1>1, <1>5, <1>6, <1>7, <1>8, ForwardIInv DEF TypeOK

\* Loading an object copies what the database says.
LEMMA LoadIInv ==
    ASSUME IInv, NEW r \in Request, NEW o \in Order, Load(r, o)
    PROVE  IInv'
<1> USE DEF IInv
<1>1. /\ status[o] # "none" /\ status[o] \in Status
      /\ stockReserved[o] \in BOOLEAN /\ (~fulfilled[o]) \in BOOLEAN
      /\ UNCHANGED <<row, ledger, orderVars, batch>>
  BY DEF Load, Placed, TypeOK
<1>2. PICK job \in
            { [op |-> "transition", order |-> o, to |-> s, status |-> status[o],
               stockReserved |-> stockReserved[o]] : s \in Target }
            \cup { [op |-> x, order |-> o, status |-> status[o]] :
                        x \in {"pay", "cod"} }
            \cup { [op |-> "fulfil", order |-> o, outstanding |-> ~fulfilled[o]] } :
         request' = [request EXCEPT ![r] = job]
  BY DEF Load
<1>3. job \in Job
  <2>1. ASSUME NEW s \in Target,
               job = [op |-> "transition", order |-> o, to |-> s,
                      status |-> status[o], stockReserved |-> stockReserved[o]]
        PROVE  job \in Job
    BY <1>1, <2>1 DEF Job
  <2>2. ASSUME NEW x \in {"pay", "cod"},
               job = [op |-> x, order |-> o, status |-> status[o]]
        PROVE  job \in Job
    BY <1>1, <2>2 DEF Job
  <2>3. ASSUME job = [op |-> "fulfil", order |-> o, outstanding |-> ~fulfilled[o]]
        PROVE  job \in Job
    BY <1>1, <2>3 DEF Job
  <2> QED
    BY <1>2, <2>1, <2>2, <2>3
<1>4. request' \in [Request -> Job \cup {Idle}]
  BY <1>2, <1>3 DEF TypeOK
<1>5. /\ job.order = o
      /\ job.op = "transition" => job.stockReserved = stockReserved[o]
      /\ job.op # "fulfil" => job.status = status[o]
      /\ job.op = "fulfil" => job.outstanding = ~fulfilled[o]
  BY <1>2
<1>6. LoadedInPast'
  <2> SUFFICES ASSUME NEW q \in Request, request'[q].op # "idle"
               PROVE  LET j == request'[q]
                      IN  /\ status'[j.order] # "none"
                          /\ j.op = "transition" /\ ~j.stockReserved
                               => ~stockReserved'[j.order]
                          /\ j.op # "fulfil" /\ j.status # "pending"
                               => status'[j.order] # "pending"
                          /\ j.op = "fulfil" /\ ~j.outstanding => fulfilled'[j.order]
    BY DEF LoadedInPast
  <2>1. CASE q = r
    <3>1. request'[q] = job
      BY <1>2, <2>1 DEF TypeOK
    <3> QED
      BY <1>1, <1>5, <3>1 DEF orderVars
  <2>2. CASE q # r
    <3>1. request'[q] = request[q]
      BY <1>2, <2>2 DEF TypeOK
    <3> QED
      BY <1>1, <3>1 DEF orderVars, LoadedInPast
  <2> QED
    BY <2>1, <2>2
<1>7. FoundInPast' /\ batch' \subseteq Found
  BY <1>1 DEF orderVars, FoundInPast, TypeOK
<1>8. StoreInv'
  BY <1>1, StoreKept DEF orderVars, TypeOK
<1> QED
  BY <1>4, <1>6, <1>7, <1>8, Assemble

\* A view's or a courier's transition.
LEMMA TransitionIInv ==
    ASSUME IInv, NEW r \in Request, Transition(r)
    PROVE  IInv'
<1> DEFINE j == request[r]
<1>1. /\ j.op = "transition" /\ Done(r)
      /\ TransitionOrder(j.order, j.status, j.to, j.stockReserved)
      /\ UNCHANGED <<paid, fulfilled, providers, aged, batch>>
  BY DEF Transition
<1>2. j \in Job \cup {Idle}
  BY DEF IInv, TypeOK
<1>3. /\ j.order \in Order /\ j.status \in Status /\ j.stockReserved \in BOOLEAN
      /\ status[j.order] # "none"
      /\ ~j.stockReserved => ~stockReserved[j.order]
      /\ j.status # "pending" => status[j.order] # "pending"
  BY <1>1, <1>2, JobFields DEF IInv, LoadedInPast
<1>4. StoreInv' /\ Forward
  BY <1>1, <1>3, TransitionEffect
<1> QED
  BY <1>1, <1>4, DoneTyped, ForwardIInv

\* The sweep's cancellation.
LEMMA SweepCancelIInv ==
    ASSUME IInv, NEW e \in batch, SweepCancel(e)
    PROVE  IInv'
<1>1. /\ TransitionOrder(e.order, "pending", "cancelled", e.stockReserved)
      /\ batch' = batch \ {e}
      /\ UNCHANGED <<paid, fulfilled, providers, aged, request>>
  BY DEF SweepCancel
<1>2. /\ e.order \in Order /\ e.stockReserved \in BOOLEAN
      /\ status[e.order] # "none"
      /\ ~e.stockReserved => ~stockReserved[e.order]
  BY DEF IInv, TypeOK, Found, FoundInPast
<1>3. StoreInv' /\ Forward
  BY <1>1, <1>2, TransitionEffect DEF Status
<1> QED
  BY <1>1, <1>3, ForwardIInv DEF IInv, TypeOK

\* The sweep's query copies what the database says.
LEMMA SweepQueryIInv ==
    ASSUME IInv, SweepQuery
    PROVE  IInv'
<1>1. /\ batch' = {[order |-> o, stockReserved |-> stockReserved[o]] : o \in Stale}
      /\ UNCHANGED <<row, ledger, orderVars, request>>
  BY DEF SweepQuery
<1>2. \A o \in Stale : o \in Order /\ status[o] # "none"
  BY DEF Stale, Placed
<1>3. batch' \subseteq Found
  BY <1>1, <1>2 DEF Found, IInv, TypeOK
<1>4. FoundInPast'
  BY <1>1, <1>2 DEF FoundInPast, orderVars
<1>5. LoadedInPast'
  BY <1>1 DEF IInv, LoadedInPast, orderVars
<1>6. StoreInv'
  BY <1>1, StoreKept DEF orderVars, IInv, TypeOK
<1> QED
  BY <1>1, <1>3, <1>4, <1>5, <1>6, Assemble DEF IInv, TypeOK

\* A payment, or cash on delivery, confirms the order its object shows pending.
LEMMA ConfirmIInv ==
    ASSUME IInv, NEW r \in Request, MarkPaid(r) \/ RecordCod(r)
    PROVE  IInv'
<1> DEFINE j == request[r]
           o == request[r].order
<1> USE DEF IInv, StoreInv
<1>1. /\ j.op \in {"pay", "cod"} /\ Done(r)
      /\ status' = [status EXCEPT ![o] =
                        IF j.status = "pending" THEN "confirmed" ELSE @]
      /\ paid' \in {paid, [paid EXCEPT ![o] = TRUE]}
      /\ providers' \in {providers, [providers EXCEPT ![o] = @ \cup {"cod"}]}
      /\ UNCHANGED <<row, ledger, stockReserved, fulfilled, aged, booked, batch>>
  BY DEF MarkPaid, RecordCod
<1>2. /\ o \in Order /\ status[o] # "none"
      /\ j.status # "pending" => status[o] # "pending"
  BY <1>1, JobFields DEF TypeOK, LoadedInPast
<1> HIDE DEF j, o
<1>3. /\ status'[o] # "pending" /\ status'[o] # "none"
      /\ status'[o] \in {status[o], "confirmed"}
      /\ \A p \in Order : p # o => status'[p] = status[p] /\ paid'[p] = paid[p]
  BY <1>1, <1>2 DEF StoreTyped
<1>4. StoreTyped'
  <2>1. status' \in [Order -> Status \cup {"none"}]
    BY <1>1, <1>2 DEF StoreTyped, Status
  <2>2. /\ paid' \in [Order -> BOOLEAN]
        /\ providers' \in [Order -> SUBSET {"gateway", "upi", "cod"}]
    <3> DEFINE P == SUBSET {"gateway", "upi", "cod"}
    <3>1. providers \in [Order -> P] /\ paid \in [Order -> BOOLEAN]
      BY DEF StoreTyped
    <3>2. providers[o] \cup {"cod"} \in P
      BY <1>2, <3>1
    <3> HIDE DEF P
    <3>3. providers' \in [Order -> P]
      BY <1>1, <1>2, <3>1, <3>2
    <3>4. paid' \in [Order -> BOOLEAN]
      BY <1>1, <1>2, <3>1
    <3> QED
      BY <3>3, <3>4 DEF P
  <2> QED
    BY <1>1, <2>1, <2>2 DEF StoreTyped
<1>5. (UnplacedIsBlank /\ FulfilledHoldsNothing /\ HoldMatchesFlag)'
  BY <1>1, <1>3 DEF UnplacedIsBlank, FulfilledHoldsNothing, HoldMatchesFlag
<1>6. (ClosedHoldsNothing /\ PaidNeverPending)'
  BY <1>1, <1>3 DEF ClosedHoldsNothing, PaidNeverPending, ReleaseOn
<1>7. Forward
  BY <1>1, <1>3 DEF Forward
<1> QED
  BY <1>1, <1>4, <1>5, <1>6, <1>7, DoneTyped, ForwardIInv DEF TypeOK

\* Fulfilment, whatever has become of the order since its lines were read.
LEMMA FulfilIInv ==
    ASSUME IInv, NEW r \in Request, FulfillOrder(r)
    PROVE  IInv'
<1> DEFINE j == request[r]
           o == request[r].order
           l == IF request[r].outstanding THEN -1 ELSE 0
<1> USE DEF IInv, StoreInv
<1>1. /\ j.op = "fulfil" /\ Done(r) /\ Move(Lines(o, l, l)) /\ Book(o, l)
      /\ fulfilled' = [fulfilled EXCEPT ![o] = TRUE]
      /\ stockReserved' = [stockReserved EXCEPT ![o] = FALSE]
      /\ UNCHANGED <<status, paid, providers, aged, batch>>
  BY DEF FulfillOrder
<1>2. /\ o \in Order /\ status[o] # "none"
      /\ l \in {-1, 0} /\ (l = 0 => fulfilled[o])
  BY <1>1, JobFields DEF TypeOK, LoadedInPast
<1> HIDE DEF j, o, l
<1>3. row' \in [Item -> Counters] /\ ledger' \in [Item -> Counters]
  BY <1>1, <1>2, MoveTyped
<1>4. /\ booked' \in [Order -> [Item -> Int]]
      /\ \A i \in Item : booked'[o][i] = booked[o][i] + l * Qty[o][i]
      /\ \A p \in Order : p # o => booked'[p] = booked[p]
  BY <1>1, <1>2, BookEffect
<1>5. /\ fulfilled'[o] /\ ~stockReserved'[o]
      /\ \A p \in Order : p # o => /\ fulfilled'[p] = fulfilled[p]
                                   /\ stockReserved'[p] = stockReserved[p]
  BY <1>1, <1>2 DEF StoreTyped
<1>6. \A i \in Item : booked'[o][i] <= 0
  <2> SUFFICES ASSUME NEW i \in Item PROVE booked'[o][i] <= 0
    OBVIOUS
  <2>1. Qty[o][i] \in Nat /\ booked[o][i] \in Int
    BY <1>2, QtyAssumption DEF StoreTyped
  <2>2. CASE l = 0
    <3>1. booked[o][i] <= 0
      BY <1>2, <2>2 DEF FulfilledHoldsNothing, HoldMatchesFlag
    <3> QED
      BY <1>4, <2>1, <2>2, <3>1
  <2>3. CASE l = -1
    <3>1. booked[o][i] <= Qty[o][i]
      BY <1>2, <2>1 DEF HoldMatchesFlag
    <3> QED
      BY <1>4, <2>1, <2>3, <3>1
  <2> QED
    BY <1>2, <2>2, <2>3
<1>7. StoreTyped'
  BY <1>1, <1>3, <1>4 DEF StoreTyped
<1>8. HoldMatchesFlag'
  BY <1>4, <1>5, <1>6 DEF HoldMatchesFlag
<1>9. (UnplacedIsBlank /\ FulfilledHoldsNothing)'
  BY <1>1, <1>2, <1>4, <1>5 DEF UnplacedIsBlank, FulfilledHoldsNothing
<1>10. (ClosedHoldsNothing /\ PaidNeverPending)'
  BY <1>1, <1>5 DEF ClosedHoldsNothing, PaidNeverPending
<1>11. Forward
  BY <1>1, <1>5 DEF Forward
<1> QED
  BY <1>1, <1>7, <1>8, <1>9, <1>10, <1>11, DoneTyped, ForwardIInv

\* Receiving and writing off stock.
LEMMA RestockIInv ==
    ASSUME IInv, NEW i \in Item, NEW n \in {-1, 1}, Restock(i, n)
    PROVE  IInv'
<1> DEFINE d == [j \in Item |-> [quantity |-> IF j = i THEN n ELSE 0, reserved |-> 0]]
<1> USE DEF IInv, StoreInv
<1>1. Move(d) /\ UNCHANGED <<orderVars, request, batch>>
  BY DEF Restock
<1>2. \A j \in Item : d[j].quantity \in Int /\ d[j].reserved \in Int
  OBVIOUS
<1> HIDE DEF d
<1>3. row' \in [Item -> Counters] /\ ledger' \in [Item -> Counters]
  <2>1. \A j \in Item : row[j] \in Counters /\ ledger[j] \in Counters
    BY DEF StoreTyped
  <2> QED
    BY <1>1, <1>2, <2>1 DEF Move, Shift, Counters
<1>4. StoreTyped'
  BY <1>1, <1>3 DEF StoreTyped, orderVars
<1>5. (UnplacedIsBlank /\ FulfilledHoldsNothing /\ HoldMatchesFlag
         /\ ClosedHoldsNothing /\ PaidNeverPending)'
  BY <1>1 DEF orderVars, UnplacedIsBlank, FulfilledHoldsNothing, HoldMatchesFlag,
              ClosedHoldsNothing, PaidNeverPending
<1>6. Forward
  BY <1>1 DEF orderVars, Forward
<1> QED
  BY <1>1, <1>4, <1>5, <1>6, ForwardIInv DEF TypeOK

\* Steps that change neither the orders' own columns nor the stock.
LEMMA QuietIInv ==
    ASSUME IInv, UNCHANGED <<row, ledger, status, paid, stockReserved, fulfilled, booked>>,
           providers' \in [Order -> SUBSET {"gateway", "upi", "cod"}],
           aged' \in [Order -> BOOLEAN],
           request' \in [Request -> Job \cup {Idle}],
           \A r \in Request : request'[r] \in {request[r], Idle},
           batch' \subseteq batch
    PROVE  IInv'
BY StoreKept, ForwardIInv DEF IInv
-----------------------------------------------------------------------------
\* Every step keeps the invariant.
LEMMA NextIInv == IInv /\ [Next]_vars => IInv'
<1> SUFFICES ASSUME IInv, [Next]_vars PROVE IInv'
  OBVIOUS
<1>1. TypeOK /\ providers \in [Order -> SUBSET {"gateway", "upi", "cod"}]
      /\ aged \in [Order -> BOOLEAN] /\ request \in [Request -> Job \cup {Idle}]
  BY DEF IInv, TypeOK
<1>2. ASSUME NEW o \in Order, Age(o) PROVE IInv'
  BY <1>1, <1>2, QuietIInv DEF Age
<1>3. ASSUME NEW o \in Order, NEW p \in Online, AttachPayment(o, p) PROVE IInv'
  <2>1. providers' \in [Order -> SUBSET {"gateway", "upi", "cod"}]
    BY <1>1, <1>3, OnlineAssumption DEF AttachPayment
  <2> QED
    BY <1>1, <1>3, <2>1, QuietIInv DEF AttachPayment
<1>4. ASSUME NEW r \in Request, RefuseTransition(r) \/ RefuseFulfil(r) PROVE IInv'
  <2>1. Done(r) /\ UNCHANGED <<row, ledger, orderVars, batch>>
    BY <1>4 DEF RefuseTransition, RefuseFulfil
  <2> QED
    BY <1>1, <2>1, DoneTyped, QuietIInv DEF orderVars
<1>5. ASSUME SweepCrash PROVE IInv'
  BY <1>1, <1>5, QuietIInv DEF SweepCrash, orderVars
<1>6. CASE UNCHANGED vars
  BY <1>1, <1>6, QuietIInv DEF vars, orderVars
<1>7. ASSUME NEW r \in Request, Commit(r) PROVE IInv'
  BY <1>4, <1>7, TransitionIInv, ConfirmIInv, FulfilIInv DEF Commit
<1> QED
  BY <1>2, <1>3, <1>5, <1>6, <1>7, PlaceOrderIInv, LoadIInv, SweepQueryIInv,
     SweepCancelIInv, RestockIInv DEF Next

\* The inductive invariant holds of every reachable state.
THEOREM Invariance == Spec => []IInv
<1>1. Init => IInv
  BY InitIInv
<1>2. IInv /\ [Next]_vars => IInv'
  BY NextIInv
<1> QED
  BY <1>1, <1>2, PTL DEF Spec

\* Every variable keeps its type, for any orders, items and requests.
THEOREM TypeCorrect == Spec => []TypeOK
<1>1. IInv => TypeOK
  BY DEF IInv
<1> QED
  BY <1>1, Invariance, PTL

\* The movement rows of every order agree with its stock_reserved flag.
THEOREM HoldsMatchFlags == Spec => []HoldMatchesFlag
<1>1. IInv => HoldMatchesFlag
  BY DEF IInv, StoreInv
<1> QED
  BY <1>1, Invariance, PTL

\* A cancelled, failed or returned order holds no stock.
THEOREM ClosedReleased == Spec => []ClosedHoldsNothing
<1>1. IInv => ClosedHoldsNothing
  BY DEF IInv, StoreInv
<1> QED
  BY <1>1, Invariance, PTL

\* A paid order is not pending.
THEOREM PaidConfirmed == Spec => []PaidNeverPending
<1>1. IInv => PaidNeverPending
  BY DEF IInv, StoreInv
<1> QED
  BY <1>1, Invariance, PTL
-----------------------------------------------------------------------------
\* Reserved counts against the orders that carry the flag.

Flagged == {o \in Order : stockReserved[o]}

QtyOf(i) == [o \in Order |-> Qty[o][i]]

\* The reserved count of an item is exact as long as no order has given back more
\* of it than it reserved.
ExactUnlessOverReleased ==
    \A i \in Item : (\A o \in Order : booked[o][i] >= 0)
                       => row[i].reserved = Allocated(i)

\* Orders are placed one at a time, so that finitely many hold stock and what
\* they hold has a sum.
HeldInv == IsFiniteSet(Flagged) /\ NoLeakedReservation /\ ExactUnlessOverReleased

\* What a step does to reserved counts, flags and books: nothing, an order's lines
\* are reserved and its flag is set, or they are taken off the counts, once more
\* than they were put there perhaps, and its flag is cleared.
Booked(o, l) ==
    \A p \in Order, i \in Item :
        booked'[p][i] = booked[p][i] + IF p = o THEN l * Qty[o][i] ELSE 0

HoldsKept ==
    /\ Flagged' = Flagged
    /\ \A i \in Item : row'[i].reserved = row[i].reserved
    /\ \A o \in Order, i \in Item : booked'[o][i] = booked[o][i]

Reserves(o) ==
    /\ o \notin Flagged /\ Flagged' = Flagged \cup {o}
    /\ \A i \in Item : row'[i].reserved = row[i].reserved + Qty[o][i]
    /\ Booked(o, 1)
    /\ \A i \in Item : booked[o][i] = 0

Releases(o) ==
    /\ Flagged' = Flagged \ {o}
    /\ \A i \in Item : row'[i].reserved = row[i].reserved - Qty[o][i]
    /\ Booked(o, -1)

HoldsChange == HoldsKept \/ \E o \in Order : Reserves(o) \/ Releases(o)

\* What the flagged orders have reserved is a sum in the sense of SumProofs, and a
\* natural number.
LEMMA AllocatedSum ==
    ASSUME NEW i \in Item, IsFiniteSet(Flagged)
    PROVE  /\ Allocated(i) = SumFunctionOnSet(QtyOf(i), Flagged)
           /\ Allocated(i) \in Nat
<1> DEFINE Adds(g) ==
             g = [s \in SUBSET Flagged |->
                    IF s = {} THEN 0 ELSE Qty[Pick(s)][i] + g[s \ {Pick(s)}]]
           h == CHOOSE g : Adds(g)
<1>1. Allocated(i) = h[Flagged]
  BY DEF Allocated, MapThenSumSet, MapThenFoldSet, Pick, Flagged
<1>2. Flagged \subseteq Order
  BY DEF Flagged
<1>3. \A s \in SUBSET Flagged : s # {} => QtyOf(i)[Pick(s)] = Qty[Pick(s)][i]
  BY <1>2, PickIn DEF QtyOf
<1>4. ASSUME NEW g PROVE Adds(g) <=> SumsUp(QtyOf(i), Flagged, g)
  <2>1. [s \in SUBSET Flagged |->
           IF s = {} THEN 0 ELSE Qty[Pick(s)][i] + g[s \ {Pick(s)}]]
        = [s \in SUBSET Flagged |->
             IF s = {} THEN 0 ELSE QtyOf(i)[Pick(s)] + g[s \ {Pick(s)}]]
    BY <1>3
  <2> QED  BY <2>1 DEF SumsUp
<1>5. \E g : Adds(g)
  BY <1>4, SumsExist
<1>6. Adds(h)
  <2> HIDE DEF Adds
  <2> QED  BY <1>5
<1> HIDE DEF Adds, h
<1>7. Allocated(i) = SumFunctionOnSet(QtyOf(i), Flagged)
  BY <1>1, <1>4, <1>6, SumIs
<1>8. \A o \in Flagged : QtyOf(i)[o] \in Nat
  BY <1>2, QtyAssumption DEF QtyOf
<1> QED  BY <1>7, <1>8, SumNat

\* The same of the next state.
LEMMA AllocatedSumNext ==
    IsFiniteSet(Flagged') =>
        \A i \in Item : /\ Allocated(i)' = SumFunctionOnSet(QtyOf(i), Flagged')
                        /\ Allocated(i)' \in Nat
<1>1. IsFiniteSet(Flagged) =>
        \A i \in Item : /\ Allocated(i) = SumFunctionOnSet(QtyOf(i), Flagged)
                        /\ Allocated(i) \in Nat
  BY AllocatedSum
<1>2. (IsFiniteSet(Flagged) =>
        \A i \in Item : /\ Allocated(i) = SumFunctionOnSet(QtyOf(i), Flagged)
                        /\ Allocated(i) \in Nat)'
  BY <1>1, PTL
<1>3. (\A i \in Item : QtyOf(i)' = QtyOf(i)) 
  BY DEF QtyOf
<1> QED  BY <1>2, <1>3

\* A batch of an order's lines, in the reserved counts.
LEMMA MoveReserved ==
    ASSUME TypeOK, NEW o \in Order, NEW k \in Int, NEW l \in Int,
           Move(Lines(o, k, l)), NEW i \in Item
    PROVE  row'[i].reserved = row[i].reserved + l * Qty[o][i]
BY DEF Move, Lines, Shift

\* The same batch, in the books.
LEMMA BookBooked ==
    ASSUME TypeOK, NEW o \in Order, NEW l \in Int, Book(o, l)
    PROVE  Booked(o, l)
<1>1. /\ \A i \in Item : booked'[o][i] = booked[o][i] + l * Qty[o][i]
      /\ \A p \in Order : p # o => booked'[p] = booked[p]
  BY BookEffect
<1>2. \A p \in Order, i \in Item : booked[p][i] \in Int
  BY DEF TypeOK
<1> QED  BY <1>1, <1>2 DEF Booked

\* A stock release, from whatever flag, takes an order's lines off or does nothing.
LEMMA ReleaseHolds ==
    ASSUME IInv, NEW o \in Order, NEW flag \in BOOLEAN, ReleaseStock(o, flag)
    PROVE  HoldsChange
<1>1. CASE flag
  <2>1. /\ Move(Lines(o, 0, -1)) /\ Book(o, -1)
        /\ stockReserved' = [stockReserved EXCEPT ![o] = FALSE]
    BY <1>1 DEF ReleaseStock
  <2>2. Flagged' = Flagged \ {o}
    BY <2>1 DEF Flagged, IInv, TypeOK
  <2>3. ASSUME NEW i \in Item
        PROVE  row'[i].reserved = row[i].reserved - Qty[o][i]
    <3>1. row'[i].reserved = row[i].reserved + (-1) * Qty[o][i]
      BY <2>1, MoveReserved DEF IInv
    <3>2. row[i].reserved \in Int /\ Qty[o][i] \in Nat
      BY QtyAssumption DEF IInv, TypeOK, Counters
    <3> QED  BY <3>1, <3>2
  <2>4. Booked(o, -1)
    BY <2>1, BookBooked DEF IInv
  <2> QED  BY <2>2, <2>3, <2>4 DEF HoldsChange, Releases
<1>2. CASE ~flag
  BY <1>2 DEF ReleaseStock, HoldsChange, HoldsKept, Flagged
<1> QED  BY <1>1, <1>2

\* So does a transition.
LEMMA TransitionHolds ==
    ASSUME IInv, NEW o \in Order, NEW flag \in BOOLEAN, NEW from, NEW to,
           TransitionOrder(o, from, to, flag)
    PROVE  HoldsChange
<1>1. CASE to \in ReleaseOn
  BY <1>1, ReleaseHolds DEF TransitionOrder
<1>2. CASE to \notin ReleaseOn
  BY <1>2 DEF TransitionOrder, HoldsChange, HoldsKept, Flagged
<1> QED  BY <1>1, <1>2

\* Lines that were not outstanding belong to an order fulfilled before, which
\* had lost its flag then.
LEMMA FulfilHolds ==
    ASSUME IInv, NEW r \in Request, FulfillOrder(r)
    PROVE  HoldsChange
<1> DEFINE j == request[r]
           o == request[r].order
           l == IF request[r].outstanding THEN -1 ELSE 0
<1>1. /\ j.op = "fulfil" /\ Move(Lines(o, l, l)) /\ Book(o, l)
      /\ stockReserved' = [stockReserved EXCEPT ![o] = FALSE]
  BY DEF FulfillOrder
<1>2. o \in Order /\ l \in {-1, 0} /\ (l = 0 => fulfilled[o])
  BY <1>1, JobFields DEF IInv, TypeOK, LoadedInPast
<1> HIDE DEF j, o, l
<1>3. Flagged' = Flagged \ {o}
  BY <1>1, <1>2 DEF Flagged, IInv, TypeOK
<1>4. \A i \in Item : /\ row'[i].reserved = row[i].reserved + l * Qty[o][i]
                      /\ row[i].reserved \in Int /\ Qty[o][i] \in Nat
  <2>1. l \in Int /\ TypeOK
    BY <1>2 DEF IInv
  <2>2. \A i \in Item : row'[i].reserved = row[i].reserved + l * Qty[o][i]
    BY <1>1, <1>2, <2>1, MoveReserved
  <2>3. \A i \in Item : row[i].reserved \in Int /\ Qty[o][i] \in Nat
    BY <1>2, <2>1, QtyAssumption DEF TypeOK, Counters
  <2> QED  BY <2>2, <2>3
<1>5. Booked(o, l)
  <2>1. l \in Int /\ TypeOK
    BY <1>2 DEF IInv
  <2> QED  BY <1>1, <1>2, <2>1, BookBooked
<1>6. CASE l = 0
  <2>1. o \notin Flagged
    BY <1>2, <1>6 DEF Flagged, IInv, StoreInv, FulfilledHoldsNothing
  <2>2. \A i \in Item : row'[i].reserved = row[i].reserved
    BY <1>4, <1>6
  <2>3. \A p \in Order, i \in Item : booked[p][i] \in Int /\ Qty[p][i] \in Nat
    BY QtyAssumption DEF IInv, TypeOK
  <2>4. \A p \in Order, i \in Item : booked'[p][i] = booked[p][i]
    BY <1>2, <1>5, <1>6, <2>3 DEF Booked
  <2> QED  BY <1>3, <2>1, <2>2, <2>4 DEF HoldsChange, HoldsKept
<1>7. CASE l = -1
  <2>1. Booked(o, -1)
    BY <1>5, <1>7
  <2>2. \A i \in Item : row'[i].reserved = row[i].reserved - Qty[o][i]
    BY <1>4, <1>7
  <2> QED  BY <1>2, <1>3, <2>1, <2>2 DEF HoldsChange, Releases
<1> QED  BY <1>2, <1>6, <1>7

\* Placing an order reserves its lines, of which nothing was booked before.
LEMMA PlaceHolds ==
    ASSUME IInv, NEW o \in Order, PlaceOrder(o)
    PROVE  Reserves(o)
<1>1. /\ status[o] = "none" /\ Move(Lines(o, 0, 1)) /\ Book(o, 1)
      /\ stockReserved' = [stockReserved EXCEPT ![o] = TRUE]
  BY DEF PlaceOrder
<1>2. o \notin Flagged /\ Flagged' = Flagged \cup {o}
  BY <1>1 DEF Flagged, IInv, TypeOK, StoreInv, UnplacedIsBlank
<1>3. ASSUME NEW i \in Item
      PROVE  row'[i].reserved = row[i].reserved + Qty[o][i]
  <2>1. row'[i].reserved = row[i].reserved + 1 * Qty[o][i]
    BY <1>1, MoveReserved DEF IInv
  <2>2. Qty[o][i] \in Nat
    BY QtyAssumption
  <2> QED  BY <2>1, <2>2
<1>4. Booked(o, 1)
  BY <1>1, BookBooked DEF IInv
<1>5. \A i \in Item : booked[o][i] = 0
  BY <1>1 DEF IInv, StoreInv, UnplacedIsBlank
<1> QED  BY <1>2, <1>3, <1>4, <1>5 DEF Reserves

\* Every action changes reserved counts and flags together, in those ways.
LEMMA HoldsChanges == IInv /\ [Next]_vars => HoldsChange
<1> SUFFICES ASSUME IInv, [Next]_vars PROVE HoldsChange
  OBVIOUS
<1>1. ASSUME UNCHANGED <<row, stockReserved, booked>> PROVE HoldsChange
  BY <1>1 DEF HoldsChange, HoldsKept, Flagged
<1>2. ASSUME NEW o \in Order, Age(o) \/ \E p \in Online : AttachPayment(o, p)
      PROVE  HoldsChange
  BY <1>1, <1>2 DEF Age, AttachPayment
<1>3. ASSUME NEW r \in Request,
             RefuseTransition(r) \/ RefuseFulfil(r) \/ MarkPaid(r) \/ RecordCod(r)
               \/ \E o \in Order : Load(r, o)
      PROVE  HoldsChange
  BY <1>1, <1>3 DEF RefuseTransition, RefuseFulfil, MarkPaid, RecordCod, Load, orderVars
<1>4. ASSUME SweepQuery \/ SweepCrash \/ UNCHANGED vars PROVE HoldsChange
  BY <1>1, <1>4 DEF SweepQuery, SweepCrash, vars, orderVars
<1>5. ASSUME NEW r \in Request, Transition(r) PROVE HoldsChange
  <2>1. /\ request[r].op = "transition"
        /\ TransitionOrder(request[r].order, request[r].status, request[r].to,
                           request[r].stockReserved)
    BY <1>5 DEF Transition
  <2>2. request[r].order \in Order /\ request[r].stockReserved \in BOOLEAN
    BY <2>1, JobFields DEF IInv, TypeOK
  <2> QED  BY <2>1, <2>2, TransitionHolds
<1>6. ASSUME NEW e \in batch, SweepCancel(e) PROVE HoldsChange
  <2>1. e.order \in Order /\ e.stockReserved \in BOOLEAN
    BY DEF IInv, TypeOK, Found
  <2> QED  BY <1>6, <2>1, TransitionHolds DEF SweepCancel
<1>7. ASSUME NEW i \in Item, NEW n \in {-1, 1}, Restock(i, n) PROVE HoldsChange
  <2>1. \A j \in Item : row[j].reserved \in Int
    BY DEF IInv, TypeOK, Counters
  <2>2. \A j \in Item : row'[j].reserved = row[j].reserved
    BY <1>7, <2>1 DEF Restock, Move, Shift
  <2> QED  BY <1>7, <2>2 DEF Restock, orderVars, HoldsChange, HoldsKept, Flagged
<1>8. ASSUME NEW r \in Request, Commit(r) PROVE HoldsChange
  BY <1>3, <1>5, <1>8, FulfilHolds DEF Commit
<1> QED
  BY <1>2, <1>3, <1>4, <1>6, <1>7, <1>8, PlaceHolds DEF Next, HoldsChange

\* Every step keeps reserved counts backed by flags, and exact while no order has
\* given back too much.
LEMMA HeldStep ==
    ASSUME IInv, HeldInv, [Next]_vars
    PROVE  HeldInv'
<1>1. HoldsChange
  BY HoldsChanges
<1>2. IsFiniteSet(Flagged) /\ Flagged \subseteq Order
  BY DEF HeldInv, Flagged
<1>3. IsFiniteSet(Flagged')
  BY <1>1, <1>2, FS_AddElement, FS_RemoveElement
     DEF HoldsChange, HoldsKept, Reserves, Releases
<1>4. ASSUME NEW i \in Item
      PROVE  /\ row'[i].reserved <= Allocated(i)'
             /\ (\A o \in Order : booked'[o][i] >= 0)
                  => row'[i].reserved = Allocated(i)'
  <2> DEFINE f == QtyOf(i)
             was == SumFunctionOnSet(f, Flagged)
             now == SumFunctionOnSet(f, Flagged')
             r == row[i].reserved
             s == row'[i].reserved
             Before == \A o \in Order : booked[o][i] >= 0
             After == \A o \in Order : booked'[o][i] >= 0
  <2>1. Allocated(i)' = now /\ now \in Nat
    BY <1>3, AllocatedSumNext
  <2>2. Allocated(i) = was /\ was \in Nat /\ r \in Int /\ r <= was /\ (Before => r = was)
    BY <1>2, AllocatedSum
       DEF HeldInv, NoLeakedReservation, ExactUnlessOverReleased, IInv, TypeOK, Counters
  <2>3. \A o \in Order : f[o] = Qty[o][i] /\ f[o] \in Nat
    BY QtyAssumption DEF QtyOf
  <2>4. \A o \in Order : booked[o][i] \in Int
    BY DEF IInv, TypeOK
  <2>5. \A o \in Order : o \notin Flagged => booked[o][i] <= 0
    BY DEF IInv, StoreInv, HoldMatchesFlag, Flagged
  <2> HIDE DEF f
  <2>6. CASE HoldsKept
    <3>1. now = was /\ s = r /\ (After => Before)
      BY <2>6 DEF HoldsKept
    <3> HIDE DEF was, now, r, s, Before, After
    <3>2. s <= now /\ (After => s = now)
      BY <2>2, <3>1
    <3> QED  BY <2>1, <3>2 DEF s, After
  <2>7. ASSUME NEW o \in Order, Reserves(o)
        PROVE  s <= now /\ (After => s = now)
    <3>1. o \notin Flagged /\ Flagged' = Flagged \cup {o} /\ s = r + f[o]
      BY <2>3, <2>7 DEF Reserves
    <3>2. \A x \in Flagged \cup {o} : f[x] \in Nat
      BY <1>2, <2>3
    <3>3. now = f[o] + was
      BY <1>2, <3>1, <3>2, SumAdd
    <3>4. After => Before
      BY <2>3, <2>7, <2>4 DEF Reserves, Booked
    <3>5. f[o] \in Nat
      BY <2>3
    <3> HIDE DEF was, now, r, s, Before, After
    <3> QED  BY <2>2, <3>1, <3>3, <3>4, <3>5
  <2>8. ASSUME NEW o \in Order, Releases(o)
        PROVE  s <= now /\ (After => s = now)
    <3>1. Flagged' = Flagged \ {o} /\ s = r - f[o]
      BY <2>3, <2>8 DEF Releases
    <3>2. \A x \in Flagged : f[x] \in Nat
      BY <1>2, <2>3
    <3>3. /\ \A p \in Order : p # o => booked'[p][i] = booked[p][i]
          /\ booked'[o][i] = booked[o][i] - f[o]
      BY <2>3, <2>8, <2>4 DEF Releases, Booked
    <3>4. f[o] \in Nat
      BY <2>3
    <3>5. After => Before /\ booked[o][i] >= f[o]
      BY <2>4, <3>3, <3>4
    <3>6. CASE o \in Flagged
      <4>1. was = f[o] + now
        BY <1>2, <3>1, <3>2, <3>6, SumRemove
      <4> HIDE DEF was, now, r, s, Before, After
      <4> QED  BY <2>1, <2>2, <3>1, <3>4, <3>5, <4>1
    <3>7. CASE o \notin Flagged
      <4>1. now = was /\ (After => f[o] = 0)
        BY <2>4, <2>5, <3>1, <3>4, <3>5, <3>7
      <4> HIDE DEF was, now, r, s, Before, After
      <4> QED  BY <2>2, <3>1, <3>4, <3>5, <4>1
    <3> QED  BY <3>6, <3>7
  <2>9. s <= now /\ (After => s = now)
    BY <1>1, <2>1, <2>6, <2>7, <2>8 DEF HoldsChange
  <2> QED  BY <2>1, <2>9
<1> QED  BY <1>3, <1>4 DEF HeldInv, NoLeakedReservation, ExactUnlessOverReleased

\* A store without orders has nothing reserved.
LEMMA HeldInit == Init => HeldInv
<1> SUFFICES ASSUME Init PROVE HeldInv
  OBVIOUS
<1>1. Flagged = {}
  BY DEF Init, Flagged
<1>2. \A i \in Item : Allocated(i) = 0
  BY <1>1, AllocatedSum, SumEmpty, FS_EmptySet
<1>3. \A i \in Item : row[i].reserved = 0
  BY DEF Init, LedgerInit, Zero
<1> QED
  BY <1>1, <1>2, <1>3, FS_EmptySet
     DEF HeldInv, NoLeakedReservation, ExactUnlessOverReleased

\* Reserved counts stay backed by flags in every reachable state.
LEMMA HeldInvariance == Spec => []HeldInv
<1>1. IInv /\ HeldInv /\ [Next]_vars => HeldInv'
  BY HeldStep
<1> QED
  BY <1>1, HeldInit, Invariance, PTL DEF Spec

\* services.py:103-128, 204-256 and 284-307: whatever is loaded, paid, cancelled,
\* expired and fulfilled in whatever order, the reserved count of an item is never
\* more than the lines of the orders that still carry the flag: no order that has
\* let go of its stock leaves units reserved for ever.
THEOREM NothingLeaked == Spec => []NoLeakedReservation
<1>1. HeldInv => NoLeakedReservation
  BY DEF HeldInv
<1> QED
  BY <1>1, HeldInvariance, PTL

\* services.py:118-128 and 284-307: a reserved count differs from what orders hold
\* (ReservedIsAllocated, which OrdersFulfil.cfg shows to fail) only after some order
\* gave back more of the item than it had reserved, by a second release from a
\* stale object or the sale of stock it no longer held. Nothing else, no other race
\* or refusal, makes it drift.
THEOREM DriftIsOverRelease == Spec => []ExactUnlessOverReleased
<1>1. HeldInv => ExactUnlessOverReleased
  BY DEF HeldInv
<1> QED
  BY <1>1, HeldInvariance, PTL
-----------------------------------------------------------------------------
\* What the ledger takes in is one batch that it accepts as a whole.
AcceptedBatch == Move([i \in Item |-> Unshift(ledger'[i], ledger[i])])

\* The ledger takes in what a batch of movements names, so that the batch can be
\* read back from it.
LEMMA MoveInLedger ==
    ASSUME TypeOK, NEW delta \in [Item -> Counters], Move(delta)
    PROVE  AcceptedBatch
<1>1. \A i \in Item : ledger[i] \in Counters /\ delta[i] \in Counters
  BY DEF TypeOK
<1>2. \A i \in Item : ledger'[i] = Shift(ledger[i], delta[i])
  BY DEF Move
<1>3. ASSUME NEW i \in Item
      PROVE  Unshift(ledger'[i], ledger[i]) = delta[i]
  <2> DEFINE l == ledger[i]
             d == delta[i]
  <2>1. /\ l.quantity \in Int /\ l.reserved \in Int
        /\ d.quantity \in Int /\ d.reserved \in Int
        /\ d = [quantity |-> d.quantity, reserved |-> d.reserved]
    BY <1>1 DEF Counters
  <2>2. Unshift(Shift(l, d), l) = [quantity |-> d.quantity, reserved |-> d.reserved]
    <3> HIDE DEF l, d
    <3> QED
      BY <2>1 DEF Unshift, Shift
  <2> QED
    BY <1>2, <2>1, <2>2
<1>4. delta = [i \in Item |-> Unshift(ledger'[i], ledger[i])]
  BY <1>3
<1> QED
  BY <1>4 DEF AcceptedBatch

\* The movements of an order's lines are pairs of integers.
LEMMA LinesTyped ==
    ASSUME NEW o \in Order, NEW k \in Int, NEW l \in Int
    PROVE  Lines(o, k, l) \in [Item -> Counters]
<1>1. \A i \in Item : k * Qty[o][i] \in Int /\ l * Qty[o][i] \in Int
  BY QtyAssumption
<1> QED
  BY <1>1 DEF Lines, Counters

\* transition_order moves the lines back or leaves the stock alone.
LEMMA TransitionStock ==
    ASSUME TypeOK, NEW o \in Order, NEW from, NEW to, NEW flag,
           TransitionOrder(o, from, to, flag)
    PROVE  AcceptedBatch \/ UNCHANGED ledgerVars
<1>1. CASE UNCHANGED <<row, ledger>>
  BY <1>1 DEF ledgerVars
<1>2. CASE Move(Lines(o, 0, -1))
  <2>1. Lines(o, 0, -1) \in [Item -> Counters]
    BY LinesTyped
  <2> QED
    BY <1>2, <2>1, MoveInLedger
<1> QED
  BY <1>1, <1>2 DEF TransitionOrder, ReleaseStock

\* Every step of the orders is one batch of movements, or nothing to the stock.
LEMMA StepUsesStock ==
    IInv /\ [Next]_vars => [AcceptedBatch]_ledgerVars
<1> SUFFICES ASSUME IInv, [Next]_vars
             PROVE  AcceptedBatch \/ UNCHANGED ledgerVars
  OBVIOUS
<1>1. TypeOK
  BY DEF IInv
<1>2. ASSUME NEW o \in Order, PlaceOrder(o)
      PROVE  AcceptedBatch
  <2>1. Lines(o, 0, 1) \in [Item -> Counters] /\ Move(Lines(o, 0, 1))
    BY <1>2, LinesTyped DEF PlaceOrder
  <2> QED
    BY <1>1, <2>1, MoveInLedger
<1>3. ASSUME NEW r \in Request, Transition(r)
      PROVE  AcceptedBatch \/ UNCHANGED ledgerVars
  <2>1. request[r] \in Job \cup {Idle} /\ request[r].op = "transition"
    BY <1>1, <1>3 DEF TypeOK, Transition
  <2>2. request[r].order \in Order
    BY <2>1, JobFields
  <2> QED
    BY <1>1, <1>3, <2>2, TransitionStock DEF Transition
<1>4. ASSUME NEW e \in batch, SweepCancel(e)
      PROVE  AcceptedBatch \/ UNCHANGED ledgerVars
  <2>1. e.order \in Order
    BY <1>1 DEF TypeOK, Found
  <2> QED
    BY <1>1, <1>4, <2>1, TransitionStock DEF SweepCancel
<1>5. ASSUME NEW r \in Request, FulfillOrder(r)
      PROVE  AcceptedBatch
  <2> DEFINE o == request[r].order
             l == IF request[r].outstanding THEN -1 ELSE 0
  <2>1. request[r] \in Job \cup {Idle} /\ request[r].op = "fulfil"
    BY <1>1, <1>5 DEF TypeOK, FulfillOrder
  <2>2. o \in Order /\ l \in Int
    BY <2>1, JobFields
  <2>3. Move(Lines(o, l, l))
    BY <1>5 DEF FulfillOrder
  <2> HIDE DEF o, l
  <2>4. Lines(o, l, l) \in [Item -> Counters]
    BY <2>2, LinesTyped
  <2> QED
    BY <1>1, <2>3, <2>4, MoveInLedger
<1>6. ASSUME NEW i \in Item, NEW n \in {-1, 1}, Restock(i, n)
      PROVE  AcceptedBatch
  <2> DEFINE d == [j \in Item |-> [quantity |-> IF j = i THEN n ELSE 0,
                                   reserved |-> 0]]
  <2>1. d \in [Item -> Counters] /\ Move(d)
    BY <1>6 DEF Restock, Counters
  <2> HIDE DEF d
  <2> QED
    BY <1>1, <2>1, MoveInLedger
<1>7. CASE UNCHANGED <<row, ledger>>
  BY <1>7 DEF ledgerVars
<1>8. CASE UNCHANGED vars
  BY <1>7, <1>8 DEF vars
<1>9. CASE Next
  <2>1. ASSUME NEW o \in Order, Age(o) PROVE UNCHANGED <<row, ledger>>
    BY <2>1 DEF Age
  <2>2. ASSUME NEW o \in Order, NEW p \in Online, AttachPayment(o, p)
        PROVE  UNCHANGED <<row, ledger>>
    BY <2>2 DEF AttachPayment
  <2>3. ASSUME NEW r \in Request, NEW o \in Order, Load(r, o)
        PROVE  UNCHANGED <<row, ledger>>
    BY <2>3 DEF Load
  <2>4. ASSUME NEW r \in Request,
               RefuseTransition(r) \/ MarkPaid(r) \/ RefuseFulfil(r) \/ RecordCod(r)
        PROVE  UNCHANGED <<row, ledger>>
    BY <2>4 DEF RefuseTransition, MarkPaid, RefuseFulfil, RecordCod
  <2>5. ASSUME SweepQuery \/ SweepCrash PROVE UNCHANGED <<row, ledger>>
    BY <2>5 DEF SweepQuery, SweepCrash
  <2> QED
    BY <1>2, <1>3, <1>4, <1>5, <1>6, <1>7, <1>9, <2>1, <2>2, <2>3, <2>4, <2>5
       DEF Next, Commit
<1> QED
  BY <1>8, <1>9

\* services.py:95-128 and 284-307: every service of the orders, however stale the
\* object it works from, keeps to what apps/inventory promises: its movements are
\* accepted and written as one batch, each change of a counter is in the ledger,
\* and none overwrites a quantity. StockLedger is what Inventory implements.
THEOREM StockUsed == Spec => LedgerSpec /\ [][AcceptedBatch]_ledgerVars
<1>1. Init => LedgerInit
  BY DEF Init
<1>2. IInv /\ [Next]_vars => [AcceptedBatch]_ledgerVars
  BY StepUsesStock
<1>3. AcceptedBatch => LedgerNext
  BY DEF AcceptedBatch, LedgerNext
<1> QED
  BY <1>1, <1>2, <1>3, Invariance, PTL DEF Spec, LedgerSpec
=============================================================================
