------------------------------- MODULE Orders -------------------------------
(***************************************************************************)
(* apps/orders/services.py under concurrency. A view, a webhook or a Celery *)
(* task loads an Order object, without a lock, and later runs a service in  *)
(* one transaction that decides from the loaded fields and writes only      *)
(* some columns. Between the two, any other request may have committed.     *)
(* The stock underneath is StockLedger: one batch of movements per service. *)
(***************************************************************************)
EXTENDS StockLedger, FiniteSetsExt

CONSTANTS
    Order,      \* the orders of one store
    Request,    \* requests in flight at the same time
    Qty,        \* Qty[o][i]: the quantity of item i on the lines of order o
    Target,     \* statuses the admin and the couriers ask for
    Online,     \* subset of {"gateway", "upi"}: online ways to pay offered
    MaxStock    \* bound: stock is received up to it

Status == {"pending", "confirmed", "processing", "packed", "shipped",
           "delivered", "cancelled", "failed", "returned", "refunded"}

ASSUME QtyAssumption == Qty \in [Order -> [Item -> Nat]]
ASSUME TargetAssumption == Target \subseteq Status
ASSUME OnlineAssumption == Online \subseteq {"gateway", "upi"}
ASSUME MaxStockAssumption == MaxStock \in Nat

VARIABLES
    status,         \* Order.status, "none" before the cart is checked out
    paid,           \* Order.payment_status = "paid"
    stockReserved,  \* Order.stock_reserved
    fulfilled,      \* every line's fulfilled_quantity is its quantity
    providers,      \* the providers of the order's Payment rows
    aged,           \* created more than older_than_hours ago
    booked,         \* booked[o][i]: net reserved_delta of the movements that
                    \* name order o as their reference
    request,        \* what each request loaded and is about to run
    batch           \* the orders the expiry sweep loaded and has still to cancel

orderVars == <<status, paid, stockReserved, fulfilled, providers, aged, booked>>
vars == <<row, ledger, orderVars, request, batch>>

\* Terminal states map to the empty set.
TRANSITIONS ==
    [s \in Status |->
        CASE s = "pending"    -> {"confirmed", "cancelled", "failed"}
          [] s = "confirmed"  -> {"processing", "cancelled"}
          [] s = "processing" -> {"packed", "cancelled"}
          [] s = "packed"     -> {"shipped", "cancelled"}
          [] s = "shipped"    -> {"delivered", "returned"}
          [] s = "delivered"  -> {"returned", "refunded"}
          [] s = "returned"   -> {"refunded"}
          [] OTHER            -> {}]

ReleaseOn == {"cancelled", "failed", "returned"}

Placed == {o \in Order : status[o] # "none"}

Idle == [op |-> "idle"]

\* What a request keeps of the order it loaded: the fields its service reads.
Job == [op : {"transition"}, order : Order, to : Target,
        status : Status, stockReserved : BOOLEAN]
         \cup [op : {"pay", "cod"}, order : Order, status : Status]
         \cup [op : {"fulfil"}, order : Order, outstanding : BOOLEAN]

Found == [order : Order, stockReserved : BOOLEAN]

\* The movements of order o's lines, each k times the line's quantity.
Lines(o, k, l) == [i \in Item |-> [quantity |-> k * Qty[o][i],
                                   reserved |-> l * Qty[o][i]]]

Book(o, l) == booked' = [booked EXCEPT ![o] =
                            [i \in Item |-> @[i] + l * Qty[o][i]]]

Init ==
    /\ LedgerInit
    /\ status = [o \in Order |-> "none"]
    /\ paid = [o \in Order |-> FALSE]
    /\ stockReserved = [o \in Order |-> FALSE]
    /\ fulfilled = [o \in Order |-> FALSE]
    /\ providers = [o \in Order |-> {}]
    /\ aged = [o \in Order |-> FALSE]
    /\ booked = [o \in Order |-> [i \in Item |-> 0]]
    /\ request = [r \in Request |-> Idle]
    /\ batch = {}
-----------------------------------------------------------------------------
\* place_order: reserve every line or roll the order back.
PlaceOrder(o) ==
    /\ status[o] = "none"
    /\ Move(Lines(o, 0, 1))
    /\ Book(o, 1)
    /\ status' = [status EXCEPT ![o] = "pending"]
    /\ stockReserved' = [stockReserved EXCEPT ![o] = TRUE]
    /\ UNCHANGED <<paid, fulfilled, providers, aged, request, batch>>

\* initiate_payment and record_offline_payment(UPI) add a Payment row.
AttachPayment(o, p) ==
    /\ o \in Placed
    /\ p = "gateway" => ~paid[o]
    /\ p \notin providers[o]
    /\ providers' = [providers EXCEPT ![o] = @ \cup {p}]
    /\ UNCHANGED <<row, ledger, status, paid, stockReserved, fulfilled, aged,
                   booked, request, batch>>

Age(o) ==
    /\ o \in Placed /\ ~aged[o]
    /\ aged' = [aged EXCEPT ![o] = TRUE]
    /\ UNCHANGED <<row, ledger, status, paid, stockReserved, fulfilled,
                   providers, booked, request, batch>>
-----------------------------------------------------------------------------
\* A view, webhook or task reads the order it will act on.
Load(r, o) ==
    /\ request[r] = Idle
    /\ o \in Placed
    /\ \E job \in
            { [op |-> "transition", order |-> o, to |-> s, status |-> status[o],
               stockReserved |-> stockReserved[o]] : s \in Target }
            \cup { [op |-> x, order |-> o, status |-> status[o]] :
                        x \in {"pay", "cod"} }
            \cup { [op |-> "fulfil", order |-> o, outstanding |-> ~fulfilled[o]] } :
         request' = [request EXCEPT ![r] = job]
    /\ UNCHANGED <<row, ledger, orderVars, batch>>

Done(r) == request' = [request EXCEPT ![r] = Idle]

\* Mutant of ReleaseStock: the flag is not written back.
ReleaseKeepsFlag(o, flag) ==
    /\ UNCHANGED stockReserved
    /\ IF flag THEN Move(Lines(o, 0, -1)) /\ Book(o, -1)
               ELSE UNCHANGED <<row, ledger, booked>>

\* _release_stock, from the stock_reserved flag the caller loaded.
ReleaseStock(o, flag) ==
    IF flag
    THEN /\ Move(Lines(o, 0, -1))
         /\ Book(o, -1)
         /\ stockReserved' = [stockReserved EXCEPT ![o] = FALSE]
    ELSE UNCHANGED <<row, ledger, booked, stockReserved>>

\* Mutant of TransitionOrder: only a pending order gives its stock back.
TransitionReleasesPending(o, from, to, flag) ==
    /\ to \in TRANSITIONS[from]
    /\ IF to \in ReleaseOn /\ from = "pending"
       THEN ReleaseStock(o, flag)
       ELSE UNCHANGED <<row, ledger, booked, stockReserved>>
    /\ status' = [status EXCEPT ![o] = to]

\* transition_order, from the status the caller loaded.
TransitionOrder(o, from, to, flag) ==
    /\ to \in TRANSITIONS[from]
    /\ IF to \in ReleaseOn
       THEN ReleaseStock(o, flag)
       ELSE UNCHANGED <<row, ledger, booked, stockReserved>>
    /\ status' = [status EXCEPT ![o] = to]

Transition(r) ==
    /\ request[r].op = "transition"
    /\ TransitionOrder(request[r].order, request[r].status, request[r].to,
                       request[r].stockReserved)
    /\ Done(r)
    /\ UNCHANGED <<paid, fulfilled, providers, aged, batch>>

\* OrderError, or a move to the status the order already has: nothing written.
RefuseTransition(r) ==
    /\ request[r].op = "transition"
    /\ request[r].to \notin TRANSITIONS[request[r].status]
    /\ Done(r)
    /\ UNCHANGED <<row, ledger, orderVars, batch>>

\* Mutants of MarkPaid: it writes the payment status into Order.status, or does
\* not confirm the order.
MarkPaidWrongField(r) ==
    /\ request[r].op = "pay"
    /\ LET o == request[r].order
       IN  /\ paid' = [paid EXCEPT ![o] = TRUE]
           /\ status' = [status EXCEPT ![o] = "paid"]
    /\ Done(r)
    /\ UNCHANGED <<row, ledger, stockReserved, fulfilled, providers, aged,
                   booked, batch>>

MarkPaidOnly(r) ==
    /\ request[r].op = "pay"
    /\ paid' = [paid EXCEPT ![request[r].order] = TRUE]
    /\ Done(r)
    /\ UNCHANGED <<row, ledger, status, stockReserved, fulfilled, providers, aged,
                   booked, batch>>

\* mark_paid: confirms the order if the caller loaded it pending.
MarkPaid(r) ==
    /\ request[r].op = "pay"
    /\ LET o == request[r].order
       IN  /\ paid' = [paid EXCEPT ![o] = TRUE]
           /\ status' = [status EXCEPT ![o] =
                IF request[r].status = "pending" THEN "confirmed" ELSE @]
    /\ Done(r)
    /\ UNCHANGED <<row, ledger, stockReserved, fulfilled, providers, aged,
                   booked, batch>>

\* Mutant of FulfillOrder: the sale takes the units but not the reservation.
FulfillKeepsReserved(r) ==
    /\ request[r].op = "fulfil"
    /\ LET o == request[r].order
           l == IF request[r].outstanding THEN -1 ELSE 0
       IN  /\ Move(Lines(o, l, 0))
           /\ Book(o, l)
           /\ fulfilled' = [fulfilled EXCEPT ![o] = TRUE]
           /\ stockReserved' = [stockReserved EXCEPT ![o] = FALSE]
    /\ Done(r)
    /\ UNCHANGED <<status, paid, providers, aged, batch>>

\* fulfill_order: no look at the status; consumes the lines it read as
\* outstanding, then clears the flag.
FulfillOrder(r) ==
    /\ request[r].op = "fulfil"
    /\ LET o == request[r].order
           l == IF request[r].outstanding THEN -1 ELSE 0
       IN  /\ Move(Lines(o, l, l))
           /\ Book(o, l)
           /\ fulfilled' = [fulfilled EXCEPT ![o] = TRUE]
           /\ stockReserved' = [stockReserved EXCEPT ![o] = FALSE]
    /\ Done(r)
    /\ UNCHANGED <<status, paid, providers, aged, batch>>

\* InsufficientStockError: the transaction rolls back, the view reports it.
RefuseFulfil(r) ==
    /\ request[r].op = "fulfil" /\ request[r].outstanding
    /\ ~Accepted(Lines(request[r].order, -1, -1))
    /\ Done(r)
    /\ UNCHANGED <<row, ledger, orderVars, batch>>

\* record_offline_payment for cash on delivery.
RecordCod(r) ==
    /\ request[r].op = "cod"
    /\ LET o == request[r].order
       IN  /\ providers' = [providers EXCEPT ![o] = @ \cup {"cod"}]
           /\ status' = [status EXCEPT ![o] =
                IF request[r].status = "pending" THEN "confirmed" ELSE @]
    /\ Done(r)
    /\ UNCHANGED <<row, ledger, paid, stockReserved, fulfilled, aged, booked,
                   batch>>
-----------------------------------------------------------------------------
\* Mutant of Stale: payments__isnull=True.
StaleWithoutPayment ==
    {o \in Placed : status[o] = "pending" /\ aged[o] /\ ~paid[o]
                    /\ providers[o] = {}}

\* expire_stale_pending_orders evaluates its query once, ...
Stale == {o \in Placed :
            /\ status[o] = "pending" /\ aged[o] /\ ~paid[o]
            /\ providers[o] # {} /\ "cod" \notin providers[o]}

SweepQuery ==
    /\ batch = {} /\ Stale # {}
    /\ batch' = {[order |-> o, stockReserved |-> stockReserved[o]] : o \in Stale}
    /\ UNCHANGED <<row, ledger, orderVars, request>>

\* ... then cancels each order it found, from the loaded object.
SweepCancel(e) ==
    /\ e \in batch
    /\ TransitionOrder(e.order, "pending", "cancelled", e.stockReserved)
    /\ batch' = batch \ {e}
    /\ UNCHANGED <<paid, fulfilled, providers, aged, request>>

\* The worker dies: the orders already cancelled stay cancelled.
SweepCrash ==
    /\ batch # {}
    /\ batch' = {}
    /\ UNCHANGED <<row, ledger, orderVars, request>>

\* receive_stock, and an adjustment that writes stock off.
Restock(i, n) ==
    /\ row[i].quantity + n \in 0..MaxStock
    /\ Move([j \in Item |-> [quantity |-> IF j = i THEN n ELSE 0,
                             reserved |-> 0]])
    /\ UNCHANGED <<orderVars, request, batch>>

Commit(r) == \/ Transition(r) \/ RefuseTransition(r) \/ MarkPaid(r)
             \/ FulfillOrder(r) \/ RefuseFulfil(r) \/ RecordCod(r)

Next ==
    \/ \E o \in Order : PlaceOrder(o) \/ Age(o)
    \/ \E o \in Order, p \in Online : AttachPayment(o, p)
    \/ \E r \in Request, o \in Order : Load(r, o)
    \/ \E r \in Request : Commit(r)
    \/ SweepQuery \/ SweepCrash
    \/ \E e \in batch : SweepCancel(e)
    \/ \E i \in Item, n \in {-1, 1} : Restock(i, n)

Spec == Init /\ [][Next]_vars

\* Celery beat runs the sweep every hour, and not every run is killed midway.
Fairness == WF_vars(SweepQuery) /\ SF_vars(\E e \in batch : SweepCancel(e))

FairSpec == Spec /\ Fairness
-----------------------------------------------------------------------------
TypeOK ==
    /\ row \in [Item -> Counters]
    /\ ledger \in [Item -> Counters]
    /\ status \in [Order -> Status \cup {"none"}]
    /\ paid \in [Order -> BOOLEAN]
    /\ stockReserved \in [Order -> BOOLEAN]
    /\ fulfilled \in [Order -> BOOLEAN]
    /\ providers \in [Order -> SUBSET {"gateway", "upi", "cod"}]
    /\ aged \in [Order -> BOOLEAN]
    /\ booked \in [Order -> [Item -> Int]]
    /\ request \in [Request -> Job \cup {Idle}]
    /\ batch \subseteq Found

Allocated(i) == MapThenSumSet(LAMBDA o : Qty[o][i],
                              {o \in Order : stockReserved[o]})

\* The movement rows that name an order agree with its stock_reserved flag: a
\* flagged order has reserved exactly its lines, an unflagged one nothing (a
\* second release, or a sale nobody reserved for, may leave it below zero).
HoldMatchesFlag ==
    \A o \in Order, i \in Item :
        IF stockReserved[o] THEN booked[o][i] = Qty[o][i] ELSE booked[o][i] <= 0

\* No unit stays reserved for an order that has let go of it: the reserved
\* count never exceeds the lines of the orders that carry the flag.
NoLeakedReservation == \A i \in Item : row[i].reserved <= Allocated(i)

\* An order that reads cancelled, failed or returned holds no stock, however
\* stale the object it was moved there from (services.py:5).
ClosedHoldsNothing == \A o \in Order : status[o] \in ReleaseOn => ~stockReserved[o]

\* The first payment confirms a pending order: whatever the interleaving, no
\* paid order reads pending (the sweep and the dashboards rely on it).
PaidNeverPending == \A o \in Order : paid[o] => status[o] # "pending"

\* services.py:205-208: an order with a gateway payment that nobody completes,
\* and that does not turn to cash on delivery, does not stay pending for ever
\* with the stock it holds.
AbandonedOrdersExpire ==
    \A o \in Order :
        aged[o] /\ "gateway" \in providers[o]
            ~> (status[o] # "pending" \/ "cod" \in providers[o])

\* inventory/models.py:4-5: reserved counts what unfulfilled orders hold.
ReservedIsAllocated == \A i \in Item : row[i].reserved = Allocated(i)

\* services.py:205: the sweep cancels orders whose payment never completed.
ExpiryOnlyUnpaid ==
    [][\A e \in batch : e \notin batch' /\ status'[e.order] = "cancelled"
                          => ~paid[e.order]]_vars

\* payments/services.py:228: a direct UPI order stays pending until staff
\* confirm that the money arrived.
UpiStaysPending ==
    [][\A e \in batch : e \notin batch' /\ status[e.order] = "pending"
            /\ providers[e.order] = {"upi"} => status'[e.order] = "pending"]_vars
=============================================================================
