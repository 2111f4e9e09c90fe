--------------------------- MODULE PaymentsProofs ---------------------------
(***************************************************************************)
(* Theorems about Payments, for any payments, refund ids and amounts: type  *)
(* correctness, what a row of a refund may be, what the refunded total is   *)
(* made of, and the order in keeping with its payments. The facts about     *)
(* sums of refunds are those of SumProofs.                                  *)
(***************************************************************************)
EXTENDS Payments, SumProofs

\* TypeOK without the total that refunded holds, which is a sum of rows.
OrderType == [status : {"pending", "confirmed", "refunded"}, paid : BOOLEAN]

Id == GatewayPayment \cup {NoPayment}

Typed ==
    /\ status \in [Payment -> PaymentStatus]
    /\ refunds \subseteq Row
    /\ gatewayId \in [Payment -> Id]
    /\ order \in OrderType
    /\ refunding \in [Payment -> [amount : 0..Amount, id : RefundId \cup {NoRefund}]]
    /\ capturing \subseteq [payment : Payment, id : Id]
    /\ offered \subseteq Payment
    /\ captured \subseteq GatewayPayment
    /\ issued \subseteq Issue
    /\ events \subseteq Event

\* The refund that a transaction with its answer is about.
Answered(p) == [id |-> refunding[p].id, payment |-> gatewayId[p],
                amount |-> refunding[p].amount]

\* The row that is written for a refund.
NewRow(p, id, r, who) == [id |-> id, payment |-> p, amount |-> r.amount,
                          refund |-> r, by |-> who]

\* An event of either shape tells of the refund.
Told(r) == RefundEvent(r) \in events \/ RefundPaymentEvent(r) \in events

\* The gateway: an id names one refund, and events tell of refunds it made.
GatewayHonest ==
    /\ \A r, s \in issued : r.id = s.id => r = s
    /\ \A r \in Issue : Told(r) => r \in issued

\* A refund whose answer has come is one the gateway made, of the gateway
\* payment that is still stored, and this payment has no row under its id:
\* whoever writes either waits for the lock.
AnswersNew ==
    \A p \in Payment : refunding[p].id # NoRefund =>
        /\ Answered(p) \in issued
        /\ ~KnownRefund(p, refunding[p].id)

RefundInv == GatewayHonest /\ AnswersNew /\ RefundsRecordedOnce

\* The refunds, or the rows, of one payment, and the rows of one payment under
\* the own id of a refund of one gateway payment.
Of(rows, p) == {r \in rows : r.payment = p}

Own(p, q) == {r \in refunds : r.payment = p /\ r.refund.payment = q
                                /\ r.id = r.refund.id}

\* The stored total is that of the rows, and the gateway refunds no more than
\* it took. (A gateway makes finitely many refunds, so that they have a sum.)
Finite == IsFiniteSet(issued) /\ IsFiniteSet(refunds)

Totalled ==
    /\ refunded \in [Payment -> Nat]
    /\ \A p \in Payment : refunded[p] = Sum(Of(refunds, p))

WithinAmount == \A q \in GatewayPayment : Sum(Of(issued, q)) <= Amount

MoneyInv == Finite /\ Totalled /\ WithinAmount

IInv ==
    /\ Typed /\ RefundInv /\ MoneyInv
    /\ PaidPaymentMeansPaidOrder
-----------------------------------------------------------------------------
\* A row that is written is one, and no refund's id is a payment's.
LEMMA NewRowIsRow ==
    ASSUME NEW p \in Payment, NEW r \in Issue, NEW id \in {r.id, r.payment},
           NEW who \in {"staff", "webhook"}
    PROVE  /\ NewRow(p, id, r, who) \in Row
           /\ r.id # r.payment
BY IdAssumption DEF NewRow, Row, Issue

\* The fields of a refund of the gateway.
LEMMA IssueFields ==
    ASSUME NEW r \in Issue
    PROVE  /\ r.id \in RefundId /\ r.payment \in GatewayPayment
           /\ r.amount \in 1..Amount /\ r.id # NoRefund
           /\ r = [id |-> r.id, payment |-> r.payment, amount |-> r.amount]
           /\ RefundEvent(r) \in Event /\ RefundPaymentEvent(r) \in Event
BY NoRefundAssumption DEF Issue, RefundEvent, RefundPaymentEvent, Event

\* What a refund transaction waits for; only one that holds the lock has an answer.
LEMMA RefundingFields ==
    ASSUME Typed, NEW p \in Payment
    PROVE  /\ refunding[p].id \in RefundId \cup {NoRefund}
           /\ refunding[p].amount \in 0..Amount
           /\ refunding[p] = [amount |-> refunding[p].amount, id |-> refunding[p].id]
           /\ refunding[p].id # NoRefund => Locked(p)
BY DEF Typed, Locked, NotRefunding

\* Events of different kinds differ, and those of different refunds.
LEMMA EventsDiffer ==
    ASSUME NEW r, NEW s, NEW p, NEW t \in {"captured", "failed"}
    PROVE  /\ RefundEvent(r) = RefundEvent(s) => r = s
           /\ RefundPaymentEvent(r) = RefundPaymentEvent(s) => r = s
           /\ RefundEvent(r) # RefundPaymentEvent(s)
           /\ RefundEvent(r) # [type |-> t, payment |-> p]
           /\ RefundPaymentEvent(r) # [type |-> t, payment |-> p]
BY DEF RefundEvent, RefundPaymentEvent
-----------------------------------------------------------------------------
\* The amounts of refunds and rows as a function, whose sums SumProofs is about.
Amt == [r \in Row \cup Issue |-> r.amount]

\* Amounts are natural numbers.
LEMMA AmtNat == \A r \in Row \cup Issue : Amt[r] = r.amount /\ Amt[r] \in Nat
<1> SUFFICES ASSUME NEW r \in Row \cup Issue PROVE Amt[r] = r.amount /\ Amt[r] \in Nat
    OBVIOUS
<1>1. Amt[r] = r.amount
  BY DEF Amt
<1>2. r.amount \in 1..Amount
  BY DEF Row, Issue
<1>3. \A k \in 1..Amount : k \in Nat
  BY AmountAssumption
<1> QED  BY <1>1, <1>2, <1>3

\* The sum of rows, as the model writes it, is one of SumProofs.
LEMMA SumAmt ==
    ASSUME NEW rows, rows \subseteq Row \cup Issue, IsFiniteSet(rows)
    PROVE  Sum(rows) = SumFunctionOnSet(Amt, rows) /\ Sum(rows) \in Nat
<1> DEFINE Adds(g) ==
             g = [s \in SUBSET rows |->
                    IF s = {} THEN 0 ELSE Pick(s).amount + g[s \ {Pick(s)}]]
           h == CHOOSE g : Adds(g)
<1>1. Sum(rows) = h[rows]
  BY DEF Sum, MapThenSumSet, MapThenFoldSet, Pick
<1>2. \A s \in SUBSET rows : s # {} => Amt[Pick(s)] = Pick(s).amount
  BY PickIn, AmtNat
<1>3. ASSUME NEW g PROVE Adds(g) <=> SumsUp(Amt, rows, g)
  <2>1. [s \in SUBSET rows |->
           IF s = {} THEN 0 ELSE Pick(s).amount + g[s \ {Pick(s)}]]
        = [s \in SUBSET rows |->
             IF s = {} THEN 0 ELSE Amt[Pick(s)] + g[s \ {Pick(s)}]]
    BY <1>2
  <2> QED  BY <2>1 DEF SumsUp
<1>4. \E g : Adds(g)
  BY <1>3, SumsExist
<1>5. Adds(h)
  <2> HIDE DEF Adds
  <2> QED  BY <1>4
<1> HIDE DEF Adds, h
<1>6. Sum(rows) = SumFunctionOnSet(Amt, rows)
  BY <1>1, <1>3, <1>5, SumIs
<1> QED  BY <1>6, SumNat, AmtNat

\* Rows of one payment under the own ids of refunds of one gateway payment are
\* of refunds that differ, so they sum up to no more than those.
LEMMA RowsWithinIssued ==
    ASSUME Typed, RefundsRecordedOnce, Finite,
           NEW p \in Payment, NEW q \in GatewayPayment
    PROVE  Sum(Own(p, q)) <= Sum(Of(issued, q))
<1> DEFINE S == Own(p, q)
           T == Of(issued, q)
           h == [row \in S |-> row.refund]
<1>1. S \subseteq Row /\ T \subseteq Issue /\ IsFiniteSet(S) /\ IsFiniteSet(T)
  <2>1. S \subseteq refunds /\ T \subseteq issued
    BY DEF Of, Own
  <2> HIDE DEF S, T
  <2> QED  BY <2>1, FS_Subset DEF Typed, Finite
<1>2. \A row \in S : h[row] \in T /\ Amt[row] <= Amt[h[row]]
  <2> SUFFICES ASSUME NEW row \in S
               PROVE  h[row] \in T /\ Amt[row] <= Amt[h[row]]
      OBVIOUS
  <2>1. h[row] = row.refund /\ row.refund \in T /\ row.refund.amount = row.amount
    BY DEF RefundsRecordedOnce, Of, Own
  <2>2. Amt[row] = row.amount /\ Amt[row.refund] = row.amount /\ Amt[row] \in Nat
    <3>1. row \in Row /\ row.refund \in Issue
      BY <1>1, <2>1
    <3> HIDE DEF S, T, h
    <3> QED  BY <2>1, <3>1, AmtNat
  <2> HIDE DEF S, T, h
  <2> QED  BY <2>1, <2>2
<1>3. \A a, b \in S : h[a] = h[b] => a = b
  BY DEF RefundsRecordedOnce, Own
<1>4. /\ \A x \in S : Amt[x] \in Nat
      /\ \A y \in T : Amt[y] \in Nat
  BY <1>1, AmtNat
<1> HIDE DEF S, T, h
<1>5. SumFunctionOnSet(Amt, S) <= SumFunctionOnSet(Amt, T)
  BY <1>1, <1>2, <1>3, <1>4, SumInjected
<1> QED  BY <1>1, <1>5, SumAmt DEF S, T

\* What the stored total is made of.
LEMMA TotalsBounded ==
    ASSUME Typed, RefundsRecordedOnce, MoneyInv
    PROVE  NeverOverRefunded
<1> SUFFICES ASSUME NEW p \in Payment
             PROVE  /\ refunded[p] = Sum(Of(refunds, p))
                    /\ \A q \in GatewayPayment : Sum(Own(p, q)) <= Amount
    BY DEF NeverOverRefunded, Of, Own
<1>1. refunded[p] = Sum(Of(refunds, p))
  BY DEF MoneyInv, Totalled
<1>2. ASSUME NEW q \in GatewayPayment PROVE Sum(Own(p, q)) <= Amount
  <2> DEFINE a == Sum(Own(p, q))
             b == Sum(Of(issued, q))
  <2>1. a <= b /\ b <= Amount
    BY RowsWithinIssued DEF MoneyInv, WithinAmount
  <2>2. a \in Nat /\ b \in Nat
    <3>1. Own(p, q) \subseteq refunds /\ Of(issued, q) \subseteq issued
      BY DEF Of, Own
    <3> QED  BY <3>1, SumAmt, FS_Subset DEF Typed, MoneyInv, Finite
  <2> HIDE DEF a, b
  <2>3. a <= Amount
    BY <2>1, <2>2, AmountAssumption
  <2> QED  BY <2>3 DEF a
<1> QED  BY <1>1, <1>2

-----------------------------------------------------------------------------
\* The initial state.
LEMMA InitHolds == Init => IInv
<1> SUFFICES ASSUME Init PROVE IInv
    OBVIOUS
<1>1. Typed
  <2>1. NotRefunding \in [amount : 0..Amount, id : RefundId \cup {NoRefund}]
    BY AmountAssumption DEF NotRefunding
  <2>2. refunding \in [Payment -> [amount : 0..Amount, id : RefundId \cup {NoRefund}]]
    BY <2>1 DEF Init
  <2>3. events \subseteq Event
    BY DEF Init, CapturedEvent, Event
  <2> QED  BY <2>2, <2>3 DEF Init, Typed, PaymentStatus, OrderType, Id
<1>2. RefundInv
  <2>1. GatewayHonest
    BY EventsDiffer DEF Init, GatewayHonest, Told, CapturedEvent
  <2>2. AnswersNew
    BY DEF Init, AnswersNew, NotRefunding
  <2>3. RefundsRecordedOnce
    BY DEF Init, RefundsRecordedOnce
  <2> QED  BY <2>1, <2>2, <2>3 DEF RefundInv
<1>3. PaidPaymentMeansPaidOrder
  BY DEF Init, PaidPaymentMeansPaidOrder
<1>4. MoneyInv
  <2>1. Finite
    BY FS_EmptySet DEF Init, Finite
  <2>2. \A p : Of(refunds, p) = {} /\ Of(issued, p) = {}
    BY DEF Init, Of
  <2>3. Sum({}) = 0
    BY SumAmt, SumEmpty, FS_EmptySet
  <2>4. Totalled
    BY <2>2, <2>3 DEF Init, Totalled
  <2>5. WithinAmount
    BY <2>2, <2>3, AmountAssumption DEF WithinAmount
  <2> QED  BY <2>1, <2>4, <2>5 DEF MoneyInv
<1> QED  BY <1>1, <1>2, <1>3, <1>4 DEF IInv
-----------------------------------------------------------------------------
\* What an action does to the status column, the stored ids and the order, in
\* the ways that there are: it settles a payment that is not locked, or makes it
\* something else than paid.
Settles(p) ==
    /\ ~Locked(p)
    /\ status' = [status EXCEPT ![p] = "paid"] /\ order' = PaidOrder
    /\ \E id \in Id : gatewayId' = [gatewayId EXCEPT ![p] = id]

OrderKept == order' = order \/ RefundOrder

Unsettles(p) ==
    /\ \E s \in PaymentStatus \ {"paid"} : status' = [status EXCEPT ![p] = s]
    /\ OrderKept /\ gatewayId' = gatewayId

Leaves == status' = status /\ OrderKept /\ gatewayId' = gatewayId

StatusChange == Leaves \/ \E p \in Payment : Settles(p) \/ Unsettles(p)

\* Summing up a payment's rows leaves it in a status that is not paid.
LEMMA TotalsUnsettle ==
    ASSUME NEW p, NEW rows, ApplyTotals(p, rows)
    PROVE  \E s \in PaymentStatus \ {"paid"} : status' = [status EXCEPT ![p] = s]
<1> DEFINE full == Sum({r \in rows : r.payment = p}) >= Amount
<1>1. CASE full
  BY <1>1 DEF ApplyTotals, PaymentStatus
<1>2. CASE ~full
  BY <1>2 DEF ApplyTotals, PaymentStatus
<1> QED  BY <1>1, <1>2

\* Every action changes statuses in one of those ways.
LEMMA StatusChanges == Typed /\ [Next]_vars => StatusChange
<1> SUFFICES ASSUME Typed, [Next]_vars PROVE StatusChange
    OBVIOUS
<1>1. ASSUME NEW p \in Payment, NEW q \in GatewayPayment,
             Verify(p, q) \/ WebhookCaptured(p, q)
      PROVE  Settles(p)
  BY <1>1 DEF Verify, WebhookCaptured, Settle, Settles, Id
<1>2. ASSUME NEW p \in Payment, StaffCapture(p) \/ WebhookOrderPaid(p)
      PROVE  Settles(p)
  <2>1. CASE StaffCapture(p)
    <3>1. PICK copy \in capturing : Settle(p, copy.id)
      BY <2>1 DEF StaffCapture
    <3>2. copy.id \in Id
      BY DEF Typed
    <3> QED  BY <2>1, <3>1, <3>2 DEF StaffCapture, Settle, Settles
  <2>2. CASE WebhookOrderPaid(p)
    <3>1. gatewayId[p] \in Id
      BY DEF Typed
    <3> QED  BY <2>2, <3>1 DEF WebhookOrderPaid, Settle, Settles
  <2> QED  BY <1>2, <2>1, <2>2
<1>3. ASSUME NEW p \in Payment, Initiate(p) \/ VerifyFails(p) \/ WebhookFailed(p)
      PROVE  Unsettles(p)
  BY <1>3 DEF Initiate, VerifyFails, WebhookFailed, Unsettles, OrderKept, PaymentStatus
<1>4. ASSUME NEW p \in Payment, Started(p)
      PROVE  Unsettles(p)
  BY <1>4 DEF Started, Unsettles, OrderKept, PaymentStatus
<1>5. ASSUME NEW p \in Payment, NEW id, NEW r, RecordRefund(p, id, r)
      PROVE  Unsettles(p)
  BY <1>5, TotalsUnsettle DEF RecordRefund, Unsettles, OrderKept
<1>6. ASSUME NEW p \in Payment, NEW r, WebhookRefund(p, r)
      PROVE  Unsettles(p)
  BY <1>5, <1>6 DEF WebhookRefund
<1>7. ASSUME NEW r, WebhookRefundOfPayment(r)
      PROVE  r.payment \in Payment /\ Unsettles(r.payment)
  BY <1>5, <1>7 DEF WebhookRefundOfPayment
<1>8. ASSUME NEW p \in Payment, RefundCommit(p)
      PROVE  Unsettles(p)
  <2>1. \E s \in PaymentStatus \ {"paid"} : status' = [status EXCEPT ![p] = s]
    BY <1>8, TotalsUnsettle DEF RefundCommit
  <2> QED  BY <1>8, <2>1 DEF RefundCommit, Unsettles, OrderKept
<1>9. CASE RefundOrderByHand
  BY <1>9 DEF RefundOrderByHand, StatusChange, Leaves, OrderKept
<1>10. ASSUME NEW p \in Payment, Attempts(p) \/ StaffLoad(p) \/ RefundAbort(p)
       PROVE  Leaves
  BY <1>10 DEF Attempts, StaffLoad, RefundAbort, dbVars, Leaves, OrderKept
<1>11. ASSUME NEW r, WebhookUnmatched(r)
       PROVE  Leaves
  BY <1>11 DEF WebhookUnmatched, dbVars, Leaves, OrderKept
<1>12. ASSUME NEW p, NEW n, RefundBegin(p, n)
       PROVE  Leaves
  BY <1>12 DEF RefundBegin, dbVars, Leaves, OrderKept
<1>13. ASSUME NEW p, NEW id, NEW n, RefundAtGateway(p, id) \/ DashboardRefund(p, id, n)
       PROVE  Leaves
  BY <1>13 DEF RefundAtGateway, DashboardRefund, dbVars, Leaves, OrderKept
<1>14. CASE UNCHANGED vars
  BY <1>14 DEF vars, StatusChange, Leaves, OrderKept
<1> QED
  BY <1>1, <1>2, <1>3, <1>4, <1>6, <1>7, <1>8, <1>9, <1>10, <1>11, <1>12, <1>13,
     <1>14 DEF Next, StatusChange

\* An order once paid stays so, and no payment becomes paid without it.
LEMMA PaidStep ==
    ASSUME Typed, PaidPaymentMeansPaidOrder, [Next]_vars
    PROVE  PaidPaymentMeansPaidOrder'
<1>1. StatusChange
  BY StatusChanges
<1>2. order.paid => order'.paid
  BY <1>1 DEF StatusChange, Leaves, Settles, Unsettles, OrderKept, RefundOrder,
              PaidOrder, Typed, OrderType
<1>3. CASE \E p \in Payment : Settles(p)
  BY <1>3 DEF Settles, PaidOrder, PaidPaymentMeansPaidOrder
<1>4. ASSUME NEW p \in Payment, Unsettles(p), NEW q \in Payment, status'[q] = "paid"
      PROVE  status[q] = "paid"
  BY <1>4 DEF Unsettles, Typed
<1>5. CASE Leaves
  BY <1>2, <1>5 DEF Leaves, PaidPaymentMeansPaidOrder
<1> QED  BY <1>1, <1>2, <1>3, <1>4, <1>5 DEF StatusChange, PaidPaymentMeansPaidOrder
-----------------------------------------------------------------------------
\* What a step does to the refunds: the rows, the refunds the gateway has made
\* and tells of, and the answers that transactions wait for or have, with the
\* gateway payment that they are about.
AnswersKept ==
    \A p \in Payment : \/ refunding'[p].id = NoRefund
                       \/ refunding'[p] = refunding[p] /\ gatewayId'[p] = gatewayId[p]

NothingTold == \A r \in Issue : Told(r)' => Told(r)

\* Nothing new is known of refunds.
NoNews == refunds' = refunds /\ issued' = issued /\ AnswersKept /\ NothingTold

\* The gateway makes a refund, asked by refund_payment or not.
MakesRefund(r) ==
    /\ r \in Issue /\ \A s \in issued : s.id # r.id
    /\ Sum(Of(issued, r.payment)) + r.amount <= Amount
    /\ issued' = issued \cup {r}
    /\ \A s \in Issue : Told(s)' => Told(s) \/ s = r
    /\ UNCHANGED <<refunds, gatewayId>>
    /\ \A p \in Payment :
        \/ refunding'[p] = refunding[p]
        \/ Answered(p)' = r /\ refunding'[p].id = r.id

\* A webhook writes a row for a refund that has none under the id it is told.
WebhookWrites(p, id, r) ==
    /\ p \in Payment /\ r \in Issue /\ id \in {r.id, r.payment} /\ Told(r)
    /\ ~Locked(p) /\ ~KnownRefund(p, id)
    /\ refunds' = refunds \cup {NewRow(p, id, r, "webhook")}
    /\ UNCHANGED <<issued, events, refunding, gatewayId>>

\* refund_payment writes the row of the refund it made, and lets the lock go.
StaffWrites(p) ==
    /\ p \in Payment /\ refunding[p].id # NoRefund
    /\ refunds' = refunds \cup {NewRow(p, refunding[p].id, Answered(p), "staff")}
    /\ refunding' = [refunding EXCEPT ![p] = NotRefunding]
    /\ UNCHANGED <<issued, events, gatewayId>>

RefundChange ==
    \/ NoNews
    \/ \E r \in Issue : MakesRefund(r)
    \/ \E p \in Payment : \E r \in Issue : \E id : WebhookWrites(p, id, r)
    \/ \E p \in Payment : StaffWrites(p)

\* Steps that touch neither rows nor the gateway's refunds nor the locks, and
\* store an id only in a payment that is not locked.
LEMMA Untouched ==
    ASSUME Typed, UNCHANGED <<refunds, refunding, issued, events>>,
           gatewayId' = gatewayId
             \/ \E p \in Payment : \E id : ~Locked(p)
                  /\ gatewayId' = [gatewayId EXCEPT ![p] = id]
    PROVE  NoNews
<1>1. ASSUME NEW p \in Payment, refunding[p].id # NoRefund
      PROVE  gatewayId'[p] = gatewayId[p]
  BY <1>1, RefundingFields DEF Typed
<1> QED  BY <1>1 DEF NoNews, AnswersKept, NothingTold, Told

\* A refund at the gateway is new and within what is left of the payment.
LEMMA GatewayMakes ==
    ASSUME NEW q \in GatewayPayment, NEW id \in RefundId, NEW n \in 1..Amount,
           GatewayRefund(q, id, n)
    PROVE  LET r == [id |-> id, payment |-> q, amount |-> n]
           IN  /\ r \in Issue /\ \A s \in issued : s.id # r.id
               /\ Sum(Of(issued, r.payment)) + r.amount <= Amount
               /\ issued' = issued \cup {r}
               /\ \A s \in Issue : Told(s)' => Told(s) \/ s = r
               /\ events' \subseteq events \cup {RefundEvent(r), RefundPaymentEvent(r)}
<1> DEFINE r == [id |-> id, payment |-> q, amount |-> n]
<1>1. r \in Issue /\ r.id = id /\ r.payment = q /\ r.amount = n
  BY DEF Issue
<1>2. /\ \A s \in issued : s.id # id
      /\ Sum(Of(issued, q)) + n <= Amount
      /\ issued' = issued \cup {r}
      /\ events' \subseteq events \cup {RefundEvent(r), RefundPaymentEvent(r)}
  BY DEF GatewayRefund, Of
<1> HIDE DEF r
<1>3. \A s \in Issue : Told(s)' => Told(s) \/ s = r
  BY <1>2, EventsDiffer DEF Told
<1> QED  BY <1>1, <1>2, <1>3 DEF r

\* Every action is one of those.
LEMMA RefundChanges == Typed /\ [Next]_vars => RefundChange
<1> SUFFICES ASSUME Typed, [Next]_vars PROVE RefundChange
    OBVIOUS
<1>1. ASSUME NEW p \in Payment,
             Initiate(p) \/ Started(p) \/ VerifyFails(p) \/ StaffLoad(p)
               \/ StaffCapture(p) \/ WebhookOrderPaid(p) \/ WebhookFailed(p)
      PROVE  NoNews
  <2>1. CASE Initiate(p) \/ Started(p)
    BY <2>1, Untouched DEF Initiate, Started, gatewayVars
  <2>2. CASE StaffCapture(p) \/ WebhookOrderPaid(p)
    BY <2>2, Untouched DEF StaffCapture, WebhookOrderPaid, Settle, gatewayVars
  <2>3. CASE VerifyFails(p) \/ StaffLoad(p) \/ WebhookFailed(p)
    BY <2>3, Untouched DEF VerifyFails, StaffLoad, WebhookFailed, gatewayVars, dbVars
  <2> QED  BY <1>1, <2>1, <2>2, <2>3
<1>2. ASSUME NEW p \in Payment, NEW q \in GatewayPayment,
             Verify(p, q) \/ WebhookCaptured(p, q)
      PROVE  NoNews
  BY <1>2, Untouched DEF Verify, WebhookCaptured, Settle, gatewayVars
<1>3. ASSUME NEW p \in Payment, Attempts(p)
      PROVE  NoNews
  <2>1. NothingTold
    BY <1>3, EventsDiffer DEF Attempts, CapturedEvent, NothingTold, Told
  <2> QED  BY <1>3, <2>1 DEF Attempts, dbVars, NoNews, AnswersKept
<1>4. ASSUME NEW p \in Payment, RefundAbort(p) \/ \E n \in 1..Amount : RefundBegin(p, n)
      PROVE  NoNews
  <2>1. AnswersKept
    BY <1>4 DEF RefundAbort, RefundBegin, NotRefunding, Typed, dbVars, AnswersKept
  <2> QED
    BY <1>4, <2>1 DEF RefundAbort, RefundBegin, dbVars, gatewayVars, NoNews,
                      NothingTold, Told
<1>5. ASSUME NEW r \in Issue, WebhookUnmatched(r)
      PROVE  NoNews
  BY <1>5 DEF WebhookUnmatched, dbVars, NoNews, AnswersKept, NothingTold, Told
<1>6. CASE RefundOrderByHand \/ UNCHANGED vars
  BY <1>6, Untouched DEF RefundOrderByHand, vars, gatewayVars, RefundChange
<1>7. ASSUME NEW p \in Payment, NEW id, NEW r \in Issue, id \in {r.id, r.payment},
             Told(r), ~Locked(p), RecordRefund(p, id, r)
      PROVE  WebhookWrites(p, id, r)
  BY <1>7 DEF RecordRefund, ApplyTotals, gatewayVars, WebhookWrites, NewRow
<1>8. ASSUME NEW p \in Payment, NEW r \in Issue, WebhookRefund(p, r)
      PROVE  WebhookWrites(p, r.id, r)
  BY <1>7, <1>8 DEF WebhookRefund, Told
<1>9. ASSUME NEW r \in Issue, WebhookRefundOfPayment(r)
      PROVE  r.payment \in Payment /\ WebhookWrites(r.payment, r.payment, r)
  BY <1>7, <1>9 DEF WebhookRefundOfPayment, Told
<1>10. ASSUME NEW p \in Payment, RefundCommit(p)
       PROVE  StaffWrites(p)
  BY <1>10 DEF RefundCommit, ApplyTotals, gatewayVars, StaffWrites, NewRow, Answered
<1>11. ASSUME NEW q \in GatewayPayment, NEW id \in RefundId, NEW n \in 1..Amount,
             DashboardRefund(q, id, n)
       PROVE  \E r \in Issue : MakesRefund(r)
  <2>1. MakesRefund([id |-> id, payment |-> q, amount |-> n])
    BY <1>11, GatewayMakes DEF DashboardRefund, dbVars, MakesRefund
  <2> QED  BY <2>1 DEF MakesRefund
<1>12. ASSUME NEW p \in Payment, NEW id \in RefundId, RefundAtGateway(p, id)
       PROVE  \E r \in Issue : MakesRefund(r)
  <2> DEFINE n == refunding[p].amount
             q == gatewayId[p]
             r == [id |-> id, payment |-> q, amount |-> n]
  <2>1. n \in 1..Amount /\ q \in GatewayPayment
    <3>1. Locked(p) /\ refunding[p].id = NoRefund /\ q # NoPayment
      BY <1>12 DEF RefundAtGateway
    <3>2. n # 0
      BY <3>1, RefundingFields DEF Locked, NotRefunding
    <3>3. n \in 0..Amount /\ q \in Id
      BY RefundingFields DEF Typed
    <3> HIDE DEF n, q
    <3> QED  BY <3>1, <3>2, <3>3, AmountAssumption DEF Id
  <2>2. GatewayRefund(q, id, n) /\ UNCHANGED <<refunds, gatewayId>>
    BY <1>12 DEF RefundAtGateway, dbVars
  <2>3. refunding' = [refunding EXCEPT ![p].id = id]
    BY <1>12 DEF RefundAtGateway
  <2>4. /\ refunding'[p].id = id /\ refunding'[p].amount = n
        /\ \A o \in Payment : o # p => refunding'[o] = refunding[o]
    BY <2>3, RefundingFields DEF Typed
  <2>5. Answered(p)' = r
    BY <2>2, <2>4 DEF Answered
  <2>6. MakesRefund(r)
    <3> HIDE DEF n, q
    <3>1. r.id = id
      OBVIOUS
    <3> HIDE DEF r
    <3> QED
      BY <2>1, <2>2, <2>4, <2>5, <3>1, GatewayMakes DEF MakesRefund, r
  <2> QED  BY <2>6 DEF MakesRefund
<1> QED
  BY <1>1, <1>2, <1>3, <1>4, <1>5, <1>6, <1>8, <1>9, <1>10, <1>11, <1>12
     DEF Next, RefundChange
-----------------------------------------------------------------------------
\* Steps that bring no news of a refund.
LEMMA NoNewsStep ==
    ASSUME Typed, RefundInv, NoNews
    PROVE  RefundInv'
<1>1. GatewayHonest'
  BY DEF NoNews, NothingTold, RefundInv, GatewayHonest
<1>2. AnswersNew'
  <2> SUFFICES ASSUME NEW p \in Payment, refunding'[p].id # NoRefund
               PROVE  Answered(p)' \in issued' /\ ~KnownRefund(p, refunding[p].id)'
      BY DEF AnswersNew
  <2>1. refunding'[p] = refunding[p] /\ gatewayId'[p] = gatewayId[p]
    BY DEF NoNews, AnswersKept
  <2> QED  BY <2>1 DEF NoNews, RefundInv, AnswersNew, Answered, KnownRefund
<1>3. RefundsRecordedOnce'
  BY DEF NoNews, RefundInv, RefundsRecordedOnce
<1> QED  BY <1>1, <1>2, <1>3 DEF RefundInv

\* The gateway's new refund has an id that no row and no answer has.
LEMMA MakesStep ==
    ASSUME Typed, RefundInv, NEW r \in Issue, MakesRefund(r)
    PROVE  RefundInv'
<1>1. GatewayHonest'
  <2>1. \A a, b \in issued' : a.id = b.id => a = b
    BY DEF MakesRefund, RefundInv, GatewayHonest
  <2>2. \A a \in Issue : Told(a)' => a \in issued'
    BY DEF MakesRefund, RefundInv, GatewayHonest
  <2> QED  BY <2>1, <2>2 DEF GatewayHonest
<1>2. \A row \in refunds : row.id # r.id
  <2> SUFFICES ASSUME NEW row \in refunds, row.id = r.id PROVE FALSE
      OBVIOUS
  <2>1. row.refund \in issued /\ row.id \in {row.refund.id, row.refund.payment}
    BY DEF RefundInv, RefundsRecordedOnce
  <2>2. row.refund.id # r.id
    BY <2>1 DEF MakesRefund
  <2>3. row.refund.payment # r.id
    BY <2>1, IssueFields, IdAssumption DEF Typed
  <2> QED  BY <2>1, <2>2, <2>3
<1>3. AnswersNew'
  <2> SUFFICES ASSUME NEW p \in Payment, refunding'[p].id # NoRefund
               PROVE  Answered(p)' \in issued' /\ ~KnownRefund(p, refunding[p].id)'
      BY DEF AnswersNew
  <2>1. CASE refunding'[p] = refunding[p]
    BY <2>1 DEF MakesRefund, RefundInv, AnswersNew, Answered, KnownRefund
  <2>2. CASE Answered(p)' = r /\ refunding'[p].id = r.id
    BY <1>2, <2>2 DEF MakesRefund, KnownRefund
  <2> QED  BY <2>1, <2>2 DEF MakesRefund
<1>4. RefundsRecordedOnce'
  BY DEF MakesRefund, RefundInv, RefundsRecordedOnce
<1> QED  BY <1>1, <1>3, <1>4 DEF RefundInv

\* A row under the same id would be a row that KnownRefund finds, and an answer
\* of this payment would hold the lock the webhook waits for.
LEMMA WebhookStep ==
    ASSUME Typed, RefundInv, NEW p \in Payment, NEW r \in Issue, NEW id,
           WebhookWrites(p, id, r)
    PROVE  RefundInv'
<1> DEFINE new == NewRow(p, id, r, "webhook")
<1>1. /\ r \in issued /\ new.refund = r /\ new.amount = r.amount
      /\ new.id = id /\ new.payment = p
  BY DEF WebhookWrites, RefundInv, GatewayHonest, NewRow
<1>2. refunds' = refunds \cup {new} /\ id \in {r.id, r.payment} /\ issued' = issued
  BY DEF WebhookWrites
<1>3. \A row \in refunds : row.payment = p => row.id # id
  BY DEF WebhookWrites, KnownRefund
<1>4. AnswersNew'
  <2> SUFFICES ASSUME NEW o \in Payment, refunding[o].id # NoRefund
               PROVE  Answered(o) \in issued /\ ~KnownRefund(o, refunding[o].id)'
      BY DEF WebhookWrites, AnswersNew, Answered
  <2>1. Answered(o) \in issued /\ ~KnownRefund(o, refunding[o].id)
    BY DEF RefundInv, AnswersNew
  <2>2. o # p
    BY RefundingFields DEF WebhookWrites
  <2>3. refunding' = refunding
    BY DEF WebhookWrites
  <2> HIDE DEF new
  <2> QED  BY <1>1, <1>2, <2>1, <2>2, <2>3 DEF KnownRefund
<1>5. RefundsRecordedOnce'
  <2> HIDE DEF new
  <2> QED  BY <1>1, <1>2, <1>3 DEF RefundInv, RefundsRecordedOnce
<1>6. GatewayHonest'
  BY DEF WebhookWrites, RefundInv, GatewayHonest, Told
<1> QED  BY <1>4, <1>5, <1>6 DEF RefundInv

\* The refund transaction that writes the row it got the answer for.
LEMMA StaffStep ==
    ASSUME Typed, RefundInv, NEW p \in Payment, StaffWrites(p)
    PROVE  RefundInv'
<1> DEFINE id == refunding[p].id
           r == Answered(p)
           new == NewRow(p, id, r, "staff")
<1>1. r \in issued /\ ~KnownRefund(p, id) /\ r.id = id
  BY DEF StaffWrites, RefundInv, AnswersNew, Answered
<1>2. /\ new.refund = r /\ new.amount = r.amount
      /\ new.id = id /\ new.payment = p
  BY DEF NewRow
<1>3. refunds' = refunds \cup {new} /\ issued' = issued
  BY DEF StaffWrites
<1>4. AnswersNew'
  <2> SUFFICES ASSUME NEW o \in Payment, refunding'[o].id # NoRefund
               PROVE  Answered(o)' \in issued' /\ ~KnownRefund(o, refunding[o].id)'
      BY DEF AnswersNew
  <2>1. o # p /\ refunding'[o] = refunding[o]
    BY DEF StaffWrites, NotRefunding, Typed
  <2>2. Answered(o) \in issued /\ ~KnownRefund(o, refunding[o].id)
    BY <2>1 DEF RefundInv, AnswersNew
  <2>3. Answered(o)' = Answered(o)
    BY <2>1 DEF Answered, StaffWrites
  <2> HIDE DEF new
  <2> QED  BY <1>2, <1>3, <2>1, <2>2, <2>3 DEF KnownRefund
<1>5. RefundsRecordedOnce'
  <2> HIDE DEF new, r, id
  <2>1. \A row \in refunds : row.payment = p => row.id # id
    BY <1>1 DEF KnownRefund
  <2> QED  BY <1>1, <1>2, <1>3, <2>1 DEF RefundInv, RefundsRecordedOnce
<1>6. GatewayHonest'
  BY DEF StaffWrites, RefundInv, GatewayHonest, Told
<1> QED  BY <1>4, <1>5, <1>6 DEF RefundInv

\* Every step keeps the rows what they should be.
LEMMA RefundStep ==
    ASSUME Typed, RefundInv, [Next]_vars
    PROVE  RefundInv'
BY RefundChanges, NoNewsStep, MakesStep, WebhookStep, StaffStep
   DEF RefundChange, StaffWrites
-----------------------------------------------------------------------------
\* Settling and unsettling keep the columns in their types.
LEMMA StatusTyped ==
    ASSUME Typed, StatusChange
    PROVE  /\ status' \in [Payment -> PaymentStatus]
           /\ gatewayId' \in [Payment -> Id]
           /\ order' \in OrderType
<1>1. /\ order \in OrderType /\ PaidOrder \in OrderType
      /\ [order EXCEPT !.status = "refunded"] \in OrderType
  BY DEF Typed, PaidOrder, OrderType
<1>2. ASSUME NEW p \in Payment, Settles(p)
      PROVE  status' \in [Payment -> PaymentStatus] /\ gatewayId' \in [Payment -> Id]
  BY <1>2 DEF Settles, Typed, PaymentStatus
<1>3. ASSUME NEW p \in Payment, Unsettles(p)
      PROVE  status' \in [Payment -> PaymentStatus] /\ gatewayId' \in [Payment -> Id]
  BY <1>3 DEF Unsettles, Typed
<1>4. order' \in {order, PaidOrder, [order EXCEPT !.status = "refunded"]}
  BY DEF StatusChange, Settles, Unsettles, Leaves, OrderKept, RefundOrder
<1>5. status' \in [Payment -> PaymentStatus] /\ gatewayId' \in [Payment -> Id]
  <2>1. CASE Leaves
    BY <2>1 DEF Leaves, Typed
  <2> QED  BY <2>1, <1>2, <1>3 DEF StatusChange
<1> QED  BY <1>1, <1>4, <1>5

\* The rows, and what the gateway has made.
LEMMA RefundTyped ==
    ASSUME Typed, RefundInv, RefundChange
    PROVE  refunds' \subseteq Row /\ issued' \subseteq Issue
<1>1. CASE NoNews
  BY <1>1 DEF NoNews, Typed
<1>2. ASSUME NEW r \in Issue, MakesRefund(r)
      PROVE  refunds' \subseteq Row /\ issued' \subseteq Issue
  BY <1>2 DEF MakesRefund, Typed
<1>3. ASSUME NEW p \in Payment, NEW r \in Issue, NEW id, WebhookWrites(p, id, r)
      PROVE  refunds' \subseteq Row /\ issued' \subseteq Issue
  <2>1. NewRow(p, id, r, "webhook") \in Row
    BY <1>3, NewRowIsRow DEF WebhookWrites
  <2> QED  BY <1>3, <2>1 DEF WebhookWrites, Typed
<1>4. ASSUME NEW p \in Payment, StaffWrites(p)
      PROVE  refunds' \subseteq Row /\ issued' \subseteq Issue
  <2>1. Answered(p) \in Issue /\ Answered(p).id = refunding[p].id
    BY <1>4 DEF StaffWrites, RefundInv, AnswersNew, Typed, Answered
  <2>2. NewRow(p, refunding[p].id, Answered(p), "staff") \in Row
    BY <2>1, NewRowIsRow
  <2> QED  BY <1>4, <2>2 DEF StaffWrites, Typed
<1> QED  BY <1>1, <1>2, <1>3, <1>4 DEF RefundChange

\* Refund transactions keep their type.
LEMMA RefundingTyped ==
    ASSUME Typed, [Next]_vars
    PROVE  refunding' \in
             [Payment -> [amount : 0..Amount, id : RefundId \cup {NoRefund}]]
<1> DEFINE Waiting == [amount : 0..Amount, id : RefundId \cup {NoRefund}]
<1>1. NotRefunding \in Waiting
  BY AmountAssumption DEF NotRefunding
<1>2. ASSUME NEW p \in Payment, RefundAbort(p) \/ RefundCommit(p)
      PROVE  refunding' \in [Payment -> Waiting]
  BY <1>1, <1>2 DEF RefundAbort, RefundCommit, Typed
<1>3. ASSUME NEW p \in Payment, NEW n \in 1..Amount, RefundBegin(p, n)
      PROVE  refunding' \in [Payment -> Waiting]
  <2>1. [amount |-> n, id |-> NoRefund] \in Waiting
    BY AmountAssumption
  <2> QED  BY <1>3, <2>1 DEF RefundBegin, Typed
<1>4. ASSUME NEW p \in Payment, NEW id \in RefundId, RefundAtGateway(p, id)
      PROVE  refunding' \in [Payment -> Waiting]
  <2>1. [refunding[p] EXCEPT !.id = id] \in Waiting
    BY DEF Typed
  <2>2. refunding' = [refunding EXCEPT ![p] = [refunding[p] EXCEPT !.id = id]]
    BY <1>4 DEF RefundAtGateway
  <2> QED  BY <2>1, <2>2 DEF Typed
<1>5. ASSUME NEW p \in Payment,
             Initiate(p) \/ Started(p) \/ Attempts(p) \/ VerifyFails(p)
               \/ StaffLoad(p) \/ StaffCapture(p) \/ WebhookOrderPaid(p)
               \/ WebhookFailed(p)
      PROVE  refunding' = refunding
  <2>1. CASE Initiate(p) \/ Started(p) \/ Attempts(p)
    BY <2>1 DEF Initiate, Started, Attempts
  <2>2. CASE VerifyFails(p) \/ StaffLoad(p) \/ StaffCapture(p)
    BY <2>2 DEF VerifyFails, StaffLoad, StaffCapture
  <2>3. CASE WebhookOrderPaid(p) \/ WebhookFailed(p)
    BY <2>3 DEF WebhookOrderPaid, WebhookFailed
  <2> QED  BY <1>5, <2>1, <2>2, <2>3
<1>6. ASSUME NEW p, NEW q, Verify(p, q) \/ WebhookCaptured(p, q)
      PROVE  refunding' = refunding
  BY <1>6 DEF Verify, WebhookCaptured
<1>7. ASSUME NEW p, NEW r,
             WebhookRefund(p, r) \/ WebhookRefundOfPayment(r) \/ WebhookUnmatched(r)
      PROVE  refunding' = refunding
  BY <1>7 DEF WebhookRefund, WebhookRefundOfPayment, RecordRefund, WebhookUnmatched
<1>8. ASSUME NEW q, NEW id, NEW n, DashboardRefund(q, id, n)
      PROVE  refunding' = refunding
  BY <1>8 DEF DashboardRefund
<1>9. CASE RefundOrderByHand \/ UNCHANGED vars
  BY <1>9 DEF RefundOrderByHand, vars, Typed
<1>10. refunding \in [Payment -> Waiting]
  BY DEF Typed
<1>11. CASE Next
  <2>1. CASE RefundOrderByHand
    BY <2>1, <1>9, <1>10
  <2>2. CASE \E p \in Payment, id \in RefundId : RefundAtGateway(p, id)
    BY <2>2, <1>4
  <2>3. CASE \E p \in Payment, n \in 1..Amount : RefundBegin(p, n)
    BY <2>3, <1>3
  <2>4. CASE \E q \in GatewayPayment, id \in RefundId, n \in 1..Amount :
               DashboardRefund(q, id, n)
    BY <2>4, <1>8, <1>10
  <2>5. CASE \E p \in Payment, r \in Issue : WebhookRefund(p, r)
    BY <2>5, <1>7, <1>10
  <2>6. CASE \E r \in Issue : WebhookRefundOfPayment(r) \/ WebhookUnmatched(r)
    BY <2>6, <1>7, <1>10
  <2>7. CASE \E p \in Payment, q \in GatewayPayment :
               Verify(p, q) \/ WebhookCaptured(p, q)
    BY <2>7, <1>6, <1>10
  <2> QED
    BY <2>1, <2>2, <2>3, <2>4, <2>5, <2>6, <2>7, <1>2, <1>5, <1>10, <1>11 DEF Next
<1> QED  BY <1>9, <1>10, <1>11

\* Payments are loaded, offered and captured, and events are sent.
LEMMA SetsTyped ==
    ASSUME Typed, [Next]_vars
    PROVE  /\ capturing' \subseteq [payment : Payment, id : Id]
           /\ offered' \subseteq Payment /\ captured' \subseteq GatewayPayment
           /\ events' \subseteq Event
<1> DEFINE Sets == /\ capturing' \subseteq [payment : Payment, id : Id]
                   /\ offered' \subseteq Payment /\ captured' \subseteq GatewayPayment
                   /\ events' \subseteq Event
<1> SUFFICES Sets
    OBVIOUS
<1>1. ASSUME NEW p \in Payment, Started(p)
      PROVE  Sets
  BY <1>1 DEF Started, Typed
<1>2. ASSUME NEW p \in Payment, Attempts(p)
      PROVE  Sets
  <2>1. \A t \in {"captured", "failed"} : [type |-> t, payment |-> p] \in Event
    BY PaymentAssumption DEF Event
  <2> QED  BY <1>2, <2>1, PaymentAssumption DEF Attempts, CapturedEvent, dbVars, Typed
<1>3. ASSUME NEW p, NEW q, Verify(p, q) \/ WebhookCaptured(p, q) \/ StaffCapture(p)
      PROVE  Sets
  BY <1>3 DEF Verify, WebhookCaptured, StaffCapture, gatewayVars, Typed
<1>4. ASSUME NEW p \in Payment, StaffLoad(p)
      PROVE  Sets
  BY <1>4 DEF StaffLoad, dbVars, gatewayVars, Typed
<1>5. ASSUME NEW p \in Payment,
             Initiate(p) \/ VerifyFails(p) \/ WebhookFailed(p)
               \/ WebhookOrderPaid(p) \/ RefundAbort(p) \/ RefundCommit(p)
      PROVE  Sets
  <2>1. CASE Initiate(p) \/ VerifyFails(p) \/ WebhookFailed(p)
    BY <2>1 DEF Initiate, VerifyFails, WebhookFailed, gatewayVars, Typed
  <2>2. CASE WebhookOrderPaid(p) \/ RefundAbort(p) \/ RefundCommit(p)
    BY <2>2 DEF WebhookOrderPaid, RefundAbort, RefundCommit, dbVars, gatewayVars, Typed
  <2> QED  BY <1>5, <2>1, <2>2
<1>6. ASSUME NEW p, NEW r,
             WebhookRefund(p, r) \/ WebhookRefundOfPayment(r) \/ WebhookUnmatched(r)
      PROVE  Sets
  BY <1>6 DEF WebhookRefund, WebhookRefundOfPayment, RecordRefund, WebhookUnmatched,
              dbVars, gatewayVars, Typed
<1>7. ASSUME NEW p \in Payment, NEW n \in 1..Amount, RefundBegin(p, n)
      PROVE  Sets
  BY <1>7 DEF RefundBegin, dbVars, gatewayVars, Typed
<1>8. ASSUME NEW q \in GatewayPayment, NEW id \in RefundId, NEW n \in 1..Amount,
             GatewayRefund(q, id, n), UNCHANGED capturing
      PROVE  Sets
  <2> DEFINE r == [id |-> id, payment |-> q, amount |-> n]
  <2>1. r \in Issue /\ events' \subseteq events \cup {RefundEvent(r), RefundPaymentEvent(r)}
    BY <1>8, GatewayMakes
  <2> HIDE DEF r
  <2>2. RefundEvent(r) \in Event /\ RefundPaymentEvent(r) \in Event
    BY <2>1, IssueFields
  <2> QED  BY <1>8, <2>1, <2>2 DEF GatewayRefund, Typed
<1>9. ASSUME NEW q \in GatewayPayment, NEW id \in RefundId, NEW n \in 1..Amount,
             DashboardRefund(q, id, n)
      PROVE  Sets
  BY <1>8, <1>9 DEF DashboardRefund
<1>10. ASSUME NEW p \in Payment, NEW id \in RefundId, RefundAtGateway(p, id)
       PROVE  Sets
  <2>1. refunding[p].amount # 0 /\ gatewayId[p] # NoPayment
    BY <1>10, RefundingFields DEF RefundAtGateway, Locked, NotRefunding
  <2>2. refunding[p].amount \in 0..Amount /\ gatewayId[p] \in Id
    BY RefundingFields DEF Typed
  <2>3. refunding[p].amount \in 1..Amount
    BY <2>1, <2>2, AmountAssumption
  <2>4. gatewayId[p] \in GatewayPayment
    BY <2>1, <2>2 DEF Id
  <2> QED  BY <1>8, <1>10, <2>3, <2>4 DEF RefundAtGateway
<1>11. CASE RefundOrderByHand
  BY <1>11 DEF RefundOrderByHand, gatewayVars, Typed
<1>12. CASE UNCHANGED vars
  BY <1>12 DEF vars, Typed
<1> HIDE DEF Sets
<1>13. CASE Next
  <2>1. CASE RefundOrderByHand
    BY <2>1, <1>11
  <2>2. CASE \E p \in Payment, id \in RefundId : RefundAtGateway(p, id)
    BY <2>2, <1>10
  <2>3. CASE \E p \in Payment, n \in 1..Amount : RefundBegin(p, n)
    BY <2>3, <1>7
  <2>4. CASE \E q \in GatewayPayment, id \in RefundId, n \in 1..Amount :
               DashboardRefund(q, id, n)
    BY <2>4, <1>9
  <2>5. CASE \E p \in Payment, r \in Issue : WebhookRefund(p, r)
    BY <2>5, <1>6
  <2>6. CASE \E r \in Issue : WebhookRefundOfPayment(r) \/ WebhookUnmatched(r)
    BY <2>6, <1>6
  <2>7. CASE \E p \in Payment, q \in GatewayPayment :
               Verify(p, q) \/ WebhookCaptured(p, q)
    BY <2>7, <1>3
  <2> QED
    BY <2>1, <2>2, <2>3, <2>4, <2>5, <2>6, <2>7, <1>1, <1>2, <1>3, <1>4, <1>5,
       <1>13 DEF Next
<1> QED  BY <1>12, <1>13

\* Every step keeps the columns in their types.
LEMMA TypedStep ==
    ASSUME Typed, RefundInv, [Next]_vars
    PROVE  Typed'
BY StatusChanges, StatusTyped, RefundChanges, RefundTyped, RefundingTyped, SetsTyped
   DEF Typed
-----------------------------------------------------------------------------
\* What a step does to the totals: nothing, or the total of a payment that gets
\* a row is summed up afresh.
TotalsKept == refunds' = refunds /\ refunded' = refunded

TotalsApplied(p, row) ==
    /\ row.payment = p
    /\ refunds' = refunds \cup {row}
    /\ refunded' = [refunded EXCEPT ![p] = Sum(Of(refunds \cup {row}, p))]

TotalsChange ==
    TotalsKept \/ \E p \in Payment : \E row : TotalsApplied(p, row)

\* Every action is one of those.
LEMMA TotalsChanges == [Next]_vars => TotalsChange
<1> SUFFICES ASSUME [Next]_vars PROVE TotalsChange
    OBVIOUS
<1>1. ASSUME NEW p \in Payment,
             Initiate(p) \/ Started(p) \/ Attempts(p) \/ VerifyFails(p)
               \/ StaffLoad(p) \/ StaffCapture(p) \/ WebhookOrderPaid(p)
               \/ WebhookFailed(p) \/ RefundAbort(p)
      PROVE  TotalsKept
  <2>1. CASE Initiate(p) \/ Started(p) \/ Attempts(p)
    BY <2>1 DEF Initiate, Started, Attempts, dbVars, TotalsKept
  <2>2. CASE StaffCapture(p) \/ WebhookOrderPaid(p)
    BY <2>2 DEF StaffCapture, WebhookOrderPaid, Settle, TotalsKept
  <2>3. CASE VerifyFails(p) \/ StaffLoad(p) \/ WebhookFailed(p) \/ RefundAbort(p)
    BY <2>3 DEF VerifyFails, StaffLoad, WebhookFailed, RefundAbort, dbVars, TotalsKept
  <2> QED  BY <1>1, <2>1, <2>2, <2>3
<1>2. ASSUME NEW p, NEW q, Verify(p, q) \/ WebhookCaptured(p, q)
      PROVE  TotalsKept
  BY <1>2 DEF Verify, WebhookCaptured, Settle, TotalsKept
<1>3. ASSUME NEW p \in Payment, NEW id, NEW r, RecordRefund(p, id, r)
      PROVE  TotalsApplied(p, NewRow(p, id, r, "webhook"))
  BY <1>3 DEF RecordRefund, ApplyTotals, TotalsApplied, NewRow, Of
<1>4. ASSUME NEW p \in Payment, RefundCommit(p)
      PROVE  TotalsApplied(p, NewRow(p, refunding[p].id, Answered(p), "staff"))
  BY <1>4 DEF RefundCommit, ApplyTotals, TotalsApplied, NewRow, Answered, Of
<1>5. ASSUME NEW p \in Payment, NEW r, WebhookRefund(p, r)
      PROVE  \E row : TotalsApplied(p, row)
  BY <1>3, <1>5 DEF WebhookRefund
<1>6. ASSUME NEW r, WebhookRefundOfPayment(r)
      PROVE  \E p \in Payment : \E row : TotalsApplied(p, row)
  BY <1>3, <1>6 DEF WebhookRefundOfPayment
<1>7. ASSUME NEW p, NEW n, NEW r, RefundBegin(p, n) \/ WebhookUnmatched(r)
      PROVE  TotalsKept
  BY <1>7 DEF RefundBegin, WebhookUnmatched, dbVars, TotalsKept
<1>8. ASSUME NEW p, NEW id, NEW n, RefundAtGateway(p, id) \/ DashboardRefund(p, id, n)
      PROVE  TotalsKept
  BY <1>8 DEF RefundAtGateway, DashboardRefund, dbVars, TotalsKept
<1>9. CASE RefundOrderByHand \/ UNCHANGED vars
  BY <1>9 DEF RefundOrderByHand, vars, TotalsKept, TotalsChange
<1> HIDE DEF TotalsKept, TotalsApplied
<1>10. CASE Next
  <2>1. CASE \E p \in Payment, r \in Issue : WebhookRefund(p, r)
    BY <2>1, <1>5 DEF TotalsChange
  <2>2. CASE \E p \in Payment : RefundCommit(p)
    BY <2>2, <1>4 DEF TotalsChange
  <2>3. CASE \E r \in Issue : WebhookRefundOfPayment(r) \/ WebhookUnmatched(r)
    BY <2>3, <1>6, <1>7 DEF TotalsChange
  <2> QED
    BY <1>10, <2>1, <2>2, <2>3, <1>1, <1>2, <1>7, <1>8, <1>9 DEF Next, TotalsChange
<1> QED  BY <1>9, <1>10 DEF TotalsChange

\* No step makes the refunds or the rows infinite.
LEMMA FiniteStep ==
    ASSUME Finite, RefundChange
    PROVE  Finite'
<1>1. \E x : issued' \in {issued, issued \cup {x}}
  BY DEF RefundChange, NoNews, MakesRefund, WebhookWrites, StaffWrites
<1>2. \E x : refunds' \in {refunds, refunds \cup {x}}
  BY DEF RefundChange, NoNews, MakesRefund, WebhookWrites, StaffWrites
<1> QED  BY <1>1, <1>2, FS_AddElement DEF Finite

\* The rows of another payment, and the sum of the rows of this one.
LEMMA TotalledStep ==
    ASSUME Totalled, TotalsChange, refunds' \subseteq Row, Finite'
    PROVE  Totalled'
<1>1. CASE TotalsKept
  BY <1>1 DEF TotalsKept, Totalled
<1>2. ASSUME NEW p \in Payment, NEW row, TotalsApplied(p, row)
      PROVE  Totalled'
  <2>1. Of(refunds', p) \subseteq refunds'
    BY DEF Of
  <2>2. Sum(Of(refunds', p)) \in Nat
    BY <2>1, SumAmt, FS_Subset DEF Finite
  <2>3. refunded' = [refunded EXCEPT ![p] = Sum(Of(refunds', p))]
    BY <1>2 DEF TotalsApplied
  <2>4. refunded' \in [Payment -> Nat]
    BY <2>2, <2>3 DEF Totalled
  <2>5. ASSUME NEW q \in Payment PROVE refunded'[q] = Sum(Of(refunds', q))
    <3>1. CASE q = p
      BY <2>3, <3>1 DEF Totalled
    <3>2. CASE q # p
      <4>1. Of(refunds', q) = Of(refunds, q)
        BY <1>2, <3>2 DEF TotalsApplied, Of
      <4>2. refunded'[q] = refunded[q]
        BY <2>3, <3>2 DEF Totalled
      <4> QED  BY <4>1, <4>2 DEF Totalled
    <3> QED  BY <3>1, <3>2
  <2> QED  BY <2>4, <2>5 DEF Totalled
<1> QED  BY <1>1, <1>2 DEF TotalsChange

\* The gateway adds a refund only when it fits.
LEMMA WithinStep ==
    ASSUME Typed, Finite, WithinAmount, RefundChange
    PROVE  WithinAmount'
<1>1. CASE issued' = issued
  BY <1>1 DEF WithinAmount
<1>2. ASSUME NEW r \in Issue, MakesRefund(r)
      PROVE  WithinAmount'
  <2> SUFFICES ASSUME NEW p \in GatewayPayment PROVE Sum(Of(issued', p)) <= Amount
      BY DEF WithinAmount
  <2>1. CASE r.payment = p
    <3> DEFINE S == Of(issued, p)
    <3>1. Of(issued', p) = S \cup {r} /\ r \notin S
      BY <1>2, <2>1 DEF MakesRefund, Of
    <3>2. S \subseteq Issue /\ IsFiniteSet(S)
      <4>1. S \subseteq issued
        BY DEF Of
      <4> HIDE DEF S
      <4> QED  BY <4>1, FS_Subset DEF Typed, Finite
    <3>3. Sum(S) + r.amount <= Amount
      BY <1>2, <2>1 DEF MakesRefund
    <3> HIDE DEF S
    <3>4. IsFiniteSet(S \cup {r}) /\ S \cup {r} \subseteq Issue
      BY <3>2, FS_AddElement
    <3>5. \A x \in S \cup {r} : Amt[x] \in Nat
      BY <3>4, AmtNat
    <3>6. SumFunctionOnSet(Amt, S \cup {r}) = Amt[r] + SumFunctionOnSet(Amt, S)
      BY <3>1, <3>2, <3>5, SumAdd
    <3>7. Sum(S \cup {r}) = r.amount + Sum(S)
      BY <3>2, <3>4, <3>6, SumAmt, AmtNat
    <3>8. r.amount \in Nat /\ Sum(S) \in Nat
      BY <3>2, SumAmt, AmtNat
    <3> DEFINE k == Sum(S)
    <3> QED  BY <3>1, <3>3, <3>7, <3>8
  <2>2. CASE r.payment # p
    <3>1. Of(issued', p) = Of(issued, p)
      BY <1>2, <2>2 DEF MakesRefund, Of
    <3> QED  BY <3>1 DEF WithinAmount
  <2> QED  BY <2>1, <2>2
<1> QED
  BY <1>1, <1>2 DEF RefundChange, NoNews, WebhookWrites, StaffWrites

\* Every step keeps the totals right.
LEMMA MoneyStep ==
    ASSUME Typed, RefundInv, MoneyInv, [Next]_vars
    PROVE  MoneyInv'
<1>1. RefundChange /\ TotalsChange
  BY RefundChanges, TotalsChanges
<1>2. refunds' \subseteq Row
  BY <1>1, RefundTyped
<1> QED  BY <1>1, <1>2, FiniteStep, TotalledStep, WithinStep DEF MoneyInv

-----------------------------------------------------------------------------
\* The invariant holds in every reachable state.
LEMMA Invariance == Spec => []IInv
<1>1. IInv /\ [Next]_vars => IInv'
  BY TypedStep, RefundStep, PaidStep, MoneyStep DEF IInv
<1> QED  BY InitHolds, <1>1, PTL DEF Spec

\* services.py:251-270, 292-304 and 325-353: a row is of a refund that the
\* gateway made, as what it was, and an id has one row, by the transaction that
\* asked for the refund or by the webhook, whichever comes first, for any number
\* of payments and refunds. (The webhook may take a payment's id for a refund's.)
THEOREM RecordedOnce == Spec => []RefundsRecordedOnce
<1>1. IInv => RefundsRecordedOnce
  BY DEF IInv, RefundInv
<1> QED  BY Invariance, <1>1, PTL

\* services.py:6-7: whatever settles a payment (callback, webhook or staff)
\* settles its order in the same transaction, and nothing undoes that.
THEOREM PaidReachesOrder == Spec => []PaidPaymentMeansPaidOrder
<1>1. IInv => PaidPaymentMeansPaidOrder
  BY DEF IInv
<1> QED  BY Invariance, <1>1, PTL

\* Every reachable state is well typed; the refunded total is a number because
\* it is the sum of finitely many rows.
THEOREM PaymentsTypeOK == Spec => []TypeOK
<1>1. IInv => TypeOK
  BY DEF IInv, Typed, MoneyInv, Totalled, TypeOK, OrderType, Id
<1> QED  BY Invariance, <1>1, PTL

\* services.py:251-270, 309-321 and 325-353: the stored total of a payment is the
\* sum of its rows, and its rows under the own ids of refunds of one gateway
\* payment sum up to no more than was taken, for any amounts and any number of
\* refunds asked for by staff or made at the gateway, with answers and events
\* lost, repeated and out of order. The excess that remains is that of a row
\* under a payment's id.
THEOREM NoOverRefund == Spec => []NeverOverRefunded
<1>1. IInv => NeverOverRefunded
  BY TotalsBounded DEF IInv, RefundInv
<1> QED  BY Invariance, <1>1, PTL
=============================================================================
