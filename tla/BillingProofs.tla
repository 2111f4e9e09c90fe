--------------------------- MODULE BillingProofs ---------------------------
(***************************************************************************)
(* Theorems about Billing, for any number of invoices and gateway orders.   *)
(* Whatever a service does to the invoices is one of a few changes          *)
(* (RowChange): most of the proof is about them, not about the services.    *)
(***************************************************************************)
EXTENDS Billing, SequenceTheorems, TLAPS

\* The parts of TypeOK, with what the processes may have loaded.
RowsTyped ==
    /\ invoices \in Seq(Invoice) /\ Len(invoices) <= MaxInvoices
    /\ credits \in Seq(Nat) /\ Len(credits) = Len(invoices)

ViewTyped ==
    /\ view \in [Process -> {Idle} \cup View]
    /\ view["admin"] = Idle \/ view["admin"].op = "extend"
    /\ view["owner"].op \in {"start", "confirm"} =>
            view["owner"].invoice \in DOMAIN invoices

GatewayTyped ==
    /\ orders \in Seq(DOMAIN invoices) /\ Len(orders) <= MaxOrders
    /\ unacked \subseteq captured /\ captured \subseteq DOMAIN orders
    /\ ignored \subseteq captured

Typed == /\ sub \in Subscription /\ slipped \in BOOLEAN
         /\ RowsTyped /\ ViewTyped /\ GatewayTyped

\* OneOpenInvoice, with what a plan change and a renewal rely on while they are
\* under way: no one else issues an invoice of their kind.
OneEach ==
    /\ OneOpenInvoice
    /\ view["owner"].op = "bill" => \A i \in Open : invoices[i].renewal
    /\ view["renew"].op = "renew" => \A i \in Open : ~invoices[i].renewal

\* The changes to the invoices that leave what is overdue as it is, ...
Still ==
    \/ UNCHANGED <<invoices, credits>>
    \/ /\ \E i \in DOMAIN invoices, o \in 0..MaxOrders :
            invoices' = [invoices EXCEPT ![i].order = o]
       /\ UNCHANGED credits
    \/ /\ \E i \in Open : invoices' = [invoices EXCEPT ![i].overdue = TRUE]
       /\ UNCHANGED credits

Kept == Still \/ \E b \in BOOLEAN : Issue(b)

\* ... and those that close invoices.
Closed ==
    \/ \E i \in DOMAIN invoices :
        invoices' = [invoices EXCEPT ![i].status = "paid"] /\ Credit(i)
    \/ invoices' = Void(invoices) /\ UNCHANGED credits
    \/ /\ Len(invoices) < MaxInvoices
       /\ invoices' = Append(Void(invoices), AdminInvoice)
       /\ credits' = Append(credits, 1)

RowChange == Kept \/ Closed
-----------------------------------------------------------------------------
LEMMA FunctionIsSeq ==
    ASSUME NEW S, NEW n \in Nat, NEW f \in [1..n -> S]
    PROVE  f \in Seq(S) /\ Len(f) = n /\ DOMAIN f = 1..n
OBVIOUS

LEMMA RowFields ==
    ASSUME RowsTyped, NEW i \in DOMAIN invoices
    PROVE  /\ invoices[i] \in Invoice
           /\ invoices[i].status \in {"open", "paid", "void"}
           /\ invoices[i].overdue \in BOOLEAN
           /\ invoices[i].order \in 0..MaxOrders
           /\ invoices[i].renewal \in BOOLEAN
           /\ i \in 1..Len(invoices) /\ i \in Nat
           /\ i \in DOMAIN credits /\ credits[i] \in Nat
<1>1. invoices[i] \in Invoice /\ i \in 1..Len(invoices) /\ Len(invoices) \in Nat
  BY DEF RowsTyped
<1>2. i \in DOMAIN credits /\ credits[i] \in Nat
  BY <1>1 DEF RowsTyped
<1> QED
  BY <1>1, <1>2 DEF Invoice

\* One invoice is replaced.
LEMMA RowReplaced ==
    ASSUME RowsTyped, NEW i \in DOMAIN invoices, NEW r \in Invoice,
           invoices' = [invoices EXCEPT ![i] = r]
    PROVE  /\ invoices' \in Seq(Invoice)
           /\ Len(invoices') = Len(invoices)
           /\ DOMAIN invoices' = DOMAIN invoices
           /\ invoices'[i] = r
           /\ \A k \in DOMAIN invoices : k # i => invoices'[k] = invoices[k]
<1>1. invoices \in [1..Len(invoices) -> Invoice] /\ Len(invoices) \in Nat
      /\ DOMAIN invoices = 1..Len(invoices)
  BY DEF RowsTyped
<1>2. invoices' \in [1..Len(invoices) -> Invoice]
  BY <1>1
<1> QED
  BY <1>1, <1>2, FunctionIsSeq

LEMMA VoidEffect ==
    ASSUME RowsTyped
    PROVE  /\ Void(invoices) \in Seq(Invoice)
           /\ Len(Void(invoices)) = Len(invoices)
           /\ DOMAIN Void(invoices) = DOMAIN invoices
           /\ \A i \in DOMAIN invoices :
                /\ Void(invoices)[i].status # "open"
                /\ Void(invoices)[i].status = "paid" <=> invoices[i].status = "paid"
                /\ Void(invoices)[i].renewal = invoices[i].renewal
                /\ Void(invoices)[i] \in Invoice
<1>1. invoices \in [1..Len(invoices) -> Invoice] /\ Len(invoices) \in Nat
      /\ DOMAIN invoices = 1..Len(invoices)
  BY DEF RowsTyped
<1>2. ASSUME NEW i \in DOMAIN invoices
      PROVE  /\ Void(invoices)[i] \in Invoice
             /\ Void(invoices)[i].status # "open"
             /\ Void(invoices)[i].renewal = invoices[i].renewal
             /\ Void(invoices)[i].status = "paid" <=> invoices[i].status = "paid"
  BY RowFields DEF Void, Invoice
<1>3. Void(invoices) \in [1..Len(invoices) -> Invoice]
  BY <1>1, <1>2 DEF Void
<1> QED
  BY <1>1, <1>2, <1>3, FunctionIsSeq

LEMMA NewInvoiceTyped ==
    /\ \A b \in BOOLEAN : /\ NewInvoice(b) \in Invoice
                          /\ NewInvoice(b).status = "open"
                          /\ NewInvoice(b).renewal = b
    /\ AdminInvoice \in Invoice /\ AdminInvoice.status = "paid"
<1>1. 0 \in 0..MaxOrders
  BY BoundsAssumption
<1> QED
  BY <1>1 DEF NewInvoice, AdminInvoice, Invoice

\* An invoice is added, to the rows as they are or with the open ones voided.
LEMMA RowAdded ==
    ASSUME RowsTyped, NEW rows \in Seq(Invoice), Len(rows) = Len(invoices),
           NEW r \in Invoice, NEW n \in Nat, Len(invoices) < MaxInvoices,
           invoices' = Append(rows, r), credits' = Append(credits, n)
    PROVE  /\ RowsTyped'
           /\ Len(invoices') = Len(invoices) + 1
           /\ DOMAIN invoices' = DOMAIN invoices \cup {Len(invoices) + 1}
           /\ Len(invoices) + 1 \notin DOMAIN invoices
           /\ invoices'[Len(invoices) + 1] = r
           /\ credits'[Len(invoices) + 1] = n
           /\ \A i \in DOMAIN invoices : invoices'[i] = rows[i] /\ credits'[i] = credits[i]
<1>1. credits \in Seq(Nat) /\ Len(credits) = Len(invoices)
      /\ invoices \in Seq(Invoice) /\ Len(invoices) \in Nat
  BY DEF RowsTyped
<1>2. /\ invoices' \in Seq(Invoice) /\ Len(invoices') = Len(invoices) + 1
      /\ \A i \in 1..Len(invoices) : invoices'[i] = rows[i]
      /\ invoices'[Len(invoices) + 1] = r
  BY <1>1, AppendProperties
<1>3. /\ credits' \in Seq(Nat) /\ Len(credits') = Len(invoices) + 1
      /\ \A i \in 1..Len(invoices) : credits'[i] = credits[i]
      /\ credits'[Len(invoices) + 1] = n
  BY <1>1, AppendProperties
<1>4. DOMAIN invoices = 1..Len(invoices) /\ DOMAIN invoices' = 1..(Len(invoices) + 1)
  BY <1>1, <1>2
<1>5. Len(invoices') <= MaxInvoices
  BY <1>1, <1>2, BoundsAssumption
<1> QED
  BY <1>1, <1>2, <1>3, <1>4, <1>5 DEF RowsTyped
-----------------------------------------------------------------------------
\* What every change of the invoices keeps: rows only move from open to paid or
\* void. Only a new invoice is open when it was not before.
Forward ==
    \A i \in DOMAIN invoices :
        /\ i \in DOMAIN invoices'
        /\ invoices[i].status = "paid" => invoices'[i].status = "paid"
        /\ invoices'[i].status = "open" => invoices[i].status = "open"
        /\ invoices'[i].renewal = invoices[i].renewal

NoneOpened == Open' \subseteq Open

Good == RowsTyped' /\ Forward /\ (CreditedOnce => CreditedOnce')

\* One row that keeps its status is replaced.
LEMMA TouchKeeps ==
    ASSUME RowsTyped, NEW i \in DOMAIN invoices, NEW r \in Invoice,
           r.status = invoices[i].status, r.renewal = invoices[i].renewal,
           invoices' = [invoices EXCEPT ![i] = r], UNCHANGED credits
    PROVE  Good /\ NoneOpened
<1>1. /\ invoices' \in Seq(Invoice) /\ Len(invoices') = Len(invoices)
      /\ DOMAIN invoices' = DOMAIN invoices /\ invoices'[i] = r
      /\ \A k \in DOMAIN invoices : k # i => invoices'[k] = invoices[k]
  BY RowReplaced
<1>2. RowsTyped'
  BY <1>1 DEF RowsTyped
<1>3. \A k \in DOMAIN invoices : /\ invoices'[k].status = invoices[k].status
                                 /\ invoices'[k].renewal = invoices[k].renewal
  BY <1>1
<1>4. Forward
  BY <1>1, <1>3 DEF Forward
<1>5. CreditedOnce => CreditedOnce'
  BY <1>1, <1>3 DEF CreditedOnce
<1>6. NoneOpened
  BY <1>1, <1>3 DEF NoneOpened, Open
<1> QED
  BY <1>2, <1>4, <1>5, <1>6 DEF Good

LEMMA PaidKeeps ==
    ASSUME RowsTyped, NEW i \in DOMAIN invoices, Credit(i),
           invoices' = [invoices EXCEPT ![i].status = "paid"]
    PROVE  Good /\ NoneOpened
<1> DEFINE r == [invoices[i] EXCEPT !.status = "paid"]
<1>1. r \in Invoice /\ r.status = "paid" /\ r.renewal = invoices[i].renewal
  BY RowFields DEF Invoice
<1>2. invoices' = [invoices EXCEPT ![i] = r]
  OBVIOUS
<1> HIDE DEF r
<1>3. /\ invoices' \in Seq(Invoice) /\ Len(invoices') = Len(invoices)
      /\ DOMAIN invoices' = DOMAIN invoices /\ invoices'[i] = r
      /\ \A k \in DOMAIN invoices : k # i => invoices'[k] = invoices[k]
  BY <1>1, <1>2, RowReplaced
<1>4. credits \in [1..Len(credits) -> Nat] /\ Len(credits) \in Nat
      /\ DOMAIN credits = 1..Len(credits) /\ DOMAIN invoices = DOMAIN credits
      /\ Len(credits) = Len(invoices)
  BY DEF RowsTyped
<1>5. credits' = [credits EXCEPT ![i] = IF @ = 0 THEN 1 ELSE @]
  BY DEF Credit
<1>6. credits' \in [1..Len(credits) -> Nat]
  BY <1>4, <1>5
<1>7. credits' \in Seq(Nat) /\ Len(credits') = Len(credits)
  BY <1>4, <1>6, FunctionIsSeq
<1>8. RowsTyped'
  BY <1>3, <1>4, <1>7 DEF RowsTyped
<1>9. Forward
  BY <1>1, <1>3 DEF Forward
<1>10. CreditedOnce => CreditedOnce'
  <2> SUFFICES ASSUME CreditedOnce, NEW k \in DOMAIN invoices'
               PROVE  credits'[k] = IF invoices'[k].status = "paid" THEN 1 ELSE 0
    BY DEF CreditedOnce
  <2>1. CASE k = i
    BY <1>1, <1>3, <1>4, <1>5, <2>1 DEF CreditedOnce
  <2>2. CASE k # i
    BY <1>3, <1>4, <1>5, <2>2 DEF CreditedOnce
  <2> QED
    BY <2>1, <2>2
<1>11. NoneOpened
  BY <1>1, <1>3 DEF NoneOpened, Open
<1> QED
  BY <1>8, <1>9, <1>10, <1>11 DEF Good

LEMMA VoidKeeps ==
    ASSUME RowsTyped, invoices' = Void(invoices), UNCHANGED credits
    PROVE  Good /\ NoneOpened
<1>1. RowsTyped'
  BY VoidEffect DEF RowsTyped
<1>2. Forward
  BY VoidEffect DEF Forward
<1>3. CreditedOnce => CreditedOnce'
  BY VoidEffect DEF CreditedOnce
<1>4. NoneOpened
  BY VoidEffect DEF NoneOpened, Open
<1> QED
  BY <1>1, <1>2, <1>3, <1>4 DEF Good

LEMMA IssueKeeps ==
    ASSUME RowsTyped, NEW b \in BOOLEAN, Issue(b)
    PROVE  /\ Good
           /\ \A i \in DOMAIN invoices : invoices'[i] = invoices[i]
           /\ DOMAIN invoices' = DOMAIN invoices \cup {Len(invoices) + 1}
           /\ invoices'[Len(invoices) + 1].renewal = b
<1>1. invoices \in Seq(Invoice)
  BY DEF RowsTyped
<1>2. /\ RowsTyped'
      /\ DOMAIN invoices' = DOMAIN invoices \cup {Len(invoices) + 1}
      /\ invoices'[Len(invoices) + 1] = NewInvoice(b)
      /\ credits'[Len(invoices) + 1] = 0
      /\ \A i \in DOMAIN invoices : invoices'[i] = invoices[i] /\ credits'[i] = credits[i]
  BY <1>1, NewInvoiceTyped, RowAdded DEF Issue
<1>3. Forward
  BY <1>2 DEF Forward
<1>4. CreditedOnce => CreditedOnce'
  BY <1>2, NewInvoiceTyped DEF CreditedOnce
<1> QED
  BY <1>2, <1>3, <1>4, NewInvoiceTyped DEF Good

LEMMA BilledKeeps ==
    ASSUME RowsTyped, Len(invoices) < MaxInvoices,
           invoices' = Append(Void(invoices), AdminInvoice),
           credits' = Append(credits, 1)
    PROVE  Good /\ NoneOpened
<1> DEFINE r == AdminInvoice
<1>1. r \in Invoice /\ r.status = "paid"
  BY NewInvoiceTyped
<1>2. invoices' = Append(Void(invoices), r)
  OBVIOUS
<1> HIDE DEF r
<1>3. /\ RowsTyped'
      /\ DOMAIN invoices' = DOMAIN invoices \cup {Len(invoices) + 1}
      /\ invoices'[Len(invoices) + 1] = r
      /\ credits'[Len(invoices) + 1] = 1
      /\ \A i \in DOMAIN invoices :
            invoices'[i] = Void(invoices)[i] /\ credits'[i] = credits[i]
  BY <1>1, <1>2, VoidEffect, RowAdded
<1>4. Forward
  BY <1>1, <1>3, VoidEffect DEF Forward
<1>5. CreditedOnce => CreditedOnce'
  BY <1>1, <1>3, VoidEffect DEF CreditedOnce
<1>6. NoneOpened
  BY <1>1, <1>3, VoidEffect DEF NoneOpened, Open
<1> QED
  BY <1>3, <1>4, <1>5, <1>6 DEF Good

LEMMA QuietStep ==
    ASSUME RowsTyped, Still \/ Closed
    PROVE  Good /\ NoneOpened
<1>1. CASE UNCHANGED <<invoices, credits>>
  BY <1>1 DEF Good, RowsTyped, Forward, CreditedOnce, NoneOpened, Open
<1>2. ASSUME NEW i \in DOMAIN invoices, NEW o \in 0..MaxOrders,
             invoices' = [invoices EXCEPT ![i].order = o], UNCHANGED credits
      PROVE  Good /\ NoneOpened
  <2> DEFINE r == [invoices[i] EXCEPT !.order = o]
  <2>1. r \in Invoice /\ r.status = invoices[i].status /\ r.renewal = invoices[i].renewal
    BY RowFields DEF Invoice
  <2>2. invoices' = [invoices EXCEPT ![i] = r]
    BY <1>2
  <2> QED
    BY <1>2, <2>1, <2>2, TouchKeeps
<1>3. ASSUME NEW i \in Open, invoices' = [invoices EXCEPT ![i].overdue = TRUE],
             UNCHANGED credits
      PROVE  Good /\ NoneOpened
  <2> DEFINE r == [invoices[i] EXCEPT !.overdue = TRUE]
  <2>1. i \in DOMAIN invoices
    BY DEF Open
  <2>2. r \in Invoice /\ r.status = invoices[i].status /\ r.renewal = invoices[i].renewal
    BY <2>1, RowFields DEF Invoice
  <2>3. invoices' = [invoices EXCEPT ![i] = r]
    BY <1>3
  <2> QED
    BY <1>3, <2>1, <2>2, <2>3, TouchKeeps
<1> QED
  BY <1>1, <1>2, <1>3, PaidKeeps, VoidKeeps, BilledKeeps DEF Still, Closed

LEMMA RowsStep ==
    ASSUME RowsTyped, RowChange
    PROVE  Good
BY QuietStep, IssueKeeps DEF RowChange, Kept

\* An overdue open invoice stays one unless an invoice is closed.
LEMMA OverdueKept ==
    ASSUME RowsTyped, Kept, Overdue
    PROVE  Overdue'
<1>1. PICK i \in DOMAIN invoices : invoices[i].status = "open" /\ invoices[i].overdue
  BY DEF Overdue, Open
<1>2. CASE UNCHANGED <<invoices, credits>>
  BY <1>1, <1>2 DEF Overdue, Open
<1>3. ASSUME NEW b \in BOOLEAN, Issue(b) PROVE Overdue'
  BY <1>1, <1>3, IssueKeeps DEF Overdue, Open, Good, Forward
<1>4. ASSUME NEW k \in DOMAIN invoices, NEW o \in 0..MaxOrders,
             invoices' = [invoices EXCEPT ![k].order = o]
      PROVE  Overdue'
  <2>1. [invoices[k] EXCEPT !.order = o] \in Invoice
    BY RowFields DEF Invoice
  <2>2. invoices' = [invoices EXCEPT ![k] = [invoices[k] EXCEPT !.order = o]]
    BY <1>4
  <2>3. i \in DOMAIN invoices' /\ invoices'[i].status = "open" /\ invoices'[i].overdue
    BY <1>1, <2>1, <2>2, RowReplaced, RowFields DEF Invoice
  <2> QED
    BY <2>3 DEF Overdue, Open
<1>5. ASSUME NEW k \in Open, invoices' = [invoices EXCEPT ![k].overdue = TRUE]
      PROVE  Overdue'
  <2>1. k \in DOMAIN invoices /\ [invoices[k] EXCEPT !.overdue = TRUE] \in Invoice
    BY RowFields DEF Invoice, Open
  <2>2. invoices' = [invoices EXCEPT ![k] = [invoices[k] EXCEPT !.overdue = TRUE]]
    BY <1>5
  <2>3. i \in DOMAIN invoices' /\ invoices'[i].status = "open" /\ invoices'[i].overdue
    BY <1>1, <2>1, <2>2, RowReplaced, RowFields DEF Invoice
  <2> QED
    BY <2>3 DEF Overdue, Open
<1> QED
  BY <1>2, <1>3, <1>4, <1>5 DEF Kept, Still
-----------------------------------------------------------------------------
\* What a process has loaded.
LEMMA ViewFields ==
    ASSUME ViewTyped, NEW s \in Process
    PROVE  /\ view[s].op \in {"plan", "bill", "renew", "extend"}
                => view[s].status \in SubscriptionStatus
           /\ view[s].op \in {"start", "confirm"} => view[s].invoice \in 1..MaxInvoices
           /\ view[s] # Idle => view[s] \in View
           /\ view[s].op = "idle" <=> view[s] = Idle
BY DEF ViewTyped, View, Idle

\* Every step changes the invoices in one of the ways above, only a plan change
\* and a renewal issue one, and what slipped once has slipped.
LEMMA ChangesRows ==
    ASSUME Typed, [Next]_vars
    PROVE  /\ Still \/ Closed \/ BillPlan \/ Renew
           /\ (slipped => slipped') /\ slipped' \in BOOLEAN
<1> USE DEF Typed
<1>1. CASE UNCHANGED <<invoices, credits, slipped>>
  BY <1>1 DEF Still
<1>2. CASE ChangePlan \/ BillPlan
  BY <1>2 DEF ChangePlan, BillPlan, Still, Slip, Stale
<1>3. CASE StartPayment
  <2>1. view["owner"].invoice \in DOMAIN invoices
    BY <1>3 DEF StartPayment, ViewTyped
  <2>2. Len(orders) + 1 \in 0..MaxOrders
    BY <1>3, BoundsAssumption DEF StartPayment, GatewayTyped
  <2> QED
    BY <1>3, <2>1, <2>2 DEF StartPayment, Still
<1>4. CASE ConfirmPayment
  BY <1>4 DEF ConfirmPayment, MarkInvoicePaid, Closed, ViewTyped
<1>5. CASE Gift
  BY <1>5 DEF Gift, Closed
<1>6. CASE AdminBillTerm
  BY <1>6 DEF AdminBillTerm, Closed
<1>7. CASE AdminSettle
  BY <1>7 DEF AdminSettle, MarkInvoicePaid, Closed, Still, Open
<1>8. CASE ExtendVoid
  BY <1>8 DEF ExtendVoid, Closed
<1>9. CASE ExtendSave
  BY <1>9 DEF ExtendSave, Still, Slip, Stale
<1>10. CASE Renew
  BY <1>10 DEF Renew
<1>11. CASE Suspend
  BY <1>11 DEF Suspend, Still, Slip, Subscription
<1>12. ASSUME NEW o \in DOMAIN orders, Webhook(o)
       PROVE  (Still \/ Closed) /\ UNCHANGED slipped
  BY <1>12 DEF Webhook, Payable, MarkInvoicePaid, Closed, Still, dbVars
<1>13. ASSUME NEW s \in Process, Kill(s)
       PROVE  Still /\ (slipped => slipped') /\ slipped' \in BOOLEAN
  BY <1>13 DEF Kill, Slip, Still, dbVars
<1>14. ASSUME NEW i \in DOMAIN invoices, FallDue(i)
       PROVE  Still /\ UNCHANGED slipped
  BY <1>14 DEF FallDue, Still
<1>15. CASE PlanLoad \/ RenewLoad \/ SuspendLoad \/ EndGift
  BY <1>1, <1>15 DEF PlanLoad, RenewLoad, SuspendLoad, SuspendRead, EndGift, dbVars
<1>16. ASSUME NEW i \in DOMAIN invoices, NEW op \in {"start", "confirm"}, InvoiceLoad(i, op)
       PROVE  UNCHANGED <<invoices, credits, slipped>>
  BY <1>16 DEF InvoiceLoad, dbVars
<1>17. ASSUME NEW o \in DOMAIN orders, Capture(o)
       PROVE  UNCHANGED <<invoices, credits, slipped>>
  BY <1>17 DEF Capture, dbVars
<1>18. CASE UNCHANGED vars
  BY <1>1, <1>18 DEF vars
<1> QED
  BY <1>1, <1>2, <1>3, <1>4, <1>5, <1>6, <1>7, <1>8, <1>9, <1>10, <1>11, <1>12,
     <1>13, <1>14, <1>15, <1>16, <1>17, <1>18
     DEF Next, Owner, Admin, Jobs, Gateway

LEMMA RowChanges ==
    ASSUME Typed, [Next]_vars
    PROVE  RowChange
<1>1. TRUE \in BOOLEAN /\ FALSE \in BOOLEAN
  OBVIOUS
<1> QED
  BY <1>1, ChangesRows DEF RowChange, Kept, BillPlan, Renew

LEMMA SubTyped ==
    ASSUME Typed, [Next]_vars
    PROVE  sub' \in Subscription
<1> USE DEF Typed
<1>0. {"trialing", "active", "past_due", "suspended"} \subseteq SubscriptionStatus
  BY DEF SubscriptionStatus
<1>1. /\ sub \in Subscription
      /\ sub.status \in SubscriptionStatus /\ sub.comp \in BOOLEAN
  BY DEF Subscription
<1>2. ASSUME NEW x \in SubscriptionStatus, NEW b \in BOOLEAN
      PROVE  /\ [sub EXCEPT !.status = x] \in Subscription
             /\ [sub EXCEPT !.comp = b] \in Subscription
             /\ [status |-> x, comp |-> b] \in Subscription
  BY <1>1 DEF Subscription
<1>3. CASE ChangePlan \/ BillPlan
  <2>1. view["owner"].status \in SubscriptionStatus
    BY <1>3, ViewFields DEF ChangePlan, BillPlan, Process
  <2>2. Billed(view["owner"].status) \in SubscriptionStatus
    BY <1>0, <2>1 DEF Billed
  <2> QED
    BY <1>2, <1>3, <2>1, <2>2 DEF ChangePlan, BillPlan
<1>4. CASE ExtendSave
  <2>1. CASE view["admin"].status \in {"suspended", "past_due"}
    BY <1>0, <1>4, <2>1, <1>2 DEF ExtendSave
  <2>2. CASE view["admin"].status \notin {"suspended", "past_due"}
    <3>1. sub' = [sub EXCEPT !.status = sub.status]
      BY <1>4, <2>2 DEF ExtendSave
    <3> QED
      BY <1>1, <1>2, <3>1
  <2> QED
    BY <2>1, <2>2
<1>5. ASSUME NEW i, MarkInvoicePaid(i) PROVE sub' \in Subscription
  BY <1>0, <1>2, <1>5 DEF MarkInvoicePaid
<1>6. CASE ConfirmPayment \/ AdminSettle
  BY <1>0, <1>2, <1>5, <1>6 DEF ConfirmPayment, AdminSettle
<1>7. CASE Gift \/ EndGift \/ AdminBillTerm \/ Suspend
  BY <1>0, <1>2, <1>7 DEF Gift, EndGift, AdminBillTerm, Suspend
<1>8. CASE Renew
  BY <1>0, <1>1, <1>2, <1>8 DEF Renew
<1>9. ASSUME NEW o, Webhook(o) PROVE sub' \in Subscription
  BY <1>5, <1>9 DEF Webhook, dbVars
<1>10. CASE UNCHANGED sub
  BY <1>10
<1>11. CASE PlanLoad \/ RenewLoad \/ SuspendLoad \/ StartPayment \/ ExtendVoid
  BY <1>10, <1>11 DEF PlanLoad, RenewLoad, SuspendLoad, SuspendRead, StartPayment,
     ExtendVoid, dbVars
<1>12. ASSUME NEW i, NEW op, InvoiceLoad(i, op) PROVE UNCHANGED sub
  BY <1>12 DEF InvoiceLoad, dbVars
<1>13. ASSUME NEW o, Capture(o) PROVE UNCHANGED sub
  BY <1>13 DEF Capture, dbVars
<1>14. ASSUME NEW s, Kill(s) PROVE UNCHANGED sub
  BY <1>14 DEF Kill, dbVars
<1>15. ASSUME NEW i, FallDue(i) PROVE UNCHANGED sub
  BY <1>15 DEF FallDue
<1>16. CASE UNCHANGED vars
  BY <1>10, <1>16 DEF vars
<1> QED
  BY <1>3, <1>4, <1>6, <1>7, <1>8, <1>9, <1>10, <1>11, <1>12, <1>13, <1>14,
     <1>15, <1>16 DEF Next, Owner, Admin, Jobs, Gateway

\* Loading, acting on what was loaded, and being killed; the rows a view names
\* do not go away.
LEMMA ViewsTyped ==
    ASSUME Typed, Forward, RowsTyped', [Next]_vars
    PROVE  ViewTyped'
<1> USE DEF Typed
<1>1. \A i \in DOMAIN invoices : i \in DOMAIN invoices' /\ i \in 1..MaxInvoices
  <2>1. ASSUME NEW i \in DOMAIN invoices PROVE i \in 1..MaxInvoices
    BY BoundsAssumption, RowFields DEF RowsTyped
  <2> QED
    BY <2>1 DEF Forward
<1>2. ASSUME NEW s \in Process, Done(s) PROVE ViewTyped'
  BY <1>1, <1>2 DEF ViewTyped, Done, Idle, Process
<1>3. CASE UNCHANGED view
  BY <1>1, <1>3 DEF ViewTyped
<1>4. ASSUME NEW s \in Process, NEW op \in {"plan", "renew", "extend"},
             s = "admin" <=> op = "extend", LoadSub(s, op)
      PROVE  ViewTyped'
  <2>1. [op |-> op, status |-> sub.status] \in View
    BY DEF View, Subscription
  <2> QED
    BY <1>1, <1>4, <2>1 DEF LoadSub, ViewTyped, Process
<1>5. ASSUME NEW i \in DOMAIN invoices, NEW op \in {"start", "confirm"}, InvoiceLoad(i, op)
      PROVE  ViewTyped'
  <2>1. [op |-> op, invoice |-> i] \in View
    BY <1>1 DEF View
  <2> QED
    BY <1>1, <1>5, <2>1 DEF InvoiceLoad, ViewTyped, Process
<1>6. CASE PlanLoad \/ RenewLoad \/ ExtendVoid
  BY <1>4, <1>6 DEF PlanLoad, RenewLoad, ExtendVoid, Process
<1>7. CASE BillPlan \/ StartPayment \/ ConfirmPayment \/ Renew \/ Suspend \/ ExtendSave
  BY <1>2, <1>7 DEF BillPlan, StartPayment, ConfirmPayment, Renew, Suspend,
     ExtendSave, Process
<1>13. CASE ChangePlan
  <2>1. CASE Done("owner")
    BY <1>2, <2>1 DEF Process
  <2>2. CASE view' = [view EXCEPT !["owner"].op = "bill"]
    <3>1. view["owner"].status \in SubscriptionStatus /\ view["owner"].op = "plan"
      BY <1>13, ViewFields DEF ChangePlan, Process
    <3>2. [view["owner"] EXCEPT !.op = "bill"] \in View /\ view["owner"] \in View
      BY <3>1 DEF View, ViewTyped, Idle, Process
    <3>3. [view["owner"] EXCEPT !.op = "bill"].op = "bill"
      BY <3>1, <3>2 DEF View
    <3> QED
      BY <1>1, <2>2, <3>2, <3>3 DEF ViewTyped, Process
  <2> QED
    BY <1>13, <2>1, <2>2 DEF ChangePlan
<1>14. CASE SuspendLoad
  BY <1>1, <1>14 DEF SuspendLoad, SuspendRead, ViewTyped, View, Process
<1>8. ASSUME NEW s \in Process, Kill(s) PROVE ViewTyped'
  BY <1>2, <1>8 DEF Kill
<1>9. CASE Gift \/ EndGift \/ AdminBillTerm \/ AdminSettle
  BY <1>3, <1>9 DEF Gift, EndGift, AdminBillTerm, AdminSettle
<1>10. ASSUME NEW o, Capture(o) \/ Webhook(o) PROVE UNCHANGED view
  BY <1>10 DEF Capture, Webhook
<1>11. ASSUME NEW i, FallDue(i) PROVE UNCHANGED view
  BY <1>11 DEF FallDue
<1>12. CASE UNCHANGED vars
  BY <1>3, <1>12 DEF vars
<1> QED
  BY <1>3, <1>5, <1>6, <1>7, <1>8, <1>9, <1>10, <1>11, <1>12, <1>13, <1>14
     DEF Next, Owner, Admin, Jobs, Gateway

\* A gateway order is for an invoice there is.
LEMMA GatewayKept ==
    ASSUME Typed, Forward, [Next]_vars
    PROVE  GatewayTyped'
<1> USE DEF Typed
<1>1. DOMAIN invoices \subseteq DOMAIN invoices'
  BY DEF Forward
<1>2. orders \in Seq(DOMAIN invoices')
  BY <1>1, SeqMonotonic DEF GatewayTyped
<1>3. CASE UNCHANGED gatewayVars
  BY <1>2, <1>3 DEF GatewayTyped, gatewayVars
<1>4. CASE StartPayment
  <2> DEFINE i == view["owner"].invoice
  <2>1. i \in DOMAIN invoices' /\ orders' = Append(orders, i)
    BY <1>1, <1>4 DEF StartPayment, ViewTyped
  <2> HIDE DEF i
  <2>2. /\ orders' \in Seq(DOMAIN invoices')
        /\ Len(orders') = Len(orders) + 1 /\ Len(orders) \in Nat
    BY <1>2, <2>1, AppendProperties
  <2>3. DOMAIN orders \subseteq DOMAIN orders'
    BY <1>2, <2>2
  <2>4. Len(orders') <= MaxOrders
    BY <1>4, <2>2, BoundsAssumption DEF StartPayment
  <2> QED
    BY <1>4, <2>2, <2>3, <2>4 DEF StartPayment, GatewayTyped
<1>5. ASSUME NEW o \in DOMAIN orders, Capture(o) PROVE GatewayTyped'
  BY <1>2, <1>5 DEF Capture, GatewayTyped
<1>6. ASSUME NEW o \in DOMAIN orders, Webhook(o) PROVE GatewayTyped'
  BY <1>2, <1>6 DEF Webhook, GatewayTyped
<1>7. CASE \/ PlanLoad \/ ChangePlan \/ BillPlan \/ ConfirmPayment \/ Jobs \/ Admin
           \/ UNCHANGED vars
  BY <1>3, <1>7 DEF PlanLoad, ChangePlan, BillPlan, ConfirmPayment, Jobs, RenewLoad,
     Renew, SuspendLoad, SuspendRead, Suspend, Admin, Gift, EndGift, AdminBillTerm,
     AdminSettle, ExtendVoid, ExtendSave, vars, gatewayVars
<1>8. ASSUME NEW i, NEW op, InvoiceLoad(i, op) PROVE UNCHANGED gatewayVars
  BY <1>8 DEF InvoiceLoad
<1>9. ASSUME NEW s, Kill(s) PROVE UNCHANGED gatewayVars
  BY <1>9 DEF Kill
<1>10. ASSUME NEW i, FallDue(i) PROVE UNCHANGED gatewayVars
  BY <1>10 DEF FallDue
<1> QED
  BY <1>3, <1>4, <1>5, <1>6, <1>7, <1>8, <1>9, <1>10 DEF Next, Owner, Gateway
-----------------------------------------------------------------------------
\* Whoever makes a store suspended, or leaves it so, has just seen what it owes
\* or has slipped; whoever closes its invoices reopens it.
LEMMA OwesStep ==
    ASSUME Typed, SuspendedOwes, [Next]_vars
    PROVE  SuspendedOwes'
<1> SUFFICES ASSUME ~slipped', view'["admin"] = Idle, sub'.status = "suspended"
             PROVE  Overdue' /\ ~sub'.comp
  BY DEF SuspendedOwes, Overdue
<1>1. ~slipped
  BY ChangesRows
<1>2. RowsTyped /\ sub \in Subscription /\ slipped \in BOOLEAN
  BY DEF Typed
<1>3. view["admin"] = Idle /\ sub.status = "suspended" => Overdue /\ ~sub.comp
  BY <1>1 DEF SuspendedOwes, Overdue
<1>4. ASSUME Kept, view["admin"] = Idle, sub.status = "suspended",
             sub'.comp = sub.comp
      PROVE  Overdue' /\ ~sub'.comp
  BY <1>2, <1>3, <1>4, OverdueKept
<1>5. ASSUME UNCHANGED <<invoices, credits>> PROVE Kept
  BY <1>5 DEF Kept, Still
<1>6. ASSUME NEW x, sub' = [sub EXCEPT !.status = x]
      PROVE  sub'.status = x /\ sub'.comp = sub.comp
  BY <1>2, <1>6 DEF Subscription
<1>7. CASE UNCHANGED <<sub, view, invoices, credits>>
  BY <1>4, <1>5, <1>7
<1>8. CASE ChangePlan
  <2>1. view["admin"] = Idle /\ Kept
    BY <1>5, <1>8 DEF ChangePlan, Done, Typed, ViewTyped, Process
  <2>2. CASE UNCHANGED sub
    BY <1>4, <2>1, <2>2
  <2>3. CASE sub' = [sub EXCEPT !.status = view["owner"].status] /\ Slip(Stale("owner"))
    <3>1. view["owner"].status = sub.status
      BY <1>1, <2>3 DEF Slip, Stale
    <3> QED
      BY <1>4, <1>6, <2>1, <2>3, <3>1
  <2> QED
    BY <1>8, <2>2, <2>3 DEF ChangePlan
<1>22. CASE BillPlan
  <2>1. view["admin"] = Idle
    BY <1>22 DEF BillPlan, Done, Typed, ViewTyped, Process
  <2>2. view["owner"].status = sub.status
    BY <1>1, <1>22 DEF BillPlan, Slip, Stale
  <2>3. Kept
    BY <1>22 DEF BillPlan, Kept
  <2>4. sub'.comp = sub.comp /\ sub'.status = Billed(sub.status)
    BY <1>6, <1>22, <2>2 DEF BillPlan
  <2>5. sub.status = "suspended"
    BY <2>4 DEF Billed
  <2> QED
    BY <1>4, <2>1, <2>3, <2>4, <2>5
<1>9. CASE Renew
  <2>1. view["admin"] = Idle
    BY <1>9 DEF Renew, Done, Typed, ViewTyped, Process
  <2>2. sub' = sub
    BY <1>6, <1>9 DEF Renew
  <2>3. Kept
    BY <1>9 DEF Renew, Kept
  <2> QED
    BY <1>4, <2>1, <2>2, <2>3
<1>10. CASE Suspend
  <2>1. Overdue /\ ~sub.comp
    BY <1>2, <1>10 DEF Suspend, Slip, Subscription
  <2>2. Kept
    BY <1>5, <1>10 DEF Suspend
  <2> QED
    BY <1>2, <1>6, <1>10, <2>1, <2>2, OverdueKept DEF Suspend
<1>11. CASE PlanLoad \/ RenewLoad \/ SuspendLoad
  BY <1>4, <1>5, <1>11 DEF PlanLoad, RenewLoad, SuspendLoad, SuspendRead, LoadSub,
     dbVars, Typed, ViewTyped, Process
<1>12. ASSUME NEW i, NEW op, InvoiceLoad(i, op)
       PROVE  Overdue' /\ ~sub'.comp
  BY <1>4, <1>5, <1>12 DEF InvoiceLoad, dbVars, Typed, ViewTyped, Process
<1>13. CASE StartPayment
  <2>1. view["admin"] = Idle /\ UNCHANGED sub
    BY <1>13 DEF StartPayment, Done, Typed, ViewTyped, Process
  <2>2. Kept
    <3>1. view["owner"].invoice \in DOMAIN invoices
      BY <1>13 DEF StartPayment, Typed, ViewTyped
    <3>2. Len(orders) + 1 \in 0..MaxOrders
      BY <1>13, BoundsAssumption DEF StartPayment, Typed, GatewayTyped
    <3> QED
      BY <1>13, <3>1, <3>2 DEF StartPayment, Kept, Still
  <2> QED
    BY <1>4, <2>1, <2>2
<1>14. ASSUME NEW i, MarkInvoicePaid(i) PROVE FALSE
  BY <1>2, <1>14 DEF MarkInvoicePaid, Subscription
<1>15. CASE Gift \/ AdminBillTerm
  <2>1. CASE Gift
    BY <2>1 DEF Gift
  <2>2. CASE AdminBillTerm
    <3>1. [sub EXCEPT !.status = "active"].status = "active"
      BY <1>2 DEF Subscription
    <3> QED
      BY <2>2, <3>1 DEF AdminBillTerm
  <2> QED
    BY <1>15, <2>1, <2>2
<1>16. CASE AdminSettle
  BY <1>2, <1>14, <1>16 DEF AdminSettle, Subscription
<1>17. CASE EndGift
  <2>1. sub.status = "suspended" /\ ~sub'.comp /\ sub.comp
    BY <1>2, <1>17 DEF EndGift, Subscription
  <2> QED
    BY <1>3, <1>17, <2>1 DEF EndGift
<1>18. CASE ExtendVoid
  BY <1>18 DEF ExtendVoid, LoadSub, Idle, Typed, ViewTyped, Process
<1>19. CASE ExtendSave
  <2>1. view["admin"].status = sub.status
    BY <1>1, <1>19 DEF ExtendSave, Slip, Stale
  <2> QED
    BY <1>2, <1>19, <2>1 DEF ExtendSave, Subscription
<1>20. ASSUME NEW s \in Process, Kill(s)
       PROVE  Overdue' /\ ~sub'.comp
  <2>1. CASE s = "admin"
    BY <1>20, <2>1 DEF Kill, Slip, Typed, ViewTyped
  <2>2. CASE s # "admin"
    <3>1. view["admin"] = Idle /\ UNCHANGED <<sub, invoices, credits>>
      BY <1>20, <2>2 DEF Kill, Done, dbVars, Typed, ViewTyped, Process
    <3> QED
      BY <1>4, <1>5, <3>1
  <2> QED
    BY <2>1, <2>2
<1>21. ASSUME NEW i \in DOMAIN invoices, FallDue(i)
       PROVE  Overdue' /\ ~sub'.comp
  BY <1>4, <1>21 DEF FallDue, Kept, Still
<1>23. ASSUME NEW o, Capture(o) \/ Webhook(o)
       PROVE  Overdue' /\ ~sub'.comp
  BY <1>7, <1>14, <1>23 DEF Capture, Webhook, dbVars
<1>24. CASE UNCHANGED vars
  BY <1>7, <1>24 DEF vars
<1> QED
  BY <1>8, <1>9, <1>10, <1>11, <1>12, <1>13, <1>14, <1>15, <1>16, <1>17, <1>18,
     <1>19, <1>20, <1>21, <1>22, <1>23, <1>24
     DEF Next, Owner, Admin, Jobs, Gateway, ConfirmPayment
-----------------------------------------------------------------------------
\* A plan change and a renewal go on only where nothing of their kind is open.
LEMMA ViewsHeld ==
    ASSUME Typed, [Next]_vars
    PROVE  /\ view'["owner"].op = "bill" => view["owner"].op = "bill" \/ Open = {}
           /\ view'["renew"].op = "renew" => view["renew"].op = "renew" \/ Open = {}
<1> DEFINE Held == /\ view'["owner"].op = "bill" => view["owner"].op = "bill" \/ Open = {}
                   /\ view'["renew"].op = "renew" => view["renew"].op = "renew" \/ Open = {}
<1> USE DEF Process
<1>1. view \in [Process -> {Idle} \cup View]
  BY DEF Typed, ViewTyped
<1>2. CASE UNCHANGED view
  BY <1>2
<1>3. ASSUME NEW s \in Process, Done(s) PROVE Held
  BY <1>1, <1>3 DEF Done, Idle
<1>4. CASE ChangePlan
  BY <1>1, <1>3, <1>4 DEF ChangePlan
<1>5. CASE RenewLoad
  BY <1>1, <1>5 DEF RenewLoad, LoadSub
<1>6. CASE PlanLoad \/ ExtendVoid \/ SuspendLoad
  BY <1>1, <1>6 DEF PlanLoad, ExtendVoid, LoadSub, SuspendLoad, SuspendRead
<1>7. ASSUME NEW i, NEW op \in {"start", "confirm"}, InvoiceLoad(i, op)
      PROVE  Held
  BY <1>1, <1>7 DEF InvoiceLoad
<1>8. CASE BillPlan \/ StartPayment \/ ConfirmPayment \/ Renew \/ Suspend \/ ExtendSave
  BY <1>3, <1>8 DEF BillPlan, StartPayment, ConfirmPayment, Renew, Suspend, ExtendSave
<1>9. ASSUME NEW s \in Process, Kill(s) PROVE Held
  BY <1>3, <1>9 DEF Kill
<1>10. CASE Gift \/ EndGift \/ AdminBillTerm \/ AdminSettle
  BY <1>2, <1>10 DEF Gift, EndGift, AdminBillTerm, AdminSettle
<1>11. ASSUME NEW o, Capture(o) \/ Webhook(o) PROVE UNCHANGED view
  BY <1>11 DEF Capture, Webhook
<1>12. ASSUME NEW i, FallDue(i) PROVE UNCHANGED view
  BY <1>12 DEF FallDue
<1>13. CASE UNCHANGED vars
  BY <1>2, <1>13 DEF vars
<1> QED
  BY <1>2, <1>4, <1>5, <1>6, <1>7, <1>8, <1>9, <1>10, <1>11, <1>12, <1>13
     DEF Next, Owner, Admin, Jobs, Gateway

\* One invoice is issued, and nothing of its kind was open.
LEMMA IssueOne ==
    ASSUME RowsTyped, NEW b \in BOOLEAN, Issue(b), OneOpenInvoice,
           \A i \in Open : invoices[i].renewal # b
    PROVE  /\ OneOpenInvoice'
           /\ \A i \in Open' : i \in Open \/ invoices'[i].renewal = b
           /\ \A i \in Open : invoices'[i].renewal = invoices[i].renewal
<1> DEFINE n == Len(invoices) + 1
<1>1. /\ \A i \in DOMAIN invoices : invoices'[i] = invoices[i]
      /\ DOMAIN invoices' = DOMAIN invoices \cup {n}
      /\ invoices'[n].renewal = b
  BY IssueKeeps
<1> HIDE DEF n
<1>2. Open' \subseteq Open \cup {n} /\ Open \subseteq DOMAIN invoices
  BY <1>1 DEF Open
<1>3. ASSUME NEW i \in Open', NEW k \in Open',
             invoices'[i].renewal = invoices'[k].renewal
      PROVE  i = k
  <2>1. CASE i \in Open /\ k \in Open
    BY <1>1, <1>2, <1>3, <2>1 DEF OneOpenInvoice
  <2>2. CASE i \in Open /\ k = n
    BY <1>1, <1>2, <1>3, <2>2
  <2>3. CASE i = n /\ k \in Open
    BY <1>1, <1>2, <1>3, <2>3
  <2> QED
    BY <1>2, <2>1, <2>2, <2>3
<1> QED
  BY <1>1, <1>2, <1>3 DEF OneOpenInvoice

LEMMA OneEachStep ==
    ASSUME Typed, OneEach, [Next]_vars
    PROVE  OneEach'
<1>1. RowsTyped /\ view \in [Process -> {Idle} \cup View]
  BY DEF Typed, ViewTyped
<1>2. CASE Still \/ Closed
  <2>1. NoneOpened /\ Forward
    BY <1>1, <1>2, QuietStep DEF Good
  <2>2. \A i \in Open' : i \in Open /\ invoices'[i].renewal = invoices[i].renewal
    BY <2>1 DEF NoneOpened, Forward, Open
  <2>3. OneOpenInvoice'
    BY <2>2 DEF OneEach, OneOpenInvoice
  <2>4. view'["owner"].op = "bill" => \A i \in Open' : invoices'[i].renewal
    BY <2>2, ViewsHeld DEF OneEach
  <2>5. view'["renew"].op = "renew" => \A i \in Open' : ~invoices'[i].renewal
    BY <2>2, ViewsHeld DEF OneEach
  <2> QED
    BY <2>3, <2>4, <2>5 DEF OneEach
<1>3. CASE BillPlan
  <2>1. \A i \in Open : invoices[i].renewal # FALSE
    BY <1>3 DEF BillPlan, OneEach
  <2>2. /\ OneOpenInvoice'
        /\ \A i \in Open' : i \in Open \/ invoices'[i].renewal = FALSE
        /\ \A i \in Open : invoices'[i].renewal = invoices[i].renewal
    BY <1>1, <1>3, <2>1, IssueOne DEF BillPlan, OneEach
  <2>3. view'["owner"].op # "bill" /\ view'["renew"] = view["renew"]
    BY <1>1, <1>3 DEF BillPlan, Done, Idle, Process
  <2> QED
    BY <2>2, <2>3 DEF OneEach
<1>4. CASE Renew
  <2>1. \A i \in Open : invoices[i].renewal # TRUE
    BY <1>4 DEF Renew, OneEach
  <2>2. /\ OneOpenInvoice'
        /\ \A i \in Open' : i \in Open \/ invoices'[i].renewal = TRUE
        /\ \A i \in Open : invoices'[i].renewal = invoices[i].renewal
    BY <1>1, <1>4, <2>1, IssueOne DEF Renew, OneEach
  <2>3. view'["renew"].op # "renew" /\ view'["owner"] = view["owner"]
    BY <1>1, <1>4 DEF Renew, Done, Idle, Process
  <2> QED
    BY <2>2, <2>3 DEF OneEach
<1> QED
  BY <1>2, <1>3, <1>4, ChangesRows
-----------------------------------------------------------------------------
IInv == Typed /\ OneEach /\ SuspendedOwes /\ CreditedOnce

LEMMA InitHolds == Init => IInv
<1> SUFFICES ASSUME Init PROVE IInv
  OBVIOUS
<1> USE DEF Init
<1>1. RowsTyped
  BY BoundsAssumption DEF RowsTyped
<1>2. ViewTyped
  BY DEF ViewTyped, Idle, Process
<1>3. GatewayTyped
  BY BoundsAssumption DEF GatewayTyped
<1>4. sub \in Subscription /\ slipped \in BOOLEAN
  BY DEF Subscription, SubscriptionStatus
<1>5. OneEach /\ SuspendedOwes /\ CreditedOnce
  BY DEF OneEach, OneOpenInvoice, SuspendedOwes, CreditedOnce, Open
<1> QED
  BY <1>1, <1>2, <1>3, <1>4, <1>5 DEF IInv, Typed

LEMMA Invariance == Spec => []IInv
<1>1. IInv /\ [Next]_vars => IInv'
  <2> SUFFICES ASSUME IInv, [Next]_vars PROVE IInv'
    OBVIOUS
  <2>1. Typed /\ RowChange /\ slipped' \in BOOLEAN
    BY ChangesRows, RowChanges DEF IInv
  <2>2. RowsTyped' /\ Forward /\ CreditedOnce'
    BY <2>1, RowsStep DEF IInv, Good, Typed
  <2>3. Typed'
    BY <2>1, <2>2, SubTyped, ViewsTyped, GatewayKept DEF Typed
  <2> QED
    BY <2>1, <2>2, <2>3, OneEachStep, OwesStep DEF IInv
<1> QED
  BY <1>1, InitHolds, PTL DEF Spec

\* Type correctness of the subscription, its invoices and what is loaded.
THEOREM TypeCorrect == Spec => []TypeOK
<1>1. IInv => TypeOK
  BY DEF IInv, Typed, RowsTyped, ViewTyped, GatewayTyped, TypeOK
<1> QED
  BY <1>1, Invariance, PTL

\* change_plan, issue_due_invoices and issue_invoice: whatever runs in between, a
\* store has one open invoice of its plan changes and one of its renewals.
THEOREM BilledOnce == Spec => []OneOpenInvoice
<1>1. IInv => OneOpenInvoice
  BY DEF IInv, OneEach
<1> QED
  BY <1>1, Invariance, PTL

\* suspend_overdue and everything that reopens a store: a suspended store owes
\* an overdue invoice, unless a service acted on what it had loaded too long ago.
THEOREM SuspensionOwed == Spec => []SuspendedOwes
<1>1. IInv => SuspendedOwes
  BY DEF IInv
<1> QED
  BY <1>1, Invariance, PTL

\* mark_invoice_paid: one credit for each paid invoice and none for another.
THEOREM CreditsMatch == Spec => []CreditedOnce
<1>1. IInv => CreditedOnce
  BY DEF IInv
<1> QED
  BY <1>1, Invariance, PTL

\* The UPDATEs that void what is open, and everything else: no step takes a
\* payment off an invoice.
THEOREM PaidStays == Spec => PaidIsFinal
<1>1. IInv /\ [Next]_vars => Forward
  BY RowChanges, RowsStep DEF IInv, Good, Typed
<1>2. Forward => \A i \in DOMAIN invoices :
            invoices[i].status = "paid" => invoices'[i].status = "paid"
  BY DEF Forward
<1> QED
  BY <1>1, <1>2, Invariance, PTL DEF Spec, PaidIsFinal
=============================================================================
