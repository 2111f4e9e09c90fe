------------------------------ MODULE Billing ------------------------------
(***************************************************************************)
(* apps/billing/services.py for the subscription of one store: plan changes *)
(* by its owner, overrides by a platform administrator, the jobs that renew *)
(* and suspend, and invoices paid through Razorpay by a callback or by a    *)
(* webhook. No service locks the subscription before it reads it: each      *)
(* saves some columns of a copy it loaded, so another request may have      *)
(* committed in between. The gateway is external.                           *)
(***************************************************************************)
EXTENDS Integers, Sequences, FiniteSets

CONSTANTS
    MaxInvoices,    \* bound on the invoices issued
    MaxOrders       \* bound on the gateway orders created for them

ASSUME BoundsAssumption == MaxInvoices \in Nat /\ MaxOrders \in Nat

VARIABLES
    sub,        \* Subscription: status and is_comp
    invoices,   \* the Invoice rows, oldest first
    credits,    \* credits[i]: ManagerCommission and Collection rows of invoice i
    view,       \* view[s]: what process s has loaded and is about to act on
    slipped,    \* whether a service has acted on a copy gone stale or was killed
                \* between two commits
    orders,     \* gateway: the invoice each of its orders was created for
    captured,   \* gateway: orders paid
    unacked,    \* gateway: webhook events not yet acknowledged
    ignored     \* orders whose event came while no webhook secret was set

dbVars == <<sub, invoices, credits>>
gatewayVars == <<orders, captured, unacked, ignored>>
vars == <<sub, invoices, credits, view, slipped, gatewayVars>>

\* "cancelled" is left out: nothing calls cancel().
SubscriptionStatus == {"trialing", "active", "past_due", "suspended"}

Subscription == [status : SubscriptionStatus, comp : BOOLEAN]

\* renewal: whether the renewal job issued it, which the row does not say.
Invoice == [status : {"open", "paid", "void"}, overdue : BOOLEAN,
            order : 0..MaxOrders, renewal : BOOLEAN]

Process == {"owner", "admin", "renew", "suspend"}

Idle == [op |-> "idle"]

View == [op : {"plan", "bill", "renew", "extend"}, status : SubscriptionStatus]
          \cup [op : {"start", "confirm"}, invoice : 1..MaxInvoices]
          \cup [op : {"suspend"}]

Open == {i \in DOMAIN invoices : invoices[i].status = "open"}

\* Mutants of Void: a status the model has no name for; every invoice.
VoidRaw(rows) == [i \in DOMAIN rows |->
                     IF rows[i].status = "open"
                     THEN [rows[i] EXCEPT !.status = "cancelled"] ELSE rows[i]]

VoidAll(rows) == [i \in DOMAIN rows |-> [rows[i] EXCEPT !.status = "void"]]

\* The UPDATE that voids what is open.
Void(rows) == [i \in DOMAIN rows |->
                  IF rows[i].status = "open" THEN [rows[i] EXCEPT !.status = "void"]
                                             ELSE rows[i]]

NewInvoice(renewal) ==
    [status |-> "open", overdue |-> FALSE, order |-> 0, renewal |-> renewal]

AdminInvoice == [NewInvoice(FALSE) EXCEPT !.status = "paid"]

Init ==
    /\ sub = [status |-> "trialing", comp |-> FALSE]
    /\ invoices = <<>> /\ credits = <<>>
    /\ view = [s \in Process |-> Idle]
    /\ slipped = FALSE
    /\ orders = <<>> /\ captured = {} /\ unacked = {} /\ ignored = {}

Done(s) == view' = [view EXCEPT ![s] = Idle]

\* A process acts on what is wrong by now.
Slip(wrong) ==
    slipped' = (slipped \/ wrong)

Stale(s) == view[s].status # sub.status

\* A plan change has written the subscription's row and not committed: no one
\* else can write it.
Locked == view["owner"].op = "bill"
-----------------------------------------------------------------------------
\* The subscription's row as a request or a job loads it.
LoadSub(s, op) ==
    /\ view[s] = Idle
    /\ view' = [view EXCEPT ![s] = [op |-> op, status |-> sub.status]]

PlanLoad ==
    /\ LoadSub("owner", "plan")
    /\ UNCHANGED <<dbVars, slipped, gatewayVars>>

Issue(renewal) ==
    /\ Len(invoices) < MaxInvoices
    /\ invoices' = Append(invoices, NewInvoice(renewal))
    /\ credits' = Append(credits, 0)

\* What issue_invoice makes of a copy's status.
Billed(status) == IF status = "active" THEN "past_due" ELSE status

\* change_plan: its UPDATE locks the row and writes the status it loaded; what
\* is open is read after that, and if something is, the plan is all it changes.
ChangePlan ==
    LET v == view["owner"]
    IN /\ v.op = "plan"
       /\ \/ /\ Open = {}
             /\ view' = [view EXCEPT !["owner"].op = "bill"]
             /\ UNCHANGED <<sub, slipped>>
          \/ /\ Open # {}
             /\ sub' = [sub EXCEPT !.status = v.status]
             /\ Slip(Stale("owner"))
             /\ Done("owner")
       /\ UNCHANGED <<invoices, credits, gatewayVars>>

\* Otherwise it commits with a new invoice.
BillPlan ==
    LET v == view["owner"]
    IN /\ v.op = "bill"
       /\ Issue(FALSE)
       /\ sub' = [sub EXCEPT !.status = Billed(v.status)]
       /\ Slip(Stale("owner"))
       /\ Done("owner")
       /\ UNCHANGED gatewayVars

\* Mutant of RenewLoad: no look at what is open.
RenewLoadAlways ==
    /\ sub.status \in {"active", "trialing"}
    /\ ~sub.comp
    /\ LoadSub("renew", "renew")
    /\ UNCHANGED <<dbVars, slipped, gatewayVars>>

\* issue_due_invoices: its query, and issue_invoice's look at what is open. How
\* near the period's end is, is left to chance: time may pass between any steps.
RenewLoad ==
    /\ sub.status \in {"active", "trialing"}
    /\ ~sub.comp /\ Open = {}
    /\ LoadSub("renew", "renew")
    /\ UNCHANGED <<dbVars, slipped, gatewayVars>>

\* The rest of issue_invoice: the subscription is written only if it was active.
Renew ==
    LET v == view["renew"]
    IN /\ v.op = "renew"
       /\ Issue(TRUE)
       /\ \/ v.status = "active" /\ ~Locked /\ sub' = [sub EXCEPT !.status = "past_due"]
          \/ v.status # "active" /\ UNCHANGED sub
       /\ Done("renew")
       /\ UNCHANGED <<slipped, gatewayVars>>

\* Mutant of Overdue: invoices settled meanwhile count as well.
OverdueAtAll == \E i \in DOMAIN invoices : invoices[i].overdue

Overdue == \E i \in Open : invoices[i].overdue

\* All it keeps of what it loads is whom to suspend.
SuspendRead ==
    /\ view["suspend"] = Idle
    /\ view' = [view EXCEPT !["suspend"] = [op |-> "suspend"]]
    /\ UNCHANGED <<dbVars, slipped, gatewayVars>>

\* Mutant of SuspendLoad: only a store that was active before.
SuspendLoadPastDue ==
    /\ Overdue
    /\ ~sub.comp /\ sub.status = "past_due"
    /\ SuspendRead

\* suspend_overdue: its query and its two tests, which read the same copy.
SuspendLoad ==
    /\ Overdue
    /\ ~sub.comp /\ sub.status # "suspended"
    /\ SuspendRead

Suspend ==
    /\ view["suspend"].op = "suspend" /\ ~Locked
    /\ sub' = [sub EXCEPT !.status = "suspended"]
    /\ Slip(~Overdue \/ sub.comp)
    /\ Done("suspend")
    /\ UNCHANGED <<invoices, credits, gatewayVars>>
-----------------------------------------------------------------------------
\* Mutant of Credit: no look at what was recorded before.
CreditAgain(i) == credits' = [credits EXCEPT ![i] = @ + 1]

\* _accrue_commission and record_invoice_collection: once per invoice.
Credit(i) == credits' = [credits EXCEPT ![i] = IF @ = 0 THEN 1 ELSE @]

\* mark_invoice_paid on an invoice that reads unpaid.
MarkInvoicePaid(i) ==
    /\ ~Locked
    /\ invoices' = [invoices EXCEPT ![i].status = "paid"]
    /\ sub' = [sub EXCEPT !.status = "active"]
    /\ Credit(i)

\* InvoicePayStartView and InvoicePayConfirmView load the invoice.
InvoiceLoad(i, op) ==
    /\ view["owner"] = Idle
    /\ op = "start" => invoices[i].status = "open"
    /\ op = "confirm" => invoices[i].status # "paid" /\ invoices[i].order \in captured
    /\ view' = [view EXCEPT !["owner"] = [op |-> op, invoice |-> i]]
    /\ UNCHANGED <<dbVars, slipped, gatewayVars>>

\* start_payment: a new gateway order, whose id replaces the one before.
StartPayment ==
    LET v == view["owner"]
    IN /\ v.op = "start" /\ Len(orders) < MaxOrders
       /\ orders' = Append(orders, v.invoice)
       /\ invoices' = [invoices EXCEPT ![v.invoice].order = Len(orders) + 1]
       /\ Done("owner")
       /\ UNCHANGED <<sub, credits, slipped, captured, unacked, ignored>>

\* The shopper's money is taken; a webhook event will say so until answered.
Capture(o) ==
    /\ o \notin captured
    /\ captured' = captured \cup {o}
    /\ unacked' = unacked \cup {o}
    /\ UNCHANGED <<dbVars, view, slipped, orders, ignored>>

\* confirm_payment: the signature fits the order and the invoice was not paid
\* when it was loaded.
ConfirmPayment ==
    LET v == view["owner"]
    IN /\ v.op = "confirm"
       /\ MarkInvoicePaid(v.invoice)
       /\ Done("owner")
       /\ UNCHANGED <<slipped, gatewayVars>>

\* Mutant of Payable: the webhook settles open invoices only.
PayableOpen(o) == {i \in Open : invoices[i].order = o}

\* What handle_billing_webhook settles: any invoice of the order, void ones too.
Payable(o) ==
    {i \in DOMAIN invoices : invoices[i].order = o /\ invoices[i].status # "paid"}

\* handle_billing_webhook, with the invoice's row locked. For an order it does
\* not know, for an invoice already paid, and whenever the platform has set no
\* webhook secret, it answers that there is nothing to do, and the gateway sends
\* the event no more.
Webhook(o) ==
    /\ o \in unacked
    /\ unacked' = unacked \ {o}
    /\ \/ /\ \E i \in Payable(o) : MarkInvoicePaid(i)
          /\ UNCHANGED ignored
       \/ /\ Payable(o) = {}
          /\ UNCHANGED <<dbVars, ignored>>
       \/ /\ ignored' = ignored \cup {o}
          /\ UNCHANGED dbVars
    /\ UNCHANGED <<view, slipped, orders, captured>>
-----------------------------------------------------------------------------
\* admin_adjust: everything it writes is absolute, in one transaction.
Gift ==
    /\ view["admin"] = Idle /\ ~Locked
    /\ sub' = [status |-> "active", comp |-> TRUE]
    /\ invoices' = Void(invoices)
    /\ UNCHANGED <<credits, view, slipped, gatewayVars>>

EndGift ==
    /\ view["admin"] = Idle /\ ~Locked
    /\ sub.comp
    /\ sub' = [sub EXCEPT !.comp = FALSE]
    /\ UNCHANGED <<invoices, credits, view, slipped, gatewayVars>>

\* admin_mark_paid with a term: what is open is voided and a paid invoice added.
AdminBillTerm ==
    /\ view["admin"] = Idle /\ ~Locked
    /\ Len(invoices) < MaxInvoices
    /\ invoices' = Append(Void(invoices), AdminInvoice)
    /\ credits' = Append(credits, 1)
    /\ sub' = [sub EXCEPT !.status = "active"]
    /\ UNCHANGED <<view, slipped, gatewayVars>>

\* admin_mark_paid without one: the open invoice is settled, or the period is
\* rolled forward.
AdminSettle ==
    /\ view["admin"] = Idle
    /\ \/ \E i \in Open : (\A k \in Open : k <= i) /\ MarkInvoicePaid(i)
       \/ /\ Open = {} /\ ~Locked
          /\ sub' = [sub EXCEPT !.status = "active"]
          /\ UNCHANGED <<invoices, credits>>
    /\ UNCHANGED <<view, slipped, gatewayVars>>

\* admin_extend is no transaction: the open invoices are voided first, and the
\* subscription is saved after.
ExtendVoid ==
    /\ LoadSub("admin", "extend")
    /\ invoices' = Void(invoices)
    /\ UNCHANGED <<sub, credits, slipped, gatewayVars>>

ExtendSave ==
    LET v == view["admin"]
    IN /\ v.op = "extend" /\ ~Locked
       /\ sub' = [sub EXCEPT !.status = IF v.status \in {"suspended", "past_due"}
                                        THEN "trialing" ELSE @]
       /\ Slip(Stale("admin"))
       /\ Done("admin")
       /\ UNCHANGED <<invoices, credits, gatewayVars>>
-----------------------------------------------------------------------------
\* A request or a job is killed, or the gateway refuses to create an order.
Kill(s) ==
    /\ view[s] # Idle
    /\ Slip(view[s].op = "extend")
    /\ Done(s)
    /\ UNCHANGED <<dbVars, gatewayVars>>

\* due_at passes.
FallDue(i) ==
    /\ i \in Open /\ ~invoices[i].overdue
    /\ invoices' = [invoices EXCEPT ![i].overdue = TRUE]
    /\ UNCHANGED <<sub, credits, view, slipped, gatewayVars>>

Owner ==
    \/ PlanLoad \/ ChangePlan \/ BillPlan \/ StartPayment \/ ConfirmPayment
    \/ \E i \in DOMAIN invoices, op \in {"start", "confirm"} : InvoiceLoad(i, op)

Admin == Gift \/ EndGift \/ AdminBillTerm \/ AdminSettle \/ ExtendVoid \/ ExtendSave

Jobs == RenewLoad \/ Renew \/ SuspendLoad \/ Suspend

Gateway == \E o \in DOMAIN orders : Capture(o) \/ Webhook(o)

Next ==
    \/ Owner \/ Admin \/ Jobs \/ Gateway
    \/ \E s \in Process : Kill(s)
    \/ \E i \in DOMAIN invoices : FallDue(i)

Spec == Init /\ [][Next]_vars

\* A plan change that holds the row commits, or its request dies.
PlanEnds == BillPlan \/ (Locked /\ Kill("owner"))

\* The suspension task runs every six hours and, killed or not, again, and not
\* always into a plan change; an event is sent until it is acknowledged; who
\* waits for the row's lock gets it.
FairSpec == /\ Spec
            /\ SF_vars(~Locked /\ SuspendLoad) /\ SF_vars(Suspend)
            /\ WF_vars(PlanEnds)
            /\ \A o \in 1..MaxOrders : SF_vars(o \in DOMAIN orders /\ Webhook(o))
-----------------------------------------------------------------------------
TypeOK ==
    /\ sub \in Subscription
    /\ invoices \in Seq(Invoice) /\ Len(invoices) <= MaxInvoices
    /\ credits \in Seq(Nat) /\ Len(credits) = Len(invoices)
    /\ view \in [Process -> {Idle} \cup View]
    /\ slipped \in BOOLEAN
    /\ orders \in Seq(DOMAIN invoices) /\ Len(orders) <= MaxOrders
    /\ unacked \subseteq captured /\ captured \subseteq DOMAIN orders
    /\ ignored \subseteq captured

\* However often the renewal job runs, and although a trial keeps its status when
\* it is billed, a store has one open invoice of its renewals and one of its plan
\* changes at most. It may have both: the renewal looks without a lock.
OneOpenInvoice ==
    \A i, j \in Open : invoices[i].renewal = invoices[j].renewal => i = j

\* As long as every service still found what it had loaded, a suspended store
\* owes an overdue invoice and is no gift: paying, extending, gifting and
\* billing it by hand all reopen it.
SuspendedOwes ==
    ~slipped /\ view["admin"] = Idle /\ sub.status = "suspended"
        => (\E i \in Open : invoices[i].overdue) /\ ~sub.comp

\* An invoice is credited once when it is paid, and never before, although the
\* callback, the webhook and an administrator may all settle it.
CreditedOnce ==
    \A i \in DOMAIN invoices :
        credits[i] = IF invoices[i].status = "paid" THEN 1 ELSE 0

\* A paid invoice stays paid when an administrator voids what is open.
PaidIsFinal ==
    [][\A i \in DOMAIN invoices :
            invoices[i].status = "paid" => invoices'[i].status = "paid"]_vars

\* A store that leaves an invoice overdue is suspended, unless the invoice is
\* settled or voided or the store gifted first.
OverdueSuspends ==
    \A i \in 1..MaxInvoices :
        (i \in Open /\ invoices[i].overdue)
            ~> (sub.status = "suspended" \/ sub.comp \/ i \notin Open)

\* Money taken for the gateway order an invoice names settles that invoice, also
\* when the shopper never comes back from the checkout, unless the event came
\* while the platform had no webhook secret.
CapturedSettles ==
    \A o \in 1..MaxOrders :
        o \in captured ~> /\ o \in captured
                          /\ \/ invoices[orders[o]].status = "paid"
                             \/ invoices[orders[o]].order # o
                             \/ o \in ignored

\* The same of every gateway order, as handle_billing_webhook describes it.
EveryCaptureSettles ==
    \A o \in 1..MaxOrders :
        o \in captured ~> /\ o \in captured
                          /\ invoices[orders[o]].status = "paid" \/ o \in ignored
=============================================================================
