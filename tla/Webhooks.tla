------------------------------ MODULE Webhooks ------------------------------
(***************************************************************************)
(* apps/webhooks: a domain event, emitted after its transaction, becomes a  *)
(* Celery task that writes one WebhookDelivery per endpoint and attempts    *)
(* it. A periodic task retries the ones that failed and are due, newest     *)
(* first, and staff may retry any one of them. Every attempt works on a     *)
(* loaded copy of its row, makes an HTTP request, and saves all columns.    *)
(***************************************************************************)
EXTENDS Integers, Sequences, FiniteSets

CONSTANTS
    Event,          \* the domain events emitted
    NoEvent,
    Endpoint,       \* the store's active endpoints, which want all of them
    Broken,         \* endpoints that may for ever answer what _attempt does not
                    \* catch: no HTTP, or an error whose body never comes
    MAX_ATTEMPTS,
    Batch,          \* the rows retry_due takes at a time
    MaxTrouble      \* bound on what disturbs the deliveries, all together

ASSUME NamesAssumption == Broken \subseteq Endpoint /\ NoEvent \notin Event
ASSUME NumbersAssumption ==
    {MAX_ATTEMPTS, Batch} \subseteq Nat \ {0} /\ MaxTrouble \in Nat

VARIABLES
    emitted,    \* events whose transaction has committed
    queue,      \* events whose task message the broker still holds
    deliveries, \* the WebhookDelivery rows, oldest first
    due,        \* deliveries whose next_retry_at has passed
    job,        \* job[s]: what the deliver task, the retry task and a staff
                \* request have in hand
    tries,      \* tries[d]: the attempts at delivery d that got an answer
    accepted,   \* accepted[e][p]: the times endpoint p answered event e with 2xx
    dropped,    \* events whose deliver task an exception ended
    kills, manual, raises, unread   \* what disturbed the deliveries so far

ghosts == <<tries, accepted, dropped>>
disturbances == <<kills, manual, raises, unread>>
vars == <<emitted, queue, deliveries, due, job, ghosts, disturbances>>

DeliveryStatus == {"pending", "success", "failed", "exhausted"}

Delivery == [event : Event, endpoint : Endpoint, status : DeliveryStatus,
             attempts : Nat, blocked : BOOLEAN]

Rows == DOMAIN deliveries

\* The processes that attempt deliveries. The broker runs one task of each
\* kind at a time as long as its workers keep up.
Process == {"deliver", "retry", "staff"}

\* event and todo: the event of a deliver task and the endpoints it has not
\* come to; batch: the copies of rows to attempt, the newest of them now;
\* sent: the answer is in and the row not yet saved.
Idle == [event |-> NoEvent, todo |-> {}, batch |-> {}, sent |-> FALSE]

Done(s) == job' = [job EXCEPT ![s] = Idle]

\* What disturbed the deliveries, all together; one more is within the bound.
Disturbance == kills + manual + raises + unread

Trouble == Disturbance < MaxTrouble

Copy(d) == [id |-> d, row |-> deliveries[d]]

Init ==
    /\ emitted = {} /\ queue = {}
    /\ deliveries = <<>> /\ due = {}
    /\ job = [s \in Process |-> Idle]
    /\ tries = <<>>
    /\ accepted = [e \in Event |-> [p \in Endpoint |-> 0]]
    /\ dropped = {}
    /\ kills = 0 /\ manual = 0 /\ raises = 0 /\ unread = 0
-----------------------------------------------------------------------------
\* The transaction commits; on_commit emits the event and the receiver hands
\* it to the broker, unless the process dies first or the broker is down,
\* which send_robust swallows.
Emit(e) ==
    /\ e \notin emitted
    /\ emitted' = emitted \cup {e}
    /\ queue' = queue \cup {e} \/ UNCHANGED queue
    /\ UNCHANGED <<deliveries, due, job, ghosts, disturbances>>

\* Mutant of TakeTask: the message is acknowledged when the task starts.
TakeTaskAcked(e) ==
    /\ e \in queue /\ job["deliver"] = Idle
    /\ job' = [job EXCEPT !["deliver"] = [Idle EXCEPT !.event = e,
                                                      !.todo = Endpoint]]
    /\ queue' = queue \ {e}
    /\ UNCHANGED <<emitted, deliveries, due, ghosts, disturbances>>

\* A worker starts the task; acks_late leaves the message in the queue.
TakeTask(e) ==
    /\ e \in queue /\ job["deliver"] = Idle
    /\ job' = [job EXCEPT !["deliver"] = [Idle EXCEPT !.event = e,
                                                      !.todo = Endpoint]]
    /\ UNCHANGED <<emitted, queue, deliveries, due, ghosts, disturbances>>

\* trigger: the next endpoint's row is created, to be attempted at once.
Trigger ==
    LET j == job["deliver"]
    IN /\ j.batch = {}
       /\ \E p \in j.todo :
            LET new == [event |-> j.event, endpoint |-> p, status |-> "pending",
                        attempts |-> 0, blocked |-> FALSE]
            IN /\ deliveries' = Append(deliveries, new)
               /\ job' = [job EXCEPT
                             !["deliver"].todo = @ \ {p},
                             !["deliver"].batch =
                                 {[id |-> Len(deliveries) + 1, row |-> new]}]
       /\ tries' = Append(tries, 0)
       /\ UNCHANGED <<emitted, queue, due, accepted, dropped, disturbances>>

\* The deliver task returns and its message is acknowledged.
EndTask ==
    LET j == job["deliver"]
    IN /\ j # Idle /\ j.batch = {} /\ j.todo = {}
       /\ queue' = queue \ {j.event}
       /\ Done("deliver")
       /\ UNCHANGED <<emitted, deliveries, due, ghosts, disturbances>>

\* next_retry_at passes.
FallDue(d) ==
    /\ deliveries[d].status = "failed" /\ d \notin due
    /\ due' = due \cup {d}
    /\ UNCHANGED <<emitted, queue, deliveries, job, ghosts, disturbances>>

\* Mutants of Due: delivered rows, rows not attempted yet, or only those.
DueUnlessExhausted(d) == deliveries[d].status \in {"failed", "success"}
DueOrPending(d) == deliveries[d].status = "pending" \/ d \in due
DuePending(d) == deliveries[d].status = "pending"

Due(d) == deliveries[d].status = "failed" /\ d \in due

\* retry_due's query: the newest of the due rows, a batch of them.
DueBatch(ds) ==
    LET all == {d \in Rows : Due(d)}
    IN  /\ ds # {} /\ Cardinality(ds) <= Batch
        /\ ds = all \/ Cardinality(ds) = Batch
        /\ \A d \in ds, older \in all \ ds : older < d

RetryDue ==
    /\ job["retry"] = Idle
    /\ \E ds \in SUBSET {d \in Rows : Due(d)} :
        /\ DueBatch(ds)
        /\ job' = [job EXCEPT !["retry"].batch = {Copy(d) : d \in ds}]
    /\ UNCHANGED <<emitted, queue, deliveries, due, ghosts, disturbances>>

\* WebhookRetryView and retry_delivery: all but a successful row, as loaded.
RetryDelivery(d) ==
    /\ Trouble
    /\ job["staff"] = Idle
    /\ deliveries[d].status # "success"
    /\ job' = [job EXCEPT !["staff"].batch = {Copy(d)}]
    /\ manual' = manual + 1
    /\ UNCHANGED <<emitted, queue, deliveries, due, ghosts, kills, raises, unread>>
-----------------------------------------------------------------------------
\* Mutants of MarkRetry: a status the model has no name for; the last attempt
\* is not made.
MarkRetryRaw(r) == [r EXCEPT !.status = "retrying"]

MarkRetryEarly(r) ==
    [r EXCEPT !.status = IF r.attempts >= MAX_ATTEMPTS - 1 THEN "exhausted"
                                                           ELSE "failed"]

\* _mark_retry.
MarkRetry(r) ==
    [r EXCEPT !.status = IF r.attempts >= MAX_ATTEMPTS THEN "exhausted"
                                                       ELSE "failed"]

Tried(r) == [r EXCEPT !.attempts = @ + 1]

\* The copy after an attempt: the endpoint took the request, refused it or
\* could not be reached, or its URL is not a safe target any more.
Outcomes(r) ==
    { [Tried(r) EXCEPT !.status = "success"],
      MarkRetry(Tried(r)),
      [Tried(r) EXCEPT !.status = "exhausted", !.blocked = TRUE] }

\* The copy of s in hand.
Current(s) == {c \in job[s].batch : \A x \in job[s].batch : x.id <= c.id}

\* _attempt up to the answer: the copy c of s becomes r.
Answered(s, c, r) ==
    /\ ~job[s].sent
    /\ job' = [job EXCEPT ![s].batch = (@ \ {c}) \cup {[id |-> c.id, row |-> r]},
                          ![s].sent = TRUE]
    /\ tries' = [tries EXCEPT ![c.id] = @ + 1]
    /\ UNCHANGED <<emitted, queue, deliveries, due, dropped>>

Attempt(s) ==
    \E c \in Current(s) : \E r \in Outcomes(c.row) :
        /\ Answered(s, c, r)
        /\ accepted' = IF r.status = "success"
                       THEN [accepted EXCEPT ![r.event][r.endpoint] = @ + 1]
                       ELSE accepted
        /\ UNCHANGED disturbances

\* The endpoint took the request, and its answer's body times out or is reset
\* in resp.read, inside the try: the attempt counts as one that failed.
AttemptUnread(s) ==
    \E c \in Current(s) :
        /\ Trouble
        /\ Answered(s, c, MarkRetry(Tried(c.row)))
        /\ accepted' = [accepted EXCEPT ![c.row.event][c.row.endpoint] = @ + 1]
        /\ unread' = unread + 1
        /\ UNCHANGED <<kills, manual, raises>>

\* delivery.save(): every column of the copy.
Save(s) ==
    \E c \in Current(s) :
        /\ job[s].sent
        /\ deliveries' = [deliveries EXCEPT ![c.id] = c.row]
        /\ due' = due \ {c.id}
        /\ job' = [job EXCEPT ![s].batch = @ \ {c}, ![s].sent = FALSE]
        /\ UNCHANGED <<emitted, queue, ghosts, disturbances>>

\* An exception none of _attempt's handlers names ends the task or the request,
\* before the answer is in or after: the soft time limit, the database at the
\* save, an answer such as Broken's. Nothing is saved, and the message of a
\* failed task is acknowledged all the same.
Raise(s) ==
    \E c \in Current(s) :
        /\ \/ /\ ~job[s].sent /\ c.row.endpoint \in Broken
              /\ UNCHANGED raises
           \/ /\ Trouble
              /\ raises' = raises + 1
        /\ queue' = queue \ {job[s].event}
        /\ dropped' = dropped \cup ({job[s].event} \cap Event)
        /\ Done(s)
        /\ UNCHANGED <<emitted, deliveries, due, tries, accepted,
                       kills, manual, unread>>

\* The worker's machine or container is lost; the broker keeps the message.
Kill(s) ==
    /\ Trouble
    /\ job[s] # Idle
    /\ kills' = kills + 1
    /\ Done(s)
    /\ UNCHANGED <<emitted, queue, deliveries, due, ghosts, manual, raises, unread>>

\* The rest of _attempt and save, by each process.
Deliver(s) == Attempt(s) \/ AttemptUnread(s) \/ Raise(s) \/ Save(s)

DeliverTask ==
    (\E e \in Event : TakeTask(e)) \/ Trigger \/ EndTask \/ Deliver("deliver")

RetryTask == RetryDue \/ Deliver("retry")

StaffRequest == Deliver("staff")

Time == \E d \in Rows : FallDue(d)

Next ==
    \/ \E e \in Event : Emit(e)
    \/ DeliverTask \/ RetryTask \/ StaffRequest \/ Time
    \/ \E d \in Rows : RetryDelivery(d)
    \/ \E s \in Process : Kill(s)

Spec == Init /\ [][Next]_vars

\* Celery runs the queued tasks and, every five minutes, retry_due_task; an
\* HTTP request of theirs ends within TIMEOUT; time passes. Nothing else is promised.
FairSpec == /\ Spec
            /\ WF_vars(DeliverTask) /\ WF_vars(RetryTask) /\ WF_vars(Time)
-----------------------------------------------------------------------------
TypeOK ==
    /\ emitted \subseteq Event /\ queue \subseteq emitted
    /\ deliveries \in Seq(Delivery)
    /\ due \subseteq Rows
    /\ DOMAIN tries = Rows
    /\ dropped \subseteq Event
    /\ \A s \in Process :
        /\ job[s].event \in Event \cup {NoEvent}
        /\ job[s].todo \subseteq Endpoint
        /\ \A c \in job[s].batch : c.id \in Rows /\ c.row \in Delivery

\* An endpoint takes an event once, and once more at most for every worker
\* lost, every manual retry, every exception that lost an outcome and every 2xx
\* whose body was not read, although retries save whole rows over each other and
\* may turn a successful delivery into a failed one.
AcceptedOnce ==
    \A e \in Event, p \in Endpoint : accepted[e][p] <= 1 + Disturbance

\* A delivery given up was attempted as often as the store promises, unless its
\* URL was refused: a lost answer or an overwritten row only costs more tries.
NeverGivesUpEarly ==
    \A d \in Rows : deliveries[d].status = "exhausted" /\ ~deliveries[d].blocked
                        => tries[d] >= MAX_ATTEMPTS

\* While staff keep out of it, a delivery that succeeded stays so: the deliver
\* task and the retry task never hold copies of one row at the same time.
DeliveredStaysDelivered ==
    [][\A d \in Rows : manual' = 0 /\ deliveries[d].status = "success"
                            => deliveries'[d].status = "success"]_vars

Settled(d) == deliveries[d].status \in {"success", "exhausted"}

\* d is a failed delivery to a Broken endpoint, or older than one: the retry
\* task attempts the newest first and may end there every time.
Behind(d) ==
    \E x \in Rows : /\ x >= d
                    /\ deliveries[x].endpoint \in Broken
                    /\ deliveries[x].status = "failed"

\* Failed deliveries are retried until they are delivered or given up, all but
\* those behind a Broken endpoint's: that one starves the older ones only.
FailedSettle ==
    <>[](\A d \in Rows : deliveries[d].status = "failed" => Behind(d))

\* An event the broker has taken reaches every endpoint or is given up there,
\* also when the worker that had it is lost, unless an exception ended its task
\* or a Broken endpoint's delivery keeps it from being retried.
QueuedSettles ==
    \A e \in Event, p \in Endpoint :
        e \in queue ~> (e \in dropped \/ \E d \in Rows :
                            /\ deliveries[d].event = e
                            /\ deliveries[d].endpoint = p
                            /\ Settled(d) \/ Behind(d))
=============================================================================
