------------------------- MODULE WebhooksOnceProofs -------------------------
(***************************************************************************)
(* A bound on how often an endpoint accepts one event, for any number of    *)
(* lost workers, manual retries, exceptions and answers not read. What may  *)
(* still be accepted is counted in chances; every step that makes one more  *)
(* is a disturbance, and every acceptance uses one up or is one not read.   *)
(***************************************************************************)
EXTENDS WebhooksProofs, FiniteSetTheorems

To(row, e, p) == row.event = e /\ row.endpoint = p

\* A copy that has not been accepted.
Live(c) == c.row.status # "success"

\* The retry task has a copy of row d.
Held(d) == \E c \in job["retry"].batch : c.id = d

\* The rows of e for p that the retry task will attempt, or has a copy of that
\* was not accepted.
ChanceRows(e, p) ==
    {d \in Rows : /\ To(deliveries[d], e, p)
                  /\ IF Held(d)
                     THEN \E c \in job["retry"].batch : c.id = d /\ Live(c)
                     ELSE deliveries[d].status = "failed"}

\* The event is still to be emitted, or a task will take it, or the task that
\* has it comes to p yet, or attempts it now.
DeliverChance(e, p) ==
    \/ e \notin emitted
    \/ e \in queue /\ job["deliver"].event # e
    \/ job["deliver"].event = e /\ p \in job["deliver"].todo
    \/ \E c \in job["deliver"].batch : To(c.row, e, p) /\ Live(c)

StaffChance(e, p) == \E c \in job["staff"].batch : To(c.row, e, p) /\ Live(c)

One(b) == IF b THEN 1 ELSE 0

Chances(e, p) == Cardinality(ChanceRows(e, p)) + One(DeliverChance(e, p))
                                               + One(StaffChance(e, p))

Within(e, p) == /\ accepted[e][p] \in Nat
                /\ accepted[e][p] + Chances(e, p) <= 1 + Disturbance

AcceptedTyped == accepted \in [Event -> [Endpoint -> Nat]]

Bounded == AcceptedTyped /\ \A e \in Event, p \in Endpoint : Within(e, p)

\* The broker holds the message of the event at work; only the deliver task
\* has an event.
EventsQueued ==
    /\ job["deliver"].event \in queue \cup {NoEvent}
    /\ job["retry"].event = NoEvent /\ job["staff"].event = NoEvent

\* The deliver task and staff have one copy at a time, and the task's is of its
\* event for an endpoint it does not come to again.
Singles ==
    /\ \A s \in {"deliver", "staff"} : \A a, b \in job[s].batch : a = b
    /\ \A c \in job["deliver"].batch :
        /\ c.row.event = job["deliver"].event
        /\ c.row.endpoint \notin job["deliver"].todo

SameTarget ==
    \A s \in Process : \A c \in job[s].batch :
        To(c.row, deliveries[c.id].event, deliveries[c.id].endpoint)

\* Only the copy in hand can have been accepted, and only once sent.
AcceptedInHand ==
    \A s \in Process : \A c \in job[s].batch :
        ~Live(c) => job[s].sent /\ c \in Current(s)

OnceInv == EventsQueued /\ Singles /\ SameTarget /\ AcceptedInHand
-----------------------------------------------------------------------------
\* What the job of s becomes; the others stay.
Becomes(s, event, todo, batch, sent) ==
    /\ job'[s].event = event /\ job'[s].todo = todo
    /\ job'[s].batch = batch /\ job'[s].sent = sent
    /\ \A o \in Process \ {s} : job'[o] = job[o]

Stops(s) == Becomes(s, NoEvent, {}, {}, FALSE)

LEMMA StopsJob ==
    ASSUME Typed, NEW s \in Process, Done(s)
    PROVE  Stops(s)
BY DEF Done, Idle, Stops, Becomes, Typed, JobsTyped

LEMMA TakeTaskJob ==
    ASSUME Typed, NEW e, TakeTask(e)
    PROVE  Becomes("deliver", e, Endpoint, {}, FALSE) /\ job["deliver"] = Idle
BY ProcessNames DEF TakeTask, Idle, Becomes, Typed, JobsTyped

LEMMA TriggerJob ==
    ASSUME Typed, Trigger
    PROVE  /\ job["deliver"].batch = {}
           /\ \E p \in job["deliver"].todo :
                LET new == [event |-> job["deliver"].event, endpoint |-> p,
                            status |-> "pending", attempts |-> 0, blocked |-> FALSE]
                IN  /\ Becomes("deliver", job["deliver"].event,
                               job["deliver"].todo \ {p},
                               {[id |-> Len(deliveries) + 1, row |-> new]},
                               job["deliver"].sent)
                    /\ new \in Delivery /\ deliveries' = Append(deliveries, new)
<1> DEFINE J == job["deliver"]
           New(p) == [event |-> J.event, endpoint |-> p, status |-> "pending",
                      attempts |-> 0, blocked |-> FALSE]
<1>1. PICK p \in J.todo :
        /\ deliveries' = Append(deliveries, New(p))
        /\ job' = [job EXCEPT
                     !["deliver"].todo = @ \ {p},
                     !["deliver"].batch = {[id |-> Len(deliveries) + 1, row |-> New(p)]}]
  BY DEF Trigger
<1>2. J \in Job /\ J.event \in Event /\ p \in Endpoint
  BY <1>1, ProcessNames DEF Typed, JobsTyped, Job
<1>3. New(p) \in Delivery
  BY <1>2 DEF Delivery, DeliveryStatus
<1> DEFINE b == {[id |-> Len(deliveries) + 1, row |-> New(p)]}
<1>4. job' = [job EXCEPT !["deliver"].todo = @ \ {p}, !["deliver"].batch = b]
  BY <1>1
<1> HIDE DEF b
<1>5. Becomes("deliver", J.event, J.todo \ {p}, b, J.sent)
  BY <1>2, <1>4, ProcessNames DEF Becomes, Typed, JobsTyped, Job
<1>6. J.batch = {}
  BY DEF Trigger
<1> QED  BY <1>1, <1>3, <1>5, <1>6 DEF b

LEMMA LoadJob ==
    ASSUME Typed, NEW s \in Process, NEW b, job[s] = Idle,
           job' = [job EXCEPT ![s].batch = b]
    PROVE  Becomes(s, NoEvent, {}, b, FALSE)
BY DEF Idle, Becomes, Typed, JobsTyped, Job

\* Answered, as the job it leaves.
LEMMA AnsweredJob ==
    ASSUME Typed, NEW s \in Process, NEW c, NEW r, Answered(s, c, r)
    PROVE  /\ ~job[s].sent
           /\ Becomes(s, job[s].event, job[s].todo,
                      (job[s].batch \ {c}) \cup {[id |-> c.id, row |-> r]}, TRUE)
           /\ UNCHANGED <<emitted, queue, deliveries>>
<1> DEFINE b == (job[s].batch \ {c}) \cup {[id |-> c.id, row |-> r]}
<1>1. job' = [job EXCEPT ![s].batch = b, ![s].sent = TRUE]
  BY DEF Answered
<1> HIDE DEF b
<1>2. Becomes(s, job[s].event, job[s].todo, b, TRUE)
  BY <1>1 DEF Becomes, Typed, JobsTyped, Job
<1> QED  BY <1>2 DEF Answered, b

\* The endpoint of r took its event once more.
TakenBy(r) == accepted' = [accepted EXCEPT ![r.event][r.endpoint] = @ + 1]

\* An attempt counts an acceptance with its outcome, or without it as a
\* disturbance.
CountsAs(r) ==
    \/ /\ IF r.status = "success" THEN TakenBy(r) ELSE accepted' = accepted
       /\ Disturbance' = Disturbance
    \/ r.status # "success" /\ TakenBy(r) /\ Disturbance' = Disturbance + 1

LEMMA AttemptJob ==
    ASSUME Typed, NEW s \in Process, Attempt(s) \/ AttemptUnread(s)
    PROVE  \E c \in Current(s) : \E r \in Outcomes(c.row) :
            Answered(s, c, r) /\ CountsAs(r)
<1>1. CASE Attempt(s)
  BY <1>1 DEF Attempt, CountsAs, TakenBy, disturbances, Disturbance
<1>2. CASE AttemptUnread(s)
  <2>1. PICK c \in Current(s) :
          /\ Answered(s, c, MarkRetry(Tried(c.row)))
          /\ accepted' = [accepted EXCEPT ![c.row.event][c.row.endpoint] = @ + 1]
          /\ unread' = unread + 1 /\ UNCHANGED <<kills, manual, raises>>
    BY <1>2 DEF AttemptUnread
  <2> DEFINE r == MarkRetry(Tried(c.row))
  <2>2. c.row \in Delivery
    BY CopyTyped DEF Current
  <2>3. r \in Outcomes(c.row)
    BY DEF Outcomes
  <2>4. r.event = c.row.event /\ r.endpoint = c.row.endpoint /\ r.status # "success"
    BY <2>2 DEF MarkRetry, Tried, Delivery
  <2>5. Disturbance' = Disturbance + 1
    BY <2>1 DEF Disturbance, Typed, FlowTyped
  <2> HIDE DEF r
  <2>6. CountsAs(r)
    BY <2>1, <2>4, <2>5 DEF CountsAs, TakenBy
  <2> QED  BY <2>1, <2>3, <2>6 DEF r
<1> QED  BY <1>1, <1>2

LEMMA SaveJob ==
    ASSUME Typed, NEW s \in Process, Save(s)
    PROVE  \E c \in Current(s) :
            /\ job[s].sent
            /\ Becomes(s, job[s].event, job[s].todo, job[s].batch \ {c}, FALSE)
            /\ deliveries' = [deliveries EXCEPT ![c.id] = c.row]
            /\ UNCHANGED <<emitted, queue, tries, accepted, disturbances>>
<1>1. PICK c \in Current(s) :
        /\ job[s].sent
        /\ deliveries' = [deliveries EXCEPT ![c.id] = c.row]
        /\ job' = [job EXCEPT ![s].batch = @ \ {c}, ![s].sent = FALSE]
        /\ UNCHANGED <<emitted, queue, tries, accepted, disturbances>>
  BY DEF Save, ghosts
<1> DEFINE b == job[s].batch \ {c}
<1>2. job' = [job EXCEPT ![s].batch = b, ![s].sent = FALSE]
  BY <1>1
<1> HIDE DEF b
<1>3. Becomes(s, job[s].event, job[s].todo, b, FALSE)
  BY <1>2 DEF Becomes, Typed, JobsTyped, Job
<1> QED  BY <1>1, <1>3 DEF b
-----------------------------------------------------------------------------
KeepTargets ==
    \A d \in Rows : To(deliveries'[d], deliveries[d].event, deliveries[d].endpoint)

\* OnceInv is about the job that moves; the others are as they were.
LEMMA OnceFrom ==
    ASSUME Typed, OnceInv, KeepTargets, EventsQueued',
           NEW s \in Process, NEW ev, NEW td, NEW b, NEW t, Becomes(s, ev, td, b, t),
           s \in {"deliver", "staff"} => \A x, y \in b : x = y,
           s = "deliver" => \A c \in b : c.row.event = ev /\ c.row.endpoint \notin td,
           \A c \in b : To(c.row, deliveries'[c.id].event, deliveries'[c.id].endpoint),
           \A c \in b : ~Live(c) => t /\ \A x \in b : x.id <= c.id
    PROVE  OnceInv'
<1>1. Singles'
  BY ProcessNames DEF Becomes, OnceInv, Singles
<1>2. SameTarget'
  <2> SUFFICES ASSUME NEW o \in Process, NEW c \in job'[o].batch
               PROVE  To(c.row, deliveries'[c.id].event, deliveries'[c.id].endpoint)
      BY DEF SameTarget, To
  <2>1. CASE o = s
    BY <2>1 DEF Becomes
  <2>2. CASE o # s
    <3>1. c \in job[o].batch
      BY <2>2 DEF Becomes
    <3>2. c.id \in Rows
      BY <3>1, CopyTyped
    <3> QED  BY <3>1, <3>2 DEF OnceInv, SameTarget, KeepTargets, To
  <2> QED  BY <2>1, <2>2
<1>3. AcceptedInHand'
  <2> SUFFICES ASSUME NEW o \in Process, NEW c \in job'[o].batch, ~Live(c)
               PROVE  job'[o].sent /\ c \in Current(o)'
      BY DEF AcceptedInHand, Live
  <2>1. CASE o = s
    BY <2>1 DEF Becomes, Current
  <2>2. CASE o # s
    BY <2>2 DEF Becomes, Current, OnceInv, AcceptedInHand
  <2> QED  BY <2>1, <2>2
<1> QED  BY <1>1, <1>2, <1>3 DEF OnceInv

LEMMA OutcomeTarget ==
    ASSUME NEW row \in Delivery, NEW r \in Outcomes(row)
    PROVE  To(r, row.event, row.endpoint)
<1> DEFINE counted == Tried(row)
<1>1. To(counted, row.event, row.endpoint) /\ counted \in Delivery
  BY DEF Delivery, To, Tried
<1>2. CASE r = [counted EXCEPT !.status = "success"]
  BY <1>1, <1>2 DEF Delivery, To
<1>3. CASE r = [counted EXCEPT !.status = "exhausted", !.blocked = TRUE]
  BY <1>1, <1>3 DEF Delivery, To
<1>4. CASE r = MarkRetry(counted)
  BY <1>1, <1>4 DEF Delivery, To, MarkRetry
<1> QED  BY <1>2, <1>3, <1>4 DEF Outcomes

LEMMA SameRowsKeep ==
    ASSUME deliveries' = deliveries
    PROVE  KeepTargets
BY DEF KeepTargets, To

LEMMA StopsOnce ==
    ASSUME Typed, OnceInv, NEW s \in Process, Done(s), UNCHANGED deliveries,
           s = "deliver" => queue' = queue \ {job[s].event} \/ queue' = queue,
           s # "deliver" => queue' = queue \/ queue' = queue \ {NoEvent}
    PROVE  OnceInv'
<1>1. Stops(s)
  BY StopsJob
<1>2. NoEvent \notin queue
  BY NamesAssumption DEF Typed, FlowTyped
<1>3. EventsQueued'
  <2>1. CASE s = "deliver"
    BY <1>1, <2>1, ProcessNames DEF Stops, Becomes, OnceInv, EventsQueued
  <2>2. CASE s # "deliver"
    BY <1>1, <1>2, <2>2, ProcessNames DEF Stops, Becomes, OnceInv, EventsQueued
  <2> QED  BY <2>1, <2>2
<1> DEFINE b == {}
<1>4. \A c \in b : FALSE
  OBVIOUS
<1>5. Becomes(s, NoEvent, {}, b, FALSE)
  BY <1>1 DEF Stops
<1> HIDE DEF b
<1> QED  BY <1>3, <1>4, <1>5, SameRowsKeep, OnceFrom

LEMMA TakeTaskOnce ==
    ASSUME Typed, OnceInv, NEW e \in Event, TakeTask(e)
    PROVE  OnceInv'
<1>1. Becomes("deliver", e, Endpoint, {}, FALSE)
  BY TakeTaskJob
<1>2. EventsQueued'
  BY <1>1, ProcessNames DEF TakeTask, Becomes, OnceInv, EventsQueued
<1>3. deliveries' = deliveries
  BY DEF TakeTask
<1> DEFINE b == {}
<1>4. \A c \in b : FALSE
  OBVIOUS
<1>5. Becomes("deliver", e, Endpoint, b, FALSE)
  BY <1>1
<1>6. "deliver" \in Process
  BY DEF Process
<1> HIDE DEF b
<1> QED  BY <1>2, <1>3, <1>4, <1>5, <1>6, SameRowsKeep, OnceFrom

LEMMA TriggerOnce ==
    ASSUME Typed, OnceInv, Trigger
    PROVE  OnceInv'
<1> DEFINE J == job["deliver"]
<1>1. PICK p \in J.todo :
        LET new == [event |-> J.event, endpoint |-> p, status |-> "pending",
                    attempts |-> 0, blocked |-> FALSE]
        IN  /\ Becomes("deliver", J.event, J.todo \ {p},
                       {[id |-> Len(deliveries) + 1, row |-> new]}, J.sent)
            /\ new \in Delivery /\ deliveries' = Append(deliveries, new)
  BY TriggerJob
<1> DEFINE new == [event |-> J.event, endpoint |-> p, status |-> "pending",
                   attempts |-> 0, blocked |-> FALSE]
           n == Len(deliveries) + 1
           c == [id |-> n, row |-> new]
<1>2. /\ new.event = J.event /\ new.endpoint = p /\ new.status = "pending"
      /\ new \in Delivery
  BY <1>1
<1> HIDE DEF new
<1>3. deliveries' = Append(deliveries, new)
      /\ Becomes("deliver", J.event, J.todo \ {p}, {c}, J.sent)
  BY <1>1 DEF new
<1>4. /\ deliveries'[n] = new
      /\ \A d \in Rows : deliveries'[d] = deliveries[d]
  BY <1>2, <1>3 DEF Typed, RowsTyped, Rows
<1>5. KeepTargets
  BY <1>4 DEF KeepTargets, To
<1>6. c.id = n /\ c.row = new
  OBVIOUS
<1> HIDE DEF c, n
<1>7. Live(c) /\ To(c.row, deliveries'[c.id].event, deliveries'[c.id].endpoint)
  BY <1>2, <1>4, <1>6 DEF Live, To
<1>8. EventsQueued'
  BY <1>3, ProcessNames DEF Trigger, Becomes, OnceInv, EventsQueued
<1> DEFINE b == {c}
<1>9. c \in b /\ \A x \in b : x = c
  OBVIOUS
<1>10. Becomes("deliver", J.event, J.todo \ {p}, b, J.sent)
  BY <1>3
<1>11. "deliver" \in Process
  BY DEF Process
<1>12. \A x \in b : x.row.event = J.event /\ x.row.endpoint \notin J.todo \ {p}
  BY <1>2, <1>6, <1>9
<1>13. \A x \in b : /\ Live(x)
                   /\ To(x.row, deliveries'[x.id].event, deliveries'[x.id].endpoint)
  BY <1>7, <1>9
<1>14. \A x, y \in b : x = y
  BY <1>9
<1> HIDE DEF b, J
<1> QED  BY <1>5, <1>8, <1>10, <1>11, <1>12, <1>13, <1>14, OnceFrom

LEMMA LoadOnce ==
    ASSUME Typed, OnceInv, NEW s \in {"retry", "staff"}, job[s] = Idle,
           NEW ds \in SUBSET Rows, \A d \in ds : deliveries[d].status # "success",
           s = "staff" => \E d \in Rows : ds = {d},
           job' = [job EXCEPT ![s].batch = {Copy(d) : d \in ds}],
           UNCHANGED <<deliveries, queue>>
    PROVE  OnceInv'
<1> DEFINE b == {Copy(d) : d \in ds}
<1>1. s \in Process
  BY DEF Process
<1>2. Becomes(s, NoEvent, {}, b, FALSE)
  <2> HIDE DEF b
  <2> QED  BY <1>1, LoadJob DEF b
<1>3. \A c \in b : Live(c) /\ To(c.row, deliveries'[c.id].event, deliveries'[c.id].endpoint)
  BY DEF Copy, Live, To
<1>4. s = "staff" => \A x, y \in b : x = y
  OBVIOUS
<1>5. EventsQueued'
  BY <1>2, ProcessNames DEF Becomes, OnceInv, EventsQueued
<1> HIDE DEF b
<1> QED  BY <1>1, <1>2, <1>3, <1>4, <1>5, SameRowsKeep, OnceFrom

LEMMA AttemptOnce ==
    ASSUME Typed, OnceInv, OneCopy, NEW s \in Process, Attempt(s) \/ AttemptUnread(s)
    PROVE  OnceInv'
<1>1. PICK c \in Current(s) : \E r \in Outcomes(c.row) : Answered(s, c, r)
  BY AttemptJob
<1>a. PICK r \in Outcomes(c.row) : Answered(s, c, r)
  BY <1>1
<1>2. /\ ~job[s].sent
      /\ Becomes(s, job[s].event, job[s].todo,
                 (job[s].batch \ {c}) \cup {[id |-> c.id, row |-> r]}, TRUE)
      /\ UNCHANGED <<emitted, queue, deliveries>>
  BY <1>a, AnsweredJob
<1> DEFINE new == [id |-> c.id, row |-> r]
           b == (job[s].batch \ {c}) \cup {new}
<1>3. c \in job[s].batch /\ c.row \in Delivery /\ \A x \in job[s].batch : x.id <= c.id
      /\ c.id \in Nat
  BY CopyTyped, RowTyped DEF Current
<1>4. new.id = c.id /\ new.row = r /\ To(r, c.row.event, c.row.endpoint)
  BY <1>3, OutcomeTarget
<1>5. \A x \in b : x = new \/ x \in job[s].batch
  OBVIOUS
<1>6. s \in {"deliver", "staff"} => \A x, y \in b : x = y
  BY <1>3 DEF OnceInv, Singles
<1> HIDE DEF new
<1>7. s = "deliver" => \A x \in b : /\ x.row.event = job[s].event
                                    /\ x.row.endpoint \notin job[s].todo
  BY <1>3, <1>4, <1>5 DEF OnceInv, Singles, To
<1>8. \A x \in b : To(x.row, deliveries'[x.id].event, deliveries'[x.id].endpoint)
  BY <1>2, <1>3, <1>4, <1>5 DEF OnceInv, SameTarget, To
<1>9. \A x \in b : ~Live(x) => TRUE /\ \A y \in b : y.id <= x.id
  BY <1>2, <1>3, <1>4, <1>5 DEF OnceInv, AcceptedInHand, Live
<1>10. EventsQueued'
  BY <1>2, ProcessNames DEF Becomes, OnceInv, EventsQueued
<1>11. Becomes(s, job[s].event, job[s].todo, b, TRUE)
  BY <1>2 DEF new
<1> HIDE DEF b
<1> QED  BY <1>2, <1>6, <1>7, <1>8, <1>9, <1>10, <1>11, SameRowsKeep, OnceFrom

LEMMA SaveOnce ==
    ASSUME Typed, OnceInv, OneCopy, NEW s \in Process, Save(s)
    PROVE  OnceInv'
<1>1. PICK c \in Current(s) :
        /\ job[s].sent
        /\ Becomes(s, job[s].event, job[s].todo, job[s].batch \ {c}, FALSE)
        /\ deliveries' = [deliveries EXCEPT ![c.id] = c.row]
        /\ UNCHANGED <<emitted, queue>>
  BY SaveJob
<1> DEFINE b == job[s].batch \ {c}
<1>2. c \in job[s].batch /\ c.id \in Rows /\ \A x \in job[s].batch : x.id <= c.id
  BY CopyTyped DEF Current
<1>3. KeepTargets
  BY <1>1, <1>2 DEF KeepTargets, To, OnceInv, SameTarget, Rows
<1>4. \A x \in b : Live(x)
  <2> SUFFICES ASSUME NEW x \in b, ~Live(x) PROVE FALSE
      OBVIOUS
  <2>1. x \in job[s].batch /\ x \in Current(s) /\ x # c
    BY DEF OnceInv, AcceptedInHand
  <2>2. c.id <= x.id /\ x.id <= c.id
    BY <1>2, <2>1 DEF Current
  <2>3. x.id = c.id
    BY <1>2, <2>1, <2>2, CopyTyped, RowTyped
  <2> QED  BY <1>2, <2>1, <2>3 DEF OneCopy
<1>5. \A x \in b : x \in job[s].batch /\ x.id \in Rows
  BY CopyTyped
<1>6. \A x \in b : To(x.row, deliveries'[x.id].event, deliveries'[x.id].endpoint)
  BY <1>3, <1>5 DEF KeepTargets, OnceInv, SameTarget, To
<1>7. EventsQueued'
  BY <1>1, ProcessNames DEF Becomes, OnceInv, EventsQueued
<1>8. s \in {"deliver", "staff"} => \A x, y \in b : x = y
  BY DEF OnceInv, Singles
<1>9. s = "deliver" => \A x \in b : /\ x.row.event = job[s].event
                                    /\ x.row.endpoint \notin job[s].todo
  BY DEF OnceInv, Singles
<1> HIDE DEF b
<1>10. Becomes(s, job[s].event, job[s].todo, b, FALSE)
  BY <1>1 DEF b
<1> QED  BY <1>3, <1>4, <1>6, <1>7, <1>8, <1>9, <1>10, OnceFrom

\* Nothing but the broker's messages and what is due changes.
LEMMA RestOnce ==
    ASSUME OnceInv, UNCHANGED <<job, deliveries>>, queue \subseteq queue'
    PROVE  OnceInv'
<1>1. EventsQueued'
  BY DEF OnceInv, EventsQueued
<1>2. Singles'
  BY DEF OnceInv, Singles
<1>3. SameTarget'
  BY DEF OnceInv, SameTarget, To
<1>4. AcceptedInHand'
  BY DEF OnceInv, AcceptedInHand, Current, Live
<1> QED  BY <1>1, <1>2, <1>3, <1>4 DEF OnceInv

LEMMA EndsOnce ==
    ASSUME Typed, OnceInv, NEW s \in Process,
           Raise(s) \/ Kill(s) \/ (s = "deliver" /\ EndTask)
    PROVE  OnceInv'
<1>1. s # "deliver" => job[s].event = NoEvent
  BY DEF OnceInv, EventsQueued, Process
<1>2. CASE Raise(s)
  BY <1>1, <1>2, StopsOnce DEF Raise
<1>3. CASE Kill(s)
  BY <1>3, StopsOnce DEF Kill
<1>4. CASE s = "deliver" /\ EndTask
  BY <1>4, StopsOnce DEF EndTask
<1> QED  BY <1>2, <1>3, <1>4

LEMMA RetryDueOnce ==
    ASSUME Typed, OnceInv, RetryDue
    PROVE  OnceInv'
<1>1. PICK ds \in SUBSET {d \in Rows : Due(d)} :
        job' = [job EXCEPT !["retry"].batch = {Copy(d) : d \in ds}]
  BY DEF RetryDue
<1>2. ds \in SUBSET Rows /\ \A d \in ds : deliveries[d].status # "success"
  BY DEF Due
<1>3. job["retry"] = Idle /\ UNCHANGED <<deliveries, queue>>
  BY DEF RetryDue
<1> QED  BY <1>1, <1>2, <1>3, LoadOnce

LEMMA RetryDeliveryOnce ==
    ASSUME Typed, OnceInv, NEW d \in Rows, RetryDelivery(d)
    PROVE  OnceInv'
<1> DEFINE ds == {d}
<1>1. {Copy(d)} = {Copy(x) : x \in ds}
  OBVIOUS
<1>2. ds \in SUBSET Rows /\ \E x \in Rows : ds = {x}
  OBVIOUS
<1>3. \A x \in ds : deliveries[x].status # "success"
  BY DEF RetryDelivery
<1>4. job' = [job EXCEPT !["staff"].batch = {Copy(x) : x \in ds}]
  BY <1>1 DEF RetryDelivery
<1>5. job["staff"] = Idle /\ UNCHANGED <<deliveries, queue>>
  BY DEF RetryDelivery
<1> HIDE DEF ds
<1> QED  BY <1>2, <1>3, <1>4, <1>5, LoadOnce

LEMMA OnceStep ==
    ASSUME Typed, OneCopy, OnceInv, [Next]_vars
    PROVE  OnceInv'
<1>1. CASE UNCHANGED vars
  BY <1>1, RestOnce DEF vars
<1>2. CASE \E e \in Event : Emit(e)
  BY <1>2, RestOnce DEF Emit
<1>3. CASE DeliverTask
  BY <1>3, ProcessNames, TakeTaskOnce, TriggerOnce, EndsOnce, AttemptOnce, SaveOnce
     DEF DeliverTask, Deliver
<1>4. CASE RetryTask
  BY <1>4, ProcessNames, RetryDueOnce, EndsOnce, AttemptOnce, SaveOnce
     DEF RetryTask, Deliver
<1>5. CASE StaffRequest
  BY <1>5, ProcessNames, EndsOnce, AttemptOnce, SaveOnce
     DEF StaffRequest, Deliver
<1>6. CASE Time
  BY <1>6, RestOnce DEF Time, FallDue
<1>7. CASE \E d \in Rows : RetryDelivery(d)
  BY <1>7, RetryDeliveryOnce
<1>8. CASE \E s \in Process : Kill(s)
  BY <1>8, EndsOnce
<1> QED  BY <1>1, <1>2, <1>3, <1>4, <1>5, <1>6, <1>7, <1>8 DEF Next
-----------------------------------------------------------------------------
\* How the chances of e at p change.
RowsFall(e, p) == ChanceRows(e, p)' \subseteq ChanceRows(e, p)
RowJoins(e, p) == \E x : ChanceRows(e, p)' \subseteq ChanceRows(e, p) \cup {x}
RowGoes(e, p) ==
    \E x \in ChanceRows(e, p) : ChanceRows(e, p)' \subseteq ChanceRows(e, p) \ {x}

DeliverFalls(e, p) == DeliverChance(e, p)' => DeliverChance(e, p)
DeliverGoes(e, p) == DeliverChance(e, p) /\ ~DeliverChance(e, p)'
StaffFalls(e, p) == StaffChance(e, p)' => StaffChance(e, p)
StaffGoes(e, p) == StaffChance(e, p) /\ ~StaffChance(e, p)'

\* There were n disturbances more; the endpoint accepted n times.
Paid(n) == Disturbance' = Disturbance + n
Accepts(e, p, n) == accepted'[e][p] = accepted[e][p] + n

Same(e, p) == /\ Accepts(e, p, 0) /\ Paid(0)
              /\ RowsFall(e, p) /\ DeliverFalls(e, p) /\ StaffFalls(e, p)

Appears(e, p) == /\ Accepts(e, p, 0) /\ Paid(1)
                 /\ \/ RowJoins(e, p) /\ DeliverFalls(e, p) /\ StaffFalls(e, p)
                    \/ RowsFall(e, p) /\ StaffFalls(e, p)
                    \/ RowsFall(e, p) /\ DeliverFalls(e, p)

Moves(e, p) == /\ Accepts(e, p, 0) /\ Paid(0) /\ RowJoins(e, p)
               /\ \/ DeliverGoes(e, p) /\ StaffFalls(e, p)
                  \/ StaffGoes(e, p) /\ DeliverFalls(e, p)

Spent(e, p) == /\ Accepts(e, p, 1) /\ Paid(0)
               /\ \/ RowGoes(e, p) /\ DeliverFalls(e, p) /\ StaffFalls(e, p)
                  \/ RowsFall(e, p) /\ DeliverGoes(e, p) /\ StaffFalls(e, p)
                  \/ RowsFall(e, p) /\ StaffGoes(e, p) /\ DeliverFalls(e, p)

Unread(e, p) == /\ Accepts(e, p, 1) /\ Paid(1)
                /\ RowsFall(e, p) /\ DeliverFalls(e, p) /\ StaffFalls(e, p)

Balanced(e, p) ==
    Same(e, p) \/ Appears(e, p) \/ Moves(e, p) \/ Spent(e, p) \/ Unread(e, p)

LEMMA DisturbanceNatural == Typed => Disturbance \in Nat
BY DEF Typed, FlowTyped, Disturbance

LEMMA CountRows ==
    ASSUME NEW R, IsFiniteSet(R), NEW T
    PROVE  /\ Cardinality(R) \in Nat
           /\ T \subseteq R => Cardinality(T) \in Nat /\ Cardinality(T) <= Cardinality(R)
           /\ \A x : T \subseteq R \cup {x} =>
                Cardinality(T) \in Nat /\ Cardinality(T) <= Cardinality(R) + 1
           /\ \A x \in R : T \subseteq R \ {x} =>
                Cardinality(T) \in Nat /\ Cardinality(T) <= Cardinality(R) - 1
<1>1. Cardinality(R) \in Nat
  BY FS_CardinalityType
<1>2. ASSUME T \subseteq R
      PROVE  Cardinality(T) \in Nat /\ Cardinality(T) <= Cardinality(R)
  BY <1>2, FS_Subset, FS_CardinalityType
<1>3. ASSUME NEW x, T \subseteq R \cup {x}
      PROVE  Cardinality(T) \in Nat /\ Cardinality(T) <= Cardinality(R) + 1
  <2> DEFINE S == R \cup {x}
  <2>1. IsFiniteSet(S) /\ Cardinality(S) <= Cardinality(R) + 1 /\ Cardinality(S) \in Nat
    BY <1>1, FS_AddElement, FS_CardinalityType
  <2>2. T \subseteq S
    BY <1>3
  <2> HIDE DEF S
  <2>3. Cardinality(T) \in Nat /\ Cardinality(T) <= Cardinality(S)
    BY <2>1, <2>2, FS_Subset, FS_CardinalityType
  <2> QED  BY <1>1, <2>1, <2>3
<1>4. ASSUME NEW x \in R, T \subseteq R \ {x}
      PROVE  Cardinality(T) \in Nat /\ Cardinality(T) <= Cardinality(R) - 1
  <2> DEFINE S == R \ {x}
  <2>1. IsFiniteSet(S) /\ Cardinality(S) = Cardinality(R) - 1 /\ Cardinality(S) \in Nat
    BY <1>1, FS_RemoveElement, FS_CardinalityType
  <2>2. T \subseteq S
    BY <1>4
  <2> HIDE DEF S
  <2>3. Cardinality(T) \in Nat /\ Cardinality(T) <= Cardinality(S)
    BY <2>1, <2>2, FS_Subset, FS_CardinalityType
  <2> QED  BY <1>1, <2>1, <2>3
<1> QED  BY <1>1, <1>2, <1>3, <1>4

\* Sums of the three counts of chances, before and after.
LEMMA SumsOfCounts ==
    ASSUME NEW k \in Nat, NEW k2 \in Nat, NEW D \in {0, 1}, NEW D2 \in {0, 1},
           NEW S \in {0, 1}, NEW S2 \in {0, 1}
    PROVE  /\ k2 <= k /\ D2 <= D /\ S2 <= S => k2 + D2 + S2 <= k + D + S
           /\ k2 <= k + 1 /\ D2 <= D /\ S2 <= S => k2 + D2 + S2 <= k + D + S + 1
           /\ k2 <= k /\ (D2 <= D \/ S2 <= S) => k2 + D2 + S2 <= k + D + S + 1
           /\ k2 <= k + 1 /\ D = 1 /\ D2 = 0 /\ S2 <= S => k2 + D2 + S2 <= k + D + S
           /\ k2 <= k + 1 /\ S = 1 /\ S2 = 0 /\ D2 <= D => k2 + D2 + S2 <= k + D + S
           /\ k2 <= k - 1 /\ D2 <= D /\ S2 <= S => k2 + D2 + S2 + 1 <= k + D + S
           /\ k2 <= k /\ D = 1 /\ D2 = 0 /\ S2 <= S => k2 + D2 + S2 + 1 <= k + D + S
           /\ k2 <= k /\ S = 1 /\ S2 = 0 /\ D2 <= D => k2 + D2 + S2 + 1 <= k + D + S
<1>1. D \in Nat /\ D2 \in Nat /\ S \in Nat /\ S2 \in Nat
      /\ D2 <= D + 1 /\ S2 <= S + 1
  OBVIOUS
<1> QED  BY <1>1

\* The bound outlasts every balanced change.
LEMMA Balance ==
    ASSUME Typed, Typed', NEW e \in Event, NEW p \in Endpoint,
           Within(e, p), Balanced(e, p)
    PROVE  Within(e, p)'
<1> DEFINE R == ChanceRows(e, p)
           T == ChanceRows(e, p)'
           D == One(DeliverChance(e, p))
           D2 == One(DeliverChance(e, p)')
           S == One(StaffChance(e, p))
           S2 == One(StaffChance(e, p)')
<1>1. Disturbance \in Nat /\ Disturbance' \in Nat
  <2>1. /\ kills' \in Nat /\ manual' \in Nat /\ raises' \in Nat /\ unread' \in Nat
        /\ Disturbance \in Nat
    BY DisturbanceNatural DEF Typed, FlowTyped
  <2>2. Disturbance' = kills' + manual' + raises' + unread'
    BY DEF Disturbance
  <2>3. \A i, j, m, n \in Nat : i + j + m + n \in Nat
    OBVIOUS
  <2> QED  BY <2>1, <2>2, <2>3, Zenon
<1>2. IsFiniteSet(R)
  <2>1. Len(deliveries) \in Nat /\ Rows = 1..Len(deliveries)
    BY DEF Typed, RowsTyped, Rows
  <2>2. IsFiniteSet(Rows)
    BY <2>1, FS_Interval
  <2>3. R \subseteq Rows
    BY DEF ChanceRows
  <2> HIDE DEF R
  <2> QED  BY <2>2, <2>3, FS_Subset
<1>3. /\ D \in {0, 1} /\ D2 \in {0, 1} /\ S \in {0, 1} /\ S2 \in {0, 1}
      /\ DeliverFalls(e, p) => D2 <= D
      /\ DeliverGoes(e, p) => D = 1 /\ D2 = 0
      /\ StaffFalls(e, p) => S2 <= S
      /\ StaffGoes(e, p) => S = 1 /\ S2 = 0
  BY DEF One, DeliverFalls, DeliverGoes, StaffFalls, StaffGoes
<1>4. /\ Cardinality(R) \in Nat
      /\ RowsFall(e, p) => Cardinality(T) \in Nat /\ Cardinality(T) <= Cardinality(R)
      /\ RowJoins(e, p) => Cardinality(T) \in Nat /\ Cardinality(T) <= Cardinality(R) + 1
      /\ RowGoes(e, p) => Cardinality(T) \in Nat /\ Cardinality(T) <= Cardinality(R) - 1
  <2>1. /\ RowsFall(e, p) <=> T \subseteq R
        /\ RowJoins(e, p) <=> \E x : T \subseteq R \cup {x}
        /\ RowGoes(e, p) <=> \E x \in R : T \subseteq R \ {x}
    BY DEF RowsFall, RowJoins, RowGoes
  <2> HIDE DEF R, T
  <2> QED  BY <1>2, <2>1, CountRows
<1> DEFINE k == Cardinality(R)
           k2 == Cardinality(T)
           c == k + D + S
           c2 == k2 + D2 + S2
<1>5. Chances(e, p) = c /\ Chances(e, p)' = c2
  BY DEF Chances
<1> HIDE DEF R, T, D, D2, S, S2
<1>6. k2 \in Nat /\ k \in Nat
  BY <1>4 DEF Balanced, Same, Appears, Moves, Spent, Unread
<1> HIDE DEF k, k2
<1>7. c \in Nat /\ c2 \in Nat
  BY <1>3, <1>6
<1>8. ASSUME NEW m \in Nat, NEW n \in Nat, Accepts(e, p, m), Paid(n), c2 + m <= c + n
      PROVE  Within(e, p)'
  <2> DEFINE a == accepted[e][p]
             a2 == accepted'[e][p]
             b == 1 + Disturbance
             b2 == 1 + Disturbance'
  <2>1. a2 = a + m /\ a + c <= b /\ a \in Nat
    BY <1>5, <1>8 DEF Accepts, Within
  <2>2. b \in Nat /\ b2 \in Nat /\ b2 = b + n
    BY <1>1, <1>8 DEF Paid
  <2>3. c2 + m <= c + n
    BY <1>8
  <2> HIDE DEF a, a2, b, b2, c, c2
  <2>4. a2 \in Nat /\ a2 + c2 <= b2
    BY <1>7, <2>1, <2>2, <2>3
  <2> QED  BY <1>5, <2>4 DEF a2, b2, Within
<1>9. CASE Same(e, p)
  <2>1. k2 <= k /\ D2 <= D /\ S2 <= S
    BY <1>3, <1>4, <1>9 DEF Same, k, k2
  <2>2. c2 <= c
    BY <1>3, <1>6, <2>1, SumsOfCounts
  <2> HIDE DEF c, c2
  <2>3. c2 + 0 <= c + 0
    BY <1>7, <2>2
  <2>4. Accepts(e, p, 0) /\ Paid(0)
    BY <1>9 DEF Same
  <2> QED  BY <1>8, <2>3, <2>4
<1>10. CASE Appears(e, p)
  <2>1. \/ k2 <= k + 1 /\ D2 <= D /\ S2 <= S
        \/ k2 <= k /\ S2 <= S
        \/ k2 <= k /\ D2 <= D
    BY <1>3, <1>4, <1>10 DEF Appears, k, k2
  <2>2. c2 <= c + 1
    BY <1>3, <1>6, <2>1, SumsOfCounts
  <2> HIDE DEF c, c2
  <2>3. c2 + 0 <= c + 1
    BY <1>7, <2>2
  <2>4. Accepts(e, p, 0) /\ Paid(1)
    BY <1>10 DEF Appears
  <2> QED  BY <1>8, <2>3, <2>4
<1>11. CASE Moves(e, p)
  <2>1. /\ k2 <= k + 1
        /\ \/ D = 1 /\ D2 = 0 /\ S2 <= S
           \/ S = 1 /\ S2 = 0 /\ D2 <= D
    BY <1>3, <1>4, <1>11 DEF Moves, k, k2
  <2>2. c2 <= c
    BY <1>3, <1>6, <2>1, SumsOfCounts
  <2> HIDE DEF c, c2
  <2>3. c2 + 0 <= c + 0
    BY <1>7, <2>2
  <2>4. Accepts(e, p, 0) /\ Paid(0)
    BY <1>11 DEF Moves
  <2> QED  BY <1>8, <2>3, <2>4
<1>12. CASE Spent(e, p)
  <2>1. \/ k2 <= k - 1 /\ D2 <= D /\ S2 <= S
        \/ k2 <= k /\ D = 1 /\ D2 = 0 /\ S2 <= S
        \/ k2 <= k /\ S = 1 /\ S2 = 0 /\ D2 <= D
    BY <1>3, <1>4, <1>12 DEF Spent, k, k2
  <2>2. c2 + 1 <= c
    BY <1>3, <1>6, <2>1, SumsOfCounts
  <2> HIDE DEF c, c2
  <2>3. c2 + 1 <= c + 0
    BY <1>7, <2>2
  <2>4. Accepts(e, p, 1) /\ Paid(0)
    BY <1>12 DEF Spent
  <2> QED  BY <1>8, <2>3, <2>4
<1>13. CASE Unread(e, p)
  <2>1. k2 <= k /\ D2 <= D /\ S2 <= S
    BY <1>3, <1>4, <1>13 DEF Unread, k, k2
  <2>2. c2 <= c
    BY <1>3, <1>6, <2>1, SumsOfCounts
  <2> HIDE DEF c, c2
  <2>3. c2 + 1 <= c + 1
    BY <1>7, <2>2
  <2>4. Accepts(e, p, 1) /\ Paid(1)
    BY <1>13 DEF Unread
  <2> QED  BY <1>8, <2>3, <2>4
<1> QED  BY <1>9, <1>10, <1>11, <1>12, <1>13 DEF Balanced
-----------------------------------------------------------------------------
AllBalanced == \A e \in Event, p \in Endpoint : Balanced(e, p)

LEMMA NothingAccepted ==
    ASSUME Typed, AcceptedTyped, accepted' = accepted,
           NEW e \in Event, NEW p \in Endpoint
    PROVE  /\ Accepts(e, p, 0)
           /\ Disturbance' = Disturbance => Paid(0)
           /\ Disturbance' = Disturbance + 1 => Paid(1)
<1>1. accepted[e][p] \in Nat /\ Disturbance \in Nat
  BY DisturbanceNatural DEF AcceptedTyped
<1> QED  BY <1>1 DEF Accepts, Paid

LEMMA RetryKeeps ==
    ASSUME job'["retry"].batch = job["retry"].batch, NEW e, NEW p,
           \A d \in Rows' : \/ d \in Rows /\ deliveries'[d] = deliveries[d]
                            \/ deliveries'[d].status = "pending" /\ ~Held(d)
    PROVE  RowsFall(e, p)
<1>1. \A d : Held(d)' <=> Held(d)
  BY DEF Held
<1>2. \A d : (\E c \in job'["retry"].batch : c.id = d /\ Live(c))
                <=> \E c \in job["retry"].batch : c.id = d /\ Live(c)
  OBVIOUS
<1>3. ASSUME NEW d \in ChanceRows(e, p)' PROVE d \in ChanceRows(e, p)
  <2>1. /\ d \in Rows' /\ To(deliveries'[d], e, p)
        /\ IF Held(d)'
           THEN \E c \in job'["retry"].batch : c.id = d /\ Live(c)
           ELSE deliveries'[d].status = "failed"
    BY <1>3 DEF ChanceRows, To, Live
  <2>2. d \in Rows /\ deliveries'[d] = deliveries[d]
    BY <1>1, <2>1
  <2> QED  BY <1>1, <1>2, <2>1, <2>2 DEF ChanceRows
<1> QED  BY <1>3 DEF RowsFall

LEMMA SameRowsFall ==
    ASSUME job'["retry"] = job["retry"], deliveries' = deliveries, NEW e, NEW p
    PROVE  RowsFall(e, p)
BY RetryKeeps DEF Rows

LEMMA DeliverKeeps ==
    ASSUME UNCHANGED <<emitted, queue>>, job'["deliver"] = job["deliver"], NEW e, NEW p
    PROVE  DeliverFalls(e, p)
BY DEF DeliverFalls, DeliverChance, To, Live

LEMMA StaffKeeps ==
    ASSUME job'["staff"] = job["staff"], NEW e, NEW p
    PROVE  StaffFalls(e, p)
BY DEF StaffFalls, StaffChance, To, Live

LEMMA RestBalanced ==
    ASSUME Typed, AcceptedTyped, UNCHANGED <<job, deliveries, accepted>>,
           Disturbance' = Disturbance,
           NEW e \in Event, NEW p \in Endpoint, DeliverFalls(e, p)
    PROVE  Balanced(e, p)
<1>1. RowsFall(e, p) /\ StaffFalls(e, p)
  BY SameRowsFall, StaffKeeps
<1> QED  BY <1>1, NothingAccepted DEF Same, Balanced

LEMMA EmitBalanced ==
    ASSUME Typed, AcceptedTyped, NEW x \in Event, Emit(x)
    PROVE  AllBalanced
<1> SUFFICES ASSUME NEW e \in Event, NEW p \in Endpoint PROVE Balanced(e, p)
    BY DEF AllBalanced
<1>1. UNCHANGED <<job, deliveries, accepted>> /\ Disturbance' = Disturbance
  BY DEF Emit, ghosts, disturbances, Disturbance
<1>2. /\ x \notin emitted /\ emitted' = emitted \cup {x}
      /\ queue' \subseteq queue \cup {x}
  BY DEF Emit
<1>3. DeliverFalls(e, p)
  BY <1>1, <1>2 DEF DeliverFalls, DeliverChance, To, Live
<1> QED  BY <1>1, <1>3, RestBalanced

LEMMA TakeTaskBalanced ==
    ASSUME Typed, AcceptedTyped, NEW x \in Event, TakeTask(x)
    PROVE  AllBalanced
<1> SUFFICES ASSUME NEW e \in Event, NEW p \in Endpoint PROVE Balanced(e, p)
    BY DEF AllBalanced
<1>1. Becomes("deliver", x, Endpoint, {}, FALSE) /\ job["deliver"] = Idle
  BY TakeTaskJob
<1>2. /\ x \in queue /\ UNCHANGED <<emitted, queue, deliveries, accepted>>
      /\ Disturbance' = Disturbance
  BY DEF TakeTask, ghosts, disturbances, Disturbance
<1>3. RowsFall(e, p) /\ StaffFalls(e, p)
  BY <1>1, <1>2, ProcessNames, SameRowsFall, StaffKeeps DEF Becomes
<1>4. job["deliver"].event = NoEvent /\ NoEvent \notin Event
  BY <1>1, NamesAssumption DEF Idle
<1>5. DeliverFalls(e, p)
  BY <1>1, <1>2, <1>4 DEF Becomes, DeliverFalls, DeliverChance
<1> QED  BY <1>2, <1>3, <1>5, NothingAccepted DEF Same, Balanced

LEMMA TriggerBalanced ==
    ASSUME Typed, AcceptedTyped, Trigger
    PROVE  AllBalanced
<1> DEFINE J == job["deliver"]
<1> SUFFICES ASSUME NEW e \in Event, NEW p \in Endpoint PROVE Balanced(e, p)
    BY DEF AllBalanced
<1>1. J.batch = {} /\
      \E x \in J.todo :
        LET new == [event |-> J.event, endpoint |-> x, status |-> "pending",
                    attempts |-> 0, blocked |-> FALSE]
        IN  /\ Becomes("deliver", J.event, J.todo \ {x},
                       {[id |-> Len(deliveries) + 1, row |-> new]}, J.sent)
            /\ new \in Delivery /\ deliveries' = Append(deliveries, new)
  BY TriggerJob
<1>2. PICK x \in J.todo :
        LET new == [event |-> J.event, endpoint |-> x, status |-> "pending",
                    attempts |-> 0, blocked |-> FALSE]
        IN  /\ Becomes("deliver", J.event, J.todo \ {x},
                       {[id |-> Len(deliveries) + 1, row |-> new]}, J.sent)
            /\ new \in Delivery /\ deliveries' = Append(deliveries, new)
  BY <1>1
<1> DEFINE new == [event |-> J.event, endpoint |-> x, status |-> "pending",
                   attempts |-> 0, blocked |-> FALSE]
           n == Len(deliveries) + 1
           c == [id |-> n, row |-> new]
<1>3. new.event = J.event /\ new.endpoint = x /\ new.status = "pending"
      /\ new \in Delivery /\ c.row = new
  BY <1>2
<1>4. /\ deliveries' = Append(deliveries, new)
      /\ Becomes("deliver", J.event, J.todo \ {x}, {c}, J.sent)
  BY <1>2
<1> HIDE DEF new, c
<1>5. /\ n \in Nat /\ Rows' = 1..n /\ Rows = 1..(n - 1) /\ deliveries'[n] = new
      /\ \A d \in Rows : deliveries'[d] = deliveries[d]
  BY <1>3, <1>4 DEF Typed, RowsTyped, Rows
<1>6. ~Held(n)
  BY <1>5, CopyTyped, ProcessNames DEF Held
<1> HIDE DEF n
<1>7. \A d \in Rows' : \/ d \in Rows /\ deliveries'[d] = deliveries[d]
                       \/ deliveries'[d].status = "pending" /\ ~Held(d)
  <2>1. \A d \in Rows' : d \in Rows \/ d = n
    BY <1>5
  <2> QED  BY <1>3, <1>5, <1>6, <2>1
<1>8. RowsFall(e, p) /\ StaffFalls(e, p)
  BY <1>4, <1>7, ProcessNames, RetryKeeps, StaffKeeps DEF Becomes
<1>9. UNCHANGED <<emitted, queue, accepted>> /\ Disturbance' = Disturbance
  BY DEF Trigger, disturbances, Disturbance
<1>10. DeliverFalls(e, p)
  <2>1. /\ job'["deliver"].event = J.event /\ job'["deliver"].todo = J.todo \ {x}
        /\ \A y \in job'["deliver"].batch : y = c
    BY <1>4 DEF Becomes
  <2>2. To(c.row, e, p) => J.event = e /\ p = x
    BY <1>3 DEF To
  <2> HIDE DEF J
  <2>3. ASSUME DeliverChance(e, p)' PROVE DeliverChance(e, p)
    BY <1>9, <2>1, <2>2, <2>3 DEF DeliverChance, To, J
  <2> QED  BY <2>3 DEF DeliverFalls
<1> QED  BY <1>8, <1>9, <1>10, NothingAccepted DEF Same, Balanced
-----------------------------------------------------------------------------
\* The retry task drops its batch.
LEMMA RetryDrops ==
    ASSUME job'["retry"].batch = {}, deliveries' = deliveries, NEW e, NEW p, NEW lost,
           \A c \in job["retry"].batch : ~Live(c) => c.id \in lost
    PROVE  ChanceRows(e, p)' \subseteq ChanceRows(e, p) \cup lost
<1> SUFFICES ASSUME NEW d \in ChanceRows(e, p)', d \notin lost
             PROVE  d \in ChanceRows(e, p)
    OBVIOUS
<1>1. ~Held(d)'
  BY DEF Held
<1>2. d \in Rows /\ To(deliveries[d], e, p) /\ deliveries[d].status = "failed"
  BY <1>1 DEF ChanceRows, To, Rows
<1>3. Held(d) => \E c \in job["retry"].batch : c.id = d /\ Live(c)
  BY DEF Held
<1> QED  BY <1>2, <1>3 DEF ChanceRows

\* What an ended job may still have brought about is not more than it was,
\* unless the message of the event stays or an acceptance is forgotten.
LEMMA EndedDeliver ==
    ASSUME Typed, OnceInv, Stops("deliver"), UNCHANGED <<emitted, deliveries>>,
           queue' = queue \ {job["deliver"].event}, NEW e \in Event, NEW p \in Endpoint
    PROVE  DeliverFalls(e, p)
<1>1. NoEvent # e
  BY NamesAssumption
<1> QED  BY <1>1 DEF Stops, Becomes, DeliverFalls, DeliverChance

LEMMA EndsBalanced ==
    ASSUME Typed, AcceptedTyped, OnceInv, NEW s \in Process,
           Raise(s) \/ Kill(s) \/ (s = "deliver" /\ EndTask)
    PROVE  AllBalanced
<1> SUFFICES ASSUME NEW e \in Event, NEW p \in Endpoint PROVE Balanced(e, p)
    BY DEF AllBalanced
<1>1. Stops(s)
  BY StopsJob DEF Raise, Kill, EndTask
<1>2. UNCHANGED <<emitted, deliveries, accepted>>
  BY DEF Raise, Kill, EndTask, ghosts
<1>3. \/ /\ Disturbance' = Disturbance /\ queue' = queue \ {job[s].event}
         /\ ~job[s].sent \/ s = "deliver"
      \/ /\ Disturbance' = Disturbance + 1
         /\ queue' \in {queue, queue \ {job[s].event}}
  <2>1. CASE Raise(s)
    BY <2>1 DEF Raise, Typed, FlowTyped, Disturbance
  <2>2. CASE Kill(s)
    BY <2>2 DEF Kill, Typed, FlowTyped, Disturbance
  <2>3. CASE s = "deliver" /\ EndTask
    BY <2>3 DEF EndTask, disturbances, Disturbance
  <2> QED  BY <2>1, <2>2, <2>3
<1>4. NoEvent \notin queue
  BY NamesAssumption DEF Typed, FlowTyped
<1>5. s # "deliver" => queue' = queue
  BY <1>3, <1>4 DEF OnceInv, EventsQueued, Process
<1>6. CASE s = "deliver"
  <2>1. RowsFall(e, p) /\ StaffFalls(e, p)
    BY <1>1, <1>2, <1>6, ProcessNames, SameRowsFall, StaffKeeps DEF Stops, Becomes
  <2>2. queue' = queue \ {job[s].event} => DeliverFalls(e, p)
    BY <1>1, <1>2, <1>6, EndedDeliver
  <2> QED  BY <1>2, <1>3, <2>1, <2>2, NothingAccepted DEF Same, Appears, Balanced
<1>7. CASE s = "retry"
  <2>1. DeliverFalls(e, p) /\ StaffFalls(e, p)
    BY <1>1, <1>2, <1>5, <1>7, ProcessNames, DeliverKeeps, StaffKeeps
       DEF Stops, Becomes
  <2>2. job'["retry"].batch = {}
    BY <1>1, <1>7 DEF Stops, Becomes
  <2>3. CASE Disturbance' = Disturbance /\ ~job[s].sent
    <3>1. \A c \in job["retry"].batch : ~Live(c) => c.id \in {}
      BY <1>7, <2>3 DEF OnceInv, AcceptedInHand
    <3>2. RowsFall(e, p)
      BY <1>2, <2>2, <3>1, RetryDrops DEF RowsFall
    <3> QED  BY <1>2, <2>1, <2>3, <3>2, NothingAccepted DEF Same, Balanced
  <2>4. CASE Disturbance' = Disturbance + 1
    <3>1. PICK x : \A c \in job["retry"].batch : ~Live(c) => c.id \in {x}
      <4>1. \A a, b \in job["retry"].batch : ~Live(a) /\ ~Live(b) => a.id = b.id
        <5> SUFFICES ASSUME NEW a \in job["retry"].batch, NEW b \in job["retry"].batch,
                            ~Live(a), ~Live(b)
                     PROVE  a.id = b.id
            OBVIOUS
        <5>1. a.id <= b.id /\ b.id <= a.id
          BY <1>7 DEF OnceInv, AcceptedInHand, Current
        <5>2. a.id \in Nat /\ b.id \in Nat
          BY <1>7, CopyTyped DEF CopyOf
        <5> QED  BY <5>1, <5>2
      <4> QED  BY <4>1
    <3>2. ChanceRows(e, p)' \subseteq ChanceRows(e, p) \cup {x}
      BY <1>2, <2>2, <3>1, RetryDrops
    <3> QED  BY <1>2, <2>1, <2>4, <3>2, NothingAccepted DEF RowJoins, Appears, Balanced
  <2> QED  BY <1>3, <1>7, <2>3, <2>4
<1>8. CASE s = "staff"
  <2>1. DeliverFalls(e, p) /\ RowsFall(e, p)
    BY <1>1, <1>2, <1>5, <1>8, ProcessNames, DeliverKeeps, SameRowsFall
       DEF Stops, Becomes
  <2>2. StaffFalls(e, p)
    BY <1>1, <1>8 DEF Stops, Becomes, StaffFalls, StaffChance
  <2> QED  BY <1>2, <1>3, <2>1, <2>2, NothingAccepted DEF Same, Appears, Balanced
<1> QED  BY <1>6, <1>7, <1>8 DEF Process

LEMMA RetryDueBalanced ==
    ASSUME Typed, AcceptedTyped, RetryDue
    PROVE  AllBalanced
<1> SUFFICES ASSUME NEW e \in Event, NEW p \in Endpoint PROVE Balanced(e, p)
    BY DEF AllBalanced
<1>1. PICK ds \in SUBSET {d \in Rows : Due(d)} :
        job' = [job EXCEPT !["retry"].batch = {Copy(d) : d \in ds}]
  BY DEF RetryDue
<1>2. /\ job["retry"] = Idle
      /\ UNCHANGED <<emitted, queue, deliveries, accepted>>
      /\ Disturbance' = Disturbance
  BY DEF RetryDue, ghosts, disturbances, Disturbance
<1> DEFINE b == {Copy(d) : d \in ds}
<1>3. \A c \in b : c.id \in Rows /\ deliveries[c.id].status = "failed"
  BY DEF Copy, Due
<1>4. Becomes("retry", NoEvent, {}, b, FALSE)
  <2>1. job' = [job EXCEPT !["retry"].batch = b]
    BY <1>1
  <2> HIDE DEF b
  <2> QED  BY <1>2, <2>1, ProcessNames, LoadJob
<1> HIDE DEF b
<1>5. DeliverFalls(e, p) /\ StaffFalls(e, p)
  BY <1>2, <1>4, ProcessNames, DeliverKeeps, StaffKeeps DEF Becomes
<1>6. ASSUME NEW d \in ChanceRows(e, p)' PROVE d \in ChanceRows(e, p)
  <2>1. ~Held(d)
    BY <1>2 DEF Held, Idle
  <2>2. Held(d)' => deliveries[d].status = "failed"
    BY <1>3, <1>4 DEF Held, Becomes
  <2> QED  BY <1>2, <1>6, <2>1, <2>2 DEF ChanceRows, To, Rows
<1>7. RowsFall(e, p)
  BY <1>6 DEF RowsFall
<1> QED  BY <1>2, <1>5, <1>7, NothingAccepted DEF Same, Balanced

LEMMA RetryDeliveryBalanced ==
    ASSUME Typed, AcceptedTyped, NEW d \in Rows, RetryDelivery(d)
    PROVE  AllBalanced
<1> SUFFICES ASSUME NEW e \in Event, NEW p \in Endpoint PROVE Balanced(e, p)
    BY DEF AllBalanced
<1>1. /\ job["staff"] = Idle /\ Disturbance' = Disturbance + 1
      /\ UNCHANGED <<emitted, queue, deliveries, accepted>>
  BY DEF RetryDelivery, ghosts, Typed, FlowTyped, Disturbance
<1> DEFINE b == {Copy(d)}
<1>2. Becomes("staff", NoEvent, {}, b, FALSE)
  <2>1. job' = [job EXCEPT !["staff"].batch = b]
    BY DEF RetryDelivery
  <2> HIDE DEF b
  <2> QED  BY <1>1, <2>1, ProcessNames, LoadJob
<1> HIDE DEF b
<1>3. DeliverFalls(e, p) /\ RowsFall(e, p)
  BY <1>1, <1>2, ProcessNames, DeliverKeeps, SameRowsFall DEF Becomes
<1> QED  BY <1>1, <1>3, NothingAccepted DEF Appears, Balanced
-----------------------------------------------------------------------------
\* An accepted request counts for the event and the endpoint of its row.
LEMMA CountAccepted ==
    ASSUME AcceptedTyped, NEW r \in Delivery, TakenBy(r) \/ accepted' = accepted
    PROVE  /\ AcceptedTyped'
           /\ \A e \in Event, p \in Endpoint :
                IF TakenBy(r) /\ To(r, e, p) THEN Accepts(e, p, 1) ELSE Accepts(e, p, 0)
<1>1. r.event \in Event /\ r.endpoint \in Endpoint
  BY DEF Delivery
<1>2. \A e \in Event, p \in Endpoint : accepted[e][p] \in Nat
  BY DEF AcceptedTyped
<1>3. CASE ~TakenBy(r)
  BY <1>2, <1>3 DEF AcceptedTyped, Accepts
<1>4. CASE TakenBy(r)
  <2>1. accepted' = [accepted EXCEPT ![r.event][r.endpoint] = @ + 1]
    BY <1>4 DEF TakenBy
  <2>2. AcceptedTyped'
    BY <1>1, <1>2, <2>1 DEF AcceptedTyped
  <2>3. \A e \in Event, p \in Endpoint :
            accepted'[e][p] = IF e = r.event /\ p = r.endpoint
                              THEN accepted[e][p] + 1 ELSE accepted[e][p]
    BY <1>1, <2>1 DEF AcceptedTyped
  <2> QED  BY <1>2, <1>4, <2>2, <2>3 DEF Accepts, To
<1> QED  BY <1>3, <1>4

\* The retry task attempts its current copy.
LEMMA AttemptRows ==
    ASSUME Typed, OneCopy, OnceInv, NEW c \in job["retry"].batch, NEW r, NEW e, NEW p,
           ~job["retry"].sent, deliveries' = deliveries,
           job'["retry"].batch = (job["retry"].batch \ {c}) \cup {[id |-> c.id, row |-> r]}
    PROVE  /\ RowsFall(e, p)
           /\ r.status = "success" /\ To(c.row, e, p) => RowGoes(e, p)
<1> DEFINE new == [id |-> c.id, row |-> r]
<1>1. \A x \in job["retry"].batch : Live(x)
  BY ProcessNames DEF OnceInv, AcceptedInHand
<1>2. /\ new.id = c.id /\ new.row = r
      /\ \A x \in job'["retry"].batch :
            x = new \/ (x \in job["retry"].batch /\ x.id # c.id)
      /\ new \in job'["retry"].batch
  BY ProcessNames DEF OneCopy
<1> HIDE DEF new
<1>3. ASSUME NEW d \in ChanceRows(e, p)' PROVE d \in ChanceRows(e, p)
  <2>1. d \in Rows /\ To(deliveries[d], e, p)
    BY <1>3 DEF ChanceRows, To, Rows
  <2>2. CASE Held(d)
    <3>1. \E x \in job["retry"].batch : x.id = d /\ Live(x)
      BY <1>1, <2>2 DEF Held
    <3> QED  BY <2>1, <2>2, <3>1 DEF ChanceRows
  <2>3. CASE ~Held(d)
    <3>1. ~Held(d)'
      BY <1>2, <2>3 DEF Held
    <3>2. deliveries[d].status = "failed"
      BY <1>3, <3>1 DEF ChanceRows
    <3> QED  BY <2>1, <2>3, <3>2 DEF ChanceRows
  <2> QED  BY <2>2, <2>3
<1>4. ASSUME r.status = "success", To(c.row, e, p) PROVE RowGoes(e, p)
  <2>1. c.id \in ChanceRows(e, p)
    <3>1. c.id \in Rows /\ To(deliveries[c.id], e, p)
      BY <1>4, CopyTyped, ProcessNames DEF OnceInv, SameTarget, To
    <3>2. Held(c.id) /\ Live(c)
      BY <1>1 DEF Held
    <3> QED  BY <3>1, <3>2 DEF ChanceRows
  <2>2. c.id \notin ChanceRows(e, p)'
    <3>1. Held(c.id)'
      BY <1>2 DEF Held
    <3>2. \A x \in job'["retry"].batch : x.id = c.id => x.row.status = "success"
      BY <1>2, <1>4
    <3> QED  BY <3>1, <3>2 DEF ChanceRows, Live
  <2> QED  BY <1>3, <2>1, <2>2 DEF RowGoes
<1> QED  BY <1>3, <1>4 DEF RowsFall

LEMMA AttemptBalanced ==
    ASSUME Typed, AcceptedTyped, OneCopy, OnceInv, NEW s \in Process,
           Attempt(s) \/ AttemptUnread(s)
    PROVE  AllBalanced /\ AcceptedTyped'
<1>1. PICK c \in Current(s) : \E r \in Outcomes(c.row) :
            Answered(s, c, r) /\ CountsAs(r)
  BY AttemptJob
<1>a. PICK r \in Outcomes(c.row) : Answered(s, c, r) /\ CountsAs(r)
  BY <1>1
<1>2. /\ ~job[s].sent
      /\ Becomes(s, job[s].event, job[s].todo,
                 (job[s].batch \ {c}) \cup {[id |-> c.id, row |-> r]}, TRUE)
      /\ UNCHANGED <<emitted, queue, deliveries>>
  BY <1>a, AnsweredJob
<1>3. c \in job[s].batch /\ c.row \in Delivery
  BY CopyTyped DEF Current
<1>4. r \in Delivery /\ To(r, c.row.event, c.row.endpoint)
  BY <1>3, OutcomeTyped, OutcomeTarget
<1>b. TakenBy(r) \/ accepted' = accepted
  BY <1>a DEF CountsAs
<1>5. /\ AcceptedTyped'
      /\ \A e \in Event, p \in Endpoint :
            IF TakenBy(r) /\ To(c.row, e, p)
            THEN Accepts(e, p, 1) ELSE Accepts(e, p, 0)
  BY <1>4, <1>b, CountAccepted DEF To
<1>6. UNCHANGED <<emitted, queue, deliveries>>
  BY <1>2
<1>c. /\ r.status = "success" => TakenBy(r) /\ Paid(0)
      /\ r.status # "success" =>
            (accepted' = accepted /\ Paid(0)) \/ (TakenBy(r) /\ Paid(1))
  BY <1>a, DisturbanceNatural DEF CountsAs, Paid
<1>d. accepted' = accepted =>
        \A e \in Event, p \in Endpoint : Accepts(e, p, 0)
  BY DEF AcceptedTyped, Accepts
<1>e. ASSUME NEW e \in Event, NEW p \in Endpoint,
             RowsFall(e, p), DeliverFalls(e, p), StaffFalls(e, p),
             r.status = "success" /\ To(c.row, e, p) =>
                RowGoes(e, p) \/ DeliverGoes(e, p) \/ StaffGoes(e, p)
      PROVE  Balanced(e, p)
  <2>1. CASE r.status = "success" /\ To(c.row, e, p)
    BY <1>5, <1>c, <1>e, <2>1 DEF Spent, Balanced
  <2>2. CASE r.status = "success" /\ ~To(c.row, e, p)
    BY <1>5, <1>c, <1>e, <2>2 DEF Same, Balanced
  <2>3. CASE r.status # "success" /\ accepted' = accepted /\ Paid(0)
    BY <1>d, <1>e, <2>3 DEF Same, Balanced
  <2>4. CASE r.status # "success" /\ TakenBy(r) /\ Paid(1)
    BY <1>5, <1>e, <2>4 DEF Appears, Unread, Balanced
  <2> QED  BY <1>c, <2>1, <2>2, <2>3, <2>4
<1> DEFINE new == [id |-> c.id, row |-> r]
           b == (job[s].batch \ {c}) \cup {new}
<1>7. Becomes(s, job[s].event, job[s].todo, b, TRUE) /\ new.row = r
  BY <1>2
<1>8. new \in b /\ \A x \in b : x = new \/ x \in job[s].batch \ {c}
  OBVIOUS
<1>9. Live(c)
  BY <1>2, <1>3 DEF OnceInv, AcceptedInHand
<1>10. Live(new) <=> r.status # "success"
  BY <1>7 DEF Live
<1>11. \A e, p : To(new.row, e, p) <=> To(c.row, e, p)
  BY <1>4, <1>7 DEF To
<1> SUFFICES ASSUME NEW e \in Event, NEW p \in Endpoint PROVE Balanced(e, p)
    BY <1>5 DEF AllBalanced
<1>12. CASE s = "retry"
  <2>1. DeliverFalls(e, p) /\ StaffFalls(e, p)
    BY <1>6, <1>7, <1>12, ProcessNames, DeliverKeeps, StaffKeeps DEF Becomes
  <2>2. /\ RowsFall(e, p)
        /\ r.status = "success" /\ To(c.row, e, p) => RowGoes(e, p)
    BY <1>2, <1>3, <1>6, <1>12, AttemptRows DEF Becomes
  <2> QED  BY <1>e, <2>1, <2>2
<1> HIDE DEF new, b
<1>13. CASE s = "deliver"
  <2>1. RowsFall(e, p) /\ StaffFalls(e, p)
    BY <1>6, <1>7, <1>13, ProcessNames, SameRowsFall, StaffKeeps DEF Becomes
  <2>2. DeliverFalls(e, p)
    <3> SUFFICES ASSUME DeliverChance(e, p)' PROVE DeliverChance(e, p)
        BY DEF DeliverFalls
    <3>1. \A x \in b : \E y \in job["deliver"].batch :
            (To(x.row, e, p) => To(y.row, e, p)) /\ Live(y)
      BY <1>3, <1>8, <1>9, <1>11, <1>13 DEF OnceInv, Singles
    <3> QED  BY <1>6, <1>7, <1>13, <3>1 DEF Becomes, DeliverChance, To
  <2>3. r.status = "success" /\ To(c.row, e, p) => DeliverGoes(e, p)
    <3> SUFFICES ASSUME r.status = "success", To(c.row, e, p) PROVE DeliverGoes(e, p)
        OBVIOUS
    <3>1. DeliverChance(e, p)
      BY <1>3, <1>9, <1>13 DEF DeliverChance
    <3>2. \A x \in b : ~Live(x)
      BY <1>3, <1>8, <1>10, <1>13 DEF OnceInv, Singles
    <3>3. job["deliver"].event = e /\ p \notin job["deliver"].todo
      BY <1>3, <1>13 DEF OnceInv, Singles, To
    <3>4. e \in emitted
      BY <3>3, NamesAssumption DEF OnceInv, EventsQueued, Typed, FlowTyped
    <3>5. ~DeliverChance(e, p)'
      BY <1>6, <1>7, <1>13, <3>2, <3>3, <3>4 DEF Becomes, DeliverChance, Live
    <3> QED  BY <3>1, <3>5 DEF DeliverGoes
  <2> QED  BY <1>e, <2>1, <2>2, <2>3
<1>14. CASE s = "staff"
  <2>1. RowsFall(e, p) /\ DeliverFalls(e, p)
    BY <1>6, <1>7, <1>14, ProcessNames, SameRowsFall, DeliverKeeps DEF Becomes
  <2>2. StaffFalls(e, p)
    <3> SUFFICES ASSUME StaffChance(e, p)' PROVE StaffChance(e, p)
        BY DEF StaffFalls
    <3>1. \A x \in b : \E y \in job["staff"].batch :
            (To(x.row, e, p) => To(y.row, e, p)) /\ Live(y)
      BY <1>3, <1>8, <1>9, <1>11, <1>14 DEF OnceInv, Singles
    <3> QED  BY <1>7, <1>14, <3>1 DEF Becomes, StaffChance, To
  <2>3. r.status = "success" /\ To(c.row, e, p) => StaffGoes(e, p)
    <3> SUFFICES ASSUME r.status = "success", To(c.row, e, p) PROVE StaffGoes(e, p)
        OBVIOUS
    <3>1. StaffChance(e, p)
      BY <1>3, <1>9, <1>14 DEF StaffChance
    <3>2. \A x \in b : ~Live(x)
      BY <1>3, <1>8, <1>10, <1>14 DEF OnceInv, Singles
    <3>3. ~StaffChance(e, p)'
      BY <1>7, <1>14, <3>2 DEF Becomes, StaffChance, Live
    <3> QED  BY <3>1, <3>3 DEF StaffGoes
  <2> QED  BY <1>e, <2>1, <2>2, <2>3
<1> QED  BY <1>12, <1>13, <1>14 DEF Process
-----------------------------------------------------------------------------
\* The row of a saved copy is of its event and endpoint, as before.
LEMMA SaveTargets ==
    ASSUME Typed, OnceInv, NEW s \in Process, NEW c \in job[s].batch,
           deliveries' = [deliveries EXCEPT ![c.id] = c.row]
    PROVE  /\ c.id \in Rows /\ Rows' = Rows /\ deliveries'[c.id] = c.row
           /\ \A d \in Rows \ {c.id} : deliveries'[d] = deliveries[d]
           /\ \A d \in Rows : \A e, p : To(deliveries'[d], e, p) <=> To(deliveries[d], e, p)
<1>1. c.id \in Rows
  BY CopyTyped
<1>2. /\ Rows' = Rows /\ deliveries'[c.id] = c.row
      /\ \A d \in Rows \ {c.id} : deliveries'[d] = deliveries[d]
  BY <1>1 DEF Rows
<1>3. \A e, p : To(c.row, e, p) <=> To(deliveries[c.id], e, p)
  BY DEF OnceInv, SameTarget, To
<1> QED  BY <1>1, <1>2, <1>3

\* Only the saved row may come to be retried, if its copy was not accepted.
LEMMA SaveRows ==
    ASSUME Typed, OnceInv, NEW s \in Process, NEW c \in job[s].batch,
           deliveries' = [deliveries EXCEPT ![c.id] = c.row],
           job'["retry"].batch = job["retry"].batch, NEW e, NEW p
    PROVE  /\ RowJoins(e, p)
           /\ ~(Live(c) /\ To(c.row, e, p)) => RowsFall(e, p)
<1>1. ASSUME NEW d \in ChanceRows(e, p)', d # c.id \/ ~(Live(c) /\ To(c.row, e, p))
      PROVE  d \in ChanceRows(e, p)
  <2>1. d \in Rows /\ To(deliveries[d], e, p) /\ To(deliveries'[d], e, p)
    <3>1. d \in Rows' /\ To(deliveries'[d], e, p)
      BY DEF ChanceRows, To
    <3> QED  BY <3>1, SaveTargets
  <2>2. Held(d)' <=> Held(d)
    BY DEF Held
  <2>3. CASE Held(d)
    <3>1. \E x \in job["retry"].batch : x.id = d /\ Live(x)
      BY <2>2, <2>3 DEF ChanceRows, Live
    <3> QED  BY <2>1, <2>3, <3>1 DEF ChanceRows
  <2>4. CASE ~Held(d)
    <3>1. deliveries'[d].status = "failed"
      BY <2>2, <2>4 DEF ChanceRows
    <3>2. d # c.id
      BY <1>1, <2>1, <3>1, SaveTargets DEF Live
    <3> QED  BY <2>1, <2>4, <3>1, <3>2, SaveTargets DEF ChanceRows
  <2> QED  BY <2>3, <2>4
<1> QED  BY <1>1 DEF RowJoins, RowsFall

LEMMA SaveRetryRows ==
    ASSUME Typed, OneCopy, OnceInv, NEW c \in job["retry"].batch,
           deliveries' = [deliveries EXCEPT ![c.id] = c.row],
           job'["retry"].batch = job["retry"].batch \ {c}, NEW e, NEW p
    PROVE  RowsFall(e, p)
<1> SUFFICES ASSUME NEW d \in ChanceRows(e, p)' PROVE d \in ChanceRows(e, p)
    BY DEF RowsFall
<1>1. "retry" \in Process
  BY DEF Process
<1>2. d \in Rows /\ To(deliveries[d], e, p)
  <2>1. d \in Rows' /\ To(deliveries'[d], e, p)
    BY DEF ChanceRows, To
  <2> QED  BY <1>1, <2>1, SaveTargets
<1>3. CASE d = c.id
  <2>1. ~Held(d)'
    BY <1>1, <1>3 DEF Held, OneCopy
  <2>2. c.row.status = "failed"
    BY <1>1, <1>3, <2>1, SaveTargets DEF ChanceRows
  <2>3. Held(d) /\ Live(c)
    BY <1>3, <2>2 DEF Held, Live
  <2> QED  BY <1>2, <1>3, <2>3 DEF ChanceRows
<1>4. CASE d # c.id
  <2>1. Held(d)' <=> Held(d)
    BY <1>4 DEF Held
  <2>2. deliveries'[d] = deliveries[d]
    BY <1>1, <1>2, <1>4, SaveTargets
  <2>3. CASE Held(d)
    <3>1. \E x \in job["retry"].batch : x.id = d /\ Live(x)
      BY <2>1, <2>3 DEF ChanceRows, Live
    <3> QED  BY <1>2, <2>3, <3>1 DEF ChanceRows
  <2>4. CASE ~Held(d)
    BY <1>2, <2>1, <2>2, <2>4 DEF ChanceRows
  <2> QED  BY <2>3, <2>4
<1> QED  BY <1>3, <1>4

LEMMA SaveBalanced ==
    ASSUME Typed, AcceptedTyped, OneCopy, OnceInv, NEW s \in Process, Save(s)
    PROVE  AllBalanced
<1> SUFFICES ASSUME NEW e \in Event, NEW p \in Endpoint PROVE Balanced(e, p)
    BY DEF AllBalanced
<1>1. PICK c \in Current(s) :
        /\ Becomes(s, job[s].event, job[s].todo, job[s].batch \ {c}, FALSE)
        /\ deliveries' = [deliveries EXCEPT ![c.id] = c.row]
        /\ UNCHANGED <<emitted, queue, accepted>> /\ Disturbance' = Disturbance
  BY SaveJob DEF disturbances, Disturbance
<1>2. c \in job[s].batch
  BY DEF Current
<1>3. CASE s = "retry"
  <2>1. DeliverFalls(e, p) /\ StaffFalls(e, p)
    BY <1>1, <1>3, ProcessNames, DeliverKeeps, StaffKeeps DEF Becomes
  <2>2. RowsFall(e, p)
    BY <1>1, <1>2, <1>3, SaveRetryRows DEF Becomes
  <2> QED  BY <1>1, <2>1, <2>2, NothingAccepted DEF Same, Balanced
<1>4. CASE s = "deliver"
  <2>1. /\ RowJoins(e, p) /\ StaffFalls(e, p)
        /\ ~(Live(c) /\ To(c.row, e, p)) => RowsFall(e, p)
    BY <1>1, <1>2, <1>4, ProcessNames, SaveRows, StaffKeeps DEF Becomes
  <2>2. DeliverFalls(e, p)
    BY <1>1, <1>4 DEF Becomes, DeliverFalls, DeliverChance, To, Live
  <2>3. Live(c) /\ To(c.row, e, p) => DeliverGoes(e, p)
    <3> SUFFICES ASSUME Live(c), To(c.row, e, p) PROVE DeliverGoes(e, p)
        OBVIOUS
    <3>1. DeliverChance(e, p)
      BY <1>2, <1>4 DEF DeliverChance
    <3>2. job'["deliver"].batch = {}
      BY <1>1, <1>2, <1>4 DEF Becomes, OnceInv, Singles
    <3>3. job["deliver"].event = e /\ p \notin job["deliver"].todo
      BY <1>2, <1>4 DEF OnceInv, Singles, To
    <3>4. e \in emitted
      BY <3>3, NamesAssumption DEF OnceInv, EventsQueued, Typed, FlowTyped
    <3>5. ~DeliverChance(e, p)'
      BY <1>1, <1>4, <3>2, <3>3, <3>4 DEF Becomes, DeliverChance
    <3> QED  BY <3>1, <3>5 DEF DeliverGoes
  <2> QED  BY <1>1, <2>1, <2>2, <2>3, NothingAccepted DEF Same, Moves, Balanced
<1>5. CASE s = "staff"
  <2>1. /\ RowJoins(e, p) /\ DeliverFalls(e, p)
        /\ ~(Live(c) /\ To(c.row, e, p)) => RowsFall(e, p)
    BY <1>1, <1>2, <1>5, ProcessNames, SaveRows, DeliverKeeps DEF Becomes
  <2>2. StaffFalls(e, p)
    BY <1>1, <1>5 DEF Becomes, StaffFalls, StaffChance, To, Live
  <2>3. Live(c) /\ To(c.row, e, p) => StaffGoes(e, p)
    <3>1. job'["staff"].batch = {}
      BY <1>1, <1>2, <1>5 DEF Becomes, OnceInv, Singles
    <3> QED  BY <1>2, <1>5, <3>1 DEF StaffChance, StaffGoes
  <2> QED  BY <1>1, <2>1, <2>2, <2>3, NothingAccepted DEF Same, Moves, Balanced
<1> QED  BY <1>3, <1>4, <1>5 DEF Process
-----------------------------------------------------------------------------
LEMMA StepBalanced ==
    ASSUME Typed, OneCopy, OnceInv, AcceptedTyped, [Next]_vars
    PROVE  AllBalanced /\ AcceptedTyped'
<1>1. CASE UNCHANGED vars \/ Time
  <2>1. /\ UNCHANGED <<emitted, queue, job, deliveries, accepted>>
        /\ Disturbance' = Disturbance
    BY <1>1 DEF vars, Time, FallDue, ghosts, disturbances, Disturbance
  <2>2. \A e, p : DeliverFalls(e, p)
    BY <2>1, DeliverKeeps
  <2> QED  BY <2>1, <2>2, RestBalanced DEF AllBalanced, AcceptedTyped
<1>2. ASSUME NEW e \in Event, Emit(e) \/ TakeTask(e) PROVE AllBalanced /\ AcceptedTyped'
  BY <1>2, EmitBalanced, TakeTaskBalanced DEF Emit, TakeTask, ghosts, AcceptedTyped
<1>3. CASE Trigger
  BY <1>3, TriggerBalanced DEF Trigger, AcceptedTyped
<1>4. ASSUME NEW s \in Process, Raise(s) \/ Kill(s) \/ (s = "deliver" /\ EndTask)
      PROVE  AllBalanced /\ AcceptedTyped'
  BY <1>4, EndsBalanced DEF Raise, Kill, EndTask, ghosts, AcceptedTyped
<1>5. ASSUME NEW s \in Process, Attempt(s) \/ AttemptUnread(s)
      PROVE  AllBalanced /\ AcceptedTyped'
  BY <1>5, AttemptBalanced
<1>6. ASSUME NEW s \in Process, Save(s) PROVE AllBalanced /\ AcceptedTyped'
  BY <1>6, SaveBalanced DEF Save, ghosts, AcceptedTyped
<1>7. CASE RetryDue
  BY <1>7, RetryDueBalanced DEF RetryDue, ghosts, AcceptedTyped
<1>8. ASSUME NEW d \in Rows, RetryDelivery(d) PROVE AllBalanced /\ AcceptedTyped'
  BY <1>8, RetryDeliveryBalanced DEF RetryDelivery, ghosts, AcceptedTyped
<1>9. CASE DeliverTask
  BY <1>2, <1>3, <1>4, <1>5, <1>6, <1>9, ProcessNames DEF DeliverTask, Deliver
<1>10. CASE RetryTask \/ StaffRequest
  BY <1>4, <1>5, <1>6, <1>7, <1>10, ProcessNames
     DEF RetryTask, StaffRequest, Deliver
<1>11. CASE (\E e \in Event : Emit(e)) \/ (\E d \in Rows : RetryDelivery(d))
            \/ (\E s \in Process : Kill(s))
  BY <1>2, <1>4, <1>8, <1>11
<1> QED  BY <1>1, <1>9, <1>10, <1>11 DEF Next

LEMMA InitBounded == Init => OnceInv /\ Bounded
<1> SUFFICES ASSUME Init PROVE OnceInv /\ Bounded
    OBVIOUS
<1>1. \A s \in Process : job[s] = Idle
  BY DEF Init
<1>2. \A s \in Process : job[s].event = NoEvent /\ job[s].batch = {}
  BY <1>1 DEF Idle
<1>3. OnceInv
  BY <1>2, ProcessNames DEF OnceInv, EventsQueued, Singles, SameTarget, AcceptedInHand
<1>4. AcceptedTyped
  BY DEF Init, AcceptedTyped
<1>5. ASSUME NEW e \in Event, NEW p \in Endpoint
      PROVE  Within(e, p)
  <2>1. ChanceRows(e, p) = {}
    BY DEF Init, ChanceRows, Rows
  <2>2. ~StaffChance(e, p)
    BY <1>2, ProcessNames DEF StaffChance
  <2>3. One(StaffChance(e, p)) = 0 /\ One(DeliverChance(e, p)) \in {0, 1}
    BY <2>2 DEF One
  <2>4. Cardinality(ChanceRows(e, p)) = 0
    BY <2>1, FS_EmptySet
  <2>5. accepted[e][p] = 0 /\ Disturbance = 0
    BY DEF Init, Disturbance
  <2> QED  BY <2>3, <2>4, <2>5 DEF Chances, Within
<1> QED  BY <1>3, <1>4, <1>5 DEF Bounded

LEMMA BoundedStep ==
    ASSUME IInv, IInv', OnceInv, Bounded, [Next]_vars
    PROVE  OnceInv' /\ Bounded'
<1>1. Typed /\ Typed' /\ OneCopy /\ AcceptedTyped
  BY DEF IInv, Bounded
<1>2. AllBalanced /\ AcceptedTyped' /\ OnceInv'
  BY <1>1, StepBalanced, OnceStep
<1>3. ASSUME NEW e \in Event, NEW p \in Endpoint PROVE Within(e, p)'
  BY <1>1, <1>2, Balance DEF Bounded, AllBalanced
<1> QED  BY <1>2, <1>3 DEF Bounded

LEMMA ChancesNatural ==
    ASSUME Typed, NEW e, NEW p
    PROVE  Chances(e, p) \in Nat
<1>1. Len(deliveries) \in Nat /\ Rows = 1..Len(deliveries)
  BY DEF Typed, RowsTyped, Rows
<1>2. IsFiniteSet(ChanceRows(e, p))
  <2>1. IsFiniteSet(Rows) /\ ChanceRows(e, p) \subseteq Rows
    BY <1>1, FS_Interval DEF ChanceRows
  <2> QED  BY <2>1, FS_Subset
<1>3. Cardinality(ChanceRows(e, p)) \in Nat
  BY <1>2, FS_CardinalityType
<1>4. One(DeliverChance(e, p)) \in Nat /\ One(StaffChance(e, p)) \in Nat
  BY DEF One
<1> QED  BY <1>3, <1>4 DEF Chances

\* services.py:94-183 and tasks.py:10-26: an endpoint takes one event once, and
\* once more at most for each worker lost, each retry by hand, each exception
\* and each 2xx whose body was not read, however whole rows are saved over each
\* other.
THEOREM AcceptedOnceHolds == Spec => []AcceptedOnce
<1>1. Init => OnceInv /\ Bounded
  BY InitBounded
<1>2. IInv /\ IInv' /\ OnceInv /\ Bounded /\ [Next]_vars => (OnceInv /\ Bounded)'
  BY BoundedStep
<1>3. IInv /\ Bounded => AcceptedOnce
  <2> SUFFICES ASSUME IInv, Bounded, NEW e \in Event, NEW p \in Endpoint
               PROVE  accepted[e][p] <= 1 + Disturbance
      BY DEF AcceptedOnce
  <2>1. Typed /\ Chances(e, p) \in Nat
    BY ChancesNatural DEF IInv
  <2>2. /\ Disturbance \in Nat /\ accepted[e][p] \in Nat
        /\ accepted[e][p] + Chances(e, p) <= 1 + Disturbance
    BY <2>1, DisturbanceNatural DEF Bounded, Within
  <2> QED  BY <2>1, <2>2
<1> QED  BY Invariance, <1>1, <1>2, <1>3, PTL DEF Spec
=============================================================================
