--------------------------- MODULE WebhooksProofs ---------------------------
(***************************************************************************)
(* Theorems about Webhooks, for any events, endpoints, attempts, batches    *)
(* and disturbances.                                                        *)
(***************************************************************************)
EXTENDS Webhooks, SequenceTheorems, TLAPS

CopyOf == [id : Nat, row : Delivery]

Job == [event : Event \cup {NoEvent}, todo : SUBSET Endpoint,
        batch : SUBSET CopyOf, sent : BOOLEAN]

\* A task that has endpoints to come to has an event.
JobsTyped ==
    /\ job \in [Process -> Job]
    /\ \A s \in Process : job[s].todo # {} => job[s].event \in Event

RowsTyped ==
    /\ deliveries \in Seq(Delivery)
    /\ tries \in Seq(Nat) /\ Len(tries) = Len(deliveries)
    /\ \A s \in Process : \A c \in job[s].batch : c.id \in Rows

FlowTyped ==
    /\ emitted \subseteq Event /\ queue \subseteq emitted
    /\ due \subseteq Rows
    /\ dropped \subseteq Event
    /\ kills \in Nat /\ manual \in Nat /\ raises \in Nat /\ unread \in Nat

Typed == JobsTyped /\ RowsTyped /\ FlowTyped

\* A row, or a copy of it, tells of no attempt that was not made.
Backed(d, row) ==
    /\ row.attempts <= tries[d]
    /\ row.status = "exhausted" /\ ~row.blocked => tries[d] >= MAX_ATTEMPTS

Counted ==
    /\ \A d \in Rows : Backed(d, deliveries[d])
    /\ \A s \in Process : \A c \in job[s].batch : Backed(c.id, c.row)

\* No process has two copies of one row.
OneCopy ==
    \A s \in Process : \A a, b \in job[s].batch : a.id = b.id => a = b

\* While staff keep out of it, the deliver task has copies of rows that still
\* read pending, the retry task of rows that read failed: never of one row.
CopiesApart ==
    manual = 0 =>
        /\ job["staff"].batch = {}
        /\ \A c \in job["deliver"].batch : deliveries[c.id].status = "pending"
        /\ \A c \in job["retry"].batch : deliveries[c.id].status = "failed"

IInv == Typed /\ Counted /\ OneCopy /\ CopiesApart
-----------------------------------------------------------------------------
\* What a step does to rows, tries and the copies in hand.
OthersKeep(s) == \A o \in Process \ {s} : job'[o].batch = job[o].batch

Passes ==
    /\ UNCHANGED <<deliveries, tries, manual>>
    /\ \A s \in Process : job'[s].batch \in {job[s].batch, {}}

Creates(new) ==
    /\ new \in Delivery /\ new.attempts = 0 /\ new.status = "pending"
    /\ deliveries' = Append(deliveries, new) /\ tries' = Append(tries, 0)
    /\ job'["deliver"].batch = {[id |-> Len(deliveries) + 1, row |-> new]}
    /\ OthersKeep("deliver") /\ manual' = manual

Loads(s, ds) ==
    /\ ds \subseteq Rows
    /\ UNCHANGED <<deliveries, tries>>
    /\ job'[s].batch = {Copy(d) : d \in ds} /\ OthersKeep(s)
    /\ \/ s = "staff" /\ manual' = manual + 1
       \/ /\ s = "retry" /\ manual' = manual
          /\ \A d \in ds : deliveries[d].status = "failed"

Attempts(s, c, r) ==
    /\ c \in job[s].batch /\ r \in Outcomes(c.row)
    /\ deliveries' = deliveries /\ tries' = [tries EXCEPT ![c.id] = @ + 1]
    /\ job'[s].batch = (job[s].batch \ {c}) \cup {[id |-> c.id, row |-> r]}
    /\ OthersKeep(s) /\ manual' = manual

Saves(s, c) ==
    /\ c \in job[s].batch
    /\ deliveries' = [deliveries EXCEPT ![c.id] = c.row] /\ tries' = tries
    /\ job'[s].batch = job[s].batch \ {c}
    /\ OthersKeep(s) /\ manual' = manual

Effect ==
    \/ Passes
    \/ \E new \in Delivery : Creates(new)
    \/ \E s \in Process, ds \in SUBSET Rows : Loads(s, ds)
    \/ \E s \in Process : \E c \in job[s].batch :
        Saves(s, c) \/ \E r \in Outcomes(c.row) : Attempts(s, c, r)
-----------------------------------------------------------------------------
LEMMA IdleTyped == Idle \in Job /\ Idle.batch = {} /\ Idle.todo = {}
BY DEF Idle, Job

\* Jobs with the same fields are one.
LEMMA JobEqual ==
    ASSUME NEW j \in Job, NEW k \in Job, j.event = k.event, j.todo = k.todo,
           j.batch = k.batch, j.sent = k.sent
    PROVE  j = k
BY DEF Job

LEMMA ProcessNames == {"deliver", "retry", "staff"} = Process
BY DEF Process

\* The copy after an attempt is a row, counts one attempt more, and is given
\* up only as far as _mark_retry says.
LEMMA OutcomeTyped ==
    ASSUME NEW row \in Delivery, NEW r \in Outcomes(row)
    PROVE  /\ r \in Delivery /\ r.attempts = row.attempts + 1
           /\ r.status = "exhausted" /\ ~r.blocked => r.attempts >= MAX_ATTEMPTS
<1> DEFINE counted == Tried(row)
<1>1. counted \in Delivery /\ counted.attempts = row.attempts + 1
  BY DEF Delivery, Tried
<1>2. CASE r = [counted EXCEPT !.status = "success"]
  BY <1>1, <1>2 DEF Delivery, DeliveryStatus
<1>3. CASE r = [counted EXCEPT !.status = "exhausted", !.blocked = TRUE]
  BY <1>1, <1>3 DEF Delivery, DeliveryStatus
<1>4. CASE r = MarkRetry(counted)
  <2>1. CASE counted.attempts >= MAX_ATTEMPTS
    BY <1>1, <1>4, <2>1 DEF Delivery, DeliveryStatus, MarkRetry
  <2>2. CASE ~(counted.attempts >= MAX_ATTEMPTS)
    BY <1>1, <1>4, <2>2 DEF Delivery, DeliveryStatus, MarkRetry
  <2> QED  BY <2>1, <2>2
<1> QED  BY <1>2, <1>3, <1>4 DEF Outcomes

LEMMA RowTyped ==
    ASSUME Typed, NEW d \in Rows
    PROVE  /\ deliveries[d] \in Delivery /\ d \in Nat /\ Copy(d) \in CopyOf
           /\ Copy(d).id = d /\ Copy(d).row = deliveries[d]
           /\ tries[d] \in Nat /\ d \in 1..Len(deliveries)
BY DEF Typed, RowsTyped, Rows, Copy, CopyOf

\* One job changes: it stays a job, and the others are what they were.
LEMMA JobChange ==
    ASSUME JobsTyped, NEW s \in Process, NEW j \in Job,
           j.todo # {} => j.event \in Event, job' = [job EXCEPT ![s] = j]
    PROVE  JobsTyped' /\ job'[s] = j /\ \A o \in Process \ {s} : job'[o] = job[o]
BY DEF JobsTyped

\* A job ends.
LEMMA JobDone ==
    ASSUME JobsTyped, NEW s \in Process, Done(s), UNCHANGED <<deliveries, tries, manual>>
    PROVE  JobsTyped' /\ Passes
<1>1. job' = [job EXCEPT ![s] = Idle]
  BY DEF Done
<1>2. JobsTyped' /\ job'[s] = Idle /\ \A o \in Process \ {s} : job'[o] = job[o]
  BY <1>1, IdleTyped, JobChange
<1> QED  BY <1>2, IdleTyped DEF Passes
-----------------------------------------------------------------------------
LEMMA TakeTaskEffect ==
    ASSUME Typed, NEW e \in Event, TakeTask(e)
    PROVE  JobsTyped' /\ Passes
<1> DEFINE j == [Idle EXCEPT !.event = e, !.todo = Endpoint]
<1>1. j \in Job /\ j.event = e /\ j.batch = {}
  BY DEF Idle, Job
<1>2. job' = [job EXCEPT !["deliver"] = j]
  BY DEF TakeTask
<1> HIDE DEF j
<1>3. JobsTyped' /\ job'["deliver"] = j
      /\ \A o \in Process \ {"deliver"} : job'[o] = job[o]
  BY <1>1, <1>2, JobChange, ProcessNames DEF Typed
<1> QED
  BY <1>1, <1>3, ProcessNames DEF TakeTask, ghosts, disturbances, Passes

LEMMA TriggerEffect ==
    ASSUME Typed, Trigger
    PROVE  JobsTyped' /\ \E new \in Delivery : Creates(new)
<1> DEFINE J == job["deliver"]
<1>1. PICK p \in J.todo :
        LET new == [event |-> J.event, endpoint |-> p, status |-> "pending",
                    attempts |-> 0, blocked |-> FALSE]
        IN /\ deliveries' = Append(deliveries, new)
           /\ job' = [job EXCEPT
                         !["deliver"].todo = @ \ {p},
                         !["deliver"].batch =
                             {[id |-> Len(deliveries) + 1, row |-> new]}]
  BY DEF Trigger
<1> DEFINE new == [event |-> J.event, endpoint |-> p, status |-> "pending",
                   attempts |-> 0, blocked |-> FALSE]
           c == [id |-> Len(deliveries) + 1, row |-> new]
           j == [event |-> J.event, todo |-> J.todo \ {p}, batch |-> {c},
                 sent |-> J.sent]
<1>2. J \in Job /\ J.event \in Event /\ p \in Endpoint
  BY <1>1, ProcessNames DEF Typed, JobsTyped, Job
<1>3. new \in Delivery /\ new.attempts = 0 /\ new.status = "pending"
  BY <1>2 DEF Delivery, DeliveryStatus
<1>4. Len(deliveries) \in Nat
  BY DEF Typed, RowsTyped
<1>5. job' = [job EXCEPT !["deliver"].todo = @ \ {p}, !["deliver"].batch = {c}]
  BY <1>1
<1> HIDE DEF new
<1>6. c \in CopyOf
  BY <1>3, <1>4 DEF CopyOf
<1> HIDE DEF c
<1>7. j \in Job /\ j.event \in Event /\ j.batch = {c}
  BY <1>2, <1>6 DEF Job
<1>8. job' = [job EXCEPT !["deliver"] = j]
  <2> DEFINE k == [[J EXCEPT !.todo = J.todo \ {p}] EXCEPT !.batch = {c}]
  <2>a. /\ k \in Job /\ k.event = j.event /\ k.todo = j.todo
        /\ k.batch = j.batch /\ k.sent = j.sent
    BY <1>2, <1>6 DEF Job
  <2>b. k = j
    <3> HIDE DEF k, j
    <3> QED  BY <1>7, <2>a, JobEqual
  <2>1. [[J EXCEPT !.todo = @ \ {p}] EXCEPT !.batch = {c}] = j
    BY <2>b
  <2> QED  BY <1>5, <2>1, ProcessNames DEF Typed, JobsTyped
<1> HIDE DEF j
<1>9. JobsTyped' /\ job'["deliver"] = j
      /\ \A o \in Process \ {"deliver"} : job'[o] = job[o]
  BY <1>7, <1>8, JobChange, ProcessNames DEF Typed
<1>10. deliveries' = Append(deliveries, new) /\ tries' = Append(tries, 0)
       /\ manual' = manual
  BY <1>1 DEF new, Trigger, disturbances
<1>11. job'["deliver"].batch = {[id |-> Len(deliveries) + 1, row |-> new]}
  BY <1>7, <1>9 DEF c
<1> QED  BY <1>3, <1>9, <1>10, <1>11 DEF Creates, OthersKeep

\* A batch is loaded into an idle job.
LEMMA BatchLoaded ==
    ASSUME Typed, NEW s \in Process, NEW ds \in SUBSET Rows, job[s] = Idle,
           job' = [job EXCEPT ![s].batch = {Copy(d) : d \in ds}]
    PROVE  JobsTyped' /\ job'[s].batch = {Copy(d) : d \in ds} /\ OthersKeep(s)
<1> DEFINE b == {Copy(d) : d \in ds}
           j == [event |-> NoEvent, todo |-> {}, batch |-> b, sent |-> FALSE]
<1>1. b \subseteq CopyOf
  BY RowTyped
<1>2. job' = [job EXCEPT ![s] = [job[s] EXCEPT !.batch = b]]
  OBVIOUS
<1> HIDE DEF b
<1>3. j \in Job /\ j.todo = {} /\ j.batch = b
  BY <1>1 DEF Job
<1>4. [job[s] EXCEPT !.batch = b] = j
  <2> DEFINE k == [Idle EXCEPT !.batch = b]
  <2>1. /\ k \in Job /\ k.event = j.event /\ k.todo = j.todo
        /\ k.batch = j.batch /\ k.sent = j.sent
    BY <1>1 DEF Idle, Job, b
  <2> HIDE DEF k, j
  <2>2. k = j
    BY <1>3, <2>1, JobEqual
  <2> QED  BY <2>2 DEF k
<1>5. job' = [job EXCEPT ![s] = j]
  BY <1>2, <1>4
<1> HIDE DEF j
<1>6. JobsTyped' /\ job'[s] = j /\ \A o \in Process \ {s} : job'[o] = job[o]
  BY <1>3, <1>5, JobChange DEF Typed
<1>7. job'[s].batch = b /\ OthersKeep(s)
  BY <1>3, <1>6 DEF OthersKeep
<1> QED  BY <1>6, <1>7 DEF b

LEMMA LoadEffects ==
    /\ Typed /\ RetryDue => JobsTyped' /\ Effect
    /\ \A d \in Rows : Typed /\ RetryDelivery(d) => JobsTyped' /\ Effect
<1>1. ASSUME Typed, RetryDue PROVE JobsTyped' /\ Effect
  <2>1. PICK ds \in SUBSET {d \in Rows : Due(d)} :
            job' = [job EXCEPT !["retry"].batch = {Copy(d) : d \in ds}]
    BY <1>1 DEF RetryDue
  <2>2. job["retry"] = Idle /\ UNCHANGED <<deliveries, tries, manual>>
    BY <1>1 DEF RetryDue, ghosts, disturbances
  <2>3. ds \in SUBSET Rows /\ \A d \in ds : deliveries[d].status = "failed"
    BY DEF Due
  <2>4. JobsTyped' /\ job'["retry"].batch = {Copy(d) : d \in ds} /\ OthersKeep("retry")
    BY <1>1, <2>1, <2>2, <2>3, BatchLoaded, ProcessNames
  <2> QED  BY <2>2, <2>3, <2>4, ProcessNames DEF Loads, Effect
<1>2. ASSUME NEW d \in Rows, Typed, RetryDelivery(d) PROVE JobsTyped' /\ Effect
  <2>1. {Copy(d)} = {Copy(x) : x \in {d}}
    OBVIOUS
  <2>2. job["staff"] = Idle /\ UNCHANGED <<deliveries, tries>> /\ manual' = manual + 1
    BY <1>2 DEF RetryDelivery, ghosts
  <2>3. job' = [job EXCEPT !["staff"].batch = {Copy(x) : x \in {d}}]
    BY <1>2, <2>1 DEF RetryDelivery
  <2>4. {d} \in SUBSET Rows
    OBVIOUS
  <2>5. /\ JobsTyped' /\ job'["staff"].batch = {Copy(x) : x \in {d}}
        /\ OthersKeep("staff")
    BY <1>2, <2>2, <2>3, <2>4, BatchLoaded, ProcessNames
  <2>6. Loads("staff", {d})
    BY <2>2, <2>4, <2>5 DEF Loads
  <2> QED  BY <2>4, <2>5, <2>6, ProcessNames DEF Effect
<1> QED  BY <1>1, <1>2

\* A copy in hand changes or leaves the batch.
LEMMA BatchChanged ==
    ASSUME Typed, NEW s \in Process, NEW b \in SUBSET CopyOf, NEW t \in BOOLEAN,
           job' = [job EXCEPT ![s].batch = b, ![s].sent = t]
    PROVE  JobsTyped' /\ job'[s].batch = b /\ OthersKeep(s)
<1> DEFINE j == [event |-> job[s].event, todo |-> job[s].todo, batch |-> b, sent |-> t]
<1>1. job[s] \in Job /\ (job[s].todo # {} => job[s].event \in Event)
  BY DEF Typed, JobsTyped
<1>2. j \in Job /\ j.batch = b /\ (j.todo # {} => j.event \in Event)
  BY <1>1 DEF Job
<1>3. [[job[s] EXCEPT !.batch = b] EXCEPT !.sent = t] = j
  <2> DEFINE k == [[job[s] EXCEPT !.batch = b] EXCEPT !.sent = t]
  <2>1. /\ k \in Job /\ k.event = j.event /\ k.todo = j.todo
        /\ k.batch = j.batch /\ k.sent = j.sent
    BY <1>1 DEF Job
  <2> HIDE DEF k, j
  <2>2. k = j
    BY <1>2, <2>1, JobEqual
  <2> QED  BY <2>2 DEF k
<1>4. job' = [job EXCEPT ![s] = j]
  BY <1>3 DEF Typed, JobsTyped
<1> HIDE DEF j
<1>5. JobsTyped' /\ job'[s] = j /\ \A o \in Process \ {s} : job'[o] = job[o]
  BY <1>2, <1>4, JobChange DEF Typed
<1> QED  BY <1>2, <1>5 DEF OthersKeep

LEMMA CopyTyped ==
    ASSUME Typed, NEW s \in Process, NEW c \in job[s].batch
    PROVE  /\ c \in CopyOf /\ c.id \in Rows /\ c.row \in Delivery
           /\ job[s].batch \subseteq CopyOf
BY DEF Typed, JobsTyped, RowsTyped, Job, CopyOf

\* An attempt whose answer came is one of the outcomes, read or not.
LEMMA AnswerCome ==
    ASSUME NEW s, Attempt(s) \/ AttemptUnread(s)
    PROVE  \E c \in Current(s) : \E r \in Outcomes(c.row) :
                Answered(s, c, r) /\ manual' = manual
BY DEF Attempt, AttemptUnread, Outcomes, disturbances

LEMMA AttemptEffect ==
    ASSUME Typed, NEW s \in Process, Attempt(s) \/ AttemptUnread(s)
    PROVE  JobsTyped' /\ Effect
<1>1. PICK c \in Current(s) : \E r \in Outcomes(c.row) :
                Answered(s, c, r) /\ manual' = manual
  BY AnswerCome
<1>2. PICK r \in Outcomes(c.row) : Answered(s, c, r) /\ manual' = manual
  BY <1>1
<1> DEFINE b == (job[s].batch \ {c}) \cup {[id |-> c.id, row |-> r]}
<1>3. c \in job[s].batch
  BY DEF Current
<1>4. b \in SUBSET CopyOf
  BY <1>3, CopyTyped, OutcomeTyped DEF CopyOf
<1>5. job' = [job EXCEPT ![s].batch = b, ![s].sent = TRUE]
  BY <1>2 DEF Answered
<1> HIDE DEF b
<1>6. JobsTyped' /\ job'[s].batch = b /\ OthersKeep(s)
  BY <1>4, <1>5, BatchChanged
<1>7. Attempts(s, c, r)
  BY <1>2, <1>3, <1>6 DEF Answered, Attempts, b
<1> QED  BY <1>3, <1>6, <1>7 DEF Effect

LEMMA SaveEffect ==
    ASSUME Typed, NEW s \in Process, Save(s)
    PROVE  JobsTyped' /\ Effect
<1>1. PICK c \in Current(s) :
        /\ deliveries' = [deliveries EXCEPT ![c.id] = c.row]
        /\ job' = [job EXCEPT ![s].batch = @ \ {c}, ![s].sent = FALSE]
        /\ UNCHANGED <<tries, manual>>
  BY DEF Save, ghosts, disturbances
<1>2. c \in job[s].batch /\ job[s].batch \ {c} \in SUBSET CopyOf
  BY CopyTyped DEF Current
<1>3. JobsTyped' /\ job'[s].batch = job[s].batch \ {c} /\ OthersKeep(s)
  BY <1>1, <1>2, BatchChanged
<1>4. Saves(s, c)
  BY <1>1, <1>2, <1>3 DEF Saves
<1> QED  BY <1>2, <1>3, <1>4 DEF Effect

\* Every step has one of the effects.
LEMMA Effects ==
    ASSUME Typed, [Next]_vars
    PROVE  JobsTyped' /\ Effect
<1>1. ASSUME NEW e \in Event, Emit(e) PROVE JobsTyped' /\ Passes
  BY <1>1 DEF Emit, Typed, JobsTyped, Passes, ghosts, disturbances
<1>2. ASSUME NEW s \in Process, Raise(s) \/ Kill(s) PROVE JobsTyped' /\ Passes
  BY <1>2, JobDone DEF Raise, Kill, Typed, ghosts
<1>3. CASE EndTask
  BY <1>3, JobDone, ProcessNames DEF EndTask, Typed, ghosts, disturbances, Effect
<1>4. ASSUME NEW d \in Rows, FallDue(d) PROVE JobsTyped' /\ Passes
  BY <1>4 DEF FallDue, Typed, JobsTyped, Passes, ghosts, disturbances
<1>5. CASE UNCHANGED vars
  BY <1>5 DEF vars, Typed, JobsTyped, Passes, ghosts, disturbances, Effect
<1>6. CASE DeliverTask
  BY <1>2, <1>3, <1>6, TakeTaskEffect, TriggerEffect, AttemptEffect, SaveEffect,
     ProcessNames DEF DeliverTask, Deliver, Effect
<1>7. CASE RetryTask
  BY <1>2, <1>7, LoadEffects, AttemptEffect, SaveEffect, ProcessNames
     DEF RetryTask, Deliver, Effect
<1>8. CASE StaffRequest
  BY <1>2, <1>8, AttemptEffect, SaveEffect, ProcessNames
     DEF StaffRequest, Deliver, Effect
<1>9. CASE \E d \in Rows : RetryDelivery(d)
  BY <1>9, LoadEffects
<1>10. CASE Time
  BY <1>4, <1>10 DEF Time, Effect
<1>11. CASE (\E e \in Event : Emit(e)) \/ \E s \in Process : Kill(s)
  BY <1>1, <1>2, <1>11 DEF Effect
<1> QED  BY <1>5, <1>6, <1>7, <1>8, <1>9, <1>10, <1>11 DEF Next
-----------------------------------------------------------------------------
\* What each effect makes of rows and tries.
LEMMA CreatesRows ==
    ASSUME Typed, NEW new \in Delivery, Creates(new)
    PROVE  LET n == Len(deliveries) + 1
           IN  /\ deliveries' \in Seq(Delivery) /\ tries' \in Seq(Nat)
               /\ Len(tries') = Len(deliveries') /\ Rows' = 1..n
               /\ n \notin Rows /\ Rows = 1..(n - 1)
               /\ deliveries'[n] = new /\ tries'[n] = 0
               /\ \A d \in Rows : /\ deliveries'[d] = deliveries[d]
                                  /\ tries'[d] = tries[d]
<1>1. /\ deliveries \in Seq(Delivery) /\ tries \in Seq(Nat)
      /\ Len(tries) = Len(deliveries) /\ Len(deliveries) \in Nat
  BY DEF Typed, RowsTyped
<1>2. deliveries' = Append(deliveries, new) /\ tries' = Append(tries, 0)
  BY DEF Creates
<1>3. /\ deliveries' \in Seq(Delivery) /\ Len(deliveries') = Len(deliveries) + 1
      /\ deliveries'[Len(deliveries) + 1] = new
      /\ \A d \in 1..Len(deliveries) : deliveries'[d] = deliveries[d]
  BY <1>1, <1>2
<1>4. /\ tries' \in Seq(Nat) /\ Len(tries') = Len(deliveries) + 1
      /\ tries'[Len(deliveries) + 1] = 0
      /\ \A d \in 1..Len(deliveries) : tries'[d] = tries[d]
  BY <1>1, <1>2
<1> QED  BY <1>1, <1>3, <1>4 DEF Rows

LEMMA AttemptsRows ==
    ASSUME Typed, NEW s \in Process, NEW c, NEW r, Attempts(s, c, r)
    PROVE  /\ tries' \in Seq(Nat) /\ Len(tries') = Len(deliveries') /\ Rows' = Rows
           /\ \A d \in Rows : tries'[d] >= tries[d]
           /\ tries'[c.id] = tries[c.id] + 1
           /\ c.row \in Delivery /\ r \in Delivery /\ c.id \in Rows
           /\ r.attempts = c.row.attempts + 1
           /\ r.status = "exhausted" /\ ~r.blocked => r.attempts >= MAX_ATTEMPTS
<1>1. /\ c.id \in Rows /\ c.row \in Delivery /\ tries[c.id] \in Nat
      /\ c.id \in 1..Len(tries) /\ tries \in Seq(Nat)
  BY CopyTyped, RowTyped DEF Attempts, Typed, RowsTyped
<1>2. tries' = [tries EXCEPT ![c.id] = tries[c.id] + 1] /\ deliveries' = deliveries
  BY DEF Attempts
<1>3. /\ tries' \in Seq(Nat) /\ Len(tries') = Len(tries)
      /\ \A d \in 1..Len(tries) : tries'[d] = IF d = c.id THEN tries[c.id] + 1
                                                          ELSE tries[d]
  BY <1>1, <1>2, ExceptSeq
<1>4. \A d \in Rows : tries'[d] >= tries[d]
  BY <1>1, <1>3, RowTyped DEF Typed, RowsTyped
<1> QED  BY <1>1, <1>2, <1>3, <1>4, OutcomeTyped DEF Attempts, Typed, RowsTyped, Rows

LEMMA SavesRows ==
    ASSUME Typed, NEW s \in Process, NEW c, Saves(s, c)
    PROVE  /\ deliveries' \in Seq(Delivery) /\ Len(tries') = Len(deliveries')
           /\ Rows' = Rows /\ c.id \in Rows /\ tries' = tries
           /\ deliveries'[c.id] = c.row
           /\ \A d \in Rows \ {c.id} : deliveries'[d] = deliveries[d]
<1>1. /\ c.id \in Rows /\ c.row \in Delivery /\ deliveries \in Seq(Delivery)
      /\ c.id \in 1..Len(deliveries)
  BY CopyTyped, RowTyped DEF Saves, Typed, RowsTyped
<1>2. deliveries' = [deliveries EXCEPT ![c.id] = c.row] /\ tries' = tries
  BY DEF Saves
<1>3. /\ deliveries' \in Seq(Delivery) /\ Len(deliveries') = Len(deliveries)
      /\ \A d \in 1..Len(deliveries) :
            deliveries'[d] = IF d = c.id THEN c.row ELSE deliveries[d]
  BY <1>1, <1>2, ExceptSeq
<1> QED  BY <1>1, <1>2, <1>3 DEF Typed, RowsTyped, Rows

\* A batch after a step: what it was, or less; or, for the process that moves,
\* what the effect says.
LEMMA RowsTypedStep ==
    ASSUME Typed, Effect
    PROVE  RowsTyped' /\ Rows \subseteq Rows'
<1>1. \A s \in Process : \A c \in job[s].batch : c.id \in Rows
  BY DEF Typed, RowsTyped
<1>2. CASE Passes
  BY <1>1, <1>2 DEF Passes, Typed, RowsTyped, Rows
<1>3. ASSUME NEW new \in Delivery, Creates(new) PROVE RowsTyped' /\ Rows \subseteq Rows'
  <2>1. Len(deliveries) \in Nat
    BY DEF Typed, RowsTyped
  <2>2. Rows \subseteq Rows' /\ Len(deliveries) + 1 \in Rows'
    BY <1>3, <2>1, CreatesRows
  <2>3. \A s \in Process : \A c \in job'[s].batch : c.id \in Rows'
    BY <1>1, <1>3, <2>2 DEF Creates, OthersKeep
  <2> QED  BY <1>3, <2>2, <2>3, CreatesRows DEF RowsTyped
<1>4. ASSUME NEW s \in Process, NEW ds \in SUBSET Rows, Loads(s, ds)
      PROVE  RowsTyped' /\ Rows \subseteq Rows'
  <2>1. \A c \in job'[s].batch : c.id \in Rows
    BY <1>4, RowTyped DEF Loads
  <2>2. \A o \in Process : \A c \in job'[o].batch : c.id \in Rows
    BY <1>1, <1>4, <2>1 DEF Loads, OthersKeep
  <2> QED  BY <1>4, <2>2 DEF Loads, Typed, RowsTyped, Rows
<1>5. ASSUME NEW s \in Process, NEW c, NEW r, Attempts(s, c, r)
      PROVE  RowsTyped' /\ Rows \subseteq Rows'
  <2>1. /\ tries' \in Seq(Nat) /\ Len(tries') = Len(deliveries') /\ Rows' = Rows
        /\ c.id \in Rows
    BY <1>5, AttemptsRows
  <2>2. \A o \in Process : \A x \in job'[o].batch : x.id \in Rows
    BY <1>1, <1>5, <2>1 DEF Attempts, OthersKeep
  <2> QED  BY <1>5, <2>1, <2>2 DEF Attempts, Typed, RowsTyped
<1>6. ASSUME NEW s \in Process, NEW c, Saves(s, c)
      PROVE  RowsTyped' /\ Rows \subseteq Rows'
  <2>1. /\ deliveries' \in Seq(Delivery) /\ Len(tries') = Len(deliveries')
        /\ Rows' = Rows /\ tries' = tries
    BY <1>6, SavesRows
  <2>2. \A o \in Process : \A x \in job'[o].batch : x.id \in Rows
    BY <1>1, <1>6 DEF Saves, OthersKeep
  <2> QED  BY <2>1, <2>2 DEF Typed, RowsTyped
<1> QED  BY <1>2, <1>3, <1>4, <1>5, <1>6 DEF Effect

LEMMA FlowTypedStep ==
    ASSUME Typed, [Next]_vars
    PROVE  FlowTyped'
<1>1. Rows \subseteq Rows'
  BY Effects, RowsTypedStep
<1>2. ASSUME NEW e \in Event, Emit(e) \/ TakeTask(e) PROVE FlowTyped'
  BY <1>1, <1>2 DEF Emit, TakeTask, Typed, FlowTyped, ghosts, disturbances
<1>3. CASE Trigger \/ EndTask
  BY <1>1, <1>3 DEF Trigger, EndTask, Typed, FlowTyped, ghosts, disturbances
<1>4. ASSUME NEW s \in Process, Attempt(s) \/ AttemptUnread(s) \/ Save(s)
      PROVE  FlowTyped'
  <2>1. CASE Attempt(s) \/ AttemptUnread(s)
    <3>1. UNCHANGED <<emitted, queue, due, dropped, kills, manual, raises>>
          /\ unread' \in {unread, unread + 1}
      BY <2>1 DEF Attempt, AttemptUnread, Answered, disturbances
    <3> QED  BY <1>1, <3>1 DEF Typed, FlowTyped
  <2>2. CASE Save(s)
    BY <1>1, <2>2 DEF Save, Typed, FlowTyped, ghosts, disturbances
  <2> QED  BY <1>4, <2>1, <2>2
<1>5. ASSUME NEW s \in Process, Raise(s) \/ Kill(s) PROVE FlowTyped'
  <2>1. CASE Raise(s)
    BY <1>1, <2>1 DEF Raise, Typed, FlowTyped
  <2>2. CASE Kill(s)
    BY <1>1, <2>2 DEF Kill, Typed, FlowTyped, ghosts
  <2> QED  BY <1>5, <2>1, <2>2
<1>6. ASSUME NEW d \in Rows, FallDue(d) \/ RetryDelivery(d) PROVE FlowTyped'
  BY <1>1, <1>6 DEF FallDue, RetryDelivery, Typed, FlowTyped, ghosts, disturbances
<1>7. CASE RetryDue \/ UNCHANGED vars
  BY <1>1, <1>7 DEF RetryDue, vars, Typed, FlowTyped, ghosts, disturbances
<1>8. CASE DeliverTask
  BY <1>2, <1>3, <1>4, <1>5, <1>8, ProcessNames DEF DeliverTask, Deliver
<1>9. CASE RetryTask \/ StaffRequest
  BY <1>4, <1>5, <1>7, <1>9, ProcessNames DEF RetryTask, StaffRequest, Deliver
<1>10. CASE Time \/ \E d \in Rows : RetryDelivery(d)
  BY <1>6, <1>10 DEF Time
<1>11. CASE (\E e \in Event : Emit(e)) \/ \E s \in Process : Kill(s)
  BY <1>2, <1>5, <1>11
<1> QED  BY <1>7, <1>8, <1>9, <1>10, <1>11 DEF Next
-----------------------------------------------------------------------------
\* Tries only rise, and what they back they go on backing.
LEMMA BackedStays ==
    ASSUME NEW row \in Delivery, NEW d, tries[d] \in Nat, tries'[d] \in Nat,
           tries'[d] >= tries[d], Backed(d, row)
    PROVE  row.attempts <= tries'[d]
           /\ (row.status = "exhausted" /\ ~row.blocked => tries'[d] >= MAX_ATTEMPTS)
BY NumbersAssumption DEF Backed, Delivery

LEMMA CountedStep ==
    ASSUME Typed, Counted, Effect
    PROVE  Counted'
<1>1. \A s \in Process : \A c \in job[s].batch :
        c.id \in Rows /\ c.row \in Delivery /\ Backed(c.id, c.row)
  BY CopyTyped DEF Counted
<1>2. CASE Passes
  BY <1>2 DEF Passes, Counted, Backed, Rows
<1>3. ASSUME NEW new \in Delivery, Creates(new) PROVE Counted'
  <2> DEFINE n == Len(deliveries) + 1
  <2>1. /\ Rows' = 1..n /\ n \notin Rows /\ Rows = 1..(n - 1)
        /\ deliveries'[n] = new /\ tries'[n] = 0 /\ n \in Nat
        /\ \A d \in Rows : deliveries'[d] = deliveries[d] /\ tries'[d] = tries[d]
    BY <1>3, CreatesRows DEF Typed, RowsTyped
  <2>2. new.attempts = 0 /\ new.status = "pending"
    BY <1>3 DEF Creates
  <2> HIDE DEF n
  <2>3. \A d \in Rows' : d \in Rows \/ d = n
    BY <2>1
  <2>4. \A d \in Rows' : Backed(d, deliveries[d])'
    BY <2>1, <2>2, <2>3 DEF Counted, Backed
  <2>5. ASSUME NEW s \in Process, NEW c \in job'[s].batch
        PROVE  Backed(c.id, c.row)'
    <3>1. CASE s = "deliver"
      <4>1. c.id = n /\ c.row = new
        BY <1>3, <2>5, <3>1 DEF Creates, n
      <4> QED  BY <2>1, <2>2, <4>1 DEF Backed
    <3>2. CASE s # "deliver"
      <4>1. c \in job[s].batch
        BY <1>3, <2>5, <3>2 DEF Creates, OthersKeep
      <4> QED  BY <1>1, <2>1, <4>1 DEF Backed
    <3> QED  BY <3>1, <3>2
  <2> QED  BY <2>4, <2>5 DEF Counted
<1>4. ASSUME NEW s \in Process, NEW ds \in SUBSET Rows, Loads(s, ds) PROVE Counted'
  <2>1. deliveries' = deliveries /\ tries' = tries
    BY <1>4 DEF Loads
  <2>2. \A c \in job'[s].batch : Backed(c.id, c.row)
    BY <1>4 DEF Loads, Copy, Counted
  <2>3. \A o \in Process : \A c \in job'[o].batch : Backed(c.id, c.row)
    BY <1>1, <1>4, <2>2 DEF Loads, OthersKeep
  <2> QED  BY <2>1, <2>3 DEF Counted, Backed, Rows
<1>5. ASSUME NEW s \in Process, NEW c \in job[s].batch, NEW r \in Outcomes(c.row),
             Attempts(s, c, r)
      PROVE  Counted'
  <2>1. /\ tries' \in Seq(Nat) /\ Len(tries') = Len(deliveries') /\ Rows' = Rows
        /\ \A d \in Rows : tries'[d] >= tries[d]
        /\ tries'[c.id] = tries[c.id] + 1
        /\ c.row \in Delivery /\ r \in Delivery /\ c.id \in Rows
        /\ r.attempts = c.row.attempts + 1
        /\ r.status = "exhausted" /\ ~r.blocked => r.attempts >= MAX_ATTEMPTS
    BY <1>5, AttemptsRows
  <2>2. \A d \in Rows : tries[d] \in Nat /\ tries'[d] \in Nat /\ deliveries[d] \in Delivery
    BY <2>1, RowTyped DEF Rows
  <2>3. \A d \in Rows' : Backed(d, deliveries[d])'
    BY <1>5, <2>1, <2>2, BackedStays DEF Attempts, Counted, Backed
  <2>4. ASSUME NEW o \in Process, NEW x \in job'[o].batch
        PROVE  Backed(x.id, x.row)'
    <3>1. CASE x \in job[o].batch
      BY <1>1, <2>1, <2>2, <3>1, BackedStays DEF Backed
    <3>2. CASE x = [id |-> c.id, row |-> r]
      <4>1. x.id = c.id /\ x.row = r
        BY <3>2
      <4>2. r.attempts \in Nat /\ c.row.attempts \in Nat
        BY <2>1 DEF Delivery
      <4>3. r.attempts <= tries'[c.id]
        BY <1>1, <2>1, <2>2, <4>2 DEF Backed
      <4> QED  BY <2>1, <2>2, <4>1, <4>2, <4>3, NumbersAssumption DEF Backed
    <3> QED  BY <1>5, <2>4, <3>1, <3>2 DEF Attempts, OthersKeep
  <2> QED  BY <2>3, <2>4 DEF Counted
<1>6. ASSUME NEW s \in Process, NEW c \in job[s].batch, Saves(s, c) PROVE Counted'
  <2>1. /\ Rows' = Rows /\ tries' = tries /\ deliveries'[c.id] = c.row
        /\ \A d \in Rows \ {c.id} : deliveries'[d] = deliveries[d]
    BY <1>6, SavesRows
  <2>2. \A d \in Rows' : Backed(d, deliveries[d])'
    BY <1>1, <2>1 DEF Counted, Backed
  <2>3. \A o \in Process : \A x \in job'[o].batch : Backed(x.id, x.row)
    BY <1>1, <1>6 DEF Saves, OthersKeep
  <2> QED  BY <2>1, <2>2, <2>3 DEF Counted, Backed
<1> QED  BY <1>2, <1>3, <1>4, <1>5, <1>6 DEF Effect

\* Batches are loaded from distinct rows, and a copy keeps its id.
LEMMA OneCopyStep ==
    ASSUME Typed, OneCopy, Effect
    PROVE  OneCopy'
<1>1. CASE Passes
  BY <1>1 DEF Passes, OneCopy
<1>2. ASSUME NEW new \in Delivery, Creates(new) PROVE OneCopy'
  BY <1>2 DEF Creates, OthersKeep, OneCopy
<1>3. ASSUME NEW s \in Process, NEW ds \in SUBSET Rows, Loads(s, ds) PROVE OneCopy'
  <2>1. \A a, b \in job'[s].batch : a.id = b.id => a = b
    BY <1>3 DEF Loads, Copy
  <2> QED  BY <1>3, <2>1 DEF Loads, OthersKeep, OneCopy
<1>4. ASSUME NEW s \in Process, NEW c \in job[s].batch, NEW r, Attempts(s, c, r)
      PROVE  OneCopy'
  <2>1. \A a, b \in job'[s].batch : a.id = b.id => a = b
    BY <1>4 DEF Attempts, OneCopy
  <2> QED  BY <1>4, <2>1 DEF Attempts, OthersKeep, OneCopy
<1>5. ASSUME NEW s \in Process, NEW c \in job[s].batch, Saves(s, c) PROVE OneCopy'
  <2>1. \A a, b \in job'[s].batch : a.id = b.id => a = b
    BY <1>5 DEF Saves, OneCopy
  <2> QED  BY <1>5, <2>1 DEF Saves, OthersKeep, OneCopy
<1> QED  BY <1>1, <1>2, <1>3, <1>4, <1>5 DEF Effect

\* A row that is saved is one its process alone has, and it is not successful.
LEMMA SaveApart ==
    ASSUME Typed, OneCopy, CopiesApart, manual = 0,
           NEW s \in Process, NEW c \in job[s].batch
    PROVE  /\ deliveries[c.id].status # "success"
           /\ \A o \in Process : \A x \in job[o].batch :
                 x.id = c.id => o = s /\ x = c
<1>1. s \in {"deliver", "retry"}
      /\ \A o \in Process : \A x \in job[o].batch : o \in {"deliver", "retry"}
  BY DEF CopiesApart, Process
<1> QED  BY <1>1 DEF CopiesApart, OneCopy

LEMMA CopiesApartStep ==
    ASSUME Typed, OneCopy, CopiesApart, Effect
    PROVE  CopiesApart'
<1> SUFFICES ASSUME manual' = 0 PROVE CopiesApart'
    BY DEF CopiesApart
<1>1. manual \in Nat
  BY DEF Typed, FlowTyped
<1>2. CASE Passes
  BY <1>2, ProcessNames DEF Passes, CopiesApart
<1>3. ASSUME NEW new \in Delivery, Creates(new) PROVE CopiesApart'
  <2>1. /\ manual = 0 /\ new.status = "pending"
        /\ job'["deliver"].batch = {[id |-> Len(deliveries) + 1, row |-> new]}
        /\ job'["staff"].batch = job["staff"].batch
        /\ job'["retry"].batch = job["retry"].batch
    BY <1>3, ProcessNames DEF Creates, OthersKeep
  <2>2. deliveries'[Len(deliveries) + 1] = new
        /\ \A d \in Rows : deliveries'[d] = deliveries[d]
    BY <1>3, CreatesRows
  <2>3. \A c \in job["retry"].batch : c.id \in Rows
    BY CopyTyped, ProcessNames
  <2> QED  BY <2>1, <2>2, <2>3 DEF CopiesApart
<1>4. ASSUME NEW s \in Process, NEW ds \in SUBSET Rows, Loads(s, ds) PROVE CopiesApart'
  <2>1. s = "retry" /\ manual = 0
    BY <1>1, <1>4 DEF Loads
  <2>2. /\ job'["deliver"].batch = job["deliver"].batch
        /\ job'["staff"].batch = job["staff"].batch
    BY <1>4, <2>1, ProcessNames DEF Loads, OthersKeep
  <2>3. \A c \in job'["retry"].batch : deliveries[c.id].status = "failed"
    BY <1>4, <2>1, RowTyped DEF Loads
  <2> QED  BY <1>4, <2>1, <2>2, <2>3 DEF Loads, CopiesApart
<1>5. ASSUME NEW s \in Process, NEW c \in job[s].batch, NEW r, Attempts(s, c, r)
      PROVE  CopiesApart'
  <2>1. manual = 0 /\ deliveries' = deliveries
    BY <1>5 DEF Attempts
  <2>2. s # "staff"
    BY <1>5, <2>1 DEF CopiesApart
  <2>3. \A x \in job'[s].batch : \E y \in job[s].batch : x.id = y.id
    BY <1>5 DEF Attempts
  <2>4. \A o \in Process \ {s} : job'[o].batch = job[o].batch
    BY <1>5 DEF Attempts, OthersKeep
  <2> QED  BY <2>1, <2>2, <2>3, <2>4, ProcessNames DEF CopiesApart
<1>6. ASSUME NEW s \in Process, NEW c \in job[s].batch, Saves(s, c) PROVE CopiesApart'
  <2>1. manual = 0
    BY <1>6 DEF Saves
  <2>2. \A d \in Rows \ {c.id} : deliveries'[d] = deliveries[d]
    BY <1>6, SavesRows
  <2>3. \A o \in Process : \A x \in job'[o].batch : x \in job[o].batch /\ x.id # c.id
    BY <1>6, <2>1, SaveApart DEF Saves, OthersKeep
  <2>4. \A o \in Process : \A x \in job'[o].batch :
            deliveries'[x.id].status = deliveries[x.id].status
    BY <2>2, <2>3, CopyTyped
  <2> QED  BY <2>1, <2>3, <2>4, ProcessNames DEF CopiesApart
<1> QED  BY <1>2, <1>3, <1>4, <1>5, <1>6 DEF Effect

\* Only Saves writes rows, and while manual is 0 none of a successful one.
LEMMA DeliveredStep ==
    ASSUME IInv, [Next]_vars, manual' = 0,
           NEW d \in Rows, deliveries[d].status = "success"
    PROVE  deliveries'[d].status = "success"
<1>1. Typed /\ OneCopy /\ CopiesApart /\ manual \in Nat
  BY DEF IInv, Typed, FlowTyped
<1>2. Effect
  BY <1>1, Effects
<1>3. CASE Passes
  BY <1>3 DEF Passes
<1>4. ASSUME NEW new \in Delivery, Creates(new)
      PROVE  deliveries'[d].status = "success"
  BY <1>1, <1>4, CreatesRows
<1>5. ASSUME NEW s \in Process, NEW c \in job[s].batch, Saves(s, c)
      PROVE  deliveries'[d].status = "success"
  <2>1. d # c.id
    BY <1>1, <1>5, SaveApart DEF Saves
  <2> QED  BY <1>1, <1>5, <2>1, SavesRows
<1> QED  BY <1>2, <1>3, <1>4, <1>5 DEF Effect, Loads, Attempts
-----------------------------------------------------------------------------
LEMMA InitHolds == Init => IInv
<1> SUFFICES ASSUME Init PROVE IInv
    OBVIOUS
<1>1. JobsTyped /\ \A s \in Process : job[s].batch = {}
  BY IdleTyped DEF Init, JobsTyped
<1>2. Rows = {}
  BY DEF Init, Rows
<1>3. RowsTyped
  BY <1>1 DEF Init, RowsTyped
<1>4. FlowTyped
  BY <1>2 DEF Init, FlowTyped
<1> QED
  BY <1>1, <1>2, <1>3, <1>4, ProcessNames DEF IInv, Typed, Counted, OneCopy, CopiesApart

LEMMA Invariance == Spec => []IInv
<1>1. IInv /\ [Next]_vars => IInv'
  BY Effects, RowsTypedStep, FlowTypedStep, CountedStep, OneCopyStep, CopiesApartStep
     DEF IInv, Typed
<1> QED  BY InitHolds, <1>1, PTL DEF Spec

\* Rows, copies and tasks of apps/webhooks keep their types, for any events,
\* endpoints and disturbances.
THEOREM TypeCorrect == Spec => []TypeOK
<1>1. IInv => TypeOK
  BY CopyTyped DEF IInv, Typed, JobsTyped, RowsTyped, FlowTyped, TypeOK, Job, Rows
<1> QED  BY Invariance, <1>1, PTL

\* services.py:155-158: a delivery is given up after MAX_ATTEMPTS attempts, in
\* whatever order whole rows are saved over each other.
THEOREM TriedEnough == Spec => []NeverGivesUpEarly
<1>1. IInv => NeverGivesUpEarly
  <2> SUFFICES ASSUME IInv, NEW d \in Rows,
                      deliveries[d].status = "exhausted", ~deliveries[d].blocked
               PROVE  tries[d] >= MAX_ATTEMPTS
      BY DEF NeverGivesUpEarly
  <2> QED  BY DEF IInv, Counted, Backed
<1> QED  BY Invariance, <1>1, PTL

\* services.py:110-177: while no one retries by hand, a delivery that succeeded
\* is never saved over, for any batches and any number of lost workers.
THEOREM SuccessStays == Spec => DeliveredStaysDelivered
<1>1. IInv /\ [Next]_vars =>
        [\A d \in Rows : manual' = 0 /\ deliveries[d].status = "success"
                            => deliveries'[d].status = "success"]_vars
  BY DeliveredStep
<1> QED  BY Invariance, <1>1, PTL DEF Spec, DeliveredStaysDelivered
=============================================================================
