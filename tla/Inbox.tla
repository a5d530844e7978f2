-------------------------------- MODULE Inbox --------------------------------
(***************************************************************************)
(* How a provider's events come in.  The controller looks an event up,     *)
(* saves it, and queues a job, in three separate steps, and only then      *)
(* answers 200; the table's unique index catches two deliveries that both  *)
(* found nothing.  A failure after the save leaves a stored event without  *)
(* a job, and every redelivery of it is taken for a duplicate, so the      *)
(* sweep over unprocessed rows is the only way on.  The Paymob and the     *)
(* Duffel inbox have this shape; what their workers do with an event is in *)
(* WebhookInbox and SupplierInbox.                                         *)
(***************************************************************************)
EXTENDS Naturals

CONSTANTS
    Events,         \* events, one row of the table each
    Requests,       \* HTTP requests of the controller
    NoEvent,
    MaxJobs,        \* bound: jobs of one event waiting in Redis
    MaxFaults       \* bound: crashes and failing calls

ASSUME InboxAssumption ==
    /\ NoEvent \notin Events
    /\ MaxJobs \in Nat \ {0}
    /\ MaxFaults \in Nat

VARIABLES
    table,      \* the event's row; "pruned" when it has been deleted again
    jobs,       \* jobs of the event waiting in Redis
    request,    \* what each request of the controller is doing
    acked,      \* events the provider has been told are received
    faults      \* crashes and failing calls so far

inboxVars == <<table, jobs, request, acked, faults>>

EventStatus == {"none", "stored", "processed", "pruned"}
Free == [pc |-> "free", event |-> NoEvent]

InboxInit ==
    /\ table = [e \in Events |-> "none"]
    /\ jobs = [e \in Events |-> 0]
    /\ request = [q \in Requests |-> Free]
    /\ acked = {}
    /\ faults = 0

\* The row is there for findOneBy and for the unique index.
Kept(e) == table[e] \in {"stored", "processed"}

Fault == faults < MaxFaults /\ faults' = faults + 1

\* queue.add without a job id: more jobs of an event than the bound add nothing
\* new.
AddJob(e) == jobs' = [jobs EXCEPT ![e] = IF @ < MaxJobs THEN @ + 1 ELSE @]

Acknowledge(q) ==
    /\ acked' = acked \union {request[q].event}
    /\ request' = [request EXCEPT ![q] = Free]

\* A delivery, first or repeated, finds its event (duplicate, 200) or goes on: one
\* repeated after its row has been deleted is new again.
Lookup(q, e) ==
    /\ request[q] = Free
    /\ IF Kept(e)
       THEN acked' = acked \union {e} /\ UNCHANGED request
       ELSE request' = [request EXCEPT ![q] = [pc |-> "saving", event |-> e]] /\ UNCHANGED acked
    /\ UNCHANGED <<table, jobs, faults>>

\* The insert.  An event another delivery has stored meanwhile violates the
\* unique index (23505) and is acknowledged.
SaveEvent(q) ==
    LET e == request[q].event IN
    /\ request[q].pc = "saving"
    /\ IF Kept(e)
       THEN Acknowledge(q) /\ UNCHANGED table
       ELSE /\ table' = [table EXCEPT ![e] = "stored"]
            /\ request' = [request EXCEPT ![q].pc = "queueing"]
            /\ UNCHANGED acked
    /\ UNCHANGED <<jobs, faults>>

\* queue.add and the answer.
QueueEvent(q) ==
    /\ request[q].pc = "queueing"
    /\ AddJob(request[q].event)
    /\ Acknowledge(q)
    /\ UNCHANGED <<table, faults>>

\* The process dies, or the database or Redis fails the request: no 200.
RequestFails(q) ==
    /\ request[q] # Free
    /\ Fault
    /\ request' = [request EXCEPT ![q] = Free]
    /\ UNCHANGED <<table, jobs, acked>>

\* Variant: the sweep takes the newest events, which have their job, instead of
\* the ones that have waited a minute.
SweepEvent_TakesFresh(e) ==
    /\ table[e] = "stored"
    /\ jobs[e] > 0
    /\ AddJob(e)
    /\ UNCHANGED <<table, request, acked, faults>>

\* sweepUnprocessedWebhooks, every minute: an unprocessed event is queued again,
\* whether or not it still has a job.
SweepEvent(e) ==
    /\ table[e] = "stored"
    /\ AddJob(e)
    /\ UNCHANGED <<table, request, acked, faults>>

InboxTypeOK ==
    /\ table \in [Events -> EventStatus]
    /\ jobs \in [Events -> 0 .. MaxJobs]
    /\ request \in [Requests -> [pc : {"free", "saving", "queueing"},
                                 event : Events \union {NoEvent}]]
    /\ acked \subseteq Events
    /\ faults \in 0 .. MaxFaults

\* What the provider has been told is received, and will not send again, is or
\* was in the table (webhooks.controller.ts:79-92, save before the answer): no
\* failure between the steps of a request loses an event.
AckedIsKept == \A e \in acked : table[e] # "none"
=============================================================================
