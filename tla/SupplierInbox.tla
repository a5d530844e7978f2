---------------------------- MODULE SupplierInbox ----------------------------
(***************************************************************************)
(* Airline schedule changes of one order.  Duffel sends a notice after     *)
(* each change, at least once and in any order; the worker then asks       *)
(* Duffel for the order as it is now, compares it with the stored          *)
(* segments, overwrites them, and mails the customer the departures that   *)
(* moved, all inside the transaction that marks the notice processed.      *)
(* That transaction locks the notice but neither the booking nor, before   *)
(* it writes them, the segments, so two backend instances that handle two  *)
(* notices of one order can interleave.                                    *)
(*                                                                         *)
(* The schedule is abstracted to a version: 0 as booked, n after the n-th  *)
(* change, which is also the notice's name.                                *)
(***************************************************************************)
EXTENDS Inbox, FiniteSets

CONSTANTS
    MaxChanges,     \* bound: changes the airline makes
    DepartureOf,    \* departure times of a version; a change may move only arrivals
    Workers         \* backend instances, one duffel_webhook_queue job each

Versions == 0 .. MaxChanges

ASSUME SupplierAssumption ==
    /\ MaxChanges \in Nat
    /\ Events = 1 .. MaxChanges
    /\ DepartureOf \in [Versions -> Nat]

VARIABLES
    linked,     \* bookings.supplier_order_id is set
    segments,   \* the version of the stored segments
    flagged,    \* bookings.schedule_change_detected_at is set
    worker,     \* what each worker is doing
    told,       \* departure of the last schedule mail, or the one booked
    overlapped, \* two transactions of the order have been open at one time
    airline     \* external: the version the airline flies

vars == <<inboxVars, linked, segments, flagged, worker, told, overlapped, airline>>

Idle == [pc |-> "idle", event |-> NoEvent, seen |-> 0, old |-> 0]

Init ==
    /\ InboxInit
    /\ linked = FALSE
    /\ segments = 0
    /\ flagged = FALSE
    /\ worker = [w \in Workers |-> Idle]
    /\ told = DepartureOf[0]
    /\ overlapped = FALSE
    /\ airline = 0

-----------------------------------------------------------------------------
(* External: the airline, and the paths that link the order (T5). *)

ChangeSchedule ==
    /\ airline < MaxChanges
    /\ airline' = airline + 1
    /\ UNCHANGED <<inboxVars, linked, segments, flagged, worker, told, overlapped>>

\* The order job, order.created or the reconciliation writes supplier_order_id.
LinkOrder ==
    /\ ~ linked
    /\ linked' = TRUE
    /\ UNCHANGED <<inboxVars, segments, flagged, worker, told, overlapped, airline>>

-----------------------------------------------------------------------------
(* handleDuffelWebhook: the signature has been verified. *)

Deliver(q, n) ==
    /\ n <= airline
    /\ Lookup(q, n)
    /\ UNCHANGED <<linked, segments, flagged, worker, told, overlapped, airline>>

Answer(q) ==
    /\ SaveEvent(q) \/ QueueEvent(q) \/ RequestFails(q)
    /\ UNCHANGED <<linked, segments, flagged, worker, told, overlapped, airline>>

Sweep(n) ==
    /\ SweepEvent(n)
    /\ UNCHANGED <<linked, segments, flagged, worker, told, overlapped, airline>>

-----------------------------------------------------------------------------
(* process: one transaction per job. *)

Busy == {w \in Workers : worker[w].pc # "idle"}

\* Variant: a notice of an unknown order is marked processed.
TakeNotice_DropsUnlinked(w, n) ==
    /\ worker[w] = Idle
    /\ jobs[n] > 0
    /\ \A v \in Workers : worker[v].event # n
    /\ jobs' = [jobs EXCEPT ![n] = @ - 1]
    /\ IF table[n] = "stored" /\ linked
       THEN /\ worker' = [worker EXCEPT ![w] = [Idle EXCEPT !.pc = "asking", !.event = n]]
            /\ overlapped' = (overlapped \/ Busy # {})
            /\ UNCHANGED table
       ELSE /\ table' = [table EXCEPT ![n] = IF @ = "stored" THEN "processed" ELSE @]
            /\ UNCHANGED <<worker, overlapped>>
    /\ UNCHANGED <<request, acked, faults, linked, segments, flagged, told, airline>>

\* A job locks its notice.  A processed one, or one whose order is not linked
\* yet, ends the job; the latter stays stored for the sweep.
TakeNotice(w, n) ==
    /\ worker[w] = Idle
    /\ jobs[n] > 0
    /\ \A v \in Workers : worker[v].event # n
    /\ jobs' = [jobs EXCEPT ![n] = @ - 1]
    /\ IF table[n] = "stored" /\ linked
       THEN /\ worker' = [worker EXCEPT ![w] = [Idle EXCEPT !.pc = "asking", !.event = n]]
            /\ overlapped' = (overlapped \/ Busy # {})
       ELSE UNCHANGED <<worker, overlapped>>
    /\ UNCHANGED <<table, request, acked, faults, linked, segments, flagged, told, airline>>

\* Variant: the times are taken from the notice instead of the live order.
AskDuffel_UsesNotice(w) ==
    /\ worker[w].pc = "asking"
    /\ worker' = [worker EXCEPT ![w].pc = "comparing", ![w].seen = worker[w].event]
    /\ UNCHANGED <<inboxVars, linked, segments, flagged, told, overlapped, airline>>

\* getOrder: the order as it is now.
AskDuffel(w) ==
    /\ worker[w].pc = "asking"
    /\ worker' = [worker EXCEPT ![w].pc = "comparing", ![w].seen = airline]
    /\ UNCHANGED <<inboxVars, linked, segments, flagged, told, overlapped, airline>>

\* The stored segments are read, without a lock.
ReadSegments(w) ==
    /\ worker[w].pc = "comparing"
    /\ worker' = [worker EXCEPT ![w].pc = "writing", ![w].old = segments]
    /\ UNCHANGED <<inboxVars, linked, segments, flagged, told, overlapped, airline>>

\* Variant: a booking that is flagged already is not written about again.
WriteSegments_OnceOnly(w) ==
    LET seen == DepartureOf[worker[w].seen]
        old == DepartureOf[worker[w].old]
    IN  /\ worker[w].pc = "writing"
        /\ \A v \in Workers : worker[v].pc # "committing"
        /\ worker' = [worker EXCEPT ![w].pc = "committing"]
        /\ told' = IF seen # old /\ ~ flagged THEN seen ELSE told
        /\ UNCHANGED <<inboxVars, linked, segments, flagged, overlapped, airline>>

\* The segments are overwritten, which locks them until the commit, and the
\* mail with the departures that differ from what was read goes out at once.
WriteSegments(w) ==
    LET seen == DepartureOf[worker[w].seen]
        old == DepartureOf[worker[w].old]
    IN  /\ worker[w].pc = "writing"
        /\ \A v \in Workers : worker[v].pc # "committing"
        /\ worker' = [worker EXCEPT ![w].pc = "committing"]
        /\ told' = IF seen # old THEN seen ELSE told
        /\ UNCHANGED <<inboxVars, linked, segments, flagged, overlapped, airline>>

Commit(w) ==
    /\ worker[w].pc = "committing"
    /\ segments' = worker[w].seen
    /\ flagged' = TRUE
    /\ table' = [table EXCEPT ![worker[w].event] = "processed"]
    /\ worker' = [worker EXCEPT ![w] = Idle]
    /\ UNCHANGED <<jobs, request, acked, faults, linked, told, overlapped, airline>>

\* Duffel does not answer, or the process or the database fails: the transaction
\* rolls back, and the job is not tried again.
RollBack(w) ==
    /\ worker[w] # Idle
    /\ Fault
    /\ worker' = [worker EXCEPT ![w] = Idle]
    /\ UNCHANGED <<table, jobs, request, acked, linked, segments, flagged, told,
                   overlapped, airline>>

-----------------------------------------------------------------------------
Next ==
    \/ ChangeSchedule \/ LinkOrder
    \/ \E q \in Requests : Answer(q) \/ \E n \in Events : Deliver(q, n)
    \/ \E n \in Events : Sweep(n)
    \/ \E w \in Workers : \/ \E n \in Events : TakeNotice(w, n)
                          \/ AskDuffel(w) \/ ReadSegments(w) \/ WriteSegments(w)
                          \/ Commit(w) \/ RollBack(w)

Spec == Init /\ [][Next]_vars

\* Duffel repeats a notice until it is acknowledged, requests and transactions
\* go on while their process lives, the sweep runs every minute, a stored
\* notice's job is taken, and the order is linked in the end (Fulfillment).
Fairness ==
    /\ WF_vars(LinkOrder)
    /\ \A n \in Events : /\ WF_vars(n \notin acked /\ \E q \in Requests : Deliver(q, n))
                         /\ WF_vars(jobs[n] = 0 /\ Sweep(n))
                         /\ SF_vars(linked /\ \E w \in Workers : TakeNotice(w, n))
    /\ \A q \in Requests : WF_vars(Answer(q))
    /\ \A w \in Workers : WF_vars(AskDuffel(w) \/ ReadSegments(w) \/ WriteSegments(w)
                                  \/ Commit(w))

FairSpec == Spec /\ Fairness

-----------------------------------------------------------------------------
\* Types; and what a transaction is handling has not been handled before.  Checked
\* with SettledMeansCurrent.
TypeOK ==
    /\ InboxTypeOK
    /\ \A w \in Busy : table[worker[w].event] = "stored"
    /\ linked \in BOOLEAN
    /\ segments \in Versions
    /\ flagged \in BOOLEAN
    /\ worker \in [Workers -> [pc : {"idle", "asking", "comparing", "writing", "committing"},
                               event : Events \union {NoEvent},
                               seen : Versions, old : Versions]]
    /\ told \in {DepartureOf[v] : v \in Versions}
    /\ overlapped \in BOOLEAN
    /\ airline \in Versions

\* Every change the airline has made so far has been handled.
Settled == Busy = {} /\ \A n \in 1 .. airline : table[n] = "processed"

\* However notices are repeated, reordered, delayed and retried, once all of
\* them are handled the stored schedule is the one the airline flies
\* (duffel_api_integration_guide.md section 9: webhooks "keep your local orders
\* table in sync"), unless two transactions of the order were open at one time:
\* the one that asked Duffel first may then write last.
SettledMeansCurrent ==
    /\ TypeOK
    /\ Settled /\ ~ overlapped => segments = airline

\* The customer's last schedule mail, or the itinerary as booked, gives the
\* departure that is stored, as long as no transaction failed after its mail
\* had gone and none overlapped another.
MailAgreesWithTable ==
    faults = 0 /\ ~ overlapped /\ Busy = {} => told = DepartureOf[segments]

\* Once the airline makes no more changes the stored schedule catches up for
\* good, through failing requests, failing jobs and notices that came before
\* the order was linked.
ScheduleCatchesUp == <>(overlapped \/ [](segments = airline))
=============================================================================
