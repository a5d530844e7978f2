------------------------------ MODULE Refunds ------------------------------
(***************************************************************************)
(* The refund pipeline of captured payments.  A refund row is committed as *)
(* pending, by a failed order (T6), a cancellation (T7) or an admin; it is *)
(* executed at the gateway, outside any transaction, by a queue worker or  *)
(* inline in the admin's request; and the result is recorded in a          *)
(* transaction that locks only the refund row.  Errors are retried by the  *)
(* queue, then the row is marked failed until an admin retries it.  A      *)
(* sweep queues pending rows whose job was lost.                           *)
(*                                                                         *)
(* Postgres runs READ COMMITTED: a sum read in a transaction sees what     *)
(* was committed before the read, so a read and the write it decides are   *)
(* two steps here wherever no lock covers both.                            *)
(***************************************************************************)
EXTENDS BookingRows, FiniteSets, Functions

CONSTANTS
    RefundIds,      \* refund rows that may come to exist
    BookingOf,      \* the booking whose one payment a refund row belongs to
    Workers,        \* processes that run execute_refund jobs
    Admins,         \* admin requests that refund a payment inline
    NoRefund,
    Total,          \* payment.amount, the booking's total_amount
    MaxTries,       \* attempts of a job (5 in refund-execution.queue.ts)
    QueueTakesJobIds, \* the installed BullMQ accepts a job id with a colon
    MaxCaptures,    \* bound: attempts of one payment the gateway captured
    MaxRetries,     \* bound: admin retries
    MaxFaults       \* bound: crashes and stalls of an executor, lost answers

ASSUME RefundsAssumption ==
    /\ BookingOf \in [RefundIds -> Bookings]
    /\ \A b \in Bookings : IsFiniteSet({r \in RefundIds : BookingOf[r] = b})
    /\ NoRefund \notin RefundIds
    /\ Workers \intersect Admins = {}
    /\ Total \in Nat \ {0}
    /\ MaxTries \in Nat \ {0}
    /\ QueueTakesJobIds \in BOOLEAN
    /\ MaxCaptures \in Nat \ {0}
    /\ MaxRetries \in Nat
    /\ MaxFaults \in Nat

VARIABLES
    payment,    \* payments.status, by booking
    refund,     \* refunds.status, or "none"
    amount,     \* refunds.amount
    ledger,     \* gateway_refund ledger rows of a refund
    old,        \* created_at is past the requeue sweep's five minutes
    job,        \* the job refund:<id>: "none", "waiting" or "active"
    tries,      \* failed attempts of that job
    executor,   \* what each worker and each admin request is doing
    captures,   \* captured attempts of the payment the webhook processor credited
    overtaken,  \* the booking failed or was cancelled too late for a recording to see
    moved,      \* external: times the gateway paid a refund out
    retries,    \* admin retries so far
    faults      \* crashes, stalls, lost answers and recordings undone so far

tableVars == <<payment, refund, amount, ledger, old>>
queueVars == <<job, tries>>
creditVars == <<captures, overtaken>>
vars == <<rowVars, tableVars, queueVars, executor, creditVars, moved, retries, faults>>

Executors == Workers \union Admins
Idle == [pc |-> "idle", refund |-> NoRefund, amount |-> 0,
         covered |-> FALSE, closable |-> FALSE, holdsJob |-> FALSE]

Rows(b) == {r \in RefundIds : BookingOf[r] = b}
SucceededRows(b) == {r \in Rows(b) : refund[r] = "succeeded"}
CommittedRows(b) == {r \in Rows(b) : refund[r] \in {"pending", "succeeded"}}
AmountOf(S) == SumFunctionOnSet(amount, S)
PaidOut(b) == SumFunctionOnSet([r \in RefundIds |-> moved[r] * amount[r]], Rows(b))

Init ==
    /\ status = [b \in Bookings |-> "paid"]
    /\ history = [b \in Bookings |-> <<HistoryRow("pending", "pending"),
                                       HistoryRow("pending", "awaiting_payment"),
                                       HistoryRow("awaiting_payment", "paid")>>]
    /\ payment = [b \in Bookings |-> "succeeded"]
    /\ refund = [r \in RefundIds |-> "none"]
    /\ amount = [r \in RefundIds |-> 0]
    /\ ledger = [r \in RefundIds |-> 0]
    /\ old = [r \in RefundIds |-> FALSE]
    /\ job = [r \in RefundIds |-> "none"]
    /\ tries = [r \in RefundIds |-> 0]
    /\ executor = [x \in Executors |-> Idle]
    /\ captures = [b \in Bookings |-> 1]
    /\ overtaken = [b \in Bookings |-> FALSE]
    /\ moved = [r \in RefundIds |-> 0]
    /\ retries = 0
    /\ faults = 0

-----------------------------------------------------------------------------
(* Committing a refund: createPendingRefund and its callers. *)

\* The checks of createPendingRefund: they read the payment and its refund rows
\* without a lock.
MayRefund(b, n) ==
    /\ payment[b] \in {"succeeded", "partially_refunded"}
    /\ n > 0
    /\ AmountOf(CommittedRows(b)) + n <= Total

\* Ids no row has, and none is about to have.
FreeRows(b) == {r \in Rows(b) : /\ refund[r] = "none"
                                /\ \A x \in Executors : executor[x].refund # r}

\* ... and its insert.
InsertPending(r, n) ==
    /\ refund[r] = "none"
    /\ refund' = [refund EXCEPT ![r] = "pending"]
    /\ amount' = [amount EXCEPT ![r] = n]
    /\ UNCHANGED <<payment, ledger, old>>

\* queue.add under the job id refund:<id>: a refund with a live job gets no
\* second one.  A BullMQ that refuses the id throws: no job is added, and every
\* caller logs the error and goes on.
AddJob(r) ==
    IF QueueTakesJobIds /\ job[r] = "none"
    THEN /\ job' = [job EXCEPT ![r] = "waiting"]
         /\ tries' = [tries EXCEPT ![r] = 0]
    ELSE UNCHANGED queueVars

\* enqueueRefund: a crash or a failing Redis loses the job, not the row.
EnqueueRefund(r) == AddJob(r) \/ UNCHANGED queueVars

\* A recording that covers the payment of b has read the booking already, or has
\* been committed: it will not see what happens to b now.
Overtake(b) ==
    overtaken' = [overtaken EXCEPT ![b] =
        \/ @
        \/ payment[b] = "refunded"
        \/ \E x \in Executors : /\ executor[x].pc = "committing"
                               /\ executor[x].covered
                               /\ BookingOf[executor[x].refund] = b]

\* A second attempt of the payment was captured too, and its callback is processed
\* while the booking is still paid: the transition is a replay, and the payment
\* reads succeeded again, whatever has been refunded.
CaptureAgain(b) ==
    /\ status[b] = "paid"
    /\ captures[b] < MaxCaptures
    /\ captures' = [captures EXCEPT ![b] = @ + 1]
    /\ payment' = [payment EXCEPT ![b] = "succeeded"]
    /\ UNCHANGED <<rowVars, refund, amount, ledger, old, queueVars, executor, overtaken,
                   moved, retries, faults>>

\* T5, as Fulfillment has it.
ConfirmOrder(b) ==
    /\ status[b] = "paid"
    /\ TransitionTo(b, "confirmed")
    /\ UNCHANGED <<tableVars, queueVars, executor, creditVars, moved, retries, faults>>

\* failPaidBookingAndRefund (T6): the refund of the full amount commits with the
\* status; where it may not be created the booking still fails, and the refund
\* is left to an admin.
FailOrder(b) ==
    /\ status[b] = "paid"
    /\ TransitionTo(b, "order_failed")
    /\ IF MayRefund(b, Total)
       THEN \E r \in FreeRows(b) : InsertPending(r, Total) /\ EnqueueRefund(r)
       ELSE UNCHANGED <<tableVars, queueVars>>
    /\ Overtake(b)
    /\ UNCHANGED <<executor, captures, moved, retries, faults>>

\* The transaction of cancelBooking (T7), after Duffel cancelled the order and
\* quoted what the customer gets back.  A refund that may not be created throws
\* and the booking stays confirmed, except that an admin cancels without a
\* refund when there is nothing to give back or the payment is settled already.
CancelBooking(b) ==
    /\ status[b] = "confirmed"
    /\ TransitionTo(b, "cancelled")
    /\ \/ \E n \in 1 .. Total, r \in FreeRows(b) :
             MayRefund(b, n) /\ InsertPending(r, n) /\ EnqueueRefund(r)
       \/ UNCHANGED <<tableVars, queueVars>>
    /\ Overtake(b)
    /\ UNCHANGED <<executor, captures, moved, retries, faults>>

\* refundPayment of the admin: the checks ...
AdminChecks(a, b, n) ==
    /\ executor[a] = Idle
    /\ MayRefund(b, n)
    /\ \E r \in FreeRows(b) :
          executor' = [executor EXCEPT ![a] =
             [Idle EXCEPT !.pc = "inserting", !.refund = r, !.amount = n]]
    /\ UNCHANGED <<rowVars, tableVars, queueVars, creditVars, moved, retries, faults>>

\* ... and the commit of the pending row, executed in the same request.
AdminInserts(a) ==
    /\ executor[a].pc = "inserting"
    /\ InsertPending(executor[a].refund, executor[a].amount)
    /\ executor' = [executor EXCEPT ![a].pc = "loading"]
    /\ UNCHANGED <<rowVars, queueVars, creditVars, moved, retries, faults>>

\* retryRefund: a failed row becomes pending again, whatever was committed in
\* the meantime, and is queued; a pending one is only queued.
RetryRefund(r) ==
    /\ refund[r] \in {"pending", "failed"}
    /\ retries < MaxRetries
    /\ retries' = retries + 1
    /\ refund' = [refund EXCEPT ![r] = "pending"]
    /\ EnqueueRefund(r)
    /\ UNCHANGED <<rowVars, payment, amount, ledger, old, executor, creditVars, moved, faults>>

-----------------------------------------------------------------------------
(* The requeue sweep. *)

\* Five minutes pass over a pending row.  The request of an admin is over by
\* then: its gateway call times out after 15 s.
GrowsOld(r) ==
    /\ refund[r] = "pending"
    /\ ~ old[r]
    /\ \A a \in Admins : executor[a].refund # r
    /\ old' = [old EXCEPT ![r] = TRUE]
    /\ UNCHANGED <<rowVars, payment, refund, amount, ledger, queueVars, executor,
                   creditVars, moved, retries, faults>>

\* Variant: rows of any age are queued, those of an admin's request included.
Requeue_AnyAge(r) ==
    /\ refund[r] = "pending"
    /\ AddJob(r)
    /\ UNCHANGED <<rowVars, tableVars, executor, creditVars, moved, retries, faults>>

\* requeueStalePendingRefunds
Requeue(r) ==
    /\ refund[r] = "pending"
    /\ old[r]
    /\ AddJob(r)
    /\ UNCHANGED <<rowVars, tableVars, executor, creditVars, moved, retries, faults>>
-----------------------------------------------------------------------------
(* executeRefund, in a worker's job or in an admin's request. *)

\* A worker takes the job of refund r.
TakeJob(w, r) ==
    /\ executor[w] = Idle
    /\ job[r] = "waiting"
    /\ job' = [job EXCEPT ![r] = "active"]
    /\ executor' = [executor EXCEPT ![w] =
          [Idle EXCEPT !.pc = "loading", !.refund = r, !.holdsJob = TRUE]]
    /\ UNCHANGED <<rowVars, tableVars, tries, creditVars, moved, retries, faults>>

\* The run ends without an error: the job, if it is still this run's, is removed.
Finish(x) ==
    /\ executor' = [executor EXCEPT ![x] = Idle]
    /\ IF executor[x].holdsJob
       THEN /\ job' = [job EXCEPT ![executor[x].refund] = "none"]
            /\ tries' = [tries EXCEPT ![executor[x].refund] = 0]
       ELSE UNCHANGED queueVars

\* The run ends with an error.  A job goes back to the queue, or after its last
\* attempt is removed before onFailed marks the row; the admin's request marks
\* the row itself; a run whose job was handed to another worker does nothing.
Fail(x) ==
    LET r == executor[x].refund IN
    IF executor[x].holdsJob /\ tries[r] + 1 < MaxTries
    THEN /\ job' = [job EXCEPT ![r] = "waiting"]
         /\ tries' = [tries EXCEPT ![r] = @ + 1]
         /\ executor' = [executor EXCEPT ![x] = Idle]
    ELSE IF executor[x].holdsJob
    THEN /\ job' = [job EXCEPT ![r] = "none"]
         /\ tries' = [tries EXCEPT ![r] = 0]
         /\ executor' = [executor EXCEPT ![x].pc = "giving_up", ![x].holdsJob = FALSE]
    ELSE /\ executor' = [executor EXCEPT ![x] =
                IF x \in Admins THEN [@ EXCEPT !.pc = "giving_up"] ELSE Idle]
         /\ UNCHANGED queueVars

\* The first, unlocked read: only a pending row is executed.
LoadRefund(x) ==
    LET r == executor[x].refund IN
    /\ executor[x].pc = "loading"
    /\ IF refund[r] = "pending"
       THEN /\ executor' = [executor EXCEPT ![x].pc = "calling"]
            /\ UNCHANGED queueVars
       ELSE Finish(x)
    /\ UNCHANGED <<rowVars, tableVars, creditVars, moved, retries, faults>>

\* refundTransaction.  External: the gateway pays out, never more in total than
\* it captured; or refuses; or pays out and the answer is lost, which the code
\* cannot tell from a refusal.
CallGateway(x) ==
    LET r == executor[x].refund
        b == BookingOf[r]
        pays == /\ PaidOut(b) + amount[r] <= captures[b] * Total
                /\ moved' = [moved EXCEPT ![r] = @ + 1]
    IN  /\ executor[x].pc = "calling"
        /\ \/ /\ pays
              /\ executor' = [executor EXCEPT ![x].pc = "recording"]
              /\ UNCHANGED <<queueVars, faults>>
           \/ /\ faults < MaxFaults
              /\ faults' = faults + 1
              /\ pays
              /\ Fail(x)
           \/ /\ UNCHANGED <<moved, faults>>
              /\ Fail(x)
        /\ UNCHANGED <<rowVars, tableVars, creditVars, retries>>

RowLocked(r) == \E y \in Executors : executor[y].pc = "committing" /\ executor[y].refund = r

\* Variant: pending refunds count as paid out.
Covers_PendingToo(r) == AmountOf(CommittedRows(BookingOf[r])) >= Total

\* The succeeded rows a recording of r can see, its own included, cover the payment.
Covers(r) == AmountOf(SucceededRows(BookingOf[r]) \union {r}) >= Total

\* Variant: only cancellations are closed.
Closable_CancelledOnly(b) == status[b] = "cancelled"

\* The booking, read without a lock, waits for its refund.
Closable(b) == status[b] \in {"cancelled", "order_failed"}

\* Variant: the row is not read again under the lock.
OpenRecord_NoRecheck(x) ==
    LET r == executor[x].refund IN
    /\ executor[x].pc = "recording"
    /\ ~ RowLocked(r)
    /\ executor' = [executor EXCEPT ![x].pc = "committing",
                                    ![x].covered = Covers(r),
                                    ![x].closable = Closable(BookingOf[r])]
    /\ UNCHANGED <<rowVars, tableVars, queueVars, creditVars, moved, retries, faults>>

\* The recording transaction locks the refund row, skips one that is no longer
\* pending, sums the rows and, if they cover the payment, reads the booking.  A row
\* that succeeds between the sum and that read leaves a covering sum covering, so
\* both are one step; the commit is another.
OpenRecord(x) ==
    LET r == executor[x].refund IN
    /\ executor[x].pc = "recording"
    /\ ~ RowLocked(r)
    /\ IF refund[r] = "pending"
       THEN /\ executor' = [executor EXCEPT ![x].pc = "committing",
                                            ![x].covered = Covers(r),
                                            ![x].closable = Closable(BookingOf[r])]
            /\ UNCHANGED queueVars
       ELSE Finish(x)
    /\ UNCHANGED <<rowVars, tableVars, creditVars, moved, retries, faults>>

\* ... and commits: the row, its ledger entry, the payment's rollup and, as it was
\* read, the booking.  A booking read closable can only have been closed since, so
\* transitionTo does not throw: that takes a status written past the state machine,
\* by the stale save of Cancellation, which has that action.
CommitRecord(x) ==
    LET r == executor[x].refund
        b == BookingOf[r]
    IN  /\ executor[x].pc = "committing"
        /\ refund' = [refund EXCEPT ![r] = "succeeded"]
        /\ ledger' = [ledger EXCEPT ![r] = @ + 1]
        /\ payment' = [payment EXCEPT ![b] = IF executor[x].covered
                                            THEN "refunded"
                                            ELSE "partially_refunded"]
        /\ IF executor[x].covered /\ executor[x].closable
           THEN TransitionTo(b, "refunded")
           ELSE UNCHANGED rowVars
        /\ Finish(x)
        /\ UNCHANGED <<amount, old, creditVars, moved, retries, faults>>

\* markRefundFailed: a conditional update, only of a row that is still pending.
GiveUp(x) ==
    LET r == executor[x].refund IN
    /\ executor[x].pc = "giving_up"
    /\ ~ RowLocked(r)
    /\ refund' = IF refund[r] = "pending"
                 THEN [refund EXCEPT ![r] = "failed"]
                 ELSE refund
    /\ executor' = [executor EXCEPT ![x] = Idle]
    /\ UNCHANGED <<rowVars, payment, amount, ledger, old, queueVars, creditVars,
                   moved, retries, faults>>

\* The executor's process dies; an open transaction rolls back.  The queue
\* notices a job that stalled and hands it out again, or drops it.
Dies(x) ==
    /\ executor[x] # Idle
    /\ faults < MaxFaults
    /\ faults' = faults + 1
    /\ executor' = [executor EXCEPT ![x] = Idle]
    /\ IF executor[x].holdsJob
       THEN /\ \E s \in {"waiting", "none"} : job' = [job EXCEPT ![executor[x].refund] = s]
            /\ UNCHANGED tries
       ELSE UNCHANGED queueVars
    /\ UNCHANGED <<rowVars, tableVars, creditVars, moved, retries>>

\* A worker too busy to renew its lock loses the job to another while it runs on.
Stalls(w) ==
    /\ executor[w].holdsJob
    /\ faults < MaxFaults
    /\ faults' = faults + 1
    /\ executor' = [executor EXCEPT ![w].holdsJob = FALSE]
    /\ job' = [job EXCEPT ![executor[w].refund] = "waiting"]
    /\ UNCHANGED <<rowVars, tableVars, tries, creditVars, moved, retries>>

-----------------------------------------------------------------------------
Step(x) == \/ LoadRefund(x) \/ CallGateway(x) \/ OpenRecord(x)
           \/ CommitRecord(x) \/ GiveUp(x)

\* Everything but cancellation, which module Cancellation refines.
Pipeline ==
    \/ \E b \in Bookings : \/ ConfirmOrder(b) \/ FailOrder(b) \/ CaptureAgain(b)
                          \/ \E a \in Admins, n \in 1 .. Total : AdminChecks(a, b, n)
    \/ \E a \in Admins : AdminInserts(a)
    \/ \E r \in RefundIds : \/ RetryRefund(r) \/ GrowsOld(r) \/ Requeue(r)
                           \/ \E w \in Workers : TakeJob(w, r)
    \/ \E x \in Executors : Step(x) \/ Dies(x)
    \/ \E w \in Workers : Stalls(w)

Next == Pipeline \/ \E b \in Bookings : CancelBooking(b)

Spec == Init /\ [][Next]_vars

\* A process that is alive finishes what it started, the queue hands its jobs
\* out, and the sweep runs every five minutes.
Fairness ==
    /\ \A x \in Executors : WF_vars(Step(x))
    /\ \A a \in Admins : WF_vars(AdminInserts(a))
    /\ \A r \in RefundIds : /\ SF_vars(\E w \in Workers : TakeJob(w, r))
                           /\ WF_vars(GrowsOld(r))
                           /\ WF_vars(Requeue(r))

FairSpec == Spec /\ Fairness
-----------------------------------------------------------------------------
TypeOK ==
    /\ status \in [Bookings -> BookingStatus]
    /\ history \in [Bookings -> Seq(HistoryRows)]
    /\ payment \in [Bookings -> {"succeeded", "partially_refunded", "refunded"}]
    /\ refund \in [RefundIds -> {"none", "pending", "succeeded", "failed"}]
    /\ amount \in [RefundIds -> 0 .. Total]
    /\ ledger \in [RefundIds -> Nat]
    /\ old \in [RefundIds -> BOOLEAN]
    /\ job \in [RefundIds -> {"none", "waiting", "active"}]
    /\ tries \in [RefundIds -> 0 .. MaxTries - 1]
    /\ executor \in [Executors ->
          [pc : {"idle", "inserting", "loading", "calling", "recording",
                 "committing", "giving_up"},
           refund : RefundIds \union {NoRefund},
           amount : 0 .. Total,
           covered : BOOLEAN,
           closable : BOOLEAN,
           holdsJob : BOOLEAN]]
    /\ captures \in [Bookings -> 1 .. MaxCaptures]
    /\ overtaken \in [Bookings -> BOOLEAN]
    /\ moved \in [RefundIds -> Nat]
    /\ retries \in 0 .. MaxRetries
    /\ faults \in Nat

One(P) == IF P THEN 1 ELSE 0

\* However many runs execute a refund at once, it is recorded once: one
\* gateway_refund ledger row for a succeeded refund and none for any other, and
\* a succeeded refund was paid out at the gateway.
RecordedOnce ==
    \A r \in RefundIds :
        /\ ledger[r] = One(refund[r] = "succeeded")
        /\ refund[r] = "succeeded" => moved[r] >= 1

\* A payment or a booking reads refunded only when succeeded refunds cover the
\* payment, and the payment's status moves with the first of them.  Where the
\* gateway captured it once, a refunded booking has a refunded payment, and a
\* payment with a succeeded refund does not read succeeded; the callback of a second
\* captured attempt writes succeeded over whatever the refunds left there
\* (payment-webhook.processor.ts:188).
RollupIsSupported ==
    \A b \in Bookings :
        /\ "refunded" \in {payment[b], status[b]} => AmountOf(SucceededRows(b)) >= Total
        /\ SucceededRows(b) = {} => payment[b] = "succeeded"
        /\ captures[b] = 1 =>
              /\ status[b] = "refunded" => payment[b] = "refunded"
              /\ payment[b] = "succeeded" => SucceededRows(b) = {}

\* A refund row moves only from pending to an outcome and, by an admin's retry,
\* from failed back to pending; a succeeded one never changes again, and the
\* amount is fixed when the row is committed.
RowsMoveForward ==
    [][\A r \in RefundIds :
          /\ refund'[r] # refund[r] =>
                <<refund[r], refund'[r]>> \in
                    {<<"none", "pending">>, <<"pending", "succeeded">>,
                     <<"pending", "failed">>, <<"failed", "pending">>}
          /\ refund[r] # "none" => amount'[r] = amount[r]]_vars

\* The gateway does not know our refund ids and pays whatever it is asked to, so
\* only the job id, the row's status and the age of a requeued row keep it from
\* being asked twice: every payout of a refund beyond its first has a crash, a
\* stall, a lost answer, a recording that threw or an admin's retry behind it.
PayoutsHaveACause == \A r \in RefundIds : moved[r] <= 1 + faults + retries

\* A cancelled or failed booking is closed with the refund that covers its payment,
\* however many of them are recorded at once.  The booking is read without a lock:
\* one that failed or was cancelled after that read, or over a payment refunded
\* before, stays as it is with nobody left to close it.
CoveredBookingIsClosed ==
    \A b \in Bookings :
        /\ payment[b] = "refunded"
        /\ status[b] \in {"cancelled", "order_failed"}
        => overtaken[b]

\* A committed refund is never lost: whatever happens to the queue, the workers
\* and the gateway, it succeeds or fails visibly ("a gateway outage can never
\* lose the obligation to refund").
PendingIsResolved ==
    \A r \in RefundIds : refund[r] = "pending" ~> refund[r] \in {"succeeded", "failed"}

\* Every change of status here is a legal transition with its history row, from a
\* paid booking on.
Lifecycle == INSTANCE BookingLifecycle
ImplementsLifecycle == Lifecycle!Resumed
=============================================================================
