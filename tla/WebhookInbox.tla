----------------------------- MODULE WebhookInbox -----------------------------
(***************************************************************************)
(* Paymob's callbacks, from the gateway to the books.  A gateway order, the *)
(* one of a payment attempt, can be tried several times: declined tries and *)
(* at most one that is captured.  Each try sends a pending and a final      *)
(* callback, in any order and any number of times, and the worker applies   *)
(* each stored one in a transaction of its own.  The refund side later      *)
(* reads the gateway's transaction id back from the stored event, which the *)
(* retention job deletes.                                                   *)
(***************************************************************************)
EXTENDS BookingRows, Inbox

CONSTANTS
    Attempts,   \* payment_attempts rows, one Paymob order each
    Tries,      \* gateway transactions
    AttemptOf,  \* the attempt whose Paymob order a try pays
    BookingOf,  \* the booking an attempt's payment belongs to
    Deletable,  \* bound: events whose rows grow old enough for the retention
    MaxDeletions    \* bound: rows of one event the retention deletes

ASSUME WebhookAssumption ==
    /\ Events \subseteq Tries \X {"pending", "final"}
    /\ \A t \in Tries : <<t, "final">> \in Events
    /\ AttemptOf \in [Tries -> Attempts]
    /\ BookingOf \in [Attempts -> Bookings]
    /\ Deletable \subseteq Events /\ MaxDeletions \in Nat

VARIABLES
    payment,    \* payments.status of the booking's one payment
    attempt,    \* payment_attempts.status
    ledger,     \* ledger rows of type customer_payment
    due,        \* order jobs to be added, their transaction being committed
    orderJobs,  \* create_duffel_order jobs added
    deleted,    \* rows of an event the retention has deleted so far
    charge      \* external: what became of a try

bookVars == <<payment, attempt, ledger>>
vars == <<rowVars, inboxVars, bookVars, due, orderJobs, deleted, charge>>

Payer(t) == BookingOf[AttemptOf[t]]
Final(t) == <<t, "final">>

Init ==
    /\ InboxInit
    /\ status = [b \in Bookings |-> "awaiting_payment"]
    /\ history = [b \in Bookings |-> <<HistoryRow("pending", "pending"),
                                       HistoryRow("pending", "awaiting_payment")>>]
    /\ payment = [b \in Bookings |-> "pending"]
    /\ attempt = [a \in Attempts |-> "requires_action"]
    /\ ledger = [b \in Bookings |-> 0]
    /\ due = [b \in Bookings |-> 0]
    /\ orderJobs = [b \in Bookings |-> 0]
    /\ deleted = [e \in Events |-> 0]
    /\ charge = [t \in Tries |-> "open"]

-----------------------------------------------------------------------------
(* External: the gateway, and the rest of the booking's life. *)

\* A try is declined or captured; a Paymob order is captured once.
GatewaySettles(t) ==
    /\ charge[t] = "open"
    /\ \A u \in Tries : AttemptOf[u] = AttemptOf[t] => charge[u] # "captured"
    /\ \E fate \in {"captured", "declined"} : charge' = [charge EXCEPT ![t] = fate]
    /\ UNCHANGED <<rowVars, inboxVars, bookVars, due, orderJobs, deleted>>

\* The expiry sweep fails the booking; once paid, its order is confirmed (that it
\* may fail instead makes no difference here).
Elsewhere(b) ==
    /\ \E to \in {"failed", "confirmed"} :
          /\ status[b] # to
          /\ TransitionTo(b, to)
    /\ UNCHANGED <<inboxVars, bookVars, due, orderJobs, deleted, charge>>

-----------------------------------------------------------------------------
(* handlePaymobWebhook: the HMAC has been verified. *)

\* The gateway sends a callback it has reached, for the first time or again.
Deliver(q, e) ==
    /\ e[2] = "final" => charge[e[1]] # "open"
    /\ Lookup(q, e)
    /\ UNCHANGED <<rowVars, bookVars, due, orderJobs, deleted, charge>>

Answer(q) ==
    /\ SaveEvent(q) \/ QueueEvent(q) \/ RequestFails(q)
    /\ UNCHANGED <<rowVars, bookVars, due, orderJobs, deleted, charge>>

Sweep(e) ==
    /\ SweepEvent(e)
    /\ UNCHANGED <<rowVars, bookVars, due, orderJobs, deleted, charge>>

-----------------------------------------------------------------------------
(* processEvent: one transaction under the locks of the event and the booking. *)

\* A job of the event is taken from the queue; it is not tried again.
TakeJob(e) == jobs[e] > 0 /\ jobs' = [jobs EXCEPT ![e] = @ - 1]

MarkProcessed(e) == table' = [table EXCEPT ![e] = "processed"]

\* The outcome of a captured try, when the booking may become, or is, paid.
Credit(t) ==
    LET b == Payer(t) IN
    /\ TransitionTo(b, "paid")
    /\ attempt' = [attempt EXCEPT ![AttemptOf[t]] = "succeeded"]
    /\ payment' = [payment EXCEPT ![b] = "succeeded"]
    /\ ledger' = [ledger EXCEPT ![b] = @ + 1]

MayCredit(t) == status[Payer(t)] \in {"awaiting_payment", "paid"}

\* Variant: the processed_at check is left out.
ProcessCaptured_NoDedupe(t) ==
    /\ TakeJob(Final(t))
    /\ Kept(Final(t))
    /\ charge[t] = "captured"
    /\ IF MayCredit(t)
       THEN /\ Credit(t)
            /\ MarkProcessed(Final(t))
            /\ due' = [due EXCEPT ![Payer(t)] = @ + 1]
       ELSE UNCHANGED <<rowVars, bookVars, table, due>>
    /\ UNCHANGED <<request, acked, faults, orderJobs, deleted, charge>>

\* Variant: the order job is added before the transaction is known to commit.
ProcessCaptured_QueuesInside(t) ==
    /\ TakeJob(Final(t))
    /\ table[Final(t)] = "stored"
    /\ charge[t] = "captured"
    /\ orderJobs' = [orderJobs EXCEPT ![Payer(t)] = IF @ < 3 THEN @ + 1 ELSE @]
    /\ IF MayCredit(t)
       THEN Credit(t) /\ MarkProcessed(Final(t))
       ELSE UNCHANGED <<rowVars, bookVars, table>>
    /\ UNCHANGED <<request, acked, faults, due, deleted, charge>>

\* Variant: the attempt is saved outside the transaction that transitionTo rolls
\* back.
ProcessCaptured_SavesAttempt(t) ==
    /\ TakeJob(Final(t))
    /\ table[Final(t)] = "stored"
    /\ charge[t] = "captured"
    /\ IF MayCredit(t)
       THEN /\ Credit(t)
            /\ MarkProcessed(Final(t))
            /\ due' = [due EXCEPT ![Payer(t)] = @ + 1]
       ELSE /\ attempt' = [attempt EXCEPT ![AttemptOf[t]] = "succeeded"]
            /\ UNCHANGED <<rowVars, payment, ledger, table, due>>
    /\ UNCHANGED <<request, acked, faults, orderJobs, deleted, charge>>

\* transaction.succeeded.  A booking that has left the pay step makes
\* transitionTo throw: the transaction rolls back and the event stays stored.
\* The caller adds the order job after the commit.
ProcessCaptured(t) ==
    /\ TakeJob(Final(t))
    /\ table[Final(t)] = "stored"
    /\ charge[t] = "captured"
    /\ IF MayCredit(t)
       THEN /\ Credit(t)
            /\ MarkProcessed(Final(t))
            /\ due' = [due EXCEPT ![Payer(t)] = @ + 1]
       ELSE UNCHANGED <<rowVars, bookVars, table, due>>
    /\ UNCHANGED <<request, acked, faults, orderJobs, deleted, charge>>

\* transaction.failed: the attempt is failed, whatever another try of the same
\* gateway order has made of it; the booking stays payable.
ProcessDeclined(t) ==
    /\ TakeJob(Final(t))
    /\ table[Final(t)] = "stored"
    /\ charge[t] = "declined"
    /\ attempt' = [attempt EXCEPT ![AttemptOf[t]] = "failed"]
    /\ MarkProcessed(Final(t))
    /\ UNCHANGED <<rowVars, payment, ledger, request, acked, faults, due, orderJobs,
                   deleted, charge>>

\* transaction.pending carries no outcome.
ProcessPending(e) ==
    /\ e[2] = "pending"
    /\ TakeJob(e)
    /\ table[e] = "stored"
    /\ MarkProcessed(e)
    /\ UNCHANGED <<rowVars, bookVars, request, acked, faults, due, orderJobs, deleted, charge>>

\* The job of an event that has been processed, or pruned, changes nothing.
SkipJob(e) ==
    /\ TakeJob(e)
    /\ table[e] # "stored"
    /\ UNCHANGED <<rowVars, bookVars, table, request, acked, faults, due, orderJobs, deleted, charge>>

\* The worker dies, or the database fails it, before the commit: the job is
\* lost and the event stays stored.
JobFails(e) ==
    /\ TakeJob(e)
    /\ Fault
    /\ UNCHANGED <<rowVars, bookVars, table, request, acked, due, orderJobs, deleted, charge>>

\* After the commit, the order job is added, or a crash loses it and leaves the
\* booking to the reconciliation sweep.
QueueOrder(b) ==
    /\ due[b] > 0
    /\ due' = [due EXCEPT ![b] = @ - 1]
    /\ \/ orderJobs' = [orderJobs EXCEPT ![b] = @ + 1] /\ UNCHANGED faults
       \/ Fault /\ UNCHANGED orderJobs
    /\ UNCHANGED <<rowVars, table, jobs, request, acked, bookVars, deleted, charge>>

-----------------------------------------------------------------------------
(* pruneOldWebhookEvents, and the refund side's way back to the gateway. *)

\* A processed event is 90 days old.  No request or job of it is still under way.
Prune(e) ==
    /\ table[e] = "processed"
    /\ e \in Deletable /\ deleted[e] < MaxDeletions
    /\ jobs[e] = 0
    /\ \A q \in Requests : request[q].event # e
    /\ table' = [table EXCEPT ![e] = "pruned"]
    /\ deleted' = [deleted EXCEPT ![e] = @ + 1]
    /\ UNCHANGED <<rowVars, bookVars, jobs, request, acked, faults, due, orderJobs, charge>>

\* resolvePaymobTransactionId finds one of these, or throws.  Only a processed
\* event has its payment_id.
RefundableTries(b) == {t \in Tries : /\ Payer(t) = b
                                     /\ charge[t] = "captured"
                                     /\ table[Final(t)] = "processed"}

-----------------------------------------------------------------------------
Next ==
    \/ \E t \in Tries : GatewaySettles(t) \/ ProcessCaptured(t) \/ ProcessDeclined(t)
    \/ \E b \in Bookings : Elsewhere(b) \/ QueueOrder(b)
    \/ \E q \in Requests : Answer(q) \/ \E e \in Events : Deliver(q, e)
    \/ \E e \in Events : \/ Sweep(e) \/ ProcessPending(e) \/ SkipJob(e)
                         \/ JobFails(e) \/ Prune(e)

Spec == Init /\ [][Next]_vars

\* The sweep runs every minute, and a worker that can take a job takes it.
Fairness ==
    /\ \A e \in Events : WF_vars(jobs[e] = 0 /\ Sweep(e)) /\ WF_vars(ProcessPending(e))
    /\ \A t \in Tries : WF_vars(ProcessCaptured(t) \/ ProcessDeclined(t))

FairSpec == Spec /\ Fairness

-----------------------------------------------------------------------------
TypeOK ==
    /\ InboxTypeOK
    /\ status \in [Bookings -> BookingStatus]
    /\ history \in [Bookings -> Seq(HistoryRows)]
    /\ payment \in [Bookings -> {"pending", "succeeded"}]
    /\ attempt \in [Attempts -> {"requires_action", "succeeded", "failed"}]
    /\ ledger \in [Bookings -> Nat]
    /\ due \in [Bookings -> Nat]
    /\ orderJobs \in [Bookings -> Nat]
    /\ deleted \in [Events -> 0 .. MaxDeletions]
    /\ charge \in [Tries -> {"open", "captured", "declined"}]

\* The rows a try's final callback has had, or has, in the table, by the number of
\* rows deleted before; and those of a captured try that have been processed.
Rows == Tries \X (0 .. MaxDeletions)
Credited == {r \in Rows : /\ charge[r[1]] = "captured"
                          /\ \/ r[2] < deleted[Final(r[1])]
                             \/ r[2] = deleted[Final(r[1])] /\ table[Final(r[1])] = "processed"}

\* Deliveries, jobs of the controller, jobs of the sweep and failing workers can
\* repeat anything, and still each captured try is credited to its booking's
\* ledger once (nfr.md section 5: "Webhook processing idempotent"); only for a row
\* stored anew after the retention deleted the one before it is credited again.
Book == INSTANCE ExactlyOnce WITH
            Events <- Rows,
            Accounts <- Bookings,
            AccountOf <- [r \in Rows |-> Payer(r[1])],
            applied <- Credited,
            credit <- ledger
CreditsOnce == Book!Spec

\* The order job follows the commit: each one goes back to a ledger row of its
\* own, so a rolled back transaction has never sent a worker to Duffel
\* (processor lines 46-51).
OrdersFollowCredits == \A b \in Bookings : orderJobs[b] + due[b] <= ledger[b]

\* A row of the try's final callback has been processed, and may be deleted since.
Told(t) == table[Final(t)] = "processed" \/ deleted[Final(t)] > 0

\* An attempt tells what became of its gateway order as far as the callbacks told:
\* it has succeeded only on a capture that was credited, has failed only on a
\* declined try, and is open only while no callback of it has been applied.  Tries
\* are reported in any order, capture and booking may part, rows are deleted and
\* come back; the last one applied has the say (processor lines 188 and 206).
AttemptTellsItsTries ==
    \A a \in Attempts :
        LET told(fate) == \E t \in Tries : /\ AttemptOf[t] = a /\ Told(t)
                                            /\ charge[t] = fate
        IN  CASE attempt[a] = "succeeded" -> told("captured")
              [] attempt[a] = "failed" -> told("declined")
              [] OTHER -> ~ told("captured") /\ ~ told("declined")

\* What the gateway was told is received, and will not send again, and what is
\* stored without its having been told, is processed in the end, through failing
\* requests and jobs; unless it is the capture of a booking that may no longer be
\* paid (nfr.md section 5: "eventually complete").
AckedIsProcessed ==
    \A e \in Events :
        e \in acked \/ table[e] = "stored" ~>
            \/ table[e] \in {"processed", "pruned"}
            \/ charge[e[1]] = "captured" /\ ~ MayCredit(e[1])

\* What resolvePaymobTransactionId relies on ("it is read back from the stored
\* transaction.succeeded webhook event"): a succeeded payment has its event.
RefundFindsItsTransaction ==
    \A b \in Bookings : payment[b] = "succeeded" => RefundableTries(b) # {}
=============================================================================
