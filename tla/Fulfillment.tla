---------------------------- MODULE Fulfillment ----------------------------
(***************************************************************************)
(* From the pay step to the ticket.  A booking in awaiting_payment is paid *)
(* through gateway callbacks; the payment processor makes it paid and      *)
(* queues an order job; the job POSTs the order to Duffel.  Because Duffel *)
(* accepts no idempotency key, the answer may be lost, so two more paths   *)
(* lead out of paid: the order.created webhook and the reconciliation      *)
(* sweep.  All three apply their outcome through                           *)
(* FulfillmentOutcomeService, one database transaction per step here.      *)
(*                                                                         *)
(* External: the payment gateway (charge) and Duffel (order).  Everything  *)
(* kept in process memory (worker, sweep, mailDue) can be lost at any      *)
(* point; tables and the Redis queue survive.                              *)
(***************************************************************************)
EXTENDS BookingRows, FiniteSets

CONSTANTS
    Attempts,       \* payment_attempts rows, one Paymob order each
    Transactions,   \* gateway transactions: tries of a card on a Paymob order
    AttemptOf,      \* the attempt whose Paymob order a transaction pays
    BookingOf,      \* the booking whose payment an attempt belongs to
    Workers,        \* processes that run create_duffel_order jobs
    NoBooking,
    MaxPosts,       \* bound: order POSTs per booking
    MaxStalls       \* bound: jobs the queue hands out again after a crash

ASSUME ConstantsAssumption ==
    /\ AttemptOf \in [Transactions -> Attempts]
    /\ BookingOf \in [Attempts -> Bookings]
    /\ NoBooking \notin Bookings
    /\ MaxPosts \in Nat
    /\ MaxStalls \in Nat

VARIABLES
    payment,            \* payments.status of the booking's one payment
    attempt,            \* payment_attempts.status
    inbox,              \* payment_webhook_events: absent, stored or processed
    customerPayments,   \* ledger rows of type customer_payment
    supplierCharges,    \* ledger rows of type supplier_charge
    documents,          \* sets of document rows written for the booking
    refunds,            \* full refunds committed for the booking
    supplierOrder,      \* bookings.supplier_order_id, 0 for null
    stale,              \* updated_at is older than the reconciliation window
    blind,              \* history: something of the booking was still under way
                        \* when the sweep last read that it has no order
    crowded,            \* external: the account has outgrown the sweep's page cap
    jobs,               \* create_duffel_order jobs waiting in Redis
    stalls,             \* jobs handed out a second time so far
    worker,             \* what each worker is doing
    sweep,              \* what the reconciliation sweep is doing
    mailDue,            \* confirmation emails about to be sent
    emails,             \* confirmation emails handed to the mail provider
    supplierInbox,      \* supplier_webhook_events of type order.created
    charge,             \* external: fate of a gateway transaction
    posts,              \* external: order POSTs Duffel has received
    order               \* external: what became of each POST

tableVars   == <<payment, attempt, customerPayments, supplierCharges,
                 documents, refunds, supplierOrder>>
queueVars   == <<jobs, stalls>>
memoryVars  == <<worker, sweep, mailDue>>
outsideVars == <<charge, posts, order, emails>>
windowVars  == <<stale, blind, crowded>>
vars == <<rowVars, tableVars, queueVars, memoryVars, outsideVars,
          inbox, supplierInbox, windowVars>>

OrderIds == Bookings \X (1 .. MaxPosts)

\* The booking that pays with gateway transaction t.
Payer(t) == BookingOf[AttemptOf[t]]

Idle == [pc |-> "idle", booking |-> NoBooking, order |-> 0]

Init ==
    /\ status = [b \in Bookings |-> "awaiting_payment"]
    /\ history = [b \in Bookings |-> <<HistoryRow("pending", "pending"),
                                       HistoryRow("pending", "awaiting_payment")>>]
    /\ payment = [b \in Bookings |-> "pending"]
    /\ attempt = [a \in Attempts |-> "requires_action"]
    /\ inbox = [t \in Transactions |-> "none"]
    /\ customerPayments = [b \in Bookings |-> 0]
    /\ supplierCharges = [b \in Bookings |-> 0]
    /\ documents = [b \in Bookings |-> 0]
    /\ refunds = [b \in Bookings |-> 0]
    /\ supplierOrder = [b \in Bookings |-> 0]
    /\ stale = [b \in Bookings |-> FALSE]
    /\ blind = [b \in Bookings |-> FALSE]
    /\ crowded = FALSE
    /\ jobs = [b \in Bookings |-> 0]
    /\ stalls = 0
    /\ worker = [w \in Workers |-> Idle]
    /\ sweep = Idle
    /\ mailDue = [b \in Bookings |-> 0]
    /\ emails = [b \in Bookings |-> 0]
    /\ supplierInbox = [o \in OrderIds |-> "none"]
    /\ charge = [t \in Transactions |-> "open"]
    /\ posts = [b \in Bookings |-> 0]
    /\ order = [o \in OrderIds |-> "none"]

-----------------------------------------------------------------------------
(* The payment gateway and its callback. *)

\* External: the customer's card is captured or declined.  The payment key of
\* an attempt keeps working whatever happened to the booking meanwhile, until
\* its Paymob order is paid.
GatewaySettles(t) ==
    /\ charge[t] = "open"
    /\ \A u \in Transactions : AttemptOf[u] = AttemptOf[t] => charge[u] # "captured"
    /\ \E fate \in {"captured", "declined"} : charge' = [charge EXCEPT ![t] = fate]
    /\ UNCHANGED <<rowVars, tableVars, queueVars, memoryVars, posts, order,
                   emails, inbox, supplierInbox, windowVars>>

\* The callback controller stores the event once (unique event id); a repeated
\* delivery is acknowledged and changes nothing.
ReceivePaymentCallback(t) ==
    /\ charge[t] # "open"
    /\ inbox[t] = "none"
    /\ inbox' = [inbox EXCEPT ![t] = "stored"]
    /\ UNCHANGED <<rowVars, tableVars, queueVars, memoryVars, outsideVars,
                   supplierInbox, windowVars>>

\* processEvent, transaction.succeeded: one transaction, T4 included.  The
\* order job is added after the commit, so a crash in between loses it.  When
\* the booking may not become paid, transitionTo throws, the transaction rolls
\* back and the event stays unprocessed for the next sweep.
ProcessCaptured(t) ==
    LET b == Payer(t) IN
    /\ inbox[t] = "stored"
    /\ charge[t] = "captured"
    /\ TransitionTo(b, "paid")
    /\ attempt' = [attempt EXCEPT ![AttemptOf[t]] = "succeeded"]
    /\ payment' = [payment EXCEPT ![b] = "succeeded"]
    /\ customerPayments' = [customerPayments EXCEPT ![b] = @ + 1]
    /\ inbox' = [inbox EXCEPT ![t] = "processed"]
    /\ \/ jobs' = [jobs EXCEPT ![b] = @ + 1]
       \/ UNCHANGED jobs
    /\ UNCHANGED <<supplierCharges, documents, refunds, supplierOrder, stalls,
                   memoryVars, outsideVars, supplierInbox, windowVars>>

\* processEvent, transaction.failed: the booking stays payable.
ProcessDeclined(t) ==
    /\ inbox[t] = "stored"
    /\ charge[t] = "declined"
    /\ attempt' = [attempt EXCEPT ![AttemptOf[t]] = "failed"]
    /\ inbox' = [inbox EXCEPT ![t] = "processed"]
    /\ UNCHANGED <<rowVars, payment, customerPayments, supplierCharges, documents,
                   refunds, supplierOrder, queueVars, memoryVars, outsideVars,
                   supplierInbox, windowVars>>

\* Variant: the sweep writes the status it decided on from its unlocked read.
ExpireBooking_Unlocked(b) ==
    /\ status[b] \in {"awaiting_payment", "paid"}
    /\ status' = [status EXCEPT ![b] = "failed"]
    /\ history' = [history EXCEPT ![b] = Append(@, HistoryRow(status[b], "failed"))]
    /\ UNCHANGED <<tableVars, queueVars, memoryVars, outsideVars, inbox,
                   supplierInbox, windowVars>>

\* The expiry sweep: the offer of an unpaid booking may run out at any time.
ExpireBooking(b) ==
    /\ status[b] = "awaiting_payment"
    /\ TransitionTo(b, "failed")
    /\ UNCHANGED <<tableVars, queueVars, memoryVars, outsideVars, inbox,
                   supplierInbox, windowVars>>
-----------------------------------------------------------------------------
(* FulfillmentOutcomeService: the only two ways out of paid. *)

\* Variant: relies on transitionTo alone, whose replay is not an error.
ConfirmPaidBooking_NoRecheck(b, n) ==
    \/ /\ status[b] \in {"paid", "confirmed"}
       /\ TransitionTo(b, "confirmed")
       /\ supplierOrder' = [supplierOrder EXCEPT ![b] = n]
       /\ supplierCharges' = [supplierCharges EXCEPT ![b] = @ + 1]
       /\ documents' = [documents EXCEPT ![b] = @ + 1]
       /\ mailDue' = [mailDue EXCEPT ![b] = @ + 1]
       /\ UNCHANGED refunds
    \/ /\ status[b] \notin {"paid", "confirmed"}
       /\ UNCHANGED <<rowVars, supplierOrder, supplierCharges, documents, mailDue,
                      refunds>>

\* Variant: the order is linked before the status is looked at.
ConfirmPaidBooking_LinksFirst(b, n) ==
    /\ supplierOrder' = [supplierOrder EXCEPT ![b] = n]
    /\ UNCHANGED refunds
    /\ \/ /\ status[b] = "paid"
          /\ TransitionTo(b, "confirmed")
          /\ supplierCharges' = [supplierCharges EXCEPT ![b] = @ + 1]
          /\ documents' = [documents EXCEPT ![b] = @ + 1]
          /\ mailDue' = [mailDue EXCEPT ![b] = @ + 1]
       \/ /\ status[b] # "paid"
          /\ UNCHANGED <<rowVars, supplierCharges, documents, mailDue>>

\* Variant: every path mails, whether or not it was the one that confirmed.
ConfirmPaidBooking_MailsReplay(b, n) ==
    /\ mailDue' = [mailDue EXCEPT ![b] = @ + 1]
    /\ UNCHANGED refunds
    /\ \/ /\ status[b] = "paid"
          /\ TransitionTo(b, "confirmed")
          /\ supplierOrder' = [supplierOrder EXCEPT ![b] = n]
          /\ supplierCharges' = [supplierCharges EXCEPT ![b] = @ + 1]
          /\ documents' = [documents EXCEPT ![b] = @ + 1]
       \/ /\ status[b] # "paid"
          /\ UNCHANGED <<rowVars, supplierOrder, supplierCharges, documents>>

\* confirmPaidBooking (T5): under the row lock, a booking still paid gets its
\* order, the history row, one supplier charge and one set of documents, and
\* the caller goes on to mail the ticket; otherwise nothing is written.
ConfirmPaidBooking(b, n) ==
    \/ /\ status[b] = "paid"
       /\ TransitionTo(b, "confirmed")
       /\ supplierOrder' = [supplierOrder EXCEPT ![b] = n]
       /\ supplierCharges' = [supplierCharges EXCEPT ![b] = @ + 1]
       /\ documents' = [documents EXCEPT ![b] = @ + 1]
       /\ mailDue' = [mailDue EXCEPT ![b] = @ + 1]
       /\ UNCHANGED refunds
    \/ /\ status[b] # "paid"
       /\ UNCHANGED <<rowVars, supplierOrder, supplierCharges, documents, mailDue,
                      refunds>>

\* failPaidBookingAndRefund (T6): a booking still paid becomes order_failed and,
\* when its payment stands, the full refund is committed with it.
FailPaidBookingAndRefund(b) ==
    \/ /\ status[b] = "paid"
       /\ TransitionTo(b, "order_failed")
       /\ refunds' = IF payment[b] = "succeeded"
                     THEN [refunds EXCEPT ![b] = @ + 1]
                     ELSE refunds
       /\ UNCHANGED <<supplierOrder, supplierCharges, documents, mailDue>>
    \/ /\ status[b] # "paid"
       /\ UNCHANGED <<rowVars, supplierOrder, supplierCharges, documents, mailDue,
                      refunds>>

-----------------------------------------------------------------------------
(* The order job: fulfillOrder. *)

\* A worker takes a job and reads the booking without a lock.  The job of a
\* booking that is not paid ends here.
StartJob(w, b) ==
    /\ worker[w] = Idle
    /\ jobs[b] > 0
    /\ jobs' = [jobs EXCEPT ![b] = @ - 1]
    /\ worker' = IF status[b] = "paid"
                 THEN [worker EXCEPT ![w] =
                          [pc |-> "posting", booking |-> b, order |-> 0]]
                 ELSE worker
    /\ UNCHANGED <<rowVars, tableVars, stalls, sweep, mailDue, outsideVars, inbox,
                   supplierInbox, windowVars>>

\* Variant: a timeout is retried by the worker.
PostOrder_RetriesTimeout(w) ==
    LET b == worker[w].booking
        n == posts[b] + 1
    IN  /\ worker[w].pc = "posting"
        /\ posts[b] < MaxPosts
        /\ posts' = [posts EXCEPT ![b] = n]
        /\ \E fate \in {"live", "inflight", "refused"} :
              order' = [order EXCEPT ![<<b, n>>] = fate]
        /\ UNCHANGED <<rowVars, tableVars, queueVars, memoryVars, charge, emails,
                       inbox, supplierInbox, windowVars>>

\* createOrder: the POST and what the worker learns of it.  A 2xx carries the
\* order and a 4xx proves there is none.  Anything else (a timeout, a 5xx, an
\* unreadable body) tells nothing: Duffel may have created the order, may yet
\* create it, or may never do so, and the job ends with the booking in paid.
PostOrder(w) ==
    LET b == worker[w].booking
        n == posts[b] + 1
    IN  /\ worker[w].pc = "posting"
        /\ posts[b] < MaxPosts
        /\ posts' = [posts EXCEPT ![b] = n]
        /\ \/ /\ order' = [order EXCEPT ![<<b, n>>] = "live"]
              /\ worker' = [worker EXCEPT ![w] =
                               [pc |-> "created", booking |-> b, order |-> n]]
           \/ /\ order' = [order EXCEPT ![<<b, n>>] = "refused"]
              /\ worker' = [worker EXCEPT ![w] =
                               [pc |-> "rejected", booking |-> b, order |-> 0]]
           \/ /\ \E fate \in {"live", "inflight", "refused"} :
                    order' = [order EXCEPT ![<<b, n>>] = fate]
              /\ worker' = [worker EXCEPT ![w] = Idle]
        /\ UNCHANGED <<rowVars, tableVars, queueVars, sweep, mailDue, charge, emails,
                       inbox, supplierInbox, windowVars>>

\* handleOrderSuccess
JobConfirms(w) ==
    /\ worker[w].pc = "created"
    /\ ConfirmPaidBooking(worker[w].booking, worker[w].order)
    /\ worker' = [worker EXCEPT ![w] = Idle]
    /\ UNCHANGED <<payment, attempt, customerPayments, queueVars, sweep, outsideVars,
                   inbox, supplierInbox, windowVars>>

\* handleDefinitiveFailure
JobFails(w) ==
    /\ worker[w].pc = "rejected"
    /\ FailPaidBookingAndRefund(worker[w].booking)
    /\ worker' = [worker EXCEPT ![w] = Idle]
    /\ UNCHANGED <<payment, attempt, customerPayments, queueVars, sweep, outsideVars,
                   inbox, supplierInbox, windowVars>>

\* The process dies, or the database fails it, between two steps of a job.
\* Jobs have one attempt, but BullMQ hands a stalled job out once more.
WorkerDies(w) ==
    /\ worker[w] # Idle
    /\ worker' = [worker EXCEPT ![w] = Idle]
    /\ \/ UNCHANGED queueVars
       \/ /\ stalls < MaxStalls
          /\ stalls' = stalls + 1
          /\ jobs' = [jobs EXCEPT ![worker[w].booking] = @ + 1]
    /\ UNCHANGED <<rowVars, tableVars, sweep, mailDue, outsideVars, inbox,
                   supplierInbox, windowVars>>

-----------------------------------------------------------------------------
(* Duffel, and its order.created webhook. *)

\* External: a POST whose answer was lost takes effect, or never does.
DuffelSettles(o) ==
    /\ order[o] = "inflight"
    /\ \E fate \in {"live", "refused"} : order' = [order EXCEPT ![o] = fate]
    /\ UNCHANGED <<rowVars, tableVars, queueVars, memoryVars, charge, posts, emails,
                   inbox, supplierInbox, windowVars>>

\* The Duffel controller stores the order.created event once.
ReceiveOrderCreated(o) ==
    /\ order[o] = "live"
    /\ supplierInbox[o] = "none"
    /\ supplierInbox' = [supplierInbox EXCEPT ![o] = "stored"]
    /\ UNCHANGED <<rowVars, tableVars, queueVars, memoryVars, outsideVars, inbox, windowVars>>

\* handleOrderCreated: the order names its booking through the metadata key; a
\* booking that is not paid any more makes the event a no-op.
ProcessOrderCreated(o) ==
    /\ supplierInbox[o] = "stored"
    /\ ConfirmPaidBooking(o[1], o[2])
    /\ supplierInbox' = [supplierInbox EXCEPT ![o] = "processed"]
    /\ UNCHANGED <<payment, attempt, customerPayments, queueVars, worker, sweep,
                   outsideVars, inbox, windowVars>>

-----------------------------------------------------------------------------
(* The reconciliation sweep. *)

LiveOrders(b) == {n \in 1 .. MaxPosts : order[<<b, n>>] = "live"}

\* Something of the booking may still become an order at Duffel.
UnderWay(b) ==
    \/ jobs[b] > 0
    \/ \E w \in Workers : worker[w].booking = b
    \/ \E n \in 1 .. MaxPosts : order[<<b, n>>] = "inflight"

\* Fifteen minutes pass over a paid booking.  Only updated_at counts: its job may
\* wait, run or have its POST open at Duffel all the same.
WindowCloses(b) ==
    /\ status[b] = "paid"
    /\ ~ stale[b]
    /\ stale' = [stale EXCEPT ![b] = TRUE]
    /\ UNCHANGED <<rowVars, tableVars, queueVars, memoryVars, outsideVars, inbox,
                   supplierInbox, blind, crowded>>

\* External: the account comes to hold more orders than findOrder reads, 40 pages
\* of 50.  It holds them for good.
AccountOutgrowsScan ==
    /\ ~ crowded
    /\ crowded' = TRUE
    /\ UNCHANGED <<rowVars, tableVars, queueVars, memoryVars, outsideVars, inbox,
                   supplierInbox, stale, blind>>

\* Variant: absence is never concluded.
SweepLooksUp_OnlyFinds(b) ==
    /\ sweep = Idle
    /\ status[b] = "paid"
    /\ stale[b]
    /\ \E n \in LiveOrders(b) :
          sweep' = [pc |-> "found", booking |-> b, order |-> n]
    /\ UNCHANGED <<rowVars, tableVars, queueVars, worker, mailDue, outsideVars, inbox,
                   supplierInbox, windowVars>>

\* Variant: a truncated lookup counts as absence.
SweepLooksUp_Truncated(b) ==
    /\ sweep = Idle
    /\ status[b] = "paid"
    /\ stale[b]
    /\ \/ /\ \E n \in LiveOrders(b) :
                sweep' = [pc |-> "found", booking |-> b, order |-> n]
          /\ UNCHANGED blind
       \/ /\ LiveOrders(b) = {} \/ crowded
          /\ sweep' = [pc |-> "absent", booking |-> b, order |-> 0]
          /\ blind' = [blind EXCEPT ![b] = UnderWay(b)]
    /\ UNCHANGED <<rowVars, tableVars, queueVars, worker, mailDue, outsideVars, inbox,
                   supplierInbox, stale, crowded>>

\* reconcileBooking reads Duffel's order list, the newest first: it finds a live
\* order of the booking, or has read the whole list without one.  A lookup that
\* fails, or stops at the page cap, leaves the booking as it is.
SweepLooksUp(b) ==
    /\ sweep = Idle
    /\ status[b] = "paid"
    /\ stale[b]
    /\ \/ /\ \E n \in LiveOrders(b) :
                sweep' = [pc |-> "found", booking |-> b, order |-> n]
          /\ UNCHANGED blind
       \/ /\ LiveOrders(b) = {}
          /\ ~ crowded
          /\ sweep' = [pc |-> "absent", booking |-> b, order |-> 0]
          /\ blind' = [blind EXCEPT ![b] = UnderWay(b)]
    /\ UNCHANGED <<rowVars, tableVars, queueVars, worker, mailDue, outsideVars, inbox,
                   supplierInbox, stale, crowded>>

\* confirmBookingFromOrder
SweepConfirms ==
    /\ sweep.pc = "found"
    /\ ConfirmPaidBooking(sweep.booking, sweep.order)
    /\ sweep' = Idle
    /\ UNCHANGED <<payment, attempt, customerPayments, queueVars, worker, outsideVars,
                   inbox, supplierInbox, windowVars>>

\* Verified absent: fail and refund.
SweepFails ==
    /\ sweep.pc = "absent"
    /\ FailPaidBookingAndRefund(sweep.booking)
    /\ sweep' = Idle
    /\ UNCHANGED <<payment, attempt, customerPayments, queueVars, worker, outsideVars,
                   inbox, supplierInbox, windowVars>>

SweepDies ==
    /\ sweep # Idle
    /\ sweep' = Idle
    /\ UNCHANGED <<rowVars, tableVars, queueVars, worker, mailDue, outsideVars, inbox,
                   supplierInbox, windowVars>>

-----------------------------------------------------------------------------
(* sendConfirmationEmail: best effort, after the commit, never repeated. *)

SendEmail(b) ==
    /\ mailDue[b] > 0
    /\ mailDue' = [mailDue EXCEPT ![b] = @ - 1]
    /\ \/ emails' = [emails EXCEPT ![b] = @ + 1]
       \/ UNCHANGED emails
    /\ UNCHANGED <<rowVars, tableVars, queueVars, worker, sweep, charge, posts, order,
                   inbox, supplierInbox, windowVars>>

-----------------------------------------------------------------------------
Next ==
    \/ \E t \in Transactions : \/ GatewaySettles(t) \/ ReceivePaymentCallback(t)
                              \/ ProcessCaptured(t) \/ ProcessDeclined(t)
    \/ \E b \in Bookings : \/ ExpireBooking(b) \/ WindowCloses(b)
                          \/ SweepLooksUp(b) \/ SendEmail(b)
    \/ \E w \in Workers : \/ \E b \in Bookings : StartJob(w, b)
                         \/ PostOrder(w) \/ JobConfirms(w) \/ JobFails(w)
                         \/ WorkerDies(w)
    \/ \E o \in OrderIds : \/ DuffelSettles(o) \/ ReceiveOrderCreated(o)
                          \/ ProcessOrderCreated(o)
    \/ SweepConfirms \/ SweepFails \/ SweepDies \/ AccountOutgrowsScan

Spec == Init /\ [][Next]_vars
\* What the deployment guarantees: callbacks are redelivered or swept until they
\* are processed, Duffel settles what it received, a worker finishes a step it
\* can take, and the sweep, which runs every two minutes, is not killed at the
\* same point forever.  While the account's orders fit into the page cap it sooner
\* or later reads them all; of an account beyond the cap nothing is assumed.
Fairness ==
    /\ \A t \in Transactions : /\ WF_vars(ReceivePaymentCallback(t))
                              /\ WF_vars(ProcessCaptured(t))
    /\ \A w \in Workers : WF_vars(PostOrder(w) \/ JobConfirms(w) \/ JobFails(w))
    /\ \A o \in OrderIds : WF_vars(DuffelSettles(o))
    /\ \A b \in Bookings : /\ WF_vars(\E w \in Workers : StartJob(w, b))
                          /\ WF_vars(WindowCloses(b))
                          /\ SF_vars(~ crowded /\ SweepLooksUp(b))
    /\ SF_vars(SweepConfirms)
    /\ SF_vars(SweepFails)

FairSpec == Spec /\ Fairness

-----------------------------------------------------------------------------
ProcessStates == [pc : {"idle", "posting", "created", "rejected", "found", "absent"},
                  booking : Bookings \union {NoBooking},
                  order : 0 .. MaxPosts]

TypeOK ==
    /\ status \in [Bookings -> BookingStatus]
    /\ history \in [Bookings -> Seq(HistoryRows)]
    /\ payment \in [Bookings -> {"pending", "succeeded"}]
    /\ attempt \in [Attempts -> {"requires_action", "succeeded", "failed"}]
    /\ inbox \in [Transactions -> {"none", "stored", "processed"}]
    /\ customerPayments \in [Bookings -> Nat]
    /\ supplierCharges \in [Bookings -> Nat]
    /\ documents \in [Bookings -> Nat]
    /\ refunds \in [Bookings -> Nat]
    /\ supplierOrder \in [Bookings -> 0 .. MaxPosts]
    /\ stale \in [Bookings -> BOOLEAN]
    /\ blind \in [Bookings -> BOOLEAN]
    /\ crowded \in BOOLEAN
    /\ jobs \in [Bookings -> Nat]
    /\ stalls \in 0 .. MaxStalls
    /\ worker \in [Workers -> ProcessStates]
    /\ sweep \in ProcessStates
    /\ mailDue \in [Bookings -> Nat]
    /\ emails \in [Bookings -> Nat]
    /\ supplierInbox \in [OrderIds -> {"none", "stored", "processed"}]
    /\ charge \in [Transactions -> {"open", "captured", "declined"}]
    /\ posts \in [Bookings -> 0 .. MaxPosts]
    /\ order \in [OrderIds -> {"none", "inflight", "live", "refused"}]

One(P) == IF P THEN 1 ELSE 0

\* However the job, its re-run, the order.created webhook and the sweep race, a
\* confirmed booking has exactly one supplier charge and one set of documents,
\* an order_failed one exactly one full refund, and no other booking has any
\* (booking_state_machine.md section 4, "This guarantees exactly one ...").
OutcomeAppliedOnce ==
    \A b \in Bookings :
        /\ supplierCharges[b] = One(status[b] = "confirmed")
        /\ documents[b] = One(status[b] = "confirmed")
        /\ refunds[b] = One(status[b] = "order_failed")

\* The order a booking records is one that exists at Duffel and carries this
\* booking's key, and exactly the confirmed bookings record one, even when the
\* order was created after its POST had been given up.
ConfirmedHoldsItsOrder ==
    \A b \in Bookings :
        IF status[b] = "confirmed"
        THEN supplierOrder[b] \in LiveOrders(b)
        ELSE supplierOrder[b] = 0

\* The path that confirms a booking is the one that mails the ticket: never two
\* mails, and none to a customer whose booking was not confirmed.
AtMostOneEmail ==
    \A b \in Bookings : emails[b] + mailDue[b] <= One(status[b] = "confirmed")

\* An order is never POSTed again because paid looks stuck: every POST, running
\* or queued, goes back to a captured payment that was processed or to a job the
\* queue handed out a second time; no path of the sweep or the webhook adds one.
PostsAreAccounted ==
    \A b \in Bookings :
        LET posting == {w \in Workers : /\ worker[w].booking = b
                                         /\ worker[w].pc = "posting"}
        IN  posts[b] + jobs[b] + Cardinality(posting) <= customerPayments[b] + stalls

\* Every change of status is a legal transition written to the history: the
\* races above implement the state machine they share.
Lifecycle == INSTANCE BookingLifecycle
ImplementsLifecycle == Lifecycle!Resumed

\* No booking stays paid for ever while the account's orders fit into the sweep's
\* page cap: if the job is lost or learns nothing, the sweep gets it out ("the
\* reprocessing worker owns getting it out of paid").  Beyond the cap a booking
\* without an order is left in paid to be checked by hand.
PaidIsResolved ==
    \A b \in Bookings : status[b] = "paid" ~> status[b] # "paid" \/ crowded

\* A booking that was paid once and posted once is refunded over a ticket, one that
\* exists at Duffel or may come to exist, only if a job or a POST of it was still
\* under way when the sweep read the list: a truncated list, a lost answer and the
\* job of another booking never do it, and a 4xx proves that there is no order.
NoRefundWhileTicketed ==
    \A b \in Bookings :
        /\ status[b] = "order_failed"
        /\ customerPayments[b] <= 1
        /\ posts[b] <= 1
        /\ ~ blind[b]
        => \A n \in 1 .. MaxPosts : order[<<b, n>>] \notin {"live", "inflight"}

-----------------------------------------------------------------------------
(* What a document says of the program, put to the test. *)

\* Captured money ends in a ticket or a refund ("never silently charged for
\* nothing").
CapturedIsSettled ==
    \A t \in Transactions :
        charge[t] = "captured" ~> status[Payer(t)] \in {"confirmed", "order_failed"}
=============================================================================
