---------------------------- MODULE Cancellation ----------------------------
(***************************************************************************)
(* Cancelling a confirmed booking, from the page that asks for it to the   *)
(* refund it commits.  The request reads the booking without a lock, has   *)
(* Duffel cancel the order, which cannot be undone, and only then opens    *)
(* the transaction that moves the booking (T7), inserts the pending refund *)
(* and writes the supplier_refund ledger row.  Where the fare conditions   *)
(* do not allow a refund, the customer's request is saved on the booking   *)
(* for an admin instead.  Composed with the pipeline of Refunds, which     *)
(* executes what is committed here and commits refunds of its own.         *)
(*                                                                         *)
(* External: Duffel, which cancels an order once.                          *)
(***************************************************************************)
EXTENDS Refunds

CONSTANTS
    CustomerPages,  \* open cancellation modals of the booking's owner
    AdminPages,     \* cancellation modals of the admin console
    Markup,         \* booking.markupAmount
    MaxPageFaults   \* bound: crashes of a request and lost answers of Duffel

Pages == CustomerPages \union AdminPages

ASSUME CancellationAssumption ==
    /\ CustomerPages \intersect AdminPages = {}
    /\ Markup \in 0 .. Total
    /\ MaxPageFaults \in Nat

VARIABLES
    autoApproved,   \* the fare conditions allow a refund, in the booking's currency
    requested,      \* bookings.cancellation_requested_at is set
    supplierLedger, \* sum of the supplier_refund ledger rows
    page,           \* what each modal, and the request it sent, is doing
    supplier,       \* external: the order at Duffel, "live" or "cancelled"
    supplierMoney,  \* external: what Duffel refunded for it
    pageFaults      \* crashes of a request and lost answers so far

pageVars == <<autoApproved, requested, supplierLedger, page, supplier, supplierMoney,
              pageFaults>>
refundVars == vars
cancelVars == <<refundVars, pageVars>>

Closed == [pc |-> "closed", booking |-> "none", refund |-> 0, payable |-> FALSE]

InitCancel ==
    /\ Init
    /\ autoApproved \in [Bookings -> BOOLEAN]
    /\ requested = [b \in Bookings |-> FALSE]
    /\ supplierLedger = [b \in Bookings |-> 0]
    /\ page = [x \in Pages |-> Closed]
    /\ supplier = [b \in Bookings |-> "live"]
    /\ supplierMoney = [b \in Bookings |-> 0]
    /\ pageFaults = 0

-----------------------------------------------------------------------------
(* The pages.  Lists and details are loaded once, so their buttons go by a  *)
(* status the booking had at some time.                                     *)

EverWas(b, s) == \E i \in 1 .. Len(history[b]) : history[b][i].to = s

Turn(x, pc) == page' = [page EXCEPT ![x].pc = pc]

OnlyPages == UNCHANGED <<refundVars, autoApproved, requested, supplierLedger, supplier,
                         supplierMoney, pageFaults>>

\* A page that loaded the booking while it was confirmed offers to cancel it, and
\* is not told of anything that happens later.
CancelButton(b) == EverWas(b, "confirmed")

Open(x, b, pc) ==
    /\ page[x].pc = "closed"
    /\ CancelButton(b)
    /\ page' = [page EXCEPT ![x] = [Closed EXCEPT !.pc = pc, !.booking = b]]
    /\ OnlyPages

\* The customer's modal asks for a quote as it opens; the admin's form does not.
OpenModal(x, b) == x \in CustomerPages /\ Open(x, b, "quoting")

OpenAdminForm(x, b) == x \in AdminPages /\ Open(x, b, "ready")

\* computeCancellationQuote: a fare that allows no refund, or whose penalty is in
\* another currency, leaves the request to an admin.
RequiresAdmin(b) == ~ autoApproved[b]

\* getCancellationQuote: without a quote the modal offers only to close it.
QuoteArrives(x) ==
    /\ page[x].pc = "quoting"
    /\ IF status[page[x].booking] = "confirmed"
       THEN Turn(x, "ready")
       ELSE page' = [page EXCEPT ![x] = Closed]
    /\ OnlyPages

\* The user gives up before submitting.
CloseModal(x) ==
    /\ page[x].pc \in {"quoting", "ready"}
    /\ page' = [page EXCEPT ![x] = Closed]
    /\ OnlyPages

-----------------------------------------------------------------------------
(* The request.  An error shows in the modal, which may be submitted again.  *)

\* The unlocked read of cancelBooking: a booking that is not confirmed is a 409.
\* A customer's request that is not auto-approved goes to an admin.
Submit(x) ==
    LET b == page[x].booking IN
    /\ page[x].pc = "ready"
    /\ status[b] = "confirmed"
    /\ Turn(x, CASE x \in AdminPages -> "calling"
                 [] x \in CustomerPages /\ RequiresAdmin(b) -> "saving"
                 [] OTHER -> "checking")
    /\ OnlyPages

\* requires_admin: save() writes the entity read before, every column of it that
\* differs from the row now: the status too, without a history row.
SaveRequest(x) ==
    LET b == page[x].booking IN
    /\ page[x].pc = "saving"
    /\ requested' = [requested EXCEPT ![b] = TRUE]
    /\ status' = [status EXCEPT ![b] = "confirmed"]
    /\ page' = [page EXCEPT ![x] = Closed]
    /\ UNCHANGED <<history, tableVars, queueVars, executor, creditVars, moved, retries, faults,
                   autoApproved, supplierLedger, supplier, supplierMoney, pageFaults>>

\* The refund target of a customer's request is checked before Duffel is called:
\* the status of the payment, not what is left of it.
CheckPayment(x) ==
    /\ page[x].pc = "checking"
    /\ Turn(x, IF payment[page[x].booking] \in {"succeeded", "partially_refunded"}
               THEN "calling" ELSE "ready")
    /\ OnlyPages

\* Variant: a 4xx of Duffel counts as done.
CancelOrder_ErrorIgnored(x) ==
    LET b == page[x].booking
        next == IF x \in AdminPages THEN "reading" ELSE "committing"
        cancels(m) == /\ supplier[b] = "live"
                      /\ supplier' = [supplier EXCEPT ![b] = "cancelled"]
                      /\ supplierMoney' = [supplierMoney EXCEPT ![b] = m]
    IN  /\ page[x].pc = "calling"
        /\ \/ /\ \E m \in 0 .. Total - Markup :
                    /\ cancels(m)
                    /\ page' = [page EXCEPT ![x].pc = next, ![x].refund = m]
              /\ UNCHANGED pageFaults
           \/ /\ pageFaults < MaxPageFaults
              /\ pageFaults' = pageFaults + 1
              /\ \E m \in 0 .. Total - Markup : cancels(m)
              /\ Turn(x, "ready")
           \/ /\ Turn(x, next)
              /\ UNCHANGED <<supplier, supplierMoney, pageFaults>>
        /\ UNCHANGED <<refundVars, autoApproved, requested, supplierLedger>>

\* cancelOrder, quote and confirmation.  Any answer but a 2xx, and none at all,
\* is an error of the request, whether or not Duffel cancelled the order.
CancelOrder(x) ==
    LET b == page[x].booking
        next == IF x \in AdminPages THEN "reading" ELSE "committing"
        cancels(m) == /\ supplier[b] = "live"
                      /\ supplier' = [supplier EXCEPT ![b] = "cancelled"]
                      /\ supplierMoney' = [supplierMoney EXCEPT ![b] = m]
    IN  /\ page[x].pc = "calling"
        /\ \/ /\ \E m \in 0 .. Total - Markup :
                    /\ cancels(m)
                    /\ page' = [page EXCEPT ![x].pc = next, ![x].refund = m]
              /\ UNCHANGED pageFaults
           \/ /\ pageFaults < MaxPageFaults
              /\ pageFaults' = pageFaults + 1
              /\ \E m \in 0 .. Total - Markup : cancels(m)
              /\ Turn(x, "ready")
           \/ /\ Turn(x, "ready")
              /\ UNCHANGED <<supplier, supplierMoney, pageFaults>>
        /\ UNCHANGED <<refundVars, autoApproved, requested, supplierLedger>>

\* The admin's request looks at the payment only now, to skip the refund of one
\* that cannot be refunded.
ReadPayment(x) ==
    /\ page[x].pc = "reading"
    /\ page' = [page EXCEPT
          ![x].pc = "committing",
          ![x].payable = payment[page[x].booking] \in {"succeeded", "partially_refunded"}]
    /\ OnlyPages

\* Variant: the markup is kept.
Receives_KeepsMarkup(x) == page[x].refund

\* What the customer receives: the supplier's refund and the whole markup.
Receives(x) == page[x].refund + Markup

WantsRefund(x) == Receives(x) > 0 /\ (x \in CustomerPages \/ page[x].payable)

\* Variant: the amount is not checked against what was committed before.
MayCommit_Unchecked(x) == status[page[x].booking] \in {"confirmed", "cancelled"}

MayCommit(x) ==
    /\ status[page[x].booking] \in {"confirmed", "cancelled"}
    /\ WantsRefund(x) => MayRefund(page[x].booking, Receives(x))

\* Variant: the supplier refund is booked by the request that asked, in a second
\* transaction it may not get to.
CommitCancel_LedgerApart(x) ==
    LET b == page[x].booking IN
    /\ page[x].pc = "committing"
    /\ MayCommit(x)
    /\ TransitionTo(b, "cancelled")
    /\ IF WantsRefund(x)
       THEN \E r \in FreeRows(b) : InsertPending(r, Receives(x)) /\ EnqueueRefund(r)
       ELSE UNCHANGED <<tableVars, queueVars>>
    /\ page' = [page EXCEPT ![x] = Closed]
    /\ Overtake(b)
    /\ UNCHANGED <<executor, captures, moved, retries, faults, autoApproved, requested,
                   supplierLedger, supplier, supplierMoney, pageFaults>>

\* T7, the pending refund and the ledger row in one transaction, then the job.
CommitCancel(x) ==
    LET b == page[x].booking IN
    /\ page[x].pc = "committing"
    /\ MayCommit(x)
    /\ TransitionTo(b, "cancelled")
    /\ IF WantsRefund(x)
       THEN \E r \in FreeRows(b) : InsertPending(r, Receives(x)) /\ EnqueueRefund(r)
       ELSE UNCHANGED <<tableVars, queueVars>>
    /\ supplierLedger' = [supplierLedger EXCEPT ![b] = @ + page[x].refund]
    /\ page' = [page EXCEPT ![x] = Closed]
    /\ Overtake(b)
    /\ UNCHANGED <<executor, captures, moved, retries, faults, autoApproved, requested,
                   supplier, supplierMoney, pageFaults>>

\* createPendingRefund or transitionTo throws: everything is rolled back, but
\* the order at Duffel stays cancelled.
CommitRefused(x) ==
    /\ page[x].pc = "committing"
    /\ ~ MayCommit(x)
    /\ Turn(x, "ready")
    /\ OnlyPages

\* The process that serves the request stops: the modal shows a network error.
RequestDies(x) ==
    /\ page[x].pc \in {"saving", "checking", "calling", "reading", "committing"}
    /\ pageFaults < MaxPageFaults
    /\ pageFaults' = pageFaults + 1
    /\ Turn(x, "ready")
    /\ UNCHANGED <<refundVars, autoApproved, requested, supplierLedger, supplier,
                   supplierMoney>>

\* A refund's recording meets a booking that SaveRequest put back to confirmed after
\* it was read cancelled: transitionTo throws and the recording of what the gateway
\* has paid out is rolled back.
RecordThrows(x) ==
    /\ executor[x].pc = "committing"
    /\ executor[x].covered /\ executor[x].closable
    /\ status[BookingOf[executor[x].refund]] \notin {"cancelled", "order_failed", "refunded"}
    /\ faults' = faults + 1
    /\ Fail(x)
    /\ UNCHANGED <<rowVars, tableVars, creditVars, moved, retries, pageVars>>

-----------------------------------------------------------------------------
PageStep(x) ==
    \/ QuoteArrives(x) \/ CloseModal(x) \/ Submit(x) \/ SaveRequest(x)
    \/ CheckPayment(x) \/ CancelOrder(x) \/ ReadPayment(x) \/ CommitCancel(x)
    \/ CommitRefused(x) \/ RequestDies(x)
    \/ \E b \in Bookings : OpenModal(x, b) \/ OpenAdminForm(x, b)

NextCancel ==
    \/ Pipeline /\ UNCHANGED pageVars
    \/ \E x \in Pages : PageStep(x)
    \/ \E x \in Executors : RecordThrows(x)

SpecCancel == InitCancel /\ [][NextCancel]_cancelVars

-----------------------------------------------------------------------------
\* Types, checked with CancellationsAgree.
PagesOK ==
    /\ autoApproved \in [Bookings -> BOOLEAN]
    /\ requested \in [Bookings -> BOOLEAN]
    /\ supplierLedger \in [Bookings -> 0 .. Total]
    /\ page \in [Pages ->
          [pc : {"closed", "quoting", "ready", "saving", "checking", "calling",
                 "reading", "committing"},
           booking : Bookings \union {"none"},
           refund : 0 .. Total,
           payable : BOOLEAN]]
    /\ supplier \in [Bookings -> {"live", "cancelled"}]
    /\ supplierMoney \in [Bookings -> 0 .. Total]
    /\ pageFaults \in 0 .. MaxPageFaults

\* Two modals, two roles, retried requests, refunds committed at the same time: no
\* booking reads cancelled while Duffel still holds the seat, and a request about to
\* commit has had its order cancelled.  The other way round there is no undo: an
\* order cancelled at Duffel whose booking never was is about to be, or has a lost
\* answer, a crash or another refund of the same payment behind it.
CancellationsAgree ==
    /\ PagesOK
    /\ \A x \in Pages : page[x].pc \in {"reading", "committing"} =>
          supplier[page[x].booking] = "cancelled"
    /\ \A b \in Bookings :
          IF EverWas(b, "cancelled")
          THEN supplier[b] = "cancelled"
          ELSE supplier[b] = "cancelled" =>
             \/ \E x \in Pages : /\ page[x].booking = b
                                 /\ page[x].pc \in {"reading", "committing"}
             \/ pageFaults > 0
             \/ \E r \in Rows(b) : refund[r] # "none"

\* What Duffel paid back for an order is booked once, with the cancellation and
\* never without it, whichever of the competing requests commits.
SupplierRefundBookedOnce ==
    \A b \in Bookings :
        supplierLedger[b] = IF EverWas(b, "cancelled") THEN supplierMoney[b] ELSE 0

\* A cancelled customer gets the supplier's refund and the whole markup (prd.md
\* 5.4): refund rows of the booking, of whatever origin, come to that much.
CustomerMadeWhole ==
    \A b \in Bookings :
        EverWas(b, "cancelled") =>
            AmountOf({r \in Rows(b) : refund[r] # "none"}) >= supplierMoney[b] + Markup

\* Whatever order the pages, the workers and the admins take, the refund pipeline
\* sees nothing of cancelling but the transaction its own module describes,
\* checks of createPendingRefund included, the one stale write that SaveRequest can
\* make, a status put back to confirmed, and a recording this write makes throw.
StaleWrite ==
    /\ \E b \in Bookings : status' = [status EXCEPT ![b] = "confirmed"]
    /\ UNCHANGED <<history, tableVars, queueVars, executor, creditVars, moved, retries,
                   faults>>

KeepsToRefunds ==
    Init /\ [][Next \/ StaleWrite \/ \E x \in Executors : RecordThrows(x)]_refundVars
=============================================================================
