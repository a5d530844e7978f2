------------------------------ MODULE Checkout ------------------------------
(***************************************************************************)
(* Buying a flight: the checkout and payment pages of one customer, in     *)
(* several tabs, against POST /bookings with its Redis lock, PUT           *)
(* /passengers, POST /payment-intent and the expiry sweep.  Every mount of *)
(* the checkout page draws an idempotency key of its own, so a page stands *)
(* for its key.  All pages are about the same offer of the supplier.       *)
(*                                                                         *)
(* External: Paymob, which charges a card in the form of an attempt, and   *)
(* what the other modules describe of a booking once it is paid.           *)
(***************************************************************************)
EXTENDS BookingRows, FiniteSets

CONSTANTS
    Keys,       \* mounts of the checkout page, each with its key
    Links,      \* mounts of the payment page from a list of bookings
    Attempts,   \* rows payment_attempts may get
    MaxSends,   \* bound: POST /bookings per mount
    MaxFaults,  \* bound: lost answers, failing services, crashes
    Nobody, NoBooking, NoAttempt

Pages == Keys \union Links
Requests == Keys \X (1 .. MaxSends)

ASSUME CheckoutAssumption ==
    /\ MaxSends \in Nat \ {0}
    /\ MaxFaults \in Nat
    /\ Keys \intersect Links = {}
    /\ Nobody \notin Pages
    /\ NoBooking \notin Bookings
    /\ NoAttempt \notin Attempts
    /\ {"free", "locked"} \intersect Bookings = {}

VARIABLES
    expired,    \* the expires_at of the offer, and of every snapshot of it, has passed
    lock,       \* Redis: idempotency_booking:<key of the page>
    create,     \* what each POST /bookings is doing, and its answer
    keyOf,      \* the page whose request inserted the booking
    page,       \* what each page shows
    attempt,    \* the booking of each payment_attempts row
    charged,    \* external: attempts a card was charged on ...
    landed,     \* ... and whose callback was processed
    faults,     \* faults so far
    unguarded   \* history: keys that two requests passed at once, or that were lost

checkoutVars == <<rowVars, expired, lock, create, keyOf, page, attempt, charged, landed,
                  faults, unguarded>>

\* What the three pages show; "opening" and "confirmation" wait for the booking.
CheckoutScreens == {"closed", "offer_error", "review", "creating", "passengers"}
PaymentScreens == {"opening", "intent", "form", "confirming", "lapsed",
                   "being_refunded", "error"}
ConfirmationScreens == {"confirmation", "ticket", "waiting", "refused", "other", "no_detail"}
Screens == CheckoutScreens \union PaymentScreens \union ConfirmationScreens

ShownPage(screen, b, filled, a) ==
    [screen |-> screen, booking |-> b, filled |-> filled, attempt |-> a]

Init ==
    /\ status = [b \in Bookings |-> Absent]
    /\ history = [b \in Bookings |-> << >>]
    /\ expired = FALSE
    /\ lock = [p \in Keys |-> "free"]
    /\ create = [r \in Requests |-> [pc |-> "idle", answer |-> "none", booking |-> NoBooking]]
    /\ keyOf = [b \in Bookings |-> Nobody]
    /\ page = [p \in Pages |-> ShownPage("closed", NoBooking, TRUE, NoAttempt)]
    /\ attempt = [a \in Attempts |-> NoBooking]
    /\ charged = {}
    /\ landed = {}
    /\ faults = 0
    /\ unguarded = {}

-----------------------------------------------------------------------------
\* getBookingDetail, for the booking of a page.
Detail(p) == status[page[p].booking]

EverWas(b, s) == \E i \in 1 .. Len(history[b]) : history[b][i].to = s

serverVars == <<lock, create, keyOf, attempt, unguarded>>
moneyVars == <<charged, landed>>

Show(p, screen) == page' = [page EXCEPT ![p].screen = screen]

Fault == faults < MaxFaults /\ faults' = faults + 1

OnlyPage == UNCHANGED <<rowVars, expired, serverVars, moneyVars>>

(* The checkout page. *)

\* The offer is fetched; the supplier may or may not answer for an expired one.
OpenCheckout(p) ==
    /\ page[p].screen = "closed"
    /\ \/ Show(p, "review") /\ UNCHANGED faults
       \/ Show(p, "offer_error") /\ IF expired THEN UNCHANGED faults ELSE Fault
    /\ OnlyPage

Answered == [pc |-> "done", answer |-> "none", booking |-> NoBooking]

Sent(p) == {n \in 1 .. MaxSends : create[<<p, n>>].pc # "idle"}

\* handleCreateBooking, with the key of this mount.
SendCreate(p) ==
    LET n == Cardinality(Sent(p)) + 1 IN
    /\ page[p].screen = "review"
    /\ n <= MaxSends
    /\ create' = [create EXCEPT ![<<p, n>>].pc = "sent"]
    /\ Show(p, "creating")
    /\ UNCHANGED <<rowVars, expired, lock, keyOf, attempt, unguarded, moneyVars, faults>>

\* The answer to the last request.  A replayed booking comes from getBookingDetail,
\* without the passenger_requirements the empty forms are made of.
AnswerCreate(p) ==
    LET r == <<p, Cardinality(Sent(p))>> IN
    /\ page[p].screen = "creating"
    /\ create[r].pc = "done"
    /\ page' = [page EXCEPT ![p] =
          CASE create[r].answer = "created" ->
                   ShownPage("passengers", create[r].booking, TRUE, NoAttempt)
            [] create[r].answer = "replayed" ->
                   ShownPage("passengers", create[r].booking, FALSE, NoAttempt)
            [] create[r].answer = "gone" -> [@ EXCEPT !.screen = "offer_error"]
            [] OTHER -> [@ EXCEPT !.screen = "review"]]
    /\ create' = [create EXCEPT ![r] = Answered]
    /\ UNCHANGED <<rowVars, expired, lock, keyOf, attempt, unguarded, moneyVars, faults>>

\* The connection breaks; the request goes on without a reader.
LoseAnswer(p) ==
    /\ page[p].screen = "creating"
    /\ Fault
    /\ Show(p, "review")
    /\ OnlyPage

-----------------------------------------------------------------------------
(* POST /bookings: the controller and createBooking. *)

Running == {"fetching", "storing", "unlocking"}

Becomes(r, pc) == create' = [create EXCEPT ![r].pc = pc]

\* Ids the database has not drawn yet; which one it draws makes no difference.
NewBookings == {b \in Bookings : status[b] = Absent}
NewAttempts == {a \in Attempts : attempt[a] = NoBooking}

Answers(r, answer, b) ==
    create' = [create EXCEPT ![r] = [pc |-> "done", answer |-> answer, booking |-> b]]

\* Variant: the key is a lock only, what is stored under it later is not looked at.
ReadLock_LocksOnly(r) ==
    LET p == r[1] IN
    /\ create[r].pc = "sent"
    /\ IF lock[p] = "locked"
       THEN Answers(r, "conflict", NoBooking) /\ UNCHANGED unguarded
       ELSE /\ Becomes(r, "locking")
            /\ unguarded' = IF \E q \in Requests : q[1] = p /\ create[q].pc = "locking"
                            THEN unguarded \union {p} ELSE unguarded
    /\ UNCHANGED <<rowVars, expired, lock, keyOf, attempt, page, moneyVars, faults>>

\* redis.get.  A request that finds the key free while another one is about to
\* take it passes with it.
ReadLock(r) ==
    LET p == r[1] IN
    /\ create[r].pc = "sent"
    /\ CASE lock[p] = "locked" -> Answers(r, "conflict", NoBooking) /\ UNCHANGED unguarded
         [] lock[p] \in Bookings -> Answers(r, "replayed", lock[p]) /\ UNCHANGED unguarded
         [] lock[p] = "free" ->
              /\ Becomes(r, "locking")
              /\ unguarded' = IF \E q \in Requests : q[1] = p /\ create[q].pc = "locking"
                              THEN unguarded \union {p} ELSE unguarded
    /\ UNCHANGED <<rowVars, expired, lock, keyOf, attempt, page, moneyVars, faults>>

\* redis.setex(key, 120, 'locked'), whatever the key holds by now.
TakeLock(r) ==
    /\ create[r].pc = "locking"
    /\ lock' = [lock EXCEPT ![r[1]] = "locked"]
    /\ Becomes(r, "fetching")
    /\ UNCHANGED <<rowVars, expired, keyOf, attempt, unguarded, page, moneyVars, faults>>

\* The outbound rate limit, fetchOffer and the check of expires_at; then T1: booking,
\* snapshot and first history row in one transaction.
FetchAndInsert(r) ==
    /\ create[r].pc = "fetching"
    /\ ~ expired
    /\ NewBookings # {}
    /\ LET b == CHOOSE b \in NewBookings : TRUE IN
          /\ InsertBooking(b)
          /\ keyOf' = [keyOf EXCEPT ![b] = r[1]]
          /\ create' = [create EXCEPT ![r].pc = "storing", ![r].booking = b]
    /\ UNCHANGED <<expired, lock, attempt, unguarded, page, moneyVars, faults>>

\* Either of them throws.
FetchFails(r) ==
    /\ create[r].pc = "fetching"
    /\ create' = [create EXCEPT ![r].pc = "unlocking",
                                ![r].answer = IF expired THEN "gone" ELSE "failed"]
    /\ IF expired THEN UNCHANGED faults ELSE Fault
    /\ UNCHANGED <<rowVars, expired, lock, keyOf, attempt, unguarded, page, moneyVars>>

\* redis.setex(key, 86400, result.id); if it throws, the catch block takes it for
\* a failed booking.
StoreKey(r) ==
    /\ create[r].pc = "storing"
    /\ \/ /\ lock' = [lock EXCEPT ![r[1]] = create[r].booking]
          /\ Answers(r, "created", create[r].booking)
          /\ UNCHANGED faults
       \/ /\ Fault
          /\ create' = [create EXCEPT ![r].pc = "unlocking", ![r].answer = "failed"]
          /\ UNCHANGED lock
    /\ UNCHANGED <<rowVars, expired, keyOf, attempt, unguarded, page, moneyVars>>

\* Keys under which a booking exists that they no longer lead to.
LosesKey(p) == IF \E b \in Bookings : keyOf[b] = p THEN unguarded \union {p} ELSE unguarded

\* redis.del, of whatever the key holds.
Unlock(r) ==
    /\ create[r].pc = "unlocking"
    /\ lock' = [lock EXCEPT ![r[1]] = "free"]
    /\ unguarded' = LosesKey(r[1])
    /\ Answers(r, create[r].answer, NoBooking)
    /\ UNCHANGED <<rowVars, expired, keyOf, attempt, page, moneyVars, faults>>

\* The process that serves the request stops.
Die(r) ==
    /\ create[r].pc \in Running \union {"locking"}
    /\ Fault
    /\ Answers(r, "failed", NoBooking)
    /\ UNCHANGED <<rowVars, expired, lock, keyOf, attempt, unguarded, page, moneyVars>>

\* 120 seconds, more than a running request takes.
LockLapses(p) ==
    /\ lock[p] = "locked"
    /\ \A n \in 1 .. MaxSends : create[<<p, n>>].pc \notin Running
    /\ lock' = [lock EXCEPT ![p] = "free"]
    /\ unguarded' = LosesKey(p)
    /\ UNCHANGED <<rowVars, expired, create, keyOf, attempt, page, moneyVars, faults>>

-----------------------------------------------------------------------------
(* PUT /bookings/:id/passengers. *)

\* A form for every passenger of the offer.
FormFits(p) == page[p].filled

\* T2, under the row lock.  A booking that is not pending, a form of the wrong
\* length and an expired offer are refused: the page stays as it is, and the T3
\* of an expired offer is rolled back with the exception that reports it.
SavePassengers(p) ==
    LET b == page[p].booking IN
    /\ page[p].screen = "passengers"
    /\ status[b] = "pending"
    /\ ~ expired
    /\ FormFits(p)
    /\ TransitionTo(b, "awaiting_payment")
    /\ \/ Show(p, "opening") /\ UNCHANGED faults
       \/ Fault /\ UNCHANGED page
    /\ UNCHANGED <<expired, serverVars, moneyVars>>

-----------------------------------------------------------------------------
(* The payment page. *)

\* A booking list or a detail page, which were loaded once, show the link to pay.
PaymentLink(b) == EverWas(b, "awaiting_payment")

OpenPayment(p, b) ==
    /\ page[p].screen = "closed"
    /\ PaymentLink(b)
    /\ page' = [page EXCEPT ![p] = ShownPage("opening", b, TRUE, NoAttempt)]
    /\ OnlyPage /\ UNCHANGED faults

\* loadData: where the status of the booking leads.
LoadBooking(p) ==
    LET s == Detail(p) IN
    /\ page[p].screen = "opening"
    /\ \/ /\ Show(p, CASE s = "awaiting_payment" -> "intent"
                       [] s = "confirmed" -> "confirmation"
                       [] s = "order_failed" -> "being_refunded"
                       [] s = "failed" -> "lapsed"
                       [] OTHER -> "confirming")
          /\ UNCHANGED faults
       \/ Fault /\ Show(p, "error")
    /\ OnlyPage

\* Variant: the attempt is saved after the transaction, if the process gets there.
CreateAttempt_SavedLater(p) ==
    LET b == page[p].booking IN
    /\ page[p].screen = "intent"
    /\ status[b] = "awaiting_payment"
    /\ ~ expired
    /\ NewAttempts # {}
    /\ LET a == CHOOSE a \in NewAttempts : TRUE IN
          /\ page' = [page EXCEPT ![p].screen = "form", ![p].attempt = a]
          /\ \/ attempt' = [attempt EXCEPT ![a] = b]
             \/ UNCHANGED attempt
    /\ UNCHANGED <<rowVars, expired, lock, create, keyOf, unguarded, moneyVars, faults>>

\* createOrGetPaymentAttempt: a new order at Paymob and a new row on every call.
\* The row lock is held from the first check to the commit.
CreateAttempt(p) ==
    LET b == page[p].booking IN
    /\ page[p].screen = "intent"
    /\ status[b] = "awaiting_payment"
    /\ ~ expired
    /\ NewAttempts # {}
    /\ LET a == CHOOSE a \in NewAttempts : TRUE IN
          /\ attempt' = [attempt EXCEPT ![a] = b]
          /\ \/ /\ page' = [page EXCEPT ![p].screen = "form", ![p].attempt = a]
                /\ UNCHANGED faults
             \/ Fault /\ Show(p, "error")
    /\ UNCHANGED <<rowVars, expired, lock, create, keyOf, unguarded, moneyVars>>

\* Paymob fails: the transaction is rolled back.
AttemptFails(p) ==
    /\ page[p].screen = "intent"
    /\ Fault
    /\ Show(p, "error")
    /\ OnlyPage

\* The booking moved on, or its offer expired: T3 is committed before the 409.
AttemptRefused(p) ==
    LET b == page[p].booking IN
    /\ page[p].screen = "intent"
    /\ \/ status[b] # "awaiting_payment" /\ UNCHANGED rowVars
       \/ status[b] = "awaiting_payment" /\ expired /\ TransitionTo(b, "failed")
    /\ Show(p, "error")
    /\ UNCHANGED <<expired, serverVars, moneyVars, faults>>

Polling == {"form", "confirming"}

\* Variant: the poller takes an offer whose time is up for a failed booking.
Poll_TrustsClock(p) ==
    LET s == Detail(p) IN
    /\ page[p].screen \in Polling
    /\ \/ s = "paid" /\ Show(p, "confirming")
       \/ s = "confirmed" /\ Show(p, "confirmation")
       \/ s = "order_failed" /\ Show(p, "being_refunded")
       \/ (s = "failed" \/ expired) /\ Show(p, "lapsed")
    /\ OnlyPage /\ UNCHANGED faults

\* Variant: the poller stops when the payment has landed.
Poll_UntilPaid(p) ==
    LET s == Detail(p) IN
    /\ page[p].screen = "form"
    /\ \/ s = "paid" /\ Show(p, "confirming")
       \/ s = "confirmed" /\ Show(p, "confirmation")
       \/ s = "order_failed" /\ Show(p, "being_refunded")
       \/ s = "failed" /\ Show(p, "lapsed")
    /\ OnlyPage /\ UNCHANGED faults

\* pollStatus, every three seconds.  The countdown changes no screen: it ends at
\* zero before the branch that would set the error.
Poll(p) ==
    LET s == Detail(p) IN
    /\ page[p].screen \in Polling
    /\ \/ s = "paid" /\ Show(p, "confirming")
       \/ s = "confirmed" /\ Show(p, "confirmation")
       \/ s = "order_failed" /\ Show(p, "being_refunded")
       \/ s = "failed" /\ Show(p, "lapsed")
    /\ OnlyPage /\ UNCHANGED faults

\* External: the customer pays in the form, whatever became of the booking.
Pay(p) ==
    /\ page[p].screen = "form"
    /\ page[p].attempt \notin charged
    /\ charged' = charged \union {page[p].attempt}
    /\ UNCHANGED <<rowVars, expired, serverVars, page, landed, faults>>

\* payment-return: the charged form gives way to the payment page, from its start.
\* Or the customer reloads.
Reopen(p) ==
    /\ page[p].screen \in Polling \union {"error", "lapsed", "being_refunded"}
    /\ page' = [page EXCEPT ![p].screen = "opening", ![p].attempt = NoAttempt]
    /\ OnlyPage /\ UNCHANGED faults

-----------------------------------------------------------------------------
(* The confirmation page, which the payment page leads to. *)

\* loadBooking, and the screen for the status it finds.
LoadConfirmation(p) ==
    LET s == Detail(p) IN
    /\ page[p].screen = "confirmation"
    /\ \/ /\ Show(p, CASE s = "confirmed" -> "ticket"
                       [] s = "paid" -> "waiting"
                       [] s \in {"order_failed", "failed"} -> "refused"
                       [] OTHER -> "other")
          /\ UNCHANGED faults
       \/ Fault /\ Show(p, "no_detail")
    /\ OnlyPage

ReloadConfirmation(p) ==
    /\ page[p].screen \in ConfirmationScreens \ {"confirmation"}
    /\ Show(p, "confirmation")
    /\ OnlyPage /\ UNCHANGED faults

-----------------------------------------------------------------------------
(* The rest of the system. *)

ExpireOffer ==
    /\ ~ expired
    /\ expired' = TRUE
    /\ UNCHANGED <<rowVars, serverVars, page, moneyVars, faults>>

\* One booking of sweepExpiredBookings; one that moved on since the query throws.
ExpirySweep(b) ==
    /\ expired
    /\ status[b] \in {"pending", "awaiting_payment"}
    /\ TransitionTo(b, "failed")
    /\ UNCHANGED <<expired, serverVars, page, moneyVars, faults>>

\* External (module Fulfillment): the callback of a charge, T4 if it is still time.
Callback(a) ==
    LET b == attempt[a] IN
    /\ a \in charged \ landed
    /\ landed' = landed \union {a}
    /\ IF b \in Bookings /\ status[b] = "awaiting_payment"
       THEN TransitionTo(b, "paid") ELSE UNCHANGED rowVars
    /\ UNCHANGED <<expired, serverVars, page, charged, faults>>

\* External (Fulfillment, Refunds, Cancellation): a paid booking is ticketed or
\* refunded, a ticketed one cancelled.
Backend(b) ==
    /\ status[b] \in {"paid", "confirmed", "order_failed", "cancelled"}
    /\ \E to \in {"confirmed", "order_failed", "cancelled", "refunded"} :
          to # status[b] /\ TransitionTo(b, to)
    /\ UNCHANGED <<expired, serverVars, page, moneyVars, faults>>

KeyStep(p) ==
    \/ OpenCheckout(p) \/ SendCreate(p) \/ AnswerCreate(p) \/ LoseAnswer(p) \/ LockLapses(p)
    \/ SavePassengers(p)

PageStep(p) ==
    \/ LoadBooking(p) \/ CreateAttempt(p) \/ AttemptFails(p) \/ AttemptRefused(p)
    \/ Poll(p) \/ Pay(p) \/ Reopen(p) \/ LoadConfirmation(p) \/ ReloadConfirmation(p)

RequestStep(r) ==
    \/ ReadLock(r) \/ TakeLock(r) \/ FetchAndInsert(r) \/ FetchFails(r) \/ StoreKey(r) \/ Unlock(r)
    \/ Die(r)

Next ==
    \/ \E p \in Keys : KeyStep(p)
    \/ \E p \in Links, b \in Bookings : OpenPayment(p, b)
    \/ \E p \in Pages : PageStep(p)
    \/ \E r \in Requests : RequestStep(r)
    \/ \E b \in Bookings : ExpirySweep(b) \/ Backend(b)
    \/ \E a \in Attempts : Callback(a)
    \/ ExpireOffer

Spec == Init /\ [][Next]_checkoutVars

\* Timers go on: the sweep runs every minute, a page polls every three seconds.
FairSpec ==
    /\ Spec
    /\ \A b \in Bookings : WF_checkoutVars(ExpirySweep(b))
    /\ \A p \in Pages : WF_checkoutVars(Poll(p))

-----------------------------------------------------------------------------
\* Types, checked with ChargesAreTraceable.
CheckoutOK ==
    /\ expired \in BOOLEAN
    /\ lock \in [Keys -> {"free", "locked"} \union Bookings]
    /\ create \in [Requests ->
          [pc : {"idle", "sent", "locking", "done"} \union Running,
           answer : {"none", "created", "replayed", "conflict", "gone", "failed"},
           booking : Bookings \union {NoBooking}]]
    /\ keyOf \in [Bookings -> Keys \union {Nobody}]
    /\ page \in [Pages -> [screen : Screens,
                           booking : Bookings \union {NoBooking},
                           filled : BOOLEAN,
                           attempt : Attempts \union {NoAttempt}]]
    /\ attempt \in [Attempts -> Bookings \union {NoBooking}]
    /\ charged \in SUBSET Attempts
    /\ landed \in SUBSET charged
    /\ faults \in 0 .. MaxFaults
    /\ unguarded \in SUBSET Keys

\* One click of "continue", however often its request is repeated, makes one
\* booking (api_contract.md:24) - unless two requests read the key at the same
\* time, or the key was lost with the booking it should lead to.
OneBookingPerKey ==
    \A p \in Keys : \/ Cardinality({b \in Bookings : keyOf[b] = p}) <= 1
                     \/ p \in unguarded

\* Whatever tab, reload or retry it comes from, every form in which a card can be
\* charged, and every charge, has its payment_attempts row, which is how the
\* callback finds the booking.
ChargesAreTraceable ==
    /\ CheckoutOK
    /\ \A p \in Pages : page[p].screen = "form" => attempt[page[p].attempt] = page[p].booking
    /\ \A a \in charged : attempt[a] \in Bookings /\ EverWas(attempt[a], "awaiting_payment")

\* What a page says of the booking is, or was, so: that the offer lapsed only of one
\* that failed unpaid, a refund only of one the airline refused, a payment only of one
\* that was paid, and the confirmation page only of one that was confirmed, which it
\* takes back for one that was cancelled, and else never.  Of the card it says more than
\* that: "lapsed" also tells the customer that nothing was deducted, which the pages
\* cannot know of a charge whose callback is yet to come, or came too late.
ScreensTellStatus ==
    \A p \in Pages :
        LET b == page[p].booking IN
        /\ page[p].screen = "lapsed" => status[b] = "failed" /\ ~ EverWas(b, "paid")
        /\ page[p].screen = "being_refunded" => EverWas(b, "order_failed")
        /\ page[p].screen \in ConfirmationScreens => EverWas(b, "confirmed")
        /\ page[p].screen = "other" => EverWas(b, "cancelled")
        /\ page[p].screen \notin {"waiting", "refused"}
        /\ page[p].screen = "confirming" => EverWas(b, "paid")

\* Every change of a booking made from here is one the lifecycle allows.
Lifecycle == INSTANCE BookingLifecycle
KeepsToLifecycle == Lifecycle!Spec

\* A customer who stays on the payment page learns the outcome, unless the booking
\* was cancelled or refunded before the next poll, which then goes on for ever.
OutcomeIsShown ==
    \A p \in Pages :
        (page[p].screen \in Polling /\ status[page[p].booking] \in {"confirmed", "order_failed", "failed"})
            ~> \/ page[p].screen \notin Polling
               \/ status[page[p].booking] \in {"cancelled", "refunded"}
=============================================================================
