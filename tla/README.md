# Verification of the travel platform

TLA+ models of the booking platform - its backend (`src/app/Backend/src`) and the
pages that drive it (`src/app/web`) - the TLC runs that check them on small
instances, and theorems proved with TLAPS. Source paths below are relative to
the backend's directory, except that `docs/` is `src/docs/` and `web/` is
`src/app/web/`.
`PROJECT.json` maps every definition to the lines it models, lists 40 hazards
with the properties aimed at them, and gives for every property of a run a
plausible bug of the code that breaks it.

## 1. The system

A NestJS backend sells flights it buys from Duffel. A customer searches, picks an
offer, gives passengers, pays through Paymob, and the backend then orders the
ticket. State lives in Postgres (READ COMMITTED), jobs in Redis (BullMQ), and
sweeps run on timers. Several processes run the same code, so every handler
races with every other one; the web client adds tabs, reloads and retries.

| Component | State it keeps | Operations | Interacts with | What makes it correct |
|---|---|---|---|---|
| Booking state machine (`booking-state-machine.service.ts`) | `bookings.status`, `booking_status_history` | `transitionTo`, `recordInitialHistory` | called, in their transaction, by every service below | only legal transitions, a history row for each, no status twice |
| Fulfilment outcome (`fulfillment-outcome.service.ts`) | supplier order id, documents, ledger rows, refund row | T5 confirm, T6 fail and refund, mail, refund enqueue | order job, Duffel webhook, sweep | one outcome per booking |
| Order job (`order-fulfillment.service.ts`, its processor) | worker memory | unlocked read, POST, apply the answer | Duffel, outcome service | no POST without a cause; nothing concluded from a lost answer |
| Payment callbacks (webhook controller, processor, sweep) | `payment_webhook_events`, attempts, payment, customer ledger | look up, save, queue, process, sweep | gateway, state machine, order queue | each capture credited once, none lost |
| Webhook retention | deletes processed events over 90 days old | daily | refunds read those events | no event a refund still needs is deleted |
| Duffel callbacks (controller, processor, sweep) | `supplier_webhook_events`, segments | store, `order.created`, schedule changes | outcome service, mail | stored schedule and mail are the airline's |
| Reconciliation sweep (`duffel-reconciliation.service.ts`) | memory | look up all orders, confirm or fail | Duffel, outcome service | a paid booking is resolved; no refund on unproven absence |
| Expiry sweep (`expiry-sweep.service.ts`) | none | fail unpaid bookings past their offer | state machine | never fails captured money |
| Refund pipeline (`refund-execution.*`, `refund-requeue-sweep`) | refund rows, gateway ledger, rollups, job `refund:<id>` | commit, load, call, record, give up, requeue | gateway, queue, admins | a refund is recorded once, paid once, and never lost |
| Bookings API (`bookings.service.ts`) | bookings, passengers, snapshots, Redis key of a request | create, save passengers, quote, self cancel | Duffel, state machine | one booking per click; a cancellation at Duffel is recorded |
| Payment initiation (`payments.service.ts`) | payment, attempts | create attempt, refuse | Paymob, expiry | every charge can be traced to its booking |
| Admin (`admin.service.ts`) | refunds, bookings, users, markup rules, audit log | refund, retry, cancel, adjust, activate, list | refund pipeline, Duffel | refunds within the payment; the markup never goes by accident |
| Tokens and sessions (`auth/services/token.service.ts`, `web/.../api-client.ts`) | refresh token families, cookie, access tokens of tabs | rotate, revoke, log out, deactivate | every page | one holder per family; a deactivation takes effect |
| Sign in (`auth/`) | link tokens, Redis counters, users, identities | request, redeem, Google callback, resolve | mail, tokens | a link works once; mails are bounded |
| Flight search (`flights.service.ts`, `web/.../flights/page.tsx`) | Redis cache, outbound token bucket, session cache of the page | search | Duffel, bookings | budget kept; no dead offers; the list answers the search |
| Passengers (`bookings.service.ts`, `order-fulfillment.service.ts`, `duffel.service.ts`) | passengers of a booking | match to the offer, link infants, build the order | Duffel | what was paid for can be ordered |
| Checkout pages, cancellation pages, admin lists (`web/`) | what is shown, polls, timers | load, poll, submit | the APIs above | no page shows what is not so |
| Support tickets (`support/`) | tickets, audit log | create, update | admins | the audit log has no gap |

Hard behaviours: three independent paths lead out of `paid` because Duffel takes
no idempotency key; callbacks are redelivered, late and out of order; a job can
be lost between a commit and `queue.add`, or be handed out twice; a remote call
whose answer is lost may have taken effect; a cancellation at Duffel cannot be
undone when the transaction after it fails; refunds are executed outside any
transaction and recorded under a lock on one row only; sums are read without a
lock that covers the write they decide; entities are saved whole from stale
reads; Redis values are read in one call and written in another; pages act on
what they loaded before.

## 2. Modules

| Module | Role |
|---|---|
| `BookingRows` | status and history tables; `LegalTransitions`, `TransitionTo`, `InsertBooking` |
| `BookingLifecycle` | abstract specification: a booking is created, moves legally, and is recorded |
| `Checkout` | from the picked offer to the charge: pages, `POST /bookings`, passengers, payment initiation, expiry |
| `Fulfillment` | from the charge to the ticket: callbacks, order job, Duffel, webhook, sweeps |
| `Refunds` | commitment, execution, recording and retry of refunds |
| `Cancellation` | cancelling a confirmed booking around Duffel's irrevocable call; extends `Refunds` |
| `Inbox` | how an event comes in: look-up, save, job, answer, sweep; shared by the next two |
| `WebhookInbox` | Paymob's callbacks from the gateway to the books, and retention; extends `Inbox` |
| `ExactlyOnce` | abstract specification of the payment inbox |
| `SupplierInbox` | schedule changes of an order; extends `Inbox` |
| `Sessions` | refresh tokens, cookie and tabs of one browser |
| `SignIn` | magic links, Google and account resolution; extends `Sessions` |
| `FlightSearch` | cache, token bucket, results page |
| `Passengers` | the people of a booking, from the offer to the order |
| `AdminConsole` | markup rules and tickets edited by two admins |
| `AdminLists` | a list page of the console: filter, pager, loads, actions |
| `MC*` | constants, symmetry and compositions for TLC |
| `BookingLifecycleProofs`, `CheckoutProofs`, `FulfillmentProofs`, `WebhookInboxProofs`, `SupplierInboxProofs` | theorems about the module of that name |
| `RefundsProofs` | theorems about `Refunds` and `Cancellation` |
| `SessionsProofs` | theorems about `Sessions` and `SignIn` |
| `PagesProofs` | theorems about `FlightSearch`, `Passengers`, `AdminConsole` and `AdminLists` |

How they fit together: `Checkout`, `Fulfillment` and `Refunds` each extend `BookingRows` and so
share the table of bookings. `Checkout` creates a booking and takes it to `awaiting_payment`, and
replaces what comes after by the external actions `Callback` and `Backend`; `Fulfillment` starts at
`awaiting_payment` and stops at the full refund of T6; `Refunds` starts at `paid`, repeats T5 and
T6 as one action each, and goes on to `refunded`. All three are proved to implement
`BookingLifecycle`. `Cancellation` replaces the one-step `CancelBooking` of `Refunds` by pages,
requests and Duffel, and is checked and proved to implement `Refunds` but for one stale write and
the recording it makes throw (`KeepsToRefunds`). `WebhookInbox` opens up the callback that is one
step in `Fulfillment` and implements `ExactlyOnce`. `SignIn` opens up the one-step sign-in of
`Sessions`, and implements it.

### Conventions

One action is one database transaction, one Redis call, one remote call or one
event of a page. `transitionTo` and the T5/T6 handlers hold the booking's row lock
from their read to their commit, so each is one atomic action. Where the code
reads without a lock and writes later, the read and the write are two actions.
Process memory can be lost between any two actions. What is marked *External*
stands for code that is not in the repository, modelled by what the callers can
learn. What is marked *History* is a variable that records the past for a property
and guards nothing. Operators marked *Variant* are plausible bugs of the code;
nothing uses them but the mutants of `PROJECT.json`, each of which breaks the
property it is listed for.

### Checkout and the code

- `OpenCheckout`, `SendCreate`, `AnswerCreate`, `LoseAnswer`: the checkout page,
  which draws one idempotency key per mount (`web/src/app/checkout/page.tsx`).
- `ReadLock`, `TakeLock`, `FetchAndInsert`, `FetchFails`, `StoreKey`, `Unlock`,
  `Die`, `LockLapses`: the controller's Redis calls around `createBooking`, each a
  step, since two requests with one key can both read it before either sets it.
- `SavePassengers`: T2. The T3 of an offer that has expired is rolled back by the
  exception that reports it, so nothing changes.
- `OpenPayment`, `LoadBooking`, `CreateAttempt`, `AttemptFails`, `AttemptRefused`,
  `Poll`, `Pay`, `Reopen`: the payment page and `createOrGetPaymentAttempt`, which
  makes a new Paymob order and row on every call and commits T3 before its 409.
  The screen `lapsed` is the page's `offer_expired`.
- `LoadConfirmation`, `ReloadConfirmation`, `ExpireOffer`, `ExpirySweep`: the last
  page, and time. `Callback` and `Backend` stand for the modules below.

### Fulfillment and the code

- `ReceivePaymentCallback`, `ProcessCaptured`, `ProcessDeclined`: the webhook
  controller and `processEvent`. The order job is added after the commit, hence
  the choice between adding and losing it. A transition that throws rolls the
  whole event back: the action is disabled and the event stays `stored`.
- `StartJob`, `PostOrder`, `JobConfirms`, `JobFails`, `WorkerDies`:
  `fulfillOrder` from its unlocked read to its outcome. A POST is answered 2xx or
  4xx, or tells nothing; in the last case the order is live, refused, or in
  flight until `DuffelSettles`.
- `ReceiveOrderCreated`, `ProcessOrderCreated`: the `order.created` webhook.
- `WindowCloses`, `SweepLooksUp`, `SweepConfirms`, `SweepFails`, `SweepDies`: the
  reconciliation sweep. `WindowCloses` looks at the booking's age only, as the
  sweep's query does: a job may still wait or run, and a POST be open, which
  `blind` remembers (`UnderWay`). A failed lookup changes nothing; nor does one
  that stops at the page cap of `findOrder`, which is all it ever does once the
  account has outgrown the cap (`AccountOutgrowsScan`).
- `ExpireBooking`: the expiry sweep. `SendEmail`: best effort, after the commit.

### Refunds and Cancellation and the code

- `FailOrder`, `CancelBooking`, `AdminChecks`/`AdminInserts`, `RetryRefund`: the
  four ways to commit a refund. `MayRefund` is the balance check of
  `createPendingRefund`. In `FailOrder` and `CancelBooking` it and the insert are
  one step: both run inside the transaction that holds the booking's row lock,
  and the money they look at can only be changed concurrently by an admin's
  insert, whose own check is a separate step here.
- `TakeJob`, `LoadRefund`, `CallGateway`, `OpenRecord`, `CommitRecord`, `GiveUp`:
  `executeRefund`, in a worker or in an admin's request. `OpenRecord` locks the
  row, sums the refunds and reads the booking without a lock; `CommitRecord`
  commits what was decided on that read. Between the two the booking may fail or
  be cancelled (`Overtake` remembers it). `RecordThrows`, in `Cancellation`, is the
  recording that `transitionTo` rolls back after the stale write there.
- `Finish` and `Fail` are what BullMQ does with the job; `AddJob` is `queue.add`
  under the job id `refund:<id>`, which a BullMQ that forbids the colon refuses
  (`QueueTakesJobIds`).
- `CaptureAgain`: the callback of a second captured attempt, which writes
  `payments.status` while the booking is still paid.
- `Requeue`, `GrowsOld`: the requeue sweep. `Dies`, `Stalls`: faults.
- `Submit`, `CheckPayment`, `CancelOrder`, `ReadPayment`, `CommitCancel`,
  `CommitRefused`, `SaveRequest`, `RequestDies`: `cancelBooking` of the customer
  and of the admin, from its unlocked read over Duffel's cancellation to the one
  transaction that moves the booking (T7), inserts the refund and books what
  Duffel paid back. `SaveRequest` saves the entity read before, every column that
  differs from the row by then.
- `OpenModal`, `OpenAdminForm`, `QuoteArrives`, `CloseModal`: the pages; their
  buttons go by a status the booking once had.

### The inboxes and the code

`Inbox`: `Lookup`, `SaveEvent`, `QueueEvent`, `Acknowledge`, `RequestFails` are the
steps of one request of a webhook controller; `SweepEvent` is the sweep over
unprocessed rows. `WebhookInbox` adds `processEvent` for pending, declined and
captured callbacks, `QueueOrder` (the job after the commit), `Prune` (retention)
and `RefundableTries` (`resolvePaymobTransactionId`). Several tries of a card
belong to one Paymob order, of which one at most is captured. A callback that is
redelivered after its row was deleted is stored and processed anew; `deleted`
counts the rows before it. `SupplierInbox` adds
the worker's transaction for a schedule change: `TakeNotice` locks the notice,
`AskDuffel` reads the order as it is now, `ReadSegments` and `WriteSegments`
compare and overwrite without a lock on the booking, the mail goes out before
`Commit`, and `RollBack` cannot call it back. A schedule is a version number, and
`DepartureOf` says which versions differ in what the mail reports.

### Sessions and SignIn and the code

- `Find`, `Claim`, `RevokeFamily`, `Issue`: `rotateRefresh`, whose conditional
  update decides between two callers and whose insert is a second statement.
  `EndSession` is the logout, `UpdateUser` the admin's deactivation.
- `Load`, `Retry`, `Logout`, `Answer`, `LoseAnswer`: the calls of a tab and the
  `Set-Cookie` of their answers (`web/.../api-client.ts`, `auth-context.tsx`).
- `CheckLimit`, `SaveLink`, `CountLink`, `MailLink`, `RequestDies`: a request for a
  magic link, whose limit is read, row saved, counter incremented and mail sent in
  four calls; a refused increment goes unnoticed. The limit per IP, which can only
  refuse more, is left out. `OpenLink`, `UseLink`, `InvalidateOthers`: the link.
  `StartGoogle`, `GoogleCallback`: Google. `ResolveKnown`, `ResolveUnknown`,
  `InsertUser`: `AccountResolutionService.resolve`.

### FlightSearch, Passengers, the console, and the code

- `LookUpCache`, `ReadBucket`, `SpendToken`, `AskDuffel`, `ComputeTtl`,
  `StoreAnswer`: `FlightsService.search`. `ReadBucket` and `SpendToken` are taken by
  bookings too (`Callers`); `spent` counts the calls made, and `lost` those made
  while another caller is between its read and its write, which that write makes
  the bucket forget. `Mount`, `Search`, `Receive`, `ReceiveError`: the results page;
  `SearchIncomplete` is the early return of `fetchFlights` on a form without an
  origin, a destination or a date. `page.query` is the form's query, `page.sent` the
  one last sent or restored. Time passes in ticks, so the cache's whole seconds and
  an offer's end can fall apart.
- `SaveParty` is `savePassengers` with `assignSupplierPassengerIds` for any body the
  validation lets through; `FulfillParty` is `mapPassengersToDuffel`.
- `PatchRule`, `ClearActive`, `SaveRule`: markup rules, with the partial unique index.
  `OpenForm`, `SubmitForm`, `SaveTicket`: tickets, saved whole with an audit row.
- `AdminLists` is one list page of the six: `SelectFilter`, `SearchFilter`, `NextPage`,
  `PreviousPage`, `Refresh` change what a render closes over, `Effect` loads, `Serve`
  and `ReceiveLoad` let loads overtake each other, `Click` and `ActionAnswered` reload
  with the closure of the render that was clicked.

## 3. Runs

| Run | Question | Distinct states |
|---|---|---|
| `races` | A booking is paid twice; two workers, a job handed out again, `order.created` and the sweep race, in an account that may outgrow the page cap. One outcome, the right order, one email, no POST without a cause, no refund over a ticket, legal transitions, and no booking left `paid`? | 144,616 |
| `pipeline` | Two refunds of one payment, two workers and an admin, a second captured attempt, stalls, crashes, a retry, lost answers. Recorded once, rollups backed by rows, no second payout without a cause, covered bookings closed? | 1,412,370 |
| `cancellation` | Two modals of the customer and an admin's form cancel one booking while refunds of it run. Do booking and Duffel agree, is Duffel's money booked once, does the customer get it and the markup, and do the tables only move as `Refunds` says? | 243,893 |
| `checkout` | A checkout page, a payment page from a list, repeated and lost requests, the offer expiring. One booking per key, every charge traceable, each screen tells a status the booking had, the outcome is shown? | 267,031 |
| `inbox` | Two tries of one gateway order, callbacks repeated and reordered through two requests, failing jobs, the sweep, retention and redelivery after it. Each stored row credited once, the attempt in line with what was applied, order jobs only after their commit, and nothing acknowledged lost? | 273,837 |
| `schedule` | Three schedule changes, two workers, notices before the order is linked. Do table and mail catch up with the airline? | 256,880 |
| `sessions` | Two tabs refresh, retry and log out while an admin deactivates the user. One holder per family, does the deactivation take effect, does the cookie left behind work? | 1,638,117 |
| `sign_in` | Three links, two forms, two tabs, magic links and Google, a request that dies between its steps. A link signs in once, mails bounded? | 2,063,149 |
| `pages` | Four parts that share no state, each from its own initial states: searches and bookings against cache and bucket, incomplete forms, answers out of order; parties of up to three, from any form, against any offer; two admins who edit rules and a ticket; one who reads a list whose rows arrive and change. Budget kept but for lost updates, no dead offer served, the list answers the search, the order fits the offer, a rule stays active until it is replaced, an audit log without gaps, a page that shows what its controls say, a walk that misses no row? | 2,047,156 |
| `expired_charge`, `retention`, `refund_queue` | disagreements, section 5 | |

The properties of each are listed in its `.cfg`; every one is stated, with the code
it is about, at the end of its module.

**Qualified properties.** Some of them say "unless": the code does let the bad case
happen, in a window the property names exactly, and the property says that there is
no other way to it. `OneBookingPerKey` excludes two requests that read the key at
the same time, and a lost key; `NoRefundWhileTicketed` a second payment, a second
POST and a verdict of the sweep that was read while a job or a POST of the booking
was under way; `PaidIsResolved` an account beyond the sweep's page cap;
`RollupIsSupported`, in two of its clauses, a second captured attempt;
`CoveredBookingIsClosed` a booking that changed after a covering recording had read
it; `CreditsOnce` a row stored anew after the retention; `CancellationsAgree`
(that an order cancelled at Duffel has its booking cancelled) a crash, a lost
answer, or another refund of the payment; `SettledMeansCurrent` and
`MailAgreesWithTable` two open transactions of one order; `CookieWorks` the cases
where the server took a race for theft, an answer was lost, an admin intervened or
a token expired; `MailsBounded` allows for the requests that overlap and for
refused increments; `SpendingIsCovered` the calls made between another caller's read
of the bucket and its write; `ScreensTellStatus` is about the booking and not about
the card; `ActiveRuleStays` excuses a save of the rule's own row as it was read;
`ResultsAnswerSearch` and `PageFollowsControls` an answer that overtakes a later
one's; `AuditIsUnbroken` a save over a change made since the read. Section 5 lists
what happens in those windows.

**Bounds.**

- Actors: two of a kind are enough for a race of that kind, and each run has the
  two that compete (workers, requests, tabs, modals, admins, searches). `pipeline`
  has two workers, of which one may take over the other's stalled job, and one
  admin's request. `pages` has two forms and one that is incomplete, two requests
  and one booking that shares the bucket.
- Rows: one booking where nothing couples bookings; two in `checkout`, since a key
  may lead to two. Two refund rows, since two share a payment. Two tries of a card,
  one captured and one declined. Two rules, each of which an admin can activate over
  the other. Three rows of a list with one per page, so that there is
  a first, a middle and a last page. Three tokens: a first one and two rotations,
  or two families.
- Counters: `MaxPosts = 3` covers two jobs plus one handed out again. `MaxStalls`, `MaxFaults`,
  `MaxPageFaults`, `MaxMishaps`, `MaxLost` and `MaxFlips` are one: a second fault of the same kind
  only repeats the first. `MaxCaptures = 2` in `pipeline` is a second captured attempt (one in
  `cancellation`, whose booking is past `paid`). `Deletable` is the final callback of one try and
  `MaxDeletions = 1`: a row that is deleted and comes back. `Total = 2` is the least amount that
  has a partial refund and two rows that cover it. `MaxTries = 2` (5 in the code) separates a retry
  from the last attempt; it is one in `cancellation`, which is not about retries, and `MaxPerEmail
  = 1` (3 in the code) reaches the limit at once. `MaxChanges = 3` schedule changes, of which the
  second moves only an arrival and the third takes the first back. `MaxParty = 3` reaches two
  adults and an infant, two infants and an adult, and types out of order.
- Time in the search part of `pages`: a bucket of one token that refills by one per tick of half a
  second, a cache of one second, two ticks; this puts an offer's end before, at and
  after the end of the entry.
- `AdminLists`: `MaxRows = 3`, `Limit = 1`, `MaxOut = 2` loads out at once, and
  `MaxEvents = 3` events of the table and the admin beyond turning pages.
- Lengths of a run: `MaxSends = 2` (a request and its repetition), `MaxCalls = 2` calls of the tabs
  at once, `MaxSearches = 2`, one of which can overtake the other, `MaxEdits = 5` (two rules
  created and three edits of two admins), `MaxJobs = 1` waiting job of an event, since a second one
  finds what the first left.

Deadlock is not checked: in every model the system may reach an end and stop.
Symmetry is used only where no liveness property is checked, and only over values
nothing distinguishes (tabs, tokens, links, forms, refund rows of one payment,
modals of one customer, admins, rules, searches, queries).

**Fairness.** Weak fairness on the steps of a process that is alive, on callbacks (redelivered, and
swept every minute while unprocessed), on the sweeps' turns, on the queue handing jobs out, on
Duffel settling what it received, on a page's poll every three seconds and on the expiry sweep.
Strong fairness where something else may get in between again and again: the reconciliation sweep,
which may be killed each time and needs to get through only once in a while; handing out a refund's
job, as other jobs may occupy the workers; taking a schedule notice, as its look-up may fail. Of an
account beyond the page cap nothing is assumed of the sweep's look-up: the cap is deterministic,
and the code leaves such a booking to be checked by hand. In `WebhookInbox` the sweep is only
assumed to turn to an event that has no job. `pipeline`, `cancellation`, `sessions`, `sign_in` and
`pages` are about safety alone. Nothing is assumed of the customer, of admins, of mail or of
`order.created`.

**Assumptions.** (1) `GrowsOld` waits for admin requests: the gateway call times out
after 15 s, the requeue age is five minutes. (2) The gateway never pays out more in
total than it captured. (3) A Duffel order that is live stays live until the booking
is cancelled. (4) A request of `POST /bookings` is over before its lock of 120 s
lapses. (5) A failed statement of a Postgres transaction fails the ones after it.
(6) No request or job of a callback is under way when its row is 90 days old.

The job id `refund:<id>` is not assumed to be accepted. `app/Backend/package-lock.json`
pins BullMQ 5.79.2, which throws on a custom id with a single colon; `QueueTakesJobIds`
is a constant, the theorems hold for both of its values, `refund_queue` checks with
`FALSE` what the installed version does, and `pipeline` and `cancellation` check with
`TRUE`, where workers run at all and the more can go wrong.

## 4. Proofs

Every invariant, action property and refinement that a passing run checks is also a
theorem; what the runs check beyond that is liveness.

| Theorem | Module | Statement |
|---|---|---|
| `HistoryAlwaysComplete` | `BookingLifecycleProofs` | the history of every booking is one legal chain that ends in its status |
| `FailedNeverCaptured` | | no booking that was ever paid is failed |
| `StatusNeverRevisited` | | no booking returns to a status it has left |
| `TypeCorrect` | `FulfillmentProofs` | `Spec => []TypeOK` |
| `OutcomeOnce`, `ConfirmedIsTicketed`, `OneEmail` | | the outcome invariants of `races` |
| `EveryPostIsAccounted` | | `PostsAreAccounted` of `races`, for any number of workers |
| `NeverRefundedOverTicket` | | `NoRefundWhileTicketed` of `races` |
| `FulfillmentImplementsLifecycle` | | `Fulfillment` implements `BookingLifecycle` |
| `TypeCorrect` | `WebhookInboxProofs` | `Spec => []TypeOK` |
| `NothingAckedIsLost` | | what the gateway was told is received has a row |
| `OrdersComeFromCredits`, `AttemptsTellTheirTries` | | the invariants of `inbox` |
| `CreditedExactlyOnce` | | `WebhookInbox` implements `ExactlyOnce` |
| `SettledIsCurrent`, `MailAgrees` | `SupplierInboxProofs` | the invariants of `schedule` |
| `NoticesAreKept` | | what Duffel was told is received has a row |
| `ChargesTraceable`, `ScreensTell`, `OneBookingForEachKey` | `CheckoutProofs` | the invariants of `checkout` |
| `CheckoutImplementsLifecycle` | | `Checkout` implements `BookingLifecycle`, from the insert on |
| `RefundsTypeCorrect`, `RefundsMoveForward` | `RefundsProofs` | types, and that refund rows only move forward |
| `RefundsRecordedOnce`, `RollupsAreSupported`, `PayoutsAreCaused`, `CoveredBookingsAreClosed` | | the invariants of `pipeline` |
| `RefundsImplementLifecycle` | | `Refunds` implements `BookingLifecycle`, from `paid` on |
| `CancellationsDoAgree`, `SupplierRefundIsBookedOnce`, `CustomerIsMadeWhole` | | the invariants of `cancellation` |
| `CancellationKeepsToRefunds` | | `Cancellation` implements `Refunds`, but for the stale write and the recording that throws on it |
| `CancellationKeepsMoney` | | the first three of them hold behind `Cancellation`, stale write included |
| `SessionsTypeCorrect`, `FamiliesHaveOneHolder`, `DeactivationHolds`, `CookiesWork` | `SessionsProofs` | types and the invariants of `sessions` |
| `LinksOpenOnce`, `MailsAreBounded` | | the invariants of `sign_in` |
| `SignInKeepsToSessions` | | `SignIn` implements `Sessions` |
| `SpendingCovered`, `CachedOffersDoLive`, `ResultsDoAnswer` | `PagesProofs` | the invariants of `pages` about `FlightSearch` |
| `OrdersFitOffers` | | `OrderFitsOffer` of `pages`, for a party of any size |
| `ActiveRulesStay`, `AuditNeverBreaks` | | the properties of `pages` about `AdminConsole` |
| `PagesFollowControls`, `WalksAreComplete` | | the invariants of `pages` about `AdminLists`, for any table and page size |

They hold for any sets of bookings, attempts, events, tabs, tokens, refunds,
workers, requests, admins and rows and for any bounds, from the `ASSUME` of each
module alone; fairness is not used. TLC evaluates those assumptions on every run.
They say that maps between rows are total, that a "no such row" value is not a row,
that pages (or executors) of two kinds are not the same ones, that bounds are
numbers, and that a payment has finitely many refund rows and finitely many forms
ask for links, since both are counted or summed.

*Lifecycle.* Type correctness and completeness of the history are proved together:
the appended row starts where the last one ended because the chain ends in the
status. `PastIsKnown` then says, for each status, which statuses are in the past:
that separates the unpaid from the paid, and makes every legal move one to a new
status.

*Fulfilment.* `TypeOK` is not inductive: a worker that dies hands `jobs` the booking
it works on, which must be a real one (`BusyHasBooking`). For the outcomes `IInv`
adds `PaidIsPaidFor` (a booking past the pay step has a succeeded payment, or T6
would commit no refund), `HeldOrdersAreLive` (an order a worker or the sweep holds
is live) and `PostsAreFresh` (numbers of future POSTs are unused, so that a POST
never overwrites a live order). The lemmas `ConfirmOutcome` and `FailOutcome` do the
work of T5 and T6 once; the four actions that apply them cite the lemma. `PostsInv`
counts, per booking, the POSTs sent, the workers about to POST and the jobs that
wait, all of which go back to a ledger row or a stall. `TicketInv` is what makes a
verdict outlive the read it rests on: where the sweep read that there is no order
while nothing of a booking paid once was under way (`blind` is `FALSE`), nothing comes
to be under way again, since only a payment or a stall of a running job adds a job; so
the absence (`AbsenceInv`) and a refusal (`RefusalInv`) still hold when the row lock is
taken, and nothing is ticketed afterwards either (`FailedInv`).

*Payment inbox.* `RequestsKnown` says what a request in the middle of its steps knows (an event,
which has been stored once the request is about to queue it), from which nothing acknowledged is
lost. `FinalsFollow` says that a try that is still open has no final callback in the table or in a
request, and had none deleted: so the fate an event was processed for does not change. The attempts
are then in line with the events applied, because a captured or declined callback writes the
attempt, marks its event and commits, all or nothing, and what was told stays told when rows are
deleted. For the refinement a row is named by its try and the rows deleted before it; only
`ProcessCaptured` on a stored event changes what is credited, by one row and one ledger entry, and
retention keeps it.

*Supplier inbox.* A job asks Duffel only after it has locked its notice, so what it
holds is at least as new as that notice (`JobsFit`). `Alone` is for the history
without an overlap: there is one job, what it writes is no older than the table, and
so every handled notice is covered by the table. `Told` follows the mail through the
one job: ahead of the table from the mail to the commit, equal to it otherwise.

*Checkout.* A page's screen is a claim about the past of its booking (`ScreenTells`),
and the past is read from the history (`Story`: what was reached, by status). Moves
of the tables only add to the past (`RowsMove`), so a claim once true stays true,
except those of `failed`, which no legal transition leaves. `RequestsInv` and
`WaitingInv` say that an answer that promises a booking has one, `ChargesInv` that a
row of `payment_attempts` keeps its booking. `KeyGuards` says what a key that nothing
went wrong with protects: one request at most is past it, and a booking made under it
is in it or in the hands of that request.

*Sessions.* `OneHolder` is stronger than the property: per family one live token, or
one call between claim and insert, and never both. A claim takes the live token
away and makes its call the holder; an insert does the reverse; whatever revokes
takes holders away. `TokensTell` keeps families apart, since a family is named by
its first token. `Shut` says that after a deactivation and a lifetime no call is
left that could bring a token: one that saw an active user has been answered. For the
cookie, `CookieInv` says that while nothing went wrong, a token on its way to the
browser is live and nobody else has it, and a cookie that no longer works has a call
whose answer replaces it.

*Sign in.* A link that is claimed is used (`LinksTell`), and a used one is found by
nobody. `LinksCounted` adds to the Redis counter the requests that have passed the
limit and are not counted yet: the last that passed saw room for itself, which leaves
room for all but one of those that overlap it. The mails sent and those about to be
sent never exceed what was counted or refused to be; a request that dies takes itself
out of either sum. Every step of `SignIn` is a step of `Sessions` or leaves its
variables alone.

*Refunds.* `RunsTell` is what a run knows: one that is recording was paid out, and one whose
transaction is open holds the lock of a pending row, alone. Hence a row is recorded by one run,
with one ledger row. `RowForward`, proved along with the invariant, gives `RefundsMoveForward`.
`MoneyInv` adds the sums. A recording that saw the payment covered stays right while others record
theirs, because rows only leave `pending` for `succeeded` under their own run, and amounts do not
change (`Covers`); that a later one cannot then see less, and undo the rollup, needs the gateway's
cap: where the payment was captured once, a second refund of a covered payment is not paid out, so
no run records it. A second capture raises the cap and writes the payment's status; only what the
property says without regard to `captures` survives it. `ClosingInv` says of every covering
recording that the booking, if it is to be closed, was read so, or was overtaken; a transition to
`cancelled` or `order_failed` while such a recording is open is what sets `overtaken`. For the
payouts, `Explained` counts what may still ask the gateway: the payouts so far, the runs ahead of
the call (`Ahead`) and the job or sweep that may start another (`Startable`) never exceed one plus
the faults and retries; each fault or retry pays for the run it adds.

*Cancellation.* `PageFits` says what a request knows between Duffel's irrevocable
answer and its commit: its order is cancelled, the booking never was, and the money
it holds is what Duffel paid back; `OnePage` that there is one such request, because
Duffel cancels an order once. `HasCause` carries the qualification of
`CancellationsAgree`. `CancelStep` proves in one go that a step keeps the invariant
and is a step of `Refunds`, or its stale write; `MoneyInv` is then shown to survive
that write too, as it changes a status only between `confirmed` and `cancelled`.

*Search.* `BudgetInv` says that the calls made, together with the tokens that are left
or that a caller is about to write back, are covered by the full bucket, its refill and
what was lost: a write sets the record back to what its caller read, and adds to `lost`
exactly the calls made since. `CacheInv` bounds an entry's end
by its offers' end and the delay of its `setex`. `PageInv` names the search the page
waits for: it is the last one and those still out are older (`IsLast`), or it is over
and whatever comes is late (`LastIsOver`).

*Passengers.* Ids are taken by rank: the rank in a finite set of numbers is an
injection into `1 .. n`, hence a bijection (`Ranks`, `NthIsThere`). So two inputs with
one id have one type and one turn, which makes them one input (`IdsDiffer`), and as
many distinct ids as passengers are all of them (`AllAreTaken`). The page's own
request asks no type more often than the offer has it, unless Duffel left a type open.

*Console.* `RulesInv` says what a request about to save will clear: nothing, unless it
activates a rule of its own, so that the commit that takes a rule's activity away puts
another in its place, or is the save of that rule's own row. What a request knows of
the ticket it read ends where `stale` begins. For the lists, `LastInv`
says that the load sent last is for the controls or excused, so that the load that
comes back last is too. `WalkInv` says where the rows are that a walk has not seen
yet: behind the page that is shown or on its way, by their place in the list
(`Behind`). Rows that arrive or come to match only push a row back (`RowsMoveBack`),
and the page that is read takes those that come next (`AnswerTells`); so when no page
follows, nothing is ahead.

Sums and counts. What a sum over a set of rows does when one row changes is an
induction, which the provers cannot apply as an operator-level theorem. It is proved
by first-order means: a counterexample among the finite subsets has a smallest one
(`WFMin` with the well-foundedness of strict inclusion), and the fold that defines the
sum takes one element off it.

Left to TLC. Liveness under fairness: `PaidIsResolved`, `OutcomeIsShown`,
`AckedIsProcessed` and `ScheduleCatchesUp`. Nothing else that a passing run checks.

## 5. Where code and documents disagree

Three runs show a disagreement as a counterexample.

- `expired_charge`: a charge captured just before expiry has its callback rejected
  for ever (`failed -> paid` is illegal): it is neither ticketed nor refunded, while
  `docs/sequence_diagrams.md:138` says the customer is "never silently charged for
  nothing".
- `refund_queue`: BullMQ throws on the job id `refund:<id>`
  (`bookings/queues/refund-execution.queue.ts:15`), `enqueueRefund` logs it and goes
  on, and the sweep tries the same id again: a refund committed by T6, a cancellation
  or a retry stays pending for ever, while `docs/sequence_diagrams.md:172` says that a
  gateway outage "can never lose the obligation to refund" and the comment at
  `fulfillment-outcome.service.ts:217` that the sweep picks the row up. Only an
  admin's manual refund, which runs inline, is executed.
- `retention`: the event a refund needs to find its gateway transaction is deleted
  after 90 days, while the comment at `refund-execution.service.ts:288` reads the
  transaction id back from it.

The models also let the following happen.

Orders and payments
- Two captured attempts of one booking queue two order jobs; the refusal of the
  second POST fails and refunds a booking whose first POST created an order
  (`payment-webhook.processor.ts:179`).
- The sweep looks at the booking's age only (`duffel-reconciliation.service.ts:42`): a
  job that waits or runs late in the window, or a POST still open, may create the order
  after the sweep read the list, and the booking is refunded over a ticket ("Never
  refund on an unproven absence — the ticket may exist", `:20`).
- Once the account holds more orders than `findOrder` reads (`duffel.service.ts:468`,
  2,000), the sweep never proves an absence again, and a booking without an order stays
  `paid` until somebody checks it by hand (`duffel-reconciliation.service.ts:103`).
- The late callback of a declined try turns a succeeded attempt into a failed one
  (`payment-webhook.processor.ts:206` has no guard on the attempt): the last callback
  that is applied has the say.
- Two requests with one idempotency key both pass `redis.get`
  (`bookings.controller.ts:49`) and make two bookings. A replayed `POST /bookings`
  has no `passenger_requirements`, which the page needs for its forms
  (`docs/api_contract.md:80`).
- `savePassengers`' T3 is rolled back by its own exception
  (`bookings.service.ts:313`); the expiry sweep does it later.

Refunds and cancellation
- A payout whose answer is lost is paid out again by the retry
  (`refund-execution.service.ts:173`).
- Two refunds pass the balance check of `createPendingRefund` together (`:105`,
  against the comment at `:70`), and an admin's retry commits a failed refund again
  without a balance check. Two recordings that overlap both write
  `partially_refunded` (`:207`).
- A second captured attempt of a booking that is still paid writes `succeeded` over
  what an admin's refund left in `payments.status` (`payment-webhook.processor.ts:189`).
- A covering recording reads the booking without a lock (`refund-execution.service.ts:223`):
  one that fails or is cancelled between that read and the commit, or over a payment
  refunded before, stays `cancelled` or `order_failed` with nobody left to close it.
- A cancellation that gives back part of the price never reaches `refunded`
  (`docs/booking_state_machine.md`, T8).
- `SaveRequest` writes back the status it read: a booking another modal cancelled
  reads `confirmed` again, without a history row.
- An order cancelled at Duffel whose request died, or whose refund was refused,
  leaves a confirmed booking without a seat, and no sweep looks for it.

Events
- A callback that is redelivered after its row was deleted is stored as new
  (`payments/webhooks.controller.ts:66`) and, if the booking is still paid, credited
  again.
- Two open transactions for schedule notices of one order can leave the older
  schedule in the table; the mail goes out before a rollback; a change of the
  arrival only is not mailed.

Sign in and sessions
- Requests for a link that overlap pass the limit together, and an increment Redis
  refuses goes unnoticed (`magic-link.service.ts:200`), so that more links can be mailed
  in a window than the "max 3 requests per email per 15 min" of `docs/auth_flow.md:85`.
  The counter's expiry is pushed out by every request, so the window slides.
- Two tabs that refresh at once are taken for theft (`docs/auth_flow.md:92`); when
  the loser revokes the family before the winner inserts, the winner's token lives
  on. A logout that overlaps a refresh leaves a live token behind.
- Two first sign-ins of one email: the loser of the insert fails, as Postgres
  refuses the SELECT the catch block would make.

Pages
- The payment page tells the customer of a failed booking that nothing was deducted from
  the card (`web/.../checkout/payment/page.tsx:247`; the comment at `:163`: "no money
  moved"). It goes by the booking's status; a card charged just before the offer expired
  has been charged all the same.
- An incomplete search form changes the URL, sends nothing and leaves the previous list
  on the page, without an error (`web/.../flights/page.tsx:189`).
- A return from the payment before its callback shows a fresh payable form. The
  payment page of a booking that was cancelled or refunded meanwhile says
  "confirming" for ever (`web/.../checkout/payment/page.tsx:67`); its countdown ends
  before the branch that sets its error. The comment of the confirmation page
  that any other status never reached `confirmed` does not hold for a cancelled one.
- Answers of searches overtake each other and are shown, and stored, as they come.
- A list of the console reloads with the filter and offset of an earlier render; an
  empty page beyond the end hides the pager; a row that leaves a filter makes the
  next page skip one.

Search, passengers, console
- The bucket holds 100 and refills 120 a minute, so that up to 219 calls pass in its
  first minute where Duffel's hard limit is 120 (`docs/nfr.md:24`; "safe margin below
  120", `flights.service.ts:21`). A write that races with another's forgets the calls
  made since its read, so that the real number has no bound but that of the callers
  (`lost`): the hard limit is not kept.
- Two infants may name one adult (`docs/erd.md:147`,
  `docs/duffel_api_integration_guide.md:55`); Duffel refuses the order after the
  payment. An offer passenger without a type makes the page's own form unacceptable.
- A patch of a rule's value is a save of the whole entity as it was read: read before
  another admin deactivated the rule, it activates it again; read before another
  activated it, it turns it off and leaves the shop without a markup.

## 6. Not modelled

- Data without control: the mapping of Duffel's offers, money formats, the markup
  formula, billing data, mail layout and the PDF of a ticket, sorting and filtering
  of results, landing and content pages, UI components.
- Read-only operations: `getDuffelHealth`, `getMetrics`, `getPaymentRollup`, the
  ledger's summary, airport look-up.
- Checks that end without a change of state: HMAC and signature checks, amount and
  currency mismatch, events of unknown types, a missing snapshot in the order job
  (which ends it as an unpaid status does), Duffel's 503 loop, which has no effect at
  Duffel.
- Limits that need no protocol: the limit of magic links per IP; the inbound limiter of the search
  (a sliding window in one Redis sorted set; it counts refused calls, too), the purge of old link
  rows, which nobody can tell from their expiry.
- Two rows of one timestamp in a list, which the code's order by `created_at` leaves
  in any order.
- Wiring, logging, health: no state of their own. `PROJECT.json` says for each
  component what is left out of it.
