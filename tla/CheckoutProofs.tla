--------------------------- MODULE CheckoutProofs ---------------------------
(***************************************************************************)
(* For any number of pages, requests, bookings, attempts and failures: the *)
(* pages and the API keep to the lifecycle of a booking, every charge can  *)
(* be traced, no screen says what was never so, and one key makes one      *)
(* booking.                                                                *)
(***************************************************************************)
EXTENDS Checkout, FiniteSetTheorems, TLAPS

-----------------------------------------------------------------------------
(* The tables of the booking: what its history tells of its status. *)

Reached(b) == {history[b][i].to : i \in 1 .. Len(history[b])}

RowsOK ==
    /\ status \in [Bookings -> BookingStatus \union {Absent}]
    /\ history \in [Bookings -> Seq(HistoryRows)]

Captured == {"paid", "confirmed", "order_failed", "cancelled", "refunded"}

Story(b) ==
    /\ status[b] = Absent => Reached(b) = {}
    /\ status[b] # Absent => status[b] \in Reached(b)
    /\ "awaiting_payment" \in Reached(b) => status[b] \notin {Absent, "pending"}
    /\ "paid" \in Reached(b) <=> status[b] \in Captured
    /\ "confirmed" \in Reached(b) =>
          \/ status[b] = "confirmed"
          \/ "cancelled" \in Reached(b) /\ status[b] \in {"cancelled", "refunded"}

RowsInv == RowsOK /\ \A b \in Bookings : Story(b)

\* What a step may do to the two tables.
RowsStep ==
    \/ UNCHANGED rowVars
    \/ \E b \in Bookings : InsertBooking(b) \/ \E to \in BookingStatus : TransitionTo(b, to)

\* Nothing told is taken back, and a failed booking stays failed.
RowsMove ==
    \A b \in Bookings : /\ Reached(b) \subseteq Reached(b)'
                        /\ status[b] = "failed" => status'[b] = "failed"

LEMMA EverWasIsReached ==
  ASSUME NEW b, NEW s
  PROVE  EverWas(b, s) <=> s \in Reached(b)
  BY DEF EverWas, Reached

\* A legal transition adds the new status to what was reached.
LEMMA TransitionReaches ==
  ASSUME RowsOK, NEW b \in Bookings, NEW to \in BookingStatus,
         <<status[b], to>> \in LegalTransitions, TransitionTo(b, to)
  PROVE  /\ RowsOK'
         /\ status' = [status EXCEPT ![b] = to]
         /\ Reached(b)' = Reached(b) \union {to}
         /\ \A c \in Bookings : c # b => Reached(c)' = Reached(c)
  <1> DEFINE row == HistoryRow(status[b], to)
  <1>1. /\ status[b] # to /\ status[b] \in BookingStatus
        /\ row \in HistoryRows /\ row.to = to
    BY DEF LegalTransitions, HistoryRow, HistoryRows, BookingStatus
  <1>2. /\ status' = [status EXCEPT ![b] = to]
        /\ history' = [history EXCEPT ![b] = Append(@, row)]
    BY <1>1 DEF TransitionTo
  <1> HIDE DEF row
  <1>3. history \in [Bookings -> Seq(HistoryRows)]
        /\ status \in [Bookings -> BookingStatus \union {Absent}]
    BY DEF RowsOK
  <1>4. Append(history[b], row) \in Seq(HistoryRows)
    BY <1>1, <1>3
  <1>5. RowsOK'
    BY <1>2, <1>3, <1>4 DEF RowsOK
  <1>6. /\ history'[b] = Append(history[b], row)
        /\ \A c \in Bookings : c # b => history'[c] = history[c]
    BY <1>2, <1>3
  <1>7. /\ Len(history'[b]) = Len(history[b]) + 1
        /\ Len(history[b]) \in Nat
        /\ \A i \in 1 .. Len(history[b]) : history'[b][i] = history[b][i]
        /\ history'[b][Len(history[b]) + 1] = row
    BY <1>1, <1>3, <1>6
  <1>8. Reached(b)' = Reached(b) \union {to}
    <2>1. ASSUME NEW s PROVE s \in Reached(b)' <=> s \in Reached(b) \/ s = to
      <3>1. CASE s \in Reached(b)'
        <4>1. PICK i \in 1 .. Len(history'[b]) : s = history'[b][i].to
          BY <3>1 DEF Reached
        <4>2. CASE i \in 1 .. Len(history[b])
          <5>1. s = history[b][i].to
            BY <1>7, <4>1, <4>2
          <5> QED
            BY <3>1, <4>2, <5>1 DEF Reached
        <4>3. CASE i = Len(history[b]) + 1
          BY <1>1, <1>7, <3>1, <4>1, <4>3
        <4> QED
          BY <1>7, <4>1, <4>2, <4>3
      <3>2. CASE s \in Reached(b)
        <4>1. PICK i \in 1 .. Len(history[b]) : s = history[b][i].to
          BY <3>2 DEF Reached
        <4>2. i \in 1 .. Len(history'[b]) /\ s = history'[b][i].to
          BY <1>7, <4>1
        <4> QED
          BY <3>2, <4>2 DEF Reached
      <3>3. CASE s = to
        <4>1. Len(history[b]) + 1 \in 1 .. Len(history'[b])
          BY <1>7
        <4> QED
          BY <1>1, <1>7, <3>3, <4>1 DEF Reached
      <3> QED
        BY <3>1, <3>2, <3>3
    <2> QED
      BY <2>1
  <1>9. \A c \in Bookings : c # b => Reached(c)' = Reached(c)
    BY <1>6 DEF Reached
  <1> QED
    BY <1>2, <1>5, <1>8, <1>9

LEMMA InsertReaches ==
  ASSUME RowsOK, NEW b \in Bookings, InsertBooking(b)
  PROVE  /\ RowsOK'
         /\ status' = [status EXCEPT ![b] = "pending"]
         /\ Reached(b)' = {"pending"}
         /\ \A c \in Bookings : c # b => Reached(c)' = Reached(c)
  <1> DEFINE row == HistoryRow("pending", "pending")
  <1>1. row \in HistoryRows /\ row.to = "pending" /\ "pending" \in BookingStatus
    BY DEF HistoryRow, HistoryRows, BookingStatus
  <1>2. /\ status' = [status EXCEPT ![b] = "pending"]
        /\ history' = [history EXCEPT ![b] = <<row>>]
    BY DEF InsertBooking
  <1> HIDE DEF row
  <1>3. <<row>> \in Seq(HistoryRows) /\ Len(<<row>>) = 1 /\ <<row>>[1] = row
    BY <1>1
  <1>4. RowsOK'
    BY <1>1, <1>2, <1>3 DEF RowsOK
  <1>5. history'[b] = <<row>> /\ \A c \in Bookings : c # b => history'[c] = history[c]
    BY <1>2 DEF RowsOK
  <1>6. Reached(b)' = {"pending"}
    BY <1>1, <1>3, <1>5 DEF Reached
  <1>7. \A c \in Bookings : c # b => Reached(c)' = Reached(c)
    BY <1>5 DEF Reached
  <1> QED
    BY <1>2, <1>4, <1>6, <1>7

LEMMA RowsKept ==
  ASSUME RowsInv, RowsStep
  PROVE  RowsInv' /\ RowsMove
  <1>0. RowsOK /\ \A b \in Bookings : Story(b)
    BY DEF RowsInv
  <1>1. CASE UNCHANGED rowVars
    <2>1. status' = status /\ history' = history
      BY <1>1 DEF rowVars
    <2>2. RowsOK'
      BY <1>0, <2>1 DEF RowsOK
    <2>3. \A b \in Bookings : Reached(b)' = Reached(b)
      BY <2>1 DEF Reached
    <2>4. \A b \in Bookings : Story(b)'
      BY <1>0, <2>1, <2>3 DEF Story
    <2>5. RowsMove
      BY <2>1, <2>3 DEF RowsMove
    <2> QED
      BY <2>2, <2>4, <2>5 DEF RowsInv
  <1>2. ASSUME NEW b \in Bookings, InsertBooking(b) PROVE RowsInv' /\ RowsMove
    <2>1. status[b] = Absent
      BY <1>2 DEF InsertBooking
    <2>2. Reached(b) = {}
      BY <1>0, <2>1 DEF Story
    <2>3. /\ RowsOK'
          /\ status' = [status EXCEPT ![b] = "pending"]
          /\ Reached(b)' = {"pending"}
          /\ \A c \in Bookings : c # b => Reached(c)' = Reached(c)
      BY <1>0, <1>2, InsertReaches
    <2>4. status'[b] = "pending" /\ \A c \in Bookings : c # b => status'[c] = status[c]
      BY <1>0, <2>3 DEF RowsOK
    <2>5. Story(b)'
      BY <2>3, <2>4 DEF Story, Absent, Captured
    <2>6. ASSUME NEW c \in Bookings, c # b PROVE Story(c)'
      <3>1. status'[c] = status[c] /\ Reached(c)' = Reached(c) /\ Story(c)
        BY <1>0, <2>3, <2>4, <2>6
      <3> QED
        BY <3>1 DEF Story
    <2>7. RowsMove
      BY <2>1, <2>2, <2>3, <2>4 DEF RowsMove, Absent
    <2> QED
      BY <2>3, <2>5, <2>6, <2>7 DEF RowsInv
  <1>3. ASSUME NEW b \in Bookings, NEW to \in BookingStatus, TransitionTo(b, to)
        PROVE  RowsInv' /\ RowsMove
    <2>1. CASE UNCHANGED rowVars
      BY <1>1, <2>1
    <2>2. CASE <<status[b], to>> \in LegalTransitions
      <3>1. /\ RowsOK'
            /\ status' = [status EXCEPT ![b] = to]
            /\ Reached(b)' = Reached(b) \union {to}
            /\ \A c \in Bookings : c # b => Reached(c)' = Reached(c)
        BY <1>0, <1>3, <2>2, TransitionReaches
      <3>2. status'[b] = to /\ \A c \in Bookings : c # b => status'[c] = status[c]
        BY <1>0, <3>1 DEF RowsOK
      <3>3. Story(b) /\ <<status[b], to>> \in LegalTransitions
        BY <1>0, <2>2
      <3>4. Story(b)'
        BY <3>1, <3>2, <3>3 DEF Story, Absent, Captured, LegalTransitions
      <3>5. ASSUME NEW c \in Bookings, c # b PROVE Story(c)'
        <4>1. status'[c] = status[c] /\ Reached(c)' = Reached(c) /\ Story(c)
          BY <1>0, <3>1, <3>2, <3>5
        <4> QED
          BY <4>1 DEF Story
      <3>6. status[b] # "failed"
        BY <2>2 DEF LegalTransitions
      <3>7. RowsMove
        BY <3>1, <3>2, <3>6 DEF RowsMove
      <3> QED
        BY <3>1, <3>4, <3>5, <3>7 DEF RowsInv
    <2> QED
      BY <1>3, <2>1, <2>2 DEF TransitionTo
  <1> QED
    BY <1>1, <1>2, <1>3 DEF RowsStep

-----------------------------------------------------------------------------
(* What a screen tells of its booking, as a condition on the state. *)

Unbooked == {"closed", "offer_error", "review", "creating"}
Paying == PaymentScreens \union ConfirmationScreens

ScreenTells(s, b, a) ==
    /\ s \notin Unbooked => b \in Bookings
    /\ s \in Paying => "awaiting_payment" \in Reached(b)
    /\ s = "form" => a \in Attempts /\ attempt[a] = b
    /\ s = "lapsed" => status[b] = "failed"
    /\ s = "being_refunded" => "order_failed" \in Reached(b)
    /\ s \in ConfirmationScreens => "confirmed" \in Reached(b)
    /\ s = "other" => "cancelled" \in Reached(b)
    /\ s \notin {"waiting", "refused"}
    /\ s = "confirming" => "paid" \in Reached(b)

PageRows == [screen : Screens, booking : Bookings \union {NoBooking},
             filled : BOOLEAN, attempt : Attempts \union {NoAttempt}]

PagesInv ==
    /\ page \in [Pages -> PageRows]
    /\ \A p \in Pages : ScreenTells(page[p].screen, page[p].booking, page[p].attempt)

\* A payment_attempts row keeps its booking.
AttemptsKept == \A a \in Attempts : attempt[a] \in Bookings => attempt'[a] = attempt[a]

LEMMA TellsKept ==
  ASSUME NEW s, NEW b, NEW a, ScreenTells(s, b, a), RowsMove, AttemptsKept
  PROVE  ScreenTells(s, b, a)'
  <1>1. CASE b \in Bookings
    <2>1. /\ Reached(b) \subseteq Reached(b)'
          /\ status[b] = "failed" => status'[b] = "failed"
          /\ a \in Attempts /\ attempt[a] = b => attempt'[a] = b
      BY <1>1 DEF RowsMove, AttemptsKept
    <2> QED
      BY <1>1, <2>1 DEF ScreenTells
  <1>2. CASE b \notin Bookings
    <2>1. s \in Unbooked
      BY <1>2 DEF ScreenTells
    <2> QED
      BY <2>1 DEF ScreenTells, Unbooked, Paying, PaymentScreens, ConfirmationScreens
  <1> QED
    BY <1>1, <1>2

\* A step that leaves the pages alone, ...
LEMMA PagesStay ==
  ASSUME PagesInv, RowsMove, AttemptsKept, page' = page
  PROVE  PagesInv'
  <1>1. ASSUME NEW p \in Pages
        PROVE  ScreenTells(page[p].screen, page[p].booking, page[p].attempt)'
    <2>1. PICK s, b, a : s = page[p].screen /\ b = page[p].booking /\ a = page[p].attempt
      OBVIOUS
    <2>2. ScreenTells(s, b, a)
      BY <2>1 DEF PagesInv
    <2>3. ScreenTells(s, b, a)'
      BY <2>2, TellsKept
    <2> QED
      BY <2>1, <2>3 DEF ScreenTells
  <1> QED
    BY <1>1 DEF PagesInv

\* ... or changes one of them to show something that is so.
LEMMA PageShows ==
  ASSUME PagesInv, RowsMove, AttemptsKept, NEW p \in Pages, NEW row \in PageRows,
         page' = [page EXCEPT ![p] = row],
         NEW s, NEW b, NEW a, s = row.screen, b = row.booking, a = row.attempt,
         ScreenTells(s, b, a)'
  PROVE  PagesInv'
  <1>0. page \in [Pages -> PageRows]
    BY DEF PagesInv
  <1>1. page' \in [Pages -> PageRows]
    BY <1>0
  <1>2. ASSUME NEW q \in Pages
        PROVE  ScreenTells(page[q].screen, page[q].booking, page[q].attempt)'
    <2>1. CASE q = p
      <3>1. page'[q] = row
        BY <1>0, <2>1
      <3> QED
        BY <3>1 DEF ScreenTells
    <2>2. CASE q # p
      <3>1. page'[q] = page[q]
        BY <1>0, <2>2
      <3>2. PICK t, c, e : t = page[q].screen /\ c = page[q].booking /\ e = page[q].attempt
        OBVIOUS
      <3>3. ScreenTells(t, c, e)
        BY <3>2 DEF PagesInv
      <3>4. ScreenTells(t, c, e)'
        BY <3>3, TellsKept
      <3> QED
        BY <3>1, <3>2, <3>4 DEF ScreenTells
    <2> QED
      BY <2>1, <2>2
  <1> QED
    BY <1>1, <1>2 DEF PagesInv

-----------------------------------------------------------------------------
(* The tables under the steps of the pages, the API and the sweep. *)

CheckoutInv == RowsInv /\ PagesInv

LEMMA StatusStrings ==
  /\ {"pending", "awaiting_payment", "paid", "confirmed"} \subseteq BookingStatus
  /\ {"order_failed", "failed", "cancelled", "refunded"} \subseteq BookingStatus
  BY DEF BookingStatus

LEMMA StepOfRows ==
  ASSUME CheckoutInv, Next
  PROVE  RowsStep
  <1> USE StatusStrings
  <1>1. ASSUME NEW p \in Keys, SavePassengers(p) PROVE RowsStep
    <2>1. page[p].booking \in Bookings
      BY <1>1 DEF SavePassengers, CheckoutInv, PagesInv, ScreenTells, Unbooked, Pages
    <2> QED
      BY <1>1, <2>1 DEF SavePassengers, RowsStep
  <1>2. ASSUME NEW p \in Pages, AttemptRefused(p) PROVE RowsStep
    <2>1. page[p].booking \in Bookings
      BY <1>2 DEF AttemptRefused, CheckoutInv, PagesInv, ScreenTells, Unbooked
    <2> QED
      BY <1>2, <2>1 DEF AttemptRefused, RowsStep
  <1>3. ASSUME NEW r \in Requests, FetchAndInsert(r) PROVE RowsStep
    <2>1. (CHOOSE b \in NewBookings : TRUE) \in NewBookings
      BY <1>3 DEF FetchAndInsert
    <2> QED
      BY <1>3, <2>1 DEF FetchAndInsert, RowsStep, NewBookings
  <1>4. ASSUME NEW b \in Bookings, ExpirySweep(b) \/ Backend(b) PROVE RowsStep
    BY <1>4 DEF ExpirySweep, Backend, RowsStep
  <1>5. ASSUME NEW a \in Attempts, Callback(a) PROVE RowsStep
    BY <1>5 DEF Callback, RowsStep
  <1>6. ASSUME NEW p \in Keys,
               OpenCheckout(p) \/ SendCreate(p) \/ AnswerCreate(p) \/ LoseAnswer(p) \/ LockLapses(p)
        PROVE  RowsStep
    BY <1>6 DEF OpenCheckout, SendCreate, AnswerCreate, LoseAnswer, LockLapses, OnlyPage, RowsStep
  <1>7. ASSUME NEW p \in Pages,
               LoadBooking(p) \/ CreateAttempt(p) \/ AttemptFails(p) \/ Poll(p) \/ Pay(p)
        PROVE  RowsStep
    BY <1>7 DEF LoadBooking, CreateAttempt, AttemptFails, Poll, Pay, OnlyPage, RowsStep
  <1>8. ASSUME NEW p \in Pages,
               \/ Reopen(p) \/ LoadConfirmation(p) \/ ReloadConfirmation(p)
               \/ \E b \in Bookings : OpenPayment(p, b)
        PROVE  RowsStep
    BY <1>8 DEF Reopen, LoadConfirmation, ReloadConfirmation, OpenPayment, OnlyPage, RowsStep
  <1>9. ASSUME NEW r \in Requests,
               ReadLock(r) \/ TakeLock(r) \/ FetchFails(r) \/ StoreKey(r) \/ Unlock(r) \/ Die(r)
        PROVE  RowsStep
    BY <1>9 DEF ReadLock, TakeLock, FetchFails, StoreKey, Unlock, Die, RowsStep
  <1>10. CASE ExpireOffer
    BY <1>10 DEF ExpireOffer, RowsStep
  <1> QED
    BY <1>1, <1>2, <1>3, <1>4, <1>5, <1>6, <1>7, <1>8, <1>9, <1>10
       DEF Next, KeyStep, PageStep, RequestStep, Pages

\* A step of the tables is a step of the lifecycle.
LEMMA RowsStepIsLifecycleStep == RowsStep => [Lifecycle!Next]_(Lifecycle!rowVars)
  BY DEF RowsStep, rowVars, Lifecycle!rowVars, Lifecycle!Next, Lifecycle!Create, Lifecycle!Move,
         InsertBooking, Lifecycle!InsertBooking, TransitionTo, Lifecycle!TransitionTo,
         BookingStatus, Lifecycle!BookingStatus, LegalTransitions, Lifecycle!LegalTransitions,
         HistoryRow, Lifecycle!HistoryRow, Absent, Lifecycle!Absent

-----------------------------------------------------------------------------
(* The pages under every step. *)

LEMMA StepOfAttempts ==
  ASSUME Next
  PROVE  AttemptsKept
  <1>1. ASSUME NEW p \in Pages, CreateAttempt(p) PROVE AttemptsKept
    <2>1. PICK a \in NewAttempts : attempt' = [attempt EXCEPT ![a] = page[p].booking]
      BY <1>1 DEF CreateAttempt
    <2>2. a \in Attempts /\ attempt[a] = NoBooking
      BY <2>1 DEF NewAttempts
    <2> QED
      BY <2>1, <2>2, CheckoutAssumption DEF AttemptsKept
  <1>2. CASE attempt' = attempt
    BY <1>2 DEF AttemptsKept
  <1>3. ASSUME NEW p \in Keys, KeyStep(p) PROVE attempt' = attempt
    BY <1>3 DEF KeyStep, OpenCheckout, SendCreate, AnswerCreate, LoseAnswer, LockLapses,
                SavePassengers, OnlyPage, serverVars
  <1>4. ASSUME NEW p \in Pages, PageStep(p), ~ CreateAttempt(p) PROVE attempt' = attempt
    BY <1>4 DEF PageStep, LoadBooking, AttemptFails, AttemptRefused, Poll, Pay, Reopen,
                LoadConfirmation, ReloadConfirmation, OnlyPage, serverVars
  <1>5. ASSUME NEW r \in Requests, RequestStep(r) PROVE attempt' = attempt
    BY <1>5 DEF RequestStep, ReadLock, TakeLock, FetchAndInsert, FetchFails, StoreKey, Unlock, Die
  <1>6. ASSUME NEW b \in Bookings,
               ExpirySweep(b) \/ Backend(b) \/ \E p \in Links : OpenPayment(p, b)
        PROVE  attempt' = attempt
    BY <1>6 DEF ExpirySweep, Backend, OpenPayment, OnlyPage, serverVars
  <1>7. ASSUME NEW a \in Attempts, Callback(a) PROVE attempt' = attempt
    BY <1>7 DEF Callback, serverVars
  <1>8. ExpireOffer => attempt' = attempt
    BY DEF ExpireOffer, serverVars
  <1> QED
    BY <1>1, <1>2, <1>3, <1>4, <1>5, <1>6, <1>7, <1>8 DEF Next

\* A page changes its screen only, to one that is so already.
LEMMA ShowTells ==
  ASSUME PagesInv, RowsMove, AttemptsKept, NEW p \in Pages, NEW s \in Screens, Show(p, s),
         \/ ScreenTells(s, page[p].booking, page[p].attempt)
         \/ \E b, a : /\ b = page[p].booking /\ a = page[p].attempt
                       /\ ScreenTells(s, b, a)'
  PROVE  PagesInv'
  <1>1. PICK b, a : b = page[p].booking /\ a = page[p].attempt
    OBVIOUS
  <1>2. ScreenTells(s, b, a)'
    BY <1>1, TellsKept
  <1>3. page[p] \in PageRows
    BY DEF PagesInv
  <1>4. PICK row \in PageRows : row = [page[p] EXCEPT !.screen = s]
    BY <1>3 DEF PageRows
  <1>5. row.screen = s /\ row.booking = b /\ row.attempt = a
    BY <1>1, <1>3, <1>4 DEF PageRows
  <1>6. page' = [page EXCEPT ![p] = row]
    BY <1>4 DEF Show
  <1> QED
    BY <1>2, <1>5, <1>6, PageShows

\* The screens before a booking is made, and those that say nothing new of it.
LEMMA PlainScreens ==
  ASSUME NEW b, NEW a
  PROVE  /\ \A s \in Unbooked : s \in Screens /\ ScreenTells(s, b, a)
         /\ b \in Bookings => ScreenTells("passengers", b, a)
         /\ b \in Bookings /\ "awaiting_payment" \in Reached(b)
               => /\ ScreenTells("opening", b, a)
                  /\ ScreenTells("intent", b, a)
                  /\ ScreenTells("error", b, a)
  BY DEF ScreenTells, Unbooked, Paying, CheckoutScreens, PaymentScreens, ConfirmationScreens, Screens

LEMMA PagesKeptByKeySteps ==
  ASSUME CheckoutInv, RowsMove, AttemptsKept, NEW p \in Keys,
         OpenCheckout(p) \/ SendCreate(p) \/ LoseAnswer(p) \/ LockLapses(p)
  PROVE  PagesInv'
  <1>0. p \in Pages /\ PagesInv
    BY DEF Pages, CheckoutInv
  <1>1. {"review", "offer_error", "creating"} \subseteq Unbooked
    BY DEF Unbooked
  <1>2. CASE \E s \in Unbooked : Show(p, s)
    BY <1>0, <1>2, ShowTells, PlainScreens
  <1>3. CASE page' = page
    BY <1>0, <1>3, PagesStay
  <1> QED
    BY <1>1, <1>2, <1>3 DEF OpenCheckout, SendCreate, LoseAnswer, LockLapses

\* What a request has found, and what a page that waits knows of its requests.
CreateRows == [pc : {"idle", "sent", "locking", "done"} \union Running,
               answer : {"none", "created", "replayed", "conflict", "gone", "failed"},
               booking : Bookings \union {NoBooking}]

RequestTells(row) ==
    /\ row.answer \in {"created", "replayed"} \/ row.pc = "storing" => row.booking \in Bookings
    /\ row.pc = "unlocking" => row.answer \in {"gone", "failed"}

RequestsInv ==
    /\ create \in [Requests -> CreateRows]
    /\ \A r \in Requests : RequestTells(create[r])

WaitingInv == \A p \in Keys : page[p].screen = "creating" => Sent(p) # {}

LEMMA SentIsFinite ==
  ASSUME NEW p \in Keys
  PROVE  /\ IsFiniteSet(Sent(p))
         /\ Cardinality(Sent(p)) \in 0 .. MaxSends
         /\ Cardinality(Sent(p)) = 0 => Sent(p) = {}
  <1>1. IsFiniteSet(1 .. MaxSends) /\ Cardinality(1 .. MaxSends) = MaxSends
    BY CheckoutAssumption, FS_Interval
  <1>2. Sent(p) \subseteq 1 .. MaxSends
    BY DEF Sent
  <1>3. /\ IsFiniteSet(Sent(p))
        /\ Cardinality(Sent(p)) <= MaxSends
    BY <1>1, <1>2, FS_Subset
  <1>4. Cardinality(Sent(p)) \in Nat
    BY <1>3, FS_CardinalityType
  <1> QED
    BY <1>3, <1>4, FS_EmptySet, CheckoutAssumption

LEMMA LastRequest ==
  ASSUME WaitingInv, NEW p \in Keys, page[p].screen = "creating"
  PROVE  <<p, Cardinality(Sent(p))>> \in Requests
  BY SentIsFinite, CheckoutAssumption DEF WaitingInv, Requests

LEMMA PagesKeptByAnswer ==
  ASSUME CheckoutInv, RequestsInv, WaitingInv, RowsMove, AttemptsKept,
         NEW p \in Keys, AnswerCreate(p)
  PROVE  PagesInv'
  <1>0. p \in Pages /\ PagesInv /\ page[p] \in PageRows
    BY DEF Pages, CheckoutInv, PagesInv
  <1>1. PICK r \in Requests :
          page' = [page EXCEPT ![p] =
             CASE create[r].answer = "created" ->
                      ShownPage("passengers", create[r].booking, TRUE, NoAttempt)
               [] create[r].answer = "replayed" ->
                      ShownPage("passengers", create[r].booking, FALSE, NoAttempt)
               [] create[r].answer = "gone" -> [@ EXCEPT !.screen = "offer_error"]
               [] OTHER -> [@ EXCEPT !.screen = "review"]]
    BY LastRequest DEF AnswerCreate
  <1>2. CASE create[r].answer \in {"created", "replayed"}
    <2>1. create[r].booking \in Bookings
      BY <1>2 DEF RequestsInv, RequestTells
    <2>2. PICK row : /\ row \in {ShownPage("passengers", create[r].booking, f, NoAttempt) : f \in BOOLEAN}
                     /\ page' = [page EXCEPT ![p] = row]
      BY <1>1, <1>2
    <2>3. /\ row \in PageRows
          /\ row.screen = "passengers" /\ row.booking = create[r].booking /\ row.attempt = NoAttempt
      BY <2>1, <2>2 DEF ShownPage, PageRows, Screens, CheckoutScreens
    <2>4. PICK b \in Bookings : b = create[r].booking
      BY <2>1
    <2>5. ScreenTells("passengers", b, NoAttempt)'
      BY PlainScreens, TellsKept
    <2> QED
      BY <1>0, <2>2, <2>3, <2>4, <2>5, PageShows
  <1>3. CASE create[r].answer \notin {"created", "replayed"}
    <2>1. {"review", "offer_error"} \subseteq Unbooked
      BY DEF Unbooked
    <2>2. \E s \in Unbooked : Show(p, s)
      BY <1>1, <1>3, <2>1 DEF Show
    <2> QED
      BY <1>0, <2>2, ShowTells, PlainScreens
  <1> QED
    BY <1>2, <1>3

LEMMA PagesKeptBySave ==
  ASSUME CheckoutInv, RowsMove, RowsInv', AttemptsKept, NEW p \in Keys, SavePassengers(p)
  PROVE  PagesInv'
  <1>0. p \in Pages /\ PagesInv
    BY DEF Pages, CheckoutInv
  <1>1. PICK b, a : b = page[p].booking /\ a = page[p].attempt
    OBVIOUS
  <1>2. b \in Bookings /\ status[b] = "pending" /\ TransitionTo(b, "awaiting_payment")
    BY <1>0, <1>1 DEF SavePassengers, PagesInv, ScreenTells, Unbooked
  <1>3. status'[b] = "awaiting_payment"
    BY <1>2 DEF TransitionTo, CheckoutInv, RowsInv, RowsOK
  <1>4. "awaiting_payment" \in Reached(b)'
    BY <1>2, <1>3 DEF RowsInv, Story, Absent
  <1>5. ScreenTells("opening", b, a)'
    BY <1>2, <1>4 DEF ScreenTells, ConfirmationScreens
  <1>6. CASE Show(p, "opening")
    BY <1>0, <1>1, <1>5, <1>6, ShowTells DEF Screens, PaymentScreens
  <1>7. CASE page' = page
    BY <1>0, <1>7, PagesStay
  <1> QED
    BY <1>6, <1>7 DEF SavePassengers

\* The payment page is about a booking that has waited for its payment.
LEMMA PayingPage ==
  ASSUME CheckoutInv, NEW p \in Pages, page[p].screen \in Paying
  PROVE  /\ page[p].booking \in Bookings
         /\ "awaiting_payment" \in Reached(page[p].booking)
         /\ status[page[p].booking] \in BookingStatus \ {"pending"}
         /\ Story(page[p].booking)
  <1>1. /\ page[p].booking \in Bookings
        /\ "awaiting_payment" \in Reached(page[p].booking)
    BY DEF CheckoutInv, PagesInv, ScreenTells, Unbooked, Paying, PaymentScreens, ConfirmationScreens
  <1>2. Story(page[p].booking) /\ status[page[p].booking] \in BookingStatus \union {Absent}
    BY <1>1 DEF CheckoutInv, RowsInv, RowsOK
  <1> QED
    BY <1>1, <1>2 DEF Story

\* Where the status of a booking leads is so.
LEMMA StatusTells ==
  ASSUME NEW b \in Bookings, NEW a, Story(b), "awaiting_payment" \in Reached(b),
         status[b] \in BookingStatus \ {"pending"}
  PROVE  /\ status[b] \notin {"awaiting_payment", "confirmed", "order_failed", "failed"}
               => ScreenTells("confirming", b, a)
         /\ status[b] = "paid" => ScreenTells("confirming", b, a)
         /\ status[b] = "confirmed" => ScreenTells("confirmation", b, a)
         /\ status[b] = "order_failed" => ScreenTells("being_refunded", b, a)
         /\ status[b] = "failed" => ScreenTells("lapsed", b, a)
  BY DEF ScreenTells, Story, Captured, ConfirmationScreens, BookingStatus, Absent

LEMMA PagesKeptByLoads ==
  ASSUME CheckoutInv, RowsMove, AttemptsKept, NEW p \in Pages, LoadBooking(p) \/ Poll(p)
  PROVE  PagesInv'
  <1> DEFINE b == page[p].booking
             a == page[p].attempt
  <1>0. PagesInv
    BY DEF CheckoutInv
  <1>1. page[p].screen \in Paying
    BY DEF LoadBooking, Poll, Polling, Paying, PaymentScreens
  <1>2. /\ b \in Bookings /\ "awaiting_payment" \in Reached(b)
        /\ status[b] \in BookingStatus \ {"pending"} /\ Story(b)
    BY <1>1, PayingPage
  <1>3. {"intent", "confirmation", "being_refunded", "lapsed", "confirming", "error"} \subseteq Screens
    BY DEF Screens, PaymentScreens, ConfirmationScreens
  <1>4. \/ Show(p, "intent") \/ Show(p, "error")
        \/ status[b] \notin {"awaiting_payment", "confirmed", "order_failed", "failed"}
              /\ Show(p, "confirming")
        \/ status[b] = "confirmed" /\ Show(p, "confirmation")
        \/ status[b] = "order_failed" /\ Show(p, "being_refunded")
        \/ status[b] = "failed" /\ Show(p, "lapsed")
    <2>1. CASE LoadBooking(p)
      BY <2>1 DEF LoadBooking, Detail
    <2>2. CASE Poll(p)
      BY <2>2 DEF Poll, Detail
    <2> QED
      BY <2>1, <2>2
  <1>5. /\ ScreenTells("intent", b, a) /\ ScreenTells("error", b, a)
        /\ status[b] \notin {"awaiting_payment", "confirmed", "order_failed", "failed"}
              => ScreenTells("confirming", b, a)
        /\ status[b] = "confirmed" => ScreenTells("confirmation", b, a)
        /\ status[b] = "order_failed" => ScreenTells("being_refunded", b, a)
        /\ status[b] = "failed" => ScreenTells("lapsed", b, a)
    BY <1>2, StatusTells, PlainScreens
  <1> QED
    BY <1>0, <1>3, <1>4, <1>5, ShowTells

LEMMA PagesKeptByReload ==
  ASSUME CheckoutInv, RowsMove, AttemptsKept, NEW p \in Pages,
         AttemptFails(p) \/ AttemptRefused(p) \/ LoadConfirmation(p) \/ ReloadConfirmation(p)
  PROVE  PagesInv'
  <1> DEFINE b == page[p].booking
             a == page[p].attempt
  <1>0. PagesInv
    BY DEF CheckoutInv
  <1>1. page[p].screen \in Paying
    BY DEF AttemptFails, AttemptRefused, LoadConfirmation, ReloadConfirmation, Paying,
           PaymentScreens, ConfirmationScreens
  <1>2. /\ b \in Bookings /\ "awaiting_payment" \in Reached(b)
        /\ status[b] \in BookingStatus \ {"pending"} /\ Story(b)
    BY <1>1, PayingPage
  <1>3. {"error"} \union ConfirmationScreens \subseteq Screens
    BY DEF Screens, PaymentScreens
  <1>4. CASE AttemptFails(p) \/ AttemptRefused(p)
    <2>1. Show(p, "error")
      BY <1>4 DEF AttemptFails, AttemptRefused
    <2> QED
      BY <1>0, <1>2, <1>3, <2>1, ShowTells, PlainScreens
  <1>5. CASE LoadConfirmation(p) \/ ReloadConfirmation(p)
    <2>1. page[p].screen \in ConfirmationScreens
      BY <1>5 DEF LoadConfirmation, ReloadConfirmation, ConfirmationScreens
    <2>2. "confirmed" \in Reached(b)
      BY <1>0, <2>1 DEF PagesInv, ScreenTells
    <2>3. /\ status[b] \notin {"paid", "order_failed", "failed"}
          /\ status[b] # "confirmed" => "cancelled" \in Reached(b)
      BY <1>2, <2>2 DEF Story
    <2>4. /\ ScreenTells("ticket", b, a) /\ ScreenTells("no_detail", b, a)
          /\ ScreenTells("confirmation", b, a)
          /\ status[b] # "confirmed" => ScreenTells("other", b, a)
      BY <1>2, <2>2, <2>3 DEF ScreenTells
    <2>5. \/ Show(p, "ticket") \/ Show(p, "no_detail") \/ Show(p, "confirmation")
          \/ status[b] # "confirmed" /\ Show(p, "other")
      BY <1>5, <2>3 DEF LoadConfirmation, ReloadConfirmation, Detail
    <2>6. {"ticket", "no_detail", "confirmation", "other"} \subseteq ConfirmationScreens
      BY DEF ConfirmationScreens
    <2> QED
      BY <1>0, <1>3, <2>4, <2>5, <2>6, ShowTells
  <1> QED
    BY <1>4, <1>5

\* Attempts and charges.
ChargesInv ==
    /\ attempt \in [Attempts -> Bookings \union {NoBooking}]
    /\ charged \subseteq Attempts /\ landed \subseteq charged
    /\ \A a \in charged : /\ attempt[a] \in Bookings
                           /\ "awaiting_payment" \in Reached(attempt[a])

LEMMA PagesKeptByForms ==
  ASSUME CheckoutInv, ChargesInv, RowsMove, AttemptsKept, NEW p \in Pages,
         CreateAttempt(p) \/ Pay(p) \/ Reopen(p)
  PROVE  PagesInv'
  <1>0. PagesInv /\ page[p] \in PageRows
    BY DEF CheckoutInv, PagesInv
  <1>1. page[p].screen \in Paying
    BY DEF CreateAttempt, Pay, Reopen, Polling, Paying, PaymentScreens
  <1>2. PICK b \in Bookings : b = page[p].booking /\ "awaiting_payment" \in Reached(b)
    BY <1>1, PayingPage
  <1>3. CASE CreateAttempt(p)
    <2>1. PICK a \in NewAttempts :
            /\ attempt' = [attempt EXCEPT ![a] = b]
            /\ \/ page' = [page EXCEPT ![p].screen = "form", ![p].attempt = a]
               \/ Show(p, "error")
      BY <1>2, <1>3 DEF CreateAttempt
    <2>2. CASE Show(p, "error")
      <3>1. "error" \in Screens
        BY DEF Screens, PaymentScreens
      <3> QED
        BY <1>0, <1>2, <2>2, <3>1, ShowTells, PlainScreens
    <2>3. CASE page' = [page EXCEPT ![p].screen = "form", ![p].attempt = a]
      <3>1. a \in Attempts /\ attempt'[a] = b
        BY <2>1 DEF NewAttempts, ChargesInv
      <3>2. PICK row : row = [page[p] EXCEPT !.screen = "form", !.attempt = a]
        OBVIOUS
      <3>3. /\ row \in PageRows
            /\ row.screen = "form" /\ row.booking = b /\ row.attempt = a
        BY <1>0, <1>2, <3>1, <3>2 DEF PageRows, Screens, PaymentScreens
      <3>4. page' = [page EXCEPT ![p] = row]
        BY <2>3, <3>2
      <3>5. "awaiting_payment" \in Reached(b)'
        BY <1>2 DEF RowsMove
      <3>6. ScreenTells("form", b, a)'
        BY <3>1, <3>5 DEF ScreenTells, ConfirmationScreens
      <3> QED
        BY <1>0, <3>3, <3>4, <3>6, PageShows
    <2> QED
      BY <2>1, <2>2, <2>3
  <1>4. CASE Pay(p)
    BY <1>0, <1>4, PagesStay DEF Pay
  <1>5. CASE Reopen(p)
    <2>1. PICK row : row = [page[p] EXCEPT !.screen = "opening", !.attempt = NoAttempt]
      OBVIOUS
    <2>2. /\ row \in PageRows
          /\ row.screen = "opening" /\ row.booking = b /\ row.attempt = NoAttempt
      BY <1>0, <1>2, <2>1 DEF PageRows, Screens, PaymentScreens
    <2>3. page' = [page EXCEPT ![p] = row]
      BY <1>5, <2>1 DEF Reopen
    <2>4. ScreenTells("opening", b, NoAttempt)'
      BY <1>2, PlainScreens, TellsKept
    <2> QED
      BY <1>0, <2>2, <2>3, <2>4, PageShows
  <1> QED
    BY <1>3, <1>4, <1>5

LEMMA PagesKeptByOpening ==
  ASSUME CheckoutInv, RowsMove, AttemptsKept, NEW p \in Links, NEW b \in Bookings, OpenPayment(p, b)
  PROVE  PagesInv'
  <1>1. PICK row : row = ShownPage("opening", b, TRUE, NoAttempt)
    OBVIOUS
  <1>2. /\ row \in PageRows
        /\ row.screen = "opening" /\ row.booking = b /\ row.attempt = NoAttempt
    BY <1>1 DEF ShownPage, PageRows, Screens, PaymentScreens
  <1>3. page' = [page EXCEPT ![p] = row] /\ "awaiting_payment" \in Reached(b)
    BY <1>1, EverWasIsReached DEF OpenPayment, PaymentLink
  <1>4. ScreenTells("opening", b, NoAttempt)'
    BY <1>3, PlainScreens, TellsKept
  <1> QED
    BY <1>2, <1>3, <1>4, PageShows DEF CheckoutInv, Pages

LEMMA StepOfPages ==
  ASSUME CheckoutInv, RequestsInv, WaitingInv, ChargesInv, Next
  PROVE  RowsInv' /\ RowsMove /\ PagesInv'
  <1>0. RowsInv' /\ RowsMove /\ AttemptsKept /\ PagesInv
    BY StepOfRows, RowsKept, StepOfAttempts DEF CheckoutInv
  <1>1. ASSUME NEW p \in Keys, KeyStep(p) PROVE PagesInv'
    BY <1>0, <1>1, PagesKeptByKeySteps, PagesKeptByAnswer, PagesKeptBySave DEF KeyStep
  <1>2. ASSUME NEW p \in Pages, PageStep(p) PROVE PagesInv'
    BY <1>0, <1>2, PagesKeptByLoads, PagesKeptByReload, PagesKeptByForms DEF PageStep
  <1>3. ASSUME NEW p \in Links, NEW b \in Bookings, OpenPayment(p, b) PROVE PagesInv'
    BY <1>0, <1>3, PagesKeptByOpening
  <1>4. ASSUME NEW r \in Requests, RequestStep(r) PROVE page' = page
    BY <1>4 DEF RequestStep, ReadLock, TakeLock, FetchAndInsert, FetchFails, StoreKey, Unlock, Die
  <1>5. ASSUME NEW b \in Bookings, ExpirySweep(b) \/ Backend(b) PROVE page' = page
    BY <1>5 DEF ExpirySweep, Backend
  <1>6. ASSUME NEW a \in Attempts, Callback(a) PROVE page' = page
    BY <1>6 DEF Callback
  <1>7. ExpireOffer => page' = page
    BY DEF ExpireOffer
  <1> QED
    BY <1>0, <1>1, <1>2, <1>3, <1>4, <1>5, <1>6, <1>7, PagesStay DEF Next

-----------------------------------------------------------------------------
(* The requests under every step. *)

\* No request is forgotten.
RequestsGoOn == \A r \in Requests : create[r].pc # "idle" => create'[r].pc # "idle"

LEMMA RequestChanges ==
  ASSUME RequestsInv, NEW r \in Requests, NEW row \in CreateRows, RequestTells(row),
         row.pc # "idle", create' = [create EXCEPT ![r] = row]
  PROVE  RequestsInv' /\ RequestsGoOn
  <1>1. create \in [Requests -> CreateRows] /\ \A q \in Requests : RequestTells(create[q])
    BY DEF RequestsInv
  <1>2. create' \in [Requests -> CreateRows] /\ create'[r] = row
    BY <1>1
  <1>3. \A q \in Requests : q # r => create'[q] = create[q]
    BY <1>1
  <1>4. \A q \in Requests : RequestTells(create'[q])
    BY <1>1, <1>2, <1>3
  <1>5. RequestsGoOn
    BY <1>2, <1>3 DEF RequestsGoOn
  <1> QED
    BY <1>2, <1>4, <1>5 DEF RequestsInv, RequestTells

LEMMA RequestStays ==
  ASSUME RequestsInv, create' = create
  PROVE  RequestsInv' /\ RequestsGoOn
  BY DEF RequestsInv, RequestTells, RequestsGoOn

\* An answer, with a booking if it promises one.
LEMMA RequestAnswered ==
  ASSUME RequestsInv, NEW r \in Requests, NEW answer \in {"none", "created", "replayed", "conflict", "gone", "failed"},
         NEW b \in Bookings \union {NoBooking}, Answers(r, answer, b),
         answer \in {"created", "replayed"} => b \in Bookings
  PROVE  RequestsInv' /\ RequestsGoOn
  <1>1. PICK row : row = [pc |-> "done", answer |-> answer, booking |-> b]
    OBVIOUS
  <1>2. row \in CreateRows /\ RequestTells(row) /\ row.pc # "idle"
    BY <1>1 DEF CreateRows, RequestTells
  <1>3. create' = [create EXCEPT ![r] = row]
    BY <1>1 DEF Answers
  <1> QED
    BY <1>2, <1>3, RequestChanges

\* A request goes on to another step, and keeps what it has found.
LEMMA RequestBecomes ==
  ASSUME RequestsInv, NEW r \in Requests, NEW pc \in {"sent", "locking", "fetching"}, Becomes(r, pc)
  PROVE  RequestsInv' /\ RequestsGoOn
  <1>0. create[r] \in CreateRows /\ RequestTells(create[r])
    BY DEF RequestsInv
  <1>1. PICK row : row = [create[r] EXCEPT !.pc = pc]
    OBVIOUS
  <1>2. row \in CreateRows /\ RequestTells(row) /\ row.pc # "idle"
    BY <1>0, <1>1 DEF CreateRows, RequestTells, Running
  <1>3. create' = [create EXCEPT ![r] = row]
    BY <1>1 DEF Becomes
  <1> QED
    BY <1>2, <1>3, RequestChanges

\* A request that failed goes on to free its key.
LEMMA RequestUnlocks ==
  ASSUME RequestsInv, NEW r \in Requests, NEW answer \in {"gone", "failed"},
         create' = [create EXCEPT ![r].pc = "unlocking", ![r].answer = answer]
  PROVE  RequestsInv' /\ RequestsGoOn
  <1>0. create[r] \in CreateRows
    BY DEF RequestsInv
  <1>1. PICK row : row = [create[r] EXCEPT !.pc = "unlocking", !.answer = answer]
    OBVIOUS
  <1>2. row \in CreateRows /\ RequestTells(row) /\ row.pc # "idle"
    BY <1>0, <1>1 DEF CreateRows, RequestTells, Running
  <1>3. create' = [create EXCEPT ![r] = row]
    BY <1>0, <1>1
  <1> QED
    BY <1>2, <1>3, RequestChanges

LEMMA StepOfRequest ==
  ASSUME RequestsInv, NEW r \in Requests, RequestStep(r),
         lock \in [Keys -> {"free", "locked"} \union Bookings]
  PROVE  RequestsInv' /\ RequestsGoOn
  <1>0. create[r] \in CreateRows /\ RequestTells(create[r])
    BY DEF RequestsInv
  <1>1. CASE ReadLock(r)
    <2>1. \/ Answers(r, "conflict", NoBooking)
          \/ lock[r[1]] \in Bookings /\ Answers(r, "replayed", lock[r[1]])
          \/ Becomes(r, "locking")
      <3>1. r[1] \in Keys
        BY DEF Requests
      <3>2. lock[r[1]] \in {"free", "locked"} \union Bookings
        BY <3>1
      <3> QED
        BY <1>1, <3>2 DEF ReadLock
    <2> QED
      BY <2>1, RequestAnswered, RequestBecomes
  <1>2. CASE TakeLock(r)
    BY <1>2, RequestBecomes DEF TakeLock
  <1>3. CASE FetchAndInsert(r)
    <2>1. PICK b \in Bookings : create' = [create EXCEPT ![r].pc = "storing", ![r].booking = b]
      <3>1. (CHOOSE b \in NewBookings : TRUE) \in NewBookings
        BY <1>3 DEF FetchAndInsert
      <3> QED
        BY <1>3, <3>1 DEF FetchAndInsert, NewBookings
    <2>2. PICK row : row = [create[r] EXCEPT !.pc = "storing", !.booking = b]
      OBVIOUS
    <2>3. row \in CreateRows /\ RequestTells(row) /\ row.pc # "idle"
      BY <1>0, <2>2 DEF CreateRows, RequestTells, Running
    <2>4. create' = [create EXCEPT ![r] = row]
      BY <1>0, <2>1, <2>2
    <2> QED
      BY <2>3, <2>4, RequestChanges
  <1>4. CASE FetchFails(r)
    BY <1>4, RequestUnlocks DEF FetchFails
  <1>5. CASE StoreKey(r)
    <2>1. create[r].booking \in Bookings
      BY <1>0, <1>5 DEF StoreKey, RequestTells
    <2> QED
      BY <1>5, <2>1, RequestAnswered, RequestUnlocks DEF StoreKey
  <1>6. CASE Unlock(r)
    <2>1. create[r].answer \in {"gone", "failed"} /\ Answers(r, create[r].answer, NoBooking)
      BY <1>0, <1>6 DEF Unlock, RequestTells
    <2> QED
      BY <2>1, RequestAnswered
  <1>7. CASE Die(r)
    BY <1>7, RequestAnswered DEF Die
  <1> QED
    BY <1>1, <1>2, <1>3, <1>4, <1>5, <1>6, <1>7 DEF RequestStep

LEMMA StepOfRequests ==
  ASSUME RequestsInv, WaitingInv, lock \in [Keys -> {"free", "locked"} \union Bookings], Next
  PROVE  RequestsInv' /\ RequestsGoOn
  <1>1. ASSUME NEW p \in Keys, SendCreate(p) PROVE RequestsInv' /\ RequestsGoOn
    <2>1. PICK n : n = Cardinality(Sent(p)) + 1
      OBVIOUS
    <2>2. n \in 1 .. MaxSends
      BY <1>1, <2>1, SentIsFinite, CheckoutAssumption DEF SendCreate
    <2>3. <<p, n>> \in Requests /\ Becomes(<<p, n>>, "sent")
      BY <1>1, <2>1, <2>2 DEF Requests, SendCreate, Becomes
    <2> QED
      BY <2>3, RequestBecomes
  <1>2. ASSUME NEW p \in Keys, AnswerCreate(p) PROVE RequestsInv' /\ RequestsGoOn
    <2>1. PICK r \in Requests : create' = [create EXCEPT ![r] = Answered]
      BY <1>2, LastRequest DEF AnswerCreate
    <2>2. Answers(r, "none", NoBooking)
      BY <2>1 DEF Answers, Answered
    <2> QED
      BY <2>2, RequestAnswered
  <1>3. ASSUME NEW p \in Keys, OpenCheckout(p) \/ LoseAnswer(p) \/ LockLapses(p) \/ SavePassengers(p)
        PROVE  create' = create
    BY <1>3 DEF OpenCheckout, LoseAnswer, LockLapses, SavePassengers, OnlyPage, serverVars
  <1>4. ASSUME NEW p \in Pages, PageStep(p) PROVE create' = create
    BY <1>4 DEF PageStep, LoadBooking, CreateAttempt, AttemptFails, AttemptRefused, Poll, Pay, Reopen,
                LoadConfirmation, ReloadConfirmation, OnlyPage, serverVars
  <1>5. ASSUME NEW b \in Bookings,
               ExpirySweep(b) \/ Backend(b) \/ \E p \in Links : OpenPayment(p, b)
        PROVE  create' = create
    BY <1>5 DEF ExpirySweep, Backend, OpenPayment, OnlyPage, serverVars
  <1>6. ASSUME NEW a \in Attempts, Callback(a) PROVE create' = create
    BY <1>6 DEF Callback, serverVars
  <1>7. ExpireOffer => create' = create
    BY DEF ExpireOffer, serverVars
  <1> QED
    BY <1>1, <1>2, <1>3, <1>4, <1>5, <1>6, <1>7, StepOfRequest, RequestStays DEF Next, KeyStep

-----------------------------------------------------------------------------
(* A page waits for a request that was sent. *)

LEMMA SentGrows ==
  ASSUME RequestsGoOn, NEW p \in Keys, Sent(p) # {}
  PROVE  Sent(p)' # {}
  <1>1. PICK n \in 1 .. MaxSends : create[<<p, n>>].pc # "idle"
    BY DEF Sent
  <1>2. <<p, n>> \in Requests
    BY <1>1 DEF Requests
  <1>3. create'[<<p, n>>].pc # "idle"
    BY <1>1, <1>2 DEF RequestsGoOn
  <1> QED
    BY <1>1, <1>3 DEF Sent

\* No page waits that did not, ...
NoNewWaiter == \A p \in Keys : page'[p].screen = "creating" => page[p].screen = "creating"

LEMMA ShowsElse ==
  ASSUME PagesInv, NEW p \in Pages, NEW row, row.screen # "creating", page' = [page EXCEPT ![p] = row]
  PROVE  NoNewWaiter
  <1>1. page \in [Pages -> PageRows] /\ Keys \subseteq Pages
    BY DEF PagesInv, Pages
  <1>2. ASSUME NEW q \in Keys, page'[q].screen = "creating" PROVE page[q].screen = "creating"
    BY <1>1, <1>2
  <1> QED
    BY <1>2 DEF NoNewWaiter

LEMMA ShowElse ==
  ASSUME PagesInv, NEW p \in Pages, NEW s \in Screens \ {"creating"}, Show(p, s)
  PROVE  NoNewWaiter
  <1>1. page[p] \in PageRows
    BY DEF PagesInv
  <1>2. PICK row : row = [page[p] EXCEPT !.screen = s]
    OBVIOUS
  <1>3. row.screen = s /\ page' = [page EXCEPT ![p] = row]
    BY <1>1, <1>2 DEF Show, PageRows
  <1> QED
    BY <1>3, ShowsElse

\* ... except the one that sends.
LEMMA StepOfWaiting ==
  ASSUME PagesInv, Next
  PROVE  NoNewWaiter \/ \E p \in Keys : SendCreate(p)
  <1> DEFINE Other == Screens \ {"creating"}
  <1>0. /\ {"review", "offer_error", "passengers", "opening", "form", "error"} \subseteq Other
        /\ {"confirmation", "ticket", "waiting", "refused", "other", "no_detail"} \subseteq Other
        /\ {"intent", "confirming", "lapsed", "being_refunded"} \subseteq Other
        /\ Keys \subseteq Pages /\ Links \subseteq Pages
    BY DEF Screens, CheckoutScreens, PaymentScreens, ConfirmationScreens, Pages
  <1> HIDE DEF Other
  <1>1. ASSUME page' = page PROVE NoNewWaiter
    BY <1>1 DEF NoNewWaiter
  <1>2. ASSUME NEW p \in Pages, NEW s \in Other, Show(p, s) PROVE NoNewWaiter
    BY <1>2, ShowElse DEF Other
  <1>3. ASSUME NEW p \in Keys, KeyStep(p), ~ SendCreate(p) PROVE NoNewWaiter
    <2>1. CASE AnswerCreate(p)
      <3>1. PICK r : page' = [page EXCEPT ![p] =
               CASE create[r].answer = "created" ->
                        ShownPage("passengers", create[r].booking, TRUE, NoAttempt)
                 [] create[r].answer = "replayed" ->
                        ShownPage("passengers", create[r].booking, FALSE, NoAttempt)
                 [] create[r].answer = "gone" -> [@ EXCEPT !.screen = "offer_error"]
                 [] OTHER -> [@ EXCEPT !.screen = "review"]]
        BY <2>1 DEF AnswerCreate
      <3>2. CASE create[r].answer \in {"created", "replayed"}
        <4>1. PICK row : /\ row \in {ShownPage("passengers", create[r].booking, f, NoAttempt) : f \in BOOLEAN}
                         /\ page' = [page EXCEPT ![p] = row]
          BY <3>1, <3>2
        <4> QED
          BY <1>0, <4>1, ShowsElse DEF ShownPage
      <3>3. CASE create[r].answer \notin {"created", "replayed"}
        <4>1. Show(p, "offer_error") \/ Show(p, "review")
          BY <3>1, <3>3 DEF Show
        <4> QED
          BY <1>0, <1>2, <4>1
      <3> QED
        BY <3>2, <3>3
    <2>2. CASE OpenCheckout(p) \/ LoseAnswer(p)
      BY <1>0, <1>2, <2>2 DEF OpenCheckout, LoseAnswer
    <2>3. CASE SavePassengers(p)
      BY <1>0, <1>1, <1>2, <2>3 DEF SavePassengers
    <2>4. CASE LockLapses(p)
      BY <1>1, <2>4 DEF LockLapses
    <2> QED
      BY <1>3, <2>1, <2>2, <2>3, <2>4 DEF KeyStep
  <1>4. ASSUME NEW p \in Pages, PageStep(p) PROVE NoNewWaiter
    <2>0. page[p] \in PageRows
      BY DEF PagesInv
    <2>1. CASE LoadBooking(p)
      BY <1>0, <1>2, <2>1 DEF LoadBooking
    <2>2. CASE CreateAttempt(p)
      <3>1. CASE Show(p, "error")
        BY <1>0, <1>2, <3>1
      <3>2. CASE \E a : page' = [page EXCEPT ![p].screen = "form", ![p].attempt = a]
        <4>1. PICK a : page' = [page EXCEPT ![p].screen = "form", ![p].attempt = a]
          BY <3>2
        <4>2. PICK row : row = [page[p] EXCEPT !.screen = "form", !.attempt = a]
          OBVIOUS
        <4>3. row.screen = "form" /\ page' = [page EXCEPT ![p] = row]
          BY <2>0, <4>1, <4>2 DEF PageRows
        <4> QED
          BY <4>3, ShowsElse
      <3> QED
        BY <2>2, <3>1, <3>2 DEF CreateAttempt
    <2>3. CASE AttemptFails(p) \/ AttemptRefused(p)
      BY <1>0, <1>2, <2>3 DEF AttemptFails, AttemptRefused
    <2>4. CASE Poll(p)
      BY <1>0, <1>2, <2>4 DEF Poll
    <2>5. CASE Pay(p)
      BY <1>1, <2>5 DEF Pay
    <2>6. CASE Reopen(p)
      <3>1. PICK row : row = [page[p] EXCEPT !.screen = "opening", !.attempt = NoAttempt]
        OBVIOUS
      <3>2. row.screen = "opening" /\ page' = [page EXCEPT ![p] = row]
        BY <2>0, <2>6, <3>1 DEF PageRows, Reopen
      <3> QED
        BY <3>2, ShowsElse
    <2>7. CASE LoadConfirmation(p)
      BY <1>0, <1>2, <2>7 DEF LoadConfirmation
    <2>8. CASE ReloadConfirmation(p)
      BY <1>0, <1>2, <2>8 DEF ReloadConfirmation
    <2> QED
      BY <1>4, <2>1, <2>2, <2>3, <2>4, <2>5, <2>6, <2>7, <2>8 DEF PageStep
  <1>5. ASSUME NEW p \in Links, NEW b \in Bookings, OpenPayment(p, b) PROVE NoNewWaiter
    BY <1>0, <1>5, ShowsElse DEF OpenPayment, ShownPage
  <1>6. ASSUME NEW r \in Requests, RequestStep(r) PROVE page' = page
    BY <1>6 DEF RequestStep, ReadLock, TakeLock, FetchAndInsert, FetchFails, StoreKey, Unlock, Die
  <1>7. ASSUME NEW b \in Bookings, ExpirySweep(b) \/ Backend(b) PROVE page' = page
    BY <1>7 DEF ExpirySweep, Backend
  <1>8. (\E a \in Attempts : Callback(a)) \/ ExpireOffer => page' = page
    BY DEF Callback, ExpireOffer
  <1> QED
    BY <1>1, <1>3, <1>4, <1>5, <1>6, <1>7, <1>8 DEF Next

LEMMA WaitingKept ==
  ASSUME PagesInv, RequestsInv, RequestsGoOn, WaitingInv, Next
  PROVE  WaitingInv'
  <1>1. CASE NoNewWaiter
    BY <1>1, SentGrows DEF WaitingInv, NoNewWaiter
  <1>2. ASSUME NEW p \in Keys, SendCreate(p) PROVE WaitingInv'
    <2>1. PICK n : n = Cardinality(Sent(p)) + 1
      OBVIOUS
    <2>2. n \in 1 .. MaxSends
      BY <1>2, <2>1, SentIsFinite, CheckoutAssumption DEF SendCreate
    <2>3. create' = [create EXCEPT ![<<p, n>>].pc = "sent"] /\ <<p, n>> \in Requests
      BY <1>2, <2>1, <2>2 DEF SendCreate, Requests
    <2>4. create'[<<p, n>>].pc = "sent"
      BY <2>3 DEF RequestsInv, CreateRows
    <2>5. Sent(p)' # {}
      BY <2>2, <2>4 DEF Sent
    <2>6. page' = [page EXCEPT ![p].screen = "creating"] /\ page \in [Pages -> PageRows]
      BY <1>2 DEF SendCreate, Show, PagesInv
    <2>7. \A q \in Keys : q # p => page'[q] = page[q]
      BY <2>6 DEF Pages
    <2>8. \A q \in Keys : Sent(q) # {} => Sent(q)' # {}
      BY SentGrows
    <2> QED
      BY <2>5, <2>7, <2>8 DEF WaitingInv
  <1> QED
    BY <1>1, <1>2, StepOfWaiting

-----------------------------------------------------------------------------
(* The charges under every step. *)

LEMMA StepOfCharges ==
  ASSUME Next
  PROVE  /\ attempt' = attempt \/ \E p \in Pages : CreateAttempt(p)
         /\ charged' = charged \/ \E p \in Pages : Pay(p)
         /\ landed' = landed \/ \E a \in Attempts : Callback(a)
  <1> DEFINE Untouched == UNCHANGED <<attempt, charged, landed>>
  <1>1. ASSUME NEW p \in Keys, KeyStep(p) PROVE Untouched
    BY <1>1 DEF KeyStep, OpenCheckout, SendCreate, AnswerCreate, LoseAnswer, LockLapses,
                SavePassengers, OnlyPage, serverVars, moneyVars
  <1>2. ASSUME NEW p \in Pages, PageStep(p), ~ CreateAttempt(p), ~ Pay(p) PROVE Untouched
    BY <1>2 DEF PageStep, LoadBooking, AttemptFails, AttemptRefused, Poll, Reopen,
                LoadConfirmation, ReloadConfirmation, OnlyPage, serverVars, moneyVars
  <1>3. ASSUME NEW r \in Requests, RequestStep(r) PROVE Untouched
    BY <1>3 DEF RequestStep, ReadLock, TakeLock, FetchAndInsert, FetchFails, StoreKey, Unlock, Die,
                moneyVars
  <1>4. ASSUME NEW b \in Bookings,
               ExpirySweep(b) \/ Backend(b) \/ \E p \in Links : OpenPayment(p, b)
        PROVE  Untouched
    BY <1>4 DEF ExpirySweep, Backend, OpenPayment, OnlyPage, serverVars, moneyVars
  <1>5. ExpireOffer => Untouched
    BY DEF ExpireOffer, serverVars, moneyVars
  <1>6. ASSUME NEW p \in Pages, CreateAttempt(p) PROVE UNCHANGED <<charged, landed>>
    BY <1>6 DEF CreateAttempt, moneyVars
  <1>7. ASSUME NEW p \in Pages, Pay(p) PROVE UNCHANGED <<attempt, landed>>
    BY <1>7 DEF Pay, serverVars
  <1>8. ASSUME NEW a \in Attempts, Callback(a) PROVE UNCHANGED <<attempt, charged>>
    BY <1>8 DEF Callback, serverVars
  <1> QED
    BY <1>1, <1>2, <1>3, <1>4, <1>5, <1>6, <1>7, <1>8 DEF Next

LEMMA ChargesKept ==
  ASSUME CheckoutInv, ChargesInv, RowsMove, AttemptsKept, Next
  PROVE  ChargesInv'
  <1>1. attempt' \in [Attempts -> Bookings \union {NoBooking}]
    <2>1. ASSUME NEW p \in Pages, CreateAttempt(p)
          PROVE  attempt' \in [Attempts -> Bookings \union {NoBooking}]
      <3>1. page[p].booking \in Bookings
        BY <2>1, PayingPage DEF CreateAttempt, Paying, PaymentScreens
      <3>2. \E a \in Attempts : attempt' = [attempt EXCEPT ![a] = page[p].booking]
        BY <2>1 DEF CreateAttempt, NewAttempts
      <3> QED
        BY <3>1, <3>2 DEF ChargesInv
    <2> QED
      BY <2>1, StepOfCharges DEF ChargesInv
  <1>2. ASSUME NEW a \in Attempts, attempt[a] \in Bookings, "awaiting_payment" \in Reached(attempt[a])
        PROVE  attempt'[a] \in Bookings /\ "awaiting_payment" \in Reached(attempt[a])'
    <2>1. PICK b \in Bookings : attempt[a] = b
      BY <1>2
    <2>2. attempt'[a] = b /\ "awaiting_payment" \in Reached(b)'
      BY <1>2, <2>1 DEF AttemptsKept, RowsMove
    <2> QED
      BY <2>2 DEF Reached
  <1>3. ASSUME NEW p \in Pages, Pay(p)
        PROVE  /\ charged' = charged \union {page[p].attempt}
               /\ page[p].attempt \in Attempts
               /\ attempt[page[p].attempt] \in Bookings
               /\ "awaiting_payment" \in Reached(attempt[page[p].attempt])
    <2>1. page[p].screen = "form" /\ page[p].screen \in Paying
      BY <1>3 DEF Pay, Paying, PaymentScreens
    <2>2. page[p].attempt \in Attempts /\ attempt[page[p].attempt] = page[p].booking
      BY <2>1 DEF CheckoutInv, PagesInv, ScreenTells
    <2> QED
      BY <1>3, <2>1, <2>2, PayingPage DEF Pay
  <1>4. /\ charged' \subseteq Attempts /\ charged \subseteq charged'
        /\ \A a \in charged' : /\ attempt[a] \in Bookings
                                /\ "awaiting_payment" \in Reached(attempt[a])
    BY <1>3, StepOfCharges DEF ChargesInv
  <1>5. landed' \subseteq charged'
    <2>1. ASSUME NEW a \in Attempts, Callback(a) PROVE landed' \subseteq charged
      BY <2>1 DEF Callback, ChargesInv
    <2> QED
      BY <1>4, <2>1, StepOfCharges DEF ChargesInv
  <1> QED
    BY <1>1, <1>2, <1>4, <1>5 DEF ChargesInv

-----------------------------------------------------------------------------
(* The rest of the types. *)

RestOK ==
    /\ expired \in BOOLEAN
    /\ lock \in [Keys -> {"free", "locked"} \union Bookings]
    /\ keyOf \in [Bookings -> Keys \union {Nobody}]
    /\ faults \in 0 .. MaxFaults
    /\ unguarded \in SUBSET Keys

LEMMA OneMoreFault ==
  ASSUME RestOK, UNCHANGED faults \/ Fault
  PROVE  faults' \in 0 .. MaxFaults
  BY CheckoutAssumption DEF RestOK, Fault

LEMMA RestKeptByRequests ==
  ASSUME RestOK, RequestsInv, NEW r \in Requests, RequestStep(r)
  PROVE  RestOK'
  <1>0. r[1] \in Keys
    BY DEF Requests
  <1>1. CASE ReadLock(r)
    <2>1. UNCHANGED <<expired, lock, keyOf, faults>>
      BY <1>1 DEF ReadLock
    <2>2. unguarded' = unguarded \/ unguarded' = unguarded \union {r[1]}
      <3>1. lock[r[1]] \in {"free", "locked"} \union Bookings
        BY <1>0 DEF RestOK
      <3> QED
        BY <1>1, <3>1 DEF ReadLock
    <2> QED
      BY <1>0, <2>1, <2>2 DEF RestOK
  <1>2. CASE TakeLock(r)
    BY <1>0, <1>2 DEF TakeLock, RestOK
  <1>3. CASE FetchAndInsert(r)
    <2>1. PICK b \in Bookings : keyOf' = [keyOf EXCEPT ![b] = r[1]]
      <3>1. (CHOOSE b \in NewBookings : TRUE) \in NewBookings
        BY <1>3 DEF FetchAndInsert
      <3> QED
        BY <1>3, <3>1 DEF FetchAndInsert, NewBookings
    <2>2. UNCHANGED <<expired, lock, faults, unguarded>>
      BY <1>3 DEF FetchAndInsert
    <2> QED
      BY <1>0, <2>1, <2>2 DEF RestOK
  <1>4. CASE FetchFails(r) \/ Die(r)
    <2>1. UNCHANGED <<expired, lock, keyOf, unguarded>> /\ (UNCHANGED faults \/ Fault)
      BY <1>4 DEF FetchFails, Die
    <2> QED
      BY <2>1, OneMoreFault DEF RestOK
  <1>5. CASE StoreKey(r)
    <2>1. create[r].booking \in Bookings
      BY <1>5 DEF StoreKey, RequestsInv, RequestTells
    <2>2. /\ UNCHANGED <<expired, keyOf, unguarded>> /\ (UNCHANGED faults \/ Fault)
          /\ lock' = lock \/ lock' = [lock EXCEPT ![r[1]] = create[r].booking]
      BY <1>5 DEF StoreKey
    <2> QED
      BY <2>1, <2>2, OneMoreFault DEF RestOK
  <1>6. CASE Unlock(r)
    BY <1>0, <1>6 DEF Unlock, LosesKey, RestOK
  <1> QED
    BY <1>1, <1>2, <1>3, <1>4, <1>5, <1>6 DEF RequestStep

LEMMA RestKept ==
  ASSUME RestOK, RequestsInv, Next
  PROVE  RestOK'
  <1> DEFINE OnlyFaults == UNCHANGED <<expired, lock, keyOf, unguarded>> /\ (UNCHANGED faults \/ Fault)
  <1>0. OnlyFaults => RestOK'
    BY OneMoreFault DEF RestOK
  <1>1. ASSUME NEW p \in Keys, LockLapses(p) PROVE RestOK'
    BY <1>1 DEF LockLapses, LosesKey, RestOK
  <1>2. ASSUME NEW p \in Keys, KeyStep(p), ~ LockLapses(p) PROVE OnlyFaults
    BY <1>2 DEF KeyStep, OpenCheckout, SendCreate, AnswerCreate, LoseAnswer, SavePassengers,
                OnlyPage, serverVars
  <1>3. ASSUME NEW p \in Pages, PageStep(p) PROVE OnlyFaults
    BY <1>3 DEF PageStep, LoadBooking, CreateAttempt, AttemptFails, AttemptRefused, Poll, Pay, Reopen,
                LoadConfirmation, ReloadConfirmation, OnlyPage, serverVars
  <1>4. ASSUME NEW b \in Bookings,
               ExpirySweep(b) \/ Backend(b) \/ \E p \in Links : OpenPayment(p, b)
        PROVE  OnlyFaults
    BY <1>4 DEF ExpirySweep, Backend, OpenPayment, OnlyPage, serverVars
  <1>5. ASSUME NEW a \in Attempts, Callback(a) PROVE OnlyFaults
    BY <1>5 DEF Callback, serverVars
  <1>6. ExpireOffer => RestOK'
    BY DEF ExpireOffer, serverVars, RestOK
  <1> QED
    BY <1>0, <1>1, <1>2, <1>3, <1>4, <1>5, <1>6, RestKeptByRequests DEF Next

-----------------------------------------------------------------------------
(* The invariant of the module. *)

IInv == CheckoutInv /\ RequestsInv /\ WaitingInv /\ ChargesInv /\ RestOK

LEMMA InitIsGood == Init => IInv
  <1> SUFFICES ASSUME Init PROVE IInv
    OBVIOUS
  <1>1. RowsInv
    BY DEF Init, RowsInv, RowsOK, Story, Reached, Absent, Captured
  <1>2. PagesInv
    <2>1. page \in [Pages -> PageRows]
      BY DEF Init, ShownPage, PageRows, Screens, CheckoutScreens
    <2>2. \A p \in Pages : page[p].screen = "closed"
      BY DEF Init, ShownPage
    <2>3. "closed" \in Unbooked
      BY DEF Unbooked
    <2> QED
      BY <2>1, <2>2, <2>3, PlainScreens DEF PagesInv
  <1>3. RequestsInv
    BY DEF Init, RequestsInv, RequestTells, CreateRows
  <1>4. WaitingInv
    BY DEF Init, ShownPage, WaitingInv, Pages
  <1>5. ChargesInv
    BY DEF Init, ChargesInv
  <1>6. RestOK
    <2>1. 0 \in 0 .. MaxFaults
      BY CheckoutAssumption
    <2> QED
      BY <2>1 DEF Init, RestOK
  <1> QED
    BY <1>1, <1>2, <1>3, <1>4, <1>5, <1>6 DEF IInv, CheckoutInv

LEMMA StepIsGood ==
  ASSUME IInv, [Next]_checkoutVars
  PROVE  IInv'
  <1>1. CASE Next
    <2>1. CheckoutInv' /\ RowsMove /\ AttemptsKept
      BY <1>1, StepOfPages, StepOfAttempts DEF IInv, CheckoutInv
    <2>2. RequestsInv' /\ RequestsGoOn
      BY <1>1, StepOfRequests DEF IInv, RestOK
    <2>3. WaitingInv'
      BY <1>1, <2>2, WaitingKept DEF IInv, CheckoutInv
    <2>4. ChargesInv'
      BY <1>1, <2>1, ChargesKept DEF IInv
    <2>5. RestOK'
      BY <1>1, RestKept DEF IInv
    <2> QED
      BY <2>1, <2>2, <2>3, <2>4, <2>5 DEF IInv
  <1>2. CASE UNCHANGED checkoutVars
    <2>1. UNCHANGED <<status, history, page, create, attempt, charged, landed>>
      BY <1>2 DEF checkoutVars, rowVars
    <2>2. UNCHANGED <<expired, lock, keyOf, faults, unguarded>>
      BY <1>2 DEF checkoutVars
    <2>3. RowsInv' /\ RowsMove
      BY <1>2, RowsKept DEF IInv, CheckoutInv, RowsStep, checkoutVars
    <2>4. AttemptsKept
      BY <2>1 DEF AttemptsKept
    <2>5. PagesInv'
      BY <2>1, <2>3, <2>4, PagesStay DEF IInv, CheckoutInv
    <2>6. RequestsInv' /\ WaitingInv'
      BY <2>1 DEF IInv, RequestsInv, RequestTells, WaitingInv, Sent
    <2>7. ChargesInv'
      BY <2>1 DEF IInv, ChargesInv, Reached
    <2>8. RestOK'
      BY <2>2 DEF IInv, RestOK
    <2> QED
      BY <2>3, <2>5, <2>6, <2>7, <2>8 DEF IInv, CheckoutInv
  <1> QED
    BY <1>1, <1>2

LEMMA Inductive == Spec => []IInv
  BY InitIsGood, StepIsGood, PTL DEF Spec

-----------------------------------------------------------------------------

\* However many tabs, reloads and retries there are, every form a card can be charged
\* in and every charge has its payment_attempts row, written before Paymob's form is
\* shown (createOrGetPaymentAttempt), so that the callback finds the booking.
THEOREM ChargesTraceable == Spec => []ChargesAreTraceable
  <1>1. IInv => ChargesAreTraceable
    <2> SUFFICES ASSUME IInv PROVE ChargesAreTraceable
      OBVIOUS
    <2>1. CheckoutOK
      BY DEF IInv, CheckoutInv, PagesInv, PageRows, RequestsInv, CreateRows, ChargesInv, RestOK, CheckoutOK
    <2>2. \A p \in Pages : page[p].screen = "form" => attempt[page[p].attempt] = page[p].booking
      BY DEF IInv, CheckoutInv, PagesInv, ScreenTells
    <2>3. \A a \in charged : attempt[a] \in Bookings /\ EverWas(attempt[a], "awaiting_payment")
      BY EverWasIsReached DEF IInv, ChargesInv
    <2> QED
      BY <2>1, <2>2, <2>3 DEF ChargesAreTraceable
  <1> QED
    BY <1>1, Inductive, PTL

\* What a page says of a booking's status is, or was, so, for any number of tabs: the
\* payment page says that the offer lapsed only of a booking that failed without ever
\* being paid, and the confirmation page opens only for one that was confirmed.
THEOREM ScreensTell == Spec => []ScreensTellStatus
  <1>1. IInv => ScreensTellStatus
    <2> SUFFICES ASSUME IInv, NEW p \in Pages, NEW b, b = page[p].booking
                 PROVE  /\ page[p].screen = "lapsed" => status[b] = "failed" /\ ~ EverWas(b, "paid")
                        /\ page[p].screen = "being_refunded" => EverWas(b, "order_failed")
                        /\ page[p].screen \in ConfirmationScreens => EverWas(b, "confirmed")
                        /\ page[p].screen = "other" => EverWas(b, "cancelled")
                        /\ page[p].screen \notin {"waiting", "refused"}
                        /\ page[p].screen = "confirming" => EverWas(b, "paid")
      BY DEF ScreensTellStatus
    <2>1. ScreenTells(page[p].screen, b, page[p].attempt)
      BY DEF IInv, CheckoutInv, PagesInv
    <2>2. page[p].screen = "lapsed" => b \in Bookings /\ Story(b)
      BY <2>1 DEF IInv, CheckoutInv, RowsInv, ScreenTells, Unbooked
    <2>3. page[p].screen = "lapsed" => "paid" \notin Reached(b)
      BY <2>1, <2>2 DEF ScreenTells, Story, Captured
    <2> QED
      BY <2>1, <2>3, EverWasIsReached DEF ScreenTells
  <1> QED
    BY <1>1, Inductive, PTL

\* The pages, POST /bookings, PUT /passengers, POST /payment-intent and the expiry
\* sweep together implement the lifecycle of a booking: every step of theirs creates
\* one, moves one along LEGAL_TRANSITIONS with its history row, or leaves both tables alone.
THEOREM CheckoutImplementsLifecycle == Spec => KeepsToLifecycle
  <1>1. Init => Lifecycle!Init
    BY DEF Init, Lifecycle!Init, Absent, Lifecycle!Absent
  <1>2. ASSUME IInv, [Next]_checkoutVars PROVE [Lifecycle!Next]_(Lifecycle!rowVars)
    <2>1. RowsStep
      BY <1>2, StepOfRows DEF IInv, checkoutVars, RowsStep
    <2> QED
      BY <2>1, RowsStepIsLifecycleStep
  <1> QED
    BY <1>1, <1>2, Inductive, PTL DEF Spec, KeepsToLifecycle, Lifecycle!Spec

-----------------------------------------------------------------------------
(* One booking for each key. *)

\* A request that has passed its key and has not answered yet.
Busy(r) == create[r].pc \in Running \union {"locking"}
Booked(p) == \E b \in Bookings : keyOf[b] = p

\* While a key guards, one request at most is past it, and a booking that was made under
\* it is still to be stored in it or was: nobody finds the key free again.
KeyGuards(p) ==
    /\ \A q, r \in Requests : q[1] = p /\ r[1] = p /\ Busy(q) /\ Busy(r) => q = r
    /\ \A r \in Requests : r[1] = p =>
          /\ create[r].pc = "locking" => lock[p] = "free"
          /\ create[r].pc \in Running => lock[p] = "locked"
          /\ create[r].pc = "fetching" => ~ Booked(p)
    /\ lock[p] = "free" => ~ Booked(p)
    /\ \A b, c \in Bookings : keyOf[b] = p /\ keyOf[c] = p => b = c

KeysInv == \A p \in Keys : p \in unguarded \/ KeyGuards(p)

\* A key that nobody touches, but for requests that give up or end.
LEMMA KeyRests ==
  ASSUME NEW p \in Keys, KeyGuards(p), lock'[p] = lock[p],
         \A b \in Bookings : keyOf'[b] = p => keyOf[b] = p,
         \A r \in Requests : r[1] = p /\ Busy(r)' => create'[r].pc = create[r].pc
  PROVE  KeyGuards(p)'
  <1>1. \A r \in Requests : r[1] = p /\ Busy(r)' => Busy(r)
    BY DEF Busy
  <1>2. Booked(p)' => Booked(p)
    BY DEF Booked
  <1>3. \A q, r \in Requests : q[1] = p /\ r[1] = p /\ Busy(q)' /\ Busy(r)' => q = r
    BY <1>1 DEF KeyGuards
  <1>4. ASSUME NEW r \in Requests, r[1] = p
        PROVE  /\ create'[r].pc = "locking" => lock'[p] = "free"
               /\ create'[r].pc \in Running => lock'[p] = "locked"
               /\ create'[r].pc = "fetching" => ~ Booked(p)'
    <2>1. create'[r].pc \in Running \union {"locking"} => create'[r].pc = create[r].pc
      BY <1>4 DEF Busy
    <2> QED
      BY <1>2, <1>4, <2>1 DEF KeyGuards, Running
  <1>5. lock'[p] = "free" => ~ Booked(p)'
    BY <1>2 DEF KeyGuards
  <1>6. \A b, c \in Bookings : keyOf'[b] = p /\ keyOf'[c] = p => b = c
    BY DEF KeyGuards
  <1> QED
    BY <1>3, <1>4, <1>5, <1>6 DEF KeyGuards

\* The step that r, alone past its key, makes: what it leaves behind.
LEMMA KeyOfOne ==
  ASSUME NEW r \in Requests, NEW p \in Keys, p = r[1], KeyGuards(p),
         Busy(r) \/ \A q \in Requests : q[1] = p => ~ Busy(q),
         \A q \in Requests : q # r => create'[q] = create[q],
         create'[r].pc = "locking" => lock'[p] = "free",
         create'[r].pc \in Running => lock'[p] = "locked",
         create'[r].pc = "fetching" => ~ Booked(p)',
         lock'[p] = "free" => ~ Booked(p)',
         \A b, c \in Bookings : keyOf'[b] = p /\ keyOf'[c] = p => b = c
  PROVE  KeyGuards(p)'
  <1>1. \A q \in Requests : q[1] = p /\ q # r => ~ Busy(q)
    BY DEF KeyGuards
  <1>2. \A q \in Requests : q[1] = p /\ q # r => ~ Busy(q)'
    BY <1>1 DEF Busy
  <1>3. \A q, s \in Requests : q[1] = p /\ s[1] = p /\ Busy(q)' /\ Busy(s)' => q = s
    BY <1>2
  <1>4. \A q \in Requests : q[1] = p =>
          /\ create'[q].pc = "locking" => lock'[p] = "free"
          /\ create'[q].pc \in Running => lock'[p] = "locked"
          /\ create'[q].pc = "fetching" => ~ Booked(p)'
    <2> SUFFICES ASSUME NEW q \in Requests, q[1] = p, q # r PROVE create'[q].pc \notin Running \union {"locking"}
      BY DEF Running
    <2> QED
      BY <1>2 DEF Busy
  <1> QED
    BY <1>3, <1>4 DEF KeyGuards

\* What a request does to other keys: nothing.
LEMMA OtherKeysRest ==
  ASSUME RestOK, KeysInv, NEW r \in Requests, unguarded \subseteq unguarded',
         \A q \in Requests : q # r => create'[q] = create[q],
         \A p \in Keys : p # r[1] => lock'[p] = lock[p],
         \A b \in Bookings : keyOf'[b] = keyOf[b] \/ keyOf'[b] = r[1],
         r[1] \in unguarded' \/ (KeyGuards(r[1]) => KeyGuards(r[1])')
  PROVE  KeysInv'
  <1> SUFFICES ASSUME NEW p \in Keys, p \notin unguarded' PROVE KeyGuards(p)'
    BY DEF KeysInv
  <1>1. KeyGuards(p)
    BY DEF KeysInv
  <1>2. CASE p = r[1]
    BY <1>1, <1>2
  <1>3. CASE p # r[1]
    BY <1>1, <1>3, KeyRests
  <1> QED
    BY <1>2, <1>3

LEMMA KeysKeptByRequest ==
  ASSUME IInv, KeysInv, NEW r \in Requests, RequestStep(r)
  PROVE  KeysInv'
  <1> DEFINE p == r[1]
  <1>0. /\ r[1] \in Keys /\ RestOK /\ create \in [Requests -> CreateRows] /\ RequestTells(create[r])
        /\ lock \in [Keys -> {"free", "locked"} \union Bookings] /\ lock[p] \in {"free", "locked"} \union Bookings
        /\ keyOf \in [Bookings -> Keys \union {Nobody}] /\ {"free", "locked"} \intersect Bookings = {}
    BY CheckoutAssumption DEF IInv, RestOK, RequestsInv, Requests
  <1>1. CASE ReadLock(r)
    <2>1. /\ UNCHANGED <<lock, keyOf>> /\ create[r].pc = "sent"
          /\ unguarded \subseteq unguarded'
          /\ \A q \in Requests : q # r => create'[q] = create[q]
      BY <1>0, <1>1 DEF ReadLock, Answers, Becomes
    <2>2. CASE lock[p] # "free"
      <3>1. create'[r].pc = "done"
        <4>1. Answers(r, "conflict", NoBooking) \/ Answers(r, "replayed", lock[p])
          BY <1>0, <1>1, <2>2 DEF ReadLock
        <4> QED
          BY <1>0, <4>1 DEF Answers
      <3>2. ~ Busy(r)'
        BY <3>1 DEF Busy, Running
      <3>3. KeyGuards(p) => KeyGuards(p)'
        BY <1>0, <2>1, <3>2, KeyRests
      <3> QED
        BY <1>0, <2>1, <3>3, OtherKeysRest
    <2>3. CASE lock[p] = "free"
      <3>1. /\ create'[r].pc = "locking"
            /\ unguarded' = IF \E q \in Requests : q[1] = p /\ create[q].pc = "locking"
                            THEN unguarded \union {p} ELSE unguarded
        BY <1>0, <1>1, <2>3 DEF ReadLock, Becomes, CreateRows
      <3>2. CASE \E q \in Requests : q[1] = p /\ create[q].pc = "locking"
        BY <1>0, <2>1, <3>1, <3>2, OtherKeysRest
      <3>3. CASE ~ \E q \in Requests : q[1] = p /\ create[q].pc = "locking"
        <4>1. ASSUME KeyGuards(p) PROVE KeyGuards(p)'
          <5>1. \A q \in Requests : q[1] = p => ~ Busy(q)
            BY <2>3, <3>3, <4>1 DEF KeyGuards, Busy
          <5>2. ~ Booked(p)' /\ \A b, c \in Bookings : keyOf'[b] = p /\ keyOf'[c] = p => b = c
            BY <2>1, <2>3, <4>1 DEF KeyGuards, Booked
          <5>3. create'[r].pc \notin Running
            BY <3>1 DEF Running
          <5> QED
            BY <1>0, <2>1, <2>3, <3>1, <4>1, <5>1, <5>2, <5>3, KeyOfOne
        <4> QED
          BY <1>0, <2>1, <4>1, OtherKeysRest
      <3> QED
        BY <3>2, <3>3
    <2> QED
      BY <2>2, <2>3
  <1>2. CASE TakeLock(r)
    <2>1. /\ lock' = [lock EXCEPT ![p] = "locked"] /\ UNCHANGED <<keyOf, unguarded>>
          /\ create[r].pc = "locking" /\ create'[r].pc = "fetching"
          /\ \A q \in Requests : q # r => create'[q] = create[q]
      BY <1>0, <1>2 DEF TakeLock, Becomes, CreateRows
    <2>2. ASSUME KeyGuards(p) PROVE KeyGuards(p)'
      <3>1. Busy(r) /\ ~ Booked(p) /\ lock'[p] = "locked"
        BY <1>0, <2>1, <2>2 DEF KeyGuards, Busy
      <3>2. ~ Booked(p)' /\ \A b, c \in Bookings : keyOf'[b] = p /\ keyOf'[c] = p => b = c
        BY <2>1, <3>1 DEF Booked
      <3> QED
        BY <1>0, <2>1, <2>2, <3>1, <3>2, KeyOfOne
    <2> QED
      BY <1>0, <2>1, <2>2, OtherKeysRest
  <1>3. CASE FetchAndInsert(r)
    <2>1. PICK b \in Bookings : keyOf' = [keyOf EXCEPT ![b] = p] /\ create' = [create EXCEPT ![r].pc = "storing", ![r].booking = b]
      <3>1. (CHOOSE b \in NewBookings : TRUE) \in NewBookings
        BY <1>3 DEF FetchAndInsert
      <3> QED
        BY <1>3, <3>1 DEF FetchAndInsert, NewBookings
    <2>2. /\ UNCHANGED <<lock, unguarded>>
          /\ create[r].pc = "fetching" /\ create'[r].pc = "storing"
          /\ \A q \in Requests : q # r => create'[q] = create[q]
      BY <1>0, <1>3, <2>1 DEF FetchAndInsert, CreateRows
    <2>3. ASSUME KeyGuards(p) PROVE KeyGuards(p)'
      <3>1. Busy(r) /\ ~ Booked(p) /\ lock'[p] = "locked"
        BY <1>0, <2>2, <2>3 DEF KeyGuards, Busy, Running
      <3>2. \A c, d \in Bookings : keyOf'[c] = p /\ keyOf'[d] = p => c = d
        BY <1>0, <2>1, <3>1 DEF Booked
      <3> QED
        BY <1>0, <2>2, <2>3, <3>1, <3>2, KeyOfOne
    <2>4. \A c \in Bookings : keyOf'[c] = keyOf[c] \/ keyOf'[c] = r[1]
      BY <1>0, <2>1
    <2> QED
      BY <1>0, <2>2, <2>3, <2>4, OtherKeysRest
  <1>4. CASE FetchFails(r)
    <2>1. /\ UNCHANGED <<lock, keyOf, unguarded>>
          /\ create[r].pc = "fetching" /\ create'[r].pc = "unlocking"
          /\ \A q \in Requests : q # r => create'[q] = create[q]
      BY <1>0, <1>4 DEF FetchFails, CreateRows
    <2>2. ASSUME KeyGuards(p) PROVE KeyGuards(p)'
      <3>1. Busy(r) /\ lock'[p] = "locked"
        BY <1>0, <2>1, <2>2 DEF KeyGuards, Busy, Running
      <3>2. \A c, d \in Bookings : keyOf'[c] = p /\ keyOf'[d] = p => c = d
        BY <2>1, <2>2 DEF KeyGuards
      <3> QED
        BY <1>0, <2>1, <2>2, <3>1, <3>2, KeyOfOne
    <2> QED
      BY <1>0, <2>1, <2>2, OtherKeysRest
  <1>5. CASE StoreKey(r)
    <2>1. create[r].booking \in Bookings /\ create[r].pc = "storing" /\ UNCHANGED <<keyOf, unguarded>>
      BY <1>0, <1>5 DEF StoreKey, RequestTells
    <2>2. \/ lock' = [lock EXCEPT ![p] = create[r].booking] /\ create'[r].pc = "done"
          \/ lock' = lock /\ create'[r].pc = "unlocking"
      BY <1>0, <1>5 DEF StoreKey, Answers, CreateRows
    <2>3. \A q \in Requests : q # r => create'[q] = create[q]
      BY <1>0, <1>5 DEF StoreKey, Answers
    <2>4. ASSUME KeyGuards(p) PROVE KeyGuards(p)'
      <3>1. Busy(r) /\ lock[p] = "locked"
        BY <1>0, <2>1, <2>4 DEF KeyGuards, Busy, Running
      <3>2. \A c, d \in Bookings : keyOf'[c] = p /\ keyOf'[d] = p => c = d
        BY <2>1, <2>4 DEF KeyGuards
      <3>3. /\ lock'[p] # "free"
            /\ create'[r].pc \in Running => lock'[p] = "locked"
            /\ create'[r].pc \notin {"locking", "fetching"}
        BY <1>0, <2>1, <2>2, <3>1 DEF Running
      <3> QED
        BY <1>0, <2>3, <2>4, <3>1, <3>2, <3>3, KeyOfOne
    <2>5. \A q \in Keys : q # r[1] => lock'[q] = lock[q]
      BY <1>0, <2>2
    <2> QED
      BY <1>0, <2>1, <2>3, <2>4, <2>5, OtherKeysRest
  <1>6. CASE Unlock(r)
    <2>1. /\ lock' = [lock EXCEPT ![p] = "free"] /\ UNCHANGED keyOf
          /\ create[r].pc = "unlocking" /\ create'[r].pc = "done"
          /\ \A q \in Requests : q # r => create'[q] = create[q]
      BY <1>0, <1>6 DEF Unlock, Answers
    <2>2. unguarded \subseteq unguarded' /\ (p \in unguarded' \/ ~ Booked(p)')
      BY <1>6, <2>1 DEF Unlock, LosesKey, Booked
    <2>3. ASSUME KeyGuards(p), ~ Booked(p)' PROVE KeyGuards(p)'
      <3>1. Busy(r)
        BY <2>1 DEF Busy, Running
      <3>2. \A c, d \in Bookings : keyOf'[c] = p /\ keyOf'[d] = p => c = d
        BY <2>3 DEF Booked
      <3>3. create'[r].pc \notin Running \union {"locking"}
        BY <2>1 DEF Running
      <3> QED
        BY <1>0, <2>1, <2>3, <3>1, <3>2, <3>3, KeyOfOne
    <2> QED
      BY <1>0, <2>1, <2>2, <2>3, OtherKeysRest
  <1>7. CASE Die(r)
    <2>1. /\ UNCHANGED <<lock, keyOf, unguarded>> /\ create'[r].pc = "done"
          /\ \A q \in Requests : q # r => create'[q] = create[q]
      BY <1>0, <1>7 DEF Die, Answers
    <2>2. ~ Busy(r)'
      BY <2>1 DEF Busy, Running
    <2>3. KeyGuards(p) => KeyGuards(p)'
      BY <1>0, <2>1, <2>2, KeyRests
    <2> QED
      BY <1>0, <2>1, <2>3, OtherKeysRest
  <1> QED
    BY <1>1, <1>2, <1>3, <1>4, <1>5, <1>6, <1>7 DEF RequestStep

LEMMA KeysKept ==
  ASSUME IInv, KeysInv, [Next]_checkoutVars
  PROVE  KeysInv'
  <1>0. /\ create \in [Requests -> CreateRows]
        /\ lock \in [Keys -> {"free", "locked"} \union Bookings]
    BY DEF IInv, RestOK, RequestsInv
  <1>1. ASSUME UNCHANGED <<lock, keyOf, unguarded>>,
               \A r \in Requests : Busy(r)' => create'[r].pc = create[r].pc
        PROVE  KeysInv'
    BY <1>1, KeyRests DEF KeysInv
  <1>2. ASSUME UNCHANGED <<lock, create, keyOf, unguarded>> PROVE KeysInv'
    BY <1>1, <1>2
  <1>3. ASSUME NEW p \in Keys, SendCreate(p) PROVE KeysInv'
    <2>1. UNCHANGED <<lock, keyOf, unguarded>>
      BY <1>3 DEF SendCreate
    <2>2. PICK q : create' = [create EXCEPT ![q].pc = "sent"]
      BY <1>3 DEF SendCreate
    <2>3. \A r \in Requests : create'[r].pc = create[r].pc \/ create'[r].pc = "sent"
      BY <1>0, <2>2 DEF CreateRows
    <2> QED
      BY <1>1, <2>1, <2>3 DEF Busy, Running
  <1>4. ASSUME NEW p \in Keys, AnswerCreate(p) PROVE KeysInv'
    <2>1. UNCHANGED <<lock, keyOf, unguarded>>
      BY <1>4 DEF AnswerCreate
    <2>2. PICK q : create' = [create EXCEPT ![q] = Answered]
      BY <1>4 DEF AnswerCreate
    <2>3. \A r \in Requests : create'[r].pc = create[r].pc \/ create'[r].pc = "done"
      BY <1>0, <2>2 DEF Answered
    <2> QED
      BY <1>1, <2>1, <2>3 DEF Busy, Running
  <1>5. ASSUME NEW p \in Keys, LockLapses(p) PROVE KeysInv'
    <2>1. /\ lock[p] = "locked" /\ lock' = [lock EXCEPT ![p] = "free"] /\ UNCHANGED <<create, keyOf>>
          /\ \A n \in 1 .. MaxSends : create[<<p, n>>].pc \notin Running
      BY <1>5 DEF LockLapses
    <2>2. unguarded \subseteq unguarded' /\ (p \in unguarded' \/ ~ Booked(p)')
      BY <1>5, <2>1 DEF LockLapses, LosesKey, Booked
    <2>3. ASSUME KeyGuards(p), ~ Booked(p)' PROVE KeyGuards(p)'
      <3>1. \A r \in Requests : r[1] = p => create[r].pc \notin Running
        BY <2>1 DEF Requests
      <3>2. \A r \in Requests : r[1] = p => ~ Busy(r)'
        BY <2>1, <2>3, <3>1 DEF Busy, KeyGuards
      <3>3. \A r \in Requests : r[1] = p => create'[r].pc \notin Running \union {"locking"}
        BY <3>2 DEF Busy
      <3> QED
        BY <2>3, <3>2, <3>3 DEF KeyGuards, Booked, Running
    <2> SUFFICES ASSUME NEW q \in Keys, q \notin unguarded' PROVE KeyGuards(q)'
      BY DEF KeysInv
    <2>4. CASE q = p
      BY <2>2, <2>3, <2>4 DEF KeysInv
    <2>5. CASE q # p
      BY <1>0, <2>1, <2>2, <2>5, KeyRests DEF KeysInv
    <2> QED
      BY <2>4, <2>5
  <1>6. ASSUME NEW p \in Keys, OpenCheckout(p) \/ LoseAnswer(p) \/ SavePassengers(p)
        PROVE  KeysInv'
    BY <1>2, <1>6 DEF OpenCheckout, LoseAnswer, SavePassengers, OnlyPage, serverVars
  <1>7. ASSUME NEW p \in Pages, PageStep(p) PROVE KeysInv'
    BY <1>2, <1>7 DEF PageStep, LoadBooking, CreateAttempt, AttemptFails, AttemptRefused, Poll, Pay, Reopen,
                LoadConfirmation, ReloadConfirmation, OnlyPage, serverVars
  <1>8. ASSUME NEW b \in Bookings,
               ExpirySweep(b) \/ Backend(b) \/ \E p \in Links : OpenPayment(p, b)
        PROVE  KeysInv'
    BY <1>2, <1>8 DEF ExpirySweep, Backend, OpenPayment, OnlyPage, serverVars
  <1>9. ASSUME NEW a \in Attempts, Callback(a) PROVE KeysInv'
    BY <1>2, <1>9 DEF Callback, serverVars
  <1>10. ExpireOffer => KeysInv'
    BY <1>2 DEF ExpireOffer, serverVars
  <1>11. UNCHANGED checkoutVars => KeysInv'
    BY <1>2 DEF checkoutVars
  <1> QED
    BY <1>3, <1>4, <1>5, <1>6, <1>7, <1>8, <1>9, <1>10, <1>11, KeysKeptByRequest DEF Next, KeyStep

\* However often a mount of the checkout page repeats its request, one booking comes of
\* it, unless two requests read the key before either took it, or the key was freed or
\* lapsed after the booking was made.
THEOREM OneBookingForEachKey == Spec => []OneBookingPerKey
  <1>1. Init => KeysInv
    <2> SUFFICES ASSUME Init PROVE \A p \in Keys : KeyGuards(p)
      BY DEF KeysInv
    <2>1. \A b \in Bookings : keyOf[b] = Nobody
      BY DEF Init
    <2>2. \A p \in Keys : ~ Booked(p)
      BY <2>1, CheckoutAssumption DEF Booked, Pages
    <2>3. \A r \in Requests : create[r].pc = "idle"
      BY DEF Init
    <2>4. \A r \in Requests : create[r].pc \notin Running \union {"locking"}
      BY <2>3 DEF Running
    <2> QED
      BY <2>2, <2>4 DEF KeyGuards, Busy, Booked, Running
  <1>2. IInv /\ KeysInv /\ [Next]_checkoutVars => KeysInv'
    BY KeysKept
  <1>3. KeysInv => OneBookingPerKey
    <2> SUFFICES ASSUME KeysInv, NEW p \in Keys, p \notin unguarded
                 PROVE  Cardinality({b \in Bookings : keyOf[b] = p}) <= 1
      BY DEF OneBookingPerKey
    <2>1. \A b, c \in Bookings : keyOf[b] = p /\ keyOf[c] = p => b = c
      BY DEF KeysInv, KeyGuards
    <2>2. CASE {b \in Bookings : keyOf[b] = p} = {}
      BY <2>2, FS_EmptySet
    <2>3. CASE {b \in Bookings : keyOf[b] = p} # {}
      <3>1. PICK b \in Bookings : keyOf[b] = p
        BY <2>3
      <3>2. {c \in Bookings : keyOf[c] = p} = {b}
        BY <2>1, <3>1
      <3> QED
        BY <3>2, FS_Singleton
    <2> QED
      BY <2>2, <2>3
  <1> QED
    BY <1>1, <1>2, <1>3, Inductive, PTL DEF Spec
=============================================================================
