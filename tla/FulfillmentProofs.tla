------------------------- MODULE FulfillmentProofs -------------------------
(***************************************************************************)
(* For any number of bookings, attempts, transactions and workers.         *)
(*                                                                         *)
(* Whatever the job, its re-run, the order.created webhook and the sweep   *)
(* do in whatever order: an outcome is applied once, a confirmed booking   *)
(* holds an order that exists, the ticket is mailed at most once, every    *)
(* order POST goes back to a capture, and a booking with a ticket is not   *)
(* refunded.                                                               *)
(*                                                                         *)
(* None of these is inductive.  The outcome of booking b is right only if  *)
(* what an actor remembers of Duffel's answer still holds when it gets the *)
(* row lock (HeldOrdersAreLive), which in turn needs that a later POST     *)
(* never touches an earlier order (PostsAreFresh); a failed booking is     *)
(* refunded only if its payment stands (PaidIsPaidFor); a POST is paid for *)
(* when it starts, not when it is sent (PostsInv); and a verdict of        *)
(* absence or refusal outlives the read it came from (TicketInv).          *)
(*                                                                         *)
(* And Fulfillment implements BookingLifecycle: the pay step starts in the *)
(* middle of a lifecycle whose history is whole, and each step of each     *)
(* actor moves a booking by transitionTo or leaves both tables alone.      *)
(***************************************************************************)
EXTENDS Fulfillment, FiniteSetTheorems, TLAPS

\* An actor that is not idle works for some booking.
BusyHasBooking ==
    /\ \A w \in Workers : worker[w] = Idle \/ worker[w].booking \in Bookings
    /\ sweep = Idle \/ sweep.booking \in Bookings

TypeInv == TypeOK /\ BusyHasBooking

LEMMA StatusStrings ==
  /\ "paid" \in BookingStatus
  /\ "confirmed" \in BookingStatus
  /\ "order_failed" \in BookingStatus
  /\ "failed" \in BookingStatus
  /\ "awaiting_payment" \in BookingStatus
  /\ "pending" \in BookingStatus
  BY DEF BookingStatus

\* transitionTo keeps the types of both tables.
LEMMA TransitionTypes ==
  ASSUME NEW b \in Bookings, NEW to \in BookingStatus,
         status \in [Bookings -> BookingStatus],
         history \in [Bookings -> Seq(HistoryRows)],
         TransitionTo(b, to)
  PROVE  /\ status' \in [Bookings -> BookingStatus]
         /\ history' \in [Bookings -> Seq(HistoryRows)]
  <1>1. HistoryRow(status[b], to) \in HistoryRows
    BY DEF HistoryRow, HistoryRows
  <1>2. Append(history[b], HistoryRow(status[b], to)) \in Seq(HistoryRows)
    BY <1>1
  <1> QED
    BY <1>2 DEF TransitionTo, rowVars

\* What applying T5 does to the tables it writes.
LEMMA ConfirmTypes ==
  ASSUME TypeOK, NEW b \in Bookings, NEW n \in 0 .. MaxPosts, ConfirmPaidBooking(b, n)
  PROVE  /\ status' \in [Bookings -> BookingStatus]
         /\ history' \in [Bookings -> Seq(HistoryRows)]
         /\ supplierOrder' \in [Bookings -> 0 .. MaxPosts]
         /\ supplierCharges' \in [Bookings -> Nat]
         /\ documents' \in [Bookings -> Nat]
         /\ mailDue' \in [Bookings -> Nat]
         /\ refunds' \in [Bookings -> Nat]
  <1>1. CASE status[b] = "paid"
    <2>1. TransitionTo(b, "confirmed")
      BY <1>1 DEF ConfirmPaidBooking
    <2>2. /\ status' \in [Bookings -> BookingStatus]
          /\ history' \in [Bookings -> Seq(HistoryRows)]
      BY <2>1, TransitionTypes, StatusStrings DEF TypeOK
    <2>3. /\ supplierOrder' = [supplierOrder EXCEPT ![b] = n]
          /\ supplierCharges' = [supplierCharges EXCEPT ![b] = @ + 1]
          /\ documents' = [documents EXCEPT ![b] = @ + 1]
          /\ mailDue' = [mailDue EXCEPT ![b] = @ + 1]
          /\ refunds' = refunds
      BY <1>1 DEF ConfirmPaidBooking
    <2>4. /\ supplierOrder \in [Bookings -> 0 .. MaxPosts]
          /\ supplierCharges \in [Bookings -> Nat]
          /\ documents \in [Bookings -> Nat]
          /\ mailDue \in [Bookings -> Nat]
          /\ refunds \in [Bookings -> Nat]
      BY DEF TypeOK
    <2>5. n \in 0 .. MaxPosts /\ b \in Bookings
      OBVIOUS
    <2> QED
      BY ONLY <2>2, <2>3, <2>4, <2>5
  <1>2. CASE status[b] # "paid"
    BY <1>2, SMTT(30) DEF ConfirmPaidBooking, TypeOK, rowVars
  <1> QED
    BY <1>1, <1>2

\* What applying T6 does to the tables it writes.
LEMMA FailTypes ==
  ASSUME TypeOK, NEW b \in Bookings, FailPaidBookingAndRefund(b)
  PROVE  /\ status' \in [Bookings -> BookingStatus]
         /\ history' \in [Bookings -> Seq(HistoryRows)]
         /\ refunds' \in [Bookings -> Nat]
         /\ UNCHANGED <<supplierOrder, supplierCharges, documents, mailDue>>
  <1>1. CASE status[b] = "paid"
    <2>1. TransitionTo(b, "order_failed")
      BY <1>1 DEF FailPaidBookingAndRefund
    <2>2. /\ status' \in [Bookings -> BookingStatus]
          /\ history' \in [Bookings -> Seq(HistoryRows)]
      BY <2>1, TransitionTypes, StatusStrings DEF TypeOK
    <2>3. /\ refunds' = IF payment[b] = "succeeded"
                        THEN [refunds EXCEPT ![b] = @ + 1]
                        ELSE refunds
          /\ UNCHANGED <<supplierOrder, supplierCharges, documents, mailDue>>
      BY <1>1 DEF FailPaidBookingAndRefund
    <2>4. refunds \in [Bookings -> Nat]
      BY DEF TypeOK
    <2> QED
      BY <2>2, <2>3, <2>4
  <1>2. CASE status[b] # "paid"
    BY <1>2 DEF FailPaidBookingAndRefund, TypeOK, rowVars
  <1> QED
    BY <1>1, <1>2

LEMMA InitTypes == Init => TypeInv
  <1> SUFFICES ASSUME Init PROVE TypeInv
    OBVIOUS
  <1> USE ConstantsAssumption, StatusStrings
  <1>1. history \in [Bookings -> Seq(HistoryRows)]
    <2>1. HistoryRow("pending", "pending") \in HistoryRows
          /\ HistoryRow("pending", "awaiting_payment") \in HistoryRows
      BY DEF HistoryRow, HistoryRows
    <2> QED
      BY <2>1 DEF Init
  <1>2. Idle \in ProcessStates
    BY DEF Idle, ProcessStates
  <1>5. /\ stale \in [Bookings -> BOOLEAN]
        /\ blind \in [Bookings -> BOOLEAN]
        /\ crowded \in BOOLEAN
    BY DEF Init
  <1>3. TypeOK
    BY <1>1, <1>2, <1>5 DEF Init, TypeOK
  <1>4. BusyHasBooking
    BY DEF Init, BusyHasBooking
  <1> QED
    BY <1>3, <1>4 DEF TypeInv

\* Every step keeps the types.
LEMMA NextTypes == TypeInv /\ [Next]_vars => TypeInv'
  <1> SUFFICES ASSUME TypeInv, [Next]_vars PROVE TypeInv'
    OBVIOUS
  <1> USE ConstantsAssumption, StatusStrings
  <1> USE DEF TypeInv
  <1>0. Idle \in ProcessStates /\ Idle.pc = "idle"
    BY DEF Idle, ProcessStates
  <1>1. ASSUME NEW t \in Transactions, GatewaySettles(t) PROVE TypeInv'
    <2>3. charge' \in [Transactions -> {"open", "captured", "declined"}]
      <3>1. PICK fate \in {"captured", "declined"} : charge' = [charge EXCEPT ![t] = fate]
        BY <1>1 DEF GatewaySettles
      <3> QED
        BY <3>1 DEF TypeOK
    <2>1. TypeOK'
      BY <1>1, <2>3 DEF GatewaySettles, TypeOK, windowVars, rowVars, tableVars, queueVars, memoryVars
    <2>2. BusyHasBooking'
      BY <1>1 DEF GatewaySettles, BusyHasBooking, rowVars, tableVars, queueVars, memoryVars
    <2> QED
      BY <2>1, <2>2
  <1>2. ASSUME NEW t \in Transactions, ReceivePaymentCallback(t) PROVE TypeInv'
    <2>1. TypeOK'
      BY <1>2 DEF ReceivePaymentCallback, TypeOK, windowVars, rowVars, tableVars, queueVars, memoryVars, outsideVars
    <2>2. BusyHasBooking'
      BY <1>2 DEF ReceivePaymentCallback, BusyHasBooking, rowVars, tableVars, queueVars, memoryVars, outsideVars
    <2> QED
      BY <2>1, <2>2
  <1>3. ASSUME NEW t \in Transactions, ProcessCaptured(t) PROVE TypeInv'
    <2>1. Payer(t) \in Bookings /\ AttemptOf[t] \in Attempts
      BY DEF Payer
    <2>2. /\ status' \in [Bookings -> BookingStatus]
          /\ history' \in [Bookings -> Seq(HistoryRows)]
      BY <1>3, <2>1, TransitionTypes DEF ProcessCaptured, TypeOK
    <2>3. /\ attempt' = [attempt EXCEPT ![AttemptOf[t]] = "succeeded"]
          /\ payment' = [payment EXCEPT ![Payer(t)] = "succeeded"]
          /\ customerPayments' = [customerPayments EXCEPT ![Payer(t)] = @ + 1]
          /\ inbox' = [inbox EXCEPT ![t] = "processed"]
          /\ jobs' = [jobs EXCEPT ![Payer(t)] = @ + 1] \/ jobs' = jobs
      BY <1>3 DEF ProcessCaptured
    <2>4. /\ attempt' \in [Attempts -> {"requires_action", "succeeded", "failed"}]
          /\ payment' \in [Bookings -> {"pending", "succeeded"}]
          /\ customerPayments' \in [Bookings -> Nat]
          /\ inbox' \in [Transactions -> {"none", "stored", "processed"}]
          /\ jobs' \in [Bookings -> Nat]
      <3>1. /\ attempt \in [Attempts -> {"requires_action", "succeeded", "failed"}]
            /\ payment \in [Bookings -> {"pending", "succeeded"}]
            /\ customerPayments \in [Bookings -> Nat]
            /\ inbox \in [Transactions -> {"none", "stored", "processed"}]
            /\ jobs \in [Bookings -> Nat]
        BY DEF TypeOK
      <3>2. jobs' \in [Bookings -> Nat]
        BY <2>1, <2>3, <3>1
      <3> QED
        BY <2>1, <2>3, <3>1, <3>2
    <2>8. TypeOK'
      BY <1>3, <2>2, <2>4 DEF ProcessCaptured, TypeOK, windowVars, memoryVars, outsideVars
    <2>9. BusyHasBooking'
      BY <1>3, <2>1, <2>2 DEF ProcessCaptured, BusyHasBooking, memoryVars, outsideVars
    <2> QED
      BY <2>8, <2>9
  <1>4. ASSUME NEW t \in Transactions, ProcessDeclined(t) PROVE TypeInv'
    <2>1. TypeOK'
      BY <1>4 DEF ProcessDeclined, TypeOK, windowVars, rowVars, queueVars, memoryVars, outsideVars
    <2>2. BusyHasBooking'
      BY <1>4 DEF ProcessDeclined, BusyHasBooking, rowVars, queueVars, memoryVars, outsideVars
    <2> QED
      BY <2>1, <2>2
  <1>5. ASSUME NEW b \in Bookings, ExpireBooking(b) PROVE TypeInv'
    <2>1. /\ status' \in [Bookings -> BookingStatus]
          /\ history' \in [Bookings -> Seq(HistoryRows)]
      BY <1>5, TransitionTypes DEF ExpireBooking, TypeOK
    <2>8. TypeOK'
      BY <1>5, <2>1 DEF ExpireBooking, TypeOK, windowVars, tableVars, queueVars, memoryVars, outsideVars
    <2>9. BusyHasBooking'
      BY <1>5, <2>1 DEF ExpireBooking, BusyHasBooking, tableVars, queueVars, memoryVars, outsideVars
    <2> QED
      BY <2>8, <2>9
  <1>6. ASSUME NEW b \in Bookings, WindowCloses(b) PROVE TypeInv'
    <2>1. TypeOK'
      BY <1>6 DEF WindowCloses, TypeOK, windowVars, rowVars, tableVars, queueVars, memoryVars, outsideVars
    <2>2. BusyHasBooking'
      BY <1>6 DEF WindowCloses, BusyHasBooking, rowVars, tableVars, queueVars, memoryVars, outsideVars
    <2> QED
      BY <2>1, <2>2
  <1>7. ASSUME NEW b \in Bookings, SweepLooksUp(b) PROVE TypeInv'
    <2>2. \/ \E n \in 1 .. MaxPosts :
                 sweep' = [pc |-> "found", booking |-> b, order |-> n]
          \/ sweep' = [pc |-> "absent", booking |-> b, order |-> 0]
      BY <1>7 DEF SweepLooksUp, LiveOrders
    <2>3. /\ \A n \in 1 .. MaxPosts :
                [pc |-> "found", booking |-> b, order |-> n] \in ProcessStates
          /\ [pc |-> "absent", booking |-> b, order |-> 0] \in ProcessStates
      BY DEF ProcessStates
    <2>1. sweep' \in ProcessStates /\ sweep'.booking \in Bookings
      BY <2>2, <2>3
    <2>4. blind' \in [Bookings -> BOOLEAN]
      <3>1. blind \in [Bookings -> BOOLEAN] /\ UnderWay(b) \in BOOLEAN
        BY DEF TypeOK, UnderWay
      <3>2. blind' = blind \/ blind' = [blind EXCEPT ![b] = UnderWay(b)]
        BY <1>7 DEF SweepLooksUp
      <3> QED
        BY <3>1, <3>2
    <2>8. TypeOK'
      BY <1>7, <2>1, <2>4 DEF SweepLooksUp, TypeOK, rowVars, tableVars, queueVars, outsideVars
    <2>9. BusyHasBooking'
      BY <1>7, <2>1 DEF SweepLooksUp, BusyHasBooking, rowVars, tableVars, queueVars, outsideVars
    <2> QED
      BY <2>8, <2>9
  <1>8. ASSUME NEW b \in Bookings, SendEmail(b) PROVE TypeInv'
    <2>3. /\ mailDue[b] > 0
          /\ mailDue' = [mailDue EXCEPT ![b] = @ - 1]
          /\ emails' = [emails EXCEPT ![b] = @ + 1] \/ emails' = emails
      BY <1>8 DEF SendEmail
    <2>4. mailDue' \in [Bookings -> Nat] /\ emails' \in [Bookings -> Nat]
      <3>1. mailDue \in [Bookings -> Nat] /\ emails \in [Bookings -> Nat]
        BY DEF TypeOK
      <3>2. emails' \in [Bookings -> Nat]
        BY <2>3, <3>1
      <3>3. mailDue' \in [Bookings -> Nat]
        BY <2>3, <3>1
      <3> QED
        BY <3>2, <3>3
    <2>1. TypeOK'
      BY <1>8, <2>4 DEF SendEmail, TypeOK, windowVars, rowVars, tableVars, queueVars
    <2>2. BusyHasBooking'
      BY <1>8 DEF SendEmail, BusyHasBooking, rowVars, tableVars, queueVars
    <2> QED
      BY <2>1, <2>2
  <1>9. ASSUME NEW w \in Workers, NEW b \in Bookings, StartJob(w, b) PROVE TypeInv'
    <2>1. [pc |-> "posting", booking |-> b, order |-> 0] \in ProcessStates
      BY DEF ProcessStates
    <2>2. /\ jobs[b] > 0
          /\ jobs' = [jobs EXCEPT ![b] = @ - 1]
          /\ \/ worker' = [worker EXCEPT ![w] =
                              [pc |-> "posting", booking |-> b, order |-> 0]]
             \/ worker' = worker
      BY <1>9 DEF StartJob
    <2>3. jobs' \in [Bookings -> Nat] /\ worker' \in [Workers -> ProcessStates]
      <3>1. jobs \in [Bookings -> Nat] /\ worker \in [Workers -> ProcessStates]
        BY DEF TypeOK
      <3>2. worker' \in [Workers -> ProcessStates]
        BY <2>1, <2>2, <3>1
      <3>3. jobs' \in [Bookings -> Nat]
        BY <2>2, <3>1
      <3> QED
        BY <3>2, <3>3
    <2>8. TypeOK'
      BY <1>9, <2>3 DEF StartJob, TypeOK, windowVars, rowVars, tableVars, outsideVars
    <2>9. BusyHasBooking'
      BY <1>9, <2>1 DEF StartJob, BusyHasBooking, rowVars, tableVars, outsideVars
    <2> QED
      BY <2>8, <2>9
  <1>10. ASSUME NEW w \in Workers, PostOrder(w) PROVE TypeInv'
    <2> DEFINE b == worker[w].booking
               n == posts[b] + 1
    <2>1. b \in Bookings
      BY <1>0, <1>10 DEF PostOrder, BusyHasBooking
    <2>2. n \in 1 .. MaxPosts /\ n \in 0 .. MaxPosts
      BY <1>10, <2>1, SMTT(30) DEF PostOrder, TypeOK, windowVars, ConstantsAssumption
    <2>3. /\ [pc |-> "created", booking |-> b, order |-> n] \in ProcessStates
          /\ [pc |-> "rejected", booking |-> b, order |-> 0] \in ProcessStates
      BY <2>1, <2>2 DEF ProcessStates
    <2>4. order' \in [OrderIds -> {"none", "inflight", "live", "refused"}]
      <3>1. PICK fate \in {"live", "refused", "inflight"} : order' = [order EXCEPT ![<<b, n>>] = fate]
        BY <1>10 DEF PostOrder
      <3>2. order \in [OrderIds -> {"none", "inflight", "live", "refused"}]
        BY DEF TypeOK
      <3> QED
        BY <3>1, <3>2
    <2>5. /\ posts' = [posts EXCEPT ![b] = n]
          /\ \/ worker' = [worker EXCEPT ![w] =
                              [pc |-> "created", booking |-> b, order |-> n]]
             \/ worker' = [worker EXCEPT ![w] =
                              [pc |-> "rejected", booking |-> b, order |-> 0]]
             \/ worker' = [worker EXCEPT ![w] = Idle]
      BY <1>10 DEF PostOrder
    <2>6. /\ worker' \in [Workers -> ProcessStates]
          /\ posts' \in [Bookings -> 0 .. MaxPosts]
      <3>1. worker \in [Workers -> ProcessStates] /\ posts \in [Bookings -> 0 .. MaxPosts]
        BY DEF TypeOK
      <3> HIDE DEF n, b
      <3>2. posts' \in [Bookings -> 0 .. MaxPosts]
        <4>1. posts' = [posts EXCEPT ![b] = n]
          BY <2>5
        <4> QED
          BY <2>1, <2>2, <3>1, <4>1
      <3>3. \A s \in ProcessStates : [worker EXCEPT ![w] = s] \in [Workers -> ProcessStates]
        BY <3>1
      <3>4. worker' \in [Workers -> ProcessStates]
        BY <1>0, <2>3, <2>5, <3>3, Zenon
      <3> QED
        BY <3>2, <3>4
    <2>7. \A v \in Workers : worker'[v] = Idle \/ worker'[v].booking \in Bookings
      <3>1. \A v \in Workers : worker[v] = Idle \/ worker[v].booking \in Bookings
        BY DEF BusyHasBooking
      <3>2. worker \in [Workers -> ProcessStates]
        BY DEF TypeOK
      <3> HIDE DEF n, b
      <3> QED
        BY <1>0, <2>1, <2>5, <3>1, <3>2
    <2>8. TypeOK'
      BY <1>10, <2>4, <2>6 DEF PostOrder, TypeOK, windowVars, rowVars, tableVars, queueVars
    <2>9. BusyHasBooking'
      BY <1>10, <2>7 DEF PostOrder, BusyHasBooking, memoryVars
    <2> QED
      BY <2>8, <2>9
  <1>11. ASSUME NEW w \in Workers, JobConfirms(w) PROVE TypeInv'
    <2>1. worker[w].booking \in Bookings /\ worker[w].order \in 0 .. MaxPosts
      BY <1>0, <1>11 DEF JobConfirms, BusyHasBooking, TypeOK, windowVars, ProcessStates
    <2>8. TypeOK'
      BY <1>0, <1>11, <2>1, ConfirmTypes DEF JobConfirms, TypeOK, windowVars, queueVars, outsideVars
    <2>9. BusyHasBooking'
      BY <1>0, <1>11, <2>1, ConfirmTypes DEF JobConfirms, BusyHasBooking, queueVars, outsideVars
    <2> QED
      BY <2>8, <2>9
  <1>12. ASSUME NEW w \in Workers, JobFails(w) PROVE TypeInv'
    <2>1. worker[w].booking \in Bookings
      BY <1>0, <1>12 DEF JobFails, BusyHasBooking
    <2>2. /\ status' \in [Bookings -> BookingStatus]
          /\ history' \in [Bookings -> Seq(HistoryRows)]
          /\ refunds' \in [Bookings -> Nat]
          /\ UNCHANGED <<supplierOrder, supplierCharges, documents, mailDue>>
      BY <1>12, <2>1, FailTypes DEF JobFails
    <2>8. TypeOK'
      BY <1>0, <1>12, <2>2 DEF JobFails, TypeOK, windowVars, queueVars, outsideVars
    <2>9. BusyHasBooking'
      BY <1>0, <1>12, <2>1, FailTypes DEF JobFails, BusyHasBooking, queueVars, outsideVars
    <2> QED
      BY <2>8, <2>9
  <1>13. ASSUME NEW w \in Workers, WorkerDies(w) PROVE TypeInv'
    <2>1. worker[w].booking \in Bookings
      BY <1>13 DEF WorkerDies, BusyHasBooking
    <2>2. /\ worker' = [worker EXCEPT ![w] = Idle]
          /\ \/ stalls' = stalls /\ jobs' = jobs
             \/ /\ stalls < MaxStalls
                /\ stalls' = stalls + 1
                /\ jobs' = [jobs EXCEPT ![worker[w].booking] = @ + 1]
      BY <1>13 DEF WorkerDies, queueVars
    <2>3. /\ worker' \in [Workers -> ProcessStates]
          /\ stalls' \in 0 .. MaxStalls
          /\ jobs' \in [Bookings -> Nat]
      <3>1. /\ worker \in [Workers -> ProcessStates]
            /\ stalls \in 0 .. MaxStalls
            /\ jobs \in [Bookings -> Nat]
        BY DEF TypeOK
      <3>2. worker' \in [Workers -> ProcessStates]
        BY <1>0, <2>2, <3>1
      <3>3. stalls' \in 0 .. MaxStalls
        BY <2>2, <3>1
      <3>4. jobs' \in [Bookings -> Nat]
        BY <2>1, <2>2, <3>1
      <3> QED
        BY <3>2, <3>3, <3>4
    <2>8. TypeOK'
      BY <1>13, <2>3 DEF WorkerDies, TypeOK, windowVars, rowVars, tableVars, outsideVars
    <2>9. BusyHasBooking'
      BY <1>0, <1>13, <2>1 DEF WorkerDies, BusyHasBooking, rowVars, tableVars, queueVars, outsideVars
    <2> QED
      BY <2>8, <2>9
  <1>14. ASSUME NEW o \in OrderIds, DuffelSettles(o) PROVE TypeInv'
    <2>1. TypeOK'
      BY <1>14 DEF DuffelSettles, TypeOK, windowVars, rowVars, tableVars, queueVars, memoryVars
    <2>2. BusyHasBooking'
      BY <1>14 DEF DuffelSettles, BusyHasBooking, rowVars, tableVars, queueVars, memoryVars
    <2> QED
      BY <2>1, <2>2
  <1>15. ASSUME NEW o \in OrderIds, ReceiveOrderCreated(o) PROVE TypeInv'
    <2>1. TypeOK'
      BY <1>15 DEF ReceiveOrderCreated, TypeOK, windowVars, rowVars, tableVars, queueVars, memoryVars, outsideVars
    <2>2. BusyHasBooking'
      BY <1>15 DEF ReceiveOrderCreated, BusyHasBooking, rowVars, tableVars, queueVars, memoryVars, outsideVars
    <2> QED
      BY <2>1, <2>2
  <1>16. ASSUME NEW o \in OrderIds, ProcessOrderCreated(o) PROVE TypeInv'
    <2>1. o[1] \in Bookings /\ o[2] \in 0 .. MaxPosts
      BY DEF OrderIds
    <2>8. TypeOK'
      BY <1>16, <2>1, ConfirmTypes DEF ProcessOrderCreated, TypeOK, windowVars, queueVars, outsideVars
    <2>9. BusyHasBooking'
      BY <1>16, <2>1, ConfirmTypes DEF ProcessOrderCreated, BusyHasBooking, queueVars, outsideVars
    <2> QED
      BY <2>8, <2>9
  <1>17. CASE SweepConfirms
    <2>1. sweep.booking \in Bookings /\ sweep.order \in 0 .. MaxPosts
      BY <1>0, <1>17 DEF SweepConfirms, BusyHasBooking, TypeOK, windowVars, ProcessStates
    <2>8. TypeOK'
      BY <1>0, <1>17, <2>1, ConfirmTypes DEF SweepConfirms, TypeOK, windowVars, queueVars, outsideVars
    <2>9. BusyHasBooking'
      BY <1>0, <1>17, <2>1, ConfirmTypes DEF SweepConfirms, BusyHasBooking, queueVars, outsideVars
    <2> QED
      BY <2>8, <2>9
  <1>18. CASE SweepFails
    <2>1. sweep.booking \in Bookings
      BY <1>0, <1>18 DEF SweepFails, BusyHasBooking
    <2>2. /\ status' \in [Bookings -> BookingStatus]
          /\ history' \in [Bookings -> Seq(HistoryRows)]
          /\ refunds' \in [Bookings -> Nat]
          /\ UNCHANGED <<supplierOrder, supplierCharges, documents, mailDue>>
      BY <1>18, <2>1, FailTypes DEF SweepFails
    <2>8. TypeOK'
      BY <1>0, <1>18, <2>2 DEF SweepFails, TypeOK, windowVars, queueVars, outsideVars
    <2>9. BusyHasBooking'
      BY <1>0, <1>18, <2>1, FailTypes DEF SweepFails, BusyHasBooking, queueVars, outsideVars
    <2> QED
      BY <2>8, <2>9
  <1>19. CASE SweepDies
    <2>1. TypeOK'
      BY <1>0, <1>19 DEF SweepDies, TypeOK, windowVars, rowVars, tableVars, queueVars, outsideVars
    <2>2. BusyHasBooking'
      BY <1>0, <1>19 DEF SweepDies, BusyHasBooking, rowVars, tableVars, queueVars, outsideVars
    <2> QED
      BY <2>1, <2>2
  <1>20. CASE UNCHANGED vars
    <2>1. TypeOK'
      BY <1>20 DEF vars, TypeOK, windowVars, rowVars, tableVars, queueVars, memoryVars, outsideVars
    <2>2. BusyHasBooking'
      BY <1>20 DEF vars, BusyHasBooking, rowVars, tableVars, queueVars, memoryVars, outsideVars
    <2> QED
      BY <2>1, <2>2
  <1>21. CASE AccountOutgrowsScan
    <2>1. TypeOK'
      BY <1>21 DEF AccountOutgrowsScan, TypeOK, rowVars, tableVars, queueVars, memoryVars, outsideVars
    <2>2. BusyHasBooking'
      BY <1>21 DEF AccountOutgrowsScan, BusyHasBooking, memoryVars
    <2> QED
      BY <2>1, <2>2
  <1> QED
    BY <1>1, <1>2, <1>3, <1>4, <1>5, <1>6, <1>7, <1>8, <1>9, <1>10, <1>11, <1>12,
       <1>13, <1>14, <1>15, <1>16, <1>17, <1>18, <1>19, <1>20, <1>21 DEF Next

\* Type correctness.
THEOREM TypeCorrect == Spec => []TypeOK
  <1>1. TypeInv => TypeOK
    BY DEF TypeInv
  <1> QED
    BY <1>1, InitTypes, NextTypes, PTL DEF Spec

-----------------------------------------------------------------------------
(* What becomes of a captured payment. *)

PaidIsPaidFor == \A b \in Bookings : status[b] = "paid" => payment[b] = "succeeded"

OutcomeInv ==
    OutcomeAppliedOnce /\ AtMostOneEmail /\ ConfirmedHoldsItsOrder /\ PaidIsPaidFor

LiveIds == {o \in OrderIds : order[o] = "live"}

\* An order somebody is about to record is live at Duffel.
HeldOrdersAreLive ==
    /\ \A w \in Workers :
          worker[w].pc = "created" => <<worker[w].booking, worker[w].order>> \in LiveIds
    /\ sweep.pc = "found" => <<sweep.booking, sweep.order>> \in LiveIds
    /\ \A o \in OrderIds : supplierInbox[o] # "none" => o \in LiveIds

\* A number no POST of the booking has used yet names no order.
PostsAreFresh ==
    \A b \in Bookings, n \in 1 .. MaxPosts : n > posts[b] => order[<<b, n>>] = "none"

OrderInv == HeldOrdersAreLive /\ PostsAreFresh

IInv == TypeInv /\ OutcomeInv /\ OrderInv

-----------------------------------------------------------------------------
(* Orders: what an actor holds stays live. *)

LiveStays == LiveIds \subseteq LiveIds'

LEMMA LiveOrdersAreIds ==
  \A b \in Bookings, n \in 1 .. MaxPosts : n \in LiveOrders(b) <=> <<b, n>> \in LiveIds
  BY DEF LiveOrders, LiveIds, OrderIds

LEMMA LiveOrdersGrow ==
  ASSUME LiveStays, NEW b \in Bookings, NEW n \in LiveOrders(b)
  PROVE  n \in LiveOrders(b)'
  BY DEF LiveStays, LiveOrders, LiveIds, OrderIds

\* Actors that hold nothing new, over orders that stay live and are posted
\* under fresh numbers, keep OrderInv.
LEMMA OrdersKept ==
  ASSUME OrderInv, LiveStays,
         \A v \in Workers : worker'[v].pc = "created" => worker'[v] = worker[v],
         sweep'.pc = "found" => sweep' = sweep,
         \A p \in OrderIds :
            supplierInbox'[p] # "none" => supplierInbox[p] # "none" \/ p \in LiveIds,
         PostsAreFresh'
  PROVE  OrderInv'
  <1>1. ASSUME NEW w \in Workers, worker'[w].pc = "created"
        PROVE  <<worker'[w].booking, worker'[w].order>> \in LiveIds'
    <2>1. worker'[w] = worker[w]
      BY <1>1
    <2>2. <<worker[w].booking, worker[w].order>> \in LiveIds
      BY <1>1, <2>1 DEF OrderInv, HeldOrdersAreLive
    <2> QED
      BY <2>1, <2>2 DEF LiveStays
  <1>2. ASSUME sweep'.pc = "found"
        PROVE  <<sweep'.booking, sweep'.order>> \in LiveIds'
    BY <1>2 DEF OrderInv, HeldOrdersAreLive, LiveStays
  <1>3. ASSUME NEW o \in OrderIds, supplierInbox'[o] # "none"
        PROVE  o \in LiveIds'
    BY <1>3 DEF OrderInv, HeldOrdersAreLive, LiveStays
  <1> QED
    BY <1>1, <1>2, <1>3 DEF OrderInv, HeldOrdersAreLive

-----------------------------------------------------------------------------
(* Outcomes: what each of the three paths writes. *)

outcomeVars == <<status, payment, supplierCharges, documents, refunds,
                 supplierOrder, mailDue, emails>>

LEMMA OutcomeKept ==
  ASSUME OutcomeInv, LiveStays, UNCHANGED outcomeVars
  PROVE  OutcomeInv'
  <1>1. OutcomeAppliedOnce' /\ AtMostOneEmail' /\ PaidIsPaidFor'
    BY DEF OutcomeInv, OutcomeAppliedOnce, AtMostOneEmail, PaidIsPaidFor, One, outcomeVars
  <1>2. ConfirmedHoldsItsOrder'
    BY LiveOrdersGrow DEF OutcomeInv, ConfirmedHoldsItsOrder, outcomeVars
  <1> QED
    BY <1>1, <1>2 DEF OutcomeInv

\* T4 and the expiry of an unpaid booking write no outcome.
LEMMA StatusOutcome ==
  ASSUME TypeInv, OutcomeInv, NEW b \in Bookings, NEW to \in {"paid", "failed"},
         TransitionTo(b, to),
         payment' = [payment EXCEPT ![b] = "succeeded"]
            \/ (to = "failed" /\ payment' = payment),
         UNCHANGED <<supplierCharges, documents, refunds, supplierOrder, mailDue,
                     emails, order>>
  PROVE  OutcomeInv'
  <1>1. /\ status' = [status EXCEPT ![b] = to]
        /\ status[b] \notin {"confirmed", "order_failed"}
    <2>1. status \in [Bookings -> BookingStatus]
      BY DEF TypeInv, TypeOK
    <2>2. CASE status[b] = to /\ UNCHANGED rowVars
      BY <2>1, <2>2 DEF rowVars
    <2>3. CASE /\ <<status[b], to>> \in LegalTransitions
               /\ status' = [status EXCEPT ![b] = to]
      BY <2>1, <2>3 DEF LegalTransitions
    <2> QED
      BY <2>2, <2>3 DEF TransitionTo
  <1>2. \A c \in Bookings : /\ One(status'[c] = "confirmed") = One(status[c] = "confirmed")
                            /\ One(status'[c] = "order_failed") = One(status[c] = "order_failed")
                            /\ status'[c] = "confirmed" <=> status[c] = "confirmed"
    BY <1>1 DEF TypeInv, TypeOK, One
  <1>3. OutcomeAppliedOnce'
    BY <1>2 DEF OutcomeInv, OutcomeAppliedOnce
  <1>4. AtMostOneEmail'
    BY <1>2 DEF OutcomeInv, AtMostOneEmail
  <1>5. ConfirmedHoldsItsOrder'
    BY <1>2 DEF OutcomeInv, ConfirmedHoldsItsOrder, LiveOrders
  <1>6. PaidIsPaidFor'
    BY <1>1, SMTT(30) DEF TypeInv, TypeOK, OutcomeInv, PaidIsPaidFor
  <1> QED
    BY <1>3, <1>4, <1>5, <1>6 DEF OutcomeInv

\* T5, whoever applies it, with an order that is live.
LEMMA ConfirmOutcome ==
  ASSUME TypeInv, OutcomeInv, NEW b \in Bookings, NEW n \in LiveOrders(b),
         ConfirmPaidBooking(b, n), UNCHANGED <<payment, emails, order>>
  PROVE  OutcomeInv'
  <1>0. LiveStays
    BY DEF LiveStays, LiveIds
  <1>1. CASE status[b] # "paid"
    BY <1>0, <1>1, OutcomeKept DEF ConfirmPaidBooking, outcomeVars, rowVars
  <1>2. CASE status[b] = "paid"
    <2>1. /\ TransitionTo(b, "confirmed")
          /\ supplierOrder' = [supplierOrder EXCEPT ![b] = n]
          /\ supplierCharges' = [supplierCharges EXCEPT ![b] = @ + 1]
          /\ documents' = [documents EXCEPT ![b] = @ + 1]
          /\ mailDue' = [mailDue EXCEPT ![b] = @ + 1]
          /\ refunds' = refunds
      BY <1>2 DEF ConfirmPaidBooking
    <2>2. status' = [status EXCEPT ![b] = "confirmed"]
      BY <1>2, <2>1 DEF TransitionTo
    <2>3. /\ status \in [Bookings -> BookingStatus]
          /\ supplierOrder \in [Bookings -> 0 .. MaxPosts]
          /\ supplierCharges \in [Bookings -> Nat]
          /\ documents \in [Bookings -> Nat]
          /\ mailDue \in [Bookings -> Nat]
          /\ emails \in [Bookings -> Nat]
      BY DEF TypeInv, TypeOK
    <2>4. /\ supplierCharges[b] = 0 /\ documents[b] = 0 /\ refunds[b] = 0
          /\ emails[b] + mailDue[b] <= 0
      BY <1>2 DEF OutcomeInv, OutcomeAppliedOnce, AtMostOneEmail, One
    <2>5. ASSUME NEW c \in Bookings
          PROVE  /\ supplierCharges'[c] = One(status'[c] = "confirmed")
                 /\ documents'[c] = One(status'[c] = "confirmed")
                 /\ refunds'[c] = One(status'[c] = "order_failed")
                 /\ emails'[c] + mailDue'[c] <= One(status'[c] = "confirmed")
                 /\ status'[c] = "paid" => payment'[c] = "succeeded"
                 /\ IF status'[c] = "confirmed"
                    THEN supplierOrder'[c] \in LiveOrders(c)
                    ELSE supplierOrder'[c] = 0
      <3>1. CASE c = b
        BY <2>1, <2>2, <2>3, <2>4, <3>1 DEF One
      <3>2. CASE c # b
        BY <2>1, <2>2, <2>3, <3>2
           DEF OutcomeInv, OutcomeAppliedOnce, AtMostOneEmail, ConfirmedHoldsItsOrder,
               PaidIsPaidFor
      <3> QED
        BY <3>1, <3>2
    <2> QED
      BY <2>5 DEF OutcomeInv, OutcomeAppliedOnce, AtMostOneEmail,
                  ConfirmedHoldsItsOrder, PaidIsPaidFor, LiveOrders
  <1> QED
    BY <1>1, <1>2

\* T6: the refund is committed because the payment of a paid booking stands.
LEMMA FailOutcome ==
  ASSUME TypeInv, OutcomeInv, NEW b \in Bookings,
         FailPaidBookingAndRefund(b), UNCHANGED <<payment, emails, order>>
  PROVE  OutcomeInv'
  <1>0. LiveStays
    BY DEF LiveStays, LiveIds
  <1>1. CASE status[b] # "paid"
    BY <1>0, <1>1, OutcomeKept DEF FailPaidBookingAndRefund, outcomeVars, rowVars
  <1>2. CASE status[b] = "paid"
    <2>1. /\ TransitionTo(b, "order_failed")
          /\ payment[b] = "succeeded"
          /\ refunds' = [refunds EXCEPT ![b] = @ + 1]
          /\ UNCHANGED <<supplierOrder, supplierCharges, documents, mailDue>>
      BY <1>2 DEF FailPaidBookingAndRefund, OutcomeInv, PaidIsPaidFor
    <2>2. status' = [status EXCEPT ![b] = "order_failed"]
      BY <1>2, <2>1 DEF TransitionTo
    <2>3. /\ status \in [Bookings -> BookingStatus]
          /\ refunds \in [Bookings -> Nat]
      BY DEF TypeInv, TypeOK
    <2>4. refunds[b] = 0
      BY <1>2 DEF OutcomeInv, OutcomeAppliedOnce, One
    <2>5. ASSUME NEW c \in Bookings
          PROVE  /\ supplierCharges'[c] = One(status'[c] = "confirmed")
                 /\ documents'[c] = One(status'[c] = "confirmed")
                 /\ refunds'[c] = One(status'[c] = "order_failed")
                 /\ emails'[c] + mailDue'[c] <= One(status'[c] = "confirmed")
                 /\ status'[c] = "paid" => payment'[c] = "succeeded"
                 /\ IF status'[c] = "confirmed"
                    THEN supplierOrder'[c] \in LiveOrders(c)
                    ELSE supplierOrder'[c] = 0
      <3>1. CASE c = b
        BY <1>2, <2>1, <2>2, <2>3, <2>4, <3>1
           DEF One, OutcomeInv, OutcomeAppliedOnce, AtMostOneEmail, ConfirmedHoldsItsOrder
      <3>2. CASE c # b
        BY <2>1, <2>2, <2>3, <3>2
           DEF OutcomeInv, OutcomeAppliedOnce, AtMostOneEmail, ConfirmedHoldsItsOrder,
               PaidIsPaidFor
      <3> QED
        BY <3>1, <3>2
    <2> QED
      BY <2>5 DEF OutcomeInv, OutcomeAppliedOnce, AtMostOneEmail,
                  ConfirmedHoldsItsOrder, PaidIsPaidFor, LiveOrders
  <1> QED
    BY <1>1, <1>2

-----------------------------------------------------------------------------
\* Every step keeps the invariant.
LEMMA NextSafe == IInv /\ [Next]_vars => IInv'
  <1> SUFFICES ASSUME IInv, [Next]_vars PROVE OutcomeInv' /\ OrderInv'
    BY NextTypes DEF IInv
  <1> USE ConstantsAssumption
  <1>0. /\ TypeInv /\ OutcomeInv /\ OrderInv
        /\ Idle.pc = "idle"
        /\ worker \in [Workers -> ProcessStates]
        /\ supplierInbox \in [OrderIds -> {"none", "stored", "processed"}]
    BY DEF Idle, IInv, TypeInv, TypeOK
  <1>1. ASSUME NEW t \in Transactions, GatewaySettles(t) PROVE OutcomeInv' /\ OrderInv'
    <2>1. LiveStays /\ UNCHANGED outcomeVars /\ UNCHANGED <<posts, order>>
      BY <1>1 DEF GatewaySettles, LiveStays, LiveIds, outcomeVars, rowVars, tableVars, queueVars,
             memoryVars, outsideVars
    <2>2. OutcomeInv'
      BY <1>0, <2>1, OutcomeKept
    <2>3. PostsAreFresh'
      BY <1>0, <2>1 DEF OrderInv, PostsAreFresh
    <2>4. /\ \A v \in Workers : worker'[v].pc = "created" => worker'[v] = worker[v]
          /\ sweep'.pc = "found" => sweep' = sweep
          /\ \A p \in OrderIds :
                supplierInbox'[p] # "none" => supplierInbox[p] # "none" \/ p \in LiveIds
      BY <1>0, <1>1 DEF GatewaySettles, LiveIds, memoryVars
    <2> QED
      BY <1>0, <2>1, <2>2, <2>3, <2>4, OrdersKept
  <1>2. ASSUME NEW t \in Transactions, ReceivePaymentCallback(t) PROVE OutcomeInv' /\ OrderInv'
    <2>1. LiveStays /\ UNCHANGED outcomeVars /\ UNCHANGED <<posts, order>>
      BY <1>2 DEF ReceivePaymentCallback, LiveStays, LiveIds, outcomeVars, rowVars, tableVars, queueVars,
             memoryVars, outsideVars
    <2>2. OutcomeInv'
      BY <1>0, <2>1, OutcomeKept
    <2>3. PostsAreFresh'
      BY <1>0, <2>1 DEF OrderInv, PostsAreFresh
    <2>4. /\ \A v \in Workers : worker'[v].pc = "created" => worker'[v] = worker[v]
          /\ sweep'.pc = "found" => sweep' = sweep
          /\ \A p \in OrderIds :
                supplierInbox'[p] # "none" => supplierInbox[p] # "none" \/ p \in LiveIds
      BY <1>0, <1>2 DEF ReceivePaymentCallback, LiveIds, memoryVars
    <2> QED
      BY <1>0, <2>1, <2>2, <2>3, <2>4, OrdersKept
  <1>3. ASSUME NEW t \in Transactions, ProcessCaptured(t) PROVE OutcomeInv' /\ OrderInv'
    <2>1. LiveStays /\ UNCHANGED <<posts, order>>
      BY <1>3 DEF ProcessCaptured, LiveStays, LiveIds, outsideVars
    <2>5. Payer(t) \in Bookings
      BY <1>3 DEF Payer, ConstantsAssumption
    <2>6. /\ TransitionTo(Payer(t), "paid")
          /\ payment' = [payment EXCEPT ![Payer(t)] = "succeeded"]
          /\ UNCHANGED <<supplierCharges, documents, refunds, supplierOrder, mailDue,
                         emails, order>>
      BY <1>3 DEF ProcessCaptured, memoryVars, outsideVars
    <2>2. OutcomeInv'
      BY <1>0, <2>5, <2>6, StatusOutcome
    <2>3. PostsAreFresh'
      BY <1>0, <2>1 DEF OrderInv, PostsAreFresh
    <2>4. /\ \A v \in Workers : worker'[v].pc = "created" => worker'[v] = worker[v]
          /\ sweep'.pc = "found" => sweep' = sweep
          /\ \A p \in OrderIds :
                supplierInbox'[p] # "none" => supplierInbox[p] # "none" \/ p \in LiveIds
      BY <1>0, <1>3 DEF ProcessCaptured, LiveIds, memoryVars
    <2> QED
      BY <1>0, <2>1, <2>2, <2>3, <2>4, OrdersKept
  <1>4. ASSUME NEW t \in Transactions, ProcessDeclined(t) PROVE OutcomeInv' /\ OrderInv'
    <2>1. LiveStays /\ UNCHANGED outcomeVars /\ UNCHANGED <<posts, order>>
      BY <1>4 DEF ProcessDeclined, LiveStays, LiveIds, outcomeVars, rowVars, tableVars, queueVars,
             memoryVars, outsideVars
    <2>2. OutcomeInv'
      BY <1>0, <2>1, OutcomeKept
    <2>3. PostsAreFresh'
      BY <1>0, <2>1 DEF OrderInv, PostsAreFresh
    <2>4. /\ \A v \in Workers : worker'[v].pc = "created" => worker'[v] = worker[v]
          /\ sweep'.pc = "found" => sweep' = sweep
          /\ \A p \in OrderIds :
                supplierInbox'[p] # "none" => supplierInbox[p] # "none" \/ p \in LiveIds
      BY <1>0, <1>4 DEF ProcessDeclined, LiveIds, memoryVars
    <2> QED
      BY <1>0, <2>1, <2>2, <2>3, <2>4, OrdersKept
  <1>5. ASSUME NEW b \in Bookings, ExpireBooking(b) PROVE OutcomeInv' /\ OrderInv'
    <2>1. LiveStays /\ UNCHANGED <<posts, order>>
      BY <1>5 DEF ExpireBooking, LiveStays, LiveIds, outsideVars
    <2>6. /\ TransitionTo(b, "failed")
          /\ payment' = payment
          /\ UNCHANGED <<supplierCharges, documents, refunds, supplierOrder, mailDue,
                         emails, order>>
      BY <1>5 DEF ExpireBooking, tableVars, memoryVars, outsideVars
    <2>2. OutcomeInv'
      BY <1>0, <1>5, <2>6, StatusOutcome
    <2>3. PostsAreFresh'
      BY <1>0, <2>1 DEF OrderInv, PostsAreFresh
    <2>4. /\ \A v \in Workers : worker'[v].pc = "created" => worker'[v] = worker[v]
          /\ sweep'.pc = "found" => sweep' = sweep
          /\ \A p \in OrderIds :
                supplierInbox'[p] # "none" => supplierInbox[p] # "none" \/ p \in LiveIds
      BY <1>0, <1>5 DEF ExpireBooking, LiveIds, memoryVars
    <2> QED
      BY <1>0, <2>1, <2>2, <2>3, <2>4, OrdersKept
  <1>6. ASSUME NEW b \in Bookings, WindowCloses(b) PROVE OutcomeInv' /\ OrderInv'
    <2>1. LiveStays /\ UNCHANGED outcomeVars /\ UNCHANGED <<posts, order>>
      BY <1>6 DEF WindowCloses, LiveStays, LiveIds, outcomeVars, rowVars, tableVars, queueVars,
             memoryVars, outsideVars
    <2>2. OutcomeInv'
      BY <1>0, <2>1, OutcomeKept
    <2>3. PostsAreFresh'
      BY <1>0, <2>1 DEF OrderInv, PostsAreFresh
    <2>4. /\ \A v \in Workers : worker'[v].pc = "created" => worker'[v] = worker[v]
          /\ sweep'.pc = "found" => sweep' = sweep
          /\ \A p \in OrderIds :
                supplierInbox'[p] # "none" => supplierInbox[p] # "none" \/ p \in LiveIds
      BY <1>0, <1>6 DEF WindowCloses, LiveIds, memoryVars
    <2> QED
      BY <1>0, <2>1, <2>2, <2>3, <2>4, OrdersKept
  <1>7. ASSUME NEW b \in Bookings, SweepLooksUp(b) PROVE OutcomeInv' /\ OrderInv'
    <2>1. LiveStays /\ UNCHANGED outcomeVars /\ UNCHANGED <<posts, order>>
      BY <1>7 DEF SweepLooksUp, LiveStays, LiveIds, outcomeVars, rowVars, tableVars, outsideVars
    <2>2. OutcomeInv'
      BY <1>0, <2>1, OutcomeKept
    <2>3. \/ \E n \in LiveOrders(b) :
                sweep' = [pc |-> "found", booking |-> b, order |-> n]
          \/ sweep' = [pc |-> "absent", booking |-> b, order |-> 0]
      BY <1>7 DEF SweepLooksUp
    <2>4. sweep'.pc = "found" => <<sweep'.booking, sweep'.order>> \in LiveIds
      <3>1. CASE sweep' = [pc |-> "absent", booking |-> b, order |-> 0]
        BY <3>1
      <3>2. ASSUME NEW n \in LiveOrders(b),
                   sweep' = [pc |-> "found", booking |-> b, order |-> n]
            PROVE  <<sweep'.booking, sweep'.order>> \in LiveIds
        <4>1. <<b, n>> \in LiveIds
          BY <1>7 DEF LiveOrders, LiveIds, OrderIds
        <4> QED
          BY <3>2, <4>1
      <3> QED
        BY <2>3, <3>1, <3>2
    <2>5. UNCHANGED <<worker, supplierInbox>>
      BY <1>7 DEF SweepLooksUp
    <2>6. HeldOrdersAreLive'
      BY <1>0, <2>1, <2>4, <2>5 DEF OrderInv, HeldOrdersAreLive, LiveStays
    <2> QED
      BY <1>0, <2>1, <2>2, <2>6 DEF OrderInv, PostsAreFresh
  <1>8. ASSUME NEW b \in Bookings, SendEmail(b) PROVE OutcomeInv' /\ OrderInv'
    <2>1. LiveStays /\ UNCHANGED <<posts, order>>
      BY <1>8 DEF SendEmail, LiveStays, LiveIds
    <2>2. /\ UNCHANGED <<status, payment, supplierCharges, documents, refunds, supplierOrder>>
          /\ mailDue[b] > 0
          /\ mailDue' = [mailDue EXCEPT ![b] = @ - 1]
          /\ emails' = [emails EXCEPT ![b] = @ + 1] \/ emails' = emails
      BY <1>8 DEF SendEmail, rowVars, tableVars
    <2>3. mailDue \in [Bookings -> Nat] /\ emails \in [Bookings -> Nat]
      BY <1>0 DEF TypeInv, TypeOK
    <2>4. \A c \in Bookings : emails'[c] + mailDue'[c] <= emails[c] + mailDue[c]
      BY <2>2, <2>3
    <2>5. mailDue' \in [Bookings -> Nat] /\ emails' \in [Bookings -> Nat]
      BY NextTypes DEF IInv, TypeInv, TypeOK
    <2>6. AtMostOneEmail'
      <3>1. ASSUME NEW c \in Bookings
            PROVE  emails'[c] + mailDue'[c] <= One(status'[c] = "confirmed")
        BY <1>0, <2>2, <2>3, <2>4, <2>5 DEF OutcomeInv, AtMostOneEmail, One
      <3> QED
        BY <3>1 DEF AtMostOneEmail
    <2>7. OutcomeAppliedOnce' /\ PaidIsPaidFor'
      BY <1>0, <2>2 DEF OutcomeInv, OutcomeAppliedOnce, PaidIsPaidFor
    <2>8. ConfirmedHoldsItsOrder'
      BY <1>0, <2>1, <2>2 DEF OutcomeInv, ConfirmedHoldsItsOrder, LiveOrders
    <2>9. PostsAreFresh'
      BY <1>0, <2>1 DEF OrderInv, PostsAreFresh
    <2>10. UNCHANGED <<worker, sweep, supplierInbox>>
      BY <1>8 DEF SendEmail
    <2>11. OrderInv'
      BY <1>0, <2>1, <2>9, <2>10, OrdersKept
    <2> QED
      BY <2>6, <2>7, <2>8, <2>11 DEF OutcomeInv
  <1>9. ASSUME NEW w \in Workers, NEW b \in Bookings, StartJob(w, b)
        PROVE  OutcomeInv' /\ OrderInv'
    <2>1. LiveStays /\ UNCHANGED outcomeVars /\ UNCHANGED <<posts, order>>
      BY <1>9 DEF StartJob, LiveStays, LiveIds, outcomeVars, rowVars, tableVars, queueVars,
             memoryVars, outsideVars
    <2>2. OutcomeInv'
      BY <1>0, <2>1, OutcomeKept
    <2>3. PostsAreFresh'
      BY <1>0, <2>1 DEF OrderInv, PostsAreFresh
    <2>4. /\ \A v \in Workers : worker'[v].pc = "created" => worker'[v] = worker[v]
          /\ sweep'.pc = "found" => sweep' = sweep
          /\ \A p \in OrderIds :
                supplierInbox'[p] # "none" => supplierInbox[p] # "none" \/ p \in LiveIds
      BY <1>0, <1>9 DEF StartJob, LiveIds, memoryVars
    <2> QED
      BY <1>0, <2>1, <2>2, <2>3, <2>4, OrdersKept
  <1>10. ASSUME NEW w \in Workers, WorkerDies(w) PROVE OutcomeInv' /\ OrderInv'
    <2>1. LiveStays /\ UNCHANGED outcomeVars /\ UNCHANGED <<posts, order>>
      BY <1>10 DEF WorkerDies, LiveStays, LiveIds, outcomeVars, rowVars, tableVars, queueVars,
             memoryVars, outsideVars
    <2>2. OutcomeInv'
      BY <1>0, <2>1, OutcomeKept
    <2>3. PostsAreFresh'
      BY <1>0, <2>1 DEF OrderInv, PostsAreFresh
    <2>4. /\ \A v \in Workers : worker'[v].pc = "created" => worker'[v] = worker[v]
          /\ sweep'.pc = "found" => sweep' = sweep
          /\ \A p \in OrderIds :
                supplierInbox'[p] # "none" => supplierInbox[p] # "none" \/ p \in LiveIds
      BY <1>0, <1>10 DEF WorkerDies, LiveIds, memoryVars
    <2> QED
      BY <1>0, <2>1, <2>2, <2>3, <2>4, OrdersKept
  <1>11. ASSUME NEW o \in OrderIds, ReceiveOrderCreated(o) PROVE OutcomeInv' /\ OrderInv'
    <2>1. LiveStays /\ UNCHANGED outcomeVars /\ UNCHANGED <<posts, order>>
      BY <1>11 DEF ReceiveOrderCreated, LiveStays, LiveIds, outcomeVars, rowVars, tableVars, queueVars,
             memoryVars, outsideVars
    <2>2. OutcomeInv'
      BY <1>0, <2>1, OutcomeKept
    <2>3. PostsAreFresh'
      BY <1>0, <2>1 DEF OrderInv, PostsAreFresh
    <2>4. /\ \A v \in Workers : worker'[v].pc = "created" => worker'[v] = worker[v]
          /\ sweep'.pc = "found" => sweep' = sweep
          /\ \A p \in OrderIds :
                supplierInbox'[p] # "none" => supplierInbox[p] # "none" \/ p \in LiveIds
      BY <1>0, <1>11 DEF ReceiveOrderCreated, LiveIds, memoryVars
    <2> QED
      BY <1>0, <2>1, <2>2, <2>3, <2>4, OrdersKept
  <1>12. CASE SweepDies
    <2>1. LiveStays /\ UNCHANGED outcomeVars /\ UNCHANGED <<posts, order>>
      BY <1>12 DEF SweepDies, LiveStays, LiveIds, outcomeVars, rowVars, tableVars, queueVars,
             memoryVars, outsideVars
    <2>2. OutcomeInv'
      BY <1>0, <2>1, OutcomeKept
    <2>3. PostsAreFresh'
      BY <1>0, <2>1 DEF OrderInv, PostsAreFresh
    <2>4. /\ \A v \in Workers : worker'[v].pc = "created" => worker'[v] = worker[v]
          /\ sweep'.pc = "found" => sweep' = sweep
          /\ \A p \in OrderIds :
                supplierInbox'[p] # "none" => supplierInbox[p] # "none" \/ p \in LiveIds
      BY <1>0, <1>12 DEF SweepDies, LiveIds, memoryVars
    <2> QED
      BY <1>0, <2>1, <2>2, <2>3, <2>4, OrdersKept
  <1>13. CASE UNCHANGED vars
    <2>1. LiveStays /\ UNCHANGED outcomeVars /\ UNCHANGED <<posts, order>>
      BY <1>13 DEF vars, LiveStays, LiveIds, outcomeVars, rowVars, tableVars, queueVars,
             memoryVars, outsideVars
    <2>2. OutcomeInv'
      BY <1>0, <2>1, OutcomeKept
    <2>3. PostsAreFresh'
      BY <1>0, <2>1 DEF OrderInv, PostsAreFresh
    <2>4. /\ \A v \in Workers : worker'[v].pc = "created" => worker'[v] = worker[v]
          /\ sweep'.pc = "found" => sweep' = sweep
          /\ \A p \in OrderIds :
                supplierInbox'[p] # "none" => supplierInbox[p] # "none" \/ p \in LiveIds
      BY <1>0, <1>13 DEF vars, LiveIds, memoryVars
    <2> QED
      BY <1>0, <2>1, <2>2, <2>3, <2>4, OrdersKept
  <1>14. ASSUME NEW o \in OrderIds, DuffelSettles(o) PROVE OutcomeInv' /\ OrderInv'
    <2>1. /\ order[o] = "inflight"
          /\ \A q \in OrderIds : q # o => order'[q] = order[q]
          /\ UNCHANGED posts
      BY <1>0, <1>14 DEF DuffelSettles, TypeInv, TypeOK
    <2>2. LiveStays /\ UNCHANGED outcomeVars
      BY <1>14, <2>1 DEF DuffelSettles, LiveStays, LiveIds, outcomeVars, rowVars,
                         tableVars, memoryVars
    <2>3. OutcomeInv'
      BY <1>0, <2>2, OutcomeKept
    <2>4. PostsAreFresh'
      BY <1>0, <2>1 DEF OrderInv, PostsAreFresh, OrderIds
    <2>5. UNCHANGED <<worker, sweep, supplierInbox>>
      BY <1>14 DEF DuffelSettles, memoryVars
    <2> QED
      BY <1>0, <2>2, <2>3, <2>4, <2>5, OrdersKept
  <1>15. ASSUME NEW w \in Workers, PostOrder(w) PROVE OutcomeInv' /\ OrderInv'
    <2> DEFINE b == worker[w].booking
               n == posts[b] + 1
    <2>1. worker[w].pc = "posting" /\ b \in Bookings
      BY <1>0, <1>15 DEF PostOrder, TypeInv, BusyHasBooking
    <2>2. n \in 1 .. MaxPosts /\ n > posts[b] /\ posts \in [Bookings -> 0 .. MaxPosts]
      <3>1. posts \in [Bookings -> 0 .. MaxPosts]
        BY <1>0 DEF TypeInv, TypeOK
      <3>2. posts[b] < MaxPosts
        BY <1>15 DEF PostOrder
      <3> QED
        BY <2>1, <3>1, <3>2 DEF ConstantsAssumption
    <2>3. <<b, n>> \in OrderIds /\ order[<<b, n>>] = "none"
      BY <1>0, <2>1, <2>2 DEF OrderInv, PostsAreFresh, OrderIds
    <2>4. /\ posts' = [posts EXCEPT ![b] = n]
          /\ \A q \in OrderIds : q # <<b, n>> => order'[q] = order[q]
      BY <1>0, <1>15 DEF PostOrder, TypeInv, TypeOK
    <2>5. UNCHANGED <<outcomeVars, sweep, supplierInbox>>
      BY <1>15 DEF PostOrder, outcomeVars, rowVars, tableVars
    <2>6. \/ /\ order' = [order EXCEPT ![<<b, n>>] = "live"]
             /\ worker' = [worker EXCEPT ![w] =
                              [pc |-> "created", booking |-> b, order |-> n]]
          \/ worker' = [worker EXCEPT ![w] =
                              [pc |-> "rejected", booking |-> b, order |-> 0]]
          \/ worker' = [worker EXCEPT ![w] = Idle]
      BY <1>15 DEF PostOrder
    <2>7. order \in [OrderIds -> {"none", "inflight", "live", "refused"}]
      BY <1>0 DEF TypeInv, TypeOK
    <2> HIDE DEF n, b
    <2>8. LiveStays
      BY <2>3, <2>4 DEF LiveStays, LiveIds
    <2>9. OutcomeInv'
      BY <1>0, <2>5, <2>8, OutcomeKept
    <2>10. PostsAreFresh'
      <3>1. ASSUME NEW c \in Bookings, NEW m \in 1 .. MaxPosts, m > posts'[c]
            PROVE  order'[<<c, m>>] = "none"
        <4>1. m > posts[c] /\ <<c, m>> # <<b, n>>
          BY <2>1, <2>2, <2>4, <3>1
        <4>2. <<c, m>> \in OrderIds
          BY DEF OrderIds
        <4> QED
          BY <1>0, <2>4, <4>1, <4>2 DEF OrderInv, PostsAreFresh
      <3> QED
        BY <3>1 DEF PostsAreFresh
    <2>11. ASSUME NEW v \in Workers, worker'[v].pc = "created"
           PROVE  <<worker'[v].booking, worker'[v].order>> \in LiveIds'
      <3>1. CASE worker'[v] = worker[v]
        <4>1. <<worker[v].booking, worker[v].order>> \in LiveIds
          BY <1>0, <2>11, <3>1 DEF OrderInv, HeldOrdersAreLive
        <4> QED
          BY <2>8, <3>1, <4>1 DEF LiveStays
      <3>2. CASE worker'[v] # worker[v]
        <4>1. /\ order' = [order EXCEPT ![<<b, n>>] = "live"]
              /\ worker'[v] = [pc |-> "created", booking |-> b, order |-> n]
          BY <1>0, <2>6, <2>11, <3>2
        <4>2. <<b, n>> \in LiveIds'
          BY <2>3, <2>7, <4>1 DEF LiveIds
        <4> QED
          BY <4>1, <4>2
      <3> QED
        BY <3>1, <3>2
    <2>12. HeldOrdersAreLive'
      BY <1>0, <2>5, <2>8, <2>11 DEF OrderInv, HeldOrdersAreLive, LiveStays
    <2> QED
      BY <2>9, <2>10, <2>12 DEF OrderInv
  <1>16. ASSUME NEW w \in Workers, JobConfirms(w) PROVE OutcomeInv' /\ OrderInv'
    <2>1. LiveStays /\ UNCHANGED <<posts, order>>
      BY <1>16 DEF JobConfirms, LiveStays, LiveIds, outsideVars
    <2>5. worker[w].booking \in Bookings /\ worker[w].order \in LiveOrders(worker[w].booking)
      <3>1. <<worker[w].booking, worker[w].order>> \in LiveIds
        BY <1>0, <1>16 DEF JobConfirms, OrderInv, HeldOrdersAreLive
      <3> QED
        BY <3>1 DEF LiveOrders, LiveIds, OrderIds
    <2>6. ConfirmPaidBooking(worker[w].booking, worker[w].order) /\ UNCHANGED <<payment, emails, order>>
      BY <1>16 DEF JobConfirms, outsideVars
    <2>2. OutcomeInv'
      BY <1>0, <2>5, <2>6, ConfirmOutcome
    <2>3. PostsAreFresh'
      BY <1>0, <2>1 DEF OrderInv, PostsAreFresh
    <2>4. /\ \A v \in Workers : worker'[v].pc = "created" => worker'[v] = worker[v]
          /\ sweep'.pc = "found" => sweep' = sweep
          /\ \A p \in OrderIds :
                supplierInbox'[p] # "none" => supplierInbox[p] # "none" \/ p \in LiveIds
      BY <1>0, <1>16 DEF JobConfirms, LiveIds, memoryVars
    <2> QED
      BY <1>0, <2>1, <2>2, <2>3, <2>4, OrdersKept
  <1>17. ASSUME NEW o \in OrderIds, ProcessOrderCreated(o) PROVE OutcomeInv' /\ OrderInv'
    <2>1. LiveStays /\ UNCHANGED <<posts, order>>
      BY <1>17 DEF ProcessOrderCreated, LiveStays, LiveIds, outsideVars
    <2>5. o[1] \in Bookings /\ o[2] \in LiveOrders(o[1])
      <3>1. o \in LiveIds /\ o = <<o[1], o[2]>>
        BY <1>0, <1>17 DEF ProcessOrderCreated, OrderInv, HeldOrdersAreLive, OrderIds
      <3> QED
        BY <3>1 DEF LiveOrders, LiveIds, OrderIds
    <2>6. ConfirmPaidBooking(o[1], o[2]) /\ UNCHANGED <<payment, emails, order>>
      BY <1>17 DEF ProcessOrderCreated, outsideVars
    <2>2. OutcomeInv'
      BY <1>0, <2>5, <2>6, ConfirmOutcome
    <2>3. PostsAreFresh'
      BY <1>0, <2>1 DEF OrderInv, PostsAreFresh
    <2>4. /\ \A v \in Workers : worker'[v].pc = "created" => worker'[v] = worker[v]
          /\ sweep'.pc = "found" => sweep' = sweep
          /\ \A p \in OrderIds :
                supplierInbox'[p] # "none" => supplierInbox[p] # "none" \/ p \in LiveIds
      BY <1>0, <1>17 DEF ProcessOrderCreated, LiveIds, memoryVars
    <2> QED
      BY <1>0, <2>1, <2>2, <2>3, <2>4, OrdersKept
  <1>18. CASE SweepConfirms
    <2>1. LiveStays /\ UNCHANGED <<posts, order>>
      BY <1>18 DEF SweepConfirms, LiveStays, LiveIds, outsideVars
    <2>5. sweep.booking \in Bookings /\ sweep.order \in LiveOrders(sweep.booking)
      <3>1. <<sweep.booking, sweep.order>> \in LiveIds
        BY <1>0, <1>18 DEF SweepConfirms, OrderInv, HeldOrdersAreLive
      <3> QED
        BY <3>1 DEF LiveOrders, LiveIds, OrderIds
    <2>6. ConfirmPaidBooking(sweep.booking, sweep.order) /\ UNCHANGED <<payment, emails, order>>
      BY <1>18 DEF SweepConfirms, outsideVars
    <2>2. OutcomeInv'
      BY <1>0, <2>5, <2>6, ConfirmOutcome
    <2>3. PostsAreFresh'
      BY <1>0, <2>1 DEF OrderInv, PostsAreFresh
    <2>4. /\ \A v \in Workers : worker'[v].pc = "created" => worker'[v] = worker[v]
          /\ sweep'.pc = "found" => sweep' = sweep
          /\ \A p \in OrderIds :
                supplierInbox'[p] # "none" => supplierInbox[p] # "none" \/ p \in LiveIds
      BY <1>0, <1>18 DEF SweepConfirms, LiveIds, memoryVars
    <2> QED
      BY <1>0, <2>1, <2>2, <2>3, <2>4, OrdersKept
  <1>19. ASSUME NEW w \in Workers, JobFails(w) PROVE OutcomeInv' /\ OrderInv'
    <2>1. LiveStays /\ UNCHANGED <<posts, order>>
      BY <1>19 DEF JobFails, LiveStays, LiveIds, outsideVars
    <2>5. worker[w].booking \in Bookings
      BY <1>0, <1>19 DEF JobFails, TypeInv, BusyHasBooking
    <2>6. FailPaidBookingAndRefund(worker[w].booking) /\ UNCHANGED <<payment, emails, order>>
      BY <1>19 DEF JobFails, outsideVars
    <2>2. OutcomeInv'
      BY <1>0, <2>5, <2>6, FailOutcome
    <2>3. PostsAreFresh'
      BY <1>0, <2>1 DEF OrderInv, PostsAreFresh
    <2>4. /\ \A v \in Workers : worker'[v].pc = "created" => worker'[v] = worker[v]
          /\ sweep'.pc = "found" => sweep' = sweep
          /\ \A p \in OrderIds :
                supplierInbox'[p] # "none" => supplierInbox[p] # "none" \/ p \in LiveIds
      BY <1>0, <1>19 DEF JobFails, LiveIds, memoryVars
    <2> QED
      BY <1>0, <2>1, <2>2, <2>3, <2>4, OrdersKept
  <1>20. CASE SweepFails
    <2>1. LiveStays /\ UNCHANGED <<posts, order>>
      BY <1>20 DEF SweepFails, LiveStays, LiveIds, outsideVars
    <2>5. sweep.booking \in Bookings
      BY <1>0, <1>20 DEF SweepFails, TypeInv, BusyHasBooking
    <2>6. FailPaidBookingAndRefund(sweep.booking) /\ UNCHANGED <<payment, emails, order>>
      BY <1>20 DEF SweepFails, outsideVars
    <2>2. OutcomeInv'
      BY <1>0, <2>5, <2>6, FailOutcome
    <2>3. PostsAreFresh'
      BY <1>0, <2>1 DEF OrderInv, PostsAreFresh
    <2>4. /\ \A v \in Workers : worker'[v].pc = "created" => worker'[v] = worker[v]
          /\ sweep'.pc = "found" => sweep' = sweep
          /\ \A p \in OrderIds :
                supplierInbox'[p] # "none" => supplierInbox[p] # "none" \/ p \in LiveIds
      BY <1>0, <1>20 DEF SweepFails, LiveIds, memoryVars
    <2> QED
      BY <1>0, <2>1, <2>2, <2>3, <2>4, OrdersKept
  <1>21. CASE AccountOutgrowsScan
    <2>1. LiveStays /\ UNCHANGED outcomeVars /\ UNCHANGED <<posts, order>>
      BY <1>21 DEF AccountOutgrowsScan, LiveStays, LiveIds, outcomeVars, rowVars, tableVars,
             queueVars, memoryVars, outsideVars
    <2>2. OutcomeInv'
      BY <1>0, <2>1, OutcomeKept
    <2>3. PostsAreFresh'
      BY <1>0, <2>1 DEF OrderInv, PostsAreFresh
    <2>4. UNCHANGED <<worker, sweep, supplierInbox>>
      BY <1>21 DEF AccountOutgrowsScan, memoryVars
    <2> QED
      BY <1>0, <2>1, <2>2, <2>3, <2>4, OrdersKept
  <1> QED
    BY <1>1, <1>2, <1>3, <1>4, <1>5, <1>6, <1>7, <1>8, <1>9, <1>10, <1>11, <1>12,
       <1>13, <1>14, <1>15, <1>16, <1>17, <1>18, <1>19, <1>20, <1>21 DEF Next

LEMMA InitSafe == Init => IInv
  <1> SUFFICES ASSUME Init PROVE OutcomeInv /\ OrderInv
    BY InitTypes DEF IInv
  <1>1. OutcomeInv
    BY DEF Init, OutcomeInv, OutcomeAppliedOnce, AtMostOneEmail, ConfirmedHoldsItsOrder,
           PaidIsPaidFor, One
  <1>2. OrderInv
    BY DEF Init, OrderInv, HeldOrdersAreLive, PostsAreFresh, Idle, OrderIds
  <1> QED
    BY <1>1, <1>2

LEMMA Inductive == Spec => []IInv
  BY InitSafe, NextSafe, PTL DEF Spec

\* However the job, its re-runs, the webhook and the sweep race: one supplier
\* charge and one set of documents per confirmed booking, one full refund per
\* failed one, and none for any other.
THEOREM OutcomeOnce == Spec => []OutcomeAppliedOnce
  BY Inductive, PTL DEF IInv, OutcomeInv

\* A confirmed booking records an order that is live at Duffel and is its own.
THEOREM ConfirmedIsTicketed == Spec => []ConfirmedHoldsItsOrder
  BY Inductive, PTL DEF IInv, OutcomeInv

\* The ticket is mailed at most once, and only to a confirmed customer.
THEOREM OneEmail == Spec => []AtMostOneEmail
  BY Inductive, PTL DEF IInv, OutcomeInv

-----------------------------------------------------------------------------
(* POSTs: each is paid for by a processed capture, or is a job handed out   *)
(* again.                                                                   *)

Posting(b) == {w \in Workers : worker[w].booking = b /\ worker[w].pc = "posting"}

\* What is POSTed, is being POSTed and waits to be.
Owed(b) == posts[b] + jobs[b] + Cardinality(Posting(b))

PostsInv ==
    \A b \in Bookings : IsFiniteSet(Posting(b)) /\ Owed(b) <= customerPayments[b] + stalls

LEMMA CountsTyped ==
  ASSUME TypeInv, NEW b \in Bookings
  PROVE  /\ posts[b] \in Nat /\ jobs[b] \in Nat /\ customerPayments[b] \in Nat
         /\ stalls \in Nat
  BY ConstantsAssumption DEF TypeInv, TypeOK

\* A step that starts no POST and adds no job without a payment or a stall.
LEMMA NothingPosted ==
  ASSUME TypeInv, TypeInv', PostsInv,
         \A b \in Bookings : /\ Posting(b)' \subseteq Posting(b)
                             /\ posts'[b] = posts[b]
                             /\ jobs'[b] - jobs[b] <= (customerPayments'[b] + stalls')
                                                      - (customerPayments[b] + stalls)
  PROVE  PostsInv'
  <1> SUFFICES ASSUME NEW b \in Bookings
               PROVE  IsFiniteSet(Posting(b)') /\ Owed(b)' <= (customerPayments[b] + stalls)'
    BY DEF PostsInv
  <1>1. IsFiniteSet(Posting(b)) /\ Owed(b) <= customerPayments[b] + stalls
    BY DEF PostsInv
  <1>2. Posting(b)' \in SUBSET Posting(b)
    OBVIOUS
  <1>3. IsFiniteSet(Posting(b)') /\ Cardinality(Posting(b)') <= Cardinality(Posting(b))
    BY <1>1, <1>2, FS_Subset
  <1>4. Cardinality(Posting(b)') \in Nat /\ Cardinality(Posting(b)) \in Nat
    BY <1>1, <1>3, FS_CardinalityType
  <1>5. /\ posts[b] \in Nat /\ jobs[b] \in Nat /\ customerPayments[b] \in Nat /\ stalls \in Nat
    BY CountsTyped
  <1>6. /\ posts'[b] \in Nat /\ jobs'[b] \in Nat /\ customerPayments'[b] \in Nat /\ stalls' \in Nat
    BY ConstantsAssumption DEF TypeInv, TypeOK
  <1> QED
    BY <1>1, <1>3, <1>4, <1>5, <1>6 DEF Owed

\* A job that starts to POST is not waiting any more.
LEMMA JobStarts ==
  ASSUME TypeInv, TypeInv', PostsInv, NEW w \in Workers, NEW b \in Bookings, StartJob(w, b)
  PROVE  PostsInv'
  <1>1. CASE status[b] # "paid"
    <2>1. ASSUME NEW c \in Bookings
          PROVE  /\ Posting(c)' \subseteq Posting(c)
                 /\ posts'[c] = posts[c]
                 /\ jobs'[c] - jobs[c] <= (customerPayments'[c] + stalls')
                                          - (customerPayments[c] + stalls)
      <3>1. /\ UNCHANGED <<worker, posts, customerPayments, stalls>>
            /\ jobs' = [jobs EXCEPT ![b] = @ - 1]
        BY <1>1 DEF StartJob, tableVars, outsideVars
      <3>2. jobs \in [Bookings -> Nat]
        BY DEF TypeInv, TypeOK
      <3>3. jobs'[c] - jobs[c] <= 0
        BY <3>1, <3>2
      <3> QED
        BY <3>1, <3>3, CountsTyped DEF Posting
    <2> QED
      BY <2>1, NothingPosted
  <1>2. CASE status[b] = "paid"
    <2> SUFFICES ASSUME NEW c \in Bookings
                 PROVE  IsFiniteSet(Posting(c)') /\ Owed(c)' <= (customerPayments[c] + stalls)'
      BY DEF PostsInv
    <2>1. IsFiniteSet(Posting(c)) /\ Owed(c) <= customerPayments[c] + stalls
      BY DEF PostsInv
    <2>2. Cardinality(Posting(c)) \in Nat
      BY <2>1, FS_CardinalityType
    <2>3. w \notin Posting(c)
      BY DEF StartJob, Posting, Idle
    <2>4. /\ worker' = [worker EXCEPT ![w] = [pc |-> "posting", booking |-> b, order |-> 0]]
          /\ jobs' = [jobs EXCEPT ![b] = @ - 1] /\ jobs[b] > 0
          /\ UNCHANGED <<posts, customerPayments, stalls>>
      BY <1>2 DEF StartJob, tableVars, outsideVars
    <2>5. worker \in [Workers -> ProcessStates] /\ jobs \in [Bookings -> Nat]
      BY DEF TypeInv, TypeOK
    <2>6. CASE c = b
      <3>1. Posting(c)' = Posting(c) \union {w}
        BY <2>4, <2>5, <2>6 DEF Posting
      <3>2. IsFiniteSet(Posting(c)') /\ Cardinality(Posting(c)') = Cardinality(Posting(c)) + 1
        BY <2>1, <2>3, <3>1, FS_AddElement
      <3>3. jobs'[c] = jobs[c] - 1
        BY <2>4, <2>5, <2>6
      <3> QED
        BY <2>1, <2>2, <2>4, <3>2, <3>3, CountsTyped DEF Owed
    <2>7. CASE c # b
      <3>1. Posting(c)' = Posting(c)
        BY <2>3, <2>4, <2>5, <2>7 DEF Posting
      <3>2. jobs'[c] = jobs[c]
        BY <2>4, <2>5, <2>7
      <3> QED
        BY <2>1, <2>4, <3>1, <3>2 DEF Owed
    <2> QED
      BY <2>6, <2>7
  <1> QED
    BY <1>1, <1>2

\* The POST counts, and its worker is through with it.
LEMMA OrderPosted ==
  ASSUME TypeInv, PostsInv, NEW w \in Workers, PostOrder(w)
  PROVE  PostsInv'
  <1> DEFINE b == worker[w].booking
  <1> SUFFICES ASSUME NEW c \in Bookings
               PROVE  IsFiniteSet(Posting(c)') /\ Owed(c)' <= (customerPayments[c] + stalls)'
    BY DEF PostsInv
  <1>1. IsFiniteSet(Posting(c)) /\ Owed(c) <= customerPayments[c] + stalls
    BY DEF PostsInv
  <1>2. Cardinality(Posting(c)) \in Nat
    BY <1>1, FS_CardinalityType
  <1>3. /\ \A v \in Workers : v # w => worker'[v] = worker[v]
        /\ worker'[w].pc # "posting"
    <2>1. worker \in [Workers -> ProcessStates]
      BY DEF TypeInv, TypeOK
    <2>2. \/ worker' = [worker EXCEPT ![w] = [pc |-> "created", booking |-> b, order |-> posts[b] + 1]]
          \/ worker' = [worker EXCEPT ![w] = [pc |-> "rejected", booking |-> b, order |-> 0]]
          \/ worker' = [worker EXCEPT ![w] = Idle]
      BY DEF PostOrder
    <2> QED
      BY <2>1, <2>2 DEF Idle
  <1>4. /\ posts' = [posts EXCEPT ![b] = posts[b] + 1]
        /\ worker[w].pc = "posting"
        /\ UNCHANGED <<jobs, customerPayments, stalls>>
    BY DEF PostOrder, tableVars, queueVars
  <1>5. worker \in [Workers -> ProcessStates] /\ posts \in [Bookings -> 0 .. MaxPosts]
    BY DEF TypeInv, TypeOK
  <1>6. Posting(c)' = Posting(c) \ {w}
    BY <1>3, <1>5 DEF Posting
  <1>7. IsFiniteSet(Posting(c)')
    BY <1>1, <1>6, FS_RemoveElement
  <1>8. CASE c = b
    <2>1. w \in Posting(c)
      BY <1>4, <1>8 DEF Posting
    <2>2. Cardinality(Posting(c)') = Cardinality(Posting(c)) - 1
      BY <1>1, <1>6, <2>1, FS_RemoveElement
    <2>3. posts'[c] = posts[c] + 1
      BY <1>4, <1>5, <1>8
    <2> QED
      BY <1>1, <1>2, <1>4, <1>7, <2>2, <2>3, CountsTyped DEF Owed
  <1>9. CASE c # b
    <2>1. Posting(c)' = Posting(c)
      BY <1>6, <1>9 DEF Posting
    <2>2. posts'[c] = posts[c]
      BY <1>4, <1>5, <1>9
    <2> QED
      BY <1>1, <1>4, <2>1, <2>2 DEF Owed
  <1> QED
    BY <1>8, <1>9

\* No other step posts, or adds a job that nobody paid for and no worker lost.
LEMMA OthersPostNothing ==
  ASSUME TypeInv, Next,
         ~ (\E w \in Workers : PostOrder(w) \/ \E b \in Bookings : StartJob(w, b)),
         NEW b \in Bookings
  PROVE  /\ Posting(b)' \subseteq Posting(b)
         /\ posts'[b] = posts[b]
         /\ jobs'[b] - jobs[b] <= (customerPayments'[b] + stalls')
                                  - (customerPayments[b] + stalls)
  <1> DEFINE Idles == UNCHANGED <<worker, posts, queueVars, customerPayments>>
             Goal == /\ Posting(b)' \subseteq Posting(b)
                     /\ posts'[b] = posts[b]
                     /\ jobs'[b] - jobs[b] <= (customerPayments'[b] + stalls')
                                              - (customerPayments[b] + stalls)
  <1>1. /\ worker \in [Workers -> ProcessStates] /\ jobs \in [Bookings -> Nat]
        /\ customerPayments \in [Bookings -> Nat] /\ stalls \in Nat
    BY ConstantsAssumption DEF TypeInv, TypeOK
  <1>2. ASSUME Idles PROVE Goal
    BY <1>1, <1>2 DEF Posting, queueVars
  <1>3. ASSUME NEW t \in Transactions, ProcessCaptured(t) PROVE Goal
    <2>1. /\ customerPayments' = [customerPayments EXCEPT ![Payer(t)] = @ + 1]
          /\ jobs' = [jobs EXCEPT ![Payer(t)] = @ + 1] \/ jobs' = jobs
          /\ UNCHANGED <<stalls, worker, posts>>
      BY <1>3 DEF ProcessCaptured, memoryVars, outsideVars
    <2> QED
      BY <1>1, <2>1 DEF Posting
  <1>4. ASSUME NEW t \in Transactions,
               GatewaySettles(t) \/ ReceivePaymentCallback(t) \/ ProcessDeclined(t)
        PROVE  Idles
    BY <1>4 DEF GatewaySettles, ReceivePaymentCallback, ProcessDeclined, tableVars, queueVars,
                memoryVars, outsideVars
  <1>5. ASSUME NEW c \in Bookings,
               ExpireBooking(c) \/ WindowCloses(c) \/ SweepLooksUp(c) \/ SendEmail(c)
        PROVE  Idles
    BY <1>5 DEF ExpireBooking, WindowCloses, SweepLooksUp, SendEmail, tableVars, queueVars,
                memoryVars, outsideVars
  <1>6. ASSUME NEW w \in Workers, JobConfirms(w) \/ JobFails(w) \/ WorkerDies(w) PROVE Goal
    <2>1. PICK run \in {Idle} : worker' = [worker EXCEPT ![w] = run]
      BY <1>6 DEF JobConfirms, JobFails, WorkerDies
    <2>2. Posting(b)' \subseteq Posting(b)
      BY <1>1, <2>1 DEF Posting, Idle
    <2>3. UNCHANGED <<posts, customerPayments>>
      BY <1>6 DEF JobConfirms, JobFails, WorkerDies, ConfirmPaidBooking, FailPaidBookingAndRefund,
                  tableVars, outsideVars
    <2>4. \/ UNCHANGED <<jobs, stalls>>
          \/ /\ stalls' = stalls + 1
             /\ jobs' = [jobs EXCEPT ![worker[w].booking] = @ + 1]
      BY <1>6 DEF JobConfirms, JobFails, WorkerDies, queueVars
    <2> QED
      BY <1>1, <2>2, <2>3, <2>4
  <1>7. ASSUME NEW o \in OrderIds,
               DuffelSettles(o) \/ ReceiveOrderCreated(o) \/ ProcessOrderCreated(o)
        PROVE  Idles
    BY <1>7 DEF DuffelSettles, ReceiveOrderCreated, ProcessOrderCreated, ConfirmPaidBooking,
                tableVars, queueVars, memoryVars, outsideVars
  <1>8. ASSUME SweepConfirms \/ SweepFails \/ SweepDies \/ AccountOutgrowsScan PROVE Idles
    BY <1>8 DEF SweepConfirms, SweepFails, SweepDies, AccountOutgrowsScan, ConfirmPaidBooking,
                FailPaidBookingAndRefund, tableVars, queueVars, memoryVars, outsideVars
  <1> QED
    BY <1>2, <1>3, <1>4, <1>5, <1>6, <1>7, <1>8 DEF Next

LEMMA NextPosts == TypeInv /\ TypeInv' /\ PostsInv /\ [Next]_vars => PostsInv'
  <1> SUFFICES ASSUME TypeInv, TypeInv', PostsInv, [Next]_vars PROVE PostsInv'
    OBVIOUS
  <1>1. CASE UNCHANGED vars
    BY <1>1 DEF PostsInv, Posting, Owed, vars, tableVars, queueVars, memoryVars, outsideVars
  <1>2. ASSUME NEW w \in Workers, NEW b \in Bookings, StartJob(w, b) PROVE PostsInv'
    BY <1>2, JobStarts
  <1>3. ASSUME NEW w \in Workers, PostOrder(w) PROVE PostsInv'
    BY <1>3, OrderPosted
  <1>4. CASE Next /\ ~ (\E w \in Workers : PostOrder(w) \/ \E b \in Bookings : StartJob(w, b))
    BY <1>4, OthersPostNothing, NothingPosted
  <1> QED
    BY <1>1, <1>2, <1>3, <1>4

LEMMA InitPosts == Init => PostsInv
  <1> SUFFICES ASSUME Init, NEW b \in Bookings
               PROVE  IsFiniteSet(Posting(b)) /\ Owed(b) <= customerPayments[b] + stalls
    BY DEF PostsInv
  <1>1. Posting(b) = {}
    BY DEF Init, Posting, Idle
  <1>2. posts[b] = 0 /\ jobs[b] = 0 /\ customerPayments[b] = 0 /\ stalls = 0
    BY DEF Init
  <1> QED
    BY <1>1, <1>2, FS_EmptySet DEF Owed

\* Every POST of an order, sent, under way or queued, goes back to a capture that was
\* processed or to a job the queue handed out again, for any number of workers: neither
\* the webhook nor the sweep ever sends a booking to Duffel a second time.
THEOREM EveryPostIsAccounted == Spec => []PostsAreAccounted
  <1>1. Init /\ [][Next]_vars => []TypeInv
    BY Inductive, PTL DEF Spec, IInv
  <1>2. Init /\ [][Next]_vars /\ []TypeInv => []PostsInv
    BY InitPosts, NextPosts, PTL
  <1>3. PostsInv => PostsAreAccounted
    BY DEF PostsInv, PostsAreAccounted, Owed, Posting
  <1> QED
    BY <1>1, <1>2, <1>3, PTL DEF Spec

-----------------------------------------------------------------------------
(* No refund over a ticket: what the sweep and the job know of Duffel.      *)

\* An order of booking b exists at Duffel, or may come to exist.
Ticketed(b, n) == order[<<b, n>>] \in {"live", "inflight"}

Nobody(b) == \A w \in Workers : worker[w].booking # b

\* Nothing of booking b waits, runs or is open at Duffel.
Quiet(b) ==
    /\ jobs[b] = 0
    /\ Nobody(b)
    /\ \A n \in 1 .. MaxPosts : order[<<b, n>>] # "inflight"

\* A booking paid once whose last verdict of absence was read when it was quiet.
Sound(b) == customerPayments[b] <= 1 /\ ~ blind[b]

\* Nothing of booking b is ticketed, and no first POST of it is under way.
Unticketed(b) ==
    Sound(b) /\ posts[b] <= 1 =>
        /\ \A n \in 1 .. MaxPosts : ~ Ticketed(b, n)
        /\ posts[b] >= 1 \/ Posting(b) = {}

\* A paid booking has been paid for.
PaidInv == \A b \in Bookings : status[b] = "paid" => customerPayments[b] >= 1

\* A verdict of absence on b that was read while b was quiet is still right.
StillAbsent(b) ==
    /\ status[b] # "awaiting_payment"
    /\ Sound(b) => Quiet(b) /\ \A n \in 1 .. MaxPosts : order[<<b, n>>] # "live"

\* The sweep that read no order has it right when it applies the verdict.
AbsenceInv == sweep.pc = "absent" => StillAbsent(sweep.booking)

\* So has the job whose POST was refused, unless another POST was made.
RefusalInv ==
    \A w \in Workers :
        worker[w].pc = "rejected" =>
            /\ posts[worker[w].booking] >= 1
            /\ posts[worker[w].booking] <= 1 =>
                  \A n \in 1 .. MaxPosts : ~ Ticketed(worker[w].booking, n)

FailedInv == \A b \in Bookings : status[b] = "order_failed" => Unticketed(b)

TicketInv == PaidInv /\ AbsenceInv /\ RefusalInv /\ FailedInv

LEMMA TicketTypes ==
  ASSUME TypeInv
  PROVE  /\ status \in [Bookings -> BookingStatus] /\ blind \in [Bookings -> BOOLEAN]
         /\ customerPayments \in [Bookings -> Nat] /\ jobs \in [Bookings -> Nat]
         /\ posts \in [Bookings -> Nat] /\ worker \in [Workers -> ProcessStates]
         /\ order \in [OrderIds -> {"none", "inflight", "live", "refused"}]
         /\ \A w \in Workers : worker[w] = Idle \/ worker[w].booking \in Bookings
         /\ sweep = Idle \/ sweep.booking \in Bookings
         /\ Idle.pc = "idle" /\ Idle.booking = NoBooking /\ NoBooking \notin Bookings
  BY ConstantsAssumption DEF TypeInv, TypeOK, BusyHasBooking, Idle

LEMMA TransitionIs ==
  ASSUME TypeInv, NEW b \in Bookings, NEW to \in {"paid", "failed", "confirmed", "order_failed"},
         TransitionTo(b, to)
  PROVE  status' = [status EXCEPT ![b] = to]
  <1>1. status \in [Bookings -> BookingStatus]
    BY TicketTypes
  <1> QED
    BY <1>1 DEF TransitionTo, rowVars

\* Workers may stop, orders may settle and bookings may leave paid, the last for
\* order_failed only if nothing is ticketed.
StatusSteps ==
    \A b \in Bookings :
        \/ status'[b] = status[b]
        \/ status'[b] \notin {"awaiting_payment", "paid", "order_failed"}
        \/ status[b] = "paid" /\ status'[b] = "order_failed" /\ Unticketed(b)

WorkersStop == \A w \in Workers : worker'[w] = worker[w] \/ worker'[w] = Idle

OrdersSettle ==
    \A o \in OrderIds :
        \/ order'[o] = order[o]
        \/ order[o] = "inflight" /\ order'[o] \in {"live", "refused"}

NoNewJobs == \A b \in Bookings : Nobody(b) /\ jobs[b] = 0 => jobs'[b] = 0

LEMMA TicketsKept ==
  ASSUME TypeInv, TypeInv', TicketInv, StatusSteps, WorkersStop, OrdersSettle, NoNewJobs,
         UNCHANGED <<blind, customerPayments, posts>>,
         sweep' = sweep \/ sweep'.pc # "absent"
  PROVE  TicketInv'
  <1>1. \A b \in Bookings, n \in 1 .. MaxPosts :
           /\ <<b, n>> \in OrderIds
           /\ Ticketed(b, n)' => Ticketed(b, n)
           /\ order'[<<b, n>>] = "inflight" => order[<<b, n>>] = "inflight"
           /\ order'[<<b, n>>] = "live" => order[<<b, n>>] \in {"live", "inflight"}
    BY DEF OrdersSettle, OrderIds, Ticketed
  <1>2. \A b \in Bookings : /\ Nobody(b) => Nobody(b)'
                            /\ Posting(b)' \subseteq Posting(b)
    BY TicketTypes DEF WorkersStop, Nobody, Posting
  <1>3. \A b \in Bookings : /\ Sound(b)' <=> Sound(b)
                            /\ Quiet(b) => Quiet(b)'
                            /\ Unticketed(b) => Unticketed(b)'
    <2> SUFFICES ASSUME NEW b \in Bookings
                 PROVE  /\ Sound(b)' <=> Sound(b)
                        /\ Quiet(b) => Quiet(b)'
                        /\ Unticketed(b) => Unticketed(b)'
      OBVIOUS
    <2>1. Sound(b)' <=> Sound(b)
      BY DEF Sound
    <2>2. Quiet(b) => Quiet(b)'
      BY <1>1, <1>2 DEF Quiet, NoNewJobs
    <2>3. Unticketed(b) => Unticketed(b)'
      BY <1>1, <1>2, <2>1 DEF Unticketed
    <2> QED
      BY <2>1, <2>2, <2>3
  <1>4. PaidInv'
    BY DEF StatusSteps, TicketInv, PaidInv
  <1>5. AbsenceInv'
    <2> SUFFICES ASSUME sweep'.pc = "absent", NEW c \in Bookings, c = sweep.booking
                 PROVE  StillAbsent(c)'
      BY TicketTypes DEF AbsenceInv
    <2>1. StillAbsent(c)
      BY DEF TicketInv, AbsenceInv
    <2>2. status'[c] # "awaiting_payment"
      BY <2>1 DEF StatusSteps, StillAbsent
    <2>3. Quiet(c) => \A n \in 1 .. MaxPosts : order[<<c, n>>] # "inflight"
      BY DEF Quiet
    <2> QED
      BY <1>1, <1>3, <2>1, <2>2, <2>3 DEF StillAbsent
  <1>6. RefusalInv'
    <2> SUFFICES ASSUME NEW w \in Workers, worker'[w].pc = "rejected"
                 PROVE  /\ posts[worker[w].booking] >= 1
                        /\ posts[worker[w].booking] <= 1 =>
                              \A n \in 1 .. MaxPosts : ~ Ticketed(worker[w].booking, n)'
                        /\ worker'[w] = worker[w]
      BY DEF RefusalInv, Ticketed
    <2>1. worker'[w] = worker[w] /\ worker[w].booking \in Bookings
      BY TicketTypes DEF WorkersStop
    <2> QED
      BY <1>1, <2>1 DEF TicketInv, RefusalInv
  <1>7. FailedInv'
    <2> SUFFICES ASSUME NEW b \in Bookings, status'[b] = "order_failed" PROVE Unticketed(b)'
      BY DEF FailedInv
    <2>1. Unticketed(b)
      BY DEF StatusSteps, TicketInv, FailedInv
    <2> QED
      BY <1>3, <2>1
  <1> QED
    BY <1>4, <1>5, <1>6, <1>7 DEF TicketInv

quietVars == <<blind, customerPayments, posts, order, jobs>>

LEMMA Still ==
  ASSUME UNCHANGED quietVars
  PROVE  OrdersSettle /\ NoNewJobs /\ UNCHANGED <<blind, customerPayments, posts>>
  BY DEF quietVars, OrdersSettle, NoNewJobs

LEMMA OneStops ==
  ASSUME TypeInv, NEW w \in Workers, worker' = [worker EXCEPT ![w] = Idle] \/ worker' = worker
  PROVE  WorkersStop
  <1>1. worker \in [Workers -> ProcessStates]
    BY TicketTypes
  <1> QED
    BY <1>1 DEF WorkersStop

LEMMA NobodyStops == UNCHANGED worker => WorkersStop
  BY DEF WorkersStop

\* The outcome services, applied by whoever has a verdict.
LEMMA ConfirmSteps ==
  ASSUME TypeInv, NEW b \in Bookings, NEW n, ConfirmPaidBooking(b, n)
  PROVE  StatusSteps
  <1>1. CASE status[b] = "paid" /\ TransitionTo(b, "confirmed")
    <2>1. status' = [status EXCEPT ![b] = "confirmed"]
      BY <1>1, TransitionIs
    <2> QED
      BY <2>1, TicketTypes DEF StatusSteps
  <1>2. CASE UNCHANGED rowVars
    BY <1>2 DEF StatusSteps, rowVars
  <1> QED
    BY <1>1, <1>2 DEF ConfirmPaidBooking

LEMMA FailSteps ==
  ASSUME TypeInv, NEW b \in Bookings, FailPaidBookingAndRefund(b),
         status[b] = "paid" => Unticketed(b)
  PROVE  StatusSteps
  <1>1. CASE status[b] = "paid" /\ TransitionTo(b, "order_failed")
    <2>1. status' = [status EXCEPT ![b] = "order_failed"]
      BY <1>1, TransitionIs
    <2> QED
      BY <1>1, <2>1, TicketTypes DEF StatusSteps
  <1>2. CASE UNCHANGED rowVars
    BY <1>2 DEF StatusSteps, rowVars
  <1> QED
    BY <1>1, <1>2 DEF FailPaidBookingAndRefund

\* The verdict of the sweep and of the job stands when it is applied.
LEMMA AbsentIsUnticketed ==
  ASSUME TypeInv, TicketInv, sweep.pc = "absent"
  PROVE  Unticketed(sweep.booking)
  <1> DEFINE b == sweep.booking
  <1>1. SUFFICES ASSUME Sound(b)
                 PROVE  (\A n \in 1 .. MaxPosts : ~ Ticketed(b, n)) /\ Posting(b) = {}
    BY DEF Unticketed
  <1>2. /\ Nobody(b)
        /\ \A n \in 1 .. MaxPosts : order[<<b, n>>] # "inflight" /\ order[<<b, n>>] # "live"
    BY <1>1 DEF TicketInv, AbsenceInv, StillAbsent, Quiet
  <1> QED
    BY <1>2 DEF Nobody, Posting, Ticketed

LEMMA RefusedIsUnticketed ==
  ASSUME TypeInv, TicketInv, NEW w \in Workers, worker[w].pc = "rejected"
  PROVE  Unticketed(worker[w].booking)
  BY DEF TicketInv, RefusalInv, Unticketed

LEMMA StepOfTickets ==
  ASSUME TypeInv, TypeInv', TicketInv, Next,
         ~ (\E t \in Transactions : ProcessCaptured(t)),
         ~ (\E b \in Bookings : SweepLooksUp(b)),
         ~ (\E w \in Workers : PostOrder(w) \/ \E b \in Bookings : StartJob(w, b))
  PROVE  TicketInv'
  <1> DEFINE Frame == /\ StatusSteps /\ WorkersStop /\ OrdersSettle /\ NoNewJobs
                      /\ UNCHANGED <<blind, customerPayments, posts>>
                      /\ sweep' = sweep \/ sweep'.pc # "absent"
  <1>1. ASSUME NEW t \in Transactions,
               GatewaySettles(t) \/ ReceivePaymentCallback(t) \/ ProcessDeclined(t)
        PROVE  Frame
    <2>1. UNCHANGED <<status, worker, sweep, quietVars>>
      BY <1>1 DEF GatewaySettles, ReceivePaymentCallback, ProcessDeclined, rowVars, tableVars,
                  queueVars, memoryVars, outsideVars, windowVars, quietVars
    <2>2. StatusSteps
      BY <2>1 DEF StatusSteps
    <2> QED
      BY <2>1, <2>2, Still, NobodyStops
  <1>2. ASSUME NEW b \in Bookings, ExpireBooking(b) \/ WindowCloses(b) \/ SendEmail(b)
        PROVE  Frame
    <2>1. UNCHANGED <<worker, sweep, quietVars>>
      BY <1>2 DEF ExpireBooking, WindowCloses, SendEmail, tableVars, queueVars, memoryVars, outsideVars, windowVars, quietVars
    <2>2. StatusSteps
      <3>1. CASE ExpireBooking(b)
        <4>1. status' = [status EXCEPT ![b] = "failed"]
          BY <3>1, TransitionIs DEF ExpireBooking
        <4> QED
          BY <4>1, TicketTypes DEF StatusSteps
      <3>2. CASE WindowCloses(b) \/ SendEmail(b)
        BY <3>2 DEF WindowCloses, SendEmail, rowVars, StatusSteps
      <3> QED
        BY <1>2, <3>1, <3>2
    <2> QED
      BY <2>1, <2>2, Still, NobodyStops
  <1>3. ASSUME NEW w \in Workers, JobConfirms(w) \/ JobFails(w) PROVE Frame
    <2>1. /\ worker' = [worker EXCEPT ![w] = Idle]
          /\ UNCHANGED <<sweep, quietVars>>
      BY <1>3 DEF JobConfirms, JobFails, queueVars, outsideVars, windowVars, quietVars
    <2>2. worker[w].booking \in Bookings
      BY <1>3, TicketTypes DEF JobConfirms, JobFails
    <2>3. StatusSteps
      <3>1. CASE JobConfirms(w)
        BY <2>2, <3>1, ConfirmSteps DEF JobConfirms
      <3>2. CASE JobFails(w)
        BY <2>2, <3>2, RefusedIsUnticketed, FailSteps DEF JobFails
      <3> QED
        BY <1>3, <3>1, <3>2
    <2> QED
      BY <2>1, <2>3, Still, OneStops
  <1>4. ASSUME NEW w \in Workers, WorkerDies(w) PROVE Frame
    <2>1. /\ worker' = [worker EXCEPT ![w] = Idle] /\ worker[w] # Idle
          /\ jobs' = jobs \/ jobs' = [jobs EXCEPT ![worker[w].booking] = @ + 1]
          /\ UNCHANGED <<status, sweep, blind, customerPayments, posts, order>>
      BY <1>4 DEF WorkerDies, rowVars, tableVars, queueVars, outsideVars, windowVars
    <2>2. NoNewJobs
      BY <2>1, TicketTypes DEF NoNewJobs, Nobody
    <2>3. StatusSteps /\ OrdersSettle
      BY <2>1 DEF StatusSteps, OrdersSettle
    <2> QED
      BY <2>1, <2>2, <2>3, OneStops
  <1>5. ASSUME NEW o \in OrderIds, DuffelSettles(o) PROVE Frame
    <2>1. UNCHANGED <<status, worker, sweep, blind, customerPayments, posts, jobs>>
      BY <1>5 DEF DuffelSettles, rowVars, tableVars, queueVars, memoryVars,
                  windowVars
    <2>2. OrdersSettle
      BY <1>5, TicketTypes DEF DuffelSettles, OrdersSettle
    <2>3. StatusSteps /\ NoNewJobs
      BY <2>1 DEF StatusSteps, NoNewJobs
    <2> QED
      BY <2>1, <2>2, <2>3, NobodyStops
  <1>6. ASSUME NEW o \in OrderIds, ReceiveOrderCreated(o) \/ ProcessOrderCreated(o) PROVE Frame
    <2>1. UNCHANGED <<worker, sweep, quietVars>>
      BY <1>6 DEF ReceiveOrderCreated, ProcessOrderCreated, tableVars, queueVars, memoryVars,
                  outsideVars, windowVars, quietVars
    <2>2. StatusSteps
      <3>1. CASE ReceiveOrderCreated(o)
        BY <3>1 DEF ReceiveOrderCreated, rowVars, StatusSteps
      <3>2. CASE ProcessOrderCreated(o)
        <4>1. o[1] \in Bookings
          BY DEF OrderIds
        <4> QED
          BY <3>2, <4>1, ConfirmSteps DEF ProcessOrderCreated
      <3> QED
        BY <1>6, <3>1, <3>2
    <2> QED
      BY <2>1, <2>2, Still, NobodyStops
  <1>7. ASSUME SweepConfirms \/ SweepFails \/ SweepDies PROVE Frame
    <2>1. sweep' = Idle /\ Idle.pc # "absent" /\ UNCHANGED <<worker, quietVars>>
      BY <1>7 DEF SweepConfirms, SweepFails, SweepDies, tableVars, queueVars, outsideVars, windowVars, quietVars,
                  Idle
    <2>2. StatusSteps
      <3>1. CASE SweepConfirms
        <4>1. sweep.booking \in Bookings
          BY <3>1, TicketTypes DEF SweepConfirms
        <4> QED
          BY <3>1, <4>1, ConfirmSteps DEF SweepConfirms
      <3>2. CASE SweepFails
        <4>1. sweep.booking \in Bookings
          BY <3>2, TicketTypes DEF SweepFails
        <4> QED
          BY <3>2, <4>1, AbsentIsUnticketed, FailSteps DEF SweepFails
      <3>3. CASE SweepDies
        BY <3>3 DEF SweepDies, rowVars, StatusSteps
      <3> QED
        BY <1>7, <3>1, <3>2, <3>3
    <2> QED
      BY <2>1, <2>2, Still, NobodyStops
  <1>8. ASSUME AccountOutgrowsScan PROVE Frame
    <2>1. UNCHANGED <<status, worker, sweep, quietVars>>
      BY <1>8 DEF AccountOutgrowsScan, rowVars, tableVars, queueVars, memoryVars, outsideVars,
                  windowVars, quietVars
    <2>2. StatusSteps
      BY <2>1 DEF StatusSteps
    <2> QED
      BY <2>1, <2>2, Still, NobodyStops
  <1>9. Frame
    BY <1>1, <1>2, <1>3, <1>4, <1>5, <1>6, <1>7, <1>8 DEF Next
  <1> QED
    BY <1>9, TicketsKept

\* A second capture of a paid booking takes it out of what the verdicts are about.
LEMMA CaptureKeepsTickets ==
  ASSUME TypeInv, TypeInv', TicketInv, NEW t \in Transactions, ProcessCaptured(t)
  PROVE  TicketInv'
  <1> DEFINE b == Payer(t)
  <1>1. b \in Bookings
    BY ConstantsAssumption DEF Payer
  <1>2. /\ status' = [status EXCEPT ![b] = "paid"]
        /\ status[b] \in {"awaiting_payment", "paid"}
    <2>1. TransitionTo(b, "paid")
      BY DEF ProcessCaptured
    <2> QED
      BY <1>1, <2>1, TransitionIs DEF TransitionTo, LegalTransitions
  <1>3. /\ customerPayments' = [customerPayments EXCEPT ![b] = @ + 1]
        /\ jobs' = jobs \/ jobs' = [jobs EXCEPT ![b] = @ + 1]
        /\ UNCHANGED <<worker, sweep, posts, order, blind>>
    BY DEF ProcessCaptured, memoryVars, outsideVars, windowVars
  <1>4. \A c \in Bookings :
           c # b => status'[c] = status[c] /\ customerPayments'[c] = customerPayments[c]
                    /\ jobs'[c] = jobs[c]
    BY <1>1, <1>2, <1>3, TicketTypes
  <1>5. /\ customerPayments'[b] = customerPayments[b] + 1
        /\ status'[b] = "paid"
        /\ customerPayments[b] \in Nat
    BY <1>1, <1>2, <1>3, TicketTypes
  <1>6. status[b] = "paid" => ~ Sound(b)'
    <2> SUFFICES ASSUME status[b] = "paid" PROVE ~ (customerPayments'[b] <= 1)
      BY DEF Sound
    <2>1. customerPayments[b] >= 1
      BY <1>1 DEF TicketInv, PaidInv
    <2> QED
      BY <1>5, <2>1
  <1>7. \A c \in Bookings : c # b => /\ Sound(c)' <=> Sound(c)
                                     /\ Quiet(c)' <=> Quiet(c)
                                     /\ Unticketed(c)' <=> Unticketed(c)
    BY <1>3, <1>4 DEF Sound, Quiet, Nobody, Unticketed, Ticketed, Posting
  <1>8. PaidInv'
    <2> SUFFICES ASSUME NEW c \in Bookings, status'[c] = "paid" PROVE customerPayments'[c] >= 1
      BY DEF PaidInv
    <2>1. CASE c = b
      BY <1>5, <2>1
    <2>2. CASE c # b
      BY <1>4, <2>2 DEF TicketInv, PaidInv
    <2> QED
      BY <2>1, <2>2
  <1>9. AbsenceInv'
    <2> SUFFICES ASSUME NEW c \in Bookings, StillAbsent(c) PROVE StillAbsent(c)'
      BY <1>3, TicketTypes DEF TicketInv, AbsenceInv
    <2>1. CASE c = b
      <3>1. status[b] = "paid"
        BY <1>2, <2>1 DEF StillAbsent
      <3> QED
        BY <1>5, <1>6, <2>1, <3>1 DEF StillAbsent
    <2>2. CASE c # b
      BY <1>3, <1>4, <1>7, <2>2 DEF StillAbsent
    <2> QED
      BY <2>1, <2>2
  <1>10. RefusalInv'
    BY <1>3 DEF TicketInv, RefusalInv, Ticketed
  <1>11. FailedInv'
    BY <1>4, <1>5, <1>7 DEF TicketInv, FailedInv
  <1> QED
    BY <1>8, <1>9, <1>10, <1>11 DEF TicketInv

\* The sweep reads that there is no order, and whether one is still under way.
LEMMA LookupKeepsTickets ==
  ASSUME TypeInv, TypeInv', TicketInv, NEW b \in Bookings, SweepLooksUp(b)
  PROVE  TicketInv'
  <1>1. /\ status[b] = "paid"
        /\ UNCHANGED <<status, worker, posts, order, customerPayments, jobs>>
    BY DEF SweepLooksUp, rowVars, tableVars, queueVars, outsideVars
  <1>2. \A c \in Bookings : c # b => blind'[c] = blind[c]
    BY TicketTypes DEF SweepLooksUp
  <1>3. PaidInv' /\ RefusalInv'
    BY <1>1 DEF TicketInv, PaidInv, RefusalInv, Ticketed
  <1>4. FailedInv'
    <2> SUFFICES ASSUME NEW c \in Bookings, status'[c] = "order_failed" PROVE Unticketed(c)'
      BY DEF FailedInv
    <2>1. c # b /\ Unticketed(c)
      BY <1>1 DEF TicketInv, FailedInv
    <2> QED
      BY <1>1, <1>2, <2>1 DEF Unticketed, Sound, Ticketed, Posting
  <1>5. AbsenceInv'
    <2> SUFFICES ASSUME sweep'.pc = "absent" PROVE sweep'.booking = b /\ StillAbsent(b)'
      BY DEF AbsenceInv
    <2>1. /\ sweep'.booking = b /\ LiveOrders(b) = {}
          /\ blind' = [blind EXCEPT ![b] = UnderWay(b)]
      BY DEF SweepLooksUp
    <2>2. blind'[b] <=> UnderWay(b)
      BY <2>1, TicketTypes
    <2>3. ~ UnderWay(b) => Quiet(b)
      <3>1. jobs[b] \in Nat
        BY TicketTypes
      <3> QED
        BY <3>1 DEF UnderWay, Quiet, Nobody
    <2>4. Quiet(b) => Quiet(b)'
      BY <1>1 DEF Quiet, Nobody
    <2>5. \A n \in 1 .. MaxPosts : order'[<<b, n>>] # "live"
      BY <1>1, <2>1 DEF LiveOrders
    <2> QED
      BY <1>1, <2>1, <2>2, <2>3, <2>4, <2>5 DEF StillAbsent, Sound
  <1> QED
    BY <1>3, <1>4, <1>5 DEF TicketInv

\* A job starts to POST for a booking that is paid.
LEMMA StartKeepsTickets ==
  ASSUME TypeInv, TypeInv', TicketInv, NEW w \in Workers, NEW b \in Bookings, StartJob(w, b)
  PROVE  TicketInv'
  <1>1. /\ jobs[b] > 0 /\ jobs' = [jobs EXCEPT ![b] = @ - 1]
        /\ UNCHANGED <<status, blind, sweep, posts, order, customerPayments>>
    BY DEF StartJob, rowVars, tableVars, outsideVars, windowVars
  <1>2. CASE status[b] # "paid"
    <2>1. UNCHANGED worker
      BY <1>2 DEF StartJob
    <2>2. NoNewJobs
      BY <1>1, TicketTypes DEF NoNewJobs
    <2>3. StatusSteps /\ OrdersSettle
      BY <1>1 DEF StatusSteps, OrdersSettle
    <2> QED
      BY <1>1, <2>1, <2>2, <2>3, NobodyStops, TicketsKept
  <1>3. CASE status[b] = "paid"
    <2>1. worker' = [worker EXCEPT ![w] = [pc |-> "posting", booking |-> b, order |-> 0]]
      BY <1>3 DEF StartJob
    <2>2. /\ \A v \in Workers : v # w => worker'[v] = worker[v]
          /\ worker'[w].pc = "posting" /\ worker'[w].booking = b
      BY <2>1, TicketTypes
    <2>3. ~ Quiet(b)
      BY <1>1 DEF Quiet
    <2>4. \A c \in Bookings : /\ Sound(c)' <=> Sound(c)
                              /\ c # b /\ Quiet(c) => Quiet(c)'
                              /\ c # b => Posting(c)' \subseteq Posting(c)
      BY <1>1, <2>2, TicketTypes DEF Sound, Quiet, Nobody, Posting
    <2>5. PaidInv'
      BY <1>1 DEF TicketInv, PaidInv
    <2>6. AbsenceInv'
      <3> SUFFICES ASSUME NEW c \in Bookings, StillAbsent(c) PROVE StillAbsent(c)'
        BY <1>1, TicketTypes DEF TicketInv, AbsenceInv
      <3> QED
        BY <1>1, <2>3, <2>4 DEF StillAbsent
    <2>7. RefusalInv'
      BY <1>1, <2>2 DEF TicketInv, RefusalInv, Ticketed
    <2>8. FailedInv'
      <3> SUFFICES ASSUME NEW c \in Bookings, status'[c] = "order_failed" PROVE Unticketed(c)'
        BY DEF FailedInv
      <3>1. c # b /\ Unticketed(c)
        BY <1>1, <1>3 DEF TicketInv, FailedInv
      <3> QED
        BY <1>1, <2>4, <3>1 DEF Unticketed, Ticketed
    <2> QED
      BY <2>5, <2>6, <2>7, <2>8 DEF TicketInv
  <1> QED
    BY <1>2, <1>3

\* A POST: a second one of its booking, or one no verdict has been given on.
LEMMA PostKeepsTickets ==
  ASSUME TypeInv, TypeInv', OrderInv, TicketInv, NEW w \in Workers, PostOrder(w),
         NEW b \in Bookings, b = worker[w].booking, NEW n \in Nat, n = posts[b] + 1
  PROVE  TicketInv'
  <1>1. /\ worker[w].pc = "posting"
        /\ posts' = [posts EXCEPT ![b] = n]
        /\ UNCHANGED <<status, blind, sweep, jobs, customerPayments>>
    BY DEF PostOrder, rowVars, tableVars, queueVars, windowVars
  <1>2. /\ \A o \in OrderIds : o # <<b, n>> => order'[o] = order[o]
        /\ \A v \in Workers : v # w => worker'[v] = worker[v]
        /\ worker'[w].booking \in {b, NoBooking}
        /\ worker'[w].pc # "posting"
        /\ worker'[w].pc = "rejected" =>
              /\ worker'[w].booking = b
              /\ <<b, n>> \in OrderIds => order'[<<b, n>>] = "refused"
    <2> USE TicketTypes
    <2>1. CASE /\ order' = [order EXCEPT ![<<b, n>>] = "live"]
               /\ worker' = [worker EXCEPT ![w] = [pc |-> "created", booking |-> b, order |-> n]]
      BY <2>1
    <2>2. CASE /\ order' = [order EXCEPT ![<<b, n>>] = "refused"]
               /\ worker' = [worker EXCEPT ![w] = [pc |-> "rejected", booking |-> b, order |-> 0]]
      BY <2>2
    <2>3. ASSUME NEW f, order' = [order EXCEPT ![<<b, n>>] = f],
                 worker' = [worker EXCEPT ![w] = Idle]
          PROVE  /\ \A o \in OrderIds : o # <<b, n>> => order'[o] = order[o]
                 /\ \A v \in Workers : v # w => worker'[v] = worker[v]
                 /\ worker'[w].booking = NoBooking
                 /\ worker'[w].pc = "idle"
      BY <2>3
    <2> QED
      BY <2>1, <2>2, <2>3 DEF PostOrder
  <1>3. /\ posts[b] \in Nat
        /\ posts'[b] = n
        /\ \A c \in Bookings : c # b => posts'[c] = posts[c]
    BY <1>1, TicketTypes
  <1>5. \A c \in Bookings, m \in 1 .. MaxPosts :
           c # b \/ m # n => order'[<<c, m>>] = order[<<c, m>>]
    BY <1>2 DEF OrderIds
  <1>6. \A c \in Bookings : /\ Sound(c)' <=> Sound(c)
                            /\ c # b /\ Quiet(c) => Quiet(c)'
                            /\ c # b => Posting(c)' \subseteq Posting(c)
    BY <1>1, <1>2, <1>5, TicketTypes DEF Sound, Quiet, Nobody, Posting
  <1>7. ~ Quiet(b)
    BY DEF Quiet, Nobody
  <1>8. PaidInv'
    BY <1>1 DEF TicketInv, PaidInv
  <1>9. AbsenceInv'
    <2> SUFFICES ASSUME NEW c \in Bookings, StillAbsent(c) PROVE StillAbsent(c)'
      BY <1>1, TicketTypes DEF TicketInv, AbsenceInv
    <2>1. CASE c = b
      BY <1>1, <1>6, <1>7, <2>1 DEF StillAbsent
    <2>2. CASE c # b
      BY <1>1, <1>5, <1>6, <2>2 DEF StillAbsent
    <2> QED
      BY <2>1, <2>2
  <1>10. RefusalInv'
    <2> SUFFICES ASSUME NEW v \in Workers, worker'[v].pc = "rejected"
                 PROVE  /\ posts'[worker'[v].booking] >= 1
                        /\ posts'[worker'[v].booking] <= 1 =>
                              \A m \in 1 .. MaxPosts : order'[<<worker'[v].booking, m>>] \notin {"live", "inflight"}
      BY DEF RefusalInv, Ticketed
    <2>1. CASE v = w
      <3>1. /\ worker'[v].booking = b
            /\ <<b, n>> \in OrderIds => order'[<<b, n>>] = "refused"
        BY <1>2, <2>1
      <3>2. ASSUME posts'[b] <= 1, NEW m \in 1 .. MaxPosts
             PROVE  order'[<<b, m>>] \notin {"live", "inflight"}
        <4>1. posts[b] = 0
          BY <1>3, <3>2
        <4>2. order[<<b, m>>] = "none"
          BY <1>3, <4>1 DEF OrderInv, PostsAreFresh
        <4>3. CASE m = n
          <5>1. <<b, n>> \in OrderIds
            BY <1>3, <4>3 DEF OrderIds
          <5> QED
            BY <3>1, <4>3, <5>1 DEF Ticketed
        <4>4. CASE m # n
          BY <1>5, <4>2, <4>4 DEF Ticketed
        <4> QED
          BY <4>3, <4>4
      <3> QED
        BY <1>3, <3>1, <3>2
    <2>2. CASE v # w
      <3>1. worker'[v] = worker[v] /\ worker[v].booking \in Bookings
        BY <1>2, <2>2, TicketTypes
      <3>2. /\ posts[worker[v].booking] >= 1
            /\ posts[worker[v].booking] <= 1 =>
                  \A m \in 1 .. MaxPosts : ~ Ticketed(worker[v].booking, m)
        BY <3>1 DEF TicketInv, RefusalInv
      <3>3. CASE worker[v].booking = b
        BY <1>3, <3>1, <3>2, <3>3
      <3>4. CASE worker[v].booking # b
        BY <1>3, <1>5, <3>1, <3>2, <3>4 DEF Ticketed
      <3> QED
        BY <3>3, <3>4
    <2> QED
      BY <2>1, <2>2
  <1>11. FailedInv'
    <2> SUFFICES ASSUME NEW c \in Bookings, status'[c] = "order_failed" PROVE Unticketed(c)'
      BY DEF FailedInv
    <2>1. Unticketed(c)
      BY <1>1 DEF TicketInv, FailedInv
    <2>2. CASE c = b
      <3>1. w \in Posting(b)
        BY <1>1 DEF Posting
      <3>2. posts'[b] <= 1 => posts[b] = 0
        BY <1>3
      <3>3. Sound(b) /\ posts[b] <= 1 => posts[b] >= 1
        BY <2>1, <2>2, <3>1 DEF Unticketed
      <3>4. ~ (Sound(b) /\ posts'[b] <= 1)
        BY <1>3, <3>2, <3>3
      <3> QED
        BY <1>6, <2>2, <3>4 DEF Unticketed
    <2>3. CASE c # b
      BY <1>1, <1>3, <1>5, <1>6, <2>1, <2>3 DEF Unticketed, Ticketed
    <2> QED
      BY <2>2, <2>3
  <1> QED
    BY <1>8, <1>9, <1>10, <1>11 DEF TicketInv

LEMMA NextTickets ==
  TypeInv /\ TypeInv' /\ OrderInv /\ TicketInv /\ [Next]_vars => TicketInv'
  <1> SUFFICES ASSUME TypeInv, TypeInv', OrderInv, TicketInv, [Next]_vars PROVE TicketInv'
    OBVIOUS
  <1>1. CASE UNCHANGED vars
    BY <1>1 DEF TicketInv, PaidInv, AbsenceInv, StillAbsent, RefusalInv, FailedInv, Sound,
                Quiet, Nobody, Ticketed, Unticketed, Posting, vars, rowVars, tableVars, queueVars, memoryVars, outsideVars,
                windowVars
  <1>2. ASSUME NEW t \in Transactions, ProcessCaptured(t) PROVE TicketInv'
    BY <1>2, CaptureKeepsTickets
  <1>4. ASSUME NEW b \in Bookings, SweepLooksUp(b) PROVE TicketInv'
    BY <1>4, LookupKeepsTickets
  <1>5. ASSUME NEW w \in Workers, NEW b \in Bookings, StartJob(w, b) PROVE TicketInv'
    BY <1>5, StartKeepsTickets
  <1>6. ASSUME NEW w \in Workers, PostOrder(w) PROVE TicketInv'
    <2>1. worker[w].booking \in Bookings
      BY <1>6, TicketTypes DEF PostOrder
    <2>2. posts[worker[w].booking] + 1 \in Nat
      BY <2>1, TicketTypes
    <2> QED
      BY <1>6, <2>1, <2>2, PostKeepsTickets
  <1> QED
    BY <1>1, <1>2, <1>4, <1>5, <1>6, StepOfTickets

LEMMA InitTickets == Init => TicketInv
  <1> SUFFICES ASSUME Init PROVE TicketInv
    OBVIOUS
  <1>1. PaidInv /\ FailedInv
    BY DEF Init, PaidInv, FailedInv
  <1>2. AbsenceInv /\ RefusalInv
    BY DEF Init, AbsenceInv, RefusalInv, Idle
  <1> QED
    BY <1>1, <1>2 DEF TicketInv

\* A booking paid once and posted once is refunded over a ticket only if something of
\* it was still under way when the sweep read that it has no order; whatever the
\* window, the job, its death, a lost answer and a truncated list do meanwhile, a
\* verdict read with nothing under way, and a refused POST, stay right until applied.
THEOREM NeverRefundedOverTicket == Spec => []NoRefundWhileTicketed
  <1>1. Init /\ [][Next]_vars => [](TypeInv /\ OrderInv)
    <2>1. IInv => TypeInv /\ OrderInv
      BY DEF IInv
    <2> QED
      BY <2>1, Inductive, PTL DEF Spec
  <1>2. Init /\ [][Next]_vars /\ [](TypeInv /\ OrderInv) => []TicketInv
    BY InitTickets, NextTickets, PTL
  <1>3. TicketInv => NoRefundWhileTicketed
    BY DEF TicketInv, FailedInv, Unticketed, Sound, Ticketed, NoRefundWhileTicketed
  <1> QED
    BY <1>1, <1>2, <1>3, PTL DEF Spec

-----------------------------------------------------------------------------
(* Fulfillment implements BookingLifecycle. *)

\* One call of transitionTo is a Move of the lifecycle.
LEMMA TransitionIsMove ==
  ASSUME NEW b \in Bookings, NEW to \in BookingStatus, TransitionTo(b, to)
  PROVE  Lifecycle!Next
  BY DEF Lifecycle!Next, Lifecycle!Move, Lifecycle!TransitionTo, TransitionTo,
         Lifecycle!BookingStatus, BookingStatus, Lifecycle!LegalTransitions,
         LegalTransitions, Lifecycle!HistoryRow, HistoryRow, Lifecycle!rowVars, rowVars

LEMMA StepIsLifecycleStep ==
  TypeInv /\ [Next]_vars => [Lifecycle!Next]_(Lifecycle!rowVars)
  <1> SUFFICES ASSUME TypeInv, [Next]_vars PROVE Lifecycle!Next \/ UNCHANGED rowVars
    BY DEF Lifecycle!rowVars, rowVars
  <1> USE StatusStrings
  <1>0. Idle.pc = "idle"
    BY DEF Idle
  <1>1. ASSUME NEW t \in Transactions, ProcessCaptured(t)
        PROVE  Lifecycle!Next
    <2>1. Payer(t) \in Bookings
      BY ConstantsAssumption DEF ConstantsAssumption, Payer
    <2> QED
      BY <1>1, <2>1, TransitionIsMove DEF ProcessCaptured
  <1>2. ASSUME NEW b \in Bookings, ExpireBooking(b)
        PROVE  Lifecycle!Next
    BY <1>2, TransitionIsMove DEF ExpireBooking
  <1>3. ASSUME NEW b \in Bookings, NEW n, ConfirmPaidBooking(b, n)
        PROVE  Lifecycle!Next \/ UNCHANGED rowVars
    BY <1>3, TransitionIsMove DEF ConfirmPaidBooking
  <1>4. ASSUME NEW b \in Bookings, FailPaidBookingAndRefund(b)
        PROVE  Lifecycle!Next \/ UNCHANGED rowVars
    BY <1>4, TransitionIsMove DEF FailPaidBookingAndRefund
  <1>5. ASSUME NEW w \in Workers, JobConfirms(w) \/ JobFails(w)
        PROVE  Lifecycle!Next \/ UNCHANGED rowVars
    <2>1. worker[w].booking \in Bookings
      BY <1>0, <1>5 DEF JobConfirms, JobFails, TypeInv, BusyHasBooking
    <2> QED
      BY <1>3, <1>4, <1>5, <2>1 DEF JobConfirms, JobFails
  <1>6. CASE SweepConfirms \/ SweepFails
    <2>1. sweep.booking \in Bookings
      BY <1>0, <1>6 DEF SweepConfirms, SweepFails, TypeInv, BusyHasBooking
    <2> QED
      BY <1>3, <1>4, <1>6, <2>1 DEF SweepConfirms, SweepFails
  <1>7. ASSUME NEW o \in OrderIds, ProcessOrderCreated(o)
        PROVE  Lifecycle!Next \/ UNCHANGED rowVars
    <2>1. o[1] \in Bookings
      BY DEF OrderIds
    <2> QED
      BY <1>3, <1>7, <2>1 DEF ProcessOrderCreated
  <1>8. ASSUME NEW t \in Transactions,
               GatewaySettles(t) \/ ReceivePaymentCallback(t) \/ ProcessDeclined(t)
        PROVE  UNCHANGED rowVars
    BY <1>8 DEF GatewaySettles, ReceivePaymentCallback, ProcessDeclined
  <1>9. ASSUME NEW b \in Bookings, WindowCloses(b) \/ SweepLooksUp(b) \/ SendEmail(b)
        PROVE  UNCHANGED rowVars
    BY <1>9 DEF WindowCloses, SweepLooksUp, SendEmail
  <1>10. ASSUME NEW w \in Workers,
                \/ \E b \in Bookings : StartJob(w, b)
                \/ PostOrder(w) \/ WorkerDies(w)
         PROVE  UNCHANGED rowVars
    BY <1>10 DEF StartJob, PostOrder, WorkerDies
  <1>11. ASSUME NEW o \in OrderIds, DuffelSettles(o) \/ ReceiveOrderCreated(o)
         PROVE  UNCHANGED rowVars
    BY <1>11 DEF DuffelSettles, ReceiveOrderCreated
  <1>12. CASE SweepDies \/ AccountOutgrowsScan \/ UNCHANGED vars
    BY <1>12 DEF SweepDies, AccountOutgrowsScan, vars
  <1> QED
    BY <1>1, <1>2, <1>5, <1>6, <1>7, <1>8, <1>9, <1>10, <1>11, <1>12 DEF Next

\* A booking that waits for its payment has lived a whole lifecycle so far.
LEMMA InitIsResumption == Init => Lifecycle!TypeOK /\ Lifecycle!HistoryIsComplete
  <1> SUFFICES ASSUME Init PROVE Lifecycle!TypeOK /\ Lifecycle!HistoryIsComplete
    OBVIOUS
  <1> DEFINE r1 == HistoryRow("pending", "pending")
             r2 == HistoryRow("pending", "awaiting_payment")
  <1>1. /\ r1.to = "pending" /\ r2.from = "pending" /\ r2.to = "awaiting_payment"
        /\ r1 \in HistoryRows /\ r2 \in HistoryRows
        /\ <<r2.from, r2.to>> \in LegalTransitions
    BY StatusStrings DEF HistoryRow, HistoryRows, LegalTransitions
  <1>2. ASSUME NEW b \in Bookings
        PROVE  status[b] = "awaiting_payment" /\ history[b] = <<r1, r2>>
    BY DEF Init
  <1>3. HistoryRows = Lifecycle!HistoryRows /\ BookingStatus = Lifecycle!BookingStatus
        /\ LegalTransitions = Lifecycle!LegalTransitions
        /\ r1 = Lifecycle!HistoryRow("pending", "pending")
        /\ Lifecycle!Absent = "absent"
    BY DEF HistoryRows, Lifecycle!HistoryRows, BookingStatus, Lifecycle!BookingStatus,
           LegalTransitions, Lifecycle!LegalTransitions, HistoryRow, Lifecycle!HistoryRow,
           Lifecycle!Absent
  <1>4. Lifecycle!TypeOK
    BY <1>3, InitTypes DEF TypeInv, TypeOK, Lifecycle!TypeOK
  <1>5. ASSUME NEW b \in Bookings PROVE Lifecycle!HistoryTellsStatus(b)
    <2> HIDE DEF r1, r2
    <2>1. /\ Len(history[b]) = 2
          /\ history[b][1] = r1
          /\ history[b][2] = r2
      BY <1>2
    <2>2. status[b] # Lifecycle!Absent
      BY <1>2, <1>3
    <2>3. ASSUME NEW i \in 2 .. Len(history[b])
          PROVE  /\ history[b][i].from = history[b][i - 1].to
                 /\ <<history[b][i].from, history[b][i].to>> \in Lifecycle!LegalTransitions
      <3>1. i = 2 /\ history[b][i] = r2 /\ history[b][i - 1] = r1
        BY <2>1
      <3> QED
        BY <1>1, <1>3, <3>1
    <2>4. /\ Len(history[b]) > 0
          /\ history[b][1] = Lifecycle!HistoryRow("pending", "pending")
      BY <1>3, <2>1
    <2>5. history[b][Len(history[b])].to = status[b]
      BY <1>1, <1>2, <2>1
    <2> QED
      BY <2>2, <2>3, <2>4, <2>5, Zenon DEF Lifecycle!HistoryTellsStatus
  <1> QED
    BY <1>4, <1>5 DEF Lifecycle!HistoryIsComplete

\* The races of payment and fulfilment implement the booking state machine.
THEOREM FulfillmentImplementsLifecycle == Spec => ImplementsLifecycle
  <1>1. Spec => []TypeInv
    BY InitTypes, NextTypes, PTL DEF Spec
  <1> QED
    BY <1>1, InitIsResumption, StepIsLifecycleStep, PTL
       DEF Spec, ImplementsLifecycle, Lifecycle!Resumed
=============================================================================
