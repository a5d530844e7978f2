-------------------------- MODULE BookingLifecycle --------------------------
(***************************************************************************)
(* What the booking state machine promises to the rest of the system: a    *)
(* booking is created once, moves only along legal transitions, and its    *)
(* history records every move.  The detailed modules implement this one.   *)
(***************************************************************************)
EXTENDS BookingRows

Init == /\ status = [b \in Bookings |-> Absent]
        /\ history = [b \in Bookings |-> << >>]

Create(b) == InsertBooking(b)

Move(b) == \E to \in BookingStatus : TransitionTo(b, to)

Next == \E b \in Bookings : Create(b) \/ Move(b)

Spec == Init /\ [][Next]_rowVars

-----------------------------------------------------------------------------
TypeOK == /\ status \in [Bookings -> BookingStatus \union {Absent}]
          /\ history \in [Bookings -> Seq(HistoryRows)]

\* The history rows of every booking form one unbroken legal chain from the
\* creation row to the current status (booking_state_machine.md, rule 1).
HistoryIsComplete == \A b \in Bookings : HistoryTellsStatus(b)

\* A booking observed in the middle of its life behaves as this module says.
\* The detailed modules start from such a point and implement Resumed.
Resumed == TypeOK /\ HistoryIsComplete /\ [][Next]_rowVars

\* Statuses from which the customer's money is, or was, with the gateway.
Captured == {"paid", "confirmed", "order_failed", "cancelled", "refunded"}

\* No booking is ever failed after its money was captured, and none reaches a
\* captured status without having been paid: seen on the history, every chain
\* that contains a captured status contains the paid row, and no failed row.
FailedMeansNeverCaptured ==
    \A b \in Bookings :
        LET reached == {history[b][i].to : i \in 1 .. Len(history[b])}
        IN  /\ reached \intersect Captured # {} => "paid" \in reached
            /\ "failed" \in reached => reached \intersect Captured = {}

\* A booking never comes back: a status once left is never held again
\* (confirmTwice, payTwice and un-cancelling are all excluded).
NeverRevisited ==
    [][\A b \in Bookings :
          status'[b] # status[b] =>
             \A i \in 1 .. Len(history[b]) :
                 history[b][i].to # status'[b]]_rowVars
=============================================================================
