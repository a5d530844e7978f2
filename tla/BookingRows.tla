---------------------------- MODULE BookingRows ----------------------------
(***************************************************************************)
(* The booking table as every service sees it: one status per booking and  *)
(* the rows of booking_status_history.  A status is only ever written by   *)
(* BookingStateMachineService.transitionTo, which holds the row lock of    *)
(* the booking and writes the history row in the same transaction, so one  *)
(* call is one atomic step here.                                           *)
(***************************************************************************)
EXTENDS Naturals, Sequences

CONSTANT Bookings
VARIABLES status, history

rowVars == <<status, history>>

BookingStatus == {"pending", "awaiting_payment", "paid", "confirmed",
                  "order_failed", "failed", "cancelled", "refunded"}

\* The status of a booking whose row does not exist yet.
Absent == "absent"

\* LEGAL_TRANSITIONS
LegalTransitions ==
    {<<"pending", "awaiting_payment">>, <<"pending", "failed">>,
     <<"awaiting_payment", "paid">>,    <<"awaiting_payment", "failed">>,
     <<"paid", "confirmed">>,           <<"paid", "order_failed">>,
     <<"confirmed", "cancelled">>,
     <<"cancelled", "refunded">>,       <<"order_failed", "refunded">>}

\* A row of booking_status_history.
HistoryRow(from, to) == [from |-> from, to |-> to]
HistoryRows == [from : BookingStatus, to : BookingStatus]

(***************************************************************************)
(* transitionTo(b, to): a replay of the current status changes nothing, a  *)
(* legal change writes both tables, and anything else throws, which rolls  *)
(* the caller's transaction back: the action is then not enabled.          *)
(***************************************************************************)
TransitionTo(b, to) ==
    \/ /\ status[b] = to
       /\ UNCHANGED rowVars
    \/ /\ <<status[b], to>> \in LegalTransitions
       /\ status' = [status EXCEPT ![b] = to]
       /\ history' = [history EXCEPT ![b] = Append(@, HistoryRow(status[b], to))]

\* createBooking's insert, with recordInitialHistory in the same transaction.
InsertBooking(b) ==
    /\ status[b] = Absent
    /\ status' = [status EXCEPT ![b] = "pending"]
    /\ history' = [history EXCEPT ![b] = <<HistoryRow("pending", "pending")>>]

\* The history of booking b tells one unbroken legal story, from its creation
\* to the status its row holds now.
HistoryTellsStatus(b) ==
    IF status[b] = Absent
    THEN history[b] = << >>
    ELSE /\ Len(history[b]) > 0
         /\ history[b][1] = HistoryRow("pending", "pending")
         /\ history[b][Len(history[b])].to = status[b]
         /\ \A i \in 2 .. Len(history[b]) :
               /\ history[b][i].from = history[b][i - 1].to
               /\ <<history[b][i].from, history[b][i].to>> \in LegalTransitions
=============================================================================
