----------------------- MODULE BookingLifecycleProofs -----------------------
(***************************************************************************)
(* Every move of the booking state machine keeps the history of a booking  *)
(* whole, for any set of bookings.                                         *)
(***************************************************************************)
EXTENDS BookingLifecycle, TLAPS

\* Legal transitions relate statuses of existing rows.
LEMMA LegalTransitionsTyped ==
  \A p \in LegalTransitions : p[1] \in BookingStatus /\ p[2] \in BookingStatus
  BY DEF LegalTransitions, BookingStatus

\* Appending a legal row to a whole history keeps it whole.
LEMMA AppendKeepsChain ==
  ASSUME NEW h \in Seq(HistoryRows), NEW s \in BookingStatus, NEW to \in BookingStatus,
         Len(h) > 0,
         h[1] = HistoryRow("pending", "pending"),
         h[Len(h)].to = s,
         \A i \in 2 .. Len(h) : /\ h[i].from = h[i - 1].to
                                /\ <<h[i].from, h[i].to>> \in LegalTransitions,
         <<s, to>> \in LegalTransitions,
         NEW g, g = Append(h, HistoryRow(s, to))
  PROVE  /\ g \in Seq(HistoryRows)
         /\ Len(g) > 0
         /\ g[1] = HistoryRow("pending", "pending")
         /\ g[Len(g)].to = to
         /\ \A i \in 2 .. Len(g) : /\ g[i].from = g[i - 1].to
                                   /\ <<g[i].from, g[i].to>> \in LegalTransitions
  <1>1. HistoryRow(s, to) \in HistoryRows
        /\ HistoryRow(s, to).from = s /\ HistoryRow(s, to).to = to
    BY DEF HistoryRow, HistoryRows
  <1>2. /\ g \in Seq(HistoryRows)
        /\ Len(g) = Len(h) + 1
        /\ Len(h) \in Nat
        /\ \A i \in 1 .. Len(h) : g[i] = h[i]
        /\ g[Len(h) + 1] = HistoryRow(s, to)
    BY <1>1
  <1>3. ASSUME NEW i \in 2 .. Len(g)
        PROVE  /\ g[i].from = g[i - 1].to
               /\ <<g[i].from, g[i].to>> \in LegalTransitions
    <2>1. CASE i = Len(h) + 1
      <3>1. g[i - 1] = h[Len(h)]
        BY <1>2, <2>1
      <3> QED
        BY <1>1, <1>2, <2>1, <3>1
    <2>2. CASE i \in 2 .. Len(h)
      <3>1. g[i] = h[i] /\ g[i - 1] = h[i - 1]
        BY <1>2, <2>2
      <3>2. /\ h[i].from = h[i - 1].to
            /\ <<h[i].from, h[i].to>> \in LegalTransitions
        BY <2>2
      <3> QED
        BY <3>1, <3>2, Zenon
    <2>3. i = Len(h) + 1 \/ i \in 2 .. Len(h)
      BY <1>2
    <2> QED
      BY <2>1, <2>2, <2>3, Zenon
  <1> QED
    BY <1>1, <1>2, <1>3

\* transitionTo preserves the types of both tables and the wholeness of every
\* history, and is a step of the lifecycle.
LEMMA TransitionKeepsHistory ==
  ASSUME NEW b \in Bookings, NEW to \in BookingStatus,
         TypeOK, HistoryIsComplete, TransitionTo(b, to)
  PROVE  TypeOK' /\ HistoryIsComplete'
  <1>1. CASE UNCHANGED rowVars
    BY <1>1 DEF TypeOK, HistoryIsComplete, HistoryTellsStatus, rowVars
  <1>2. CASE /\ <<status[b], to>> \in LegalTransitions
             /\ status' = [status EXCEPT ![b] = to]
             /\ history' = [history EXCEPT ![b] = Append(@, HistoryRow(status[b], to))]
    <2>1. status[b] \in BookingStatus /\ status[b] # Absent
      BY <1>2, LegalTransitionsTyped DEF BookingStatus, Absent
    <2>2. /\ history[b] \in Seq(HistoryRows)
          /\ Len(history[b]) > 0
          /\ history[b][1] = HistoryRow("pending", "pending")
          /\ history[b][Len(history[b])].to = status[b]
          /\ \A i \in 2 .. Len(history[b]) :
                /\ history[b][i].from = history[b][i - 1].to
                /\ <<history[b][i].from, history[b][i].to>> \in LegalTransitions
      BY <2>1 DEF TypeOK, HistoryIsComplete, HistoryTellsStatus
    <2>3. history'[b] = Append(history[b], HistoryRow(status[b], to)) /\ status'[b] = to
      BY <1>2 DEF TypeOK
    <2>4. /\ history'[b] \in Seq(HistoryRows)
          /\ Len(history'[b]) > 0
          /\ history'[b][1] = HistoryRow("pending", "pending")
          /\ history'[b][Len(history'[b])].to = to
          /\ \A i \in 2 .. Len(history'[b]) :
                /\ history'[b][i].from = history'[b][i - 1].to
                /\ <<history'[b][i].from, history'[b][i].to>> \in LegalTransitions
      <3>1. <<status[b], to>> \in LegalTransitions
        BY <1>2
      <3>2. status[b] \in BookingStatus
        BY <2>1
      <3> HIDE <1>2, <2>1, <2>3
      <3>3. \A g : g = Append(history[b], HistoryRow(status[b], to)) =>
               /\ g \in Seq(HistoryRows)
               /\ Len(g) > 0
               /\ g[1] = HistoryRow("pending", "pending")
               /\ g[Len(g)].to = to
               /\ \A i \in 2 .. Len(g) : /\ g[i].from = g[i - 1].to
                                         /\ <<g[i].from, g[i].to>> \in LegalTransitions
        BY <2>2, <3>1, <3>2, AppendKeepsChain, ZenonT(30)
      <3> QED
        BY <2>3, <3>3, Zenon
    <2>5. TypeOK'
      BY <1>2, <2>3, <2>4 DEF TypeOK
    <2>6. to # Absent
      BY DEF BookingStatus, Absent
    <2>7. ASSUME NEW c \in Bookings PROVE HistoryTellsStatus(c)'
      <3>1. CASE c = b
        BY <2>3, <2>4, <2>6, <3>1 DEF HistoryTellsStatus
      <3>2. CASE c # b
        <4>1. status'[c] = status[c] /\ history'[c] = history[c]
          BY <1>2, <3>2 DEF TypeOK
        <4> QED
          BY <4>1 DEF HistoryIsComplete, HistoryTellsStatus
      <3> QED
        BY <3>1, <3>2
    <2> QED
      BY <2>5, <2>7 DEF HistoryIsComplete
  <1> QED
    BY <1>1, <1>2 DEF TransitionTo

\* Creating a booking writes its first history row.
LEMMA InsertKeepsHistory ==
  ASSUME NEW b \in Bookings, TypeOK, HistoryIsComplete, InsertBooking(b)
  PROVE  TypeOK' /\ HistoryIsComplete'
  <1> DEFINE row == HistoryRow("pending", "pending")
  <1>1. /\ row \in HistoryRows
        /\ row.to = "pending"
        /\ "pending" \in BookingStatus
        /\ "pending" # Absent
    BY DEF HistoryRow, HistoryRows, BookingStatus, Absent
  <1>2. <<row>> \in Seq(HistoryRows) /\ Len(<<row>>) = 1 /\ <<row>>[1] = row
    BY <1>1
  <1>3. /\ status'[b] = "pending" /\ history'[b] = <<row>>
        /\ \A c \in Bookings : c # b => status'[c] = status[c] /\ history'[c] = history[c]
    BY DEF InsertBooking, TypeOK
  <1>4. TypeOK'
    BY <1>1, <1>2 DEF TypeOK, InsertBooking
  <1>5. ASSUME NEW c \in Bookings PROVE HistoryTellsStatus(c)'
    <2>1. CASE c = b
      <3>1. Len(history'[b]) = 1 /\ history'[b][1] = row
        BY <1>2, <1>3
      <3>2. \A i \in 2 .. Len(history'[b]) : FALSE
        BY <3>1
      <3>3. history'[b][Len(history'[b])].to = status'[b]
        BY <1>1, <1>3, <3>1
      <3>4. Len(history'[b]) > 0
        BY <3>1
      <3>5. status'[b] # Absent
        BY <1>1, <1>3
      <3> QED
        BY <2>1, <3>1, <3>2, <3>3, <3>4, <3>5, Zenon DEF HistoryTellsStatus
    <2>2. CASE c # b
      <3>1. status'[c] = status[c] /\ history'[c] = history[c]
        BY <1>3, <2>2
      <3> QED
        BY <3>1 DEF HistoryIsComplete, HistoryTellsStatus
    <2> QED
      BY <2>1, <2>2
  <1> QED
    BY <1>4, <1>5 DEF HistoryIsComplete

\* The history of every booking is whole, however many bookings there are: no
\* status change escapes booking_status_history.
THEOREM HistoryAlwaysComplete == Spec => [](TypeOK /\ HistoryIsComplete)
  <1>1. Init => TypeOK /\ HistoryIsComplete
    <2>1. << >> \in Seq(HistoryRows)
      OBVIOUS
    <2> QED
      BY <2>1 DEF Init, TypeOK, HistoryIsComplete, HistoryTellsStatus
  <1>2. TypeOK /\ HistoryIsComplete /\ [Next]_rowVars => TypeOK' /\ HistoryIsComplete'
    <2> SUFFICES ASSUME TypeOK, HistoryIsComplete, [Next]_rowVars
                 PROVE  TypeOK' /\ HistoryIsComplete'
      OBVIOUS
    <2>1. ASSUME NEW b \in Bookings, Create(b)
          PROVE  TypeOK' /\ HistoryIsComplete'
      BY <2>1, InsertKeepsHistory DEF Create
    <2>2. ASSUME NEW b \in Bookings, NEW to \in BookingStatus, TransitionTo(b, to)
          PROVE  TypeOK' /\ HistoryIsComplete'
      BY <2>2, TransitionKeepsHistory
    <2>3. CASE UNCHANGED rowVars
      BY <2>3 DEF TypeOK, HistoryIsComplete, HistoryTellsStatus, rowVars
    <2> QED
      BY <2>1, <2>2, <2>3 DEF Next, Move
  <1> QED
    BY <1>1, <1>2, PTL DEF Spec

-----------------------------------------------------------------------------
(* What a status says of the statuses before it. *)

\* The statuses a booking may have had by the time it is s.
Past(s) ==
    CASE s = "pending"          -> {"pending"}
      [] s = "awaiting_payment" -> {"pending", "awaiting_payment"}
      [] s = "failed"           -> {"pending", "awaiting_payment", "failed"}
      [] s = "paid"             -> {"pending", "awaiting_payment", "paid"}
      [] s = "confirmed"        -> {"pending", "awaiting_payment", "paid", "confirmed"}
      [] s = "order_failed"     -> {"pending", "awaiting_payment", "paid", "order_failed"}
      [] s = "cancelled"        -> {"pending", "awaiting_payment", "paid", "confirmed",
                                    "cancelled"}
      [] s = "refunded"         -> {"pending", "awaiting_payment", "paid", "confirmed",
                                    "order_failed", "cancelled", "refunded"}
      [] OTHER                  -> {}

PastOf(b) ==
    /\ \A i \in 1 .. Len(history[b]) : history[b][i].to \in Past(status[b])
    /\ status[b] \in Captured => \E i \in 1 .. Len(history[b]) : history[b][i].to = "paid"

PastIsKnown == \A b \in Bookings : PastOf(b)

Inv == TypeOK /\ HistoryIsComplete /\ PastIsKnown

\* A legal transition leads to a status that was never held, and forgets none.
LEMMA LegalMeansNew ==
  \A p \in LegalTransitions :
     /\ p[2] \notin Past(p[1])
     /\ Past(p[1]) \subseteq Past(p[2])
     /\ p[2] \in Past(p[2])
     /\ p[2] \in Captured => p[1] \in Captured \/ p[2] = "paid"
  BY DEF LegalTransitions, Past, Captured

\* transitionTo keeps what a status says of the past.
LEMMA TransitionKeepsPast ==
  ASSUME NEW b \in Bookings, NEW to \in BookingStatus, Inv, TransitionTo(b, to)
  PROVE  PastIsKnown'
  <1>1. CASE UNCHANGED rowVars
    BY <1>1 DEF Inv, PastIsKnown, PastOf, rowVars
  <1>2. CASE /\ <<status[b], to>> \in LegalTransitions
             /\ status' = [status EXCEPT ![b] = to]
             /\ history' = [history EXCEPT ![b] = Append(@, HistoryRow(status[b], to))]
    <2>1. /\ status'[b] = to
          /\ history'[b] = Append(history[b], HistoryRow(status[b], to))
          /\ \A c \in Bookings : c # b => status'[c] = status[c] /\ history'[c] = history[c]
      BY <1>2 DEF Inv, TypeOK
    <2>2. /\ Past(status[b]) \subseteq Past(to)
          /\ to \in Past(to)
          /\ to \in Captured => status[b] \in Captured \/ to = "paid"
      BY <1>2, LegalMeansNew
    <2>3. history[b] \in Seq(HistoryRows) /\ PastOf(b)
      BY DEF Inv, TypeOK, PastIsKnown
    <2>4. HistoryRow(status[b], to).to = to
      BY DEF HistoryRow
    <2>5. /\ Len(history'[b]) = Len(history[b]) + 1 /\ Len(history[b]) \in Nat
          /\ history'[b][Len(history[b]) + 1].to = to
          /\ \A i \in 1 .. Len(history[b]) : history'[b][i] = history[b][i]
      BY <2>1, <2>3, <2>4
    <2>6. ASSUME NEW i \in 1 .. Len(history'[b])
          PROVE  history'[b][i].to \in Past(to)
      <3>1. CASE i = Len(history[b]) + 1
        BY <2>2, <2>5, <3>1
      <3>2. CASE i \in 1 .. Len(history[b])
        <4>1. history[b][i].to \in Past(status[b])
          BY <2>3, <3>2 DEF PastOf
        <4> QED
          BY <2>2, <2>5, <3>2, <4>1
      <3> QED
        BY <2>5, <3>1, <3>2
    <2>7. ASSUME to \in Captured
          PROVE  \E i \in 1 .. Len(history'[b]) : history'[b][i].to = "paid"
      <3>1. CASE to = "paid"
        BY <2>5, <3>1
      <3>2. CASE status[b] \in Captured
        <4>1. PICK i \in 1 .. Len(history[b]) : history[b][i].to = "paid"
          BY <2>3, <3>2 DEF PastOf
        <4> QED
          BY <2>5, <4>1
      <3> QED
        BY <2>2, <2>7, <3>1, <3>2
    <2>8. PastOf(b)'
      BY <2>1, <2>6, <2>7 DEF PastOf
    <2>9. ASSUME NEW c \in Bookings, c # b PROVE PastOf(c)'
      BY <2>1, <2>9 DEF Inv, PastIsKnown, PastOf
    <2> QED
      BY <2>8, <2>9 DEF PastIsKnown
  <1> QED
    BY <1>1, <1>2 DEF TransitionTo

\* So does the insert of a booking.
LEMMA InsertKeepsPast ==
  ASSUME NEW b \in Bookings, Inv, InsertBooking(b)
  PROVE  PastIsKnown'
  <1>1. /\ status'[b] = "pending"
        /\ history'[b] = <<HistoryRow("pending", "pending")>>
        /\ \A c \in Bookings : c # b => status'[c] = status[c] /\ history'[c] = history[c]
    BY DEF InsertBooking, Inv, TypeOK
  <1>2. HistoryRow("pending", "pending").to = "pending"
    BY DEF HistoryRow
  <1>3. PastOf(b)'
    BY <1>1, <1>2 DEF PastOf, Past, Captured
  <1>4. ASSUME NEW c \in Bookings, c # b PROVE PastOf(c)'
    BY <1>1, <1>4 DEF Inv, PastIsKnown, PastOf
  <1> QED
    BY <1>3, <1>4 DEF PastIsKnown

\* The invariant behind the two theorems below.
LEMMA InvHolds == Spec => []Inv
  <1>1. Init => PastIsKnown
    <2> SUFFICES ASSUME Init, NEW b \in Bookings PROVE PastOf(b)
      BY DEF PastIsKnown
    <2>1. status[b] = Absent /\ Len(history[b]) = 0
      BY DEF Init
    <2> QED
      BY <2>1 DEF PastOf, Absent, Captured
  <1>2. Inv /\ [Next]_rowVars => PastIsKnown'
    <2> SUFFICES ASSUME Inv, [Next]_rowVars PROVE PastIsKnown'
      OBVIOUS
    <2>1. ASSUME NEW b \in Bookings, Create(b) PROVE PastIsKnown'
      BY <2>1, InsertKeepsPast DEF Create
    <2>2. ASSUME NEW b \in Bookings, NEW to \in BookingStatus, TransitionTo(b, to)
          PROVE  PastIsKnown'
      BY <2>2, TransitionKeepsPast
    <2>3. CASE UNCHANGED rowVars
      BY <2>3 DEF Inv, PastIsKnown, PastOf, rowVars
    <2> QED
      BY <2>1, <2>2, <2>3 DEF Next, Move
  <1> QED
    BY <1>1, <1>2, HistoryAlwaysComplete, PTL DEF Spec, Inv

\* What a status says of the past decides which statuses exclude each other.
LEMMA PastSeparates == Inv => FailedMeansNeverCaptured
  <1> SUFFICES ASSUME Inv, NEW b \in Bookings
               PROVE  LET reached == {history[b][i].to : i \in 1 .. Len(history[b])}
                      IN  /\ reached \intersect Captured # {} => "paid" \in reached
                          /\ "failed" \in reached => reached \intersect Captured = {}
    BY DEF FailedMeansNeverCaptured
  <1> DEFINE reached == {history[b][i].to : i \in 1 .. Len(history[b])}
  <1>1. reached \subseteq Past(status[b])
    BY DEF Inv, PastIsKnown, PastOf
  <1>2. status[b] \in Captured => "paid" \in reached
    BY DEF Inv, PastIsKnown, PastOf
  <1>3. /\ Past(status[b]) \intersect Captured # {} => status[b] \in Captured
        /\ "failed" \in Past(status[b]) => Past(status[b]) \intersect Captured = {}
    BY DEF Inv, TypeOK, BookingStatus, Absent, Past, Captured
  <1> HIDE DEF reached
  <1>4. reached \intersect Captured # {} => "paid" \in reached
    BY <1>1, <1>2, <1>3
  <1>5. "failed" \in reached => reached \intersect Captured = {}
    BY <1>1, <1>3
  <1> QED
    BY <1>4, <1>5 DEF reached

\* No history holds a failed booking and captured money, however many bookings
\* there are: the table of transitions keeps the unpaid and the paid apart.
THEOREM FailedNeverCaptured == Spec => []FailedMeansNeverCaptured
  BY InvHolds, PastSeparates, PTL

\* A booking never returns to a status it has left, so no handler that succeeds
\* once can succeed again after the booking has moved on.
THEOREM StatusNeverRevisited == Spec => NeverRevisited
  <1> DEFINE New(b) == status'[b] # status[b] =>
                           \A i \in 1 .. Len(history[b]) : history[b][i].to # status'[b]
  <1>1. Inv /\ [Next]_rowVars => [\A b \in Bookings : New(b)]_rowVars
    <2> SUFFICES ASSUME Inv, Next, NEW c \in Bookings PROVE New(c)
      OBVIOUS
    <2>1. ASSUME NEW b \in Bookings, InsertBooking(b) PROVE New(c)
      <3>1. history[b] = << >>
        BY <2>1 DEF InsertBooking, Inv, HistoryIsComplete, HistoryTellsStatus
      <3>2. c # b => status'[c] = status[c]
        BY <2>1 DEF InsertBooking, Inv, TypeOK
      <3> QED
        BY <3>1, <3>2
    <2>2. ASSUME NEW b \in Bookings, NEW to \in BookingStatus, TransitionTo(b, to)
          PROVE  New(c)
      <3>1. CASE UNCHANGED rowVars
        BY <3>1 DEF rowVars
      <3>2. CASE <<status[b], to>> \in LegalTransitions /\ status' = [status EXCEPT ![b] = to]
        <4>1. to \notin Past(status[b])
          BY <3>2, LegalMeansNew
        <4>2. status'[b] = to /\ (c # b => status'[c] = status[c])
          BY <3>2 DEF Inv, TypeOK
        <4>3. \A i \in 1 .. Len(history[b]) : history[b][i].to \in Past(status[b])
          BY DEF Inv, PastIsKnown, PastOf
        <4> QED
          BY <4>1, <4>2, <4>3
      <3> QED
        BY <2>2, <3>1, <3>2 DEF TransitionTo
    <2> QED
      BY <2>1, <2>2 DEF Next, Create, Move
  <1> QED
    BY <1>1, InvHolds, PTL DEF Spec, NeverRevisited
=============================================================================
