------------------------- MODULE WebhookInboxProofs -------------------------
(***************************************************************************)
(* For any number of bookings, attempts, tries, events, requests, jobs,    *)
(* failures and deleted rows: nothing of Paymob's callbacks is lost        *)
(* between the steps of a request, each row of a captured try is applied   *)
(* once, and an attempt says what its callbacks said.                      *)
(***************************************************************************)
EXTENDS WebhookInbox, TLAPS

-----------------------------------------------------------------------------
(* The controller. *)

\* A request at work has an event, and one that queues it has stored it.
RequestsKnown ==
    \A q \in Requests :
        /\ request[q].pc # "free" => request[q].event \in Events
        /\ request[q].pc = "queueing" => table[request[q].event] # "none"

InboxInv == InboxTypeOK /\ RequestsKnown /\ AckedIsKept

\* Adding a job stays within the bound.
LEMMA AddJobTypes ==
  ASSUME InboxTypeOK, NEW e \in Events, AddJob(e)
  PROVE  jobs' \in [Events -> 0 .. MaxJobs]
  <1>1. jobs \in [Events -> 0 .. MaxJobs] /\ MaxJobs \in Nat
    BY InboxAssumption DEF InboxTypeOK
  <1>2. (IF jobs[e] < MaxJobs THEN jobs[e] + 1 ELSE jobs[e]) \in 0 .. MaxJobs
    BY <1>1
  <1> QED
    BY <1>1, <1>2 DEF AddJob

\* What the worker, the sweep and the retention do to the inbox: a row, once
\* stored, stays known.
LEMMA RowsStayKnown ==
  ASSUME InboxInv, UNCHANGED <<request, acked>>,
         table' \in [Events -> EventStatus],
         \A e \in Events : table[e] # "none" => table'[e] # "none",
         jobs' \in [Events -> 0 .. MaxJobs],
         faults' \in 0 .. MaxFaults
  PROVE  InboxInv'
  <1>1. InboxTypeOK'
    BY DEF InboxInv, InboxTypeOK
  <1>2. RequestsKnown'
    BY DEF InboxInv, RequestsKnown
  <1>3. AckedIsKept'
    BY DEF InboxInv, InboxTypeOK, AckedIsKept
  <1> QED
    BY <1>1, <1>2, <1>3 DEF InboxInv

\* The steps of a request.
LEMMA LookupKeepsInbox ==
  ASSUME InboxInv, NEW q \in Requests, NEW e \in Events, Lookup(q, e)
  PROVE  InboxInv'
  <1>1. /\ request \in [Requests -> [pc : {"free", "saving", "queueing"},
                                     event : Events \union {NoEvent}]]
        /\ acked \subseteq Events
    BY DEF InboxInv, InboxTypeOK
  <1>2. UNCHANGED <<table, jobs, faults>>
    BY DEF Lookup
  <1>4. CASE Kept(e)
    <2>1. acked' = acked \union {e} /\ request' = request
      BY <1>4 DEF Lookup
    <2>2. table[e] # "none"
      BY <1>4 DEF Kept
    <2>3. InboxTypeOK'
      BY <1>1, <1>2, <2>1 DEF InboxInv, InboxTypeOK
    <2>4. RequestsKnown'
      BY <1>2, <2>1 DEF InboxInv, RequestsKnown
    <2>5. AckedIsKept'
      BY <1>2, <2>1, <2>2 DEF InboxInv, AckedIsKept
    <2> QED
      BY <2>3, <2>4, <2>5 DEF InboxInv
  <1>5. CASE ~ Kept(e)
    <2>1. /\ request' = [request EXCEPT ![q] = [pc |-> "saving", event |-> e]]
          /\ acked' = acked
      BY <1>5 DEF Lookup
    <2>2. request' \in [Requests -> [pc : {"free", "saving", "queueing"},
                                     event : Events \union {NoEvent}]]
      BY <1>1, <2>1
    <2>3. InboxTypeOK'
      BY <1>2, <2>1, <2>2 DEF InboxInv, InboxTypeOK
    <2>4. RequestsKnown'
      BY <1>1, <1>2, <2>1 DEF InboxInv, RequestsKnown
    <2>5. AckedIsKept'
      BY <1>2, <2>1 DEF InboxInv, AckedIsKept
    <2> QED
      BY <2>3, <2>4, <2>5 DEF InboxInv
  <1> QED
    BY <1>4, <1>5

\* Freeing a request, with or without an answer for an event that is known.
LEMMA FreeKeepsInbox ==
  ASSUME InboxInv, NEW q \in Requests,
         request' = [request EXCEPT ![q] = Free], table' = table,
         \/ acked' = acked
         \/ /\ acked' = acked \union {request[q].event}
            /\ request[q].event \in Events
            /\ table[request[q].event] # "none",
         jobs' \in [Events -> 0 .. MaxJobs],
         faults' \in 0 .. MaxFaults
  PROVE  InboxInv'
  <1>1. /\ request \in [Requests -> [pc : {"free", "saving", "queueing"},
                                     event : Events \union {NoEvent}]]
        /\ acked \subseteq Events
        /\ table \in [Events -> EventStatus]
    BY DEF InboxInv, InboxTypeOK
  <1>2. Free \in [pc : {"free", "saving", "queueing"}, event : Events \union {NoEvent}]
        /\ Free.pc = "free"
    BY DEF Free
  <1>3. InboxTypeOK'
    BY <1>1, <1>2 DEF InboxTypeOK
  <1>4. RequestsKnown'
    BY <1>1, <1>2 DEF InboxInv, RequestsKnown
  <1>5. AckedIsKept'
    BY DEF InboxInv, AckedIsKept
  <1> QED
    BY <1>3, <1>4, <1>5 DEF InboxInv

LEMMA AnswerKeepsInbox ==
  ASSUME InboxInv, NEW q \in Requests, SaveEvent(q) \/ QueueEvent(q) \/ RequestFails(q)
  PROVE  InboxInv'
  <1>1. /\ request \in [Requests -> [pc : {"free", "saving", "queueing"},
                                     event : Events \union {NoEvent}]]
        /\ jobs \in [Events -> 0 .. MaxJobs]
        /\ table \in [Events -> EventStatus]
        /\ faults \in 0 .. MaxFaults
    BY DEF InboxInv, InboxTypeOK
  <1>2. CASE SaveEvent(q)
    <2> DEFINE e == request[q].event
    <2>1. request[q].pc = "saving" /\ e \in Events /\ UNCHANGED <<jobs, faults>>
      BY <1>2 DEF SaveEvent, InboxInv, RequestsKnown
    <2>2. CASE Kept(e)
      <3>1. /\ acked' = acked \union {request[q].event}
            /\ request' = [request EXCEPT ![q] = Free]
            /\ table' = table
        BY <1>2, <2>2 DEF SaveEvent, Acknowledge
      <3>2. table[e] # "none"
        BY <2>2 DEF Kept
      <3> QED
        BY <1>1, <2>1, <3>1, <3>2, FreeKeepsInbox
    <2>3. CASE ~ Kept(e)
      <3>1. /\ table' = [table EXCEPT ![e] = "stored"]
            /\ request' = [request EXCEPT ![q].pc = "queueing"]
            /\ acked' = acked
        BY <1>2, <2>3 DEF SaveEvent
      <3>2. table' \in [Events -> EventStatus] /\ table'[e] = "stored"
            /\ \A f \in Events : f # e => table'[f] = table[f]
            /\ \A g \in Events : table[g] # "none" => table'[g] # "none"
        BY <1>1, <2>1, <3>1 DEF EventStatus
      <3>3. /\ request' \in [Requests -> [pc : {"free", "saving", "queueing"},
                                          event : Events \union {NoEvent}]]
            /\ request'[q].pc = "queueing" /\ request'[q].event = e
            /\ \A p \in Requests : p # q => request'[p] = request[p]
        BY <1>1, <3>1
      <3>4. InboxTypeOK'
        BY <2>1, <3>1, <3>2, <3>3 DEF InboxInv, InboxTypeOK
      <3>5. RequestsKnown'
        BY <2>1, <3>2, <3>3 DEF InboxInv, RequestsKnown
      <3>6. AckedIsKept'
        BY <3>1, <3>2 DEF InboxInv, InboxTypeOK, AckedIsKept
      <3> QED
        BY <3>4, <3>5, <3>6 DEF InboxInv
    <2> QED
      BY <2>2, <2>3
  <1>3. CASE QueueEvent(q)
    <2>1. /\ request[q].event \in Events
          /\ table[request[q].event] # "none"
      BY <1>3 DEF QueueEvent, InboxInv, RequestsKnown
    <2>2. /\ AddJob(request[q].event)
          /\ acked' = acked \union {request[q].event}
          /\ request' = [request EXCEPT ![q] = Free]
          /\ UNCHANGED <<table, faults>>
      BY <1>3 DEF QueueEvent, Acknowledge
    <2>3. jobs' \in [Events -> 0 .. MaxJobs]
      BY <2>1, <2>2, AddJobTypes DEF InboxInv
    <2> QED
      BY <1>1, <2>1, <2>2, <2>3, FreeKeepsInbox
  <1>4. CASE RequestFails(q)
    <2>1. /\ request' = [request EXCEPT ![q] = Free]
          /\ UNCHANGED <<table, jobs, acked>>
          /\ faults < MaxFaults /\ faults' = faults + 1
      BY <1>4 DEF RequestFails, Fault
    <2>2. faults' \in 0 .. MaxFaults
      BY <1>1, <2>1, InboxAssumption
    <2> QED
      BY <1>1, <2>1, <2>2, FreeKeepsInbox
  <1> QED
    BY <1>2, <1>3, <1>4

-----------------------------------------------------------------------------
(* The books. *)

\* A final callback comes after its try has been settled.
FinalsFollow ==
    \A t \in Tries :
        charge[t] = "open" =>
            /\ table[Final(t)] = "none" /\ deleted[Final(t)] = 0
            /\ \A q \in Requests : request[q].event # Final(t)

IInv == TypeOK /\ InboxInv /\ FinalsFollow /\ OrdersFollowCredits /\ AttemptTellsItsTries

LEMMA FinalIsEvent ==
  \A t \in Tries : /\ Final(t) \in Events
                    /\ Final(t) # NoEvent
                    /\ \A u \in Tries : Final(u) = Final(t) => u = t
  BY WebhookAssumption, InboxAssumption DEF Final

LEMMA PayerIsBooking == \A t \in Tries : Payer(t) \in Bookings /\ AttemptOf[t] \in Attempts
  BY WebhookAssumption DEF Payer

\* transitionTo keeps the types of both tables.
LEMMA TransitionTypes ==
  ASSUME NEW b \in Bookings, NEW to \in BookingStatus,
         status \in [Bookings -> BookingStatus],
         history \in [Bookings -> Seq(HistoryRows)],
         TransitionTo(b, to)
  PROVE  /\ status' \in [Bookings -> BookingStatus]
         /\ history' \in [Bookings -> Seq(HistoryRows)]
  <1>1. HistoryRow(status[b], to) \in HistoryRows
    BY DEF HistoryRow, HistoryRows
  <1>2. Append(history[b], HistoryRow(status[b], to)) \in Seq(HistoryRows)
    BY <1>1
  <1> QED
    BY <1>2 DEF TransitionTo, rowVars

\* Taking a job leaves no fewer than none.
LEMMA TakeJobTypes ==
  ASSUME InboxTypeOK, NEW e \in Events, TakeJob(e)
  PROVE  jobs' \in [Events -> 0 .. MaxJobs]
  <1>1. jobs \in [Events -> 0 .. MaxJobs] /\ MaxJobs \in Nat
    BY InboxAssumption DEF InboxTypeOK
  <1>2. jobs[e] - 1 \in 0 .. MaxJobs
    BY <1>1 DEF TakeJob
  <1> QED
    BY <1>1, <1>2 DEF TakeJob

\* Marking an event processed forgets no event.
LEMMA MarkKeepsRows ==
  ASSUME InboxTypeOK, NEW e \in Events, MarkProcessed(e)
  PROVE  /\ table' \in [Events -> EventStatus]
         /\ \A f \in Events : table[f] # "none" => table'[f] # "none"
         /\ \A f \in Events : f # e => table'[f] = table[f]
         /\ table'[e] = "processed"
         /\ \A f \in Events : table'[f] = "pruned" => table[f] = "pruned"
  BY DEF InboxTypeOK, MarkProcessed, EventStatus

\* The attempts rest, and nothing is told of a try that was not told before.
LEMMA AttemptsRest ==
  ASSUME AttemptTellsItsTries, attempt' = attempt,
         \A t \in Tries : Told(t)' <=> Told(t),
         \A t \in Tries : Told(t) => charge'[t] = charge[t]
  PROVE  AttemptTellsItsTries'
  BY DEF AttemptTellsItsTries

\* A worker applies a final callback to the attempt.
LEMMA OutcomeTold ==
  ASSUME TypeOK, AttemptTellsItsTries, NEW t \in Tries, MarkProcessed(Final(t)),
         UNCHANGED <<charge, deleted>>,
         \/ charge[t] = "captured" /\ attempt' = [attempt EXCEPT ![AttemptOf[t]] = "succeeded"]
         \/ charge[t] = "declined" /\ attempt' = [attempt EXCEPT ![AttemptOf[t]] = "failed"]
  PROVE  AttemptTellsItsTries'
  <1>1. /\ AttemptOf[t] \in Attempts /\ Final(t) \in Events
        /\ attempt \in [Attempts -> {"requires_action", "succeeded", "failed"}]
        /\ InboxTypeOK
    BY PayerIsBooking, FinalIsEvent DEF TypeOK
  <1>2. Told(t)' /\ \A u \in Tries : u # t => (Told(u)' <=> Told(u))
    BY <1>1, MarkKeepsRows, FinalIsEvent DEF Told
  <1>3. ASSUME NEW a \in Attempts, a # AttemptOf[t]
        PROVE  /\ attempt'[a] = attempt[a]
               /\ \A u \in Tries : AttemptOf[u] = a => (Told(u)' <=> Told(u))
    BY <1>1, <1>2, <1>3
  <1>4. attempt'[AttemptOf[t]] = IF charge[t] = "captured" THEN "succeeded" ELSE "failed"
    BY <1>1
  <1>5. charge[t] \in {"captured", "declined"}
    OBVIOUS
  <1> QED
    BY <1>2, <1>3, <1>4, <1>5 DEF AttemptTellsItsTries

\* A step of the inbox that leaves the books and the gateway alone.
LEMMA InboxOnly ==
  ASSUME IInv, InboxInv',
         UNCHANGED <<rowVars, bookVars, due, orderJobs, charge>>,
         deleted' \in [Events -> 0 .. MaxDeletions],
         \A t \in Tries : Told(t)' <=> Told(t),
         \A t \in Tries : charge[t] = "open" =>
             /\ table'[Final(t)] = "none" /\ deleted'[Final(t)] = 0
             /\ \A q \in Requests : request'[q].event # Final(t)
  PROVE  IInv'
  <1>1. TypeOK'
    BY DEF IInv, TypeOK, InboxInv, rowVars, bookVars
  <1>2. FinalsFollow'
    BY DEF FinalsFollow
  <1>3. OrdersFollowCredits'
    BY DEF IInv, OrdersFollowCredits, bookVars
  <1>4. AttemptTellsItsTries'
    BY AttemptsRest DEF IInv, bookVars
  <1> QED
    BY <1>1, <1>2, <1>3, <1>4 DEF IInv

LEMMA InitIInv == Init => IInv
  <1> SUFFICES ASSUME Init PROVE IInv
    OBVIOUS
  <1>1. InboxTypeOK
    BY InboxAssumption DEF Init, InboxInit, InboxTypeOK, EventStatus, Free
  <1>2. RequestsKnown /\ AckedIsKept
    BY DEF Init, InboxInit, RequestsKnown, AckedIsKept, Free
  <1>3. history \in [Bookings -> Seq(HistoryRows)]
    <2>1. <<HistoryRow("pending", "pending"), HistoryRow("pending", "awaiting_payment")>>
             \in Seq(HistoryRows)
      BY DEF HistoryRow, HistoryRows, BookingStatus
    <2> QED
      BY <2>1 DEF Init
  <1>4. TypeOK
    BY <1>1, <1>3, WebhookAssumption DEF Init, TypeOK, BookingStatus
  <1>5. FinalsFollow
    <2>1. \A t \in Tries : table[Final(t)] = "none" /\ deleted[Final(t)] = 0
      BY FinalIsEvent DEF Init, InboxInit
    <2>2. \A t \in Tries : \A q \in Requests : request[q].event # Final(t)
      BY FinalIsEvent DEF Init, InboxInit, Free
    <2> QED
      BY <2>1, <2>2 DEF FinalsFollow
  <1>6. OrdersFollowCredits
    <2>1. ASSUME NEW b \in Bookings PROVE orderJobs[b] = 0 /\ due[b] = 0 /\ ledger[b] = 0
      BY DEF Init
    <2>2. ASSUME NEW b \in Bookings PROVE orderJobs[b] + due[b] <= ledger[b]
      BY <2>1
    <2> QED
      BY <2>2 DEF OrdersFollowCredits
  <1>7. \A t \in Tries : ~ Told(t)
    BY FinalIsEvent DEF Init, InboxInit, Told
  <1>8. AttemptTellsItsTries
    BY <1>7 DEF Init, AttemptTellsItsTries
  <1> QED
    BY <1>1, <1>2, <1>4, <1>5, <1>6, <1>8 DEF IInv, InboxInv

LEMMA NextIInv == IInv /\ [Next]_vars => IInv'
  <1> SUFFICES ASSUME IInv, [Next]_vars PROVE IInv'
    OBVIOUS
  <1>0. /\ InboxInv /\ InboxTypeOK /\ FinalsFollow
        /\ table \in [Events -> EventStatus]
        /\ jobs \in [Events -> 0 .. MaxJobs]
        /\ faults \in 0 .. MaxFaults
        /\ deleted \in [Events -> 0 .. MaxDeletions]
        /\ AttemptTellsItsTries
    BY DEF IInv, TypeOK, InboxInv, InboxTypeOK
  <1>1. ASSUME NEW t \in Tries, GatewaySettles(t) PROVE IInv'
    <2>1. /\ charge' \in [Tries -> {"open", "captured", "declined"}]
          /\ UNCHANGED <<rowVars, inboxVars, bookVars, due, orderJobs, deleted>>
          /\ \A u \in Tries : charge'[u] = "open" => charge[u] = "open"
          /\ charge[t] = "open" /\ \A v \in Tries : v # t => charge'[v] = charge[v]
      BY <1>1 DEF GatewaySettles, IInv, TypeOK
    <2>2. TypeOK'
      BY <2>1 DEF IInv, TypeOK, InboxTypeOK, rowVars, inboxVars, bookVars
    <2>3. InboxInv'
      BY <1>0, <2>1, RowsStayKnown DEF inboxVars
    <2>4. FinalsFollow'
      BY <1>0, <2>1 DEF FinalsFollow, inboxVars
    <2>5. OrdersFollowCredits'
      BY <2>1 DEF IInv, OrdersFollowCredits, bookVars
    <2>6. table[Final(t)] = "none" /\ deleted[Final(t)] = 0
      <3>1. charge[t] = "open"
        BY <2>1
      <3> QED
        BY <1>0, <3>1 DEF FinalsFollow
    <2>7. AttemptTellsItsTries'
      <3>1. attempt' = attempt /\ UNCHANGED <<table, deleted>>
        BY <2>1 DEF inboxVars, bookVars
      <3>2. \A v \in Tries : Told(v)' <=> Told(v)
        BY <3>1 DEF Told
      <3>3. ASSUME NEW v \in Tries, Told(v) PROVE charge'[v] = charge[v]
        <4>1. v # t
          BY <2>6, <3>3 DEF Told
        <4> QED
          BY <2>1, <4>1
      <3> QED
        BY <1>0, <3>1, <3>2, <3>3, AttemptsRest
    <2> QED
      BY <2>2, <2>3, <2>4, <2>5, <2>7 DEF IInv
  <1>2. ASSUME NEW b \in Bookings, Elsewhere(b) PROVE IInv'
    <2>1. PICK to \in {"failed", "confirmed"} : TransitionTo(b, to)
      BY <1>2 DEF Elsewhere
    <2>2. UNCHANGED <<inboxVars, bookVars, due, orderJobs, deleted, charge>>
      BY <1>2 DEF Elsewhere
    <2>3. status' \in [Bookings -> BookingStatus] /\ history' \in [Bookings -> Seq(HistoryRows)]
      <3>1. to \in BookingStatus
        BY DEF BookingStatus
      <3> QED
        BY <2>1, <3>1, TransitionTypes DEF IInv, TypeOK
    <2>4. TypeOK'
      BY <2>2, <2>3 DEF IInv, TypeOK, InboxTypeOK, inboxVars, bookVars
    <2>5. InboxInv'
      BY <1>0, <2>2, RowsStayKnown DEF inboxVars
    <2>6. FinalsFollow'
      BY <1>0, <2>2 DEF FinalsFollow, inboxVars
    <2>7. OrdersFollowCredits'
      BY <2>2 DEF IInv, OrdersFollowCredits, bookVars
    <2>8. AttemptTellsItsTries'
      BY <1>0, <2>2, AttemptsRest DEF Told, inboxVars, bookVars
    <2> QED
      BY <2>4, <2>5, <2>6, <2>7, <2>8 DEF IInv
  <1>3. ASSUME NEW q \in Requests, NEW e \in Events, Deliver(q, e) PROVE IInv'
    <2>1. InboxInv'
      BY <1>0, <1>3, LookupKeepsInbox DEF Deliver
    <2>2. /\ UNCHANGED <<rowVars, bookVars, due, orderJobs, deleted, charge>>
          /\ table' = table
          /\ request' = request \/ request' = [request EXCEPT ![q] = [pc |-> "saving", event |-> e]]
      BY <1>3 DEF Deliver, Lookup
    <2>3. \A t \in Tries : charge[t] = "open" => e # Final(t)
      BY <1>3 DEF Deliver, Final
    <2>4. request \in [Requests -> [pc : {"free", "saving", "queueing"},
                                    event : Events \union {NoEvent}]]
      BY <1>0 DEF InboxTypeOK
    <2>5. \A t \in Tries : charge[t] = "open" =>
             /\ table'[Final(t)] = "none" /\ deleted'[Final(t)] = 0
             /\ \A p \in Requests : request'[p].event # Final(t)
      BY <1>0, <2>2, <2>3, <2>4 DEF FinalsFollow
    <2> QED
      BY <1>0, <2>1, <2>2, <2>5, InboxOnly DEF Told
  <1>4. ASSUME NEW q \in Requests, Answer(q) PROVE IInv'
    <2>1. InboxInv'
      BY <1>0, <1>4, AnswerKeepsInbox DEF Answer
    <2>2. UNCHANGED <<rowVars, bookVars, due, orderJobs, deleted, charge>>
      BY <1>4 DEF Answer
    <2>3. request \in [Requests -> [pc : {"free", "saving", "queueing"},
                                    event : Events \union {NoEvent}]]
      BY <1>0 DEF InboxTypeOK
    <2>4. \A p \in Requests : request'[p].event \in {request[p].event, NoEvent}
      BY <1>4, <2>3 DEF Answer, SaveEvent, QueueEvent, RequestFails, Acknowledge, Free
    <2>5. table' = table \/ (/\ ~ Kept(request[q].event)
                             /\ table' = [table EXCEPT ![request[q].event] = "stored"])
      BY <1>4 DEF Answer, SaveEvent, QueueEvent, RequestFails
    <2>6. \A t \in Tries : charge[t] = "open" =>
             /\ table'[Final(t)] = "none" /\ deleted'[Final(t)] = 0
             /\ \A p \in Requests : request'[p].event # Final(t)
      <3>1. SUFFICES ASSUME NEW t \in Tries, charge[t] = "open"
                     PROVE  /\ table'[Final(t)] = "none" /\ deleted'[Final(t)] = 0
                            /\ \A p \in Requests : request'[p].event # Final(t)
        OBVIOUS
      <3>2. /\ table[Final(t)] = "none" /\ deleted[Final(t)] = 0
            /\ \A p \in Requests : request[p].event # Final(t)
            /\ Final(t) # NoEvent
        BY <1>0, <3>1, FinalIsEvent DEF FinalsFollow
      <3>3. request[q].event # Final(t)
        BY <3>2
      <3>4. table'[Final(t)] = table[Final(t)]
        BY <1>0, <2>5, <3>3, FinalIsEvent
      <3> QED
        BY <2>2, <2>4, <3>2, <3>4
    <2>7. \A t \in Tries : Told(t)' <=> Told(t)
      BY <1>0, <2>2, <2>5, FinalIsEvent DEF Told, Kept
    <2> QED
      BY <1>0, <2>1, <2>2, <2>6, <2>7, InboxOnly
  <1>5. ASSUME NEW e \in Events,
               Sweep(e) \/ SkipJob(e) \/ JobFails(e) \/ Prune(e) \/ ProcessPending(e)
        PROVE  IInv'
    <2>1. /\ UNCHANGED <<rowVars, bookVars, due, orderJobs, charge, request, acked>>
          /\ AddJob(e) \/ TakeJob(e) \/ jobs' = jobs
          /\ faults' = faults \/ (faults < MaxFaults /\ faults' = faults + 1)
      BY <1>5 DEF Sweep, SweepEvent, SkipJob, JobFails, Fault, Prune, ProcessPending
    <2>2. jobs' \in [Events -> 0 .. MaxJobs]
      BY <1>0, <2>1, AddJobTypes, TakeJobTypes
    <2>3. faults' \in 0 .. MaxFaults
      BY <1>0, <2>1, InboxAssumption
    <2>4. table' = table \/ (table[e] # "none" /\ \E s \in {"processed", "pruned"} :
                                                    table' = [table EXCEPT ![e] = s])
      BY <1>5 DEF Sweep, SweepEvent, SkipJob, JobFails, Prune, ProcessPending, MarkProcessed
    <2>5. /\ table' \in [Events -> EventStatus]
          /\ \A f \in Events : table[f] # "none" => table'[f] # "none"
          /\ \A f \in Events : table[f] = "none" => table'[f] = "none"
      BY <1>0, <2>4 DEF EventStatus
    <2>6. /\ deleted' \in [Events -> 0 .. MaxDeletions]
          /\ \A f \in Events : table[f] = "none" => deleted'[f] = deleted[f]
          /\ \A t \in Tries : Told(t)' <=> Told(t)
      <3>1. CASE Prune(e)
        <4>1. /\ table[e] = "processed" /\ table' = [table EXCEPT ![e] = "pruned"]
              /\ deleted[e] < MaxDeletions /\ deleted' = [deleted EXCEPT ![e] = @ + 1]
          BY <3>1 DEF Prune
        <4>2. deleted' \in [Events -> 0 .. MaxDeletions] /\ deleted'[e] = deleted[e] + 1
              /\ \A f \in Events : f # e => deleted'[f] = deleted[f] /\ table'[f] = table[f]
          BY <1>0, <4>1, WebhookAssumption
        <4>3. ASSUME NEW t \in Tries PROVE Told(t)' <=> Told(t)
          <5>1. Final(t) \in Events /\ deleted[e] \in Nat
            BY <1>0, FinalIsEvent
          <5>2. CASE Final(t) = e
            BY <4>1, <4>2, <5>1, <5>2 DEF Told
          <5>3. CASE Final(t) # e
            BY <4>2, <5>1, <5>3 DEF Told
          <5> QED
            BY <5>2, <5>3
        <4> QED
          BY <4>1, <4>2, <4>3
      <3>2. CASE ~ Prune(e)
        <4>1. \/ table' = table
              \/ e[2] = "pending" /\ table' = [table EXCEPT ![e] = "processed"]
          BY <1>5, <3>2 DEF Sweep, SweepEvent, SkipJob, JobFails, ProcessPending, MarkProcessed
        <4>2. deleted' = deleted
          BY <1>5, <3>2 DEF Sweep, SkipJob, JobFails, ProcessPending
        <4>3. \A t \in Tries : Final(t)[2] = "final"
          BY DEF Final
        <4>4. \A t \in Tries : table'[Final(t)] = table[Final(t)]
          BY <1>0, <4>1, <4>3, FinalIsEvent
        <4> QED
          BY <1>0, <4>2, <4>4 DEF Told
      <3> QED
        BY <3>1, <3>2
    <2>7. InboxInv'
      BY <1>0, <2>1, <2>2, <2>3, <2>5, RowsStayKnown
    <2>8. \A t \in Tries : charge[t] = "open" =>
             /\ table'[Final(t)] = "none" /\ deleted'[Final(t)] = 0
             /\ \A p \in Requests : request'[p].event # Final(t)
      BY <1>0, <2>1, <2>5, <2>6, FinalIsEvent DEF FinalsFollow
    <2> QED
      BY <2>1, <2>6, <2>7, <2>8, InboxOnly
  <1>6. ASSUME NEW t \in Tries, ProcessDeclined(t) PROVE IInv'
    <2>1. /\ Final(t) \in Events /\ AttemptOf[t] \in Attempts
          /\ TakeJob(Final(t)) /\ MarkProcessed(Final(t))
          /\ charge[t] = "declined"
          /\ attempt' = [attempt EXCEPT ![AttemptOf[t]] = "failed"]
          /\ UNCHANGED <<rowVars, payment, ledger, request, acked, faults, due, orderJobs, deleted, charge>>
      BY <1>6, FinalIsEvent, PayerIsBooking DEF ProcessDeclined
    <2>2. jobs' \in [Events -> 0 .. MaxJobs]
      BY <1>0, <2>1, TakeJobTypes
    <2>3. InboxInv'
      BY <1>0, <2>1, <2>2, MarkKeepsRows, RowsStayKnown
    <2>4. attempt' \in [Attempts -> {"requires_action", "succeeded", "failed"}]
      BY <2>1 DEF IInv, TypeOK
    <2>5. TypeOK'
      BY <2>1, <2>3, <2>4 DEF IInv, TypeOK, InboxInv, rowVars
    <2>6. FinalsFollow'
      BY <1>0, <2>1, MarkKeepsRows, FinalIsEvent DEF FinalsFollow
    <2>7. OrdersFollowCredits'
      BY <2>1 DEF IInv, OrdersFollowCredits
    <2>8. AttemptTellsItsTries'
      BY <1>0, <2>1, OutcomeTold DEF IInv, TypeOK
    <2> QED
      BY <2>3, <2>5, <2>6, <2>7, <2>8 DEF IInv
  <1>7. ASSUME NEW t \in Tries, ProcessCaptured(t) PROVE IInv'
    <2> DEFINE b == Payer(t)
    <2>1. /\ Final(t) \in Events /\ AttemptOf[t] \in Attempts /\ b \in Bookings
          /\ TakeJob(Final(t))
          /\ charge[t] = "captured"
          /\ UNCHANGED <<request, acked, faults, orderJobs, deleted, charge>>
      BY <1>7, FinalIsEvent, PayerIsBooking DEF ProcessCaptured
    <2>2. jobs' \in [Events -> 0 .. MaxJobs]
      BY <1>0, <2>1, TakeJobTypes
    <2>3. CASE MayCredit(t)
      <3>1. /\ TransitionTo(b, "paid")
            /\ attempt' = [attempt EXCEPT ![AttemptOf[t]] = "succeeded"]
            /\ payment' = [payment EXCEPT ![b] = "succeeded"]
            /\ ledger' = [ledger EXCEPT ![b] = @ + 1]
            /\ due' = [due EXCEPT ![b] = @ + 1]
            /\ MarkProcessed(Final(t))
        BY <1>7, <2>3 DEF ProcessCaptured, Credit
      <3>2. InboxInv'
        BY <1>0, <2>1, <2>2, <3>1, MarkKeepsRows, RowsStayKnown
      <3>3. status' \in [Bookings -> BookingStatus] /\ history' \in [Bookings -> Seq(HistoryRows)]
        <4>1. "paid" \in BookingStatus
          BY DEF BookingStatus
        <4> QED
          BY <2>1, <3>1, <4>1, TransitionTypes DEF IInv, TypeOK
      <3>4. /\ attempt \in [Attempts -> {"requires_action", "succeeded", "failed"}]
            /\ payment \in [Bookings -> {"pending", "succeeded"}]
            /\ ledger \in [Bookings -> Nat]
            /\ due \in [Bookings -> Nat]
            /\ orderJobs \in [Bookings -> Nat]
        BY DEF IInv, TypeOK
      <3>5. /\ attempt' \in [Attempts -> {"requires_action", "succeeded", "failed"}]
            /\ payment' \in [Bookings -> {"pending", "succeeded"}]
            /\ ledger' \in [Bookings -> Nat]
            /\ due' \in [Bookings -> Nat]
        <4>1. attempt' \in [Attempts -> {"requires_action", "succeeded", "failed"}]
          BY <3>1, <3>4
        <4>2. payment' \in [Bookings -> {"pending", "succeeded"}]
          BY <3>1, <3>4
        <4>3. ledger' \in [Bookings -> Nat]
          BY <2>1, <3>1, <3>4
        <4>4. due' \in [Bookings -> Nat]
          BY <2>1, <3>1, <3>4
        <4> QED
          BY <4>1, <4>2, <4>3, <4>4
      <3>6. TypeOK'
        BY <2>1, <3>2, <3>3, <3>5 DEF IInv, TypeOK, InboxInv
      <3>7. FinalsFollow'
        BY <1>0, <2>1, <3>1, MarkKeepsRows, FinalIsEvent DEF FinalsFollow
      <3>8. OrdersFollowCredits'
        BY <2>1, <3>1, <3>4 DEF IInv, OrdersFollowCredits
      <3>9. AttemptTellsItsTries'
        BY <1>0, <2>1, <3>1, OutcomeTold DEF IInv
      <3> QED
        BY <3>2, <3>6, <3>7, <3>8, <3>9 DEF IInv
    <2>4. CASE ~ MayCredit(t)
      <3>1. UNCHANGED <<rowVars, bookVars, table, due>>
        BY <1>7, <2>4 DEF ProcessCaptured
      <3>2. InboxInv'
        BY <1>0, <2>1, <2>2, <3>1, RowsStayKnown
      <3>3. \A u \in Tries : charge[u] = "open" =>
               /\ table'[Final(u)] = "none" /\ deleted'[Final(u)] = 0
               /\ \A p \in Requests : request'[p].event # Final(u)
        BY <1>0, <2>1, <3>1 DEF FinalsFollow
      <3> QED
        BY <1>0, <2>1, <3>1, <3>2, <3>3, InboxOnly DEF Told
    <2> QED
      BY <2>3, <2>4
  <1>8. ASSUME NEW b \in Bookings, QueueOrder(b) PROVE IInv'
    <2>1. /\ due[b] > 0
          /\ due' = [due EXCEPT ![b] = @ - 1]
          /\ \/ orderJobs' = [orderJobs EXCEPT ![b] = @ + 1] /\ faults' = faults
             \/ faults < MaxFaults /\ faults' = faults + 1 /\ orderJobs' = orderJobs
          /\ UNCHANGED <<rowVars, table, jobs, request, acked, bookVars, deleted, charge>>
      BY <1>8 DEF QueueOrder, Fault
    <2>2. /\ ledger \in [Bookings -> Nat]
          /\ due \in [Bookings -> Nat]
          /\ orderJobs \in [Bookings -> Nat]
      BY DEF IInv, TypeOK
    <2>3. faults' \in 0 .. MaxFaults
      BY <1>0, <2>1, InboxAssumption
    <2>4. InboxInv'
      BY <1>0, <2>1, <2>3, RowsStayKnown
    <2>5. due' \in [Bookings -> Nat] /\ orderJobs' \in [Bookings -> Nat]
      BY <2>1, <2>2
    <2>6. TypeOK'
      BY <2>1, <2>4, <2>5 DEF IInv, TypeOK, InboxInv, rowVars, bookVars
    <2>7. FinalsFollow'
      BY <1>0, <2>1 DEF FinalsFollow
    <2>8. OrdersFollowCredits'
      BY <2>1, <2>2 DEF IInv, OrdersFollowCredits, bookVars
    <2>9. AttemptTellsItsTries'
      BY <1>0, <2>1, AttemptsRest DEF Told, bookVars
    <2> QED
      BY <2>4, <2>6, <2>7, <2>8, <2>9 DEF IInv
  <1>9. CASE UNCHANGED vars
    <2>1. InboxInv'
      BY <1>0, <1>9, RowsStayKnown DEF vars, inboxVars
    <2>2. \A u \in Tries : charge[u] = "open" =>
             /\ table'[Final(u)] = "none" /\ deleted'[Final(u)] = 0
             /\ \A p \in Requests : request'[p].event # Final(u)
      BY <1>0, <1>9 DEF FinalsFollow, vars, inboxVars
    <2> QED
      BY <1>0, <1>9, <2>1, <2>2, InboxOnly DEF Told, vars, inboxVars
  <1> QED
    BY <1>1, <1>2, <1>3, <1>4, <1>5, <1>6, <1>7, <1>8, <1>9 DEF Next

LEMMA Inductive == Spec => []IInv
  BY InitIInv, NextIInv, PTL DEF Spec

\* The tables keep their types: no attempt, payment or event leaves its statuses.
THEOREM TypeCorrect == Spec => []TypeOK
  BY Inductive, PTL DEF IInv

\* No failure between the lookup, the insert, the job and the answer loses an
\* event the provider was told is received, for any number of requests at once.
THEOREM NothingAckedIsLost == Spec => []AckedIsKept
  <1>1. IInv => AckedIsKept
    BY DEF IInv, InboxInv
  <1> QED
    BY <1>1, Inductive, PTL

\* Every order job goes back to a credited capture, however many callbacks,
\* sweeps and failing workers there are.
THEOREM OrdersComeFromCredits == Spec => []OrdersFollowCredits
  <1>1. IInv => OrdersFollowCredits
    BY DEF IInv
  <1> QED
    BY <1>1, Inductive, PTL

\* An attempt never claims more than a callback of its own gateway order told, and
\* once told it is not open: through reordered and repeated callbacks, bookings that
\* may no longer be paid, and rows that are deleted and stored anew.
THEOREM AttemptsTellTheirTries == Spec => []AttemptTellsItsTries
  <1>1. IInv => AttemptTellsItsTries
    BY DEF IInv
  <1> QED
    BY <1>1, Inductive, PTL

-----------------------------------------------------------------------------
(* The refinement. *)

LEMMA RowsAreOfTries == \A r \in Rows : /\ r[1] \in Tries /\ r[2] \in Nat /\ r = <<r[1], r[2]>>
                                        /\ Final(r[1]) \in Events
  BY FinalIsEvent, WebhookAssumption DEF Rows

LEMMA InitIsUncredited == Init => Book!Init
  <1> SUFFICES ASSUME Init PROVE Book!Init
    OBVIOUS
  <1>1. Credited = {}
    BY RowsAreOfTries DEF Init, Credited
  <1> QED
    BY <1>1 DEF Init, Book!Init

\* A row counts as credited by what became of its try, of the rows deleted and of the
\* one in the table.
Counts(r, fate, deletions, row) ==
    fate = "captured" /\ (r[2] < deletions \/ (r[2] = deletions /\ row = "processed"))

LEMMA CreditedCounts ==
  /\ Credited = {r \in Rows : Counts(r, charge[r[1]], deleted[Final(r[1])], table[Final(r[1])])}
  /\ Credited' = {r \in Rows : Counts(r, charge'[r[1]], deleted'[Final(r[1])], table'[Final(r[1])])}
  BY DEF Credited, Counts

LEMMA CreditsRest ==
  ASSUME \A r \in Rows : Counts(r, charge'[r[1]], deleted'[Final(r[1])], table'[Final(r[1])])
                         <=> Counts(r, charge[r[1]], deleted[Final(r[1])], table[Final(r[1])])
  PROVE  Credited' = Credited
  BY CreditedCounts

\* Only the worker that applies a capture credits, and it credits the row at hand.
LEMMA StepCreditsOnce == IInv /\ [Next]_vars => [Book!Next]_<<Credited, ledger>>
  <1> SUFFICES ASSUME IInv, Next PROVE Book!Next \/ UNCHANGED <<Credited, ledger>>
    <2>1. UNCHANGED vars => UNCHANGED <<Credited, ledger>>
      BY DEF vars, inboxVars, bookVars, Credited
    <2> QED
      BY <2>1
  <1>0. /\ FinalsFollow
        /\ table \in [Events -> EventStatus]
        /\ deleted \in [Events -> 0 .. MaxDeletions]
        /\ charge \in [Tries -> {"open", "captured", "declined"}]
        /\ MaxDeletions \in Nat
    BY WebhookAssumption DEF IInv, TypeOK, InboxTypeOK
  <1>1. ASSUME NEW t \in Tries, GatewaySettles(t) PROVE UNCHANGED <<Credited, ledger>>
    <2>1. /\ charge[t] = "open" /\ UNCHANGED <<table, deleted, ledger>>
          /\ \A u \in Tries : u # t => charge'[u] = charge[u]
      BY <1>0, <1>1 DEF GatewaySettles, inboxVars, bookVars
    <2>2. table[Final(t)] = "none" /\ deleted[Final(t)] = 0
      BY <1>0, <2>1 DEF FinalsFollow
    <2>3. Credited' = Credited
      BY <2>1, <2>2, RowsAreOfTries, CreditsRest DEF Counts
    <2> QED
      BY <2>1, <2>3
  <1>2. ASSUME NEW t \in Tries, ProcessDeclined(t) PROVE UNCHANGED <<Credited, ledger>>
    <2>1. /\ charge[t] = "declined" /\ UNCHANGED <<charge, deleted, ledger>>
          /\ table' = [table EXCEPT ![Final(t)] = "processed"]
      BY <1>2 DEF ProcessDeclined, MarkProcessed
    <2>2. \A u \in Tries : u # t => table'[Final(u)] = table[Final(u)]
      BY <1>0, <2>1, FinalIsEvent
    <2>3. Credited' = Credited
      BY <2>1, <2>2, RowsAreOfTries, CreditsRest DEF Counts
    <2> QED
      BY <2>1, <2>3
  <1>3. ASSUME NEW t \in Tries, ProcessCaptured(t)
        PROVE  Book!Next \/ UNCHANGED <<Credited, ledger>>
    <2>1. CASE MayCredit(t)
      <3>1. /\ charge[t] = "captured" /\ charge' = charge /\ deleted' = deleted
            /\ table[Final(t)] = "stored"
            /\ table' = [table EXCEPT ![Final(t)] = "processed"]
            /\ ledger' = [ledger EXCEPT ![Payer(t)] = @ + 1]
        BY <1>3, <2>1 DEF ProcessCaptured, Credit, MarkProcessed
      <3>2. PICK n : n = deleted[Final(t)]
        OBVIOUS
      <3>3. n \in 0 .. MaxDeletions /\ <<t, n>> \in Rows
        <4>1. n \in 0 .. MaxDeletions
          BY <1>0, <3>2, FinalIsEvent
        <4>2. <<t, n>> \in Tries \X (0 .. MaxDeletions)
          BY <4>1
        <4> QED
          BY <4>1, <4>2 DEF Rows
      <3>4. <<t, n>> \notin Credited
        <4>1. ~ (n < n) /\ <<t, n>>[1] = t /\ <<t, n>>[2] = n
          BY <3>3
        <4>2. ~ Counts(<<t, n>>, charge[t], n, "stored")
          BY <4>1 DEF Counts
        <4> QED
          BY <3>1, <3>2, <4>1, <4>2, CreditedCounts
      <3>5. /\ table'[Final(t)] = "processed"
            /\ \A u \in Tries : u # t => table'[Final(u)] = table[Final(u)]
        BY <1>0, <3>1, FinalIsEvent
      <3>6. ASSUME NEW r \in Rows
            PROVE  Counts(r, charge'[r[1]], deleted'[Final(r[1])], table'[Final(r[1])])
                   <=> \/ Counts(r, charge[r[1]], deleted[Final(r[1])], table[Final(r[1])])
                       \/ r = <<t, n>>
        BY <3>1, <3>2, <3>5, RowsAreOfTries DEF Counts
      <3>7. Credited' = Credited \union {<<t, n>>}
        BY <3>3, <3>6, CreditedCounts
      <3>8. [r \in Rows |-> Payer(r[1])][<<t, n>>] = Payer(t)
        BY <3>3
      <3> QED
        BY <3>1, <3>3, <3>4, <3>7, <3>8 DEF Book!Next, Book!Apply
    <2>2. CASE ~ MayCredit(t)
      BY <1>3, <2>2 DEF ProcessCaptured, bookVars, Credited
    <2> QED
      BY <2>1, <2>2
  <1>4. ASSUME NEW b \in Bookings, Elsewhere(b) \/ QueueOrder(b)
        PROVE  UNCHANGED <<Credited, ledger>>
    BY <1>4 DEF Elsewhere, QueueOrder, inboxVars, bookVars, Credited
  <1>5. ASSUME NEW q \in Requests, NEW e \in Events, Deliver(q, e)
        PROVE  UNCHANGED <<Credited, ledger>>
    BY <1>5 DEF Deliver, Lookup, bookVars, Credited
  <1>6. ASSUME NEW q \in Requests, Answer(q) PROVE UNCHANGED <<Credited, ledger>>
    <2>1. UNCHANGED <<charge, deleted, ledger>>
      BY <1>6 DEF Answer, bookVars
    <2>2. \/ table' = table
          \/ /\ ~ Kept(request[q].event)
             /\ table' = [table EXCEPT ![request[q].event] = "stored"]
      BY <1>6 DEF Answer, SaveEvent, QueueEvent, RequestFails
    <2>3. \A f \in Events : table'[f] = "processed" <=> table[f] = "processed"
      BY <1>0, <2>2 DEF Kept
    <2>4. Credited' = Credited
      BY <2>1, <2>3, RowsAreOfTries, CreditsRest DEF Counts
    <2> QED
      BY <2>1, <2>4
  <1>7. ASSUME NEW e \in Events, Sweep(e) \/ SkipJob(e) \/ JobFails(e)
        PROVE  UNCHANGED <<Credited, ledger>>
    BY <1>7 DEF Sweep, SweepEvent, SkipJob, JobFails, bookVars, Credited
  <1>8. ASSUME NEW e \in Events, Prune(e) PROVE UNCHANGED <<Credited, ledger>>
    <2>1. /\ table[e] = "processed" /\ table' = [table EXCEPT ![e] = "pruned"]
          /\ deleted' = [deleted EXCEPT ![e] = @ + 1]
          /\ UNCHANGED <<charge, ledger>>
      BY <1>8 DEF Prune, bookVars
    <2>2. /\ table'[e] = "pruned" /\ deleted'[e] = deleted[e] + 1 /\ deleted[e] \in Nat
          /\ \A f \in Events : f # e => table'[f] = table[f] /\ deleted'[f] = deleted[f]
      BY <1>0, <2>1
    <2>3. ASSUME NEW r \in Rows
          PROVE  Counts(r, charge'[r[1]], deleted'[Final(r[1])], table'[Final(r[1])])
                 <=> Counts(r, charge[r[1]], deleted[Final(r[1])], table[Final(r[1])])
      <3>1. r[2] \in Nat /\ Final(r[1]) \in Events /\ charge'[r[1]] = charge[r[1]]
        BY <2>1, RowsAreOfTries
      <3>2. CASE Final(r[1]) = e
        <4>1. r[2] < deleted[e] + 1 <=> r[2] < deleted[e] \/ r[2] = deleted[e]
          BY <2>2, <3>1
        <4> QED
          BY <2>1, <2>2, <3>1, <3>2, <4>1 DEF Counts
      <3>3. CASE Final(r[1]) # e
        BY <2>2, <3>1, <3>3 DEF Counts
      <3> QED
        BY <3>2, <3>3
    <2>4. Credited' = Credited
      BY <2>3, CreditsRest
    <2> QED
      BY <2>1, <2>4
  <1>9. ASSUME NEW e \in Events, ProcessPending(e) PROVE UNCHANGED <<Credited, ledger>>
    <2>1. /\ e[2] = "pending" /\ table' = [table EXCEPT ![e] = "processed"]
          /\ UNCHANGED <<charge, deleted, ledger>>
      BY <1>9 DEF ProcessPending, MarkProcessed, bookVars
    <2>2. \A t \in Tries : Final(t) # e
      BY <2>1 DEF Final
    <2>3. \A t \in Tries : table'[Final(t)] = table[Final(t)]
      BY <1>0, <2>1, <2>2, FinalIsEvent
    <2>4. Credited' = Credited
      BY <2>1, <2>3, RowsAreOfTries, CreditsRest DEF Counts
    <2> QED
      BY <2>1, <2>4
  <1> QED
    BY <1>1, <1>2, <1>3, <1>4, <1>5, <1>6, <1>7, <1>8, <1>9 DEF Next

\* The inbox credits each stored row of a captured try to its booking's ledger
\* exactly once, for any number of deliveries, jobs, sweeps and failures, and so each
\* capture once until the retention deletes its row and the gateway repeats it: it
\* implements ExactlyOnce.
THEOREM CreditedExactlyOnce == Spec => CreditsOnce
  BY Inductive, InitIsUncredited, StepCreditsOnce, PTL DEF Spec, CreditsOnce, Book!Spec
=============================================================================
