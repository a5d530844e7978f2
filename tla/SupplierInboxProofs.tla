------------------------- MODULE SupplierInboxProofs -------------------------
(***************************************************************************)
(* For any number of schedule changes, requests, workers, jobs and         *)
(* failures: the stored schedule is current and the customer was told of   *)
(* it, unless two transactions of the order overlapped.                    *)
(***************************************************************************)
EXTENDS SupplierInbox, TLAPS

Jobs == [pc : {"idle", "asking", "comparing", "writing", "committing"},
         event : Events \union {NoEvent}, seen : Versions, old : Versions]

IsBusy(job) == job.pc # "idle"
HasAsked(job) == job.pc \in {"comparing", "writing", "committing"}
HasRead(job) == job.pc \in {"writing", "committing"}

\* Nobody knows of a change the airline has not made, and what was acknowledged is kept.
NoticesKnown ==
    /\ \A n \in Events : table[n] # "none" => n <= airline
    /\ \A q \in Requests : request[q].pc # "free" =>
          /\ request[q].event \in Events /\ request[q].event <= airline
          /\ request[q].pc = "queueing" => table[request[q].event] # "none"
    /\ AckedIsKept

\* Each job holds the lock of a notice of its own, and what Duffel answered is as new
\* as that notice.
JobsFit ==
    /\ \A w \in Workers : IsBusy(worker[w]) =>
          /\ worker[w].event \in Events
          /\ table[worker[w].event] = "stored"
          /\ HasAsked(worker[w]) => worker[w].event <= worker[w].seen /\ worker[w].seen <= airline
    /\ \A v, w \in Workers :
          IsBusy(worker[v]) /\ IsBusy(worker[w]) /\ worker[v].event = worker[w].event => v = w
    /\ segments <= airline

\* Without an overlap there is one job at a time, and the stored version never goes back.
Alone ==
    ~ overlapped =>
        /\ \A v, w \in Workers : IsBusy(worker[v]) /\ IsBusy(worker[w]) => v = w
        /\ \A n \in Events : table[n] = "processed" => n <= segments
        /\ \A w \in Workers : /\ HasAsked(worker[w]) => segments <= worker[w].seen
                              /\ HasRead(worker[w]) => worker[w].old = segments

\* Without a fault besides, the mail is ahead of the table only while its transaction
\* commits.
Told ==
    faults = 0 /\ ~ overlapped =>
        /\ \A w \in Workers : worker[w].pc = "committing" => told = DepartureOf[worker[w].seen]
        /\ (\A w \in Workers : worker[w].pc # "committing") => told = DepartureOf[segments]

SupplierInv == TypeOK /\ NoticesKnown /\ JobsFit /\ Alone /\ Told

Departures == {DepartureOf[v] : v \in Versions}

\* The types, with what TypeOK says of the busy workers left to JobsFit.
Types ==
    /\ InboxTypeOK
    /\ linked \in BOOLEAN /\ flagged \in BOOLEAN /\ overlapped \in BOOLEAN
    /\ segments \in Versions /\ airline \in Versions
    /\ worker \in [Workers -> Jobs]
    /\ told \in Departures

LEMMA TypesSplit == (Types /\ JobsFit => TypeOK) /\ (Types' /\ JobsFit' => TypeOK')
  BY DEF Types, JobsFit, TypeOK, Busy, IsBusy, Jobs, Departures

LEMMA TypesFollow == TypeOK => Types
  BY DEF Types, TypeOK, Jobs, Departures

LEMMA VersionsAreNumbers == Versions \subseteq Nat /\ Events \subseteq Nat /\ 0 \in Versions
  BY SupplierAssumption DEF Versions

LEMMA IdleIsJob == Idle \in Jobs /\ ~ IsBusy(Idle) /\ Idle.pc = "idle"
  BY SupplierAssumption DEF Idle, Jobs, IsBusy, Versions

LEMMA JobAdded ==
  ASSUME InboxTypeOK, NEW n \in Events, AddJob(n)
  PROVE  jobs' \in [Events -> 0 .. MaxJobs]
  <1>1. jobs \in [Events -> 0 .. MaxJobs] /\ MaxJobs \in Nat
    BY InboxAssumption DEF InboxTypeOK
  <1>2. (IF jobs[n] < MaxJobs THEN jobs[n] + 1 ELSE jobs[n]) \in 0 .. MaxJobs
    BY <1>1
  <1> QED
    BY <1>1, <1>2 DEF AddJob

-----------------------------------------------------------------------------
(* The steps of the airline, the controller and the sweep leave the jobs    *)
(* and the stored schedule alone.                                           *)

LEMMA JobsRest ==
  ASSUME SupplierInv, UNCHANGED <<segments, worker, told, overlapped, flagged>>,
         airline' \in Versions, airline' >= airline, linked' \in BOOLEAN, InboxTypeOK', NoticesKnown',
         faults' >= faults,
         \A n \in Events : /\ table[n] = "stored" => table'[n] = "stored"
                           /\ table'[n] = "processed" => table[n] = "processed"
  PROVE  SupplierInv'
  <1>0. Types /\ JobsFit /\ Alone /\ Told
    BY TypesFollow DEF SupplierInv
  <1>1. Types'
    BY <1>0 DEF Types
  <1>2. JobsFit'
    <2>1. segments' <= airline'
      BY <1>0, VersionsAreNumbers DEF JobsFit, Types
    <2>2. ASSUME NEW w \in Workers, IsBusy(worker[w])
          PROVE  /\ worker[w].event \in Events
                 /\ table'[worker[w].event] = "stored"
                 /\ HasAsked(worker[w]) => worker[w].event <= worker[w].seen /\ worker[w].seen <= airline'
      <3>1. worker[w] \in Jobs
        BY <1>0 DEF Types
      <3>2. worker[w].seen \in Nat /\ airline \in Nat /\ airline' \in Nat
        BY <1>0, <3>1, VersionsAreNumbers DEF Types, Jobs
      <3> QED
        BY <1>0, <2>2, <3>2 DEF JobsFit
    <2> QED
      BY <1>0, <2>1, <2>2 DEF JobsFit
  <1>3. Alone'
    BY <1>0 DEF Alone
  <1>4. Told'
    <2>1. faults \in Nat /\ faults' \in Nat
      BY <1>0, InboxAssumption DEF Types, InboxTypeOK
    <2> QED
      BY <1>0, <2>1 DEF Told
  <1> QED
    BY <1>1, <1>2, <1>3, <1>4, TypesSplit DEF SupplierInv

LEMMA StepOfAirline ==
  ASSUME SupplierInv, ChangeSchedule \/ LinkOrder
  PROVE  SupplierInv'
  <1>0. Types /\ NoticesKnown
    BY TypesFollow DEF SupplierInv
  <1>1. /\ UNCHANGED <<table, jobs, request, acked, faults, segments, flagged, worker, told, overlapped>>
        /\ airline' \in Versions /\ airline' >= airline /\ linked' \in BOOLEAN
    <2>1. airline \in 0 .. MaxChanges /\ MaxChanges \in Nat
      BY <1>0, SupplierAssumption DEF Types, Versions
    <2>2. CASE ChangeSchedule
      <3>1. /\ UNCHANGED <<table, jobs, request, acked, faults, segments, flagged, worker, told, overlapped, linked>>
            /\ airline < MaxChanges /\ airline' = airline + 1
        BY <2>2 DEF ChangeSchedule, inboxVars
      <3> QED
        BY <1>0, <2>1, <3>1 DEF Types, Versions
    <2>3. CASE LinkOrder
      <3>1. /\ UNCHANGED <<table, jobs, request, acked, faults, segments, flagged, worker, told, overlapped, airline>>
            /\ linked' = TRUE
        BY <2>3 DEF LinkOrder, inboxVars
      <3> QED
        BY <1>0, <2>1, <3>1 DEF Types
    <2> QED
      BY <2>2, <2>3
  <1>2. InboxTypeOK'
    BY <1>0, <1>1 DEF Types, InboxTypeOK
  <1>3. NoticesKnown'
    <2>1. \A n \in Events : n <= airline => n <= airline'
      BY <1>0, <1>1, VersionsAreNumbers DEF Types
    <2> QED
      BY <1>0, <1>1, <2>1 DEF NoticesKnown, AckedIsKept
  <1>4. faults' >= faults
    BY <1>0, <1>1, InboxAssumption DEF Types, InboxTypeOK
  <1> QED
    BY <1>1, <1>2, <1>3, <1>4, JobsRest

LEMMA StepOfController ==
  ASSUME SupplierInv,
         \/ \E q \in Requests : Answer(q) \/ \E n \in Events : Deliver(q, n)
         \/ \E n \in Events : Sweep(n)
  PROVE  SupplierInv'
  <1>0. Types /\ NoticesKnown /\ InboxTypeOK
    BY TypesFollow DEF SupplierInv, Types
  <1>1. UNCHANGED <<linked, segments, flagged, worker, told, overlapped, airline>>
    BY DEF Answer, Deliver, Sweep
  <1>2. linked' \in BOOLEAN /\ airline' \in Versions /\ airline' >= airline
    BY <1>0, <1>1, VersionsAreNumbers DEF Types
  <1>3. DEFINE Calls == [pc : {"free", "saving", "queueing"}, event : Events \union {NoEvent}]
               Goal == /\ InboxTypeOK' /\ NoticesKnown' /\ faults' >= faults
                       /\ \A n \in Events : /\ table[n] = "stored" => table'[n] = "stored"
                                            /\ table'[n] = "processed" => table[n] = "processed"
  <1>4. /\ request \in [Requests -> Calls] /\ acked \subseteq Events
        /\ table \in [Events -> EventStatus] /\ jobs \in [Events -> 0 .. MaxJobs]
        /\ faults \in 0 .. MaxFaults /\ MaxFaults \in Nat
        /\ Free \in Calls /\ Free.pc = "free"
    BY <1>0, InboxAssumption DEF InboxTypeOK, Free
  <1>5. ASSUME NEW n \in Events, SweepEvent(n) PROVE Goal
    <2>1. jobs' \in [Events -> 0 .. MaxJobs] /\ UNCHANGED <<table, request, acked, faults>>
      BY <1>0, <1>5, JobAdded DEF SweepEvent
    <2>2. NoticesKnown'
      BY <1>0, <1>1, <2>1 DEF NoticesKnown, AckedIsKept
    <2>3. faults' >= faults
      BY <1>4, <2>1
    <2> QED
      BY <1>0, <2>1, <2>2, <2>3 DEF InboxTypeOK
  <1>6. ASSUME NEW q \in Requests, NEW n \in Events, Lookup(q, n), n <= airline PROVE Goal
    <2>1. UNCHANGED <<table, jobs, faults>>
      BY <1>6 DEF Lookup
    <2>2. CASE Kept(n)
      <3>1. acked' = acked \union {n} /\ request' = request /\ table[n] # "none"
        BY <1>6, <2>2 DEF Lookup, Kept
      <3>2. NoticesKnown'
        BY <1>0, <1>1, <2>1, <3>1 DEF NoticesKnown, AckedIsKept
      <3> QED
        BY <1>0, <1>4, <2>1, <3>1, <3>2 DEF InboxTypeOK
    <2>3. CASE ~ Kept(n)
      <3>1. request' = [request EXCEPT ![q] = [pc |-> "saving", event |-> n]] /\ acked' = acked
        BY <1>6, <2>3 DEF Lookup
      <3>2. request' \in [Requests -> Calls]
        BY <1>4, <3>1
      <3>3. NoticesKnown'
        BY <1>0, <1>1, <1>4, <1>6, <2>1, <3>1 DEF NoticesKnown, AckedIsKept
      <3> QED
        BY <1>0, <1>4, <2>1, <3>1, <3>2, <3>3 DEF InboxTypeOK
    <2> QED
      BY <2>2, <2>3
  <1>7. ASSUME NEW q \in Requests, request' = [request EXCEPT ![q] = Free], table' = table,
               jobs' \in [Events -> 0 .. MaxJobs], faults' \in 0 .. MaxFaults, faults' >= faults,
               \/ acked' = acked
               \/ /\ acked' = acked \union {request[q].event}
                  /\ request[q].event \in Events /\ table[request[q].event] # "none"
        PROVE  Goal
    <2>1. request' \in [Requests -> Calls] /\ acked' \subseteq Events
      BY <1>4, <1>7
    <2>2. NoticesKnown'
      BY <1>0, <1>1, <1>4, <1>7 DEF NoticesKnown, AckedIsKept
    <2> QED
      BY <1>0, <1>4, <1>7, <2>1, <2>2 DEF InboxTypeOK
  <1>8. ASSUME NEW q \in Requests, SaveEvent(q) PROVE Goal
    <2>1. PICK e : e = request[q].event
      OBVIOUS
    <2>2. e \in Events /\ e <= airline /\ UNCHANGED <<jobs, faults>> /\ request[q].pc = "saving"
      BY <1>0, <1>8, <2>1 DEF SaveEvent, NoticesKnown
    <2>3. CASE Kept(e)
      <3>1. /\ acked' = acked \union {request[q].event} /\ request' = [request EXCEPT ![q] = Free]
            /\ table' = table /\ table[e] # "none"
        BY <1>8, <2>1, <2>3 DEF SaveEvent, Acknowledge, Kept
      <3>2. jobs' \in [Events -> 0 .. MaxJobs] /\ faults' \in 0 .. MaxFaults /\ faults' >= faults
        BY <1>4, <2>2
      <3> QED
        BY <1>7, <2>1, <2>2, <3>1, <3>2
    <2>4. CASE ~ Kept(e)
      <3>1. /\ table' = [table EXCEPT ![e] = "stored"] /\ acked' = acked
            /\ request' = [request EXCEPT ![q].pc = "queueing"]
        BY <1>8, <2>1, <2>4 DEF SaveEvent
      <3>2. /\ table'[e] = "stored" /\ \A n \in Events : n # e => table'[n] = table[n]
            /\ table' \in [Events -> EventStatus]
        BY <1>4, <2>2, <3>1 DEF EventStatus
      <3>3. /\ request'[q].pc = "queueing" /\ request'[q].event = e
            /\ \A p \in Requests : p # q => request'[p] = request[p]
            /\ request' \in [Requests -> Calls]
        BY <1>4, <2>1, <3>1
      <3>4. NoticesKnown'
        BY <1>0, <1>1, <1>4, <2>2, <3>1, <3>2, <3>3 DEF NoticesKnown, AckedIsKept
      <3>5. table[e] # "processed"
        BY <2>4 DEF Kept
      <3>6. InboxTypeOK' /\ faults' >= faults
        BY <1>0, <1>4, <2>2, <3>1, <3>2, <3>3 DEF InboxTypeOK
      <3> QED
        BY <3>2, <3>4, <3>5, <3>6
    <2> QED
      BY <2>3, <2>4
  <1>9. ASSUME NEW q \in Requests, QueueEvent(q) PROVE Goal
    <2>1. request[q].event \in Events /\ table[request[q].event] # "none"
      BY <1>0, <1>9 DEF QueueEvent, NoticesKnown
    <2>2. /\ jobs' \in [Events -> 0 .. MaxJobs] /\ UNCHANGED <<table, faults>>
          /\ acked' = acked \union {request[q].event} /\ request' = [request EXCEPT ![q] = Free]
      BY <1>0, <1>9, <2>1, JobAdded DEF QueueEvent, Acknowledge
    <2>3. faults' \in 0 .. MaxFaults /\ faults' >= faults
      BY <1>4, <2>2
    <2> QED
      BY <1>7, <2>1, <2>2, <2>3
  <1>10. ASSUME NEW q \in Requests, RequestFails(q) PROVE Goal
    <2>1. faults' \in 0 .. MaxFaults /\ faults' >= faults
      BY <1>4, <1>10 DEF RequestFails, Fault
    <2> QED
      BY <1>4, <1>7, <1>10, <2>1 DEF RequestFails
  <1>11. Goal
    BY <1>5, <1>6, <1>8, <1>9, <1>10 DEF Answer, Deliver, Sweep
  <1> QED
    BY <1>1, <1>2, <1>11, JobsRest

-----------------------------------------------------------------------------
(* The jobs. *)

\* A job goes on, or ends without a commit; the inbox keeps its rows.
LEMMA JobMoves ==
  ASSUME SupplierInv, NEW w \in Workers, NEW job \in Jobs, worker' = [worker EXCEPT ![w] = job],
         UNCHANGED <<table, request, acked, linked, segments, flagged, airline>>,
         jobs' \in [Events -> 0 .. MaxJobs], faults' \in 0 .. MaxFaults, faults' >= faults,
         overlapped' \in BOOLEAN, overlapped => overlapped', told' \in Departures,
         IsBusy(job) =>
             /\ job.event \in Events /\ table[job.event] = "stored"
             /\ \A v \in Workers : v # w /\ IsBusy(worker[v]) => worker[v].event # job.event
             /\ HasAsked(job) => job.event <= job.seen /\ job.seen <= airline
             /\ ~ overlapped' => \A v \in Workers : v # w => ~ IsBusy(worker[v]),
         HasAsked(job) /\ ~ overlapped' => segments <= job.seen,
         HasRead(job) /\ ~ overlapped' => job.old = segments,
         Told'
  PROVE  SupplierInv'
  <1>0. Types /\ NoticesKnown /\ JobsFit /\ Alone
    BY TypesFollow DEF SupplierInv
  <1>1. worker'[w] = job /\ \A v \in Workers : v # w => worker'[v] = worker[v]
    BY <1>0 DEF Types
  <1>2. Types'
    BY <1>0 DEF Types, InboxTypeOK
  <1>3. NoticesKnown'
    BY <1>0 DEF NoticesKnown, AckedIsKept
  <1>4. JobsFit'
    <2>1. ASSUME NEW v \in Workers, IsBusy(worker'[v])
          PROVE  /\ worker'[v].event \in Events
                 /\ table'[worker'[v].event] = "stored"
                 /\ HasAsked(worker'[v]) => worker'[v].event <= worker'[v].seen /\ worker'[v].seen <= airline'
      BY <1>0, <1>1, <2>1 DEF JobsFit
    <2>2. ASSUME NEW u \in Workers, NEW v \in Workers, IsBusy(worker'[u]), IsBusy(worker'[v]),
                 worker'[u].event = worker'[v].event
          PROVE  u = v
      BY <1>0, <1>1, <2>2 DEF JobsFit
    <2> QED
      BY <1>0, <2>1, <2>2 DEF JobsFit
  <1>5. Alone'
    <2>1. SUFFICES ASSUME ~ overlapped' PROVE Alone'
      BY DEF Alone
    <2>2. /\ \A u, v \in Workers : IsBusy(worker[u]) /\ IsBusy(worker[v]) => u = v
          /\ \A n \in Events : table[n] = "processed" => n <= segments
          /\ \A v \in Workers : /\ HasAsked(worker[v]) => segments <= worker[v].seen
                                /\ HasRead(worker[v]) => worker[v].old = segments
      BY <1>0, <2>1 DEF Alone
    <2>3. ASSUME NEW u \in Workers, NEW v \in Workers, IsBusy(worker'[u]), IsBusy(worker'[v])
          PROVE  u = v
      BY <1>1, <2>1, <2>2, <2>3
    <2>4. ASSUME NEW v \in Workers
          PROVE  /\ HasAsked(worker'[v]) => segments <= worker'[v].seen
                 /\ HasRead(worker'[v]) => worker'[v].old = segments
      BY <1>1, <2>1, <2>2
    <2> QED
      BY <2>2, <2>3, <2>4 DEF Alone
  <1> QED
    BY <1>2, <1>3, <1>4, <1>5, TypesSplit DEF SupplierInv

\* A job that has not written leaves the mail as it was, and so does one that fails.
LEMMA ToldStays ==
  ASSUME SupplierInv, NEW w \in Workers, NEW job \in Jobs, worker' = [worker EXCEPT ![w] = job],
         UNCHANGED <<segments, told>>, faults' \in Nat, faults' >= faults, overlapped => overlapped',
         job.pc # "committing",
         worker[w].pc = "committing" => faults' > 0
  PROVE  Told'
  <1>0. Types /\ Told /\ faults \in Nat
    BY TypesFollow, InboxAssumption DEF SupplierInv, Types, InboxTypeOK
  <1>1. worker'[w] = job /\ \A v \in Workers : v # w => worker'[v] = worker[v]
    BY <1>0 DEF Types
  <1>2. SUFFICES ASSUME faults' = 0, ~ overlapped' PROVE Told'
    BY DEF Told
  <1>3. faults = 0 /\ ~ overlapped /\ worker[w].pc # "committing"
    BY <1>0, <1>2
  <1>4. \A v \in Workers : /\ worker'[v].pc = "committing" <=> worker[v].pc = "committing"
                           /\ worker[v].pc = "committing" => worker'[v] = worker[v]
    BY <1>1, <1>3
  <1> QED
    BY <1>0, <1>3, <1>4 DEF Told

LEMMA StepOfTaking ==
  ASSUME SupplierInv, NEW w \in Workers, NEW n \in Events, TakeNotice(w, n)
  PROVE  SupplierInv'
  <1>0. Types /\ NoticesKnown /\ JobsFit /\ Alone /\ Told
    BY TypesFollow DEF SupplierInv
  <1>1. /\ worker[w] = Idle /\ jobs[n] > 0 /\ \A v \in Workers : worker[v].event # n
        /\ jobs' = [jobs EXCEPT ![n] = @ - 1]
        /\ UNCHANGED <<table, request, acked, faults, linked, segments, flagged, told, airline>>
    BY DEF TakeNotice
  <1>2. /\ jobs' \in [Events -> 0 .. MaxJobs] /\ faults' \in 0 .. MaxFaults /\ faults' >= faults
        /\ faults' \in Nat
    <2>1. jobs \in [Events -> 0 .. MaxJobs] /\ MaxJobs \in Nat /\ faults \in 0 .. MaxFaults /\ MaxFaults \in Nat
      BY <1>0, InboxAssumption DEF Types, InboxTypeOK
    <2>2. jobs[n] - 1 \in 0 .. MaxJobs
      BY <1>1, <2>1
    <2> QED
      BY <1>1, <2>1, <2>2
  <1>3. CASE table[n] = "stored" /\ linked
    <2>1. /\ worker' = [worker EXCEPT ![w] = [Idle EXCEPT !.pc = "asking", !.event = n]]
          /\ overlapped' = (overlapped \/ Busy # {})
      BY <1>3 DEF TakeNotice
    <2>2. PICK job : job = [Idle EXCEPT !.pc = "asking", !.event = n]
      OBVIOUS
    <2>3. job \in Jobs /\ job.pc = "asking" /\ job.event = n
      BY <2>2, IdleIsJob DEF Idle, Jobs
    <2>4. worker' = [worker EXCEPT ![w] = job]
      BY <2>1, <2>2
    <2>5. overlapped' \in BOOLEAN /\ (overlapped => overlapped')
      BY <1>0, <2>1 DEF Types
    <2>6. ~ overlapped' => \A v \in Workers : v # w => ~ IsBusy(worker[v])
      BY <2>1 DEF Busy, IsBusy
    <2>7. worker[w].pc # "committing" /\ job.pc # "committing" /\ ~ HasAsked(job) /\ ~ HasRead(job)
      BY <1>1, <2>3, IdleIsJob DEF HasAsked, HasRead
    <2>8. Told'
      BY <1>1, <1>2, <2>3, <2>4, <2>5, <2>7, ToldStays
    <2>9. told' \in Departures
      BY <1>0, <1>1 DEF Types
    <2> QED
      BY <1>1, <1>2, <1>3, <2>3, <2>4, <2>5, <2>6, <2>7, <2>8, <2>9, JobMoves
  <1>4. CASE ~ (table[n] = "stored" /\ linked)
    <2>1. UNCHANGED <<worker, overlapped>>
      BY <1>4 DEF TakeNotice
    <2>2. InboxTypeOK' /\ NoticesKnown'
      BY <1>0, <1>1, <1>2 DEF Types, InboxTypeOK, NoticesKnown, AckedIsKept
    <2>3. airline' \in Versions /\ airline' >= airline /\ linked' \in BOOLEAN
      BY <1>0, <1>1, VersionsAreNumbers DEF Types
    <2> QED
      BY <1>1, <1>2, <2>1, <2>2, <2>3, JobsRest
  <1> QED
    BY <1>3, <1>4

LEMMA StepOfAsking ==
  ASSUME SupplierInv, NEW w \in Workers, AskDuffel(w) \/ ReadSegments(w)
  PROVE  SupplierInv'
  <1>0. Types /\ NoticesKnown /\ JobsFit /\ Alone /\ worker[w] \in Jobs
    BY TypesFollow DEF SupplierInv, Types
  <1>1. UNCHANGED <<table, jobs, request, acked, faults, linked, segments, flagged, told, overlapped, airline>>
    BY DEF AskDuffel, ReadSegments, inboxVars
  <1>2. /\ jobs' \in [Events -> 0 .. MaxJobs] /\ faults' \in 0 .. MaxFaults /\ faults' >= faults
        /\ faults' \in Nat /\ overlapped' \in BOOLEAN /\ told' \in Departures
    BY <1>0, <1>1, InboxAssumption DEF Types, InboxTypeOK
  <1>3. /\ IsBusy(worker[w]) /\ worker[w].event \in Events /\ table[worker[w].event] = "stored"
        /\ \A v \in Workers : v # w /\ IsBusy(worker[v]) => worker[v].event # worker[w].event
        /\ ~ overlapped => \A v \in Workers : v # w => ~ IsBusy(worker[v])
        /\ worker[w].pc # "committing"
    BY <1>0 DEF AskDuffel, ReadSegments, IsBusy, JobsFit, Alone
  <1>4. CASE AskDuffel(w)
    <2>1. PICK job : job = [worker[w] EXCEPT !.pc = "comparing", !.seen = airline]
      OBVIOUS
    <2>2. /\ job \in Jobs /\ job.pc = "comparing" /\ job.event = worker[w].event /\ job.seen = airline
      BY <1>0, <2>1 DEF Jobs, Types
    <2>3. worker' = [worker EXCEPT ![w] = job]
      BY <1>4, <2>1 DEF AskDuffel
    <2>4. job.event <= job.seen /\ job.seen <= airline /\ segments <= job.seen
      <3>1. worker[w].event <= airline
        BY <1>0, <1>3 DEF NoticesKnown
      <3> QED
        BY <1>0, <2>2, <3>1, VersionsAreNumbers DEF JobsFit, Types
    <2>5. ~ HasRead(job)
      BY <2>2 DEF HasRead
    <2>6. Told'
      BY <1>1, <1>2, <1>3, <2>2, <2>3, ToldStays
    <2> QED
      BY <1>1, <1>2, <1>3, <2>2, <2>3, <2>4, <2>5, <2>6, JobMoves
  <1>5. CASE ReadSegments(w)
    <2>1. PICK job : job = [worker[w] EXCEPT !.pc = "writing", !.old = segments]
      OBVIOUS
    <2>2. /\ job \in Jobs /\ job.pc = "writing" /\ job.event = worker[w].event /\ job.seen = worker[w].seen
          /\ job.old = segments
      BY <1>0, <2>1 DEF Jobs, Types
    <2>3. worker' = [worker EXCEPT ![w] = job]
      BY <1>5, <2>1 DEF ReadSegments
    <2>4. HasAsked(worker[w])
      BY <1>5 DEF ReadSegments, HasAsked
    <2>5. job.event <= job.seen /\ job.seen <= airline /\ (~ overlapped => segments <= job.seen)
      BY <1>0, <1>3, <2>2, <2>4 DEF JobsFit, Alone
    <2>6. Told'
      BY <1>1, <1>2, <1>3, <2>2, <2>3, ToldStays
    <2> QED
      BY <1>1, <1>2, <1>3, <2>2, <2>3, <2>5, <2>6, JobMoves
  <1> QED
    BY <1>4, <1>5

LEMMA StepOfWriting ==
  ASSUME SupplierInv, NEW w \in Workers, WriteSegments(w)
  PROVE  SupplierInv'
  <1>0. Types /\ NoticesKnown /\ JobsFit /\ Alone /\ Told /\ worker[w] \in Jobs
    BY TypesFollow DEF SupplierInv, Types
  <1>1. /\ UNCHANGED <<table, jobs, request, acked, faults, linked, segments, flagged, overlapped, airline>>
        /\ worker[w].pc = "writing" /\ \A v \in Workers : worker[v].pc # "committing"
    BY DEF WriteSegments, inboxVars
  <1>2. /\ jobs' \in [Events -> 0 .. MaxJobs] /\ faults' \in 0 .. MaxFaults /\ faults' >= faults
        /\ overlapped' \in BOOLEAN
    BY <1>0, <1>1, InboxAssumption DEF Types, InboxTypeOK
  <1>3. /\ IsBusy(worker[w]) /\ worker[w].event \in Events /\ table[worker[w].event] = "stored"
        /\ \A v \in Workers : v # w /\ IsBusy(worker[v]) => worker[v].event # worker[w].event
        /\ ~ overlapped => \A v \in Workers : v # w => ~ IsBusy(worker[v])
        /\ HasAsked(worker[w]) /\ HasRead(worker[w])
    BY <1>0, <1>1 DEF IsBusy, HasAsked, HasRead, JobsFit, Alone
  <1>4. PICK job : job = [worker[w] EXCEPT !.pc = "committing"]
    OBVIOUS
  <1>5. /\ job \in Jobs /\ job.pc = "committing" /\ job.event = worker[w].event /\ job.seen = worker[w].seen
        /\ job.old = worker[w].old
    BY <1>0, <1>4 DEF Jobs
  <1>6. worker' = [worker EXCEPT ![w] = job]
    BY <1>4 DEF WriteSegments
  <1>7. told' = IF DepartureOf[job.seen] # DepartureOf[job.old] THEN DepartureOf[job.seen] ELSE told
    BY <1>5 DEF WriteSegments
  <1>8. told' \in Departures
    <2>1. job.seen \in Versions
      BY <1>5 DEF Jobs
    <2> QED
      BY <1>0, <1>7, <2>1 DEF Departures, Types
  <1>9. /\ job.event <= job.seen /\ job.seen <= airline
        /\ ~ overlapped => segments <= job.seen /\ job.old = segments
    BY <1>0, <1>3, <1>5 DEF JobsFit, Alone
  <1>10. Told'
    <2>1. SUFFICES ASSUME faults = 0, ~ overlapped PROVE Told'
      BY <1>1 DEF Told
    <2>2. told = DepartureOf[job.old]
      BY <1>0, <1>1, <1>9, <2>1 DEF Told
    <2>3. told' = DepartureOf[job.seen]
      BY <1>7, <2>2
    <2>4. worker'[w] = job /\ \A v \in Workers : v # w => worker'[v] = worker[v]
      BY <1>0, <1>6 DEF Types
    <2> QED
      BY <1>1, <1>5, <2>3, <2>4 DEF Told
  <1> QED
    BY <1>1, <1>2, <1>3, <1>5, <1>6, <1>8, <1>9, <1>10, JobMoves

LEMMA StepOfRollBack ==
  ASSUME SupplierInv, NEW w \in Workers, RollBack(w)
  PROVE  SupplierInv'
  <1>0. Types /\ NoticesKnown /\ JobsFit /\ Alone
    BY TypesFollow DEF SupplierInv
  <1>1. /\ UNCHANGED <<table, jobs, request, acked, linked, segments, flagged, told, overlapped, airline>>
        /\ faults < MaxFaults /\ faults' = faults + 1 /\ worker' = [worker EXCEPT ![w] = Idle]
    BY DEF RollBack, Fault
  <1>2. /\ jobs' \in [Events -> 0 .. MaxJobs] /\ faults' \in 0 .. MaxFaults /\ faults' >= faults
        /\ faults' \in Nat /\ faults' > 0 /\ overlapped' \in BOOLEAN /\ told' \in Departures
    BY <1>0, <1>1, InboxAssumption DEF Types, InboxTypeOK
  <1>3. ~ IsBusy(Idle) /\ ~ HasAsked(Idle) /\ ~ HasRead(Idle) /\ Idle \in Jobs /\ Idle.pc # "committing"
    BY IdleIsJob DEF HasAsked, HasRead
  <1>4. Told'
    BY <1>1, <1>2, <1>3, ToldStays
  <1> QED
    BY <1>1, <1>2, <1>3, <1>4, JobMoves

\* A commit: the stored version goes forward to what its job has seen.
LEMMA StepOfCommit ==
  ASSUME SupplierInv, NEW w \in Workers, Commit(w)
  PROVE  SupplierInv'
  <1>0. Types /\ NoticesKnown /\ JobsFit /\ Alone /\ Told /\ worker[w] \in Jobs
    BY TypesFollow DEF SupplierInv, Types
  <1>1. PICK e, seen : e = worker[w].event /\ seen = worker[w].seen
    OBVIOUS
  <1>2. /\ worker[w].pc = "committing" /\ segments' = seen /\ flagged' = TRUE
        /\ table' = [table EXCEPT ![e] = "processed"]
        /\ worker' = [worker EXCEPT ![w] = Idle]
        /\ UNCHANGED <<jobs, request, acked, faults, linked, told, overlapped, airline>>
    BY <1>1 DEF Commit
  <1>3. IsBusy(worker[w]) /\ HasAsked(worker[w])
    BY <1>2 DEF IsBusy, HasAsked
  <1>4. e \in Events /\ e <= seen /\ seen <= airline /\ table[e] = "stored"
    BY <1>0, <1>1, <1>3 DEF JobsFit
  <1>5. seen \in Versions /\ seen \in Nat /\ e \in Nat /\ segments \in Nat /\ airline \in Nat
    BY <1>0, <1>1, <1>4, VersionsAreNumbers DEF Jobs, Types
  <1>6. /\ table'[e] = "processed" /\ \A n \in Events : n # e => table'[n] = table[n]
        /\ table' \in [Events -> EventStatus]
    BY <1>0, <1>2, <1>4 DEF Types, InboxTypeOK, EventStatus
  <1>7. /\ worker'[w] = Idle /\ \A v \in Workers : v # w => worker'[v] = worker[v]
        /\ worker' \in [Workers -> Jobs]
    BY <1>0, <1>2, IdleIsJob DEF Types
  <1>8. ~ IsBusy(Idle) /\ ~ HasAsked(Idle) /\ ~ HasRead(Idle) /\ Idle.pc # "committing"
    BY IdleIsJob DEF HasAsked, HasRead
  <1>9. Types'
    BY <1>0, <1>2, <1>5, <1>6, <1>7 DEF Types, InboxTypeOK
  <1>10. NoticesKnown'
    BY <1>0, <1>2, <1>4, <1>6 DEF NoticesKnown, AckedIsKept
  <1>11. \A v \in Workers : v # w /\ IsBusy(worker[v]) => worker[v].event # e
    BY <1>0, <1>1, <1>3 DEF JobsFit
  <1>12. JobsFit'
    <2>1. ASSUME NEW v \in Workers, IsBusy(worker'[v])
          PROVE  /\ v # w /\ worker'[v] = worker[v]
                 /\ worker'[v].event \in Events
                 /\ table'[worker'[v].event] = "stored"
                 /\ HasAsked(worker'[v]) => worker'[v].event <= worker'[v].seen /\ worker'[v].seen <= airline'
      BY <1>0, <1>2, <1>6, <1>7, <1>8, <1>11, <2>1 DEF JobsFit
    <2> QED
      BY <1>0, <1>2, <1>4, <2>1 DEF JobsFit
  <1>13. Alone'
    <2>1. SUFFICES ASSUME ~ overlapped PROVE Alone'
      BY <1>2 DEF Alone
    <2>2. /\ segments <= seen /\ \A v \in Workers : v # w => ~ IsBusy(worker[v])
          /\ \A n \in Events : table[n] = "processed" => n <= segments
      BY <1>0, <1>1, <1>3, <2>1 DEF Alone
    <2>3. \A n \in Events : table'[n] = "processed" => n <= segments'
      <3>1. ASSUME NEW n \in Events, table'[n] = "processed" PROVE n <= seen
        <4>1. n \in Nat
          BY VersionsAreNumbers
        <4> QED
          BY <1>4, <1>5, <1>6, <2>2, <3>1, <4>1
      <3> QED
        BY <1>2, <3>1
    <2>4. \A v \in Workers : ~ IsBusy(worker'[v]) /\ ~ HasAsked(worker'[v]) /\ ~ HasRead(worker'[v])
      BY <1>7, <1>8, <2>2 DEF IsBusy, HasAsked, HasRead
    <2> QED
      BY <2>3, <2>4 DEF Alone
  <1>14. Told'
    <2>1. SUFFICES ASSUME faults = 0, ~ overlapped PROVE Told'
      BY <1>2 DEF Told
    <2>2. told = DepartureOf[seen]
      BY <1>0, <1>1, <1>2, <2>1 DEF Told
    <2>3. \A v \in Workers : v # w => worker[v].pc # "committing"
      BY <1>0, <1>3, <2>1 DEF Alone, IsBusy
    <2> QED
      BY <1>2, <1>7, <1>8, <2>2, <2>3 DEF Told
  <1> QED
    BY <1>9, <1>10, <1>12, <1>13, <1>14, TypesSplit DEF SupplierInv

-----------------------------------------------------------------------------
LEMMA SupplierInit == Init => SupplierInv
  <1> SUFFICES ASSUME Init PROVE SupplierInv
    OBVIOUS
  <1>1. /\ InboxInit /\ linked = FALSE /\ segments = 0 /\ flagged = FALSE /\ worker = [w \in Workers |-> Idle]
        /\ told = DepartureOf[0] /\ overlapped = FALSE /\ airline = 0
    BY DEF Init
  <1>2. /\ \A w \in Workers : worker[w] = Idle
        /\ ~ IsBusy(Idle) /\ ~ HasAsked(Idle) /\ ~ HasRead(Idle) /\ Idle.pc # "committing"
        /\ worker \in [Workers -> Jobs]
    BY <1>1, IdleIsJob DEF HasAsked, HasRead
  <1>3. InboxTypeOK
    BY <1>1, InboxAssumption DEF InboxInit, InboxTypeOK, EventStatus, Free
  <1>4. Types
    <2>1. told \in Departures
      BY <1>1, VersionsAreNumbers DEF Departures
    <2> QED
      BY <1>1, <1>2, <1>3, <2>1, VersionsAreNumbers DEF Types
  <1>5. NoticesKnown
    BY <1>1 DEF InboxInit, NoticesKnown, AckedIsKept, Free
  <1>6. JobsFit
    BY <1>1, <1>2 DEF JobsFit
  <1>7. Alone
    BY <1>1, <1>2 DEF InboxInit, Alone
  <1>8. Told
    BY <1>1, <1>2 DEF Told
  <1> QED
    BY <1>4, <1>5, <1>6, <1>7, <1>8, TypesSplit DEF SupplierInv

LEMMA SupplierStep ==
  ASSUME SupplierInv, [Next]_vars
  PROVE  SupplierInv'
  <1>1. CASE Next
    BY <1>1, StepOfAirline, StepOfController, StepOfTaking, StepOfAsking, StepOfWriting, StepOfCommit,
       StepOfRollBack
       DEF Next
  <1>2. CASE UNCHANGED vars
    <2>1. UNCHANGED <<table, jobs, request, acked, faults, linked, segments, flagged, worker, told,
                      overlapped, airline>>
      BY <1>2 DEF vars, inboxVars
    <2>2. Types /\ NoticesKnown
      BY TypesFollow DEF SupplierInv
    <2>3. InboxTypeOK' /\ NoticesKnown'
      BY <2>1, <2>2 DEF Types, InboxTypeOK, NoticesKnown, AckedIsKept
    <2>4. airline' \in Versions /\ airline' >= airline /\ linked' \in BOOLEAN /\ faults' >= faults
      BY <2>1, <2>2, VersionsAreNumbers, InboxAssumption DEF Types, InboxTypeOK
    <2> QED
      BY <2>1, <2>3, <2>4, JobsRest
  <1> QED
    BY <1>1, <1>2

LEMMA SupplierInductive == Spec => []SupplierInv
  <1>1. SupplierInv /\ [Next]_vars => SupplierInv'
    BY SupplierStep
  <1> QED
    BY <1>1, SupplierInit, PTL DEF Spec

-----------------------------------------------------------------------------
\* However notices are repeated, reordered, delayed, swept and retried, once each change
\* so far has been handled the stored schedule is the one the airline flies, unless two
\* transactions of the order were open at once: a job asks Duffel after it has locked its
\* notice, so what it writes is as new as the notice.
THEOREM SettledIsCurrent == Spec => []SettledMeansCurrent
  <1>1. SupplierInv => SettledMeansCurrent
    <2> SUFFICES ASSUME SupplierInv PROVE SettledMeansCurrent
      OBVIOUS
    <2>1. TypeOK /\ Types /\ JobsFit /\ Alone
      BY TypesFollow DEF SupplierInv
    <2>2. ASSUME Settled, ~ overlapped PROVE segments = airline
      <3>1. airline \in 0 .. MaxChanges /\ segments \in Nat /\ segments <= airline /\ MaxChanges \in Nat
        BY <2>1, VersionsAreNumbers, SupplierAssumption DEF Types, JobsFit, Versions
      <3>2. CASE airline = 0
        BY <3>1, <3>2
      <3>3. CASE airline # 0
        <4>1. airline \in Events /\ airline \in 1 .. airline
          BY <3>1, <3>3, SupplierAssumption
        <4>2. table[airline] = "processed"
          BY <2>2, <4>1 DEF Settled
        <4>3. airline <= segments
          BY <2>1, <2>2, <4>1, <4>2 DEF Alone
        <4> QED
          BY <3>1, <4>3
      <3> QED
        BY <3>2, <3>3
    <2> QED
      BY <2>1, <2>2 DEF SettledMeansCurrent
  <1> QED
    BY <1>1, SupplierInductive, PTL

\* The schedule mail goes out before its transaction commits, yet between transactions it
\* agrees with the table, as long as none failed and none overlapped another.
THEOREM MailAgrees == Spec => []MailAgreesWithTable
  <1>1. SupplierInv => MailAgreesWithTable
    <2> SUFFICES ASSUME SupplierInv, faults = 0, ~ overlapped, Busy = {}
                 PROVE  told = DepartureOf[segments]
      BY DEF MailAgreesWithTable
    <2>1. \A w \in Workers : worker[w].pc # "committing"
      BY DEF Busy
    <2> QED
      BY <2>1 DEF SupplierInv, Told
  <1> QED
    BY <1>1, SupplierInductive, PTL

\* What Duffel has been told is received is in the table, whatever fails between the
\* steps of a request.
THEOREM NoticesAreKept == Spec => []AckedIsKept
  <1>1. SupplierInv => AckedIsKept
    BY DEF SupplierInv, NoticesKnown
  <1> QED
    BY <1>1, SupplierInductive, PTL
=============================================================================
