---------------------------- MODULE PagesProofs -----------------------------
(***************************************************************************)
(* The pages before a booking and those of the console.                    *)
(*                                                                         *)
(* For any number of searches, queries, booking requests and seconds: the  *)
(* bucket covers what is spent, the cache serves no expired offer, and the *)
(* page shows what was searched for.  For any party: what is saved before  *)
(* the payment makes an order that fits the offer.                         *)
(*                                                                         *)
(* For any number of admins, rules and tickets: one markup rule is active, *)
(* and the audit log follows a ticket without a gap.  For any table, page  *)
(* size and filters: a list shows what its controls say, and who turns its *)
(* pages misses no row.                                                    *)
(***************************************************************************)
EXTENDS FlightSearch, Passengers, AdminConsole, AdminLists, FiniteSetTheorems, TLAPS

Everyone == Requests \union Callers

Steps == {"idle", "arrived", "limiting", "spending", "calling", "caching", "storing",
          "answered", "refused"}

Rows == [pc : Steps, query : Queries \union {Nothing}, open : BOOLEAN, late : BOOLEAN,
         before : SUBSET Requests, dies : Int, ttl : Nat, at : Nat, left : Nat, seen : Nat]

Entries == [dies : Int, until : Int, delay : Int]
Stored == [key : Queries \union {Nothing}, at : Nat, offers : Queries \union {Nothing}]

PageStates == [query : Queries \union {Nothing}, sent : Queries \union {Nothing},
               shown : Queries \union {Nothing}, loading : BOOLEAN]

SearchTypes ==
    /\ now \in Nat /\ spent \in Nat /\ lost \in Nat /\ crossed \in BOOLEAN
    /\ bucket \in [tokens : 0 .. Capacity, last : Nat]
    /\ cache \in [Queries -> Entries \union {Nothing}]
    /\ request \in [Everyone -> Rows]
    /\ page \in PageStates
    /\ session \in Stored \union {Nothing}

\* The calls made and what is left are covered, but for the calls the bucket has
\* forgotten: in the bucket, and in what a caller that read it is about to write.
Covered(sum, at) == sum <= Capacity + Refill * at + lost

BudgetRow(row) ==
    row.pc = "spending" => /\ row.at <= now /\ row.left < Capacity /\ row.seen <= spent
                           /\ Covered(row.seen + 1 + row.left, row.at)

BudgetInv ==
    /\ bucket.last <= now
    /\ Covered(spent + bucket.tokens, bucket.last)
    /\ \A x \in Everyone : BudgetRow(request[x])

\* An entry ends with its offers, or as much later as it came to Redis.
CacheRow(row) == row.pc = "storing" => 2 * row.ttl <= row.dies - row.at
CacheEntry(e) == e # Nothing => e.until <= e.dies + e.delay

CacheInv ==
    /\ \A x \in Everyone : CacheRow(request[x])
    /\ \A q \in Queries : CacheEntry(cache[q])

\* The search the page waits for: it is the last, and those that are out are older.
IsLast(r) ==
    /\ request[r].open /\ ~ request[r].late /\ request[r].query = page.sent
    /\ Out \subseteq request[r].before \union {r}
    /\ \A x \in Everyone : r \notin request[x].before

\* ... or it is over, and whatever comes now comes late.
LastIsOver ==
    /\ \A r \in Out : request[r].late
    /\ crossed \/ page.shown \in {Nothing, page.sent}

PageInv ==
    /\ page.loading => Out # {}
    /\ page.query \notin Incomplete => page.sent = page.query
    /\ session # Nothing => session.at <= now /\ session.offers = session.key
    /\ LastIsOver \/ \E r \in Requests : IsLast(r)

SearchInv == SearchTypes /\ BudgetInv /\ CacheInv /\ PageInv

-----------------------------------------------------------------------------
LEMMA IdleIsRow ==
  /\ Idle \in Rows /\ Idle.pc = "idle" /\ Idle.open = FALSE /\ Idle.late = FALSE
  /\ Idle.before = {} /\ Idle.query = Nothing
  BY DEF Idle, Rows, Steps

\* A server's step in the request of x: the page knows nothing of it.
Serves(x, row) ==
    /\ request' = [request EXCEPT ![x] = row]
    /\ row \in Rows /\ BudgetRow(row)' /\ CacheRow(row)
    /\ row.before \subseteq request[x].before
    /\ x \in Requests => /\ row.query = request[x].query /\ row.open = request[x].open
                         /\ row.late = request[x].late /\ row.before = request[x].before

\* The refill of the bucket is the same in one go and in several.
LEMMA RefillAdds ==
  ASSUME NEW s \in Nat, NEW t \in Nat, s <= t
  PROVE  Refill * s \in Nat /\ Refill * t \in Nat /\ (t - s) * Refill = Refill * t - Refill * s
  <1>1. Refill \in Nat
    BY SearchAssumption
  <1>2. t - s \in Nat /\ t = s + (t - s)
    OBVIOUS
  <1>3. \A d \in Nat : Refill * (s + d) = Refill * s + d * Refill
    BY <1>1
  <1>4. Refill * t = Refill * s + (t - s) * Refill
    BY <1>2, <1>3
  <1> QED
    BY <1>1, <1>2, <1>4

\* What was covered stays so.
LEMMA CoveredStill ==
  ASSUME SearchTypes, lost' \in Nat, lost <= lost', spent' \in Nat, spent <= spent', now' \in Nat, now <= now',
         NEW row \in Rows, BudgetRow(row)
  PROVE  BudgetRow(row)'
  <1> SUFFICES ASSUME row.pc = "spending"
               PROVE  BudgetRow(row)'
    BY DEF BudgetRow
  <1>1. /\ row.at <= now /\ row.left < Capacity /\ row.seen <= spent
        /\ row.seen + 1 + row.left <= Capacity + Refill * row.at + lost
        /\ row.seen \in Nat /\ row.left \in Nat /\ row.at \in Nat /\ now \in Nat /\ spent \in Nat /\ lost \in Nat
    BY DEF BudgetRow, Covered, SearchTypes, Rows
  <1>2. Capacity \in Nat /\ Refill * row.at \in Nat
    <2>1. PICK n \in Nat : n = row.at /\ n <= n
      BY <1>1
    <2>2. Refill * n \in Nat
      BY <2>1, RefillAdds
    <2> QED
      BY <2>1, <2>2, SearchAssumption
  <1>3. PICK refill \in Nat : refill = Refill * row.at
    BY <1>2
  <1>4. row.at <= now' /\ row.seen <= spent'
    BY <1>1
  <1>5. row.seen + 1 + row.left <= Capacity + refill + lost'
    BY <1>1, <1>2, <1>3
  <1> QED
    BY <1>1, <1>3, <1>4, <1>5 DEF BudgetRow, Covered

LEMMA ServerKeeps ==
  ASSUME SearchInv, NEW x \in Everyone, NEW row, Serves(x, row), UNCHANGED <<now, page, session, crossed>>,
         bucket' \in [tokens : 0 .. Capacity, last : Nat], spent' \in Nat, lost' \in Nat,
         spent <= spent', lost <= lost', bucket'.last <= now, (Covered(spent + bucket.tokens, bucket.last))',
         cache' \in [Queries -> Entries \union {Nothing}], \A q \in Queries : CacheEntry(cache'[q])
  PROVE  SearchInv'
  <1>0. SearchTypes /\ BudgetInv /\ CacheInv /\ PageInv /\ request \in [Everyone -> Rows]
    BY DEF SearchInv, SearchTypes
  <1>1. /\ row \in Rows /\ BudgetRow(row)' /\ CacheRow(row) /\ row.before \subseteq request[x].before
        /\ request' = [request EXCEPT ![x] = row]
        /\ x \in Requests => /\ row.query = request[x].query /\ row.open = request[x].open
                             /\ row.late = request[x].late /\ row.before = request[x].before
    BY DEF Serves
  <1>2. /\ request' \in [Everyone -> Rows] /\ request'[x] = row
        /\ \A y \in Everyone : y # x => request'[y] = request[y]
    BY <1>0, <1>1
  <1>3. SearchTypes'
    BY <1>0, <1>2 DEF SearchTypes
  <1>4. ASSUME NEW y \in Everyone
        PROVE  BudgetRow(request[y])'
    <2>1. CASE y = x
      BY <1>1, <1>2, <2>1 DEF BudgetRow, Covered
    <2>2. CASE y # x
      <3>1. BudgetRow(request[y]) /\ request[y] \in Rows /\ request'[y] = request[y] /\ now' \in Nat /\ now <= now'
        BY <1>0, <1>2, <2>2 DEF BudgetInv, SearchTypes
      <3> QED
        BY <1>0, <3>1, CoveredStill
    <2> QED
      BY <2>1, <2>2
  <1>5. BudgetInv'
    BY <1>4 DEF BudgetInv
  <1>6. CacheInv'
    BY <1>0, <1>1, <1>2 DEF CacheInv, CacheRow
  <1>7. \A r \in Requests : r \in Everyone /\ request'[r].open = request[r].open /\ request'[r].late = request[r].late
                            /\ request'[r].query = request[r].query /\ request'[r].before = request[r].before
    BY <1>1, <1>2 DEF Everyone
  <1>8. Out' = Out
    BY <1>7 DEF Out
  <1>9. ASSUME NEW r \in Requests, IsLast(r) PROVE IsLast(r)'
    <2>1. \A y \in Everyone : r \notin request'[y].before
      BY <1>1, <1>2, <1>9 DEF IsLast
    <2> QED
      BY <1>7, <1>8, <1>9, <2>1 DEF IsLast
  <1>10. LastIsOver => LastIsOver'
    BY <1>7, <1>8 DEF LastIsOver, Out
  <1>11. PageInv'
    BY <1>0, <1>8, <1>9, <1>10 DEF PageInv
  <1> QED
    BY <1>3, <1>5, <1>6, <1>11 DEF SearchInv
\* A step of the request of r that spends nothing and stores nothing.
LEMMA RequestGoesOn ==
  ASSUME SearchInv, NEW r \in Requests, NEW row, request' = [request EXCEPT ![r] = row],
         row \in Rows, row.pc # "spending", CacheRow(row),
         row.query = request[r].query, row.open = request[r].open,
         row.late = request[r].late, row.before = request[r].before,
         UNCHANGED <<now, page, session, crossed, bucket, spent, lost, cache>>
  PROVE  SearchInv'
  <1>0. SearchTypes /\ BudgetInv /\ CacheInv /\ r \in Everyone
    BY DEF SearchInv, Everyone
  <1>1. Serves(r, row)
    BY DEF Serves, BudgetRow
  <1>2. /\ bucket' \in [tokens : 0 .. Capacity, last : Nat] /\ spent' \in Nat /\ lost' \in Nat
        /\ spent <= spent' /\ lost <= lost' /\ bucket'.last <= now /\ (Covered(spent + bucket.tokens, bucket.last))'
        /\ cache' \in [Queries -> Entries \union {Nothing}] /\ \A q \in Queries : CacheEntry(cache'[q])
    BY <1>0 DEF SearchTypes, BudgetInv, CacheInv, Covered
  <1> QED
    BY <1>0, <1>1, <1>2, ServerKeeps

LEMMA MinusOne ==
  \E k \in Int : k = -1
  OBVIOUS

\* The rows a server's step makes of the row of a request.
LEMMA RowsMade ==
  ASSUME NEW row \in Rows, NEW new,
         \/ \E n, t, s \in Nat : new = [row EXCEPT !.pc = "spending", !.left = n, !.at = t, !.seen = s]
         \/ new = [row EXCEPT !.pc = "calling", !.left = 0, !.at = 0, !.seen = 0]
         \/ \E n, t \in Nat : new = [row EXCEPT !.pc = "storing", !.ttl = n, !.at = t]
         \/ new = [row EXCEPT !.pc = "answered", !.dies = -1]
         \/ new = [row EXCEPT !.pc = "answered", !.dies = -1, !.ttl = 0, !.at = 0]
         \/ new = [row EXCEPT !.pc = "refused"]
  PROVE  /\ new \in Rows /\ new.query = row.query /\ new.open = row.open
         /\ new.late = row.late /\ new.before = row.before
  <1>1. ASSUME NEW n \in Nat, NEW t \in Nat, NEW s \in Nat,
               new = [row EXCEPT !.pc = "spending", !.left = n, !.at = t, !.seen = s]
        PROVE  new \in Rows
    <2>1. PICK a : a = [row EXCEPT !.pc = "spending"]
      OBVIOUS
    <2>2. PICK b : b = [a EXCEPT !.left = n]
      OBVIOUS
    <2>3. PICK c : c = [b EXCEPT !.at = t]
      OBVIOUS
    <2>4. new = [c EXCEPT !.seen = s]
      BY <1>1, <2>1, <2>2, <2>3
    <2>5. a \in Rows
      BY <2>1 DEF Rows, Steps
    <2>6. b \in Rows
      BY <2>2, <2>5 DEF Rows, Steps
    <2>7. c \in Rows
      BY <2>3, <2>6 DEF Rows, Steps
    <2> QED
      BY <2>4, <2>7 DEF Rows, Steps
  <1>2. ASSUME new = [row EXCEPT !.pc = "calling", !.left = 0, !.at = 0, !.seen = 0]
        PROVE  new \in Rows
    <2>1. PICK a : a = [row EXCEPT !.pc = "calling"]
      OBVIOUS
    <2>2. PICK b : b = [a EXCEPT !.left = 0]
      OBVIOUS
    <2>3. PICK c : c = [b EXCEPT !.at = 0]
      OBVIOUS
    <2>4. new = [c EXCEPT !.seen = 0]
      BY <1>2, <2>1, <2>2, <2>3
    <2>5. a \in Rows
      BY <2>1 DEF Rows, Steps
    <2>6. b \in Rows
      BY <2>2, <2>5 DEF Rows, Steps
    <2>7. c \in Rows
      BY <2>3, <2>6 DEF Rows, Steps
    <2> QED
      BY <2>4, <2>7 DEF Rows, Steps
  <1>3. ASSUME NEW n \in Nat, NEW t \in Nat, new = [row EXCEPT !.pc = "storing", !.ttl = n, !.at = t]
        PROVE  new \in Rows
    <2>1. PICK a : a = [row EXCEPT !.pc = "storing"]
      OBVIOUS
    <2>2. PICK b : b = [a EXCEPT !.ttl = n]
      OBVIOUS
    <2>3. new = [b EXCEPT !.at = t]
      BY <1>3, <2>1, <2>2
    <2>4. a \in Rows
      BY <2>1 DEF Rows, Steps
    <2>5. b \in Rows
      BY <2>2, <2>4 DEF Rows, Steps
    <2> QED
      BY <2>3, <2>5 DEF Rows, Steps
  <1>k. PICK k \in Int : k = -1
    BY MinusOne
  <1>4. ASSUME new = [row EXCEPT !.pc = "answered", !.dies = -1]
        PROVE  new \in Rows
    <2>1. PICK a : a = [row EXCEPT !.pc = "answered"]
      OBVIOUS
    <2>2. new = [a EXCEPT !.dies = k]
      BY <1>4, <1>k, <2>1
    <2>3. a \in Rows
      BY <2>1 DEF Rows, Steps
    <2> QED
      BY <2>2, <2>3 DEF Rows, Steps
  <1>5. ASSUME new = [row EXCEPT !.pc = "answered", !.dies = -1, !.ttl = 0, !.at = 0]
        PROVE  new \in Rows
    <2>1. PICK a : a = [row EXCEPT !.pc = "answered"]
      OBVIOUS
    <2>2. PICK b : b = [a EXCEPT !.dies = k]
      OBVIOUS
    <2>3. PICK c : c = [b EXCEPT !.ttl = 0]
      OBVIOUS
    <2>4. new = [c EXCEPT !.at = 0]
      BY <1>5, <1>k, <2>1, <2>2, <2>3
    <2>5. a \in Rows
      BY <2>1 DEF Rows, Steps
    <2>6. b \in Rows
      BY <2>2, <2>5 DEF Rows, Steps
    <2>7. c \in Rows
      BY <2>3, <2>6 DEF Rows, Steps
    <2> QED
      BY <2>4, <2>7 DEF Rows, Steps
  <1>6. new = [row EXCEPT !.pc = "refused"] => new \in Rows
    BY DEF Rows, Steps
  <1>7. new.query = row.query /\ new.open = row.open /\ new.late = row.late /\ new.before = row.before
    BY DEF Rows
  <1> QED
    BY <1>1, <1>2, <1>3, <1>4, <1>5, <1>6, <1>7

LEMMA StepOfBucket ==
  ASSUME SearchInv, NEW x \in Everyone, ReadBucket(x) \/ SpendToken(x)
  PROVE  SearchInv'
  <1>0. /\ SearchTypes /\ BudgetInv /\ CacheInv /\ request[x] \in Rows /\ BudgetRow(request[x])
        /\ now \in Nat /\ spent \in Nat /\ lost \in Nat /\ bucket.tokens \in 0 .. Capacity /\ bucket.last \in Nat
        /\ bucket.last <= now /\ Capacity \in Nat /\ Refill \in Nat /\ Requests \intersect Callers = {}
    BY SearchAssumption DEF SearchInv, SearchTypes, BudgetInv
  <1>1. UNCHANGED <<now, page, session, crossed, cache>>
    BY DEF ReadBucket, SpendToken
  <1>2. cache' \in [Queries -> Entries \union {Nothing}] /\ \A q \in Queries : CacheEntry(cache'[q])
    BY <1>0, <1>1 DEF SearchTypes, CacheInv
  <1>3. PICK idle \in Rows : idle = Idle /\ idle.pc = "idle" /\ idle.before = {}
    BY IdleIsRow
  <1>4. CASE ReadBucket(x)
    <2>1. PICK tokens : tokens = Lower(Capacity, bucket.tokens + (now - bucket.last) * Refill)
      OBVIOUS
    <2>2. /\ UNCHANGED <<bucket, spent, lost>>
          /\ \/ x \in Callers /\ request' = [request EXCEPT ![x] = idle]
             \/ x \notin Callers /\ request' = [request EXCEPT ![x].pc = "refused"]
             \/ /\ ~ tokens < 1
                /\ request' = [request EXCEPT ![x].pc = "spending", ![x].left = tokens - 1,
                                              ![x].at = now, ![x].seen = spent]
      BY <1>3, <1>4, <2>1 DEF ReadBucket
    <2>3. /\ tokens \in Nat /\ tokens <= Capacity
          /\ tokens <= bucket.tokens + (now - bucket.last) * Refill
      <3>1. (now - bucket.last) * Refill \in Nat
        BY <1>0, RefillAdds
      <3>2. bucket.tokens + (now - bucket.last) * Refill \in Nat
        BY <1>0, <3>1
      <3> QED
        BY <1>0, <2>1, <3>2 DEF Lower
    <2>4. PICK row : /\ request' = [request EXCEPT ![x] = row]
                     /\ \/ x \in Callers /\ row = idle
                        \/ x \notin Callers /\ row = [request[x] EXCEPT !.pc = "refused"]
                        \/ /\ ~ tokens < 1
                           /\ row = [request[x] EXCEPT !.pc = "spending", !.left = tokens - 1,
                                                       !.at = now, !.seen = spent]
      <3>1. CASE x \in Callers /\ request' = [request EXCEPT ![x] = idle]
        BY <3>1
      <3>2. CASE x \notin Callers /\ request' = [request EXCEPT ![x].pc = "refused"]
        BY <3>2
      <3>3. CASE /\ ~ tokens < 1
                 /\ request' = [request EXCEPT ![x].pc = "spending", ![x].left = tokens - 1,
                                               ![x].at = now, ![x].seen = spent]
        <4>1. PICK row : row = [request[x] EXCEPT !.pc = "spending", !.left = tokens - 1,
                                                  !.at = now, !.seen = spent]
          OBVIOUS
        <4>2. request' = [request EXCEPT ![x] = row]
          BY <1>0, <3>3, <4>1 DEF SearchTypes
        <4> QED
          BY <3>3, <4>1, <4>2
      <3> QED
        BY <2>2, <3>1, <3>2, <3>3
    <2>5. /\ row \in Rows /\ row.before \subseteq request[x].before
          /\ row.pc \in {"idle", "refused"} \/ /\ row.pc = "spending" /\ tokens >= 1 /\ row.left = tokens - 1
                                                /\ row.at = now /\ row.seen = spent
          /\ x \notin Callers => /\ row.query = request[x].query /\ row.open = request[x].open
                                 /\ row.late = request[x].late /\ row.before = request[x].before
      <3>1. CASE x \in Callers /\ row = idle
        BY <1>3, <2>4, <3>1
      <3>2. CASE row = [request[x] EXCEPT !.pc = "refused"]
        <4>1. row.pc = "refused"
          BY <1>0, <3>2 DEF Rows
        <4> QED
          BY <1>0, <3>2, <4>1, RowsMade
      <3>3. CASE /\ ~ tokens < 1
                 /\ row = [request[x] EXCEPT !.pc = "spending", !.left = tokens - 1,
                                             !.at = now, !.seen = spent]
        <4>1. tokens >= 1 /\ tokens - 1 \in Nat
          BY <2>3, <3>3
        <4>2. row.pc = "spending" /\ row.left = tokens - 1 /\ row.at = now /\ row.seen = spent
          BY <1>0, <3>3 DEF Rows
        <4> QED
          BY <1>0, <3>3, <4>1, <4>2, RowsMade
      <3> QED
        BY <2>4, <3>1, <3>2, <3>3
    <2>6. BudgetRow(row)'
      <3> SUFFICES ASSUME row.pc = "spending"
                   PROVE  /\ row.at <= now /\ row.left < Capacity /\ row.seen <= spent
                          /\ Covered(row.seen + 1 + row.left, row.at)
        BY <1>1, <2>2 DEF BudgetRow, Covered
      <3>1. row.left = tokens - 1 /\ row.at = now /\ row.seen = spent /\ tokens >= 1
        BY <2>5
      <3>2. spent + 1 + (tokens - 1) = spent + tokens
        BY <1>0, <2>3
      <3>3. spent + tokens <= Capacity + Refill * now + lost
        <4>1. /\ Refill * bucket.last \in Nat /\ Refill * now \in Nat
              /\ (now - bucket.last) * Refill = Refill * now - Refill * bucket.last
          BY <1>0, RefillAdds
        <4>2. spent + bucket.tokens <= Capacity + Refill * bucket.last + lost
          BY <1>0 DEF BudgetInv, Covered
        <4> QED
          BY <1>0, <2>3, <4>1, <4>2
      <3> QED
        BY <1>0, <2>3, <3>1, <3>2, <3>3 DEF Covered
    <2>7. Serves(x, row)
      BY <1>0, <2>4, <2>5, <2>6 DEF Serves, CacheRow, Everyone
    <2>8. /\ bucket' \in [tokens : 0 .. Capacity, last : Nat] /\ spent' \in Nat /\ lost' \in Nat
          /\ spent <= spent' /\ lost <= lost' /\ bucket'.last <= now /\ (Covered(spent + bucket.tokens, bucket.last))'
      BY <1>0, <2>2 DEF SearchTypes, BudgetInv, Covered
    <2> QED
      BY <1>1, <1>2, <2>7, <2>8, ServerKeeps
  <1>5. CASE SpendToken(x)
    <2>1. /\ request[x].pc = "spending" /\ spent' = spent + 1 /\ lost' = lost + (spent - request[x].seen)
          /\ bucket' = [tokens |-> request[x].left, last |-> request[x].at]
          /\ \/ x \in Callers /\ request' = [request EXCEPT ![x] = idle]
             \/ /\ x \notin Callers
                /\ request' = [request EXCEPT ![x].pc = "calling", ![x].left = 0, ![x].at = 0, ![x].seen = 0]
      BY <1>3, <1>5 DEF SpendToken
    <2>2. PICK row : /\ request' = [request EXCEPT ![x] = row]
                     /\ \/ x \in Callers /\ row = idle
                        \/ /\ x \notin Callers
                           /\ row = [request[x] EXCEPT !.pc = "calling", !.left = 0, !.at = 0, !.seen = 0]
      <3>1. CASE x \in Callers
        BY <2>1, <3>1
      <3>2. CASE x \notin Callers
        <4>1. PICK row : row = [request[x] EXCEPT !.pc = "calling", !.left = 0, !.at = 0, !.seen = 0]
          OBVIOUS
        <4>2. request' = [request EXCEPT ![x] = row]
          BY <1>0, <2>1, <3>2, <4>1 DEF SearchTypes
        <4> QED
          BY <3>2, <4>1, <4>2
      <3> QED
        BY <3>1, <3>2
    <2>3. /\ row \in Rows /\ row.before \subseteq request[x].before /\ row.pc \in {"idle", "calling"}
          /\ x \notin Callers => /\ row.query = request[x].query /\ row.open = request[x].open
                                 /\ row.late = request[x].late /\ row.before = request[x].before
      <3>1. CASE x \in Callers /\ row = idle
        BY <1>3, <2>2, <3>1
      <3>2. CASE row = [request[x] EXCEPT !.pc = "calling", !.left = 0, !.at = 0, !.seen = 0]
        <4>1. row.pc = "calling"
          BY <1>0, <3>2 DEF Rows
        <4> QED
          BY <1>0, <3>2, <4>1, RowsMade
      <3> QED
        BY <2>2, <3>1, <3>2
    <2>4. Serves(x, row)
      BY <1>0, <2>2, <2>3 DEF Serves, BudgetRow, CacheRow, Everyone
    <2>5. /\ bucket' \in [tokens : 0 .. Capacity, last : Nat] /\ spent' \in Nat /\ lost' \in Nat
          /\ spent <= spent' /\ lost <= lost' /\ bucket'.last <= now /\ (Covered(spent + bucket.tokens, bucket.last))'
      <3>1. /\ request[x].left \in Nat /\ request[x].at \in Nat /\ request[x].seen \in Nat
            /\ request[x].left < Capacity /\ request[x].at <= now /\ request[x].seen <= spent
            /\ request[x].seen + 1 + request[x].left <= Capacity + Refill * request[x].at + lost
        BY <1>0, <2>1 DEF BudgetRow, Covered, Rows
      <3>2. bucket'.tokens = request[x].left /\ bucket'.last = request[x].at
        BY <2>1
      <3>3. PICK refill \in Nat : refill = Refill * request[x].at
        <4>1. PICK n \in Nat : n = request[x].at /\ n <= n
          BY <3>1
        <4>2. Refill * n \in Nat
          BY <4>1, RefillAdds
        <4> QED
          BY <4>1, <4>2
      <3>4. spent' + request[x].left <= Capacity + refill + lost'
        BY <1>0, <2>1, <3>1, <3>3
      <3>5. (Covered(spent + bucket.tokens, bucket.last))'
        BY <3>2, <3>3, <3>4 DEF Covered
      <3>6. /\ spent' \in Nat /\ lost' \in Nat /\ spent <= spent' /\ lost <= lost' /\ bucket'.last <= now
            /\ bucket'.tokens \in 0 .. Capacity /\ bucket'.last \in Nat
        BY <1>0, <2>1, <3>1, <3>2
      <3>7. bucket' \in [tokens : 0 .. Capacity, last : Nat]
        BY <2>1, <3>2, <3>6
      <3> QED
        BY <3>5, <3>6, <3>7
    <2> QED
      BY <1>1, <1>2, <2>4, <2>5, ServerKeeps
  <1> QED
    BY <1>4, <1>5

LEMMA StepOfServer ==
  ASSUME SearchInv, NEW r \in Requests,
         LookUpCache(r) \/ AskDuffel(r) \/ ComputeTtl(r) \/ StoreAnswer(r)
  PROVE  SearchInv'
  <1>0. /\ SearchTypes /\ BudgetInv /\ CacheInv /\ r \in Everyone /\ request[r] \in Rows
        /\ request \in [Everyone -> Rows] /\ CacheRow(request[r]) /\ now \in Nat
    BY DEF SearchInv, SearchTypes, CacheInv, Everyone
  <1>1. ASSUME NEW pc \in Steps \ {"spending", "storing"}, Go(r, pc),
               UNCHANGED <<now, page, session, crossed, bucket, spent, lost, cache>>
        PROVE  SearchInv'
    <2>1. PICK row : row = [request[r] EXCEPT !.pc = pc]
      OBVIOUS
    <2>2. request' = [request EXCEPT ![r] = row]
      BY <1>1, <2>1 DEF Go
    <2>3. /\ row \in Rows /\ row.pc = pc /\ row.query = request[r].query /\ row.open = request[r].open
          /\ row.late = request[r].late /\ row.before = request[r].before
      BY <1>0, <2>1 DEF Rows
    <2> QED
      BY <1>1, <2>2, <2>3, RequestGoesOn DEF CacheRow
  <1>2. CASE LookUpCache(r)
    <2>1. Go(r, "refused") \/ Go(r, "answered") \/ Go(r, "limiting")
      BY <1>2 DEF LookUpCache
    <2>2. UNCHANGED <<now, page, session, crossed, bucket, spent, lost, cache>>
      BY <1>2 DEF LookUpCache
    <2> QED
      BY <1>1, <2>1, <2>2 DEF Steps
  <1>3. CASE AskDuffel(r)
    <2>1. UNCHANGED <<now, page, session, crossed, bucket, spent, lost, cache>>
      BY <1>3 DEF AskDuffel
    <2>2. ASSUME NEW life \in Lives, request' = [request EXCEPT ![r].pc = "caching", ![r].dies = now + life]
          PROVE  SearchInv'
      <3>1. PICK row : row = [request[r] EXCEPT !.pc = "caching", !.dies = now + life]
        OBVIOUS
      <3>2. request' = [request EXCEPT ![r] = row]
        BY <1>0, <2>2, <3>1
      <3>3. now + life \in Int
        BY <1>0, SearchAssumption
      <3>4. /\ row \in Rows /\ row.pc = "caching" /\ row.query = request[r].query /\ row.open = request[r].open
            /\ row.late = request[r].late /\ row.before = request[r].before
        BY <1>0, <3>1, <3>3 DEF Rows, Steps
      <3> QED
        BY <2>1, <3>2, <3>4, RequestGoesOn DEF CacheRow
    <2> QED
      BY <1>1, <1>3, <2>1, <2>2 DEF AskDuffel, Steps
  <1>4. CASE ComputeTtl(r)
    <2>1. UNCHANGED <<now, page, session, crossed, bucket, spent, lost, cache>>
      BY <1>4 DEF ComputeTtl
    <2>2. PICK ttl : ttl = CacheTtl(request[r].dies)
      OBVIOUS
    <2>3. PICK row : /\ request' = [request EXCEPT ![r] = row]
                     /\ \/ ttl > 0 /\ row = [request[r] EXCEPT !.pc = "storing", !.ttl = ttl, !.at = now]
                        \/ row = [request[r] EXCEPT !.pc = "answered", !.dies = -1]
      <3>1. \/ ttl > 0 /\ request' = [request EXCEPT ![r].pc = "storing", ![r].ttl = ttl, ![r].at = now]
            \/ request' = [request EXCEPT ![r].pc = "answered", ![r].dies = -1]
        BY <1>4, <2>2 DEF ComputeTtl
      <3>2. PICK row : row = [request[r] EXCEPT !.pc = "storing", !.ttl = ttl, !.at = now]
        OBVIOUS
      <3>3. PICK old : old = [request[r] EXCEPT !.pc = "answered", !.dies = -1]
        OBVIOUS
      <3>4. \/ ttl > 0 /\ request' = [request EXCEPT ![r] = row]
            \/ request' = [request EXCEPT ![r] = old]
        BY <1>0, <3>1, <3>2, <3>3
      <3> QED
        BY <3>2, <3>3, <3>4
    <2>4. ttl \in Int /\ (ttl > 0 => 2 * ttl <= request[r].dies - now)
      <3>1. request[r].dies \in Int /\ CacheSeconds \in Nat
        BY <1>0, SearchAssumption DEF Rows
      <3>2. PICK d \in Int : d = request[r].dies
        BY <3>1
      <3>3. PICK h : h = (d - now) \div 2
        OBVIOUS
      <3>4. h \in Int /\ 2 * h <= d - now
        BY <1>0, <3>2, <3>3
      <3>5. ttl = Lower(CacheSeconds, IF d > now THEN h ELSE 0)
        BY <2>2, <3>2, <3>3 DEF CacheTtl
      <3> QED
        BY <1>0, <3>1, <3>2, <3>4, <3>5 DEF Lower
    <2>5. /\ row \in Rows /\ row.query = request[r].query /\ row.open = request[r].open
          /\ row.late = request[r].late /\ row.before = request[r].before
      <3>1. CASE ttl > 0 /\ row = [request[r] EXCEPT !.pc = "storing", !.ttl = ttl, !.at = now]
        <4>1. ttl \in Nat
          BY <2>4, <3>1
        <4> QED
          BY <1>0, <3>1, <4>1, RowsMade
      <3>2. CASE row = [request[r] EXCEPT !.pc = "answered", !.dies = -1]
        BY <1>0, <3>2, RowsMade
      <3> QED
        BY <2>3, <3>1, <3>2
    <2>6. row.pc # "spending" /\ CacheRow(row)
      BY <1>0, <2>3, <2>4 DEF Rows, CacheRow
    <2> QED
      BY <2>1, <2>3, <2>5, <2>6, RequestGoesOn
  <1>5. CASE StoreAnswer(r)
    <2>1. /\ request[r].pc = "storing" /\ UNCHANGED <<now, page, session, crossed, bucket, spent, lost>>
          /\ cache' = [cache EXCEPT ![request[r].query] =
                [dies |-> request[r].dies, until |-> now + 2 * request[r].ttl, delay |-> now - request[r].at]]
          /\ request' = [request EXCEPT ![r].pc = "answered", ![r].dies = -1, ![r].ttl = 0, ![r].at = 0]
      BY <1>5 DEF StoreAnswer
    <2>2. PICK row : row = [request[r] EXCEPT !.pc = "answered", !.dies = -1, !.ttl = 0, !.at = 0]
      OBVIOUS
    <2>3. request' = [request EXCEPT ![r] = row]
      BY <1>0, <2>1, <2>2
    <2>4. /\ row \in Rows /\ row.query = request[r].query /\ row.open = request[r].open
          /\ row.late = request[r].late /\ row.before = request[r].before /\ row.pc = "answered"
      <3>1. row.pc = "answered"
        BY <1>0, <2>2 DEF Rows
      <3> QED
        BY <1>0, <2>2, <3>1, RowsMade
    <2>5. Serves(r, row)
      BY <2>3, <2>4 DEF Serves, BudgetRow, CacheRow
    <2>6. PICK e : e = [dies |-> request[r].dies, until |-> now + 2 * request[r].ttl, delay |-> now - request[r].at]
      OBVIOUS
    <2>7. e \in Entries /\ CacheEntry(e)
      BY <1>0, <2>1, <2>6 DEF Rows, Entries, CacheRow, CacheEntry
    <2>8. cache' = [cache EXCEPT ![request[r].query] = e]
      BY <2>1, <2>6
    <2>9. cache' \in [Queries -> Entries \union {Nothing}] /\ \A q \in Queries : CacheEntry(cache'[q])
      BY <1>0, <2>7, <2>8 DEF SearchTypes, CacheInv
    <2>10. /\ bucket' \in [tokens : 0 .. Capacity, last : Nat] /\ spent' \in Nat /\ lost' \in Nat
           /\ spent <= spent' /\ lost <= lost' /\ bucket'.last <= now /\ (Covered(spent + bucket.tokens, bucket.last))'
      BY <1>0, <2>1 DEF SearchTypes, BudgetInv, Covered
    <2> QED
      BY <1>0, <2>1, <2>5, <2>9, <2>10, ServerKeeps
  <1> QED
    BY <1>2, <1>3, <1>4, <1>5
LEMMA StepOfClock ==
  ASSUME SearchInv, Tick
  PROVE  SearchInv'
  <1>0. /\ SearchTypes /\ BudgetInv /\ CacheInv /\ PageInv /\ now \in Nat
        /\ request \in [Everyone -> Rows] /\ bucket.last \in Nat
    BY DEF SearchInv, SearchTypes
  <1>1. /\ now' = now + 1 /\ UNCHANGED <<bucket, spent, lost, request, page, session, crossed>>
        /\ cache' = [q \in Queries |-> IF cache[q] # Nothing /\ cache[q].until > now + 1
                                       THEN cache[q] ELSE Nothing]
    BY DEF Tick
  <1>2. now' \in Nat /\ \A n \in Nat : n <= now => n <= now'
    BY <1>0, <1>1
  <1>3. \A q \in Queries : cache'[q] = cache[q] \/ cache'[q] = Nothing
    BY <1>1
  <1>4. cache' \in [Queries -> Entries \union {Nothing}]
    BY <1>0, <1>1 DEF SearchTypes
  <1>5. SearchTypes'
    BY <1>0, <1>1, <1>2, <1>4 DEF SearchTypes
  <1>6. ASSUME NEW x \in Everyone
        PROVE  BudgetRow(request[x])'
    <2>1. /\ BudgetRow(request[x]) /\ request[x] \in Rows /\ request'[x] = request[x]
          /\ spent' = spent /\ lost' = lost /\ spent \in Nat /\ lost \in Nat /\ now <= now'
      BY <1>0, <1>1, <1>2 DEF BudgetInv, SearchTypes
    <2> QED
      BY <1>0, <1>2, <2>1, CoveredStill
  <1>7. BudgetInv'
    BY <1>0, <1>1, <1>2, <1>6 DEF BudgetInv, Covered
  <1>8. CacheInv'
    BY <1>0, <1>1, <1>3 DEF CacheInv, CacheEntry
  <1>9. Out' = Out
    BY <1>1 DEF Out
  <1>10. session # Nothing => session.at \in Nat
    BY <1>0 DEF SearchTypes, Stored
  <1>11. PageInv'
    BY <1>0, <1>1, <1>2, <1>9, <1>10 DEF PageInv, LastIsOver, IsLast
  <1> QED
    BY <1>5, <1>7, <1>8, <1>11 DEF SearchInv

-----------------------------------------------------------------------------
\* The page changes what it knows of the requests, and ends or starts one of them; the
\* bucket and the cache are as they were.
LEMMA PageKeeps ==
  ASSUME SearchInv, UNCHANGED <<now, bucket, spent, lost, cache>>,
         page' \in PageStates,
         session' \in Stored \union {Nothing}, crossed' \in BOOLEAN,
         request' \in [Everyone -> Rows],
         \A x \in Everyone : \/ request'[x].pc \notin {"spending", "storing"}
                             \/ /\ request'[x].pc = request[x].pc /\ request'[x].at = request[x].at
                                /\ request'[x].left = request[x].left /\ request'[x].seen = request[x].seen
                                /\ request'[x].ttl = request[x].ttl /\ request'[x].dies = request[x].dies
  PROVE  SearchTypes' /\ BudgetInv' /\ CacheInv'
  <1>0. SearchTypes /\ BudgetInv /\ CacheInv
    BY DEF SearchInv
  <1>1. SearchTypes'
    BY <1>0 DEF SearchTypes
  <1>2. ASSUME NEW x \in Everyone
        PROVE  BudgetRow(request[x])' /\ CacheRow(request'[x])
    <2>1. BudgetRow(request[x]) /\ CacheRow(request[x])
      BY <1>0 DEF BudgetInv, CacheInv
    <2>2. CASE request'[x].pc \notin {"spending", "storing"}
      BY <2>2 DEF BudgetRow, CacheRow
    <2>3. CASE /\ request'[x].pc = request[x].pc /\ request'[x].at = request[x].at
               /\ request'[x].left = request[x].left /\ request'[x].seen = request[x].seen
               /\ request'[x].ttl = request[x].ttl /\ request'[x].dies = request[x].dies
      BY <2>1, <2>3 DEF BudgetRow, CacheRow, Covered
    <2> QED
      BY <2>2, <2>3
  <1>3. BudgetInv'
    BY <1>0, <1>2 DEF BudgetInv, Covered
  <1>4. CacheInv'
    BY <1>0, <1>2 DEF CacheInv
  <1> QED
    BY <1>1, <1>3, <1>4

\* A search that starts is the last one.
LEMMA StepOfFetch ==
  ASSUME SearchInv, NEW r \in Requests, NEW q \in Queries, NEW rest \in SUBSET Out, Fetch(r, q, rest),
         UNCHANGED <<now, bucket, spent, lost, cache, session>>, crossed' \in BOOLEAN,
         page' \in PageStates,
         page'.query = q, page'.sent = q
  PROVE  SearchInv'
  <1>0. /\ SearchTypes /\ PageInv /\ r \in Everyone /\ Requests \subseteq Everyone
        /\ request \in [Everyone -> Rows] /\ rest \subseteq Requests /\ r \notin rest
        /\ session' \in Stored \union {Nothing}
    BY IdleIsRow DEF SearchInv, SearchTypes, Everyone, Fetch, Out
  <1>1. PICK new : new = [Idle EXCEPT !.pc = "arrived", !.query = q, !.open = TRUE, !.before = rest]
    OBVIOUS
  <1>2. /\ new \in Rows /\ new.pc = "arrived" /\ new.query = q /\ new.open = TRUE
        /\ new.before = rest /\ new.late = FALSE
    <2>1. new = [pc |-> "arrived", query |-> q, open |-> TRUE, late |-> FALSE,
                 before |-> rest, dies |-> -1, ttl |-> 0, at |-> 0, left |-> 0, seen |-> 0]
      BY <1>1 DEF Idle
    <2>2. PICK k \in Int : k = -1
      BY MinusOne
    <2>3. new = [pc |-> "arrived", query |-> q, open |-> TRUE, late |-> FALSE,
                 before |-> rest, dies |-> k, ttl |-> 0, at |-> 0, left |-> 0, seen |-> 0]
      BY <2>1, <2>2
    <2> QED
      BY <1>0, <2>3 DEF Rows, Steps
  <1>3. /\ DOMAIN request' = Everyone /\ request'[r] = new
        /\ \A x \in Everyone : x # r =>
              request'[x] = [request[x] EXCEPT !.open = x \in rest, !.before = @ \intersect rest]
    <2>1. request' = [x \in Everyone |->
              IF x = r THEN new
              ELSE [request[x] EXCEPT !.open = x \in rest, !.before = @ \intersect rest]]
      BY <1>0, <1>1 DEF Fetch
    <2> QED
      BY <1>0, <2>1
  <1>4. ASSUME NEW x \in Everyone, x # r
        PROVE  /\ request'[x] \in Rows /\ request'[x].pc = request[x].pc /\ request'[x].at = request[x].at
               /\ request'[x].left = request[x].left /\ request'[x].seen = request[x].seen
               /\ request'[x].ttl = request[x].ttl /\ request'[x].dies = request[x].dies
               /\ request'[x].open = (x \in rest) /\ request'[x].before = request[x].before \intersect rest
    <2>1. PICK row \in Rows : row = request[x]
      BY <1>0
    <2>2. PICK b : b = row.before \intersect rest
      OBVIOUS
    <2>3. b \in SUBSET Requests
      BY <2>1, <2>2 DEF Rows
    <2>4. PICK o : o \in BOOLEAN /\ o = (x \in rest)
      <3>1. CASE x \in rest
        <4>1. TRUE \in BOOLEAN /\ TRUE = (x \in rest)
          BY <3>1
        <4> QED
          BY <4>1
      <3>2. CASE x \notin rest
        <4>1. FALSE \in BOOLEAN /\ FALSE = (x \in rest)
          BY <3>2
        <4> QED
          BY <4>1
      <3> QED
        BY <3>1, <3>2
    <2>5. PICK a : a = [row EXCEPT !.open = o]
      OBVIOUS
    <2>6. request'[x] = [a EXCEPT !.before = b]
      BY <1>3, <1>4, <2>1, <2>2, <2>4, <2>5 DEF Rows
    <2>7. /\ a \in Rows /\ a.pc = row.pc /\ a.at = row.at /\ a.left = row.left /\ a.seen = row.seen
          /\ a.ttl = row.ttl /\ a.dies = row.dies /\ a.open = o
      <3>1. o \in BOOLEAN
        BY <2>4
      <3> QED
        BY <2>5, <3>1 DEF Rows
    <2> QED
      BY <2>1, <2>2, <2>3, <2>4, <2>6, <2>7 DEF Rows
  <1>5. request' \in [Everyone -> Rows]
    <2>1. request' = [x \in DOMAIN request' |-> request'[x]]
      BY DEF Fetch
    <2>2. \A x \in Everyone : request'[x] \in Rows
      BY <1>2, <1>3, <1>4
    <2> QED
      BY <1>3, <2>1, <2>2
  <1>6. SearchTypes' /\ BudgetInv' /\ CacheInv'
    <2>1. \A x \in Everyone : \/ request'[x].pc \notin {"spending", "storing"}
                             \/ /\ request'[x].pc = request[x].pc /\ request'[x].at = request[x].at
                                /\ request'[x].left = request[x].left /\ request'[x].seen = request[x].seen
                                /\ request'[x].ttl = request[x].ttl /\ request'[x].dies = request[x].dies
      BY <1>2, <1>3, <1>4
    <2> QED
      BY <1>0, <1>5, <2>1, PageKeeps
  <1>7. Out' = rest \union {r}
    <2>1. \A x \in Requests : request'[x].open <=> (x \in rest \/ x = r)
      BY <1>0, <1>2, <1>3, <1>4
    <2> QED
      BY <1>0, <2>1 DEF Out
  <1>8. IsLast(r)'
    <2>1. request'[r].open /\ ~ request'[r].late /\ request'[r].query = page'.sent
      BY <1>0, <1>2, <1>3
    <2>2. Out' \subseteq request'[r].before \union {r}
      BY <1>0, <1>2, <1>3, <1>7
    <2>3. ASSUME NEW x \in Everyone
          PROVE  r \notin request'[x].before
      <3>1. CASE x = r
        BY <1>0, <1>2, <1>3, <3>1
      <3>2. CASE x # r
        BY <1>0, <1>4, <3>2
      <3> QED
        BY <3>1, <3>2
    <2> QED
      BY <2>1, <2>2, <2>3 DEF IsLast
  <1>9. PageInv'
    BY <1>0, <1>7, <1>8 DEF PageInv
  <1> QED
    BY <1>6, <1>9 DEF SearchInv
\* A search that is over makes those it came after late.
LEMMA StepOfOver ==
  ASSUME SearchInv, NEW r \in Requests, Over(r), UNCHANGED <<now, bucket, spent, lost, cache>>,
         \/ UNCHANGED session
         \/ session' = [key |-> request[r].query, at |-> now, offers |-> request[r].query],
         NEW list \in {Nothing, request[r].query},
         IF request[r].open
         THEN /\ page' = [page EXCEPT !.shown = list, !.loading = FALSE]
              /\ crossed' = request[r].late
         ELSE UNCHANGED <<page, crossed>>
  PROVE  SearchInv'
  <1>0. /\ SearchTypes /\ PageInv /\ r \in Everyone /\ Requests \subseteq Everyone
        /\ request \in [Everyone -> Rows] /\ request[r] \in Rows /\ now \in Nat
        /\ page \in PageStates
    BY DEF SearchInv, SearchTypes, Everyone
  <1>1. PICK idle \in Rows : /\ idle = Idle /\ idle.pc = "idle" /\ idle.open = FALSE
                             /\ idle.before = {}
    BY IdleIsRow
  <1>2. /\ DOMAIN request' = Everyone /\ request'[r] = idle
        /\ request' = [x \in DOMAIN request' |-> request'[x]]
        /\ \A x \in Everyone : x # r =>
              request'[x] = [request[x] EXCEPT !.late = @ \/ x \in request[r].before,
                                               !.before = @ \ {r}]
    <2>1. request' = [x \in Everyone |->
              IF x = r THEN idle
              ELSE [request[x] EXCEPT !.late = @ \/ x \in request[r].before, !.before = @ \ {r}]]
      BY <1>0, <1>1 DEF Over
    <2> QED
      BY <1>0, <2>1
  <1>3. ASSUME NEW x \in Everyone, x # r
        PROVE  /\ request'[x] \in Rows /\ request'[x].pc = request[x].pc /\ request'[x].at = request[x].at
               /\ request'[x].left = request[x].left /\ request'[x].seen = request[x].seen
               /\ request'[x].ttl = request[x].ttl /\ request'[x].dies = request[x].dies
               /\ request'[x].open = request[x].open /\ request'[x].query = request[x].query
               /\ request'[x].before = request[x].before \ {r}
               /\ request[x].late => request'[x].late
               /\ x \in request[r].before => request'[x].late
               /\ ~ request[x].late /\ x \notin request[r].before => ~ request'[x].late
    <2>1. PICK row \in Rows : row = request[x]
      BY <1>0
    <2>2. PICK b : b = row.before \ {r}
      OBVIOUS
    <2>3. b \in SUBSET Requests
      BY <2>1, <2>2 DEF Rows
    <2>4. PICK o : o \in BOOLEAN /\ o = (row.late \/ x \in request[r].before)
      <3>1. CASE row.late \/ x \in request[r].before
        <4>1. TRUE \in BOOLEAN /\ TRUE = (row.late \/ x \in request[r].before)
          BY <3>1
        <4> QED
          BY <4>1
      <3>2. CASE ~ (row.late \/ x \in request[r].before)
        <4>1. FALSE \in BOOLEAN /\ FALSE = (row.late \/ x \in request[r].before)
          BY <3>2
        <4> QED
          BY <4>1
      <3> QED
        BY <3>1, <3>2
    <2>5. PICK a : a = [row EXCEPT !.late = o]
      OBVIOUS
    <2>6. request'[x] = [a EXCEPT !.before = b]
      BY <1>2, <1>3, <2>1, <2>2, <2>4, <2>5 DEF Rows
    <2>7. o \in BOOLEAN
      BY <2>4
    <2>8. /\ a \in Rows /\ a.pc = row.pc /\ a.at = row.at /\ a.left = row.left /\ a.seen = row.seen
          /\ a.ttl = row.ttl /\ a.dies = row.dies /\ a.late = o /\ a.open = row.open /\ a.query = row.query
      BY <2>5, <2>7 DEF Rows
    <2>9. /\ request'[x] \in Rows /\ request'[x].pc = row.pc /\ request'[x].at = row.at
          /\ request'[x].left = row.left /\ request'[x].seen = row.seen
          /\ request'[x].ttl = row.ttl /\ request'[x].dies = row.dies
          /\ request'[x].open = row.open /\ request'[x].query = row.query
          /\ request'[x].before = b /\ request'[x].late = o
      BY <2>3, <2>6, <2>8 DEF Rows
    <2>10. o <=> row.late \/ x \in request[r].before
      BY <2>4
    <2> QED
      BY <2>1, <2>2, <2>9, <2>10
  <1>4. request' \in [Everyone -> Rows]
    <2>1. /\ request'[r] \in Rows /\ DOMAIN request' = Everyone
          /\ request' = [x \in DOMAIN request' |-> request'[x]]
      BY <1>1, <1>2
    <2>2. \A x \in Everyone : request'[x] \in Rows
      BY <1>3, <2>1
    <2> QED
      BY <2>1, <2>2
  <1>5. Out' = Out \ {r}
    <2>1. ASSUME NEW x \in Requests, x # r
          PROVE  request'[x].open = request[x].open
      <3>1. x \in Everyone
        BY DEF Everyone
      <3> QED
        BY <1>3, <2>1, <3>1
    <2>2. ~ request'[r].open
      BY <1>1, <1>2
    <2>3. \A x \in Requests : request'[x].open <=> (x # r /\ request[x].open)
      BY <2>1, <2>2
    <2> QED
      BY <2>3 DEF Out
  <1>6. /\ page' \in PageStates
        /\ page'.query = page.query /\ page'.sent = page.sent /\ crossed' \in BOOLEAN
        /\ request[r].open => page'.shown = list /\ ~ page'.loading
    <2>1. CASE request[r].open
      <3>1. page' = [page EXCEPT !.shown = list, !.loading = FALSE] /\ crossed' = request[r].late
        BY <2>1
      <3>2. list \in Queries \union {Nothing} /\ request[r].late \in BOOLEAN
        BY <1>0 DEF Rows
      <3> QED
        BY <1>0, <3>1, <3>2 DEF PageStates
    <2>2. CASE ~ request[r].open
      <3>1. page' = page /\ crossed' = crossed
        BY <2>2
      <3>2. crossed \in BOOLEAN
        BY <1>0 DEF SearchTypes
      <3> QED
        BY <1>0, <2>2, <3>1, <3>2
    <2> QED
      BY <2>1, <2>2
  <1>7. /\ session' \in Stored \union {Nothing}
        /\ session' # Nothing => session'.at <= now /\ session'.offers = session'.key
    BY <1>0 DEF SearchTypes, PageInv, Stored, Rows
  <1>8. SearchTypes' /\ BudgetInv' /\ CacheInv'
    <2>1. \A x \in Everyone : \/ request'[x].pc \notin {"spending", "storing"}
                             \/ /\ request'[x].pc = request[x].pc /\ request'[x].at = request[x].at
                                /\ request'[x].left = request[x].left /\ request'[x].seen = request[x].seen
                                /\ request'[x].ttl = request[x].ttl /\ request'[x].dies = request[x].dies
      <3>1. request'[r].pc = "idle"
        BY <1>1, <1>2
      <3> QED
        BY <1>3, <3>1
    <2> QED
      BY <1>4, <1>6, <1>7, <2>1, PageKeeps
  <1>9. page'.loading => Out' # {}
    <2>1. CASE request[r].open
      BY <1>6, <2>1
    <2>2. CASE ~ request[r].open
      BY <1>0, <1>5, <2>2 DEF PageInv, Out
    <2> QED
      BY <2>1, <2>2
  <1>10. ASSUME LastIsOver
         PROVE  LastIsOver'
    <2>1. \A x \in Out' : x \in Everyone /\ x # r /\ x \in Out
      BY <1>0, <1>5 DEF Out
    <2>2. \A x \in Out' : request'[x].late
      BY <1>3, <1>10, <2>1 DEF LastIsOver
    <2>3. crossed' \/ page'.shown \in {Nothing, page'.sent}
      <3>1. CASE request[r].open
        BY <1>10, <3>1 DEF LastIsOver, Out
      <3>2. CASE ~ request[r].open
        BY <1>6, <1>10, <3>2 DEF LastIsOver
      <3> QED
        BY <3>1, <3>2
    <2> QED
      BY <2>2, <2>3 DEF LastIsOver
  <1>11. ASSUME NEW l \in Requests, IsLast(l)
         PROVE  LastIsOver' \/ IsLast(l)'
    <2>0. l \in Everyone
      BY <1>0
    <2>1. CASE l = r
      <3>1. \A x \in Out' : x \in Everyone /\ x # r /\ x \in request[r].before
        BY <1>0, <1>5, <1>11, <2>1 DEF IsLast, Out
      <3>2. \A x \in Out' : request'[x].late
        BY <1>3, <3>1
      <3>3. page'.shown \in {Nothing, page'.sent}
        BY <1>6, <1>11, <2>1 DEF IsLast
      <3> QED
        BY <3>2, <3>3 DEF LastIsOver
    <2>2. CASE l # r
      <3>1. l \notin request[r].before
        BY <1>0, <1>11 DEF IsLast
      <3>2. request'[l].open /\ ~ request'[l].late /\ request'[l].query = page'.sent
        BY <1>3, <1>6, <1>11, <2>0, <2>2, <3>1 DEF IsLast
      <3>3. Out' \subseteq request'[l].before \union {l}
        BY <1>3, <1>5, <1>11, <2>0, <2>2 DEF IsLast
      <3>4. ASSUME NEW x \in Everyone
            PROVE  l \notin request'[x].before
        <4>1. CASE x = r
          BY <1>1, <1>2, <4>1
        <4>2. CASE x # r
          BY <1>3, <1>11, <4>2 DEF IsLast
        <4> QED
          BY <4>1, <4>2
      <3> QED
        BY <3>2, <3>3, <3>4 DEF IsLast
    <2> QED
      BY <2>1, <2>2
  <1>12. LastIsOver' \/ \E l \in Requests : IsLast(l)'
    BY <1>0, <1>10, <1>11 DEF PageInv
  <1>13. PageInv'
    BY <1>0, <1>6, <1>7, <1>9, <1>12 DEF PageInv
  <1> QED
    BY <1>8, <1>13 DEF SearchInv
LEMMA StepOfPage ==
  ASSUME SearchInv,
         \/ \E q \in Queries : Mount(q) \/ SearchIncomplete(q) \/ \E r \in Requests : Search(r, q)
         \/ \E r \in Requests : Receive(r) \/ ReceiveError(r)
  PROVE  SearchInv'
  <1>0. /\ SearchTypes /\ PageInv /\ Requests \subseteq Everyone /\ crossed \in BOOLEAN
        /\ request \in [Everyone -> Rows] /\ session \in Stored \union {Nothing}
        /\ page \in PageStates
    BY DEF SearchInv, SearchTypes, Everyone
  <1>1. ASSUME NEW q \in Queries, Mount(q)
        PROVE  SearchInv'
    <2>1. crossed' = FALSE /\ UNCHANGED <<now, bucket, spent, lost, cache, session>>
      BY <1>1 DEF Mount
    <2>2. CASE ~ page'.loading
      <3>1. /\ \/ page' = [query |-> q, sent |-> q, shown |-> session.offers, loading |-> FALSE] /\ Remembered(q)
               \/ page' = [query |-> q, sent |-> Nothing, shown |-> Nothing, loading |-> FALSE] /\ q \in Incomplete
            /\ request' = [x \in Everyone |-> [request[x] EXCEPT !.open = FALSE, !.before = {}]]
        <4>1. CASE Remembered(q)
          BY <1>0, <1>1, <2>2, <4>1 DEF Mount
        <4>2. CASE ~ Remembered(q) /\ q \in Incomplete
          BY <1>0, <1>1, <2>2, <4>2 DEF Mount
        <4>3. CASE ~ Remembered(q) /\ q \notin Incomplete
          <5>1. page' = [query |-> q, sent |-> q, shown |-> Nothing, loading |-> TRUE]
            BY <1>1, <4>3 DEF Mount
          <5> QED
            BY <2>2, <5>1
        <4> QED
          BY <4>1, <4>2, <4>3
      <3>2. Remembered(q) => session.offers = q
        BY <1>0 DEF Remembered, PageInv
      <3>3. /\ page' \in PageStates /\ page'.loading = FALSE /\ page'.shown \in {Nothing, page'.sent}
            /\ page'.query \notin Incomplete => page'.sent = page'.query
        <4>1. CASE page' = [query |-> q, sent |-> q, shown |-> session.offers, loading |-> FALSE] /\ Remembered(q)
          <5>1. page' = [query |-> q, sent |-> q, shown |-> q, loading |-> FALSE]
            BY <3>2, <4>1
          <5> QED
            BY <5>1 DEF PageStates
        <4>2. CASE page' = [query |-> q, sent |-> Nothing, shown |-> Nothing, loading |-> FALSE] /\ q \in Incomplete
          BY <4>2 DEF PageStates
        <4> QED
          BY <3>1, <4>1, <4>2
      <3>4. ASSUME NEW x \in Everyone
            PROVE  /\ request'[x] \in Rows /\ request'[x].pc = request[x].pc /\ request'[x].at = request[x].at
                   /\ request'[x].left = request[x].left /\ request'[x].seen = request[x].seen
                   /\ request'[x].ttl = request[x].ttl /\ request'[x].dies = request[x].dies
                   /\ request'[x].open = FALSE
        <4>1. PICK row \in Rows : row = request[x]
          BY <1>0
        <4>2. PICK a : a = [row EXCEPT !.open = FALSE]
          OBVIOUS
        <4>3. request'[x] = [a EXCEPT !.before = {}]
          BY <3>1, <4>1, <4>2
        <4>4. /\ a \in Rows /\ a.pc = row.pc /\ a.at = row.at /\ a.left = row.left /\ a.seen = row.seen
              /\ a.ttl = row.ttl /\ a.dies = row.dies /\ a.open = FALSE
          BY <4>2 DEF Rows
        <4> QED
          BY <4>1, <4>3, <4>4 DEF Rows
      <3>5. request' \in [Everyone -> Rows]
        BY <3>1, <3>4
      <3>6. SearchTypes' /\ BudgetInv' /\ CacheInv'
        BY <1>0, <2>1, <3>3, <3>4, <3>5, PageKeeps
      <3>7. Out' = {}
        BY <1>0, <3>4 DEF Out
      <3>8. PageInv'
        BY <1>0, <2>1, <3>3, <3>7 DEF PageInv, LastIsOver
      <3> QED
        BY <3>6, <3>8 DEF SearchInv
    <2>3. CASE page'.loading
      <3>1. page' = [query |-> q, sent |-> q, shown |-> Nothing, loading |-> TRUE] /\ \E r \in Requests : Fetch(r, q, {})
        <4>1. ~ Remembered(q) /\ q \notin Incomplete
          BY <1>1, <2>3 DEF Mount
        <4> QED
          BY <1>1, <2>3, <4>1 DEF Mount
      <3>2. PICK r \in Requests : Fetch(r, q, {})
        BY <3>1
      <3>3. {} \in SUBSET Out /\ crossed' \in BOOLEAN /\ page'.query = q /\ page'.sent = q /\ page' \in PageStates
        BY <2>1, <3>1 DEF PageStates
      <3> QED
        BY <2>1, <3>2, <3>3, StepOfFetch
    <2> QED
      BY <2>2, <2>3
  <1>2. ASSUME NEW q \in Queries, NEW r \in Requests, Search(r, q)
        PROVE  SearchInv'
    <2>1. /\ page' = [page EXCEPT !.query = q, !.sent = q, !.loading = TRUE] /\ Fetch(r, q, Out)
          /\ UNCHANGED <<now, bucket, spent, lost, cache, session, crossed>>
      BY <1>2 DEF Search
    <2>2. Out \in SUBSET Out /\ crossed' \in BOOLEAN /\ page'.query = q /\ page'.sent = q /\ page' \in PageStates
      BY <1>0, <2>1 DEF PageStates
    <2> QED
      BY <2>1, <2>2, StepOfFetch
  <1>3. ASSUME NEW r \in Requests, Receive(r) \/ ReceiveError(r)
        PROVE  SearchInv'
    <2>1. PICK list \in {Nothing, request[r].query} :
             IF request[r].open
             THEN /\ page' = [page EXCEPT !.shown = list, !.loading = FALSE]
                  /\ crossed' = request[r].late
             ELSE UNCHANGED <<page, crossed>>
      BY <1>3 DEF Receive, ReceiveError
    <2>2. /\ Over(r) /\ UNCHANGED <<now, bucket, spent, lost, cache>>
          /\ \/ UNCHANGED session
             \/ session' = [key |-> request[r].query, at |-> now, offers |-> request[r].query]
      BY <1>3 DEF Receive, ReceiveError
    <2> QED
      BY <2>1, <2>2, StepOfOver
  <1>4. ASSUME NEW q \in Queries, SearchIncomplete(q)
        PROVE  SearchInv'
    <2>1. /\ page' = [page EXCEPT !.query = q, !.loading = FALSE] /\ q \in Incomplete
          /\ UNCHANGED <<now, bucket, spent, lost, cache, request, session, crossed>>
      BY <1>4 DEF SearchIncomplete
    <2>2. /\ page' \in PageStates /\ page'.query = q /\ page'.sent = page.sent
          /\ page'.shown = page.shown /\ ~ page'.loading
      BY <1>0, <2>1 DEF PageStates
    <2>3. SearchTypes' /\ BudgetInv' /\ CacheInv'
      BY <1>0, <2>1, <2>2, PageKeeps
    <2>4. Out' = Out
      BY <2>1 DEF Out
    <2>5. PageInv'
      BY <1>0, <2>1, <2>2, <2>4 DEF PageInv, LastIsOver, IsLast
    <2> QED
      BY <2>3, <2>5 DEF SearchInv
  <1> QED
    BY <1>1, <1>2, <1>3, <1>4

-----------------------------------------------------------------------------
LEMMA SearchStarts ==
  Init => SearchInv
  <1> SUFFICES ASSUME Init
               PROVE  SearchInv
    OBVIOUS
  <1>1. PICK idle \in Rows : /\ idle = Idle /\ idle.pc = "idle" /\ idle.open = FALSE
                             /\ idle.before = {}
    BY IdleIsRow
  <1>2. /\ now = 0 /\ bucket = [tokens |-> Capacity, last |-> 0] /\ spent = 0 /\ lost = 0
        /\ cache = [q \in Queries |-> Nothing] /\ request = [x \in Everyone |-> idle]
        /\ page = [query |-> Nothing, sent |-> Nothing, shown |-> Nothing, loading |-> FALSE]
        /\ session = Nothing /\ crossed = FALSE
    BY <1>1 DEF Init, Everyone
  <1>3. Capacity \in Nat /\ Refill \in Nat
    BY SearchAssumption
  <1>4. SearchTypes
    <2>1. bucket \in [tokens : 0 .. Capacity, last : Nat]
      BY <1>2, <1>3
    <2>2. request \in [Everyone -> Rows]
      BY <1>1, <1>2
    <2>3. cache \in [Queries -> Entries \union {Nothing}]
      BY <1>2
    <2>4. page \in PageStates
      BY <1>2 DEF PageStates
    <2> QED
      BY <1>2, <2>1, <2>2, <2>3, <2>4 DEF SearchTypes
  <1>5. BudgetInv
    BY <1>1, <1>2, <1>3 DEF BudgetInv, BudgetRow, Covered
  <1>6. CacheInv
    BY <1>1, <1>2 DEF CacheInv, CacheRow, CacheEntry
  <1>7. Out = {}
    BY <1>1, <1>2 DEF Out, Everyone
  <1>8. PageInv
    BY <1>2, <1>7 DEF PageInv, LastIsOver
  <1> QED
    BY <1>4, <1>5, <1>6, <1>8 DEF SearchInv

LEMMA SearchSteps ==
  SearchInv /\ [Next]_vars => SearchInv'
  <1> SUFFICES ASSUME SearchInv, [Next]_vars
               PROVE  SearchInv'
    OBVIOUS
  <1>1. CASE Tick
    BY <1>1, StepOfClock
  <1>2. CASE \/ \E q \in Queries : Mount(q) \/ SearchIncomplete(q) \/ \E r \in Requests : Search(r, q)
             \/ \E r \in Requests : Receive(r) \/ ReceiveError(r)
    BY <1>2, StepOfPage
  <1>3. CASE \E r \in Requests : LookUpCache(r) \/ AskDuffel(r) \/ ComputeTtl(r) \/ StoreAnswer(r)
    BY <1>3, StepOfServer
  <1>4. CASE \E x \in Requests \union Callers : ReadBucket(x) \/ SpendToken(x)
    BY <1>4, StepOfBucket DEF Everyone
  <1>5. CASE UNCHANGED vars
    BY <1>5 DEF vars, SearchInv, SearchTypes, BudgetInv, BudgetRow, Covered, CacheInv, PageInv, LastIsOver, IsLast, Out
  <1> QED
    BY <1>1, <1>2, <1>3, <1>4, <1>5 DEF Next

LEMMA SearchAlways ==
  Spec => []SearchInv
  <1> QED
    BY SearchStarts, SearchSteps, PTL DEF Spec

\* The budget that all backend instances share (flights.service.ts checkOutboundRateLimit):
\* the calls let through to Duffel exceed a full bucket and its refill by no more than the
\* calls made while another caller, a search or a booking, is between its read of the bucket
\* and its write, in whatever order they read it and write it back.
THEOREM SpendingCovered ==
  Spec => []SpendingIsCovered
  <1>1. SearchInv => SpendingIsCovered
    <2> SUFFICES ASSUME SearchInv
                 PROVE  SpendingIsCovered
      OBVIOUS
    <2>1. /\ spent \in Nat /\ lost \in Nat /\ bucket.tokens \in Nat /\ bucket.last \in Nat
          /\ spent + bucket.tokens <= Capacity + Refill * bucket.last + lost
      BY SearchAssumption DEF SearchInv, SearchTypes, BudgetInv, Covered
    <2>2. Capacity \in Nat /\ Refill * bucket.last \in Nat
      <3>1. PICK n \in Nat : n = bucket.last /\ n <= n
        BY <2>1
      <3>2. Refill * n \in Nat
        BY <3>1, RefillAdds
      <3> QED
        BY <3>1, <3>2, SearchAssumption
    <2> QED
      BY <2>1, <2>2 DEF SpendingIsCovered
  <1> QED
    BY <1>1, SearchAlways, PTL

\* The lifetime of the cached answer (flights.service.ts calculateCacheTtl): what Redis still
\* serves has an offer that lives, or expired for no longer than the setex was under way.
THEOREM CachedOffersDoLive ==
  Spec => []CachedOffersLive
  <1>1. SearchInv => CachedOffersLive
    <2> SUFFICES ASSUME SearchInv, NEW q \in Queries, Cached(q)
                 PROVE  now < cache[q].dies + cache[q].delay
      BY DEF CachedOffersLive
    <2>1. /\ cache[q] \in Entries /\ now \in Nat /\ now < cache[q].until
          /\ cache[q].until <= cache[q].dies + cache[q].delay
      BY DEF SearchInv, SearchTypes, CacheInv, CacheEntry, Cached
    <2> QED
      BY <2>1 DEF Entries
  <1> QED
    BY <1>1, SearchAlways, PTL

\* The results page (flights/page.tsx): with no search out, the list answers the last search
\* sent, or restored from sessionStorage, which is the form's unless that lacks an airport or
\* a date, unless an answer came after a later one's; and the page waits only for a search
\* that is out.
THEOREM ResultsDoAnswer ==
  Spec => []ResultsAnswerSearch
  <1>1. SearchInv => ResultsAnswerSearch
    <2> SUFFICES ASSUME SearchInv
                 PROVE  ResultsAnswerSearch
      OBVIOUS
    <2>1. PageOK
      <3>1. SearchTypes /\ BudgetInv /\ PageInv
        BY DEF SearchInv
      <3>2. bucket.last \in 0 .. now
        BY <3>1 DEF SearchTypes, BudgetInv
      <3> QED
        BY <3>1, <3>2 DEF SearchTypes, PageInv, PageOK, PageStates
    <2>2. ASSUME Out = {}, ~ crossed, page.shown # Nothing
          PROVE  page.shown = page.sent
      <3>1. ~ \E r \in Requests : IsLast(r)
        BY <2>2 DEF IsLast, Out
      <3> QED
        BY <2>2, <3>1 DEF SearchInv, PageInv, LastIsOver
    <2> QED
      BY <2>1, <2>2 DEF ResultsAnswerSearch
  <1> QED
    BY <1>1, SearchAlways, PTL
-----------------------------------------------------------------------------
(* The people of a booking. *)

Upto(S, k) == {j \in S : j <= k}

\* How many of some numbers a number is not below.
LEMMA Ranks ==
  ASSUME NEW n \in Nat, NEW S \in SUBSET (1 .. n)
  PROVE  /\ IsFiniteSet(S) /\ Cardinality(S) \in Nat
         /\ \A k \in S : Cardinality(Upto(S, k)) \in 1 .. Cardinality(S)
         /\ \A k, l \in S : Cardinality(Upto(S, k)) = Cardinality(Upto(S, l)) => k = l
  <1>1. IsFiniteSet(S) /\ Cardinality(S) \in Nat /\ S \subseteq Nat
    <2>1. IsFiniteSet(1 .. n)
      BY FS_Interval
    <2>2. IsFiniteSet(S)
      BY <2>1, FS_Subset
    <2>3. \A k \in 1 .. n : k \in Nat
      OBVIOUS
    <2> QED
      BY <2>2, <2>3, FS_CardinalityType
  <1>2. ASSUME NEW k \in S
        PROVE  /\ Upto(S, k) \subseteq S /\ k \in Upto(S, k) /\ IsFiniteSet(Upto(S, k))
               /\ Cardinality(Upto(S, k)) \in 1 .. Cardinality(S)
    <2>1. Upto(S, k) \subseteq S /\ k \in Upto(S, k)
      BY DEF Upto
    <2>2. /\ IsFiniteSet(Upto(S, k)) /\ Cardinality(Upto(S, k)) \in Nat
          /\ Cardinality(Upto(S, k)) <= Cardinality(S)
      BY <1>1, <2>1, FS_Subset, FS_CardinalityType
    <2>3. Cardinality(Upto(S, k)) # 0
      BY <2>1, <2>2, FS_EmptySet
    <2> QED
      BY <1>1, <2>1, <2>2, <2>3
  <1>3. ASSUME NEW k \in S, NEW l \in S, k < l
        PROVE  Cardinality(Upto(S, k)) # Cardinality(Upto(S, l))
    <2>1. k \in Nat /\ l \in Nat /\ \A j \in S : j \in Nat
      BY <1>1
    <2>2. \A j \in Nat : j <= k => j <= l /\ j # l
      BY <1>3, <2>1
    <2>3. Upto(S, k) \subseteq Upto(S, l) /\ l \notin Upto(S, k)
      BY <2>1, <2>2 DEF Upto
    <2> QED
      BY <1>2, <2>3, FS_Subset
  <1>4. \A k, l \in S : k = l \/ k < l \/ l < k
    BY <1>1
  <1> QED
    BY <1>1, <1>2, <1>3, <1>4

\* There is an n-th of them, and only one.
LEMMA NthIsThere ==
  ASSUME NEW n \in Nat, NEW S \in SUBSET (1 .. n), NEW t \in 1 .. Cardinality(S)
  PROVE  Nth(S, t) \in S /\ Cardinality(Upto(S, Nth(S, t))) = t
  <1>1. PICK m \in Nat : m = Cardinality(S)
    BY Ranks
  <1>2. IsFiniteSet(S) /\ IsFiniteSet(1 .. m) /\ Cardinality(1 .. m) = m
    <2>1. IsFiniteSet(1 .. m) /\ Cardinality(1 .. m) = IF 1 > m THEN 0 ELSE m - 1 + 1
      BY FS_Interval
    <2>2. Cardinality(1 .. m) = m
      BY <2>1
    <2> QED
      BY <2>1, <2>2, Ranks
  <1>3. PICK rank : rank = [k \in S |-> Cardinality(Upto(S, k))]
    OBVIOUS
  <1>4. rank \in [S -> 1 .. m]
    BY <1>1, <1>3, Ranks
  <1>5. \A k, l \in S : rank[k] = rank[l] => k = l
    BY <1>3, Ranks
  <1>6. rank \in Injection(S, 1 .. m)
    BY <1>4, <1>5 DEF Injection, IsInjective
  <1>7. rank \in Surjection(S, 1 .. m)
    BY <1>1, <1>2, <1>6, FS_Injection
  <1>8. PICK k \in S : rank[k] = t
    BY <1>1, <1>7 DEF Surjection
  <1>9. \E x \in S : Cardinality({j \in S : j <= x}) = t
    BY <1>3, <1>8 DEF Upto
  <1> QED
    BY <1>9 DEF Nth, Upto

\* Distinct members of a set as large as another, in that one, are all of it.
LEMMA AllAreTaken ==
  ASSUME NEW n \in Nat, NEW f \in [1 .. n -> 1 .. n], \A i, j \in 1 .. n : f[i] = f[j] => i = j
  PROVE  {f[i] : i \in 1 .. n} = 1 .. n
  <1>1. IsFiniteSet(1 .. n)
    BY FS_Interval
  <1>2. f \in Injection(1 .. n, 1 .. n)
    BY DEF Injection, IsInjective
  <1>3. f \in Surjection(1 .. n, 1 .. n)
    BY <1>1, <1>2, FS_Injection
  <1> QED
    BY <1>3 DEF Surjection

PartyTypes ==
    /\ offer \in Seq({"adult", "child", "infant_without_seat", "by_age"})
    /\ documents \in BOOLEAN

\* The offer passengers of a type.
LEMMA TypesApart ==
  ASSUME PartyTypes
  PROVE  /\ Len(offer) \in Nat
         /\ \A type : OfType(type) \in SUBSET (1 .. Len(offer))
         /\ \A type : \A k \in OfType(type) : Normalized(offer[k]) = type
         /\ "none" \notin PassengerType
  BY DEF PartyTypes, OfType, PassengerType

\* The supplier's id of a passenger tells by whose turn it was taken.
LEMMA IdTells ==
  ASSUME PartyTypes, NEW n \in Nat, NEW party \in [1 .. n -> Person], NEW i \in 1 .. n
  PROVE  /\ ~ Left(party, i) =>
               LET of == OfType(party[i].type) IN
               /\ SupplierId(party, i) \in of
               /\ Cardinality(Upto(of, SupplierId(party, i))) = Turn(party, i)
         /\ Left(party, i) /\ SupplierId(party, i) # 0 =>
               LET of == OfType("none") IN
               /\ SupplierId(party, i) \in of
               /\ Cardinality(Upto(of, SupplierId(party, i))) = LeftTurn(party, i)
  <1>1. /\ Len(offer) \in Nat
        /\ \A type : OfType(type) \in SUBSET (1 .. Len(offer)) /\ Cardinality(OfType(type)) \in Nat
    BY TypesApart, Ranks
  <1>2. PICK S : S = {j \in 1 .. n : party[j].type = party[i].type}
    OBVIOUS
  <1>3. S \in SUBSET (1 .. n) /\ i \in S
    BY <1>2
  <1>4. Upto(S, i) = {j \in 1 .. i : party[j].type = party[i].type}
    BY <1>2 DEF Upto
  <1>5. Turn(party, i) \in Nat /\ Turn(party, i) >= 1
    <2>1. Cardinality(S) \in Nat /\ Cardinality(Upto(S, i)) \in 1 .. Cardinality(S)
      BY <1>3, Ranks
    <2>2. Turn(party, i) = Cardinality(Upto(S, i))
      BY <1>4 DEF Turn
    <2> QED
      BY <2>1, <2>2
  <1>6. ASSUME ~ Left(party, i)
        PROVE  LET of == OfType(party[i].type) IN
               /\ SupplierId(party, i) \in of
               /\ Cardinality(Upto(of, SupplierId(party, i))) = Turn(party, i)
    <2>1. PICK of \in SUBSET (1 .. Len(offer)) : of = OfType(party[i].type)
      BY <1>1
    <2>2. Turn(party, i) \in 1 .. Cardinality(of)
      BY <1>1, <1>5, <1>6, <2>1 DEF Left
    <2>3. SupplierId(party, i) = Nth(of, Turn(party, i))
      BY <1>6, <2>1 DEF SupplierId
    <2> QED
      BY <1>1, <2>1, <2>2, <2>3, NthIsThere
  <1>7. ASSUME Left(party, i), SupplierId(party, i) # 0
        PROVE  LET of == OfType("none") IN
               /\ SupplierId(party, i) \in of
               /\ Cardinality(Upto(of, SupplierId(party, i))) = LeftTurn(party, i)
    <2>1. PICK of \in SUBSET (1 .. Len(offer)) : of = OfType("none")
      BY <1>1
    <2>2. PICK L : L = {j \in 1 .. n : Left(party, j)}
      OBVIOUS
    <2>3. L \in SUBSET (1 .. n) /\ i \in L
      BY <1>7, <2>2
    <2>4. Upto(L, i) = {j \in 1 .. i : Left(party, j)}
      BY <2>2 DEF Upto
    <2>5. LeftTurn(party, i) \in Nat /\ LeftTurn(party, i) >= 1
      <3>1. Cardinality(L) \in Nat /\ Cardinality(Upto(L, i)) \in 1 .. Cardinality(L)
        BY <2>3, Ranks
      <3>2. LeftTurn(party, i) = Cardinality(Upto(L, i))
        BY <2>4 DEF LeftTurn
      <3> QED
        BY <3>1, <3>2
    <2>6. /\ LeftTurn(party, i) <= Cardinality(of)
          /\ SupplierId(party, i) = Nth(of, LeftTurn(party, i))
      BY <1>7, <2>1 DEF SupplierId
    <2>7. LeftTurn(party, i) \in 1 .. Cardinality(of)
      BY <1>1, <2>1, <2>5, <2>6
    <2> QED
      BY <1>1, <2>1, <2>6, <2>7, NthIsThere
  <1> QED
    BY <1>6, <1>7

\* No id is given twice.
LEMMA IdsDiffer ==
  ASSUME PartyTypes, NEW n \in Nat, NEW party \in [1 .. n -> Person],
         NEW i \in 1 .. n, NEW j \in 1 .. n, SupplierId(party, i) # 0,
         SupplierId(party, i) = SupplierId(party, j)
  PROVE  i = j
  <1>1. PICK id : id = SupplierId(party, i)
    OBVIOUS
  <1>2. party[i].type \in PassengerType /\ party[j].type \in PassengerType
    BY DEF Person
  <1>3. /\ ~ Left(party, i) => /\ id \in OfType(party[i].type)
                               /\ Cardinality(Upto(OfType(party[i].type), id)) = Turn(party, i)
        /\ Left(party, i) => /\ id \in OfType("none")
                             /\ Cardinality(Upto(OfType("none"), id)) = LeftTurn(party, i)
    BY <1>1, IdTells
  <1>4. /\ ~ Left(party, j) => /\ id \in OfType(party[j].type)
                               /\ Cardinality(Upto(OfType(party[j].type), id)) = Turn(party, j)
        /\ Left(party, j) => /\ id \in OfType("none")
                             /\ Cardinality(Upto(OfType("none"), id)) = LeftTurn(party, j)
    BY <1>1, IdTells
  <1>5. CASE ~ Left(party, i)
    <2>1. Normalized(offer[id]) = party[i].type
      BY <1>3, <1>5, TypesApart
    <2>2. ~ Left(party, j) /\ party[i].type = party[j].type
      BY <1>2, <1>4, <2>1, TypesApart
    <2>3. Turn(party, i) = Turn(party, j)
      BY <1>3, <1>4, <1>5, <2>2
    <2>4. PICK S \in SUBSET (1 .. n) : S = {l \in 1 .. n : party[l].type = party[i].type}
      OBVIOUS
    <2>5. /\ i \in S /\ j \in S
          /\ Upto(S, i) = {l \in 1 .. i : party[l].type = party[i].type}
          /\ Upto(S, j) = {l \in 1 .. j : party[l].type = party[j].type}
      BY <2>2, <2>4 DEF Upto
    <2> QED
      BY <2>3, <2>5, Ranks DEF Turn
  <1>6. CASE Left(party, i)
    <2>1. Normalized(offer[id]) = "none"
      BY <1>3, <1>6, TypesApart
    <2>2. Left(party, j)
      BY <1>2, <1>4, <2>1, TypesApart
    <2>3. LeftTurn(party, i) = LeftTurn(party, j)
      BY <1>3, <1>4, <1>6, <2>2
    <2>4. PICK L \in SUBSET (1 .. n) : L = {l \in 1 .. n : Left(party, l)}
      OBVIOUS
    <2>5. /\ i \in L /\ j \in L
          /\ Upto(L, i) = {l \in 1 .. i : Left(party, l)}
          /\ Upto(L, j) = {l \in 1 .. j : Left(party, l)}
      BY <1>6, <2>2, <2>4 DEF Upto
    <2> QED
      BY <2>3, <2>5, Ranks DEF LeftTurn
  <1> QED
    BY <1>5, <1>6
\* Whom the passengers of an accepted request are: all of the offer, each of its own type or of
\* none, with the documents, and the infants with an adult of the same request.
Fits(party) ==
    LET N == 1 .. Len(offer) IN
    /\ \A i \in N : /\ party[i].type \in PassengerType
                    /\ party[i].id \in N
                    /\ Normalized(offer[party[i].id]) \in {party[i].type, "none"}
                    /\ documents => party[i].document
                    /\ party[i].type = "infant" => party[i].adult \in N
    /\ \A i, j \in N : party[i].id = party[j].id => i = j

SavedInv ==
    stage \in {"saved", "ordered"} =>
        /\ Len(rows) = Len(offer)
        /\ Fits(rows)

\* Each adult has an infant of those that name it, if there is any.
OrderInv ==
    stage = "ordered" =>
        /\ Len(order) = Len(rows)
        /\ \A i \in 1 .. Len(rows) :
              /\ order[i].id = rows[i].id /\ order[i].document = rows[i].document
              /\ IF InfantsOf(i) = {} THEN order[i].infant = 0
                 ELSE \E k \in InfantsOf(i) : order[i].infant = rows[k].id

RefusedInv ==
    stage = "refused" /\ ownForm => \E k \in 1 .. Len(offer) : Normalized(offer[k]) = "none"

PartyInv == PartyTypes /\ SavedInv /\ OrderInv /\ RefusedInv

\* The page's own request is accepted if Duffel gave every passenger a type.
LEMMA OwnFormAccepted ==
  ASSUME PartyTypes, NEW n \in Nat, NEW party \in [1 .. n -> Person], PageMakes(party),
         \A k \in 1 .. Len(offer) : Normalized(offer[k]) # "none"
  PROVE  Accepted(party)
  <1>1. /\ Len(party) = n /\ n = Len(offer)
        /\ \A i \in 1 .. n : party[i].type = Normalized(offer[i]) /\ party[i].document = documents
    <2>1. Len(party) = n
      OBVIOUS
    <2>2. n = Len(offer)
      BY <2>1 DEF PageMakes
    <2> QED
      BY <2>1, <2>2 DEF PageMakes
  <1>2. ASSUME NEW i \in 1 .. n
        PROVE  SupplierId(party, i) # 0
    <2>1. PICK of \in SUBSET (1 .. n) : of = OfType(party[i].type)
      BY <1>1, TypesApart
    <2>2. PICK S : S = {j \in 1 .. i : party[j].type = party[i].type}
      OBVIOUS
    <2>3. S \subseteq of
      <3>1. \A j \in 1 .. i : j \in 1 .. n
        OBVIOUS
      <3> QED
        BY <1>1, <2>1, <2>2, <3>1 DEF OfType
    <2>4. IsFiniteSet(of) /\ Cardinality(of) \in Nat /\ Cardinality(S) <= Cardinality(of) /\ Cardinality(S) \in Nat
      BY <2>3, Ranks, FS_Subset, FS_CardinalityType
    <2>5. ~ Left(party, i)
      <3>1. ~ Cardinality(S) > Cardinality(of)
        BY <2>4
      <3> QED
        BY <2>1, <2>2, <3>1 DEF Left, Turn
    <2>6. SupplierId(party, i) \in of
      BY <2>1, <2>5, IdTells
    <2> QED
      BY <2>6
  <1>3. ASSUME NEW i \in 1 .. n, party[i].type = "infant"
        PROVE  HasAdult(party, i)
    BY <1>1, <1>3 DEF PageMakes, HasAdult
  <1> QED
    BY <1>1, <1>2, <1>3 DEF Accepted

LEMMA SaveKeeps ==
  ASSUME PartyInv, NEW n \in 1 .. MaxParty, NEW party \in [1 .. n -> Person], SaveParty(party)
  PROVE  PartyInv'
  <1>1. n \in Nat /\ Len(party) = n
    BY PassengersAssumption
  <1>2. PartyTypes /\ PartyTypes' /\ UNCHANGED <<offer, documents, order>>
    BY DEF PartyInv, PartyTypes, SaveParty
  <1>3. CASE Accepted(party)
    <2>1. /\ stage' = "saved" /\ Len(offer) = n
          /\ rows' = [i \in 1 .. n |->
                [type |-> party[i].type, id |-> SupplierId(party, i),
                 adult |-> IF party[i].type = "infant" THEN party[i].adult ELSE 0,
                 document |-> party[i].document]]
      BY <1>1, <1>3 DEF SaveParty, Accepted
    <2>2. Len(rows') = n
      BY <1>1, <2>1
    <2>3. ASSUME NEW i \in 1 .. n
          PROVE  /\ rows'[i].type = party[i].type /\ rows'[i].id = SupplierId(party, i)
                 /\ rows'[i].type = "infant" => rows'[i].adult = party[i].adult
                 /\ rows'[i].document = party[i].document
      BY <2>1
    <2>4. \A i \in 1 .. n : /\ SupplierId(party, i) # 0 /\ party[i].type \in PassengerType
                            /\ documents => party[i].document
                            /\ party[i].type = "infant" => HasAdult(party, i)
      BY <1>1, <1>3 DEF Accepted, Person
    <2>5. ASSUME NEW i \in 1 .. n
          PROVE  /\ SupplierId(party, i) \in 1 .. n
                 /\ Normalized(offer[SupplierId(party, i)]) \in {party[i].type, "none"}
      <3>1. SupplierId(party, i) \in OfType(party[i].type) \/ SupplierId(party, i) \in OfType("none")
        BY <1>1, <1>2, <2>4, IdTells
      <3> QED
        BY <1>2, <2>1, <3>1, TypesApart
    <2>6. \A i, j \in 1 .. n : SupplierId(party, i) = SupplierId(party, j) => i = j
      BY <1>1, <1>2, <2>4, IdsDiffer
    <2>7. \A i \in 1 .. n : party[i].type = "infant" => party[i].adult \in 1 .. n
      BY <1>1, <2>4 DEF HasAdult
    <2>8. Fits(rows)'
      <3>1. Len(offer') = n /\ offer' = offer /\ documents' = documents
        BY <1>2, <2>1
      <3>2. \A i \in 1 .. n : /\ rows'[i].type \in PassengerType
                              /\ rows'[i].id \in 1 .. n
                              /\ Normalized(offer[rows'[i].id]) \in {rows'[i].type, "none"}
                              /\ documents => rows'[i].document
                              /\ rows'[i].type = "infant" => rows'[i].adult \in 1 .. n
        BY <2>3, <2>4, <2>5, <2>7
      <3>3. \A i, j \in 1 .. n : rows'[i].id = rows'[j].id => i = j
        BY <2>3, <2>6
      <3> QED
        BY <3>1, <3>2, <3>3 DEF Fits, Normalized
    <2> QED
      BY <1>2, <2>1, <2>2, <2>8 DEF PartyInv, SavedInv, OrderInv, RefusedInv
  <1>4. CASE ~ Accepted(party)
    <2>1. stage' = "refused" /\ ownForm' = PageMakes(party)
      BY <1>4 DEF SaveParty
    <2>2. PageMakes(party) => \E k \in 1 .. Len(offer) : Normalized(offer[k]) = "none"
      BY <1>1, <1>2, <1>4, OwnFormAccepted
    <2>3. RefusedInv'
      BY <1>2, <2>1, <2>2 DEF RefusedInv, Normalized
    <2> QED
      BY <1>2, <2>1, <2>3 DEF PartyInv, SavedInv, OrderInv
  <1> QED
    BY <1>3, <1>4

LEMMA FulfillKeeps ==
  ASSUME PartyInv, FulfillParty
  PROVE  PartyInv'
  <1>1. /\ PartyTypes /\ SavedInv /\ stage = "saved" /\ stage' = "ordered"
        /\ UNCHANGED <<offer, documents, rows, ownForm>>
    BY DEF PartyInv, FulfillParty
  <1>2. Len(rows) = Len(offer) /\ Len(rows) \in Nat /\ Fits(rows)
    BY <1>1 DEF SavedInv, PartyTypes
  <1>3. PICK first \in [1 .. Len(rows) -> 0 .. Len(rows)] :
           /\ \A i \in 1 .. Len(rows) :
                 first[i] \in IF InfantsOf(i) = {} THEN {0} ELSE InfantsOf(i)
           /\ order' = [i \in 1 .. Len(rows) |->
                 [id |-> rows[i].id, document |-> rows[i].document,
                  infant |-> IF first[i] = 0 THEN 0 ELSE rows[first[i]].id]]
    BY DEF FulfillParty
  <1>4. Len(order') = Len(rows)
    BY <1>2, <1>3
  <1>5. \A i : InfantsOf(i)' = InfantsOf(i)
    BY <1>1 DEF InfantsOf
  <1>6. ASSUME NEW i \in 1 .. Len(rows)
        PROVE  /\ order'[i].id = rows[i].id /\ order'[i].document = rows[i].document
               /\ IF InfantsOf(i) = {} THEN order'[i].infant = 0
                  ELSE \E k \in InfantsOf(i) : order'[i].infant = rows[k].id
    <2>1. /\ order'[i].id = rows[i].id /\ order'[i].document = rows[i].document
          /\ order'[i].infant = IF first[i] = 0 THEN 0 ELSE rows[first[i]].id
      BY <1>3
    <2>2. 0 \notin InfantsOf(i)
      BY <1>2 DEF InfantsOf
    <2> QED
      BY <1>3, <2>1, <2>2
  <1>7. OrderInv'
    BY <1>1, <1>4, <1>5, <1>6 DEF OrderInv
  <1>8. PartyTypes' /\ SavedInv' /\ RefusedInv'
    BY <1>1 DEF PartyInv, PartyTypes, SavedInv, RefusedInv, Fits, Normalized
  <1> QED
    BY <1>7, <1>8 DEF PartyInv

LEMMA PartyAlways == SpecParty => []PartyInv
  <1>1. ASSUME InitParty
        PROVE  PartyInv
    <2>1. PICK n \in 1 .. MaxParty : offer \in [1 .. n -> {"adult", "child", "infant_without_seat", "by_age"}]
      BY <1>1 DEF InitParty
    <2>2. n \in Nat
      BY PassengersAssumption
    <2>3. PartyTypes
      BY <1>1, <2>1, <2>2 DEF InitParty, PartyTypes
    <2> QED
      BY <1>1, <2>3 DEF InitParty, PartyInv, SavedInv, OrderInv, RefusedInv
  <1>2. ASSUME PartyInv, [NextParty]_partyVars
        PROVE  PartyInv'
    <2>1. CASE \E n \in 1 .. MaxParty : \E party \in [1 .. n -> Person] : SaveParty(party)
      BY <1>2, <2>1, SaveKeeps
    <2>2. CASE FulfillParty
      BY <1>2, <2>2, FulfillKeeps
    <2>3. CASE UNCHANGED partyVars
      BY <1>2, <2>3 DEF partyVars, PartyInv, PartyTypes, SavedInv, OrderInv, RefusedInv, Fits,
                        Normalized, InfantsOf
    <2> QED
      BY <1>2, <2>1, <2>2, <2>3 DEF NextParty
  <1> QED
    BY <1>1, <1>2, PTL DEF SpecParty

\* What the customer paid for can be ordered: the order names every passenger of the offer once,
\* under a type Duffel gave it or left open, with the documents, and every infant travels with
\* the adult that answers for it; and the page's own request is refused only for an offer
\* passenger whose type Duffel left open.
THEOREM OrdersFitOffers == SpecParty => []OrderFitsOffer
  <1>1. ASSUME PartyInv
        PROVE  OrderFitsOffer
    <2>1. PartyTypes /\ SavedInv /\ OrderInv /\ RefusedInv
      BY <1>1 DEF PartyInv
    <2>2. SUFFICES ASSUME stage = "ordered"
          PROVE  /\ Len(order) = Len(offer)
                 /\ {order[i].id : i \in 1 .. Len(order)} = 1 .. Len(offer)
                 /\ \A i \in 1 .. Len(order) :
                       /\ Normalized(offer[order[i].id]) \in {rows[i].type, "none"}
                       /\ documents => order[i].document
                       /\ rows[i].type = "infant" =>
                             LET adult == rows[i].adult IN
                             /\ {j \in 1 .. Len(order) : order[j].infant = order[i].id} \subseteq {adult}
                             /\ order[adult].infant = order[i].id \/ InfantsOf(adult) # {i}
      BY <2>1 DEF OrderFitsOffer, RefusedInv
    <2>3. PICK n \in Nat : n = Len(offer)
      BY <2>1 DEF PartyTypes
    <2>4. /\ Len(rows) = n /\ Len(order) = n
          /\ \A i \in 1 .. n : /\ rows[i].type \in PassengerType
                               /\ rows[i].id \in 1 .. n
                               /\ Normalized(offer[rows[i].id]) \in {rows[i].type, "none"}
                               /\ documents => rows[i].document
                               /\ rows[i].type = "infant" => rows[i].adult \in 1 .. n
          /\ \A i, j \in 1 .. n : rows[i].id = rows[j].id => i = j
      BY <2>1, <2>2, <2>3 DEF SavedInv, OrderInv, Fits
    <2>5. \A i \in 1 .. n :
             /\ order[i].id = rows[i].id /\ order[i].document = rows[i].document
             /\ IF InfantsOf(i) = {} THEN order[i].infant = 0
                ELSE \E k \in InfantsOf(i) : order[i].infant = rows[k].id
      BY <2>1, <2>2, <2>4 DEF OrderInv
    <2>6. {order[i].id : i \in 1 .. n} = 1 .. n
      <3>1. PICK f : f = [i \in 1 .. n |-> rows[i].id]
        OBVIOUS
      <3>2. f \in [1 .. n -> 1 .. n] /\ \A i, j \in 1 .. n : f[i] = f[j] => i = j
        BY <2>4, <3>1
      <3>3. {f[i] : i \in 1 .. n} = 1 .. n
        BY <3>2, AllAreTaken
      <3>4. \A i \in 1 .. n : order[i].id = f[i]
        BY <2>5, <3>1
      <3> QED
        BY <3>3, <3>4
    <2>7. ASSUME NEW i \in 1 .. n, rows[i].type = "infant"
          PROVE  /\ {j \in 1 .. n : order[j].infant = order[i].id} \subseteq {rows[i].adult}
                 /\ order[rows[i].adult].infant = order[i].id \/ InfantsOf(rows[i].adult) # {i}
      <3>1. order[i].id = rows[i].id /\ rows[i].id # 0
        BY <2>4, <2>5
      <3>2. ASSUME NEW j \in 1 .. n, order[j].infant = order[i].id
            PROVE  j = rows[i].adult
        <4>1. PICK k \in InfantsOf(j) : order[j].infant = rows[k].id
          BY <2>5, <3>1, <3>2
        <4>2. k \in 1 .. n /\ rows[k].adult = j
          BY <2>4, <4>1 DEF InfantsOf
        <4>3. k = i
          BY <2>4, <3>1, <3>2, <4>1, <4>2
        <4> QED
          BY <4>2, <4>3
      <3>3. PICK a \in 1 .. n : a = rows[i].adult
        BY <2>4, <2>7
      <3>4. ASSUME InfantsOf(a) = {i}
            PROVE  order[a].infant = order[i].id
        BY <2>5, <3>1, <3>3, <3>4
      <3> QED
        BY <3>2, <3>3, <3>4
    <2> QED
      BY <2>3, <2>4, <2>5, <2>6, <2>7
  <1> QED
    BY <1>1, PartyAlways, PTL

-----------------------------------------------------------------------------
(* The console: two admins who edit the same rows. *)

\* Only an activation deactivates other rules.
RulesInv ==
    /\ rule \in [Rules -> {"none", "on", "off"}]
    /\ DOMAIN admin = Admins
    /\ \A a \in Admins :
          /\ admin[a].pc \in {"clearing", "saving"} =>
                /\ admin[a].row \in Rules /\ admin[a].ask \in {"on", "off", "value"}
                /\ admin[a].ask = "value" => admin[a].read \in {"on", "off"}
          /\ admin[a].pc = "clearing" => admin[a].ask = "on"
          /\ admin[a].pc = "saving" => admin[a].clears = {} \/ admin[a].ask = "on"

\* What a request of admin a must be for the invariant.
RuleRequest(q) ==
    /\ q.pc \in {"clearing", "saving"} =>
          /\ q.row \in Rules /\ q.ask \in {"on", "off", "value"}
          /\ q.ask = "value" => q.read \in {"on", "off"}
    /\ q.pc = "clearing" => q.ask = "on"
    /\ q.pc = "saving" => q.clears = {} \/ q.ask = "on"

LEMMA RequestKeepsRules ==
  ASSUME RulesInv, NEW a \in Admins, NEW q, RuleRequest(q), admin' = [admin EXCEPT ![a] = q],
         rule' \in [Rules -> {"none", "on", "off"}]
  PROVE  RulesInv'
  <1>1. /\ DOMAIN admin' = Admins /\ admin'[a] = q
        /\ \A x \in Admins : x # a => admin'[x] = admin[x]
    BY DEF RulesInv
  <1> QED
    BY <1>1 DEF RulesInv, RuleRequest

LEMMA EditsKeepRules ==
  ASSUME RulesInv, [NextEdits]_editVars
  PROVE  RulesInv'
  <1>0. rule \in [Rules -> {"none", "on", "off"}]
    BY DEF RulesInv
  <1>1. RuleRequest(AtRest)
    BY DEF RuleRequest, AtRest
  <1>2. CASE UNCHANGED <<rule, admin>>
    BY <1>2 DEF RulesInv
  <1>3. ASSUME NEW a \in Admins, NEW r \in Rules, NEW on \in BOOLEAN, CreateRule(a, r, on)
        PROVE  RulesInv'
    <2>1. PICK q : q = [AtRest EXCEPT !.pc = IF on THEN "clearing" ELSE "saving", !.row = r,
                                      !.ask = IF on THEN "on" ELSE "off", !.read = "none"]
      OBVIOUS
    <2>2. RuleRequest(q)
      BY <2>1 DEF RuleRequest, AtRest
    <2>3. admin' = [admin EXCEPT ![a] = q] /\ rule' = rule
      BY <1>3, <2>1 DEF CreateRule, Begin
    <2> QED
      BY <1>0, <2>2, <2>3, RequestKeepsRules
  <1>4. ASSUME NEW a \in Admins, NEW r \in Rules, NEW ask \in {"on", "off", "value"}, PatchRule(a, r, ask)
        PROVE  RulesInv'
    <2>1. PICK q : q = [AtRest EXCEPT !.pc = IF ask = "on" /\ rule[r] = "off"
                                             THEN "clearing" ELSE "saving",
                                      !.row = r, !.ask = ask, !.read = rule[r]]
      OBVIOUS
    <2>2. rule[r] \in {"on", "off"}
      BY <1>0, <1>4 DEF PatchRule
    <2>3. RuleRequest(q)
      BY <2>1, <2>2 DEF RuleRequest, AtRest
    <2>4. admin' = [admin EXCEPT ![a] = q] /\ rule' = rule
      BY <1>4, <2>1 DEF PatchRule, Begin
    <2> QED
      BY <1>0, <2>3, <2>4, RequestKeepsRules
  <1>5. ASSUME NEW a \in Admins, ClearActive(a)
        PROVE  RulesInv'
    <2>1. PICK q : q = [admin[a] EXCEPT !.pc = "saving", !.clears = Active]
      OBVIOUS
    <2>2. admin' = [admin EXCEPT ![a] = q] /\ rule' = rule /\ admin[a].pc = "clearing"
      BY <1>5, <2>1 DEF ClearActive
    <2>3. q.row = admin[a].row /\ q.ask = admin[a].ask /\ q.read = admin[a].read
      BY <2>1
    <2>4. admin[a].row \in Rules /\ admin[a].ask = "on"
      BY <2>2 DEF RulesInv
    <2>5. q.pc # "clearing"
      BY <2>1, <2>2
    <2>6. RuleRequest(q)
      BY <2>3, <2>4, <2>5 DEF RuleRequest
    <2> QED
      BY <1>0, <2>2, <2>6, RequestKeepsRules
  <1>6. ASSUME NEW a \in Admins, SaveRule(a)
        PROVE  RulesInv'
    <2>1. PICK value : value = IF admin[a].ask = "value" THEN admin[a].read ELSE admin[a].ask
      OBVIOUS
    <2>2. value \in {"on", "off"} /\ admin' = [admin EXCEPT ![a] = AtRest]
      BY <1>6, <2>1 DEF SaveRule, RulesInv
    <2>3. \/ rule' = rule
          \/ rule' = [x \in Rules |-> IF x = admin[a].row THEN value
                                      ELSE IF x \in admin[a].clears THEN "off"
                                      ELSE rule[x]]
      BY <1>6, <2>1 DEF SaveRule
    <2>4. rule' \in [Rules -> {"none", "on", "off"}]
      BY <1>0, <2>2, <2>3
    <2> QED
      BY <1>1, <2>2, <2>4, RequestKeepsRules
  <1>7. ASSUME NEW a \in Admins, SaveTicket(a)
        PROVE  RulesInv'
    <2>1. admin' = [admin EXCEPT ![a] = AtRest] /\ rule' = rule
      BY <1>7 DEF SaveTicket
    <2> QED
      BY <1>0, <1>1, <2>1, RequestKeepsRules
  <1>8. ASSUME NEW a \in Admins, NEW to \in TicketStatus, NEW note \in Notes \union {NoNote}, SubmitForm(a, to, note)
        PROVE  RulesInv'
    <2>1. PICK q : q = [AtRest EXCEPT !.pc = "ticket", !.row = form[a], !.read = ticket[form[a]],
                                      !.ask = [status |-> to, note |-> note]]
      OBVIOUS
    <2>2. RuleRequest(q)
      BY <2>1 DEF RuleRequest, AtRest
    <2>3. admin' = [admin EXCEPT ![a] = q] /\ rule' = rule
      BY <1>8, <2>1 DEF SubmitForm, Begin
    <2> QED
      BY <1>0, <2>2, <2>3, RequestKeepsRules
  <1>9. ASSUME \/ \E t \in Tickets : CreateTicket(t)
               \/ \E a \in Admins, t \in Tickets : OpenForm(a, t)
               \/ UNCHANGED editVars
        PROVE  RulesInv'
    <2>1. UNCHANGED <<rule, admin>>
      BY <1>9 DEF CreateTicket, OpenForm, editVars
    <2> QED
      BY <1>2, <2>1
  <1> QED
    BY <1>3, <1>4, <1>5, <1>6, <1>7, <1>8, <1>9 DEF NextEdits

\* Markup rules (admin.service.ts createMarkupRule and updateMarkupRule, each one transaction,
\* and the partial unique index behind them): however many admins edit the rules, and whichever
\* of their requests fail on the index, the active rule is replaced by another or ends with a
\* save of its own row, by an admin who turned it off or had read it as inactive.
THEOREM ActiveRulesStay ==
  SpecEdits => ActiveRuleStays
  <1>1. InitEdits => RulesInv
    <2> SUFFICES ASSUME InitEdits
                 PROVE  RulesInv
      OBVIOUS
    <2>1. /\ rule = [r \in Rules |-> "none"] /\ DOMAIN admin = Admins
          /\ \A a \in Admins : admin[a].pc = "idle"
      BY DEF InitEdits, AtRest
    <2> QED
      BY <2>1 DEF RulesInv
  <1>2. RulesInv /\ [NextEdits]_editVars => RulesInv'
    BY EditsKeepRules
  <1>3. ASSUME RulesInv, [NextEdits]_editVars, NEW r \in Active \ Active', Active' = {}
        PROVE  \E a \in Admins : /\ admin[a].row = r /\ admin'[a] = AtRest
                                 /\ admin[a].ask = "off" \/ admin[a].read = "off"
    <2>1. rule' # rule
      BY <1>3 DEF Active
    <2>2. PICK a \in Admins : SaveRule(a)
      BY <1>3, <2>1 DEF NextEdits, CreateTicket, CreateRule, PatchRule, ClearActive, SaveTicket,
                        OpenForm, SubmitForm, editVars
    <2>3. PICK value : value = IF admin[a].ask = "value" THEN admin[a].read ELSE admin[a].ask
      OBVIOUS
    <2>4. /\ admin[a].pc = "saving" /\ admin' = [admin EXCEPT ![a] = AtRest]
          /\ rule' = [x \in Rules |-> IF x = admin[a].row THEN value
                                      ELSE IF x \in admin[a].clears THEN "off"
                                      ELSE rule[x]]
      BY <2>1, <2>2, <2>3 DEF SaveRule
    <2>5. /\ admin[a].row \in Rules /\ admin[a].ask \in {"on", "off", "value"}
          /\ admin[a].ask = "value" => admin[a].read \in {"on", "off"}
          /\ admin[a].clears = {} \/ admin[a].ask = "on"
          /\ admin'[a] = AtRest
      BY <1>3, <2>4 DEF RulesInv
    <2>6. value # "on"
      <3>1. SUFFICES ASSUME value = "on" PROVE FALSE
        OBVIOUS
      <3>2. rule'[admin[a].row] = "on"
        BY <2>4, <2>5, <3>1
      <3> QED
        BY <1>3, <2>5, <3>2 DEF Active
    <2>7. admin[a].clears = {} /\ (admin[a].ask = "off" \/ admin[a].read = "off")
      BY <2>3, <2>5, <2>6
    <2>8. r = admin[a].row
      <3>1. r \in Rules /\ rule[r] = "on" /\ rule'[r] # "on"
        BY <1>3 DEF Active
      <3> QED
        BY <2>4, <2>7, <3>1
    <2> QED
      BY <2>5, <2>7, <2>8
  <1>4. RulesInv /\ [NextEdits]_editVars =>
          [\A r \in Active \ Active' :
              \/ Active' # {}
              \/ \E a \in Admins : /\ admin[a].row = r /\ admin'[a] = AtRest
                                   /\ admin[a].ask = "off" \/ admin[a].read = "off"]_editVars
    BY <1>3
  <1> QED
    BY <1>1, <1>2, <1>4, PTL DEF SpecEdits, ActiveRuleStays

\* What the audit rows tell, read one after the other.
Chained(told, status) ==
    /\ \A i \in 1 .. Len(told) : told[i][1] = IF i = 1 THEN "open" ELSE told[i - 1][2]
    /\ status = IF Len(told) = 0 THEN "open" ELSE told[Len(told)][2]

AuditRows == TicketStatus \X TicketStatus

\* Who has a ticket in a form, or on its way to be saved, has read one that is there.
TicketsInv ==
    /\ stale \in BOOLEAN
    /\ ticket \in [Tickets -> TicketRows \union {NoRow}]
    /\ audit \in [Tickets -> Seq(AuditRows)]
    /\ DOMAIN admin = Admins /\ DOMAIN form = Admins
    /\ \A a \in Admins : form[a] # NoRow => form[a] \in Tickets /\ ticket[form[a]] # NoRow
    /\ \A a \in Admins : admin[a].pc = "ticket" =>
          /\ admin[a].row \in Tickets /\ ticket[admin[a].row] # NoRow
          /\ admin[a].read \in TicketRows /\ admin[a].ask \in TicketRows
    /\ \A t \in Tickets : ticket[t] = NoRow => audit[t] = << >>
    /\ \A t \in Tickets : ~ stale /\ ticket[t] # NoRow => Chained(audit[t], ticket[t].status)

LEMMA ChainedIsUnbroken ==
  ASSUME NEW s \in Seq(AuditRows), NEW status
  PROVE  LET told == <<"open">> \o [i \in 1 .. Len(s) |-> s[i][2]]
         IN  Chained(s, status) <=> /\ \A i \in 1 .. Len(s) : s[i][1] = told[i]
                                    /\ told[Len(told)] = status
  <1> DEFINE second == [i \in 1 .. Len(s) |-> s[i][2]]
             told == <<"open">> \o second
  <1>1. Len(s) \in Nat /\ \A i \in 1 .. Len(s) : s[i] \in AuditRows
    OBVIOUS
  <1>2. second \in Seq(TicketStatus) /\ Len(second) = Len(s)
    BY <1>1 DEF AuditRows
  <1>3. /\ Len(told) = Len(s) + 1 /\ told[1] = "open"
        /\ \A i \in 1 .. Len(s) : told[i + 1] = s[i][2]
    BY <1>1, <1>2
  <1>4. \A i \in 1 .. Len(s) : told[i] = IF i = 1 THEN "open" ELSE s[i - 1][2]
    <2> SUFFICES ASSUME NEW i \in 1 .. Len(s), i # 1
                 PROVE  told[i] = s[i - 1][2]
      BY <1>3
    <2>1. i - 1 \in 1 .. Len(s) /\ (i - 1) + 1 = i
      BY <1>1
    <2> HIDE DEF told
    <2> QED
      BY <1>3, <2>1
  <1>5. told[Len(told)] = IF Len(s) = 0 THEN "open" ELSE s[Len(s)][2]
    BY <1>1, <1>3
  <1> HIDE DEF told
  <1>6. Chained(s, status) <=> /\ \A i \in 1 .. Len(s) : s[i][1] = told[i]
                               /\ told[Len(told)] = status
    BY <1>4, <1>5 DEF Chained
  <1> QED
    BY <1>6 DEF told

LEMMA ChainGrows ==
  ASSUME NEW s \in Seq(AuditRows), NEW from \in TicketStatus, NEW to \in TicketStatus, Chained(s, from)
  PROVE  Chained(Append(s, <<from, to>>), to)
  <1>1. PICK e \in AuditRows : e = <<from, to>> /\ e[1] = from /\ e[2] = to
    <2>1. <<from, to>> \in AuditRows
      BY DEF AuditRows
    <2>2. <<from, to>>[1] = from /\ <<from, to>>[2] = to
      OBVIOUS
    <2> QED
      BY <2>1, <2>2
  <1>2. PICK g \in Seq(AuditRows) : g = Append(s, e)
    <2>1. Append(s, e) \in Seq(AuditRows)
      <3>1. e \in AuditRows
        BY <1>1
      <3> HIDE DEF AuditRows
      <3> QED
        BY <3>1
    <2> QED
      BY <2>1
  <1>3. /\ Len(g) = Len(s) + 1 /\ Len(s) \in Nat /\ g[Len(s) + 1] = e
        /\ \A i \in 1 .. Len(s) : g[i] = s[i]
    BY <1>2
  <1>4. ASSUME NEW i \in 1 .. Len(g)
        PROVE  g[i][1] = IF i = 1 THEN "open" ELSE g[i - 1][2]
    <2>1. CASE i \in 1 .. Len(s)
      <3>1. i = 1 \/ (i - 1 \in 1 .. Len(s) /\ g[i - 1] = s[i - 1])
        BY <1>3, <2>1
      <3>2. g[i] = s[i]
        BY <1>3, <2>1
      <3> QED
        BY <2>1, <3>1, <3>2 DEF Chained
    <2>2. CASE i = Len(s) + 1
      <3>1. g[i][1] = from
        BY <1>1, <1>3, <2>2
      <3>2. CASE Len(s) = 0
        BY <2>2, <3>1, <3>2 DEF Chained
      <3>3. CASE Len(s) # 0
        <4>1. i # 1 /\ i - 1 = Len(s) /\ g[Len(s)] = s[Len(s)]
          BY <1>3, <2>2, <3>3
        <4> QED
          BY <3>1, <3>3, <4>1 DEF Chained
      <3> QED
        BY <3>2, <3>3
    <2> QED
      BY <1>3, <2>1, <2>2
  <1>5. to = g[Len(g)][2] /\ Len(g) # 0
    BY <1>1, <1>3
  <1>6. Chained(g, to)
    BY <1>4, <1>5 DEF Chained
  <1> QED
    BY <1>1, <1>2, <1>6
\* An admin's request starts, or goes on, over the same tickets.
LEMMA RequestKeepsTickets ==
  ASSUME TicketsInv, NEW a \in Admins, NEW new, admin' = [admin EXCEPT ![a] = new],
         UNCHANGED <<ticket, audit, form, stale>>,
         new.pc = "ticket" =>
            /\ new.row \in Tickets /\ ticket[new.row] # NoRow
            /\ new.read \in TicketRows /\ new.ask \in TicketRows
  PROVE  TicketsInv'
  <1>1. /\ DOMAIN admin' = Admins /\ admin'[a] = new
        /\ \A x \in Admins : x # a => admin'[x] = admin[x]
    BY DEF TicketsInv
  <1>2. ASSUME NEW x \in Admins, admin'[x].pc = "ticket"
        PROVE  /\ admin'[x].row \in Tickets /\ ticket[admin'[x].row] # NoRow
               /\ admin'[x].read \in TicketRows /\ admin'[x].ask \in TicketRows
    <2>1. CASE x = a
      BY <1>1, <1>2, <2>1
    <2>2. CASE x # a
      BY <1>1, <1>2, <2>2 DEF TicketsInv
    <2> QED
      BY <2>1, <2>2
  <1> QED
    BY <1>1, <1>2 DEF TicketsInv

LEMMA BeginKeepsTickets ==
  ASSUME TicketsInv, NEW a \in Admins, NEW new, Begin(a, new),
         UNCHANGED <<ticket, audit, form, stale>>,
         new.pc = "ticket" =>
            /\ new.row \in Tickets /\ ticket[new.row] # NoRow
            /\ new.read \in TicketRows /\ new.ask \in TicketRows
  PROVE  TicketsInv'
  BY RequestKeepsTickets DEF Begin

LEMMA SaveKeepsTickets ==
  ASSUME TicketsInv, NEW a \in Admins, SaveTicket(a)
  PROVE  TicketsInv'
  <1> DEFINE t == admin[a].row
             read == admin[a].read
             ask == admin[a].ask
  <1>1. /\ t \in Tickets /\ ticket[t] # NoRow /\ read \in TicketRows /\ ask \in TicketRows
        /\ ticket[t] \in TicketRows /\ audit[t] \in Seq(AuditRows)
    BY DEF TicketsInv, SaveTicket
  <1>2. PICK saved : saved = [status |-> ask.status,
                              note |-> IF ask.note = NoNote THEN read.note ELSE ask.note]
    OBVIOUS
  <1>3. saved \in TicketRows /\ saved # NoRow /\ saved.status = ask.status
    <2>1. saved \in TicketRows /\ saved.status = ask.status
      BY <1>1, <1>2 DEF TicketRows
    <2> QED
      BY <2>1, ConsoleAssumption
  <1>4. PICK told : told = Append(audit[t], <<read.status, ask.status>>)
    OBVIOUS
  <1>5. read.status \in TicketStatus /\ ask.status \in TicketStatus
    BY <1>1 DEF TicketRows
  <1>6. told \in Seq(AuditRows)
    <2>1. <<read.status, ask.status>> \in AuditRows
      BY <1>5 DEF AuditRows
    <2>2. PICK e \in AuditRows : e = <<read.status, ask.status>>
      BY <2>1
    <2>3. Append(audit[t], e) \in Seq(AuditRows)
      BY <1>1
    <2> QED
      BY <1>4, <2>2, <2>3
  <1>7. /\ ticket' = [ticket EXCEPT ![t] = saved] /\ audit' = [audit EXCEPT ![t] = told]
        /\ stale' = (stale \/ ticket[t] # read)
        /\ admin' = [admin EXCEPT ![a] = AtRest] /\ form' = [form EXCEPT ![a] = NoRow]
    BY <1>2, <1>4 DEF SaveTicket
  <1>8. /\ DOMAIN ticket' = Tickets /\ DOMAIN audit' = Tickets
        /\ ticket'[t] = saved /\ audit'[t] = told
        /\ \A x \in Tickets : x # t => ticket'[x] = ticket[x] /\ audit'[x] = audit[x]
        /\ \A x \in Tickets : ticket[x] # NoRow => ticket'[x] # NoRow
    BY <1>1, <1>3, <1>7 DEF TicketsInv
  <1>9. ticket' \in [Tickets -> TicketRows \union {NoRow}] /\ audit' \in [Tickets -> Seq(AuditRows)]
    BY <1>1, <1>3, <1>6, <1>7 DEF TicketsInv
  <1>10. stale' \in BOOLEAN /\ (~ stale' => ~ stale /\ ticket[t] = read)
    <2>1. CASE stale \/ ticket[t] # read
      BY <1>7, <2>1
    <2>2. CASE ~ (stale \/ ticket[t] # read)
      BY <1>7, <2>2
    <2> QED
      BY <2>1, <2>2
  <1>11. /\ DOMAIN form' = Admins
         /\ \A x \in Admins : form'[x] # NoRow => form'[x] \in Tickets /\ ticket'[form'[x]] # NoRow
    BY <1>7, <1>8 DEF TicketsInv
  <1>12. DOMAIN admin' = Admins /\ \A x \in Admins : admin'[x].pc = "ticket" => admin'[x] = admin[x]
    BY <1>7 DEF TicketsInv, AtRest
  <1>13. \A x \in Admins : admin'[x].pc = "ticket" =>
            /\ admin'[x].row \in Tickets /\ ticket'[admin'[x].row] # NoRow
            /\ admin'[x].read \in TicketRows /\ admin'[x].ask \in TicketRows
    BY <1>8, <1>12 DEF TicketsInv
  <1>14. \A x \in Tickets : ticket'[x] = NoRow => audit'[x] = << >>
    BY <1>3, <1>8 DEF TicketsInv
  <1>15. ASSUME NEW x \in Tickets, ~ stale', ticket'[x] # NoRow
         PROVE  Chained(audit'[x], ticket'[x].status)
    <2>1. CASE x = t
      <3>1. Chained(audit[t], read.status)
        BY <1>1, <1>10, <1>15 DEF TicketsInv
      <3>2. Chained(told, ask.status)
        BY <1>1, <1>4, <1>5, <3>1, ChainGrows
      <3> QED
        BY <1>3, <1>8, <2>1, <3>2
    <2>2. CASE x # t
      BY <1>8, <1>10, <1>15, <2>2 DEF TicketsInv
    <2> QED
      BY <2>1, <2>2
  <1> QED
    BY <1>9, <1>10, <1>11, <1>12, <1>13, <1>14, <1>15 DEF TicketsInv

LEMMA EditsKeepTickets ==
  ASSUME TicketsInv, [NextEdits]_editVars
  PROVE  TicketsInv'
  <1>1. ASSUME NEW t \in Tickets, CreateTicket(t)
        PROVE  TicketsInv'
    <2>1. PICK new : new = [status |-> "open", note |-> NoNote]
      OBVIOUS
    <2>2. new \in TicketRows /\ new # NoRow /\ new.status = "open"
      <3>1. new \in TicketRows /\ new.status = "open"
        BY <2>1 DEF TicketRows, TicketStatus
      <3> QED
        BY <3>1, ConsoleAssumption
    <2>3. /\ ticket[t] = NoRow /\ ticket' = [ticket EXCEPT ![t] = new]
          /\ UNCHANGED <<audit, form, admin, stale>>
      BY <1>1, <2>1 DEF CreateTicket
    <2>4. /\ ticket' \in [Tickets -> TicketRows \union {NoRow}] /\ ticket'[t] = new
          /\ \A x \in Tickets : x # t => ticket'[x] = ticket[x]
      BY <2>2, <2>3 DEF TicketsInv
    <2>5. Chained(audit'[t], "open")
      <3>1. audit'[t] = << >>
        BY <2>3 DEF TicketsInv
      <3> QED
        BY <3>1 DEF Chained
    <2>6. \A x \in Tickets : ~ stale' /\ ticket'[x] # NoRow => Chained(audit'[x], ticket'[x].status)
      BY <2>2, <2>3, <2>4, <2>5 DEF TicketsInv
    <2> QED
      BY <2>2, <2>3, <2>4, <2>6 DEF TicketsInv
  <1>2. ASSUME NEW a \in Admins, NEW r \in Rules, NEW on \in BOOLEAN, CreateRule(a, r, on)
        PROVE  TicketsInv'
    <2>1. PICK new : /\ Begin(a, new)
                     /\ new = [AtRest EXCEPT !.pc = IF on THEN "clearing" ELSE "saving", !.row = r,
                                             !.ask = IF on THEN "on" ELSE "off", !.read = "none"]
      BY <1>2 DEF CreateRule
    <2>2. new.pc # "ticket"
      BY <2>1 DEF AtRest
    <2>3. UNCHANGED <<ticket, audit, form, stale>>
      BY <1>2 DEF CreateRule, ticketVars
    <2> QED
      BY <2>1, <2>2, <2>3, BeginKeepsTickets
  <1>3. ASSUME NEW a \in Admins, NEW r \in Rules, NEW ask, PatchRule(a, r, ask)
        PROVE  TicketsInv'
    <2>1. PICK new : /\ Begin(a, new)
                     /\ new = [AtRest EXCEPT !.pc = IF ask = "on" /\ rule[r] = "off"
                                                    THEN "clearing" ELSE "saving",
                                             !.row = r, !.ask = ask, !.read = rule[r]]
      BY <1>3 DEF PatchRule
    <2>2. new.pc # "ticket"
      BY <2>1 DEF AtRest
    <2>3. UNCHANGED <<ticket, audit, form, stale>>
      BY <1>3 DEF PatchRule, ticketVars
    <2> QED
      BY <2>1, <2>2, <2>3, BeginKeepsTickets
  <1>4. ASSUME NEW a \in Admins, ClearActive(a)
        PROVE  TicketsInv'
    <2>1. PICK new : new = [admin[a] EXCEPT !.pc = "saving", !.clears = Active]
      OBVIOUS
    <2>2. admin' = [admin EXCEPT ![a] = new]
      BY <1>4, <2>1 DEF ClearActive, TicketsInv
    <2>3. new.pc # "ticket"
      BY <1>4, <2>1 DEF ClearActive
    <2>4. UNCHANGED <<ticket, audit, form, stale>>
      BY <1>4 DEF ClearActive, ticketVars
    <2> QED
      BY <2>2, <2>3, <2>4, RequestKeepsTickets
  <1>5. ASSUME NEW a \in Admins, SaveRule(a)
        PROVE  TicketsInv'
    <2>1. /\ admin' = [admin EXCEPT ![a] = AtRest] /\ UNCHANGED <<ticket, audit, form>>
          /\ \/ UNCHANGED stale
             \/ stale' = (stale \/ rule[admin[a].row] # admin[a].read)
      BY <1>5 DEF SaveRule, ticketVars
    <2>2. stale' \in BOOLEAN /\ (~ stale' => ~ stale)
      <3>1. CASE UNCHANGED stale
        BY <3>1 DEF TicketsInv
      <3>2. CASE stale' = (stale \/ rule[admin[a].row] # admin[a].read)
        <4>1. CASE stale \/ rule[admin[a].row] # admin[a].read
          BY <3>2, <4>1
        <4>2. CASE ~ (stale \/ rule[admin[a].row] # admin[a].read)
          BY <3>2, <4>2
        <4> QED
          BY <4>1, <4>2
      <3> QED
        BY <2>1, <3>1, <3>2
    <2>3. DOMAIN admin' = Admins /\ \A x \in Admins : admin'[x].pc = "ticket" => admin'[x] = admin[x]
      BY <2>1 DEF TicketsInv, AtRest
    <2> QED
      BY <2>1, <2>2, <2>3 DEF TicketsInv
  <1>6. ASSUME NEW a \in Admins, NEW t \in Tickets, OpenForm(a, t)
        PROVE  TicketsInv'
    <2>1. /\ ticket[t] # NoRow /\ form' = [form EXCEPT ![a] = t]
          /\ UNCHANGED <<ticket, audit, admin, stale>>
      BY <1>6 DEF OpenForm, ticketVars
    <2> QED
      BY <2>1 DEF TicketsInv
  <1>7. ASSUME NEW a \in Admins, NEW to \in TicketStatus, NEW note \in Notes \union {NoNote},
               SubmitForm(a, to, note)
        PROVE  TicketsInv'
    <2>1. PICK new : /\ Begin(a, new)
                     /\ new = [AtRest EXCEPT !.pc = "ticket", !.row = form[a], !.read = ticket[form[a]],
                                             !.ask = [status |-> to, note |-> note]]
      BY <1>7 DEF SubmitForm
    <2>2. new.row = form[a] /\ new.read = ticket[form[a]] /\ new.ask = [status |-> to, note |-> note]
      BY <2>1 DEF AtRest
    <2>3. form[a] \in Tickets /\ ticket[form[a]] # NoRow /\ ticket[form[a]] \in TicketRows
      BY <1>7 DEF SubmitForm, TicketsInv
    <2>4. new.ask \in TicketRows
      BY <2>2 DEF TicketRows
    <2>5. UNCHANGED <<ticket, audit, form, stale>>
      BY <1>7 DEF SubmitForm, ticketVars
    <2> QED
      BY <2>1, <2>2, <2>3, <2>4, <2>5, BeginKeepsTickets
  <1>8. CASE UNCHANGED editVars
    BY <1>8 DEF editVars, ticketVars, TicketsInv
  <1> QED
    BY <1>1, <1>2, <1>3, <1>4, <1>5, <1>6, <1>7, <1>8, SaveKeepsTickets DEF NextEdits

\* Support tickets (admin.service.ts updateTicket): unless an entity was saved over a change
\* made since it was read, the audit rows of a ticket are one unbroken story that ends in its
\* status, whoever edits it from whatever form.
THEOREM AuditNeverBreaks ==
  SpecEdits => []AuditIsUnbroken
  <1>1. InitEdits => TicketsInv
    <2> SUFFICES ASSUME InitEdits
                 PROVE  TicketsInv
      OBVIOUS
    <2>1. << >> \in Seq(AuditRows)
      OBVIOUS
    <2> QED
      BY <2>1 DEF InitEdits, TicketsInv, AtRest
  <1>2. TicketsInv => AuditIsUnbroken
    <2> SUFFICES ASSUME TicketsInv, NEW t \in Tickets, ~ stale, ticket[t] # NoRow
                 PROVE  LET told == <<"open">> \o [i \in 1 .. Len(audit[t]) |-> audit[t][i][2]]
                        IN  /\ \A i \in 1 .. Len(audit[t]) : audit[t][i][1] = told[i]
                            /\ told[Len(told)] = ticket[t].status
      BY DEF AuditIsUnbroken
    <2>1. audit[t] \in Seq(AuditRows) /\ Chained(audit[t], ticket[t].status)
      BY DEF TicketsInv
    <2> QED
      BY <2>1, ChainedIsUnbroken
  <1> QED
    BY <1>1, <1>2, EditsKeepTickets, PTL DEF SpecEdits
-----------------------------------------------------------------------------
(* A list page of the console. *)

Ats == [filter : Filters, offset : Nat]
Answers == [rows : SUBSET Nat, total : Nat, due : SUBSET Nat]
Loads == [at : Ats, served : BOOLEAN, answer : Answers, excused : BOOLEAN]

ListTypes ==
    /\ table \in Seq(Tags)
    /\ controls \in Ats
    /\ loads \in Seq(Loads)
    /\ shown \in [at : Ats, total : Nat, excused : BOOLEAN]
    /\ action.pc \in {"sent", "adjusting"} => action.at \in Ats
    /\ walk \in [on : BOOLEAN, ahead : SUBSET Nat]

\* The load that was sent last is for the controls, or excused.
Latest(load, at) == load.at = at \/ load.excused
LastInv == loads # << >> => Latest(loads[Len(loads)], controls)

\* Row r is listed, behind the first n rows.
Behind(filter, r, n) == r \in Listed(filter) /\ Place(Listed(filter), r) > n

\* A first page that was read has every row that was due, or more pages follow it.
DueTells(load) ==
    load.served => \A r \in load.answer.due :
        r \in load.answer.rows \/ (Behind(load.at.filter, r, Limit) /\ load.answer.total > Limit)
DueInv == \A i \in 1 .. Len(loads) : DueTells(loads[i])

\* So does the page that is read in a walk, and the rows that are still ahead are behind it.
WalkTells(load) ==
    load.served /\ load.at = controls => \A r \in walk.ahead :
        \/ r \in load.answer.rows
        \/ /\ Behind(controls.filter, r, controls.offset + Limit)
           /\ load.answer.total > controls.offset + Limit

WalkInv ==
    walk.on =>
        /\ \A r \in walk.ahead : Behind(controls.filter, r, controls.offset)
        /\ shown.at = controls => \A r \in walk.ahead :
              /\ Behind(controls.filter, r, controls.offset + Limit)
              /\ shown.total > controls.offset + Limit
        /\ \A i \in 1 .. Len(loads) : WalkTells(loads[i])

ListsInv == ListTypes /\ LastInv /\ PageFollowsControls /\ DueInv /\ WalkInv

\* Every row that is listed has a place, which is not behind the last one.
LEMMA PlacesOfRows ==
  ASSUME ListTypes, NEW filter
  PROVE  /\ Listed(filter) \subseteq Nat /\ IsFiniteSet(Listed(filter)) /\ Cardinality(Listed(filter)) \in Nat
         /\ \A r \in Listed(filter) : /\ Place(Listed(filter), r) \in Nat
                                      /\ Place(Listed(filter), r) >= 1
                                      /\ Place(Listed(filter), r) <= Cardinality(Listed(filter))
  <1>1. Len(table) \in Nat
    BY DEF ListTypes
  <1>2. PICK L : L = Listed(filter)
    OBVIOUS
  <1>3. L \subseteq 1 .. Len(table) /\ IsFiniteSet(1 .. Len(table))
    BY <1>1, <1>2, FS_Interval DEF Listed
  <1>4. IsFiniteSet(L) /\ Cardinality(L) \in Nat
    BY <1>3, FS_Subset, FS_CardinalityType
  <1>5. ASSUME NEW r \in L
        PROVE  Place(L, r) \in Nat /\ Place(L, r) >= 1 /\ Place(L, r) <= Cardinality(L)
    <2>1. PICK U : U = {x \in L : x >= r}
      OBVIOUS
    <2>2. U \subseteq L /\ r \in U
      BY <1>1, <1>3, <2>1
    <2>3. IsFiniteSet(U) /\ Cardinality(U) \in Nat /\ Cardinality(U) <= Cardinality(L)
      BY <1>4, <2>2, FS_Subset, FS_CardinalityType
    <2>4. Cardinality(U) # 0
      BY <2>2, <2>3, FS_EmptySet
    <2> QED
      BY <2>1, <2>3, <2>4 DEF Place
  <1>6. L \subseteq Nat
    BY <1>1, <1>3
  <1> QED
    BY <1>2, <1>4, <1>5, <1>6

\* Rows that arrive, or come to match, push the others back.
LEMMA RowsMoveBack ==
  ASSUME ListTypes, ListTypes', NEW filter, \A r \in Listed(filter) : r \in Listed(filter)',
         NEW r, NEW n \in Nat, Behind(filter, r, n)
  PROVE  Behind(filter, r, n)'
  <1>1. PICK L : L = Listed(filter)
    OBVIOUS
  <1>2. PICK N : N = Listed(filter)'
    OBVIOUS
  <1>3. L \subseteq N /\ r \in L /\ Place(L, r) > n /\ Place(L, r) \in Nat
    BY <1>1, <1>2, PlacesOfRows DEF Behind
  <1>4. Len(table') \in Nat
    BY DEF ListTypes
  <1>5. N \subseteq 1 .. Len(table') /\ IsFiniteSet(1 .. Len(table'))
    BY <1>2, <1>4, FS_Interval DEF Listed
  <1>6. IsFiniteSet(N)
    BY <1>5, FS_Subset
  <1>7. PICK U : U = {x \in L : x >= r}
    OBVIOUS
  <1>8. PICK V : V = {x \in N : x >= r}
    OBVIOUS
  <1>9. U \subseteq V /\ V \subseteq N
    BY <1>3, <1>7, <1>8
  <1>10. IsFiniteSet(V)
    BY <1>6, <1>9, FS_Subset
  <1>11. Cardinality(U) <= Cardinality(V) /\ Cardinality(V) \in Nat
    BY <1>9, <1>10, FS_Subset, FS_CardinalityType
  <1>12. Place(L, r) = Cardinality(U) /\ Place(N, r) = Cardinality(V)
    BY <1>7, <1>8 DEF Place
  <1>13. Place(N, r) > n
    BY <1>3, <1>11, <1>12
  <1> QED
    BY <1>2, <1>3, <1>13 DEF Behind

\* What the API answers.
LEMMA AnswerTells ==
  ASSUME ListTypes, NEW at \in Ats
  PROVE  /\ Answer(at) \in Answers
         /\ Answer(at).due # {} => at.offset = 0
         /\ Answer(at).due \subseteq Listed(at.filter)
         /\ \A r \in Listed(at.filter) : Behind(at.filter, r, at.offset) =>
               \/ r \in Answer(at).rows
               \/ /\ Behind(at.filter, r, at.offset + Limit)
                  /\ Answer(at).total > at.offset + Limit
  <1>1. /\ at.offset \in Nat /\ Limit \in Nat
    BY ListsAssumption DEF Ats
  <1>2. PICK L : L = Listed(at.filter)
    OBVIOUS
  <1>3. /\ L \subseteq Nat /\ Cardinality(L) \in Nat
        /\ \A r \in L : Place(L, r) \in Nat /\ Place(L, r) <= Cardinality(L)
    BY <1>2, PlacesOfRows
  <1>4. PICK P : P = {r \in L : Place(L, r) \in at.offset + 1 .. at.offset + Limit}
    OBVIOUS
  <1>5. PICK D : D = IF at.offset = 0 THEN L ELSE {}
    OBVIOUS
  <1>6. Answer(at) = [rows |-> P, total |-> Cardinality(L), due |-> D]
    BY <1>2, <1>4, <1>5 DEF Answer, PageOf
  <1>7. Answer(at).rows = P /\ Answer(at).total = Cardinality(L) /\ Answer(at).due = D
    BY <1>6
  <1>8. P \subseteq Nat /\ D \subseteq L /\ D \subseteq Nat /\ (D # {} => at.offset = 0)
    BY <1>3, <1>4, <1>5
  <1>9. Answer(at) \in Answers
    BY <1>3, <1>6, <1>8 DEF Answers
  <1>10. ASSUME NEW r \in L, Place(L, r) > at.offset
         PROVE  \/ r \in P
                \/ Place(L, r) > at.offset + Limit /\ Cardinality(L) > at.offset + Limit
    <2>1. CASE Place(L, r) <= at.offset + Limit
      BY <1>1, <1>3, <1>4, <1>10, <2>1
    <2>2. CASE Place(L, r) > at.offset + Limit
      BY <1>1, <1>3, <2>2
    <2> QED
      BY <1>1, <1>3, <2>1, <2>2
  <1>11. \A r \in L : Behind(at.filter, r, at.offset) =>
               \/ r \in P
               \/ /\ Behind(at.filter, r, at.offset + Limit)
                  /\ Cardinality(L) > at.offset + Limit
    BY <1>2, <1>10 DEF Behind
  <1> QED
    BY <1>2, <1>7, <1>8, <1>9, <1>11
LEMMA NewLoadTells ==
  ASSUME NEW at \in Ats
  PROVE  NewLoad(at) \in Loads /\ ~ NewLoad(at).served /\ Latest(NewLoad(at), controls')
  <1>1. None \in Answers
    BY DEF None, Answers
  <1>2. PICK late \in BOOLEAN : late <=> at # controls'
    OBVIOUS
  <1>3. NewLoad(at) = [at |-> at, served |-> FALSE, answer |-> None, excused |-> late]
    <2>1. late = (at # controls')
      BY <1>2
    <2> QED
      BY <2>1 DEF NewLoad
  <1> QED
    BY <1>1, <1>2, <1>3 DEF Loads, Latest

LEMMA Joined ==
  ASSUME NEW S, NEW s \in Seq(S), NEW t \in Seq(S)
  PROVE  /\ s \o t \in Seq(S) /\ Len(s \o t) = Len(s) + Len(t)
         /\ \A i \in 1 .. Len(s) : (s \o t)[i] = s[i]
         /\ \A i \in 1 .. Len(t) : (s \o t)[Len(s) + i] = t[i]
  OBVIOUS

\* Loads are sent after those that are out.
LEMMA LoadsSent ==
  ASSUME ListTypes, NEW ats \in Seq(Ats), Load(ats)
  PROVE  /\ loads' \in Seq(Loads)
         /\ \A i \in 1 .. Len(loads') : \/ i \in 1 .. Len(loads) /\ loads'[i] = loads[i]
                                        \/ ~ loads'[i].served
         /\ Len(ats) > 0 => loads' # << >> /\ Latest(loads'[Len(loads')], controls')
         /\ Len(ats) = 0 => loads' = loads
  <1>1. /\ loads \in Seq(Loads) /\ Len(loads) \in Nat /\ Len(ats) \in Nat
        /\ \A i \in 1 .. Len(ats) : ats[i] \in Ats
    BY DEF ListTypes
  <1>2. PICK new : new = [i \in 1 .. Len(ats) |-> NewLoad(ats[i])]
    OBVIOUS
  <1>3. \A i \in 1 .. Len(ats) : new[i] \in Loads /\ ~ new[i].served /\ Latest(new[i], controls')
    BY <1>1, <1>2, NewLoadTells
  <1>4. new \in Seq(Loads) /\ Len(new) = Len(ats)
    <2> HIDE DEF Loads
    <2> QED
      BY <1>1, <1>2, <1>3
  <1>5. loads' = loads \o new
    BY <1>2 DEF Load
  <1> HIDE DEF Loads
  <1>6. /\ loads' \in Seq(Loads) /\ Len(loads') = Len(loads) + Len(ats)
        /\ \A i \in 1 .. Len(loads) : loads'[i] = loads[i]
        /\ \A i \in 1 .. Len(ats) : loads'[Len(loads) + i] = new[i]
    BY <1>1, <1>4, <1>5, Joined
  <1>7. ASSUME NEW i \in 1 .. Len(loads')
        PROVE  \/ i \in 1 .. Len(loads) /\ loads'[i] = loads[i]
               \/ ~ loads'[i].served
    <2>1. CASE i \in 1 .. Len(loads)
      BY <1>6, <2>1
    <2>2. CASE i \notin 1 .. Len(loads)
      <3>1. i - Len(loads) \in 1 .. Len(ats) /\ i = Len(loads) + (i - Len(loads))
        BY <1>1, <1>6, <2>2
      <3>2. loads'[i] = new[i - Len(loads)]
        BY <1>6, <3>1
      <3> QED
        BY <1>3, <3>1, <3>2
    <2> QED
      BY <2>1, <2>2
  <1>8. ASSUME Len(ats) > 0
        PROVE  loads' # << >> /\ Latest(loads'[Len(loads')], controls')
    <2>1. Len(ats) \in 1 .. Len(ats)
      BY <1>1, <1>8
    <2>2. loads'[Len(loads) + Len(ats)] = new[Len(ats)]
      BY <1>6, <2>1
    <2>3. loads'[Len(loads')] = new[Len(ats)]
      BY <1>6, <2>2
    <2>4. Latest(new[Len(ats)], controls')
      BY <1>3, <2>1
    <2>5. loads' # << >>
      BY <1>1, <1>6, <1>8
    <2> QED
      BY <2>3, <2>4, <2>5
  <1>9. ASSUME Len(ats) = 0
        PROVE  loads' = loads
    BY <1>1, <1>4, <1>5, <1>9
  <1> QED
    BY <1>6, <1>7, <1>8, <1>9

LEMMA EffectTells ==
  ASSUME controls' \in Ats
  PROVE  /\ Effect \in Seq(Ats) /\ Len(Effect) \in Nat
         /\ Len(Effect) > 0 \/ UNCHANGED controls
  <1>1. CASE controls' = controls
    <2>1. Effect = << >>
      BY <1>1 DEF Effect
    <2> QED
      BY <1>1, <2>1
  <1>2. CASE controls' # controls
    <2>1. PICK at \in Ats : at = controls'
      OBVIOUS
    <2>2. Effect = <<at>>
      BY <1>2, <2>1 DEF Effect
    <2> HIDE DEF Ats
    <2> QED
      BY <2>2
  <1> QED
    BY <1>1, <1>2
\* A load of the next state that has an answer was out before, with that answer; what was due
\* is due still if its filter is one of K.
FromOld(load, K) ==
    \/ ~ load.served
    \/ \E j \in 1 .. Len(loads) :
          /\ load.at = loads[j].at /\ load.served = loads[j].served
          /\ load.answer.rows = loads[j].answer.rows /\ load.answer.total = loads[j].answer.total
          /\ \/ load.answer.due = {}
             \/ load.at.filter \in K /\ load.answer.due = loads[j].answer.due

\* The rows that are listed under the filters of K stay listed.
Stay(K) == \A filter \in K : \A r \in Listed(filter) : r \in Listed(filter)'

LEMMA DueIsKept ==
  ASSUME ListsInv, ListTypes', NEW K, Stay(K), \A i \in 1 .. Len(loads') : FromOld(loads'[i], K)
  PROVE  DueInv'
  <1>1. ListTypes /\ DueInv /\ Limit \in Nat
    BY ListsAssumption DEF ListsInv
  <1>2. ASSUME NEW i \in 1 .. Len(loads')
        PROVE  DueTells(loads[i])'
    <2>1. PICK load : load = loads'[i]
      OBVIOUS
    <2>2. SUFFICES ASSUME load.served, NEW r \in load.answer.due
                   PROVE  \/ r \in load.answer.rows
                          \/ Behind(load.at.filter, r, Limit)' /\ load.answer.total > Limit
      BY <2>1 DEF DueTells
    <2>3. PICK j \in 1 .. Len(loads) :
             /\ load.at = loads[j].at /\ load.served = loads[j].served
             /\ load.answer.rows = loads[j].answer.rows /\ load.answer.total = loads[j].answer.total
             /\ load.at.filter \in K /\ load.answer.due = loads[j].answer.due
      BY <2>1, <2>2 DEF FromOld
    <2>4. \/ r \in load.answer.rows
          \/ Behind(load.at.filter, r, Limit) /\ load.answer.total > Limit
      BY <1>1, <2>2, <2>3 DEF DueInv, DueTells
    <2>5. PICK filter \in K : filter = load.at.filter
      BY <2>3
    <2>6. Behind(filter, r, Limit) => Behind(filter, r, Limit)'
      BY <1>1, RowsMoveBack DEF Stay
    <2> QED
      BY <2>4, <2>5, <2>6
  <1> QED
    BY <1>2 DEF DueInv

LEMMA WalkIsKept ==
  ASSUME ListsInv, ListTypes', NEW K, Stay(K), \A i \in 1 .. Len(loads') : FromOld(loads'[i], K),
         controls.filter \in K, UNCHANGED <<walk, controls, shown>>
  PROVE  WalkInv'
  <1>1. /\ ListTypes /\ WalkInv /\ controls.offset \in Nat /\ controls.offset + Limit \in Nat
    BY ListsAssumption DEF ListsInv, ListTypes, Ats
  <1>2. PICK f \in K : f = controls.filter
    OBVIOUS
  <1>3. PICK o \in Nat : o = controls.offset /\ o + Limit \in Nat
    BY <1>1
  <1>4. PICK e \in Nat : e = o + Limit
    BY <1>3
  <1>5. \A r : /\ Behind(f, r, o) => Behind(f, r, o)'
               /\ Behind(f, r, e) => Behind(f, r, e)'
    BY <1>1, RowsMoveBack DEF Stay
  <1>6. SUFFICES ASSUME walk.on
                 PROVE  /\ \A r \in walk.ahead : Behind(f, r, o)'
                        /\ shown.at = controls => \A r \in walk.ahead : Behind(f, r, e)' /\ shown.total > e
                        /\ \A i \in 1 .. Len(loads') :
                              loads'[i].served /\ loads'[i].at = controls => \A r \in walk.ahead :
                                 \/ r \in loads'[i].answer.rows
                                 \/ Behind(f, r, e)' /\ loads'[i].answer.total > e
    BY <1>2, <1>3, <1>4 DEF WalkInv, WalkTells
  <1>7. /\ \A r \in walk.ahead : Behind(f, r, o)
        /\ shown.at = controls => \A r \in walk.ahead : Behind(f, r, e) /\ shown.total > e
        /\ \A i \in 1 .. Len(loads) :
              loads[i].served /\ loads[i].at = controls => \A r \in walk.ahead :
                 \/ r \in loads[i].answer.rows
                 \/ Behind(f, r, e) /\ loads[i].answer.total > e
    BY <1>1, <1>2, <1>3, <1>4, <1>6 DEF WalkInv, WalkTells
  <1>8. ASSUME NEW i \in 1 .. Len(loads'), loads'[i].served, loads'[i].at = controls, NEW r \in walk.ahead
        PROVE  \/ r \in loads'[i].answer.rows
               \/ Behind(f, r, e)' /\ loads'[i].answer.total > e
    <2>1. PICK load : load = loads'[i]
      OBVIOUS
    <2>2. PICK j \in 1 .. Len(loads) :
             /\ load.at = loads[j].at /\ load.served = loads[j].served
             /\ load.answer.rows = loads[j].answer.rows /\ load.answer.total = loads[j].answer.total
      BY <1>8, <2>1 DEF FromOld
    <2> QED
      BY <1>5, <1>7, <1>8, <2>1, <2>2
  <1> QED
    BY <1>5, <1>7, <1>8

\* New loads leave the invariants as they were: the last of them is for the controls, or
\* excused, and none has an answer.
LEMMA LoadsKeep ==
  ASSUME ListsInv, NEW ats \in Seq(Ats), Load(ats), controls' \in Ats, UNCHANGED shown,
         Len(ats) > 0 \/ UNCHANGED <<controls, loading, error>>
  PROVE  /\ loads' \in Seq(Loads) /\ LastInv' /\ PageFollowsControls'
         /\ \A i \in 1 .. Len(loads') : FromOld(loads'[i], Filters)
  <1>1. ListTypes /\ LastInv /\ PageFollowsControls
    BY DEF ListsInv
  <1>2. /\ loads' \in Seq(Loads)
        /\ \A i \in 1 .. Len(loads') : \/ i \in 1 .. Len(loads) /\ loads'[i] = loads[i]
                                       \/ ~ loads'[i].served
        /\ Len(ats) > 0 => loads' # << >> /\ Latest(loads'[Len(loads')], controls')
        /\ Len(ats) = 0 => loads' = loads
    BY <1>1, LoadsSent
  <1>3. Len(ats) \in Nat
    OBVIOUS
  <1>4. LastInv'
    BY <1>1, <1>2, <1>3 DEF LastInv
  <1>5. PageFollowsControls'
    BY <1>1, <1>2, <1>3 DEF PageFollowsControls
  <1>6. \A i \in 1 .. Len(loads) : loads[i].at.filter \in Filters
    <2>1. \A i \in 1 .. Len(loads) : loads[i] \in Loads
      <3> HIDE DEF Loads
      <3> QED
        BY <1>1 DEF ListTypes
    <2> QED
      BY <2>1 DEF Loads, Ats
  <1>7. \A i \in 1 .. Len(loads') : FromOld(loads'[i], Filters)
    BY <1>2, <1>6 DEF FromOld
  <1> QED
    BY <1>2, <1>4, <1>5, <1>7

LEMMA Removed ==
  ASSUME NEW S, NEW s \in Seq(S), NEW i \in 1 .. Len(s)
  PROVE  /\ RemoveAt(s, i) \in Seq(S) /\ Len(RemoveAt(s, i)) = Len(s) - 1
         /\ \A k \in 1 .. Len(s) - 1 : RemoveAt(s, i)[k] = IF k < i THEN s[k] ELSE s[k + 1]
  <1>1. Len(s) \in Nat /\ i \in Nat
    OBVIOUS
  <1>2. PICK a : a = SubSeq(s, 1, i - 1)
    OBVIOUS
  <1>3. PICK b : b = SubSeq(s, i + 1, Len(s))
    OBVIOUS
  <1>4. a \in Seq(S) /\ Len(a) = i - 1 /\ \A k \in 1 .. i - 1 : a[k] = s[k]
    BY <1>1, <1>2
  <1>5. b \in Seq(S) /\ Len(b) = Len(s) - i /\ \A k \in 1 .. Len(s) - i : b[k] = s[i + k]
    BY <1>1, <1>3
  <1>6. RemoveAt(s, i) = a \o b
    BY <1>2, <1>3 DEF RemoveAt
  <1>7. /\ a \o b \in Seq(S) /\ Len(a \o b) = Len(s) - 1
        /\ \A k \in 1 .. i - 1 : (a \o b)[k] = s[k]
        /\ \A k \in 1 .. Len(s) - i : (a \o b)[(i - 1) + k] = s[i + k]
    <2>1. /\ a \o b \in Seq(S) /\ Len(a \o b) = Len(a) + Len(b)
          /\ \A k \in 1 .. Len(a) : (a \o b)[k] = a[k]
          /\ \A k \in 1 .. Len(b) : (a \o b)[Len(a) + k] = b[k]
      <3>1. a \in Seq(S) /\ b \in Seq(S)
        BY <1>4, <1>5
      <3> QED
        BY <3>1
    <2>2. PICK c : c = a \o b
      OBVIOUS
    <2>3. /\ c \in Seq(S) /\ Len(c) = Len(a) + Len(b)
          /\ \A k \in 1 .. Len(a) : c[k] = a[k]
          /\ \A k \in 1 .. Len(b) : c[Len(a) + k] = b[k]
      BY <2>1, <2>2, Zenon
    <2>4. /\ Len(c) = Len(s) - 1
          /\ \A k \in 1 .. i - 1 : c[k] = s[k]
          /\ \A k \in 1 .. Len(s) - i : c[(i - 1) + k] = s[i + k]
      <3>1. Len(c) = Len(s) - 1
        BY <1>1, <1>4, <1>5, <2>3
      <3>2. \A k \in 1 .. i - 1 : c[k] = s[k]
        BY <1>1, <1>4, <2>3
      <3>3. \A k \in 1 .. Len(s) - i : c[(i - 1) + k] = s[i + k]
        BY <1>1, <1>4, <1>5, <2>3
      <3> QED
        BY <3>1, <3>2, <3>3
    <2> QED
      BY <2>2, <2>3, <2>4, Zenon
  <1>8. ASSUME NEW k \in 1 .. Len(s) - 1
        PROVE  (a \o b)[k] = IF k < i THEN s[k] ELSE s[k + 1]
    <2>1. CASE k < i
      <3>1. k \in 1 .. i - 1
        BY <1>1, <2>1
      <3> QED
        BY <1>7, <2>1, <3>1
    <2>2. CASE ~ k < i
      <3>1. k - (i - 1) \in 1 .. Len(s) - i /\ (i - 1) + (k - (i - 1)) = k /\ i + (k - (i - 1)) = k + 1
        BY <1>1, <2>2
      <3>2. (a \o b)[k] = s[k + 1]
        BY <1>7, <3>1
      <3> QED
        BY <2>2, <3>2
    <2> QED
      BY <2>1, <2>2
  <1> QED
    BY <1>6, <1>7, <1>8
LEMMA LoadsAreTyped ==
  ASSUME ListTypes, NEW i \in 1 .. Len(loads)
  PROVE  /\ loads[i] \in Loads /\ loads[i].at \in Ats /\ loads[i].at.filter \in Filters /\ loads[i].at.offset \in Nat
         /\ loads[i].answer \in Answers /\ loads[i].excused \in BOOLEAN /\ loads[i].served \in BOOLEAN
  <1>1. loads[i] \in Loads
    <2> HIDE DEF Loads
    <2> QED
      BY DEF ListTypes
  <1> QED
    BY <1>1 DEF Loads, Ats

\* A load that is over leaves those sent before it excused.
LEMMA EndsKeeps ==
  ASSUME ListsInv, NEW i \in 1 .. Len(loads), Ends(i)
  PROVE  /\ loads' \in Seq(Loads)
         /\ \A k \in 1 .. Len(loads') : FromOld(loads'[k], Filters)
         /\ loads' # << >> => Latest(loads'[Len(loads')], controls)
         /\ loads' = << >> => Latest(loads[i], controls)
  <1>1. /\ ListTypes /\ LastInv /\ loads \in Seq(Loads) /\ Len(loads) \in Nat
    BY DEF ListsInv, ListTypes
  <1>2. PICK left : left = [j \in 1 .. Len(loads) |->
                               IF j < i THEN [loads[j] EXCEPT !.excused = TRUE] ELSE loads[j]]
    OBVIOUS
  <1>3. ASSUME NEW j \in 1 .. Len(loads)
        PROVE  /\ left[j] \in Loads /\ left[j].at = loads[j].at /\ left[j].served = loads[j].served
               /\ left[j].answer = loads[j].answer
               /\ j < i => left[j].excused
               /\ ~ j < i => left[j] = loads[j]
    <2>1. PICK load \in Loads : load = loads[j]
      BY <1>1, LoadsAreTyped
    <2>2. CASE j < i
      <3>1. left[j] = [load EXCEPT !.excused = TRUE]
        BY <1>2, <2>1, <2>2
      <3> QED
        BY <2>1, <2>2, <3>1 DEF Loads
    <2>3. CASE ~ j < i
      BY <1>2, <2>1, <2>3
    <2> QED
      BY <2>2, <2>3
  <1>4. left \in Seq(Loads) /\ Len(left) = Len(loads)
    <2>1. \A j \in 1 .. Len(loads) : left[j] \in Loads
      BY <1>3
    <2> HIDE DEF Loads
    <2> QED
      BY <1>1, <1>2, <2>1
  <1>5. loads' = RemoveAt(left, i)
    BY <1>2 DEF Ends
  <1>6. /\ loads' \in Seq(Loads) /\ Len(loads') = Len(loads) - 1
        /\ \A k \in 1 .. Len(loads) - 1 : loads'[k] = IF k < i THEN left[k] ELSE left[k + 1]
    <2> HIDE DEF Loads
    <2> QED
      BY <1>1, <1>4, <1>5, Removed
  <1>7. ASSUME NEW k \in 1 .. Len(loads')
        PROVE  FromOld(loads'[k], Filters)
    <2>1. PICK j \in 1 .. Len(loads) : loads'[k] = left[j]
      <3>1. k \in 1 .. Len(loads) /\ k + 1 \in 1 .. Len(loads)
        BY <1>1, <1>6
      <3> QED
        BY <1>6, <3>1
    <2>2. loads[j].at.filter \in Filters
      BY <1>1, LoadsAreTyped
    <2> QED
      BY <1>3, <2>1, <2>2 DEF FromOld
  <1>8. ASSUME loads' # << >>
        PROVE  Latest(loads'[Len(loads')], controls)
    <2>1. Len(loads') \in 1 .. Len(loads) - 1 /\ Len(loads) # 0
      BY <1>1, <1>6, <1>8
    <2>2. CASE i = Len(loads)
      <3>1. loads'[Len(loads')] = left[Len(loads')] /\ Len(loads') < i /\ Len(loads') \in 1 .. Len(loads)
        BY <1>1, <1>6, <2>1, <2>2
      <3> QED
        BY <1>3, <3>1 DEF Latest
    <2>3. CASE i # Len(loads)
      <3>1. ~ Len(loads') < i /\ Len(loads') + 1 = Len(loads) /\ Len(loads) \in 1 .. Len(loads)
        BY <1>1, <1>6, <2>1, <2>3
      <3>2. loads'[Len(loads')] = loads[Len(loads)]
        BY <1>3, <1>6, <2>1, <3>1
      <3> QED
        BY <1>1, <2>1, <3>2 DEF LastInv
    <2> QED
      BY <2>2, <2>3
  <1>9. ASSUME loads' = << >>
        PROVE  Latest(loads[i], controls)
    <2>1. Len(loads') = 0
      BY <1>9
    <2>2. Len(loads) = 1 /\ i = Len(loads)
      <3>1. Len(loads') = Len(loads) - 1 /\ Len(loads) \in Nat
        BY <1>1, <1>6
      <3>2. PICK n \in Nat : n = Len(loads)
        BY <3>1
      <3>3. n - 1 = 0 /\ i \in 1 .. n
        BY <2>1, <3>1, <3>2
      <3> QED
        BY <3>2, <3>3
    <2>3. loads # << >>
      BY <2>2
    <2> QED
      BY <1>1, <2>2, <2>3 DEF LastInv
  <1> QED
    BY <1>6, <1>7, <1>8, <1>9
\* With the same table every row has its place.
LEMMA TableSame ==
  ASSUME UNCHANGED table
  PROVE  Stay(Filters) /\ \A filter, r, n : Behind(filter, r, n)' <=> Behind(filter, r, n)
  <1>1. \A filter : Listed(filter)' = Listed(filter)
    BY DEF Listed, Matches
  <1> QED
    BY <1>1 DEF Stay, Behind

LEMMA ServeKeeps ==
  ASSUME ListsInv, NEW i \in 1 .. Len(loads), Serve(i)
  PROVE  ListsInv'
  <1>1. /\ ListTypes /\ LastInv /\ PageFollowsControls /\ DueInv /\ WalkInv /\ Limit \in Nat
        /\ loads \in Seq(Loads) /\ Len(loads) \in Nat
    BY ListsAssumption DEF ListsInv, ListTypes
  <1>2. PICK at \in Ats : at = loads[i].at
    BY <1>1, LoadsAreTyped
  <1>3. PICK answer \in Answers : answer = Answer(at)
    BY <1>1, <1>2, AnswerTells
  <1>4. PICK new : new = [loads[i] EXCEPT !.served = TRUE, !.answer = answer]
    OBVIOUS
  <1>5. loads' = [loads EXCEPT ![i] = new] /\ UNCHANGED <<table, controls, shown, loading, error, action, walk>>
    BY <1>1, <1>2, <1>3, <1>4 DEF Serve
  <1>6. new \in Loads /\ new.at = at /\ new.answer = answer /\ new.excused = loads[i].excused
    <2>1. loads[i] \in Loads
      BY <1>1, LoadsAreTyped
    <2>2. PICK b : b = [loads[i] EXCEPT !.served = TRUE]
      OBVIOUS
    <2>3. new = [b EXCEPT !.answer = answer]
      BY <1>4, <2>2
    <2>4. b \in Loads /\ b.at = loads[i].at /\ b.excused = loads[i].excused
      BY <2>1, <2>2 DEF Loads
    <2> QED
      BY <1>2, <1>3, <2>3, <2>4 DEF Loads
  <1>7. /\ loads' \in Seq(Loads) /\ Len(loads') = Len(loads) /\ loads'[i] = new
        /\ \A j \in 1 .. Len(loads) : j # i => loads'[j] = loads[j]
    <2> HIDE DEF Loads
    <2> QED
      BY <1>1, <1>5, <1>6
  <1>8. ListTypes'
    BY <1>1, <1>5, <1>7 DEF ListTypes
  <1>9. LastInv' /\ PageFollowsControls'
    <2>1. loads' = << >> <=> loads = << >>
      BY <1>1, <1>7
    <2>2. loads # << >> => Len(loads) \in 1 .. Len(loads)
      BY <1>1
    <2>3. LastInv'
      BY <1>1, <1>2, <1>5, <1>6, <1>7, <2>1, <2>2 DEF LastInv, Latest
    <2>4. PageFollowsControls'
      BY <1>1, <1>5, <2>1 DEF PageFollowsControls
    <2> QED
      BY <2>3, <2>4
  <1>10. \A filter, r, n : Behind(filter, r, n)' <=> Behind(filter, r, n)
    BY <1>5, TableSame
  <1>11. /\ answer.due # {} => at.offset = 0
         /\ answer.due \subseteq Listed(at.filter)
         /\ \A r \in Listed(at.filter) : Behind(at.filter, r, at.offset) =>
               \/ r \in answer.rows
               \/ Behind(at.filter, r, at.offset + Limit) /\ answer.total > at.offset + Limit
    BY <1>1, <1>3, AnswerTells
  <1>12. at.offset \in Nat
    BY DEF Ats
  <1>13. \A r \in answer.due : r \in answer.rows \/ (Behind(at.filter, r, Limit) /\ answer.total > Limit)
    <2> SUFFICES ASSUME NEW r \in answer.due
                 PROVE  r \in answer.rows \/ (Behind(at.filter, r, Limit) /\ answer.total > Limit)
      OBVIOUS
    <2>1. at.offset = 0 /\ r \in Listed(at.filter) /\ at.offset + Limit = Limit
      BY <1>1, <1>11
    <2>2. Behind(at.filter, r, at.offset)
      <3>1. Place(Listed(at.filter), r) \in Nat /\ Place(Listed(at.filter), r) >= 1
        BY <1>1, <2>1, PlacesOfRows
      <3> QED
        BY <2>1, <3>1 DEF Behind
    <2> QED
      BY <1>11, <2>1, <2>2
  <1>14. DueInv'
    <2> SUFFICES ASSUME NEW j \in 1 .. Len(loads)
                 PROVE  DueTells(loads[j])'
      BY <1>7 DEF DueInv
    <2>1. CASE j = i
      BY <1>6, <1>7, <1>10, <1>13, <2>1 DEF DueTells
    <2>2. CASE j # i
      BY <1>1, <1>7, <1>10, <2>2 DEF DueInv, DueTells
    <2> QED
      BY <2>1, <2>2
  <1>15. WalkInv'
    <2> SUFFICES ASSUME walk.on
                 PROVE  WalkInv'
      BY <1>5 DEF WalkInv
    <2>1. \A j \in 1 .. Len(loads) : WalkTells(loads[j])
      BY <1>1 DEF WalkInv
    <2>2. ASSUME at = controls, NEW r \in walk.ahead
          PROVE  \/ r \in answer.rows
                 \/ /\ Behind(controls.filter, r, controls.offset + Limit)
                    /\ answer.total > controls.offset + Limit
      <3>1. Behind(at.filter, r, at.offset)
        BY <1>1, <2>2 DEF WalkInv
      <3> QED
        BY <1>11, <2>2, <3>1 DEF Behind
    <2>3. ASSUME NEW j \in 1 .. Len(loads)
          PROVE  WalkTells(loads[j])'
      <3>1. CASE j = i
        BY <1>5, <1>6, <1>7, <1>10, <2>2, <3>1 DEF WalkTells
      <3>2. CASE j # i
        BY <1>5, <1>7, <1>10, <2>1, <3>2 DEF WalkTells
      <3> QED
        BY <3>1, <3>2
    <2> QED
      BY <1>1, <1>5, <1>7, <1>10, <2>3 DEF WalkInv
  <1> QED
    BY <1>8, <1>9, <1>14, <1>15 DEF ListsInv
LEMMA ReceiveKeeps ==
  ASSUME ListsInv, NEW i \in 1 .. Len(loads), ReceiveLoad(i)
  PROVE  ListsInv'
  <1>1. /\ ListTypes /\ DueInv /\ WalkInv /\ Limit \in Nat /\ Len(loads) \in Nat
        /\ walk \in [on : BOOLEAN, ahead : SUBSET Nat]
    BY ListsAssumption DEF ListsInv, ListTypes
  <1>2. PICK load \in Loads : load = loads[i]
    BY <1>1, LoadsAreTyped
  <1>3. /\ load.at \in Ats /\ load.answer \in Answers /\ load.excused \in BOOLEAN
        /\ load.answer.rows \in SUBSET Nat /\ load.answer.due \in SUBSET Nat /\ load.answer.total \in Nat
    BY DEF Loads, Answers
  <1>4. /\ load.served /\ Ends(i) /\ ~ loading' /\ Reads(load) /\ UNCHANGED <<table, controls, action>>
        /\ shown' = [at |-> load.at, total |-> load.answer.total, excused |-> load.excused]
    BY <1>2 DEF ReceiveLoad
  <1>5. /\ loads' \in Seq(Loads)
        /\ \A k \in 1 .. Len(loads') : FromOld(loads'[k], Filters)
        /\ loads' # << >> => Latest(loads'[Len(loads')], controls)
        /\ loads' = << >> => Latest(load, controls)
    BY <1>2, <1>4, EndsKeeps
  <1>6. /\ shown' \in [at : Ats, total : Nat, excused : BOOLEAN]
        /\ shown'.at = load.at /\ shown'.total = load.answer.total /\ shown'.excused = load.excused
    BY <1>3, <1>4
  <1>7. \/ /\ load.at = controls /\ controls.offset = 0 /\ loads' = << >>
           /\ walk' = [on |-> load.answer.due # {}, ahead |-> load.answer.due \ load.answer.rows]
        \/ walk' = [walk EXCEPT !.ahead = @ \ load.answer.rows]
    BY <1>4 DEF Reads
  <1>8. walk' \in [on : BOOLEAN, ahead : SUBSET Nat]
    <2>1. CASE walk' = [on |-> load.answer.due # {}, ahead |-> load.answer.due \ load.answer.rows]
      <3>1. PICK due \in BOOLEAN : due <=> load.answer.due # {}
        OBVIOUS
      <3>2. due = (load.answer.due # {})
        BY <3>1
      <3>3. PICK left \in SUBSET Nat : left = load.answer.due \ load.answer.rows
        BY <1>3
      <3>4. walk' = [on |-> due, ahead |-> left]
        BY <2>1, <3>2, <3>3
      <3> QED
        BY <3>1, <3>3, <3>4
    <2>2. CASE walk' = [walk EXCEPT !.ahead = @ \ load.answer.rows]
      BY <1>1, <2>2
    <2> QED
      BY <1>7, <2>1, <2>2
  <1>9. ListTypes'
    BY <1>1, <1>4, <1>5, <1>6, <1>8 DEF ListTypes
  <1>10. LastInv'
    BY <1>4, <1>5 DEF LastInv
  <1>11. PageFollowsControls'
    BY <1>4, <1>5, <1>6 DEF PageFollowsControls, Latest
  <1>12. Stay(Filters) /\ \A filter, r, n : Behind(filter, r, n)' <=> Behind(filter, r, n)
    BY <1>4, TableSame
  <1>13. DueInv'
    BY <1>5, <1>9, <1>12, DueIsKept
  <1>14. WalkInv'
    <2> SUFFICES ASSUME walk'.on
                 PROVE  WalkInv'
      BY DEF WalkInv
    <2>1. CASE /\ load.at = controls /\ controls.offset = 0 /\ loads' = << >>
               /\ walk' = [on |-> load.answer.due # {}, ahead |-> load.answer.due \ load.answer.rows]
      <3>1. DueTells(load)
        BY <1>1, <1>2 DEF DueInv
      <3>2. \A r \in walk'.ahead : Behind(controls.filter, r, Limit) /\ load.answer.total > Limit
        BY <1>4, <2>1, <3>1 DEF DueTells
      <3>3. controls.offset + Limit = Limit
        BY <1>1, <2>1
      <3>4. \A r \in walk'.ahead : Behind(controls.filter, r, controls.offset)
        <4> SUFFICES ASSUME NEW r \in walk'.ahead
                     PROVE  Behind(controls.filter, r, 0)
          BY <2>1
        <4>1. Behind(controls.filter, r, Limit)
          BY <3>2
        <4>2. r \in Listed(controls.filter) /\ Place(Listed(controls.filter), r) > Limit
          BY <4>1 DEF Behind
        <4>3. Place(Listed(controls.filter), r) \in Nat
          BY <1>1, <4>2, PlacesOfRows
        <4> QED
          BY <1>1, <4>2, <4>3 DEF Behind
      <3>5. Len(loads') = 0
        BY <2>1
      <3> QED
        BY <1>4, <1>6, <1>12, <3>2, <3>3, <3>4, <3>5 DEF WalkInv
    <2>2. CASE walk' = [walk EXCEPT !.ahead = @ \ load.answer.rows]
      <3>1. walk.on /\ walk'.ahead = walk.ahead \ load.answer.rows
        BY <1>1, <2>2
      <3>2. /\ \A r \in walk.ahead : Behind(controls.filter, r, controls.offset)
            /\ \A j \in 1 .. Len(loads) : WalkTells(loads[j])
        BY <1>1, <3>1 DEF WalkInv
      <3>3. ASSUME load.at = controls, NEW r \in walk'.ahead
            PROVE  /\ Behind(controls.filter, r, controls.offset + Limit)
                   /\ load.answer.total > controls.offset + Limit
        <4>1. WalkTells(load) /\ r \in walk.ahead /\ r \notin load.answer.rows
          BY <1>2, <3>1, <3>2, <3>3
        <4> QED
          BY <1>4, <3>3, <4>1 DEF WalkTells
      <3>4. ASSUME NEW k \in 1 .. Len(loads')
            PROVE  WalkTells(loads[k])'
        <4>1. SUFFICES ASSUME loads'[k].served, loads'[k].at = controls, NEW r \in walk'.ahead
                       PROVE  \/ r \in loads'[k].answer.rows
                              \/ /\ Behind(controls.filter, r, controls.offset + Limit)
                                 /\ loads'[k].answer.total > controls.offset + Limit
          BY <1>4, <1>12 DEF WalkTells
        <4>2. PICK j \in 1 .. Len(loads) :
                 /\ loads'[k].at = loads[j].at /\ loads'[k].served = loads[j].served
                 /\ loads'[k].answer.rows = loads[j].answer.rows
                 /\ loads'[k].answer.total = loads[j].answer.total
          BY <1>5, <4>1 DEF FromOld
        <4>3. WalkTells(loads[j]) /\ r \in walk.ahead
          BY <3>1, <3>2
        <4> QED
          BY <4>1, <4>2, <4>3 DEF WalkTells
      <3> QED
        BY <1>4, <1>6, <1>12, <3>1, <3>2, <3>3, <3>4 DEF WalkInv
    <2> QED
      BY <1>7, <2>1, <2>2
  <1> QED
    BY <1>9, <1>10, <1>11, <1>13, <1>14 DEF ListsInv

\* No walk is on.
LEMMA NoWalkTells ==
  ASSUME walk' = NoWalk
  PROVE  WalkInv' /\ walk' \in [on : BOOLEAN, ahead : SUBSET Nat]
  BY DEF WalkInv, NoWalk

LEMMA FailureKeeps ==
  ASSUME ListsInv, NEW i \in 1 .. Len(loads), LoadFails(i)
  PROVE  ListsInv'
  <1>1. ListTypes
    BY DEF ListsInv
  <1>2. /\ Ends(i) /\ ~ loading' /\ error' = TRUE /\ walk' = NoWalk
        /\ UNCHANGED <<table, controls, shown, action>>
    BY DEF LoadFails
  <1>3. /\ loads' \in Seq(Loads)
        /\ \A k \in 1 .. Len(loads') : FromOld(loads'[k], Filters)
        /\ loads' # << >> => Latest(loads'[Len(loads')], controls)
    BY <1>2, EndsKeeps
  <1>4. WalkInv' /\ walk' \in [on : BOOLEAN, ahead : SUBSET Nat]
    BY <1>2, NoWalkTells
  <1>5. ListTypes'
    BY <1>1, <1>2, <1>3, <1>4 DEF ListTypes
  <1>6. LastInv' /\ PageFollowsControls'
    BY <1>2, <1>3 DEF LastInv, PageFollowsControls
  <1>7. DueInv'
    BY <1>2, <1>3, <1>5, TableSame, DueIsKept
  <1> QED
    BY <1>4, <1>5, <1>6, <1>7 DEF ListsInv

\* The controls change, and the page loads what they show now.
LEMMA ControlsKeep ==
  ASSUME ListsInv, controls' \in Ats, Load(Effect), UNCHANGED <<table, shown, error, action>>,
         UNCHANGED loading \/ ~ UNCHANGED controls,
         walk' = NoWalk
  PROVE  ListsInv'
  <1>1. ListTypes
    BY DEF ListsInv
  <1>2. Effect \in Seq(Ats) /\ Len(Effect) \in Nat /\ (Len(Effect) > 0 \/ UNCHANGED controls)
    BY EffectTells
  <1>3. PICK ats \in Seq(Ats) : ats = Effect
    BY <1>2
  <1>4. /\ loads' \in Seq(Loads) /\ LastInv' /\ PageFollowsControls'
        /\ \A i \in 1 .. Len(loads') : FromOld(loads'[i], Filters)
    <2>1. Load(ats) /\ (Len(ats) > 0 \/ UNCHANGED <<controls, loading, error>>)
      BY <1>2, <1>3
    <2> QED
      BY <2>1, LoadsKeep
  <1>5. WalkInv' /\ walk' \in [on : BOOLEAN, ahead : SUBSET Nat]
    BY NoWalkTells
  <1>6. ListTypes'
    BY <1>1, <1>4, <1>5 DEF ListTypes
  <1>7. DueInv'
    BY <1>4, <1>6, TableSame, DueIsKept
  <1> QED
    BY <1>4, <1>5, <1>6, <1>7 DEF ListsInv
\* The next page of a walk has what is still ahead behind it, and its load is out.
LEMMA NextPageKeeps ==
  ASSUME ListsInv, NEW offset \in PagerOffsets, NextPage(offset)
  PROVE  ListsInv'
  <1>1. /\ ListTypes /\ WalkInv /\ Limit \in Nat /\ Limit # 0
        /\ controls \in Ats /\ shown.at \in Ats
    BY ListsAssumption DEF ListsInv, ListTypes
  <1>2. offset \in Nat /\ controls.filter \in Filters /\ controls.offset \in Nat
    BY <1>1 DEF PagerOffsets, Ats
  <1>3. /\ controls' = [controls EXCEPT !.offset = offset + Limit] /\ Load(Effect)
        /\ walk' = IF loads = << >> /\ shown.at = controls THEN walk ELSE NoWalk
        /\ UNCHANGED <<table, shown, loading, error, action>>
    BY DEF NextPage
  <1>4. controls' \in Ats /\ controls'.filter = controls.filter /\ controls'.offset = offset + Limit
    BY <1>1, <1>2, <1>3 DEF Ats
  <1>5. CASE walk' = NoWalk
    BY <1>3, <1>4, <1>5, ControlsKeep
  <1>6. CASE loads = << >> /\ shown.at = controls /\ walk' = walk
    <2>1. offset = controls.offset
      BY <1>6 DEF PagerOffsets
    <2>2. controls' # controls
      BY <1>1, <1>2, <1>4, <2>1
    <2>3. PICK ats \in Seq(Ats) : ats = Effect /\ Len(ats) > 0
      BY <1>4, <2>2, EffectTells
    <2>4. Load(ats)
      BY <1>3, <2>3
    <2>5. /\ loads' \in Seq(Loads) /\ LastInv' /\ PageFollowsControls'
          /\ \A i \in 1 .. Len(loads') : FromOld(loads'[i], Filters)
      BY <1>3, <1>4, <2>3, <2>4, LoadsKeep
    <2>6. ListTypes'
      BY <1>1, <1>3, <1>4, <1>6, <2>5 DEF ListTypes
    <2>7. Stay(Filters) /\ \A filter, r, n : Behind(filter, r, n)' <=> Behind(filter, r, n)
      BY <1>3, TableSame
    <2>8. DueInv'
      BY <2>5, <2>6, <2>7, DueIsKept
    <2>9. \A i \in 1 .. Len(loads') : ~ loads'[i].served
      <3>1. Len(loads) = 0
        BY <1>6
      <3> QED
        BY <2>5, <3>1 DEF FromOld
    <2>10. walk.on => \A r \in walk.ahead : Behind(controls.filter, r, controls.offset + Limit)
      BY <1>1, <1>6 DEF WalkInv
    <2>11. WalkInv'
      BY <1>3, <1>4, <1>6, <2>1, <2>2, <2>7, <2>9, <2>10 DEF WalkInv, WalkTells
    <2> QED
      BY <2>5, <2>6, <2>8, <2>11 DEF ListsInv
  <1> QED
    BY <1>3, <1>5, <1>6

\* The controls that are taken by hand start a new list.
LEMMA SelectionKeeps ==
  ASSUME ListsInv,
         \/ \E filter \in Filters : SelectFilter(filter) \/ SearchFilter(filter)
         \/ \E offset \in PagerOffsets : PreviousPage(offset)
  PROVE  ListsInv'
  <1>1. /\ ListTypes /\ Limit \in Nat /\ controls \in Ats /\ shown.at \in Ats
    BY ListsAssumption DEF ListsInv, ListTypes
  <1>2. CASE \E filter \in Filters : SelectFilter(filter) \/ SearchFilter(filter)
    <2>1. PICK filter \in Filters : SelectFilter(filter) \/ SearchFilter(filter)
      BY <1>2
    <2>2. controls' = [filter |-> filter, offset |-> 0]
      BY <2>1 DEF SelectFilter, SearchFilter
    <2>3. controls' \in Ats
      BY <2>2 DEF Ats
    <2>4. /\ Load(Effect) /\ walk' = NoWalk /\ UNCHANGED <<table, shown, error, action>>
          /\ UNCHANGED loading \/ ~ UNCHANGED controls
      BY <2>1 DEF SelectFilter, SearchFilter
    <2> QED
      BY <2>3, <2>4, ControlsKeep
  <1>3. CASE \E offset \in PagerOffsets : PreviousPage(offset)
    <2>1. PICK offset \in PagerOffsets : PreviousPage(offset)
      BY <1>3
    <2>2. offset \in Nat
      BY <1>1 DEF PagerOffsets, Ats
    <2>3. PICK back \in Nat : controls' = [controls EXCEPT !.offset = back]
      <3>1. (IF offset > Limit THEN offset - Limit ELSE 0) \in Nat
        BY <1>1, <2>2
      <3> QED
        BY <2>1, <3>1 DEF PreviousPage
    <2>4. controls' \in Ats
      BY <1>1, <2>3 DEF Ats
    <2>5. /\ Load(Effect) /\ walk' = NoWalk /\ UNCHANGED <<table, shown, loading, error, action>>
      BY <2>1 DEF PreviousPage
    <2> QED
      BY <2>4, <2>5, ControlsKeep
  <1> QED
    BY <1>2, <1>3

LEMMA RefreshKeeps ==
  ASSUME ListsInv, Refresh
  PROVE  ListsInv'
  <1>1. ListTypes /\ controls \in Ats
    BY DEF ListsInv, ListTypes
  <1>2. /\ Load(<<controls>>) /\ UNCHANGED <<table, controls, shown, loading, error, action, walk>>
    BY DEF Refresh
  <1>3. PICK ats \in Seq(Ats) : ats = <<controls>> /\ Len(ats) > 0
    <2>1. PICK at \in Ats : at = controls
      BY <1>1
    <2> HIDE DEF Ats
    <2>2. <<at>> \in Seq(Ats) /\ Len(<<at>>) > 0
      OBVIOUS
    <2> QED
      BY <2>1, <2>2
  <1>4. Load(ats) /\ controls' \in Ats
    BY <1>1, <1>2, <1>3
  <1>5. /\ loads' \in Seq(Loads) /\ LastInv' /\ PageFollowsControls'
        /\ \A i \in 1 .. Len(loads') : FromOld(loads'[i], Filters)
    BY <1>2, <1>3, <1>4, LoadsKeep
  <1>6. ListTypes'
    BY <1>1, <1>2, <1>5 DEF ListTypes
  <1>7. Stay(Filters) /\ controls.filter \in Filters
    BY <1>1, <1>2, TableSame DEF Ats
  <1>8. DueInv' /\ WalkInv'
    BY <1>2, <1>5, <1>6, <1>7, DueIsKept, WalkIsKept
  <1> QED
    BY <1>5, <1>6, <1>8 DEF ListsInv

\* An action that starts, or is refused, leaves the list alone.
LEMMA ActionKeeps ==
  ASSUME ListsInv, Click \/ OpenAdjustment \/ ActionRefused
  PROVE  ListsInv'
  <1>1. /\ ListTypes /\ LastInv /\ PageFollowsControls /\ DueInv /\ WalkInv /\ controls \in Ats
    BY DEF ListsInv, ListTypes
  <1>2. /\ UNCHANGED <<table, controls, loads, shown, loading, walk>>
        /\ error' = error \/ error'
        /\ action'.pc \in {"sent", "adjusting"} => action'.at = controls
    BY DEF Click, OpenAdjustment, ActionRefused, NoAction
  <1>3. ListTypes'
    BY <1>1, <1>2 DEF ListTypes
  <1>4. LastInv' /\ PageFollowsControls'
    BY <1>1, <1>2 DEF LastInv, PageFollowsControls
  <1>5. \A filter, r, n : Behind(filter, r, n)' <=> Behind(filter, r, n)
    BY <1>2, TableSame
  <1>6. DueInv'
    BY <1>1, <1>2, <1>5 DEF DueInv, DueTells
  <1>7. WalkInv'
    BY <1>1, <1>2, <1>5 DEF WalkInv, WalkTells
  <1> QED
    BY <1>3, <1>4, <1>6, <1>7 DEF ListsInv
\* A row that changes leaves the filters that did not take it for what it was.
LEMMA RowChanges ==
  ASSUME ListTypes, NEW row \in 1 .. Len(table), NEW tag \in Tags, table' = [table EXCEPT ![row] = tag]
  PROVE  table' \in Seq(Tags) /\ Stay(Filters \ {table[row]})
  <1>1. table \in Seq(Tags) /\ Len(table) \in Nat
    BY DEF ListTypes
  <1>2. /\ table' \in Seq(Tags) /\ Len(table') = Len(table)
        /\ \A r \in 1 .. Len(table) : r # row => table'[r] = table[r]
    BY <1>1
  <1>3. ASSUME NEW filter \in Filters \ {table[row]}, NEW r \in Listed(filter)
        PROVE  r \in Listed(filter)'
    <2>1. r \in 1 .. Len(table') /\ filter \in {All, table[r]}
      BY <1>2 DEF Listed, Matches
    <2>2. filter \in {All, table'[r]}
      BY <1>2, <2>1
    <2> QED
      BY <2>1, <2>2 DEF Listed, Matches
  <1> QED
    BY <1>2, <1>3 DEF Stay

\* The loads of the filter a row leaves start no walk.
LEMMA WithoutWalkTells ==
  ASSUME ListTypes, NEW filter, NEW left, left = WithoutWalk(filter)
  PROVE  /\ left \in Seq(Loads) /\ Len(left) = Len(loads)
         /\ \A i \in 1 .. Len(loads) : /\ FromOld(left[i], Filters \ {filter})
                                       /\ left[i].at = loads[i].at
                                       /\ left[i].excused = loads[i].excused
  <1>1. Len(loads) \in Nat
    BY DEF ListTypes
  <1>2. \A i \in 1 .. Len(loads) :
           left[i] = IF loads[i].at.filter = filter THEN [loads[i] EXCEPT !.answer.due = {}] ELSE loads[i]
    BY DEF WithoutWalk
  <1>3. ASSUME NEW i \in 1 .. Len(loads)
        PROVE  /\ left[i] \in Loads
               /\ FromOld(left[i], Filters \ {filter})
               /\ left[i].at = loads[i].at
               /\ left[i].excused = loads[i].excused
    <2>1. PICK load \in Loads : load = loads[i]
      BY LoadsAreTyped
    <2>2. load.answer \in Answers /\ load.at.filter \in Filters
      BY <2>1, LoadsAreTyped
    <2>3. CASE load.at.filter = filter
      <3>1. PICK answer : answer = [load.answer EXCEPT !.due = {}]
        OBVIOUS
      <3>2. /\ answer \in Answers /\ answer.rows = load.answer.rows
            /\ answer.total = load.answer.total /\ answer.due = {}
        BY <2>2, <3>1 DEF Answers
      <3>3. left[i] = [load EXCEPT !.answer = answer]
        BY <1>2, <2>1, <2>3, <3>1
      <3>4. /\ left[i] \in Loads /\ left[i].answer = answer /\ left[i].at = load.at
            /\ left[i].served = load.served /\ left[i].excused = load.excused
        BY <3>2, <3>3 DEF Loads
      <3> QED
        BY <2>1, <3>2, <3>4 DEF FromOld
    <2>4. CASE load.at.filter # filter
      <3>1. left[i] = load
        BY <1>2, <2>1, <2>4
      <3> QED
        BY <2>1, <2>2, <2>4, <3>1 DEF FromOld
    <2> QED
      BY <2>3, <2>4
  <1>4. left = [i \in 1 .. Len(loads) |->
                  IF loads[i].at.filter = filter THEN [loads[i] EXCEPT !.answer.due = {}] ELSE loads[i]]
    BY DEF WithoutWalk
  <1>5. left \in Seq(Loads) /\ Len(left) = Len(loads)
    <2>1. \A i \in 1 .. Len(loads) : left[i] \in Loads
      BY <1>3
    <2>2. DOMAIN left = 1 .. Len(loads) /\ left = [i \in 1 .. Len(loads) |-> left[i]]
      BY <1>4
    <2> HIDE DEF Loads
    <2>3. left \in [1 .. Len(loads) -> Loads]
      BY <2>1, <2>2
    <2> QED
      BY <1>1, <2>3
  <1> QED
    BY <1>3, <1>5

\* What is known once a row has left a filter, and its walks are over.
LEMMA WalksAreOver ==
  ASSUME ListsInv, ListTypes', NEW filter, Stay(Filters \ {filter}), Leaves(filter),
         UNCHANGED <<controls, shown>>,
         \A i \in 1 .. Len(loads') : FromOld(loads'[i], Filters \ {filter})
  PROVE  DueInv' /\ WalkInv'
  <1>1. PICK K : K = Filters \ {filter}
    OBVIOUS
  <1>2. Stay(K) /\ \A i \in 1 .. Len(loads') : FromOld(loads'[i], K)
    BY <1>1
  <1>3. DueInv'
    BY <1>2, DueIsKept
  <1>4. CASE controls.filter = filter
    BY <1>3, <1>4, NoWalkTells DEF Leaves
  <1>5. CASE controls.filter # filter
    <2>1. controls.filter \in K
      BY <1>1, <1>5 DEF ListsInv, ListTypes, Ats
    <2>2. UNCHANGED <<walk, controls, shown>>
      BY <1>5 DEF Leaves
    <2> QED
      BY <1>2, <1>3, <2>1, <2>2, WalkIsKept
  <1> QED
    BY <1>4, <1>5

LEMMA LeavesTypes ==
  ASSUME ListTypes, NEW filter, Leaves(filter)
  PROVE  walk' \in [on : BOOLEAN, ahead : SUBSET Nat]
  BY DEF ListTypes, Leaves, NoWalk

LEMMA RowArrivesKeeps ==
  ASSUME ListsInv, NEW tag \in Tags, RowArrives(tag)
  PROVE  ListsInv'
  <1>1. ListTypes /\ LastInv /\ PageFollowsControls /\ table \in Seq(Tags) /\ Len(table) \in Nat
    BY DEF ListsInv, ListTypes
  <1>2. /\ table' = Append(table, tag)
        /\ UNCHANGED <<controls, loads, shown, loading, error, action, walk>>
    BY DEF RowArrives
  <1>3. /\ table' \in Seq(Tags) /\ Len(table') = Len(table) + 1
        /\ \A r \in 1 .. Len(table) : table'[r] = table[r]
    BY <1>1, <1>2
  <1>4. Stay(Filters)
    <2> SUFFICES ASSUME NEW filter \in Filters, NEW r \in Listed(filter)
                 PROVE  r \in Listed(filter)'
      BY DEF Stay
    <2>1. r \in 1 .. Len(table) /\ filter \in {All, table[r]}
      BY DEF Listed, Matches
    <2>2. r \in 1 .. Len(table') /\ filter \in {All, table'[r]}
      BY <1>1, <1>3, <2>1
    <2> QED
      BY <2>2 DEF Listed, Matches
  <1>5. ListTypes'
    BY <1>1, <1>2, <1>3 DEF ListTypes
  <1>6. LastInv' /\ PageFollowsControls'
    BY <1>1, <1>2 DEF LastInv, PageFollowsControls
  <1>7. \A i \in 1 .. Len(loads') : FromOld(loads'[i], Filters)
    BY <1>1, <1>2, LoadsAreTyped DEF FromOld
  <1>8. controls.filter \in Filters
    BY <1>1 DEF ListTypes, Ats
  <1>9. DueInv' /\ WalkInv'
    BY <1>2, <1>4, <1>5, <1>7, <1>8, DueIsKept, WalkIsKept
  <1> QED
    BY <1>5, <1>6, <1>9 DEF ListsInv

LEMMA RowMovesKeeps ==
  ASSUME ListsInv, NEW row \in 1 .. Len(table), NEW tag \in Tags, RowMoves(row, tag)
  PROVE  ListsInv'
  <1>1. ListTypes /\ LastInv /\ PageFollowsControls /\ Len(loads) \in Nat
    BY DEF ListsInv, ListTypes
  <1>2. /\ table' = [table EXCEPT ![row] = tag] /\ Leaves(table[row])
        /\ loads' = WithoutWalk(table[row])
        /\ UNCHANGED <<controls, shown, loading, error, action>>
    BY DEF RowMoves
  <1>3. PICK was : was = table[row]
    OBVIOUS
  <1>4. table' \in Seq(Tags) /\ Stay(Filters \ {was})
    BY <1>1, <1>2, <1>3, RowChanges
  <1>5. /\ loads' \in Seq(Loads) /\ Len(loads') = Len(loads)
        /\ \A i \in 1 .. Len(loads) : /\ FromOld(loads'[i], Filters \ {was})
                                      /\ loads'[i].at = loads[i].at
                                      /\ loads'[i].excused = loads[i].excused
    BY <1>1, <1>2, <1>3, WithoutWalkTells
  <1>6. ListTypes'
    BY <1>1, <1>2, <1>4, <1>5, LeavesTypes DEF ListTypes
  <1>7. LastInv' /\ PageFollowsControls'
    <2>1. loads' = << >> <=> loads = << >>
      BY <1>1, <1>5
    <2>2. loads # << >> => Len(loads) \in 1 .. Len(loads)
      BY <1>1
    <2>3. LastInv'
      BY <1>1, <1>2, <1>5, <2>1, <2>2 DEF LastInv, Latest
    <2>4. PageFollowsControls'
      BY <1>1, <1>2, <2>1 DEF PageFollowsControls
    <2> QED
      BY <2>3, <2>4
  <1>8. DueInv' /\ WalkInv'
    BY <1>2, <1>3, <1>4, <1>5, <1>6, WalksAreOver
  <1> QED
    BY <1>6, <1>7, <1>8 DEF ListsInv
\* The answer of an action changes its row, and reloads the page of the click.
LEMMA ActionAnsweredKeeps ==
  ASSUME ListsInv, NEW row \in 1 .. Len(table), NEW tag \in Tags, ActionAnswered(row, tag)
  PROVE  ListsInv'
  <1>1. ListTypes /\ LastInv /\ PageFollowsControls /\ Len(loads) \in Nat
    BY DEF ListsInv, ListTypes
  <1>2. /\ table' = [table EXCEPT ![row] = tag] /\ Leaves(table[row])
        /\ loads' = Append(WithoutWalk(table[row]), NewLoad(action.at))
        /\ action.pc = "sent" /\ action' = NoAction
        /\ UNCHANGED <<controls, shown, loading, error>>
    BY DEF ActionAnswered
  <1>3. PICK was : was = table[row]
    OBVIOUS
  <1>4. table' \in Seq(Tags) /\ Stay(Filters \ {was})
    BY <1>1, <1>2, <1>3, RowChanges
  <1>5. PICK left : left = WithoutWalk(was)
    OBVIOUS
  <1>6. /\ left \in Seq(Loads) /\ Len(left) = Len(loads)
        /\ \A i \in 1 .. Len(loads) : FromOld(left[i], Filters \ {was})
    BY <1>1, <1>5, WithoutWalkTells
  <1>7. PICK at \in Ats : at = action.at
    BY <1>1, <1>2 DEF ListTypes
  <1>8. PICK new : new = NewLoad(at)
    OBVIOUS
  <1>9. new \in Loads /\ ~ new.served /\ Latest(new, controls')
    BY <1>8, NewLoadTells
  <1>10. /\ loads' \in Seq(Loads) /\ Len(loads') = Len(loads) + 1 /\ loads'[Len(loads')] = new
         /\ \A i \in 1 .. Len(loads) : loads'[i] = left[i]
    <2> HIDE DEF Loads
    <2>1. loads' = Append(left, new)
      BY <1>2, <1>3, <1>5, <1>7, <1>8
    <2> QED
      BY <1>1, <1>6, <1>9, <2>1
  <1>11. \A i \in 1 .. Len(loads') : FromOld(loads'[i], Filters \ {was})
    <2> SUFFICES ASSUME NEW i \in 1 .. Len(loads')
                 PROVE  FromOld(loads'[i], Filters \ {was})
      OBVIOUS
    <2>1. i \in 1 .. Len(loads) \/ i = Len(loads')
      BY <1>1, <1>10
    <2>2. CASE i \in 1 .. Len(loads)
      <3>1. loads'[i] = left[i]
        BY <1>10, <2>2
      <3> QED
        BY <1>6, <2>2, <3>1
    <2>3. CASE i = Len(loads')
      BY <1>9, <1>10, <2>3 DEF FromOld
    <2> QED
      BY <2>1, <2>2, <2>3
  <1>12. ListTypes'
    BY <1>1, <1>2, <1>4, <1>10, LeavesTypes DEF ListTypes, NoAction
  <1>13. loads' # << >>
    BY <1>1, <1>10
  <1>14. LastInv' /\ PageFollowsControls'
    BY <1>9, <1>10, <1>13 DEF LastInv, PageFollowsControls
  <1>15. DueInv' /\ WalkInv'
    BY <1>2, <1>3, <1>4, <1>11, <1>12, WalksAreOver
  <1> QED
    BY <1>12, <1>14, <1>15 DEF ListsInv

\* The answer to an adjustment starts a new list at its first page.
LEMMA AdjustmentKeeps ==
  ASSUME ListsInv, NEW tag \in Tags, AdjustmentAnswered(tag)
  PROVE  ListsInv'
  <1>1. ListTypes /\ controls \in Ats /\ table \in Seq(Tags) /\ Len(table) \in Nat
    BY DEF ListsInv, ListTypes
  <1>2. /\ table' = Append(table, tag) /\ Load(<<action.at>> \o Effect)
        /\ controls' = [controls EXCEPT !.offset = 0]
        /\ walk' = NoWalk /\ action.pc = "adjusting" /\ action' = NoAction
        /\ UNCHANGED <<shown, error>>
    BY DEF AdjustmentAnswered, CreateAdjustment
  <1>3. /\ table' \in Seq(Tags) /\ Len(table') = Len(table) + 1
        /\ \A r \in 1 .. Len(table) : table'[r] = table[r]
    BY <1>1, <1>2
  <1>4. controls' \in Ats
    BY <1>1, <1>2 DEF Ats
  <1>5. PICK at \in Ats : at = action.at
    BY <1>1, <1>2 DEF ListTypes
  <1>6. PICK effect \in Seq(Ats) : effect = Effect
    BY <1>4, EffectTells
  <1>7. PICK ats \in Seq(Ats) : Load(ats) /\ Len(ats) > 0
    <2>1. Load(<<at>> \o effect)
      BY <1>2, <1>5, <1>6
    <2> HIDE DEF Ats
    <2>2. <<at>> \o effect \in Seq(Ats) /\ Len(<<at>> \o effect) > 0
      OBVIOUS
    <2> QED
      BY <2>1, <2>2
  <1>8. /\ loads' \in Seq(Loads) /\ LastInv' /\ PageFollowsControls'
        /\ \A i \in 1 .. Len(loads') : FromOld(loads'[i], Filters)
    BY <1>2, <1>4, <1>7, LoadsKeep
  <1>9. WalkInv' /\ walk' \in [on : BOOLEAN, ahead : SUBSET Nat]
    BY <1>2, NoWalkTells
  <1>10. ListTypes'
    BY <1>1, <1>2, <1>3, <1>4, <1>8, <1>9 DEF ListTypes, NoAction
  <1>11. Stay(Filters)
    <2> SUFFICES ASSUME NEW filter \in Filters, NEW r \in Listed(filter)
                 PROVE  r \in Listed(filter)'
      BY DEF Stay
    <2>1. r \in 1 .. Len(table) /\ filter \in {All, table[r]}
      BY DEF Listed, Matches
    <2>2. r \in 1 .. Len(table') /\ filter \in {All, table'[r]}
      BY <1>1, <1>3, <2>1
    <2> QED
      BY <2>2 DEF Listed, Matches
  <1>12. DueInv'
    BY <1>8, <1>10, <1>11, DueIsKept
  <1> QED
    BY <1>8, <1>9, <1>10, <1>12 DEF ListsInv

LEMMA ListsStart ==
  ASSUME InitLists
  PROVE  ListsInv
  <1>1. PICK at : at = [filter |-> All, offset |-> 0]
    OBVIOUS
  <1>2. at \in Ats
    BY <1>1, ListsAssumption DEF Ats
  <1>3. PICK first : first = [at |-> at, served |-> FALSE, answer |-> None, excused |-> FALSE]
    OBVIOUS
  <1>4. first \in Loads /\ first.at = at /\ ~ first.served
    BY <1>2, <1>3 DEF Loads, None, Answers
  <1>5. /\ controls = at /\ loads = <<first>> /\ loading = TRUE /\ action = NoAction /\ walk = NoWalk
        /\ shown = [at |-> at, total |-> 0, excused |-> FALSE]
        /\ table \in UNION {[1 .. n -> Tags] : n \in 0 .. MaxRows}
    BY <1>1, <1>3 DEF InitLists
  <1>6. table \in Seq(Tags)
    BY <1>5, ListsAssumption
  <1>7. loads \in Seq(Loads) /\ Len(loads) = 1 /\ loads[1] = first
    <2> HIDE DEF Loads
    <2> QED
      BY <1>4, <1>5
  <1>8. ListTypes
    BY <1>2, <1>5, <1>6, <1>7 DEF ListTypes, NoAction, NoWalk
  <1>9. LastInv /\ PageFollowsControls
    BY <1>4, <1>5, <1>7 DEF LastInv, Latest, PageFollowsControls
  <1>10. DueInv /\ WalkInv
    BY <1>4, <1>5, <1>7 DEF DueInv, DueTells, WalkInv, NoWalk
  <1> QED
    BY <1>8, <1>9, <1>10 DEF ListsInv

LEMMA ListsKeep ==
  ASSUME ListsInv, [NextLists]_listVars
  PROVE  ListsInv'
  <1>1. CASE Reader
    <2>1. CASE \/ \E filter \in Filters : SelectFilter(filter) \/ SearchFilter(filter)
               \/ \E offset \in PagerOffsets : PreviousPage(offset)
      BY <2>1, SelectionKeeps
    <2>2. CASE \E offset \in PagerOffsets : NextPage(offset)
      BY <2>2, NextPageKeeps
    <2>3. CASE Refresh
      BY <2>3, RefreshKeeps
    <2>4. CASE Click \/ OpenAdjustment
      BY <2>4, ActionKeeps
    <2> QED
      BY <1>1, <2>1, <2>2, <2>3, <2>4 DEF Reader
  <1>2. CASE Others
    <2>1. CASE \E i \in 1 .. Len(loads) : Serve(i) \/ ReceiveLoad(i) \/ LoadFails(i)
      BY <2>1, ServeKeeps, ReceiveKeeps, FailureKeeps
    <2>2. CASE \E tag \in Tags : RowArrives(tag) \/ AdjustmentAnswered(tag)
      BY <2>2, RowArrivesKeeps, AdjustmentKeeps
    <2>3. CASE \E tag \in Tags : \E row \in 1 .. Len(table) : RowMoves(row, tag) \/ ActionAnswered(row, tag)
      BY <2>3, RowMovesKeeps, ActionAnsweredKeeps
    <2>4. CASE ActionRefused
      BY <2>4, ActionKeeps
    <2> QED
      BY <1>2, <2>1, <2>2, <2>3, <2>4 DEF Others
  <1>3. CASE UNCHANGED listVars
    <2>1. UNCHANGED <<table, controls, loads, shown, loading, error, action, walk>>
      BY <1>3 DEF listVars
    <2>2. \A filter, r, n : Behind(filter, r, n)' <=> Behind(filter, r, n)
      BY <2>1, TableSame
    <2>3. ListTypes' /\ LastInv' /\ PageFollowsControls'
      BY <2>1 DEF ListsInv, ListTypes, LastInv, PageFollowsControls
    <2>4. DueInv'
      BY <2>1, <2>2 DEF ListsInv, DueInv, DueTells
    <2>5. WalkInv'
      BY <2>1, <2>2 DEF ListsInv, WalkInv, WalkTells
    <2> QED
      BY <2>3, <2>4, <2>5 DEF ListsInv
  <1> QED
    BY <1>1, <1>2, <1>3 DEF NextLists

LEMMA ListsAlways == SpecLists => []ListsInv
  <1>1. InitLists => ListsInv
    BY ListsStart
  <1>2. ListsInv /\ [NextLists]_listVars => ListsInv'
    BY ListsKeep
  <1> QED
    BY <1>1, <1>2, PTL DEF SpecLists

\* Once its loads are back, a list page shows the rows of its own filter and offset, or an
\* error, and no spinner - unless an answer came after that of a later load, or the answer is
\* that of an action's reload, made from a render that was gone.
THEOREM PagesFollowControls == SpecLists => []PageFollowsControls
  <1>1. ListsInv => PageFollowsControls
    BY DEF ListsInv
  <1> QED
    BY <1>1, ListsAlways, PTL

\* Who turns the pages of a list from the first to the last, waiting for each, has seen every
\* row that was there at the beginning, unless one left the filter meanwhile.
THEOREM WalksAreComplete == SpecLists => []WalkIsComplete
  <1>1. ASSUME ListsInv
        PROVE  WalkIsComplete
    <2>1. ListTypes /\ WalkInv
      BY <1>1 DEF ListsInv
    <2>2. controls.offset + Limit \in Nat /\ shown.total \in Nat
      BY <2>1, ListsAssumption DEF ListTypes, Ats
    <2>3. SUFFICES ASSUME walk.on, shown.at = controls, controls.offset + Limit >= shown.total
                   PROVE  walk.ahead = {}
      BY DEF WalkIsComplete, OnLastPage
    <2>4. \A r \in walk.ahead : shown.total > controls.offset + Limit
      BY <2>1, <2>3 DEF WalkInv
    <2>5. \A r \in walk.ahead : FALSE
      BY <2>2, <2>3, <2>4
    <2> QED
      BY <2>5
  <1> QED
    BY <1>1, ListsAlways, PTL
=============================================================================
