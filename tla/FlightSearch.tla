---------------------------- MODULE FlightSearch ----------------------------
(***************************************************************************)
(* A flight search, from the button on the page to Duffel and back.  The   *)
(* server answers from a Redis cache of Duffel's answers, whose lifetime   *)
(* follows the offers', or spends a token of the bucket that keeps all     *)
(* backend instances under Duffel's rate limit.  The bucket, which the     *)
(* booking service spends from too, is read and written in two calls.  The *)
(* page shows whichever answer arrives and keeps one in sessionStorage for *)
(* the way back from the checkout.                                         *)
(*                                                                         *)
(* Time passes in ticks of half a second: redis expiries are whole         *)
(* seconds, and offers expire between them.                                *)
(***************************************************************************)
EXTENDS Integers, FiniteSets

CONSTANTS
    Queries,        \* search forms, as buildCacheKey tells them apart
    Incomplete,     \* those without an origin, a destination or a date
    Requests,       \* GET /flights/search requests of one tab
    Callers,        \* booking requests that spend from the same bucket
    Nothing,
    Lives,          \* ticks an answer's shortest-lived offer may live
    Capacity,       \* tokens of the full bucket
    Refill,         \* tokens per tick
    CacheSeconds,   \* cap of the Redis lifetime (120 s)
    PageTicks,      \* lifetime of the sessionStorage entry (10 min)
    MaxTime,        \* bound: ticks
    MaxSearches     \* bound: searches of the tab

ASSUME SearchAssumption ==
    /\ Requests \intersect Callers = {}
    /\ Incomplete \subseteq Queries
    /\ Lives \subseteq Nat
    /\ {Capacity, Refill, CacheSeconds, PageTicks, MaxTime, MaxSearches} \subseteq Nat

VARIABLES
    now,        \* the clock
    bucket,     \* duffel_rate_limit:search: tokens left, and last_refill
    spent,      \* calls to Duffel that the bucket has let pass
    lost,       \* history: of these, those made between a caller's read of the
                \* bucket and its write, which the write makes the bucket forget
    cache,      \* flight_search:cache, by query
    request,    \* what each search, and each booking call, is doing
    page,       \* the mounted page: the form's query, the last one sent or
                \* restored, the offers shown, loading
    session,    \* the sessionStorage entry
    searches,   \* searches so far
    crossed     \* what is shown came after the answer of a later search

vars == <<now, bucket, spent, lost, cache, request, page, session, searches, crossed>>

Idle == [pc |-> "idle", query |-> Nothing, open |-> FALSE, late |-> FALSE,
         before |-> {}, dies |-> -1, ttl |-> 0, at |-> 0, left |-> 0, seen |-> 0]

Init ==
    /\ now = 0
    /\ bucket = [tokens |-> Capacity, last |-> 0]
    /\ spent = 0 /\ lost = 0
    /\ cache = [q \in Queries |-> Nothing]
    /\ request = [r \in Requests \union Callers |-> Idle]
    /\ page = [query |-> Nothing, sent |-> Nothing, shown |-> Nothing, loading |-> FALSE]
    /\ session = Nothing
    /\ searches = 0
    /\ crossed = FALSE

Tick ==
    /\ now < MaxTime
    /\ now' = now + 1
    /\ cache' = [q \in Queries |-> IF cache[q] # Nothing /\ cache[q].until > now + 1
                                   THEN cache[q] ELSE Nothing]
    /\ UNCHANGED <<bucket, spent, lost, request, page, session, searches, crossed>>

Go(r, pc) == request' = [request EXCEPT ![r].pc = pc]

-----------------------------------------------------------------------------
(* The page. *)

\* Searches of the page as it is now open, whose answer is still to come.
Out == {r \in Requests : request[r].open}

\* fetchFlights: what was shown stays until the answer comes.  The requests of a
\* page that has been left go on without it.
Fetch(r, q, rest) ==
    /\ request[r] = Idle
    /\ searches < MaxSearches
    /\ searches' = searches + 1
    /\ request' = [x \in DOMAIN request |->
          IF x = r THEN [Idle EXCEPT !.pc = "arrived", !.query = q, !.open = TRUE,
                                     !.before = rest]
          ELSE [request[x] EXCEPT !.open = x \in rest, !.before = @ \intersect rest]]

\* readResultsCache
Remembered(q) ==
    /\ session # Nothing
    /\ session.key = q
    /\ now - session.at <= PageTicks

\* The page is opened with a query in its URL, from the landing page or on the way
\* back from the checkout: it restores the stored results, if any, or searches; a
\* query without a date it neither finds nor sends.
Mount(q) ==
    /\ IF Remembered(q)
       THEN page' = [query |-> q, sent |-> q, shown |-> session.offers, loading |-> FALSE]
       ELSE IF q \in Incomplete
       THEN page' = [query |-> q, sent |-> Nothing, shown |-> Nothing, loading |-> FALSE]
       ELSE page' = [query |-> q, sent |-> q, shown |-> Nothing, loading |-> TRUE]
    /\ IF page'.loading
       THEN \E r \in Requests : Fetch(r, q, {})
       ELSE /\ request' = [x \in DOMAIN request |->
                  [request[x] EXCEPT !.open = FALSE, !.before = {}]]
            /\ UNCHANGED searches
    /\ crossed' = FALSE
    /\ UNCHANGED <<now, bucket, spent, lost, cache, session>>

\* handleSearch, which nothing disables while an earlier search is out ...
Search(r, q) ==
    /\ page.query # Nothing /\ q \notin Incomplete
    /\ page' = [page EXCEPT !.query = q, !.sent = q, !.loading = TRUE]
    /\ Fetch(r, q, Out)
    /\ UNCHANGED <<now, bucket, spent, lost, cache, session, crossed>>

\* ... and with an incomplete form: the URL changes and the spinner stops, the list
\* and the searches that are out stay, and nothing is sent.
SearchIncomplete(q) ==
    /\ page.query # Nothing /\ q \in Incomplete
    /\ page' = [page EXCEPT !.query = q, !.loading = FALSE]
    /\ UNCHANGED <<now, bucket, spent, lost, cache, request, session, searches, crossed>>

\* The request is over; the searches it was started after are late now.
Over(r) ==
    request' = [x \in DOMAIN request |->
        IF x = r THEN Idle
        ELSE [request[x] EXCEPT !.late = @ \/ x \in request[r].before,
                                !.before = @ \ {r}]]

\* Variant: the entry is stored under the form's query, not the answer's.
Receive_FormKey(r) ==
    /\ request[r].pc = "answered"
    /\ session' = [key |-> page.query, at |-> now, offers |-> request[r].query]
    /\ IF request[r].open
       THEN /\ page' = [page EXCEPT !.shown = request[r].query, !.loading = FALSE]
            /\ crossed' = request[r].late
       ELSE UNCHANGED <<page, crossed>>
    /\ Over(r)
    /\ UNCHANGED <<now, bucket, spent, lost, cache, searches>>

\* The answer comes: it is shown, whichever search it answers, unless the page
\* has been left meanwhile, and stored.
Receive(r) ==
    /\ request[r].pc = "answered"
    /\ session' = [key |-> request[r].query, at |-> now, offers |-> request[r].query]
    /\ IF request[r].open
       THEN /\ page' = [page EXCEPT !.shown = request[r].query, !.loading = FALSE]
            /\ crossed' = request[r].late
       ELSE UNCHANGED <<page, crossed>>
    /\ Over(r)
    /\ UNCHANGED <<now, bucket, spent, lost, cache, searches>>

\* An error clears the list.
ReceiveError(r) ==
    /\ request[r].pc = "refused"
    /\ IF request[r].open
       THEN /\ page' = [page EXCEPT !.shown = Nothing, !.loading = FALSE]
            /\ crossed' = request[r].late
       ELSE UNCHANGED <<page, crossed>>
    /\ Over(r)
    /\ UNCHANGED <<now, bucket, spent, lost, cache, session, searches>>

-----------------------------------------------------------------------------
(* FlightsService.search *)

\* Redis still has the answer of query q.
Cached(q) == cache[q] # Nothing /\ now < cache[q].until

\* checkInboundRateLimit may refuse; then the cache is looked up.
LookUpCache(r) ==
    LET q == request[r].query IN
    /\ request[r].pc = "arrived"
    /\ \/ Go(r, "refused")
       \/ Go(r, IF Cached(q) THEN "answered" ELSE "limiting")
    /\ UNCHANGED <<now, bucket, spent, lost, cache, page, session, searches, crossed>>

Lower(x, y) == IF x < y THEN x ELSE y

\* checkOutboundRateLimit, in a search or at any time in a booking that fetches
\* its offer, reads the bucket and refills it by the time passed ...
ReadBucket(x) ==
    LET tokens == Lower(Capacity, bucket.tokens + (now - bucket.last) * Refill) IN
    /\ request[x].pc = IF x \in Callers THEN "idle" ELSE "limiting"
    /\ IF tokens < 1
       THEN request' = [request EXCEPT ![x] =
               IF x \in Callers THEN Idle ELSE [@ EXCEPT !.pc = "refused"]]
       ELSE request' = [request EXCEPT ![x].pc = "spending", ![x].left = tokens - 1,
                                       ![x].at = now, ![x].seen = spent]
    /\ UNCHANGED <<now, bucket, spent, lost, cache, page, session, searches, crossed>>

\* Variant: the time of the refill is not written back.
SpendToken_KeepsStamp(x) ==
    /\ request[x].pc = "spending"
    /\ bucket' = [bucket EXCEPT !.tokens = request[x].left]
    /\ spent' = spent + 1
    /\ lost' = lost + (spent - request[x].seen)
    /\ request' = [request EXCEPT ![x] =
          IF x \in Callers THEN Idle ELSE [@ EXCEPT !.pc = "calling", !.left = 0, !.at = 0,
                                                    !.seen = 0]]
    /\ UNCHANGED <<now, cache, page, session, searches, crossed>>

\* ... and writes what is left, over whatever others have written since.
SpendToken(x) ==
    /\ request[x].pc = "spending"
    /\ bucket' = [tokens |-> request[x].left, last |-> request[x].at]
    /\ spent' = spent + 1
    /\ lost' = lost + (spent - request[x].seen)
    /\ request' = [request EXCEPT ![x] =
          IF x \in Callers THEN Idle ELSE [@ EXCEPT !.pc = "calling", !.left = 0, !.at = 0,
                                                    !.seen = 0]]
    /\ UNCHANGED <<now, cache, page, session, searches, crossed>>

\* duffelService.search.  External: Duffel answers with offers, or does not.
AskDuffel(r) ==
    /\ request[r].pc = "calling"
    /\ \/ \E life \in Lives :
             request' = [request EXCEPT ![r].pc = "caching", ![r].dies = now + life]
       \/ Go(r, "refused")
    /\ UNCHANGED <<now, bucket, spent, lost, cache, page, session, searches, crossed>>

\* Variant: the remaining time is rounded up.
CacheTtl_Ceiling(dies) ==
    Lower(CacheSeconds, IF dies > now THEN (dies - now + 1) \div 2 ELSE 0)

\* calculateCacheTtl, in whole seconds.
CacheTtl(dies) ==
    Lower(CacheSeconds, IF dies > now THEN (dies - now) \div 2 ELSE 0)

ComputeTtl(r) ==
    LET ttl == CacheTtl(request[r].dies) IN
    /\ request[r].pc = "caching"
    /\ IF ttl > 0
       THEN request' = [request EXCEPT ![r].pc = "storing", ![r].ttl = ttl, ![r].at = now]
       ELSE request' = [request EXCEPT ![r].pc = "answered", ![r].dies = -1]
    /\ UNCHANGED <<now, bucket, spent, lost, cache, page, session, searches, crossed>>

\* setex, whose lifetime starts when Redis gets it.
StoreAnswer(r) ==
    /\ request[r].pc = "storing"
    /\ cache' = [cache EXCEPT ![request[r].query] =
          [dies |-> request[r].dies, until |-> now + 2 * request[r].ttl,
           delay |-> now - request[r].at]]
    /\ request' = [request EXCEPT ![r].pc = "answered", ![r].dies = -1,
                                  ![r].ttl = 0, ![r].at = 0]
    /\ UNCHANGED <<now, bucket, spent, lost, page, session, searches, crossed>>

-----------------------------------------------------------------------------
Next ==
    \/ Tick
    \/ \E q \in Queries : Mount(q) \/ SearchIncomplete(q) \/ \E r \in Requests : Search(r, q)
    \/ \E r \in Requests : \/ LookUpCache(r) \/ AskDuffel(r) \/ ComputeTtl(r)
                           \/ StoreAnswer(r) \/ Receive(r) \/ ReceiveError(r)
    \/ \E x \in Requests \union Callers : ReadBucket(x) \/ SpendToken(x)

Spec == Init /\ [][Next]_vars

-----------------------------------------------------------------------------
\* Types; and the page waits only for a search that is out: no answer and no
\* error leaves it loading for ever.  Checked with ResultsAnswerSearch.
PageOK ==
    /\ page.loading => Out # {}
    /\ page.query \in Queries \union {Nothing}
    /\ page.query \notin Incomplete => page.sent = page.query
    /\ bucket.tokens \in 0 .. Capacity /\ bucket.last \in 0 .. now
    /\ session # Nothing => session.at <= now

\* Duffel's budget: the calls made are covered by the full bucket and its refill
\* (nfr.md section 3, the bucket "shared across backend instances"), but for those
\* that one caller, a search or a booking, makes while another is between its read
\* of the bucket and its write.
SpendingIsCovered == spent <= Capacity + Refill * bucket.last + lost

\* The cache never serves an offer that has expired, unless the setex reached
\* Redis later than its lifetime was computed, and then by no more than that
\* (duffel_api_integration_guide.md section 7: "never longer than the minimum
\* expires_at remaining among the cached offers").
CachedOffersLive ==
    \A q \in Queries : Cached(q) => now < cache[q].dies + cache[q].delay

\* When no search is out, the list shown answers the last search that was sent or
\* restored, which is the form's unless that is incomplete, whatever was left, opened
\* again and stored under which key meanwhile, unless an answer has overtaken a later
\* one's.
ResultsAnswerSearch ==
    /\ PageOK
    /\ Out = {} /\ ~ crossed /\ page.shown # Nothing => page.shown = page.sent
=============================================================================
