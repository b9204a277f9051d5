--------------------------- MODULE QueryApiProofs ---------------------------
(***************************************************************************)
(* Proofs about QueryApi, for every number of requests, users, windows and *)
(* threads: what either cache answers with, the conservation of the worker *)
(* slots, and the two promises of the rate limiter.  The variables of the  *)
(* four parts are disjoint, so each invariant is inductive on its own and  *)
(* the steps of the other parts leave it alone.                            *)
(***************************************************************************)
EXTENDS QueryApi, FiniteSetTheorems, TLAPS

-----------------------------------------------------------------------------
(* The caches.                                                              *)

Asked(r) == asked[r] \in [query : Queries, release : Releases]

\* What a request is about to send, or to keep, is its own and within its limit.
OwnAnswer(r) ==
    /\ answer[r].user = Owner[r]
    /\ answer[r].query = asked[r].query
    /\ answer[r].policy = Policy[asked[r].release]
    /\ Fits(r, answer[r])

Repeatable(a) == a.clean /\ a.complete /\ a.query \notin FileQueries

\* Every entry was made for the very key it is found under, from the answer a
\* request still had to store.
CacheInv ==
    /\ run \in [Requests -> Working \cup {"none", "answered", "failed", "over"}]
    /\ DOMAIN asked = Requests
    /\ DOMAIN answer = Requests
    /\ \A r \in Requests : run[r] \in Working => Asked(r)
    /\ \A r \in Requests : run[r] \in {"answered", "storing"} => OwnAnswer(r)
    /\ \A r \in Requests : run[r] = "storing" => Repeatable(answer[r])
    /\ \A k \in DOMAIN entry :
          /\ entry[k].user = k.user
          /\ entry[k].query = k.query
          /\ entry[k].policy = k.policy
          /\ Repeatable(entry[k])

SearchInv ==
    /\ DOMAIN result = Requests
    /\ FoundFits

LEMMA CacheInvInit == QueryInit => CacheInv /\ SearchInv
  BY DEF QueryInit, CacheInit, SearchInit, CacheInv, Working, SearchInv, FoundFits

LEMMA RunStepKeepsCache ==
  ASSUME CacheInv, NEW r \in Requests,
         \/ BeginRun(r) \/ Lookup(r) \/ GraphEnds(r) \/ RunFails(r) \/ Store(r)
         \/ AbandonRun(r) \/ Respond(r)
         \/ (RunTo(r, "over") /\ UNCHANGED <<entry, asked, answer>>)
  PROVE  CacheInv'
  <1> USE DEF CacheInv, RunTo, Working
  <1>1. CASE BeginRun(r)
    BY <1>1 DEF BeginRun, Asked, OwnAnswer, Repeatable, Fits
  <1>2. CASE Lookup(r)
    BY <1>2 DEF Lookup, Asked, OwnAnswer, Repeatable, Fits, Aget, CacheKey
  <1>3. CASE GraphEnds(r)
    <2>1. PICK ledgers \in SUBSET BOOLEAN, complete \in Completeness, size \in Sizes :
             LET a == [user |-> Owner[r], query |-> asked[r].query,
                       policy |-> Policy[asked[r].release], size |-> size,
                       clean |-> TRUE \in ledgers /\ FALSE \notin ledgers, complete |-> complete]
             IN  /\ Fits(r, a)
                 /\ answer' = [answer EXCEPT ![r] = a]
                 /\ RunTo(r, IF Keeps(r, ledgers, complete) THEN "storing" ELSE "answered")
      BY <1>3 DEF GraphEnds
    <2>0. complete \in BOOLEAN
      BY DEF Completeness, CompleteAnswer
    <2>2. Keeps(r, ledgers, complete) =>
             TRUE \in ledgers /\ FALSE \notin ledgers /\ complete /\ asked[r].query \notin FileQueries
      BY DEF Keeps, AllowsCache, Bypass
    <2>3. OwnAnswer(r)' /\ (run'[r] = "storing" => Repeatable(answer'[r]))
      BY <1>3, <2>0, <2>1, <2>2 DEF GraphEnds, OwnAnswer, Repeatable, Fits
    <2>4. /\ \A s \in Requests \ {r} : run'[s] = run[s] /\ answer'[s] = answer[s]
          /\ run' \in [Requests -> Working \cup {"none", "answered", "failed", "over"}]
          /\ DOMAIN answer' = Requests
          /\ asked' = asked /\ entry' = entry
          /\ run[r] \in Working
      BY <1>3, <2>1 DEF GraphEnds
    <2>5. \A s \in Requests : Asked(s)' <=> Asked(s)
      BY <2>4 DEF Asked
    <2>6. \A s \in Requests \ {r} : Repeatable(answer'[s]) <=> Repeatable(answer[s])
      BY <2>4 DEF Repeatable
    <2>7. \A k \in DOMAIN entry : Repeatable(entry'[k]) <=> Repeatable(entry[k])
      BY <2>4 DEF Repeatable
    <2>8. \A s \in Requests : run'[s] \in Working => Asked(s)'
      BY <2>4, <2>5
    <2>9. \A s \in Requests : run'[s] \in {"answered", "storing"} => OwnAnswer(s)'
      BY <2>3, <2>4 DEF OwnAnswer, Fits
    <2>10. \A s \in Requests : run'[s] = "storing" => Repeatable(answer'[s])
      BY <2>3, <2>4, <2>6
    <2>11. \A k \in DOMAIN entry' :
             /\ entry'[k].user = k.user
             /\ entry'[k].query = k.query
             /\ entry'[k].policy = k.policy
             /\ Repeatable(entry'[k])
      BY <2>4, <2>7
    <2>12. QED
      BY <2>4, <2>8, <2>9, <2>10, <2>11
  <1>4. CASE RunFails(r)
    BY <1>4 DEF RunFails, Asked, OwnAnswer, Repeatable, Fits
  <1>5. CASE Store(r)
    BY <1>5 DEF Store, Aset, Asked, OwnAnswer, Repeatable, Fits, CacheKey
  <1>6. CASE AbandonRun(r)
    BY <1>6 DEF AbandonRun, Aset, Asked, OwnAnswer, Repeatable, Fits, CacheKey
  <1>7. CASE Respond(r)
    BY <1>7 DEF Respond, Asked, OwnAnswer, Repeatable, Fits
  <1>8. CASE RunTo(r, "over") /\ UNCHANGED <<entry, asked, answer>>
    BY <1>8 DEF Asked, OwnAnswer, Repeatable, Fits
  <1>9. QED
    BY <1>1, <1>2, <1>3, <1>4, <1>5, <1>6, <1>7, <1>8

LEMMA SearchInvStep ==
  ASSUME SearchInv,
         ForgetSearch \/ \E r \in Requests : SearchStep(r) \/ AbandonSearch(r)
  PROVE  SearchInv'
  BY DEF SearchInv, FoundFits, SearchStep, ForgetSearch, BeginSearch, Find, Evict, Ask,
         SearchFails, Keep, AbandonSearch, Proceeds, Returns

\* What the rest of the state does not touch.
LEMMA CacheFrame == CacheInv /\ UNCHANGED cacheVars => CacheInv'
  BY DEF CacheInv, cacheVars, Asked, OwnAnswer, Repeatable, Fits

LEMMA SearchFrame == SearchInv /\ UNCHANGED searchVars => SearchInv'
  BY DEF SearchInv, searchVars, FoundFits

LEMMA CacheInvNext == CacheInv /\ SearchInv /\ [QueryNext]_queryVars => CacheInv' /\ SearchInv'
  <1> SUFFICES ASSUME CacheInv, SearchInv, [QueryNext]_queryVars PROVE CacheInv' /\ SearchInv'
    OBVIOUS
  <1> USE CacheFrame, SearchFrame
  <1>1. CASE Limiter
    BY <1>1 DEF Limiter
  <1>2. CASE Redis
    <2>1. CASE ForgetEntry /\ UNCHANGED searchVars
      BY <2>1 DEF CacheInv, ForgetEntry, Asked, OwnAnswer, Repeatable, Fits
    <2>2. CASE ForgetSearch /\ UNCHANGED cacheVars
      BY <2>2, SearchInvStep
    <2>3. QED
      BY <1>2, <2>1, <2>2 DEF Redis
  <1>3. ASSUME NEW r \in Requests, QueryStep(r) PROVE CacheInv' /\ SearchInv'
    <2>1. CASE Admitted(r)
      BY <2>1, RunStepKeepsCache DEF Admitted
    <2>2. CASE NotAdmitted(r)
      BY <2>2, RunStepKeepsCache DEF NotAdmitted, searchVars
    <2>3. CASE Serve(r)
      BY <2>3, RunStepKeepsCache DEF Serve
    <2>4. CASE CallSearch(r)
      BY <2>4, SearchInvStep DEF CallSearch
    <2>5. CASE CallStatistics(r) \/ Threads(r)
      BY <2>5 DEF CallStatistics, Threads
    <2>6. CASE Abandon(r)
      BY <2>6, RunStepKeepsCache, SearchInvStep DEF Abandon
    <2>7. CASE LeaseEnds(r)
      BY <2>7, RunStepKeepsCache DEF LeaseEnds
    <2>8. QED
      BY <1>3, <2>1, <2>2, <2>3, <2>4, <2>5, <2>6, <2>7 DEF QueryStep
  <1>4. CASE UNCHANGED queryVars
    BY <1>4 DEF queryVars
  <1>5. QED
    BY <1>1, <1>2, <1>3, <1>4 DEF QueryNext

\* Whoever asks, in whatever order the processes of any number of releases look
\* up, run and store, an answer found cached was made for this user, this query
\* and this policy and fits the limit of the process that sends it, which is no
\* part of the key; and no search result outside the limits reaches a graph
\* (agent_service.py ainvoke, cache_service.py, tools/search.py).
THEOREM CachesStayHonest == QuerySpec => []CachesHonest
  <1>1. CacheInv /\ SearchInv => CachesHonest
    BY DEF CacheInv, SearchInv, CachesHonest, CacheProvenance, OwnAnswer, Repeatable
  <1>2. QED
    BY CacheInvInit, CacheInvNext, <1>1, PTL DEF QuerySpec
-----------------------------------------------------------------------------
(* The worker slots.                                                        *)

SlotsInv ==
    /\ permits \in Nat
    /\ future \in [Requests -> {"none", "pending", "running", "over"}]
    /\ SlotsConserved

LEMMA SlotsInvInit == QueryInit => SlotsInv
  <1> SUFFICES ASSUME QueryInit PROVE SlotsInv
    OBVIOUS
  <1>1. permits = Slots /\ future = [r \in Requests |-> "none"]
    BY DEF QueryInit, SlotsInit
  <1>2. Unfinished = {}
    BY <1>1 DEF Unfinished
  <1>3. QED
    BY <1>1, <1>2, SlotsAssumption, FS_EmptySet DEF SlotsInv, SlotsConserved

LEMMA UnfinishedFinite == IsFiniteSet(Unfinished) /\ Cardinality(Unfinished) \in Nat
  BY RequestsAssumption, FS_Subset, FS_CardinalityType DEF Unfinished

\* A slot is taken with a calculation that becomes unfinished.
LEMMA TakeSlot ==
  ASSUME SlotsInv, NEW r \in Requests,
         future[r] = "none", permits > 0, permits' = permits - 1, FutureTo(r, "pending")
  PROVE  SlotsInv'
  <1>1. Unfinished' = Unfinished \cup {r} /\ r \notin Unfinished
    BY DEF SlotsInv, Unfinished, FutureTo
  <1>2. Cardinality(Unfinished') = Cardinality(Unfinished) + 1
    BY <1>1, UnfinishedFinite, FS_AddElement
  <1>3. QED
    BY <1>2, UnfinishedFinite, SlotsAssumption DEF SlotsInv, SlotsConserved, FutureTo

\* It is given back when that calculation is over, and only then.
LEMMA GiveBackSlot ==
  ASSUME SlotsInv, NEW r \in Requests, future[r] \in {"pending", "running"}, Release(r)
  PROVE  SlotsInv'
  <1>1. Unfinished' = Unfinished \ {r} /\ r \in Unfinished
    BY DEF SlotsInv, Unfinished, FutureTo, Release
  <1>2. Cardinality(Unfinished') = Cardinality(Unfinished) - 1
    BY <1>1, UnfinishedFinite, FS_RemoveElement
  <1>3. QED
    BY <1>2, UnfinishedFinite, SlotsAssumption DEF SlotsInv, SlotsConserved, FutureTo, Release

LEMMA KeepSlot ==
  ASSUME SlotsInv, permits' = permits, future' \in [Requests -> {"none", "pending", "running", "over"}],
         \A r \in Requests : future'[r] \in {"pending", "running"} <=> future[r] \in {"pending", "running"}
  PROVE  SlotsInv'
  BY DEF SlotsInv, SlotsConserved, Unfinished

LEMMA SlotsInvNext == SlotsInv /\ [QueryNext]_queryVars => SlotsInv'
  <1> SUFFICES ASSUME SlotsInv, [QueryNext]_queryVars PROVE SlotsInv'
    OBVIOUS
  <1>1. CASE UNCHANGED slotVars
    BY <1>1 DEF SlotsInv, SlotsConserved, Unfinished, slotVars
  <1>2. ASSUME NEW r \in Requests, Submit(r) PROVE SlotsInv'
    BY <1>2, TakeSlot, KeepSlot DEF Submit, FutureTo, SlotsInv
  <1>3. ASSUME NEW r \in Requests, SlotStep(r) PROVE SlotsInv'
    BY <1>3, GiveBackSlot, KeepSlot DEF SlotStep, PickUp, Calculated, FutureTo, SlotsInv
  <1>4. ASSUME NEW r \in Requests, AbandonCall(r) PROVE SlotsInv'
    BY <1>4, GiveBackSlot, KeepSlot DEF AbandonCall, SlotsInv
  <1>5. QED
    BY <1>1, <1>2, <1>3, <1>4
    DEF QueryNext, Limiter, Redis, QueryStep, Admitted, NotAdmitted, Serve, CallSearch,
        CallStatistics, Threads, Abandon, LeaseEnds, queryVars

\* A worker slot is out for every calculation that is not over and for nothing
\* else, however requests are cancelled while their call waits for a thread or
\* runs in one (tools/file_statistics.py, analyze_file_statistics).
THEOREM SlotsAreConserved == QuerySpec => []SlotsConserved
  <1>1. SlotsInv => SlotsConserved
    BY DEF SlotsInv
  <1>2. QED
    BY SlotsInvInit, SlotsInvNext, <1>1, PTL DEF QuerySpec
-----------------------------------------------------------------------------
(* The rate limiter.                                                        *)

\* A window takes some ticks, and windows follow one another.
LEMMA WindowTakesTime == WindowTicks \in Nat \ {0} /\ HalfSecond \in Nat
  BY RateLimitAssumption DEF WindowTicks, HalfSecond

LEMMA WindowType == \A t \in Nat : WindowOf(t) \in Nat
  BY WindowTakesTime DEF WindowOf

LEMMA WindowMonotone == \A t, u \in Nat : t <= u => WindowOf(t) <= WindowOf(u)
  BY WindowTakesTime DEF WindowOf

LEMMA WindowNext == \A t \in Nat : WindowOf(t + WindowTicks) > WindowOf(t)
  BY WindowTakesTime DEF WindowOf

\* What Redis takes off when it rounds is at most half a second.
LEMMA RoundingIsShort ==
  ASSUME NEW d \in Int
  PROVE  /\ Rounded(d) \in Int
         /\ Rounded(d) * TicksPerSecond + HalfSecond >= d
  <1> DEFINE T == TicksPerSecond
             q == (2 * d + T) \div (2 * T)
  <1>1. T \in Nat \ {0} /\ HalfSecond = T \div 2
    BY RateLimitAssumption DEF HalfSecond
  <1>2. q \in Int /\ 2 * d + T < (2 * T) * (q + 1)
    BY <1>1
  <1> HIDE DEF T
  <1>3. (2 * T) * (q + 1) = 2 * (q * T) + 2 * T /\ q * T \in Int
    BY <1>1, <1>2
  <1>4. q * T + HalfSecond >= d
    BY <1>1, <1>2, <1>3
  <1>5. QED
    BY <1>2, <1>4 DEF Rounded, T

Gates == InFlight \cup {"idle", "allowed", "limited", "unavailable"}
Closed(r) == Scope[r] \notin FailOpenScopes

\* Who was counted under a key at all, and who while its window lasted.
Under(at, st, k) ==
    {s \in Requests : at[s] >= 0 /\ <<Subject(s), WindowOf(st[s])>> = k}
InTimeUnder(at, st, k) == {s \in Under(at, st, k) : WindowOf(at[s]) = WindowOf(st[s])}
Ever(k) == Under(countedAt, stamp, k)
InTime(k) == InTimeUnder(countedAt, stamp, k)
Held(k) == {s \in InTime(k) : gate[s] \in {"new", "allowed"}}

Tally(k) == IF k \in DOMAIN counter THEN counter[k] ELSE 0

\* The clock runs ahead of what was stamped and counted by it; a request is
\* counted on its way past "stamped" unless Redis failed a fail-open one.
ClockInv ==
    /\ now \in Nat
    /\ stamp \in [Requests -> Nat]
    /\ countedAt \in [Requests -> Int]
    /\ gate \in [Requests -> Gates]
    /\ DOMAIN retryAt = Requests
    /\ \A r \in Requests : stamp[r] <= now /\ countedAt[r] \in -1..now
    /\ \A r \in Requests : gate[r] \in {"idle", "stamped"} => countedAt[r] = -1
    /\ \A r \in Requests : gate[r] \in {"new", "over", "limited"} => countedAt[r] >= 0
    /\ \A r \in Requests : gate[r] = "allowed" /\ Closed(r) => countedAt[r] >= 0

\* No counter says more than were counted; it lasts through its window, and
\* during that window it says exactly how many were.
CounterInv ==
    /\ \A k \in DOMAIN counter :
          /\ counter[k] \in Nat \ {0}
          /\ k[2] \in Nat /\ k[2] <= WindowOf(now)
          /\ counter[k] <= Cardinality(Ever(k))
    /\ \A k \in DOMAIN expiry : expiry[k] \in Nat /\ WindowOf(expiry[k]) > k[2]
    /\ \A r \in Requests : LET k == <<Subject(r), WindowOf(now)>>
                           IN  Tally(k) = Cardinality(InTime(k))

\* A key lets no more than Limit through and refuses only after Limit others.
DecisionInv ==
    /\ \A r \in Requests, w \in Nat : Closed(r) => Cardinality(Held(<<Subject(r), w>>)) <= Limit
    /\ \A r \in Requests :
          gate[r] \in {"over", "limited"} => Cardinality(Ever(WindowKey(r)) \ {r}) >= Limit
    /\ \A r \in Requests :
          gate[r] = "limited" => retryAt[r] \in Nat /\ WindowOf(retryAt[r] + HalfSecond) > WindowOf(stamp[r])

RateInv == ClockInv /\ CounterInv /\ DecisionInv

LEMMA RateInvInit == QueryInit => RateInv
  <1> SUFFICES ASSUME QueryInit PROVE RateInv
    OBVIOUS
  <1> USE DEF QueryInit, RateInit
  <1>1. ClockInv
    BY DEF ClockInv, Gates, InFlight
  <1>2. \A k : InTime(k) = {} /\ Held(k) = {}
    BY DEF InTime, Held, InTimeUnder, Under
  <1>3. \A k : Cardinality(InTime(k)) = 0 /\ Cardinality(Held(k)) = 0
    BY <1>2, FS_EmptySet
  <1>9. DOMAIN counter = {} /\ DOMAIN expiry = {}
    OBVIOUS
  <1>4. CounterInv
    BY <1>3, <1>9 DEF CounterInv, Tally
  <1>5. DecisionInv
    BY <1>3, RateLimitAssumption DEF DecisionInv
  <1>6. QED
    BY <1>1, <1>4, <1>5 DEF RateInv

LEMMA CountsAreFinite ==
  ASSUME NEW k
  PROVE  /\ IsFiniteSet(Ever(k)) /\ Cardinality(Ever(k)) \in Nat
         /\ IsFiniteSet(InTime(k)) /\ Cardinality(InTime(k)) \in Nat
         /\ IsFiniteSet(Held(k)) /\ Cardinality(Held(k)) \in Nat
         /\ Cardinality(Held(k)) <= Cardinality(InTime(k))
  <1>1. /\ Ever(k) \subseteq Requests /\ InTime(k) \subseteq Requests
        /\ Held(k) \subseteq InTime(k)
    BY DEF Ever, InTime, Held, InTimeUnder, Under
  <1>2. QED
    BY <1>1, RequestsAssumption, FS_Subset, FS_CardinalityType

LEMMA RateFrame == RateInv /\ UNCHANGED rateVars => RateInv'
  <1> SUFFICES ASSUME RateInv, UNCHANGED rateVars PROVE RateInv'
    OBVIOUS
  <1> USE DEF rateVars
  <1>1. ClockInv'
    BY DEF RateInv, ClockInv
  <1>2. CounterInv'
    BY DEF RateInv, CounterInv, Tally, Ever, InTime
  <1>3. DecisionInv'
    BY DEF RateInv, DecisionInv, Ever, Held, InTime, WindowKey
  <1>4. QED
    BY <1>1, <1>2, <1>3 DEF RateInv

\* As long as no counted request changes, neither do the sets that count them.
LEMMA SameCounts ==
  ASSUME ClockInv, NEW k, countedAt' = countedAt,
         \A s \in Requests : countedAt[s] >= 0 => stamp'[s] = stamp[s]
  PROVE  Ever(k)' = Ever(k) /\ InTime(k)' = InTime(k)
  BY DEF Ever, InTime, InTimeUnder, Under, WindowKey

LEMMA StampKeepsRate ==
  ASSUME RateInv, NEW r \in Requests, Stamp(r)
  PROVE  RateInv'
  <1> USE DEF RateInv, Stamp, Goes
  <1>1. ClockInv'
    BY DEF ClockInv, Gates, InFlight
  <1>2. \A k : Ever(k)' = Ever(k) /\ InTime(k)' = InTime(k)
    BY SameCounts DEF ClockInv
  <1>3. \A k : Held(k)' = Held(k)
    BY <1>2 DEF Held, ClockInv
  <1>4. CounterInv'
    BY <1>2 DEF CounterInv, Tally
  <1>5. DecisionInv'
    BY <1>2, <1>3 DEF DecisionInv, ClockInv, WindowKey
  <1>6. QED
    BY <1>1, <1>4, <1>5

\* One more is counted: under its own key, and in time if the window still lasts.
LEMMA CountedEffect ==
  ASSUME RateInv, NEW r \in Requests, gate[r] = "stamped", Counted(r), UNCHANGED <<now, stamp>>,
         NEW key, key = WindowKey(r)
  PROVE  /\ Ever(key)' = Ever(key) \cup {r} /\ r \notin Ever(key)
         /\ WindowOf(now) = WindowOf(stamp[r]) => InTime(key)' = InTime(key) \cup {r}
         /\ WindowOf(now) # WindowOf(stamp[r]) => InTime(key)' = InTime(key)
         /\ r \notin InTime(key)
         /\ counter'[key] = Tally(key) + 1
         /\ DOMAIN counter' = DOMAIN counter \cup {key}
  <1>1. countedAt[r] = -1 /\ now \in Nat
    BY DEF RateInv, ClockInv
  <1>2. countedAt'[r] = now /\ \A s \in Requests \ {r} : countedAt'[s] = countedAt[s]
    BY DEF RateInv, ClockInv, Counted
  <1>3. Ever(key)' = Ever(key) \cup {r} /\ r \notin Ever(key)
    BY <1>1, <1>2 DEF Ever, Under, WindowKey
  <1>4. WindowOf(now) = WindowOf(stamp[r]) => InTime(key)' = InTime(key) \cup {r}
    BY <1>1, <1>2 DEF InTime, InTimeUnder, Under, WindowKey
  <1>5. WindowOf(now) # WindowOf(stamp[r]) => InTime(key)' = InTime(key)
    BY <1>1, <1>2 DEF InTime, InTimeUnder, Under, WindowKey
  <1>6. r \notin InTime(key)
    BY <1>1 DEF InTime, InTimeUnder, Under
  <1>7. counter'[key] = Tally(key) + 1 /\ DOMAIN counter' = DOMAIN counter \cup {key}
    BY DEF Counted, Tally, RateInv, CounterInv
  <1>8. QED
    BY <1>3, <1>4, <1>5, <1>6, <1>7

\* Nothing changes under any other key.
LEMMA CountedElsewhere ==
  ASSUME RateInv, NEW r \in Requests, gate[r] = "stamped", Counted(r), UNCHANGED <<now, stamp>>,
         NEW k, k # WindowKey(r)
  PROVE  /\ Ever(k)' = Ever(k)
         /\ InTime(k)' = InTime(k)
         /\ k \in DOMAIN counter' <=> k \in DOMAIN counter
         /\ k \in DOMAIN counter => counter'[k] = counter[k]
  <1>1. countedAt[r] = -1 /\ \A s \in Requests \ {r} : countedAt'[s] = countedAt[s]
    BY DEF RateInv, ClockInv, Counted
  <1>2. Ever(k)' = Ever(k)
    BY <1>1 DEF Ever, Under, WindowKey
  <1>3. InTime(k)' = InTime(k)
    BY <1>1 DEF InTime, InTimeUnder, Under, WindowKey
  <1>4. QED
    BY <1>2, <1>3 DEF Counted

LEMMA CountedKeepsCounters ==
  ASSUME RateInv, NEW r \in Requests, gate[r] = "stamped", Counted(r),
         UNCHANGED <<now, stamp, expiry>>
  PROVE  CounterInv'
  <1> PICK key : key = WindowKey(r)
    OBVIOUS
  <1>0. counter'[key] = Tally(key) + 1 /\ key \in DOMAIN counter'
    BY CountedEffect
  <1>1. key[2] \in Nat /\ key[2] <= WindowOf(now)
    BY WindowType, WindowMonotone DEF RateInv, ClockInv, WindowKey
  <1>2. /\ Cardinality(Ever(key)') = Cardinality(Ever(key)) + 1
        /\ WindowOf(now) = WindowOf(stamp[r]) =>
              Cardinality(InTime(key)') = Cardinality(InTime(key)) + 1
    <2>1. /\ Ever(key)' = Ever(key) \cup {r} /\ r \notin Ever(key)
          /\ WindowOf(now) = WindowOf(stamp[r]) => InTime(key)' = InTime(key) \cup {r}
          /\ r \notin InTime(key)
      BY CountedEffect
    <2>2. /\ Cardinality(Ever(key) \cup {r}) = Cardinality(Ever(key)) + 1
          /\ Cardinality(InTime(key) \cup {r}) = Cardinality(InTime(key)) + 1
      BY <2>1, CountsAreFinite, FS_AddElement
    <2>3. QED
      BY <2>1, <2>2
  <1>3. Tally(key) \in Nat /\ Tally(key) <= Cardinality(Ever(key))
    BY CountsAreFinite DEF Tally, CounterInv, RateInv
  <1>4. ASSUME NEW k \in DOMAIN counter'
        PROVE  /\ counter'[k] \in Nat \ {0}
               /\ k[2] \in Nat /\ k[2] <= WindowOf(now')
               /\ counter'[k] <= Cardinality(Ever(k)')
    <2>1. CASE k = key
      BY <1>0, <1>1, <1>2, <1>3, <2>1, CountsAreFinite DEF Ever
    <2>2. CASE k # key
      BY <2>2, CountedElsewhere DEF CounterInv, RateInv
    <2>3. QED
      BY <2>1, <2>2
  <1>5. \A k \in DOMAIN expiry' : expiry'[k] \in Nat /\ WindowOf(expiry'[k]) > k[2]
    BY DEF CounterInv, RateInv
  <1>6. ASSUME NEW s \in Requests, NEW k, k = <<Subject(s), WindowOf(now)>>
        PROVE  (IF k \in DOMAIN counter' THEN counter'[k] ELSE 0) = Cardinality(InTime(k)')
    <2>1. Tally(k) = Cardinality(InTime(k))
      BY <1>6 DEF CounterInv, RateInv
    <2>2. CASE k = key
      <3>1. WindowOf(now) = WindowOf(stamp[r])
        BY <2>2, <1>6 DEF WindowKey
      <3>2. counter'[key] = Cardinality(InTime(key)')
        BY <3>1, <2>1, <2>2, <1>0, <1>2
      <3>3. QED
        BY <3>2, <2>2, <1>0 DEF InTime
    <2>3. CASE k # key
      BY <2>1, <2>3, CountedElsewhere DEF Tally
    <2>4. QED
      BY <2>2, <2>3
  <1>7. QED
    BY <1>4, <1>5, <1>6 DEF CounterInv, Tally

\* Whatever becomes of a request just counted, Limit holds: it is let through
\* only if the counter allows it and refused only if the counter is beyond it.
LEMMA CountedDecides ==
  ASSUME RateInv, NEW r \in Requests, gate[r] = "stamped", Counted(r),
         UNCHANGED <<now, stamp, retryAt>>,
         NEW to \in {"new", "allowed", "over", "unavailable"}, Goes(r, to),
         to \in {"new", "allowed"} /\ Closed(r) => counter'[WindowKey(r)] <= Limit,
         to = "over" => counter'[WindowKey(r)] > Limit
  PROVE  DecisionInv'
  <1> PICK key : key = WindowKey(r)
    OBVIOUS
  <1>1. /\ Ever(key)' = Ever(key) \cup {r} /\ r \notin Ever(key)
        /\ WindowOf(now) = WindowOf(stamp[r]) => InTime(key)' = InTime(key) \cup {r}
        /\ WindowOf(now) # WindowOf(stamp[r]) => InTime(key)' = InTime(key)
        /\ r \notin InTime(key)
        /\ counter'[key] = Tally(key) + 1
    BY CountedEffect
  <1>2. gate'[r] = to /\ \A s \in Requests \ {r} : gate'[s] = gate[s]
    BY DEF Goes, RateInv, ClockInv
  <1>3. key = <<Subject(r), WindowOf(stamp[r])>>
    BY DEF WindowKey
  <1>4. Limit \in Nat \ {0}
    BY RateLimitAssumption
  <1>5. ASSUME NEW s \in Requests, NEW w \in Nat, Closed(s), NEW k, k = <<Subject(s), w>>
        PROVE  Cardinality(Held(k)') <= Limit
    <2>1. Cardinality(Held(k)) <= Limit
      BY <1>5 DEF RateInv, DecisionInv
    <2>2. Held(k)' = Held(k) => Cardinality(Held(k)') <= Limit
      BY <2>1
    <2>3. CASE k # key
      <3>1. InTime(k)' = InTime(k)
        BY <2>3, CountedElsewhere
      <3>2. r \notin InTime(k)
        BY DEF InTime, InTimeUnder, Under, RateInv, ClockInv
      <3>3. Held(k)' = Held(k)
        BY <3>1, <3>2, <1>2 DEF Held, InTime, InTimeUnder, Under
      <3>4. QED
        BY <3>3, <2>2
    <2>4. CASE k = key /\ (to \notin {"new", "allowed"} \/ WindowOf(now) # WindowOf(stamp[r]))
      <3>1. InTime(key)' \subseteq InTime(key) \cup {r}
        BY <1>1
      <3>2. Held(key)' = Held(key)
        BY <3>1, <1>1, <1>2, <2>4 DEF Held, InTime, InTimeUnder, Under
      <3>3. QED
        BY <3>2, <2>4, <2>2 DEF Held, InTime
    <2>5. CASE k = key /\ to \in {"new", "allowed"} /\ WindowOf(now) = WindowOf(stamp[r])
      <3>1. Closed(r)
        BY <1>5, <2>5, <1>3 DEF Closed, Subject
      <3>2. Tally(key) = Cardinality(InTime(key))
        BY <2>5, <1>3 DEF RateInv, CounterInv
      <3>3. Cardinality(InTime(key) \cup {r}) <= Limit
        <4>1. counter'[key] <= Limit
          BY <3>1, <2>5
        <4>2. Cardinality(InTime(key) \cup {r}) = Cardinality(InTime(key)) + 1
          BY <1>1, CountsAreFinite, FS_AddElement
        <4>3. QED
          BY <4>1, <4>2, <3>2, <1>1
      <3>4. Held(key)' \subseteq InTime(key) \cup {r} /\ IsFiniteSet(InTime(key) \cup {r})
        BY <1>1, <2>5, CountsAreFinite, FS_AddElement DEF Held
      <3>5. Cardinality(Held(key)') <= Cardinality(InTime(key) \cup {r})
            /\ Cardinality(Held(key)') \in Nat /\ Cardinality(InTime(key) \cup {r}) \in Nat
        BY <3>4, FS_Subset, FS_CardinalityType
      <3>6. Cardinality(Held(key)') <= Limit
        BY <3>3, <3>5, <1>4
      <3>7. QED
        BY <3>6, <2>5 DEF Held, InTime
    <2>6. QED
      BY <2>3, <2>4, <2>5
  <1>6. ASSUME NEW s \in Requests, gate'[s] \in {"over", "limited"}, NEW k, k = WindowKey(s)
        PROVE  Cardinality(Ever(k)' \ {s}) >= Limit
    <2>1. CASE s = r
      <3>1. Tally(key) >= Limit /\ Tally(key) # 0
        BY <2>1, <1>1, <1>2, <1>4, <1>6 DEF Tally, RateInv, CounterInv
      <3>2. Tally(key) <= Cardinality(Ever(key)) /\ Tally(key) \in Nat
        BY <3>1, CountsAreFinite DEF Tally, RateInv, CounterInv
      <3>3. (Ever(key) \cup {r}) \ {r} = Ever(key)
        BY <1>1
      <3>4. Ever(k)' \ {s} = Ever(key)
        BY <3>3, <1>1, <1>6, <2>1 DEF Ever
      <3>5. QED
        BY <3>1, <3>2, <3>4, <1>4, CountsAreFinite
    <2>2. CASE s # r
      <3>1. gate[s] \in {"over", "limited"}
        BY <2>2, <1>2, <1>6
      <3>2. Cardinality(Ever(k) \ {s}) >= Limit
        BY <3>1, <1>6 DEF RateInv, DecisionInv
      <3>3. Ever(k)' = Ever(k) \/ Ever(k)' = Ever(k) \cup {r}
        BY <1>1, CountedElsewhere DEF Ever
      <3>4. Ever(k) \ {s} \subseteq Ever(k)' \ {s} /\ IsFiniteSet(Ever(k)' \ {s})
        BY <3>3, CountsAreFinite, FS_AddElement, FS_RemoveElement
      <3>5. Cardinality(Ever(k) \ {s}) <= Cardinality(Ever(k)' \ {s})
            /\ Cardinality(Ever(k) \ {s}) \in Nat /\ Cardinality(Ever(k)' \ {s}) \in Nat
        BY <3>4, FS_Subset, FS_CardinalityType
      <3>6. QED
        BY <3>2, <3>5, <1>4
    <2>3. QED
      BY <2>1, <2>2
  <1>7. \A s \in Requests :
           gate'[s] = "limited" => retryAt'[s] \in Nat /\ WindowOf(retryAt'[s] + HalfSecond) > WindowOf(stamp'[s])
    BY <1>2 DEF RateInv, DecisionInv
  <1>8. QED
    BY <1>5, <1>6, <1>7 DEF DecisionInv, WindowKey

LEMMA CountedClock ==
  ASSUME RateInv, NEW r \in Requests, gate[r] = "stamped", Counted(r),
         UNCHANGED <<now, stamp, retryAt>>,
         NEW to \in {"new", "allowed", "over", "unavailable"}, Goes(r, to)
  PROVE  ClockInv'
  BY DEF RateInv, ClockInv, Counted, Goes, Gates, InFlight

LEMMA IncrKeepsRate ==
  ASSUME RateInv, NEW r \in Requests, Incr(r)
  PROVE  RateInv'
  <1> DEFINE n == counter'[WindowKey(r)]
             to == CASE n = 1 -> "new" [] n \in 2..Limit -> "allowed" [] OTHER -> "over"
  <1>1. n \in Nat \ {0}
    <2> PICK key : key = WindowKey(r)
      OBVIOUS
    <2>1. counter'[key] = Tally(key) + 1
      BY CountedEffect DEF Incr
    <2>2. QED
      BY <2>1 DEF Tally, RateInv, CounterInv
  <1>2. /\ to \in {"new", "allowed", "over"}
        /\ to \in {"new", "allowed"} => n <= Limit
        /\ to = "over" => n > Limit
    BY <1>1, RateLimitAssumption
  <1>3. Goes(r, to)
    BY DEF Incr
  <1> HIDE DEF to
  <1>4. ClockInv'
    BY <1>2, <1>3, CountedClock DEF Incr
  <1>5. CounterInv'
    BY CountedKeepsCounters DEF Incr
  <1>6. DecisionInv'
    BY <1>2, <1>3, CountedDecides DEF Incr
  <1>7. QED
    BY <1>4, <1>5, <1>6 DEF RateInv

\* Nothing is counted and no one goes from uncounted to let through: what the
\* limiter promised before still holds, if what it newly says of expiries and
\* of coming back does.
LEMMA UncountedStep ==
  ASSUME RateInv, NEW r \in Requests, UNCHANGED <<now, stamp, countedAt, counter>>,
         NEW to \in {"allowed", "limited", "unavailable"}, gate[r] \in InFlight, Goes(r, to),
         to = "limited" => gate[r] = "over",
         to = "allowed" => gate[r] = "new" \/ ~Closed(r),
         \A k \in DOMAIN expiry' : expiry'[k] \in Nat /\ WindowOf(expiry'[k]) > k[2],
         DOMAIN retryAt' = Requests,
         \A s \in Requests : gate'[s] = "limited" =>
            retryAt'[s] \in Nat /\ WindowOf(retryAt'[s] + HalfSecond) > WindowOf(stamp[s])
  PROVE  RateInv'
  <1>1. gate'[r] = to /\ \A s \in Requests \ {r} : gate'[s] = gate[s]
    BY DEF Goes, RateInv, ClockInv
  <1>2. ClockInv'
    BY <1>1 DEF RateInv, ClockInv, Goes, Gates, InFlight
  <1>3. CounterInv'
    BY DEF RateInv, CounterInv, Tally, Ever, InTime
  <1>4. ASSUME NEW s \in Requests, NEW w \in Nat, Closed(s), NEW k, k = <<Subject(s), w>>
        PROVE  Cardinality(Held(k)') <= Limit
    <2>1. Cardinality(Held(k)) <= Limit
      BY <1>4 DEF RateInv, DecisionInv
    <2>2. Held(k)' \subseteq Held(k)
      <3>1. SUFFICES ASSUME NEW q \in Held(k)' PROVE q \in Held(k)
        OBVIOUS
      <3>2. q \in InTime(k) /\ gate'[q] \in {"new", "allowed"} /\ q \in Requests
        BY <3>1 DEF Held, InTime, InTimeUnder, Under
      <3>3. Subject(q) = Subject(s)
        BY <3>2, <1>4 DEF InTime, InTimeUnder, Under
      <3>4. Closed(q)
        BY <3>3, <1>4 DEF Closed, Subject
      <3>5. gate[q] \in {"new", "allowed"}
        BY <3>2, <3>4, <1>1
      <3>6. QED
        BY <3>2, <3>5 DEF Held
    <2>3. Cardinality(Held(k)') <= Cardinality(Held(k)) /\ Cardinality(Held(k)') \in Nat
      BY <2>2, CountsAreFinite, FS_Subset, FS_CardinalityType
    <2>4. QED
      BY <2>1, <2>3, CountsAreFinite, RateLimitAssumption
  <1>5. \A s \in Requests : gate'[s] \in {"over", "limited"} =>
            Cardinality(Ever(WindowKey(s)) \ {s}) >= Limit
    BY <1>1 DEF RateInv, DecisionInv
  <1>6. DecisionInv'
    BY <1>4, <1>5 DEF DecisionInv, Ever, WindowKey
  <1>7. QED
    BY <1>2, <1>3, <1>6 DEF RateInv

\* An expiry set now lies beyond the window of any request stamped before.
LEMMA ExpiryOutlastsWindow ==
  ASSUME RateInv, NEW r \in Requests, NEW key, key = WindowKey(r), expiry' = SetExpiry(key)
  PROVE  \A k \in DOMAIN expiry' : expiry'[k] \in Nat /\ WindowOf(expiry'[k]) > k[2]
  <1>1. now + WindowTicks \in Nat /\ WindowOf(now + WindowTicks) > WindowOf(stamp[r])
    BY WindowType, WindowNext, WindowMonotone, WindowTakesTime DEF RateInv, ClockInv
  <1>2. key[2] = WindowOf(stamp[r])
    BY DEF WindowKey
  <1>3. QED
    BY <1>1, <1>2 DEF SetExpiry, RateInv, CounterInv

LEMMA ExpireKeepsRate ==
  ASSUME RateInv, NEW r \in Requests, Expire(r)
  PROVE  RateInv'
  <1>1. \A k \in DOMAIN expiry' : expiry'[k] \in Nat /\ WindowOf(expiry'[k]) > k[2]
    BY ExpiryOutlastsWindow DEF Expire, RateInv, CounterInv
  <1>2. QED
    BY <1>1, UncountedStep DEF Expire, InFlight, RateInv, ClockInv, DecisionInv, Goes

\* Either way of telling somebody when to come back is at most half a second short.
LEMMA RetryMeetsLaterWindow ==
  ASSUME RateInv, NEW r \in Requests, NEW key, key = WindowKey(r)
  PROVE  LET at == now + RetryAfter(key) * TicksPerSecond
         IN  at \in Nat /\ WindowOf(at + HalfSecond) > WindowOf(stamp[r])
  <1> DEFINE wait == RetryAfter(key) * TicksPerSecond
  <1>1. now \in Nat /\ stamp[r] \in Nat /\ stamp[r] <= now /\ TicksPerSecond \in Nat
    BY RateLimitAssumption DEF RateInv, ClockInv
  <1>2. CASE Ttl(key) > 0 /\ key \in DOMAIN expiry
    <2> DEFINE d == expiry[key] - now
    <2>1. expiry[key] \in Nat /\ WindowOf(expiry[key]) > WindowOf(stamp[r])
      BY <1>2 DEF RateInv, CounterInv, WindowKey
    <2>2. RetryAfter(key) = Rounded(d) /\ Rounded(d) > 0
      BY <1>2 DEF RetryAfter, Ttl
    <2>3. Rounded(d) \in Nat /\ Rounded(d) * TicksPerSecond + HalfSecond >= d
      BY <1>1, <2>1, <2>2, RoundingIsShort
    <2>4. wait \in Nat /\ wait + HalfSecond >= d
      BY <1>1, <2>2, <2>3
    <2> HIDE DEF wait
    <2>5. now + wait \in Nat /\ now + wait + HalfSecond \in Nat /\ expiry[key] <= now + wait + HalfSecond
      BY <1>1, <2>1, <2>4, WindowTakesTime
    <2>6. WindowOf(expiry[key]) <= WindowOf(now + wait + HalfSecond)
      BY <2>1, <2>5, WindowMonotone
    <2>7. QED
      BY <1>1, <2>1, <2>5, <2>6, WindowType DEF wait
  <1>3. CASE ~(Ttl(key) > 0 /\ key \in DOMAIN expiry)
    <2>1. wait = WindowTicks
      BY <1>3 DEF RetryAfter, Ttl, WindowTicks
    <2> HIDE DEF wait
    <2>2. now + wait \in Nat /\ now + wait + HalfSecond \in Nat /\ stamp[r] + WindowTicks \in Nat
          /\ stamp[r] + WindowTicks <= now + wait + HalfSecond
      BY <1>1, <2>1, WindowTakesTime
    <2>3. WindowOf(stamp[r] + WindowTicks) <= WindowOf(now + wait + HalfSecond)
      BY <2>2, WindowMonotone
    <2>4. QED
      BY <1>1, <2>2, <2>3, WindowNext, WindowType DEF wait
  <1>4. QED
    BY <1>2, <1>3

LEMMA LimitedKeepsRate ==
  ASSUME RateInv, NEW r \in Requests, Limited(r)
  PROVE  RateInv'
  <1> PICK key : key = WindowKey(r)
    OBVIOUS
  <1> PICK at : at = now + RetryAfter(key) * TicksPerSecond
    OBVIOUS
  <1>1. at \in Nat /\ WindowOf(at + HalfSecond) > WindowOf(stamp[r])
    BY RetryMeetsLaterWindow
  <1>2. DOMAIN retryAt' = Requests /\ retryAt'[r] = at
        /\ \A s \in Requests \ {r} : retryAt'[s] = retryAt[s] /\ gate'[s] = gate[s]
    BY DEF Limited, RateInv, ClockInv, Goes
  <1>3. \A s \in Requests : gate'[s] = "limited" =>
            retryAt'[s] \in Nat /\ WindowOf(retryAt'[s] + HalfSecond) > WindowOf(stamp[s])
    BY <1>1, <1>2 DEF RateInv, DecisionInv
  <1>4. QED
    BY <1>2, <1>3, UncountedStep DEF Limited, InFlight, RateInv, CounterInv

LEMMA FailureKeepsRate ==
  ASSUME RateInv, NEW r \in Requests, RedisFails(r)
  PROVE  RateInv'
  <1> DEFINE to == IF Scope[r] \in FailOpenScopes THEN "allowed" ELSE "unavailable"
  <1>1. Goes(r, to) /\ to \in {"allowed", "unavailable"} /\ (to = "allowed" => ~Closed(r))
    BY DEF RedisFails, UnavailableDecision, Closed
  <1> HIDE DEF to
  <1>2. CASE gate[r] = "stamped" /\ Counted(r) /\ UNCHANGED expiry
    <2>1. ClockInv'
      BY <1>1, <1>2, CountedClock DEF RedisFails
    <2>2. CounterInv'
      BY <1>2, CountedKeepsCounters DEF RedisFails
    <2>3. DecisionInv'
      BY <1>1, <1>2, CountedDecides DEF RedisFails
    <2>4. QED
      BY <2>1, <2>2, <2>3 DEF RateInv
  <1>3. CASE UNCHANGED <<counter, countedAt>>
    <2>1. \A k \in DOMAIN expiry' : expiry'[k] \in Nat /\ WindowOf(expiry'[k]) > k[2]
      BY <1>3, ExpiryOutlastsWindow DEF RedisFails, RateInv, CounterInv
    <2>2. \A s \in Requests : gate'[s] = "limited" =>
            retryAt'[s] \in Nat /\ WindowOf(retryAt'[s] + HalfSecond) > WindowOf(stamp[s])
      BY <1>1 DEF RedisFails, RateInv, ClockInv, DecisionInv, Goes
    <2>3. DOMAIN retryAt' = Requests
      BY DEF RedisFails, RateInv, ClockInv
    <2>4. QED
      BY <1>1, <1>3, <2>1, <2>2, <2>3, UncountedStep DEF RedisFails
  <1>4. QED
    BY <1>2, <1>3 DEF RedisFails

LEMMA TickKeepsRate ==
  ASSUME RateInv, RateTick
  PROVE  RateInv'
  <1> DEFINE live == {k \in DOMAIN counter : k \in DOMAIN expiry => expiry[k] > now'}
  <1>1. /\ now' = now + 1
        /\ counter' = [k \in live |-> counter[k]]
        /\ expiry' = [k \in live \cap DOMAIN expiry |-> expiry[k]]
        /\ UNCHANGED <<gate, stamp, countedAt, retryAt>>
    BY DEF RateTick
  <1>2. ClockInv'
    BY <1>1 DEF RateInv, ClockInv
  <1>3. /\ WindowOf(now) \in Nat /\ WindowOf(now') \in Nat
        /\ WindowOf(now) <= WindowOf(now')
    BY <1>1, WindowType, WindowMonotone DEF RateInv, ClockInv
  <1>4. \A k \in DOMAIN counter : k[2] = WindowOf(now') => k \in live
    <2> SUFFICES ASSUME NEW k \in DOMAIN counter, k[2] = WindowOf(now'),
                        k \in DOMAIN expiry, expiry[k] <= now'
                 PROVE  FALSE
      BY <1>1 DEF RateInv, CounterInv, ClockInv
    <2>1. expiry[k] \in Nat /\ WindowOf(expiry[k]) > k[2]
      BY DEF RateInv, CounterInv
    <2>2. WindowOf(expiry[k]) <= WindowOf(now') /\ WindowOf(expiry[k]) \in Nat
      BY <2>1, <1>1, WindowMonotone, WindowType DEF RateInv, ClockInv
    <2>3. QED
      BY <2>1, <2>2, <1>3
  <1>5. ASSUME NEW s \in Requests, NEW k, k = <<Subject(s), WindowOf(now')>>
        PROVE  (IF k \in DOMAIN counter' THEN counter'[k] ELSE 0) = Cardinality(InTime(k))
    <2>1. CASE WindowOf(now') = WindowOf(now)
      BY <2>1, <1>1, <1>4, <1>5 DEF RateInv, CounterInv, Tally
    <2>2. CASE WindowOf(now') # WindowOf(now)
      <3>1. k \notin DOMAIN counter
        BY <2>2, <1>3, <1>5 DEF RateInv, CounterInv
      <3>2. \A q \in Requests : WindowOf(stamp[q]) <= WindowOf(now) /\ WindowOf(stamp[q]) \in Nat
        BY WindowMonotone, WindowType DEF RateInv, ClockInv
      <3>3. InTime(k) = {}
        BY <3>2, <2>2, <1>3, <1>5 DEF InTime, InTimeUnder, Under
      <3>4. QED
        BY <3>1, <3>3, <1>1, FS_EmptySet
    <2>3. QED
      BY <2>1, <2>2
  <1>6. CounterInv'
    <2>1. \A k \in DOMAIN counter' :
             /\ counter'[k] \in Nat \ {0}
             /\ k[2] \in Nat /\ k[2] <= WindowOf(now')
             /\ counter'[k] <= Cardinality(Ever(k))
      BY <1>1, <1>3 DEF RateInv, CounterInv
    <2>2. \A k \in DOMAIN expiry' : expiry'[k] \in Nat /\ WindowOf(expiry'[k]) > k[2]
      BY <1>1 DEF RateInv, CounterInv
    <2>3. QED
      BY <1>1, <1>5, <2>1, <2>2 DEF CounterInv, Tally, Ever, InTime
  <1>7. DecisionInv'
    BY <1>1 DEF RateInv, DecisionInv, Held, InTime, Ever, WindowKey
  <1>8. QED
    BY <1>2, <1>6, <1>7 DEF RateInv

LEMMA RateInvNext == RateInv /\ [QueryNext]_queryVars => RateInv'
  <1> SUFFICES ASSUME RateInv, [QueryNext]_queryVars PROVE RateInv'
    OBVIOUS
  <1>1. CASE Limiter
    BY <1>1, StampKeepsRate, IncrKeepsRate, ExpireKeepsRate, LimitedKeepsRate, FailureKeepsRate,
       TickKeepsRate DEF Limiter, RateStep
  <1>2. CASE UNCHANGED rateVars
    BY <1>2, RateFrame
  <1>3. QED
    BY <1>1, <1>2
    DEF QueryNext, Redis, QueryStep, Admitted, NotAdmitted, Serve, CallSearch,
        CallStatistics, Threads, Abandon, LeaseEnds, queryVars

LEMMA RateInvMeters == RateInv => Metered
  <1> SUFFICES ASSUME RateInv PROVE Metered
    OBVIOUS
  <1>1. \A r \in Passed : Scope[r] \notin FailOpenScopes => countedAt[r] >= 0
    BY DEF Passed, RateInv, ClockInv, Closed
  <1>2. ASSUME NEW r \in CountedInTime, Scope[r] \notin FailOpenScopes
        PROVE  Cardinality(Passed \cap CountedInTime \cap SameWindow(r)) <= Limit
    <2> DEFINE S == Passed \cap CountedInTime \cap SameWindow(r)
    <2>1. r \in Requests /\ WindowOf(stamp[r]) \in Nat
      BY WindowType DEF CountedInTime, RateInv, ClockInv
    <2> PICK w \in Nat : w = WindowOf(stamp[r])
      BY <2>1
    <2>2. S \subseteq Held(<<Subject(r), w>>)
      BY DEF Passed, CountedInTime, SameWindow, Held, InTime, InTimeUnder, Under
    <2>3. Cardinality(Held(<<Subject(r), w>>)) <= Limit
      BY <1>2, <2>1 DEF RateInv, DecisionInv, Closed
    <2>4. Cardinality(S) <= Cardinality(Held(<<Subject(r), w>>)) /\ Cardinality(S) \in Nat
      BY <2>2, CountsAreFinite, FS_Subset, FS_CardinalityType
    <2>5. QED
      BY <2>3, <2>4, CountsAreFinite, RateLimitAssumption
  <1>3. QED
    BY <1>1, <1>2 DEF Metered

LEMMA RateInvRefuses == RateInv => RefusalIsHonest
  <1> SUFFICES ASSUME RateInv, NEW r \in Requests, gate[r] = "limited"
               PROVE  /\ Cardinality({s \in SameWindow(r) \ {r} : countedAt[s] >= 0}) >= Limit
                      /\ WindowOf(retryAt[r] + HalfSecond) > WindowOf(stamp[r])
    BY DEF RefusalIsHonest
  <1>1. {s \in SameWindow(r) \ {r} : countedAt[s] >= 0} = Ever(WindowKey(r)) \ {r}
    BY DEF SameWindow, Ever, Under, WindowKey
  <1>2. QED
    BY <1>1 DEF RateInv, DecisionInv

\* With any number of requests, subjects and windows, and Redis failing before or
\* after any command: a request of a closed scope passes only once counted, and at
\* most Limit of those counted within their window do (rate_limit_service.py, check).
THEOREM RequestsAreMetered == QuerySpec => []Metered
  BY RateInvInit, RateInvNext, RateInvMeters, PTL DEF QuerySpec

\* A refused request had Limit others of its subject counted before it in its
\* window, and the time it is told to wait ends in a later window or at most half a
\* second before it, which is what Redis rounds a TTL down by, whether or not the
\* counter has an expiry.
THEOREM RefusalsAreHonest == QuerySpec => []RefusalIsHonest
  BY RateInvInit, RateInvNext, RateInvRefuses, PTL DEF QuerySpec
=============================================================================
