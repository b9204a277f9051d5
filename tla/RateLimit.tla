------------------------------ MODULE RateLimit ------------------------------
(***************************************************************************)
(* The fixed-window limiter in front of every HTTP request                 *)
(* (data_agent/services/rate_limit_service.py and                          *)
(* observability/rate_limit_middleware.py).  One request is counted by an  *)
(* INCR of the counter of its subject and window, followed by an EXPIRE if *)
(* the counter was new; a refusal asks for the TTL.  Each is a call of its *)
(* own, other processes' calls come between, and Redis may fail before or  *)
(* after applying any of them.                                             *)
(*                                                                         *)
(* A subject is an identity in one scope.  Time is counted in ticks up to  *)
(* Horizon, of which a second has TicksPerSecond, since Redis answers a    *)
(* TTL in whole seconds; a call under way for SlowestCall ticks has timed  *)
(* out.                                                                    *)
(***************************************************************************)
EXTENDS Integers, FiniteSets, HttpRequests

CONSTANTS
    Scope,         \* the scope of each request's path
    Token,         \* the user its bearer token verifies for
    NoToken,       \* it has none, or none that verifies
    Address,       \* its address at the trusted proxy boundary
    Limit,         \* requests allowed per window
    WindowSeconds,   \* window_seconds
    TicksPerSecond,
    SlowestCall,   \* REDIS_SOCKET_TIMEOUT_SECONDS, in ticks
    Horizon        \* bound: the last tick

ASSUME RateLimitAssumption ==
    /\ Scope \in [Requests -> {"auth", "query", "session", "default"}]
    /\ Limit \in Nat \ {0}
    /\ WindowSeconds \in Nat \ {0} /\ TicksPerSecond \in Nat \ {0}
    /\ SlowestCall \in Nat \ {0} /\ Horizon \in Nat

VARIABLES
    now,
    counter,     \* the live counters in Redis, a function of key
    expiry,      \* the tick at which a counter goes, for those that have one
    gate,        \* how far each request is with the limiter
    stamp,       \* the time.time() its key was made from
    countedAt,   \* the tick its INCR was applied, -1 before
    retryAt      \* the tick a refused request was told to come back

rateVars == <<now, counter, expiry, gate, stamp, countedAt, retryAt>>

FailOpenScopes == {"auth", "session", "default"}

\* A user wherever the request comes from, otherwise an address.
Identity(r) == IF Token[r] # NoToken THEN Token[r] ELSE Address[r]
Subject(r) == <<Scope[r], Identity(r)>>
Subjects == {Subject(r) : r \in Requests}

WindowTicks == WindowSeconds * TicksPerSecond
HalfSecond == TicksPerSecond \div 2

WindowOf(tick) == tick \div WindowTicks
Keys == Subjects \X (0..WindowOf(Horizon))

\* Mutation: the key does not name the window.
TimelessKey(r) == <<Subject(r), 0>>

WindowKey(r) == <<Subject(r), WindowOf(stamp[r])>>

InFlight == {"stamped", "new", "over"}

RateTypeOK ==
    /\ now \in 0..Horizon
    /\ DOMAIN counter \subseteq Keys /\ \A k \in DOMAIN counter : counter[k] \in 1..Cardinality(Requests)
    /\ DOMAIN expiry \subseteq DOMAIN counter
    /\ gate \in [Requests -> InFlight \cup {"idle", "allowed", "limited", "unavailable"}]
    /\ stamp \in [Requests -> 0..Horizon]
    /\ countedAt \in [Requests -> -1..Horizon]

RateInit ==
    /\ now = 0
    /\ counter = << >>
    /\ expiry = << >>
    /\ gate = [r \in Requests |-> "idle"]
    /\ stamp = [r \in Requests |-> 0]
    /\ countedAt = [r \in Requests |-> -1]
    /\ retryAt = [r \in Requests |-> -1]
-----------------------------------------------------------------------------
Goes(r, to) == gate' = [gate EXCEPT ![r] = to]

\* Open or closed by scope when Redis gives no answer.
UnavailableDecision(r) == Goes(r, IF Scope[r] \in FailOpenScopes THEN "allowed" ELSE "unavailable")

Stamp(r) ==
    /\ gate[r] = "idle"
    /\ stamp' = [stamp EXCEPT ![r] = now]
    /\ Goes(r, "stamped")
    /\ UNCHANGED <<now, counter, expiry, countedAt, retryAt>>

\* INCR creates the counter at one.
Counted(r) ==
    LET k == WindowKey(r)
        n == IF k \in DOMAIN counter THEN counter[k] + 1 ELSE 1
    IN  /\ counter' = [j \in DOMAIN counter \cup {k} |-> IF j = k THEN n ELSE counter[j]]
        /\ countedAt' = [countedAt EXCEPT ![r] = now]

\* Mutation: the request after the last one is still allowed.
IncrLenient(r) ==
    /\ gate[r] = "stamped"
    /\ Counted(r)
    /\ Goes(r, CASE counter'[WindowKey(r)] = 1 -> "new"
                 [] counter'[WindowKey(r)] \in 2..(Limit + 1) -> "allowed"
                 [] OTHER -> "over")
    /\ UNCHANGED <<now, expiry, stamp, retryAt>>

Incr(r) ==
    /\ gate[r] = "stamped"
    /\ Counted(r)
    /\ Goes(r, CASE counter'[WindowKey(r)] = 1 -> "new"
                 [] counter'[WindowKey(r)] \in 2..Limit -> "allowed"
                 [] OTHER -> "over")
    /\ UNCHANGED <<now, expiry, stamp, retryAt>>

SetExpiry(k) == [j \in DOMAIN expiry \cup {k} |-> IF j = k THEN now + WindowTicks ELSE expiry[j]]

Expire(r) ==
    /\ gate[r] = "new"
    /\ expiry' = IF WindowKey(r) \in DOMAIN counter THEN SetExpiry(WindowKey(r)) ELSE expiry
    /\ Goes(r, "allowed")
    /\ UNCHANGED <<now, counter, stamp, countedAt, retryAt>>

\* Redis answers with the nearest number of seconds, half ones up.
Rounded(ticks) == (2 * ticks + TicksPerSecond) \div (2 * TicksPerSecond)

\* A counter without expiry, or gone by now, has no positive TTL.
Ttl(k) == IF k \in DOMAIN expiry THEN Rounded(expiry[k] - now) ELSE 0

\* Mutation: a TTL that is not positive is what the caller is told.
LimitedAtOnce(r) ==
    /\ gate[r] = "over"
    /\ retryAt' = [retryAt EXCEPT ![r] = now + Ttl(WindowKey(r)) * TicksPerSecond]
    /\ Goes(r, "limited")
    /\ UNCHANGED <<now, counter, expiry, stamp, countedAt>>

\* The whole seconds to wait: those left, or a window where none are.
RetryAfter(k) == IF Ttl(k) > 0 THEN Ttl(k) ELSE WindowSeconds

Limited(r) ==
    /\ gate[r] = "over"
    /\ retryAt' = [retryAt EXCEPT ![r] = now + RetryAfter(WindowKey(r)) * TicksPerSecond]
    /\ Goes(r, "limited")
    /\ UNCHANGED <<now, counter, expiry, stamp, countedAt>>

\* No client, or a command fails; whether Redis applied it cannot be told.
RedisFails(r) ==
    /\ gate[r] \in InFlight
    /\ UnavailableDecision(r)
    /\ \/ UNCHANGED <<counter, expiry, countedAt>>
       \/ gate[r] = "stamped" /\ Counted(r) /\ UNCHANGED expiry
       \/ /\ gate[r] = "new" /\ WindowKey(r) \in DOMAIN counter
          /\ expiry' = SetExpiry(WindowKey(r))
          /\ UNCHANGED <<counter, countedAt>>
    /\ UNCHANGED <<now, stamp, retryAt>>

\* Redis drops what expires as the clock advances.
RateTick ==
    /\ now < Horizon
    /\ \A r \in Requests : gate[r] \in InFlight => now - stamp[r] < SlowestCall
    /\ now' = now + 1
    /\ LET live == {k \in DOMAIN counter : k \in DOMAIN expiry => expiry[k] > now'}
       IN  /\ counter' = [k \in live |-> counter[k]]
           /\ expiry' = [k \in live \cap DOMAIN expiry |-> expiry[k]]
    /\ UNCHANGED <<gate, stamp, countedAt, retryAt>>

RateStep(r) == Stamp(r) \/ Incr(r) \/ Expire(r) \/ Limited(r) \/ RedisFails(r)
-----------------------------------------------------------------------------
(* Properties.                                                              *)

SameWindow(r) == {s \in Requests :
                    Subject(s) = Subject(r) /\ WindowOf(stamp[s]) = WindowOf(stamp[r])}
Passed == {r \in Requests : gate[r] = "allowed"}
CountedInTime == {r \in Requests : countedAt[r] >= 0 /\ WindowOf(countedAt[r]) = WindowOf(stamp[r])}

\* Safety.  Whatever Redis loses, a request of a closed scope passes only once
\* it is counted, and of those counted while their window lasts at most Limit
\* pass; only a call that outlives its window may find its counter started anew.
Metered ==
    /\ \A r \in Passed : Scope[r] \notin FailOpenScopes => countedAt[r] >= 0
    /\ \A r \in CountedInTime :
          Scope[r] \notin FailOpenScopes =>
             Cardinality(Passed \cap CountedInTime \cap SameWindow(r)) <= Limit

\* Safety.  A 429 is never wrong: Limit other requests of that subject were
\* counted in that window, and coming back when told to meets a later window,
\* or misses it by no more than the half second a TTL is rounded down by, also
\* when the EXPIRE was lost and the counter has no TTL.
RefusalIsHonest ==
    \A r \in Requests : gate[r] = "limited" =>
        /\ Cardinality({s \in SameWindow(r) \ {r} : countedAt[s] >= 0}) >= Limit
        /\ WindowOf(retryAt[r] + HalfSecond) > WindowOf(stamp[r])
=============================================================================
