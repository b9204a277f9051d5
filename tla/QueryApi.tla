------------------------------- MODULE QueryApi -------------------------------
(***************************************************************************)
(* POST /api/query (data_agent/agent_server.py) from the socket to the     *)
(* answer: the limiter, the agent lease, the answer cache, the graph with  *)
(* its search and statistics tools, all of them shared with the requests   *)
(* that other processes serve.  The lease is what AgentLease implements:   *)
(* AdmissionControl.  A deadline or a cancellation ends the request at any *)
(* await; calculations already running in a thread go on without it.       *)
(***************************************************************************)
EXTENDS RateLimit, AnswerCache, SearchTool, StatisticsSlots

CONSTANTS GlobalLimit, UserLimit   \* AGENT_GLOBAL_, AGENT_USER_CONCURRENCY_LIMIT

VARIABLE active    \* the requests that hold a lease

Lease == INSTANCE AdmissionControl WITH Runs <- Requests

queryVars == <<rateVars, cacheVars, searchVars, slotVars, active>>

QueryTypeOK ==
    /\ RateTypeOK /\ CacheTypeOK /\ SearchTypeOK /\ SlotsTypeOK
    /\ active \subseteq Requests

QueryInit == RateInit /\ CacheInit /\ SearchInit /\ SlotsInit /\ Lease!Init
-----------------------------------------------------------------------------
\* The middleware: every request is counted before anything else sees it.
Limiter ==
    /\ (\E r \in Requests : RateStep(r)) \/ RateTick
    /\ UNCHANGED <<cacheVars, searchVars, slotVars, active>>

\* The route, for a request of the query scope the limiter let through.
Admitted(r) ==
    /\ gate[r] = "allowed" /\ Scope[r] = "query"
    /\ BeginRun(r)
    /\ Lease!Admit(r)
    /\ UNCHANGED <<rateVars, searchVars, slotVars>>

\* Busy, or the leases are unavailable: 429 or 503 with no run.
NotAdmitted(r) ==
    /\ gate[r] = "allowed" /\ Scope[r] = "query"
    /\ run[r] = "none"
    /\ RunTo(r, "over")
    /\ UNCHANGED <<rateVars, entry, asked, answer, searchVars, slotVars, active>>

\* The run itself; the graph ends once its tools have answered.
Serve(r) ==
    /\ \/ Lookup(r) \/ Store(r)
       \/ search[r] \notin Searching /\ r \notin waiting /\ (GraphEnds(r) \/ RunFails(r))
    /\ UNCHANGED <<rateVars, searchVars, slotVars, active>>

CallSearch(r) ==
    /\ run[r] = "graph"
    /\ SearchStep(r)
    /\ UNCHANGED <<rateVars, cacheVars, slotVars, active>>

CallStatistics(r) ==
    /\ run[r] = "graph"
    /\ Submit(r)
    /\ UNCHANGED <<rateVars, cacheVars, searchVars, active>>

Threads(r) ==
    /\ SlotStep(r)
    /\ UNCHANGED <<rateVars, cacheVars, searchVars, active>>

\* asyncio.timeout() or the disconnected client cancels the run and its tools.
Abandon(r) ==
    /\ AbandonRun(r)
    /\ AbandonSearch(r)
    /\ IF r \in waiting THEN AbandonCall(r) ELSE UNCHANGED slotVars
    /\ UNCHANGED <<rateVars, active>>

\* Leaving the lease's context, however the run ended.
LeaseEnds(r) ==
    /\ Respond(r)
    /\ Lease!Leave(r)
    /\ UNCHANGED <<rateVars, searchVars, slotVars>>

Redis ==
    \/ ForgetEntry /\ UNCHANGED <<rateVars, searchVars, slotVars, active>>
    \/ ForgetSearch /\ UNCHANGED <<rateVars, cacheVars, slotVars, active>>

QueryStep(r) ==
    \/ Admitted(r) \/ NotAdmitted(r) \/ Serve(r) \/ CallSearch(r)
    \/ CallStatistics(r) \/ Threads(r) \/ Abandon(r) \/ LeaseEnds(r)

QueryNext == Limiter \/ Redis \/ \E r \in Requests : QueryStep(r)

QuerySpec == QueryInit /\ [][QueryNext]_queryVars

\* Safety.  What either cache gives back is what the present request asked for
\* under the present limits (cache_service.py, tools/search.py).
CachesHonest == CacheProvenance /\ FoundFits
=============================================================================
