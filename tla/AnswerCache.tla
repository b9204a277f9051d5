----------------------------- MODULE AnswerCache -----------------------------
(***************************************************************************)
(* AgentService.ainvoke() between its lease and its answer                 *)
(* (data_agent/services/agent_service.py) with the cache it shares with    *)
(* every other process (cache_service.py): look the answer up, run the     *)
(* graph, and keep what it said if the run gave evidence that nothing in   *)
(* it depended on the user's files and if the answer is complete.          *)
(*                                                                         *)
(* Processes of several releases may share one Redis.  A policy is what the *)
(* key of an entry says of the process that made it: model, base URL,      *)
(* temperature, tools.  The limit of a response is not part of it, so       *)
(* releases that differ in nothing else find one another's answers.        *)
(***************************************************************************)
EXTENDS Naturals, FiniteSets, HttpRequests

CONSTANTS Queries,
          FileQueries,    \* queries that name a managed file
          Releases,
          Policy,         \* what the processes of each release are configured with
          ResponseLimit   \* and their AGENT_RESPONSE_MAX_CHARS

ASSUME AnswerCacheAssumption ==
    /\ FileQueries \subseteq Queries
    /\ ResponseLimit \in [Releases -> Nat \ {0}]
    /\ DOMAIN Policy = Releases

VARIABLES
    entry,     \* the cached answers, a function of key
    run,       \* how far each request is
    asked,     \* its query and the release of the process that serves it
    answer     \* what its run produced or it found cached

cacheVars == <<entry, run, asked, answer>>

Users == {Owner[r] : r \in Requests}
Policies == {Policy[p] : p \in Releases}
Sizes == 1..2

\* What was said, to whom, and whether the run that said it may be repeated.
Answers == [user : Users, query : Queries, policy : Policies, size : Sizes,
            clean : BOOLEAN, complete : BOOLEAN]
Nothing == <<>>

CacheKey(r) ==
    [user |-> Owner[r], query |-> asked[r].query, policy |-> Policy[asked[r].release]]

Bypass(r) == asked[r].query \in FileQueries

Working == {"lookup", "graph", "storing"}

CacheTypeOK ==
    /\ \A k \in DOMAIN entry : entry[k] \in Answers
    /\ run \in [Requests -> Working \cup {"none", "answered", "failed", "over"}]
    /\ asked \in [Requests -> [query : Queries, release : Releases] \cup {Nothing}]
    /\ answer \in [Requests -> Answers \cup {Nothing}]
    /\ \A r \in Requests : run[r] = "answered" => answer[r] # Nothing

CacheInit ==
    /\ entry = << >>
    /\ run = [r \in Requests |-> "none"]
    /\ asked = [r \in Requests |-> Nothing]
    /\ answer = [r \in Requests |-> Nothing]
-----------------------------------------------------------------------------
RunTo(r, to) == run' = [run EXCEPT ![r] = to]

\* A valid query in a process of some release; a file reference skips the cache.
BeginRun(r) ==
    /\ run[r] = "none"
    /\ \E q \in Queries, p \in Releases :
          /\ asked' = [asked EXCEPT ![r] = [query |-> q, release |-> p]]
          /\ RunTo(r, IF q \in FileQueries THEN "graph" ELSE "lookup")
    /\ UNCHANGED <<entry, answer>>

Fits(r, a) == a.size <= ResponseLimit[asked[r].release]

\* The entry, or nothing when it is absent, unreadable or Redis does not answer.
Aget(k) == {Nothing} \cup {entry[j] : j \in DOMAIN entry \cap {k}}

\* Mutation: what is found is answered without being measured again.
LookupUnmeasured(r) ==
    /\ run[r] = "lookup"
    /\ \E a \in Aget(CacheKey(r)) :
          \/ a = Nothing /\ RunTo(r, "graph") /\ UNCHANGED answer
          \/ a # Nothing /\ RunTo(r, "answered") /\ answer' = [answer EXCEPT ![r] = a]
    /\ UNCHANGED <<entry, asked>>

\* An answer too long for this process, kept by one that allows more, is an error
\* and stays where it is.
Lookup(r) ==
    /\ run[r] = "lookup"
    /\ \E a \in Aget(CacheKey(r)) :
          \/ a = Nothing /\ RunTo(r, "graph") /\ UNCHANGED answer
          \/ a # Nothing /\ Fits(r, a) /\ RunTo(r, "answered") /\ answer' = [answer EXCEPT ![r] = a]
          \/ a # Nothing /\ ~Fits(r, a) /\ RunTo(r, "failed") /\ UNCHANGED answer
    /\ UNCHANGED <<entry, asked>>

\* Every ledger the run reported to allows it, and there was one.
AllowsCache(ledgers) == ledgers # {} /\ \A l \in ledgers : l

\* Mutation: an answer about a managed file is kept as well.
KeepsFiles(r, ledgers, complete) == AllowsCache(ledgers) /\ complete

Keeps(r, ledgers, complete) == ~Bypass(r) /\ AllowsCache(ledgers) /\ complete

\* What a graph returns, as far as anybody looks: whether it was interrupted, who
\* spoke last, why the model stopped and whether it still asks for tools.
Results == [interrupted : BOOLEAN, last : {"nobody", "model", "other"},
            finish : {"stop", "length"}, pending : BOOLEAN]

CompleteAnswer(result) ==
    /\ ~result.interrupted
    /\ result.last = "model"
    /\ result.finish = "stop"
    /\ ~result.pending

\* A result without a message has no text to answer with.
Completeness == {CompleteAnswer(g) : g \in {x \in Results : x.last # "nobody"}}

\* The graph returns a text within the limit.
GraphEnds(r) ==
    /\ run[r] = "graph"
    /\ \E ledgers \in SUBSET BOOLEAN, complete \in Completeness, size \in Sizes :
          LET a == [user |-> Owner[r], query |-> asked[r].query,
                    policy |-> Policy[asked[r].release], size |-> size,
                    clean |-> TRUE \in ledgers /\ FALSE \notin ledgers, complete |-> complete]
          IN  /\ Fits(r, a)
              /\ answer' = [answer EXCEPT ![r] = a]
              /\ RunTo(r, IF Keeps(r, ledgers, complete) THEN "storing" ELSE "answered")
    /\ UNCHANGED <<entry, asked>>

\* A budget is used up, the text is too long, or anything else goes wrong.
RunFails(r) ==
    /\ run[r] = "graph"
    /\ RunTo(r, "failed")
    /\ UNCHANGED <<entry, asked, answer>>

\* setex: the entry replaces what another run of the same question kept.
Aset(r) ==
    entry' = [k \in DOMAIN entry \cup {CacheKey(r)} |->
                 IF k = CacheKey(r) THEN answer[r] ELSE entry[k]]

\* The answer goes out whether Redis kept it or not.
Store(r) ==
    /\ run[r] = "storing"
    /\ Aset(r) \/ UNCHANGED entry
    /\ RunTo(r, "answered")
    /\ UNCHANGED <<asked, answer>>

\* The deadline passes or the caller goes away at some await.
AbandonRun(r) ==
    /\ run[r] \in Working
    /\ \/ run[r] = "storing" /\ Aset(r)
       \/ UNCHANGED entry
    /\ RunTo(r, "failed")
    /\ UNCHANGED <<asked, answer>>

\* An entry's day is over, or the cache is cleared.
ForgetEntry ==
    /\ \E k \in DOMAIN entry : entry' = [j \in DOMAIN entry \ {k} |-> entry[j]]
    /\ UNCHANGED <<run, asked, answer>>

\* The answer is sent, or an error is; nothing of the request is kept.
Respond(r) ==
    /\ run[r] \in {"answered", "failed"}
    /\ RunTo(r, "over")
    /\ asked' = [asked EXCEPT ![r] = Nothing]
    /\ answer' = [answer EXCEPT ![r] = Nothing]
    /\ UNCHANGED entry

-----------------------------------------------------------------------------
(* Properties.                                                              *)

\* Safety.  An answer goes out only to the user it was made for, to the query and
\* under the policy it was made with, within the size that the release which sends
\* it allows, although releases of one policy and different sizes share their
\* entries; and whatever the cache holds came from a complete run with evidence
\* that it may be repeated, never from one about a managed file.
CacheProvenance ==
    /\ \A r \in Requests : run[r] = "answered" =>
          /\ answer[r].user = Owner[r] /\ answer[r].query = asked[r].query
          /\ answer[r].policy = Policy[asked[r].release]
          /\ Fits(r, answer[r])
    /\ \A k \in DOMAIN entry :
          entry[k].clean /\ entry[k].complete /\ entry[k].query \notin FileQueries
=============================================================================
