------------------------------ MODULE SearchTool ------------------------------
(***************************************************************************)
(* internet_search() (data_agent/tools/search.py): one bounded search with *)
(* an hour's cache.  What is found cached is checked again, since another  *)
(* release may have kept it under wider limits: what no longer fits is     *)
(* deleted and searched anew.                                              *)
(***************************************************************************)
EXTENDS Naturals, HttpRequests

VARIABLES
    kept,      \* what the cache holds for the search all of them make
    search,    \* how far each request's search is
    result     \* what the tool returned to its graph

searchVars == <<kept, search, result>>

Contents == {"none", "fits", "oversize", "malformed"}
Searching == {"find", "evict", "ask", "keep"}
SearchResults == {"none", "fits", "error"}

SearchTypeOK ==
    /\ kept \in Contents
    /\ search \in [Requests -> Searching \cup {"idle", "done"}]
    /\ result \in [Requests -> SearchResults]

SearchInit ==
    /\ kept \in Contents
    /\ search = [r \in Requests |-> "idle"]
    /\ result = [r \in Requests |-> "none"]

Proceeds(r, to) == search' = [search EXCEPT ![r] = to]
Returns(r, what) == Proceeds(r, "done") /\ result' = [result EXCEPT ![r] = what]

\* Invalid arguments and a missing key are answered at once.
BeginSearch(r) ==
    /\ search[r] = "idle"
    /\ \/ Proceeds(r, "find") /\ UNCHANGED result
       \/ Returns(r, "error")
    /\ UNCHANGED kept

\* Mutation: what is found is returned without measuring it.
FindUnmeasured(r) ==
    /\ search[r] = "find"
    /\ \/ Proceeds(r, "ask") /\ UNCHANGED result
       \/ kept # "none" /\ Returns(r, kept)
    /\ UNCHANGED kept

Find(r) ==
    /\ search[r] = "find"
    /\ \/ Proceeds(r, "ask") /\ UNCHANGED result
       \/ kept = "fits" /\ Returns(r, "fits")
       \/ kept \in {"oversize", "malformed"} /\ Proceeds(r, "evict") /\ UNCHANGED result
    /\ UNCHANGED kept

\* Deleted, or Redis does not answer.
Adelete == kept' \in {kept, "none"}

\* What another request kept since the look goes with it.
Evict(r) ==
    /\ search[r] = "evict"
    /\ Adelete
    /\ Proceeds(r, "ask")
    /\ UNCHANGED result

\* The service answers within its deadline and within the limits.
Ask(r) ==
    /\ search[r] = "ask"
    /\ Proceeds(r, "keep")
    /\ UNCHANGED <<kept, result>>

\* It does not: the tool tells the model so and keeps nothing.
SearchFails(r) ==
    /\ search[r] = "ask"
    /\ Returns(r, "error")
    /\ UNCHANGED kept

Keep(r) ==
    /\ search[r] = "keep"
    /\ kept' \in {kept, "fits"}
    /\ Returns(r, "fits")

\* The run around it is cancelled.
AbandonSearch(r) ==
    /\ search' = [search EXCEPT ![r] = IF @ \in Searching THEN "done" ELSE @]
    /\ kept' \in IF search[r] = "keep" THEN {kept, "fits"} ELSE {kept}
    /\ UNCHANGED result

ForgetSearch == kept' = "none" /\ UNCHANGED <<search, result>>

SearchStep(r) == BeginSearch(r) \/ Find(r) \/ Evict(r) \/ Ask(r) \/ SearchFails(r) \/ Keep(r)

\* Safety.  No search result beyond the limits reaches a graph, whatever an
\* earlier release with wider limits kept.
FoundFits == \A r \in Requests : result[r] \notin {"oversize", "malformed"}
=============================================================================
