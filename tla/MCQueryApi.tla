------------------------------ MODULE MCQueryApi ------------------------------
(* Two requests of one user, one of another, and one of a fail-open scope.   *)
EXTENDS QueryApi, TLC

CONSTANTS a1, a2, b1, s1
MCRequests == {a1, a2, b1, s1}
MCOwner == (a1 :> "a") @@ (a2 :> "a") @@ (b1 :> "b") @@ (s1 :> "b")
MCScope == [r \in MCRequests |-> IF r = s1 THEN "session" ELSE "query"]
MCToken == [r \in MCRequests |-> IF r = s1 THEN "none" ELSE MCOwner[r]]
MCAddress == [r \in MCRequests |-> "proxy"]
MCQueries == {"plain", "file"}
MCFileQueries == {"file"}

\* A release that allows less than the one before under the same policy, and one
\* with another model.
MCReleases == {"old", "new", "other"}
MCPolicy == [p \in MCReleases |-> IF p = "other" THEN "other" ELSE "same"]
MCResponseLimit == [p \in MCReleases |-> IF p = "new" THEN 1 ELSE 2]

\* Bounds.  Runs read nothing of the limiter but that it let them through, and
\* it reads nothing of theirs: its interleavings are explored before any run
\* begins, those of the runs from one of its outcomes.  Requests of different
\* subjects share no counter: s1 comes alone, b1 only on the way to that outcome.
MCLetThrough == (a1 :> 0) @@ (a2 :> WindowTicks) @@ (b1 :> 0) @@ (s1 :> -1)
LimiterFirst ==
    /\ gate[s1] # "idle" => \A r \in Requests \ {s1} : gate[r] = "idle"
    /\ (\E r \in Requests : run[r] # "none") =>
          /\ countedAt = MCLetThrough
          /\ gate[s1] = "idle"
          /\ \A r \in {a1, a2, b1} : gate[r] = "allowed" /\ stamp[r] = countedAt[r]
    /\ gate[b1] # "idle" =>
          /\ \A r \in Requests : countedAt[r] \in {-1, MCLetThrough[r]}
          /\ gate[s1] = "idle" /\ \A r \in {a1, a2, b1} : gate[r] # "unavailable"

\* Each request comes to some of the releases: the two of one user meet under the
\* same policy with either limit asking first, and under different policies.
MCServedBy == (a1 :> {"old", "other"}) @@ (a2 :> {"new", "other"}) @@ (b1 :> {"old"})
OneOfItsReleases ==
    \A r \in Requests : asked[r] # Nothing => asked[r].release \in MCServedBy[r]

\* The tools read nothing of the answer cache or of one another either.
Searches == \E r \in Requests : search[r] # "idle"
Calculations == \E r \in Requests : future[r] # "none"
ToolsApart ==
    Searches \/ Calculations =>
        /\ ~(Searches /\ Calculations)
        /\ entry = << >>
        /\ \A r \in Requests : asked[r] # Nothing => asked[r].query = "file" /\ asked[r].release # "other"
=============================================================================
