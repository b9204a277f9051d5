-------------------------- MODULE AdmissionControl --------------------------
(***************************************************************************)
(* What the agent concurrency boundary promises, with nothing said of how: *)
(* runs start and end, at most GlobalLimit of them are active at any time  *)
(* and at most UserLimit of them belong to the same user.                  *)
(***************************************************************************)
EXTENDS Naturals, FiniteSets

CONSTANTS Runs,         \* every run the service may be asked for
          Owner,        \* the user a run belongs to, [Runs -> Users]
          GlobalLimit,  \* AGENT_GLOBAL_CONCURRENCY_LIMIT
          UserLimit     \* AGENT_USER_CONCURRENCY_LIMIT

VARIABLE active         \* the runs that are executing agent work

OwnedBy(S, u) == {r \in S : Owner[r] = u}

Init == active = {}

\* A run is admitted while both limits leave room for it.
Admit(r) ==
    /\ r \notin active
    /\ Cardinality(active) < GlobalLimit
    /\ Cardinality(OwnedBy(active, Owner[r])) < UserLimit
    /\ active' = active \cup {r}

\* A run ends: it finished, failed, was cancelled or its process died.
Leave(r) ==
    /\ r \in active
    /\ active' = active \ {r}

Next == \E r \in Runs : Admit(r) \/ Leave(r)

Spec == Init /\ [][Next]_active
=============================================================================
