----------------------------- MODULE HttpRequests -----------------------------
(* The requests a run of the HTTP interface is about and who makes them.    *)
EXTENDS FiniteSets

CONSTANTS Requests,
          Owner      \* the user of each request

ASSUME RequestsAssumption == IsFiniteSet(Requests)
=============================================================================
