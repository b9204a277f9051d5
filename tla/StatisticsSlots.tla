--------------------------- MODULE StatisticsSlots ---------------------------
(***************************************************************************)
(* The worker slots of analyze_file_statistics                             *)
(* (data_agent/tools/file_statistics.py).  A call takes a slot before it   *)
(* is submitted to the thread pool and a callback of its future gives it   *)
(* back.  Cancelling the waiting task cancels a future no thread has       *)
(* picked up; a thread that runs goes on, slot and all, until its          *)
(* calculation ends.                                                       *)
(***************************************************************************)
EXTENDS Naturals, FiniteSets, HttpRequests

CONSTANT Slots

ASSUME SlotsAssumption == Slots \in Nat \ {0}

VARIABLES
    permits,   \* what the semaphore has left
    future,    \* the future of each request's call
    waiting    \* requests that still wait for their call

slotVars == <<permits, future, waiting>>

SlotsTypeOK ==
    /\ permits \in 0..Slots
    /\ future \in [Requests -> {"none", "pending", "running", "over"}]
    /\ waiting \subseteq Requests

SlotsInit ==
    /\ permits = Slots
    /\ future = [r \in Requests |-> "none"]
    /\ waiting = {}

FutureTo(r, to) == future' = [future EXCEPT ![r] = to]

\* A slot is free: reserve it and submit.  Otherwise, or when the pool takes no
\* work, the tool answers with an error and nothing is kept.
Submit(r) ==
    /\ future[r] = "none"
    /\ \/ /\ permits > 0
          /\ permits' = permits - 1
          /\ FutureTo(r, "pending")
          /\ waiting' = waiting \cup {r}
       \/ FutureTo(r, "over") /\ UNCHANGED <<permits, waiting>>

Running == {r \in Requests : future[r] = "running"}

\* One of the pool's threads picks the call up.
PickUp(r) ==
    /\ future[r] = "pending"
    /\ Cardinality(Running) < Slots
    /\ FutureTo(r, "running")
    /\ UNCHANGED <<permits, waiting>>

Release(r) == permits' = permits + 1 /\ FutureTo(r, "over") /\ waiting' = waiting \ {r}

\* The calculation ends, or its own deadline stops it.
Calculated(r) ==
    /\ future[r] = "running"
    /\ Release(r)

\* Mutation: the slot of a running thread is given back with its caller.
AbandonAndRelease(r) ==
    /\ r \in waiting
    /\ IF future[r] = "pending" THEN Release(r)
       ELSE permits' = permits + 1 /\ waiting' = waiting \ {r} /\ UNCHANGED future

\* The awaiting task is cancelled.
AbandonCall(r) ==
    /\ r \in waiting
    /\ IF future[r] = "pending" THEN Release(r)
       ELSE waiting' = waiting \ {r} /\ UNCHANGED <<permits, future>>

SlotStep(r) == PickUp(r) \/ Calculated(r)
-----------------------------------------------------------------------------
(* Properties.                                                              *)

Unfinished == {r \in Requests : future[r] \in {"pending", "running"}}

\* Safety.  A slot is out for every unfinished calculation, whoever still waits
\* for it, and for nothing else: no call queues behind an abandoned one beyond
\* the number of threads and none loses its slot for good.
SlotsConserved == permits + Cardinality(Unfinished) = Slots
=============================================================================
