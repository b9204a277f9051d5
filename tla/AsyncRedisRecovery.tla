------------------------- MODULE AsyncRedisRecovery -------------------------
(***************************************************************************)
(* AsyncRedisRecoveryState (data_agent/services/redis_recovery.py): the    *)
(* same decision as RedisRecovery, taken by tasks of several event loops.  *)
(* There is no flag that says a probe is under way.  The tasks of one loop *)
(* queue for that loop's probe lock and look again once they hold it; two  *)
(* loops may ping at the same time, and what one of them finds out may     *)
(* arrive after the other has already acted.  A task may be cancelled at   *)
(* any await, which releases the lock it holds.                            *)
(*                                                                         *)
(* Recording a failure, using a client and giving it up are the same code  *)
(* as in the threaded state; they are taken from there, with the flag never *)
(* set.  What RedisRecovery calls threads are tasks here.                   *)
(***************************************************************************)
EXTENDS RedisRecovery

CONSTANT Loop             \* the event loop of each task

VARIABLE publisher        \* the loop whose probe published the current client

asyncVars == <<recoveryVars, publisher>>

Loops == {Loop[t] : t \in Threads}

Holding == {"probe", "pinged", "refused"}

AsyncTypeOK ==
    /\ up \in BOOLEAN
    /\ available \in BOOLEAN
    /\ client \in Clients \cup {NoClient}
    /\ available <=> client # NoClient
    /\ probing = FALSE
    /\ failures \in 0..FailureCap
    /\ wait \in 0..Longest
    /\ caller \in [Threads -> Holding \cup {"idle", "waiting", "call", "failed"}]
    /\ handle \in [Threads -> Clients \cup {NoClient}]
    /\ lost \in SUBSET Clients
    /\ sinceFailure \in 0..Longest
    /\ publisher \in Loops
    /\ \A s, t \in Threads :
          Loop[s] = Loop[t] /\ caller[s] \in Holding /\ caller[t] \in Holding => s = t

\* The first probe is due at once.
AsyncInit ==
    /\ up \in BOOLEAN
    /\ available = FALSE
    /\ client = NoClient
    /\ probing = FALSE
    /\ failures = 0
    /\ wait = 0
    /\ sinceFailure = Longest
    /\ caller = [t \in Threads |-> "idle"]
    /\ handle = [t \in Threads |-> NoClient]
    /\ lost = {}
    /\ publisher \in Loops
-----------------------------------------------------------------------------
Due == ~available /\ wait = 0

AsyncUseClient(t) == UseClient(t) /\ UNCHANGED publisher

\* The first look finds a probe due: queue for the probe lock of this loop.
QueueForProbe(t) ==
    /\ caller[t] = "idle"
    /\ Due
    /\ caller' = [caller EXCEPT ![t] = "waiting"]
    /\ UNCHANGED <<up, state, handle, lost, publisher>>

LockFree(l) == \A t \in Threads : Loop[t] = l => caller[t] \notin Holding

\* The factory's client is one nobody refers to.
Ping(t) ==
    /\ Unreferenced # {}
    /\ LET c == CHOOSE c \in Unreferenced : TRUE
       IN  /\ Becomes(t, "probe", c)
           /\ lost' = lost \ {c}
    /\ UNCHANGED <<up, state, publisher>>

\* Mutation: a task that waited pings without looking again.
EnterProbeBlindly(t) ==
    /\ caller[t] = "waiting"
    /\ LockFree(Loop[t])
    /\ Ping(t)

\* Mutation: the lock is not taken.
EnterProbeUnlocked(t) ==
    /\ caller[t] = "waiting"
    /\ \/ /\ ~Due
          /\ Becomes(t, IF available THEN "call" ELSE "idle", client)
          /\ UNCHANGED <<up, state, lost, publisher>>
       \/ /\ Due
          /\ Ping(t)

\* The second look, with the lock held: others may have settled the matter.
EnterProbe(t) ==
    /\ caller[t] = "waiting"
    /\ LockFree(Loop[t])
    /\ \/ /\ ~Due
          /\ Becomes(t, IF available THEN "call" ELSE "idle", client)
          /\ UNCHANGED <<up, state, lost, publisher>>
       \/ /\ Due
          /\ Ping(t)

\* The ping is decided; the task resumes in a later step of its loop.
PingReturns(t) ==
    /\ caller[t] = "probe"
    /\ Becomes(t, IF up THEN "pinged" ELSE "refused", handle[t])
    /\ UNCHANGED <<up, state, lost, publisher>>

\* Another loop may have published a client meanwhile: it is dropped too.
ProbeRefused(t) ==
    /\ caller[t] = "refused"
    /\ RecordFailure
    /\ Becomes(t, "idle", NoClient)
    /\ UNCHANGED <<up, probing, lost, publisher>>

\* Mutation: the client is stored but Redis is not declared available.
AsyncPublishSilently(t) ==
    /\ caller[t] = "pinged"
    /\ client' = handle[t]
    /\ failures' = 0
    /\ wait' = 0
    /\ publisher' = Loop[t]
    /\ Becomes(t, "call", handle[t])
    /\ UNCHANGED <<up, available, probing, lost, sinceFailure>>

AsyncPublish(t) ==
    /\ caller[t] = "pinged"
    /\ client' = handle[t]
    /\ available' = TRUE
    /\ failures' = 0
    /\ wait' = 0
    /\ publisher' = Loop[t]
    /\ Becomes(t, "call", handle[t])
    /\ UNCHANGED <<up, probing, lost, sinceFailure>>

AsyncCallEnds(t) ==
    /\ CallAnswered(t) \/ CallFails(t)
    /\ UNCHANGED publisher

AsyncMarkUnavailable(t) == MarkUnavailable(t) /\ UNCHANGED publisher

\* The awaiting request is cancelled; no handler catches it and the lock is freed.
Cancel(t) ==
    /\ caller[t] \in Holding \cup {"waiting", "call"}
    /\ Becomes(t, "idle", NoClient)
    /\ UNCHANGED <<up, state, lost, publisher>>

AsyncToggle == Toggle /\ UNCHANGED publisher
AsyncTick == RecoveryTick /\ UNCHANGED publisher

AsyncStep(t) ==
    \/ AsyncUseClient(t) \/ QueueForProbe(t) \/ EnterProbe(t) \/ PingReturns(t)
    \/ ProbeRefused(t) \/ AsyncPublish(t) \/ AsyncCallEnds(t)
    \/ AsyncMarkUnavailable(t) \/ Cancel(t)

AsyncNext == (\E t \in Threads : AsyncStep(t)) \/ AsyncToggle \/ AsyncTick

-----------------------------------------------------------------------------
(* What RedisAccess checks of them.                                         *)

\* A task that queued pings only while Redis is away and the backoff is over.
PingsAfterBackoff ==
    \A t \in Threads :
        caller[t] = "waiting" /\ caller'[t] = "probe" => ~available /\ sinceFailure >= Initial

\* A step that gives a client up does so after a command failed on it, or because
\* a probe of another loop than the one that published it was refused.
DropsForCause ==
    available /\ ~available' =>
        \/ client \in lost
        \/ \E t \in Threads :
              caller[t] = "refused" /\ caller'[t] = "idle" /\ Loop[t] # publisher
=============================================================================
