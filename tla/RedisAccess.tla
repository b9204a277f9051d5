----------------------------- MODULE RedisAccess -----------------------------
(***************************************************************************)
(* A service of the process reaches Redis through one of the two classes   *)
(* of data_agent/services/redis_recovery.py: RedisRecoveryState when its   *)
(* callers are threads, AsyncRedisRecoveryState when they are tasks of     *)
(* event loops.  Which one it is stays as it was at the start; a service   *)
(* that has both, as CacheService has, keeps two states that share nothing *)
(* but Redis, and each goes its way as it would alone.                     *)
(***************************************************************************)
EXTENDS AsyncRedisRecovery

VARIABLE style    \* who shares the state: "threads" or "tasks"

accessVars == <<asyncVars, style>>

AccessInit ==
    \/ style = "threads" /\ RecoveryInit /\ publisher = CHOOSE l \in Loops : TRUE
    \/ style = "tasks" /\ AsyncInit

ByThreads == style = "threads" /\ UNCHANGED <<publisher, style>>
ByTasks == style = "tasks" /\ UNCHANGED style

AccessNext ==
    \/ ByThreads /\ RecoveryNext
    \/ ByTasks /\ AsyncNext

\* Threads finish what they began and the clock runs; requests keep coming, so a
\* probe that stays due is made by some thread.
ThreadsFair ==
    /\ \A t \in Threads : WF_accessVars(ByThreads /\ Progress(t))
    /\ WF_accessVars(ByThreads /\ RecoveryTick)
    /\ WF_accessVars(ByThreads /\ \E t \in Threads : BeginProbe(t))

\* Loops run their ready tasks and the clock runs.  Requests keep coming, and of
\* those that probe not every one is cancelled just before it would finish.
TasksFair ==
    /\ \A t \in Threads :
          WF_accessVars(ByTasks /\ (ProbeRefused(t) \/ AsyncCallEnds(t) \/ AsyncMarkUnavailable(t)))
    /\ WF_accessVars(ByTasks /\ AsyncTick)
    /\ SF_accessVars(ByTasks /\ \E t \in Threads : QueueForProbe(t))
    /\ SF_accessVars(ByTasks /\ \E t \in Threads : EnterProbe(t))
    /\ SF_accessVars(ByTasks /\ \E t \in Threads : PingReturns(t))
    /\ SF_accessVars(ByTasks /\ \E t \in Threads : AsyncPublish(t))

AccessSpec == AccessInit /\ [][AccessNext]_accessVars /\ ThreadsFair /\ TasksFair
-----------------------------------------------------------------------------
(* Properties.                                                              *)

\* Among threads probes are few, at any time and over time: one thread reconnects
\* at once, and none sooner after the last recorded failure than the initial
\* backoff, however many ask and whatever the jitter.
ProbesRationed ==
    /\ [](style = "threads" => SingleFlight)
    /\ [][style = "threads" => ProbesAfterBackoff]_accessVars

\* Action property.  Threads only give a client up when a command really failed
\* on that very client; a late failure of an old one never takes a new one.
NoStaleDegrade == [][style = "threads" => DegradesForCause]_accessVars

\* Action property.  However many tasks of however many loops queued while Redis
\* was away, none pings sooner after the last recorded failure than the initial
\* backoff: the look behind the lock turns the rest of the queue away.
AsyncPaced == [][style = "tasks" => PingsAfterBackoff]_accessVars

\* Action property.  Tasks give a client up because a command failed on that very
\* client, or because a probe of another loop, begun before it was published,
\* failed late.  The loop that published it never takes it back by a probe.
DroppedByCommandOrOtherLoop == [][style = "tasks" => DropsForCause]_accessVars

\* Liveness.  Once Redis stays up the process comes back to it for good: no probe
\* that failed keeps threads from the next, and late failures of other loops cost
\* tasks the client only finitely often.
Recovers == <>[]up => <>[]available
=============================================================================
