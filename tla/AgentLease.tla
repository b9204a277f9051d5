----------------------------- MODULE AgentLease -----------------------------
(***************************************************************************)
(* The Redis leases that bound how many agent runs execute at once         *)
(* (data_agent/services/agent_lease.py) together with the runs that hold   *)
(* them (agent_service.py): the two Lua scripts on the global and per-user *)
(* sorted sets, polling within the wait window, the run deadline, nested   *)
(* holds, lost replies, deferred releases and processes that die.          *)
(*                                                                         *)
(* Time is a set of countdowns that Tick decrements together: the score of *)
(* a lease minus the Redis clock, the TTL of a key, what is left of a wait *)
(* window or of a run deadline.  A score is due (score <= now) when its    *)
(* countdown is 0.  A run stands for its lease id as well: ids are fresh   *)
(* UUIDs, so a run is begun again only when no set still holds its id.     *)
(***************************************************************************)
EXTENDS Naturals, FiniteSets

CONSTANTS Users,
          Runs,
          Owner,         \* [Runs -> Users], the authenticated subject of a run
          SyncRuns,      \* runs driven by stream(), the others by astream()/ainvoke()
          GlobalLimit,   \* AGENT_GLOBAL_CONCURRENCY_LIMIT
          UserLimit,     \* AGENT_USER_CONCURRENCY_LIMIT
          TTL,           \* AGENT_CONCURRENCY_LEASE_TTL_SECONDS
          RunTimeout,    \* AGENT_RUN_TIMEOUT_SECONDS
          WaitWindow,    \* AGENT_CONCURRENCY_WAIT_SECONDS
          CleanupGrace,  \* the longest a cancelled async run takes to unwind
          MaxDepth       \* bound: nested holds of one run

ASSUME RunsAssumption ==
    /\ IsFiniteSet(Runs)
    /\ Owner \in [Runs -> Users]
    /\ SyncRuns \subseteq Runs
    /\ MaxDepth \in Nat

\* config.py refuses to start with values outside these relations; that
\* unwinding fits in the margin the lease leaves is the deployment's part.
ASSUME LimitsAssumption ==
    /\ GlobalLimit \in Nat \ {0}
    /\ UserLimit \in 1..GlobalLimit
    /\ RunTimeout \in Nat \ {0}
    /\ WaitWindow \in 1..(RunTimeout - 1)
    /\ CleanupGrace \in Nat \ {0}
    /\ TTL \in Nat
    /\ RunTimeout + CleanupGrace < TTL

VARIABLES
    pc,         \* where each run is
    globalSet,  \* members of agent:lease:{agent}:global
    userSet,    \* members of all agent:lease:{agent}:user:<digest> sets
    leaseLeft,  \* score of a lease minus the Redis clock, 0 when due
    globalKey,  \* PTTL of the global key, 0 when there is no such key
    userKey,    \* PTTL of each user's key
    waitLeft,   \* wait_deadline - clock() of a polling run
    runLeft,    \* what is left of the run's deadline, then of its cleanup
    depth       \* nested holds on top of the outermost one

vars == <<pc, globalSet, userSet, leaseLeft, globalKey, userKey,
          waitLeft, runLeft, depth>>
redis == <<globalSet, userSet, leaseLeft, globalKey, userKey>>

\* idle: not asked for, or over
\* polling: acquire loop      executing: agent work under the lease
\* cleanup: deadline or cancellation is unwinding the run, work may still go on
\* releasing: work is over, release() not yet done
PC == {"idle", "polling", "executing", "cleanup", "releasing"}

Working == {"executing", "cleanup"}
ActiveRuns == {r \in Runs : pc[r] \in Working}
OwnedBy(S, u) == {r \in S : Owner[r] = u}

TypeOK ==
    /\ pc \in [Runs -> PC]
    /\ globalSet \in SUBSET Runs
    /\ userSet \in SUBSET Runs
    /\ leaseLeft \in [Runs -> 0..TTL]
    /\ globalKey \in 0..TTL
    /\ userKey \in [Users -> 0..TTL]
    /\ waitLeft \in [Runs -> 0..WaitWindow]
    /\ runLeft \in [Runs -> Nat]
    /\ depth \in [Runs -> 0..MaxDepth]

Init ==
    /\ pc = [r \in Runs |-> "idle"]
    /\ globalSet = {}
    /\ userSet = {}
    /\ leaseLeft = [r \in Runs |-> 0]
    /\ globalKey = 0
    /\ userKey = [u \in Users |-> 0]
    /\ waitLeft = [r \in Runs |-> 0]
    /\ runLeft = [r \in Runs |-> 0]
    /\ depth = [r \in Runs |-> 0]

-----------------------------------------------------------------------------
(* The scripts.  Each runs atomically inside Redis.                         *)

Due(r) == leaseLeft[r] = 0
\* Mutation: the expired members are not removed.
UnprunedGlobal == globalSet
LiveGlobal == {m \in globalSet : ~Due(m)}
LiveUser(u) == {m \in OwnedBy(userSet, u) : ~Due(m)}

\* ZREMRANGEBYSCORE on the one user key the script was given
PrunedUserSet(u) == {m \in userSet : Owner[m] = u => ~Due(m)}

\* Redis drops a sorted set's key, and its TTL, with the last member.
KeyOf(members, left) == IF members = {} THEN 0 ELSE left

\* Mutations: only the global set is looked at; one too many is let in.
HasGlobalRoom(u) == Cardinality(LiveGlobal) < GlobalLimit
HasRoomOffByOne(u) ==
    /\ Cardinality(LiveUser(u)) < UserLimit
    /\ Cardinality(LiveGlobal) <= GlobalLimit
HasRoom(u) ==
    /\ Cardinality(LiveUser(u)) < UserLimit
    /\ Cardinality(LiveGlobal) < GlobalLimit

\* Mutation: the TTL of a key is set once and not extended (PEXPIRE NX).
AcquireKeepsKeyTTL(r) ==
    LET u == Owner[r] IN
    /\ HasRoom(u)
    /\ globalSet' = LiveGlobal \cup {r}
    /\ userSet' = PrunedUserSet(u) \cup {r}
    /\ leaseLeft' = [leaseLeft EXCEPT ![r] = TTL]
    /\ globalKey' = IF LiveGlobal = {} THEN TTL ELSE globalKey
    /\ userKey' = [userKey EXCEPT ![u] = IF LiveUser(u) = {} THEN TTL ELSE @]

AcquireGrants(r) ==
    LET u == Owner[r] IN
    /\ HasRoom(u)
    /\ globalSet' = LiveGlobal \cup {r}
    /\ userSet' = PrunedUserSet(u) \cup {r}
    /\ leaseLeft' = [leaseLeft EXCEPT ![r] = TTL]
    /\ globalKey' = TTL
    /\ userKey' = [userKey EXCEPT ![u] = TTL]

AcquireRefuses(r) ==
    LET u == Owner[r] IN
    /\ ~HasRoom(u)
    /\ globalSet' = LiveGlobal
    /\ userSet' = PrunedUserSet(u)
    /\ globalKey' = KeyOf(LiveGlobal, globalKey)
    /\ userKey' = [userKey EXCEPT ![u] = KeyOf(LiveUser(u), @)]
    /\ UNCHANGED leaseLeft

\* Mutation: only the global set is released.
ReleaseGlobalOnly(r) ==
    /\ globalSet' = globalSet \ {r}
    /\ globalKey' = KeyOf(globalSet \ {r}, globalKey)
    /\ UNCHANGED <<userSet, userKey, leaseLeft>>

ReleaseScript(r) ==
    LET u == Owner[r] IN
    /\ globalSet' = globalSet \ {r}
    /\ userSet' = userSet \ {r}
    /\ leaseLeft' = [leaseLeft EXCEPT ![r] = 0]
    /\ globalKey' = KeyOf(globalSet \ {r}, globalKey)
    /\ userKey' = [userKey EXCEPT ![u] = KeyOf(OwnedBy(userSet, u) \ {r}, @)]
-----------------------------------------------------------------------------
(* A run.                                                                   *)

\* A request arrives: the deadline and the wait window start together.
Begin(r) ==
    /\ pc[r] = "idle"
    /\ r \notin globalSet \cup userSet
    /\ pc' = [pc EXCEPT ![r] = "polling"]
    /\ waitLeft' = [waitLeft EXCEPT ![r] = WaitWindow]
    /\ runLeft' = [runLeft EXCEPT ![r] = RunTimeout]
    /\ UNCHANGED <<redis, depth>>

\* The run leaves without holding anything it knows of.
Ends(r) ==
    /\ pc' = [pc EXCEPT ![r] = "idle"]
    /\ waitLeft' = [waitLeft EXCEPT ![r] = 0]
    /\ runLeft' = [runLeft EXCEPT ![r] = 0]
    /\ depth' = [depth EXCEPT ![r] = 0]

\* One poll is answered with a lease.
PollGranted(r) ==
    /\ pc[r] = "polling"
    /\ AcquireGrants(r)
    /\ pc' = [pc EXCEPT ![r] = "executing"]
    /\ waitLeft' = [waitLeft EXCEPT ![r] = 0]
    /\ UNCHANGED <<runLeft, depth>>

\* Mutation: every refused poll starts the wait window again.
PollBusyRestartsWait(r) ==
    /\ pc[r] = "polling"
    /\ AcquireRefuses(r)
    /\ waitLeft' = [waitLeft EXCEPT ![r] = WaitWindow]
    /\ UNCHANGED <<pc, runLeft, depth>>

\* One poll finds no room: sleep and poll again, or AgentBusyError.
PollBusy(r) ==
    /\ pc[r] = "polling"
    /\ AcquireRefuses(r)
    /\ \/ waitLeft[r] > 0 /\ UNCHANGED <<pc, waitLeft, runLeft, depth>>
       \/ waitLeft[r] = 0 /\ Ends(r)

\* The script ran but its reply was lost: the run ends as unprotected and
\* a lease that was granted stays behind with no holder.
PollReplyLost(r) ==
    /\ pc[r] = "polling"
    /\ AcquireGrants(r) \/ AcquireRefuses(r)
    /\ Ends(r)

\* No client, or an error before the script ran.  The same step covers the
\* caller going away while it polls.
PollUnavailable(r) ==
    /\ pc[r] = "polling"
    /\ Ends(r)
    /\ UNCHANGED redis

\* A graph call inside the run holds the same lease again, and gives it back.
EnterNested(r) ==
    /\ pc[r] = "executing"
    /\ depth[r] < MaxDepth
    /\ depth' = [depth EXCEPT ![r] = @ + 1]
    /\ UNCHANGED <<pc, redis, waitLeft, runLeft>>

ExitNested(r) ==
    /\ pc[r] \in Working
    /\ depth[r] > 0
    /\ depth' = [depth EXCEPT ![r] = @ - 1]
    /\ UNCHANGED <<pc, redis, waitLeft, runLeft>>

\* The deadline passed, or the caller cancelled: unwinding starts.  A run
\* still polling holds no lease and just ends (PollUnavailable).
Interrupt(r) ==
    /\ pc[r] = "executing"
    /\ pc' = [pc EXCEPT ![r] = "cleanup"]
    /\ runLeft' = [runLeft EXCEPT ![r] = CleanupGrace]
    /\ UNCHANGED <<redis, waitLeft, depth>>

\* The outermost hold is left.
Finish(r) ==
    /\ pc[r] \in Working
    /\ depth[r] = 0
    /\ pc' = [pc EXCEPT ![r] = "releasing"]
    /\ runLeft' = [runLeft EXCEPT ![r] = 0]
    /\ UNCHANGED <<redis, waitLeft, depth>>

\* release(): the script ran, whether or not its reply arrived.
Release(r) ==
    /\ pc[r] = "releasing"
    /\ ReleaseScript(r)
    /\ Ends(r)

\* release(): no client or an error before the script ran; the TTL is left
\* to reclaim the slot.
ReleaseDeferred(r) ==
    /\ pc[r] = "releasing"
    /\ Ends(r)
    /\ UNCHANGED redis

\* The process dies with the run.
Crash(r) ==
    /\ pc[r] # "idle"
    /\ Ends(r)
    /\ UNCHANGED redis
-----------------------------------------------------------------------------
(* Time.                                                                    *)

Pred(n) == IF n = 0 THEN 0 ELSE n - 1

\* asyncio.timeout and the cancelled task's cleanup are on time: an async
\* run neither executes past its deadline nor unwinds past its grace.  A
\* sync run looks at its deadline only between two chunks, so nothing stops
\* the clock for it.
Overdue(r) ==
    /\ r \notin SyncRuns
    /\ pc[r] \in Working \cup {"polling"}
    /\ runLeft[r] = 0

Tick ==
    /\ \A r \in Runs : ~Overdue(r)
    /\ leaseLeft' = [r \in Runs |-> Pred(leaseLeft[r])]
    /\ waitLeft' = [r \in Runs |-> Pred(waitLeft[r])]
    /\ runLeft' = [r \in Runs |-> Pred(runLeft[r])]
    /\ globalKey' = Pred(globalKey)
    /\ userKey' = [u \in Users |-> Pred(userKey[u])]
    \* a key whose TTL runs out takes its members with it
    /\ globalSet' = IF globalKey = 1 THEN {} ELSE globalSet
    /\ userSet' = {m \in userSet : userKey[Owner[m]] # 1}
    /\ UNCHANGED <<pc, depth>>

\* The Redis data is lost: flushdb, a restart without its dump.
Flush ==
    /\ globalSet' = {}
    /\ userSet' = {}
    /\ leaseLeft' = [r \in Runs |-> 0]
    /\ globalKey' = 0
    /\ userKey' = [u \in Users |-> 0]
    /\ UNCHANGED <<pc, waitLeft, runLeft, depth>>

Poll(r) ==
    PollGranted(r) \/ PollBusy(r) \/ PollReplyLost(r) \/ PollUnavailable(r)

RunStep(r) ==
    \/ Begin(r) \/ Poll(r)
    \/ EnterNested(r) \/ ExitNested(r)
    \/ Interrupt(r) \/ Finish(r)
    \/ Release(r) \/ ReleaseDeferred(r) \/ Crash(r)

Next == Tick \/ \E r \in Runs : RunStep(r)

\* Time passes; polls are made and answered; an async run's deadline and its
\* unwinding are driven by the event loop.  Nothing makes work end by
\* itself, and nothing makes a sync run end at all.
Fairness ==
    /\ WF_vars(Tick)
    /\ \A r \in Runs : WF_vars(PollGranted(r) \/ PollBusy(r))
    /\ \A r \in Runs \ SyncRuns :
           /\ WF_vars(PollUnavailable(r) /\ runLeft[r] = 0)
           /\ WF_vars(Interrupt(r) /\ runLeft[r] = 0)
           /\ WF_vars(pc[r] = "cleanup" /\ (ExitNested(r) \/ Finish(r)))
           /\ WF_vars(Release(r) \/ ReleaseDeferred(r))

Spec == Init /\ [][Next]_vars /\ Fairness

\* The same system with Redis losing its data at any time.
FlushSpec == Init /\ [][Next \/ Flush]_vars /\ Fairness
-----------------------------------------------------------------------------
(* Properties.                                                              *)

\* Safety.  No more runs execute agent work at one time than the global
\* limit, and no more of one user than the user limit, unwinding included:
\* what the two sorted sets, the TTL and the deadline together are for.
ConcurrencyBound ==
    /\ Cardinality(ActiveRuns) <= GlobalLimit
    /\ \A u \in Users : Cardinality(OwnedBy(ActiveRuns, u)) <= UserLimit

\* Safety.  The leases Redis still counts are within both limits, whatever
\* is lost or flushed: the sets are never the cause of over-admission.
RegisteredBound ==
    /\ Cardinality(LiveGlobal) <= GlobalLimit
    /\ \A u \in Users : Cardinality(LiveUser(u)) <= UserLimit

\* Safety.  A lease that still counts is in both sets or in neither,
\* although a script prunes only one user's set and two keys expire on
\* their own: a lease in one set alone would block a user or a slot.
SetsAgree == \A r \in Runs : ~Due(r) => (r \in globalSet <=> r \in userSet)

\* Safety.  Both: what Redis holds of the leases stays within the limits and
\* of one piece, whatever is lost, flushed or left to expire.
RegisteredTogether == RegisteredBound /\ SetsAgree

\* Safety.  A run at work has its lease in both sets and time left on it:
\* no prune, key expiry, nested exit or other run's release takes it away.
HeldLeaseCounts ==
    \A r \in ActiveRuns : r \in LiveGlobal /\ r \in userSet

\* A run's deadline and its unwinding end before its lease does.
DeadlineFits ==
    \A r \in Runs :
        /\ pc[r] = "polling" => runLeft[r] <= RunTimeout
        /\ pc[r] = "executing" => leaseLeft[r] > runLeft[r] + CleanupGrace
        /\ pc[r] = "cleanup" => leaseLeft[r] > runLeft[r]

\* A key lives at least as long as every lease in it.
KeyCovers ==
    /\ \A r \in globalSet : leaseLeft[r] <= globalKey
    /\ \A r \in userSet : leaseLeft[r] <= userKey[Owner[r]]

\* Safety, while there is no sync run and no flush: every run at work has
\* its lease, its deadline fits into the lease, and no key can expire early.
\* This is the inductive part of the argument for ConcurrencyBound.
LeaseInv == HeldLeaseCounts /\ DeadlineFits /\ KeyCovers

\* Liveness.  Whatever happened to its holder (a crash, a lost reply, a
\* deferred release) a lease stops counting: no slot leaks for ever.
SlotReclaimed ==
    \A r \in Runs : (r \in LiveGlobal) ~> (r \notin LiveGlobal)

\* Liveness.  A caller that waits for a slot is answered: a lease, busy or
\* unavailable, never an endless poll.
WaiterAnswered == \A r \in Runs : (pc[r] = "polling") ~> (pc[r] # "polling")

\* Refinement.  The leases implement the abstract admission control.
Admission == INSTANCE AdmissionControl WITH active <- ActiveRuns
Admitted == Admission!Spec
=============================================================================
