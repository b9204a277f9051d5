-------------------------- MODULE AgentLeaseProofs --------------------------
(***************************************************************************)
(* Proofs about AgentLease: its type invariant, the inductive invariant    *)
(* that ties every run at work to a lease Redis still counts, the          *)
(* concurrency bound and the refinement of AdmissionControl; what Redis    *)
(* counts when its data may be lost; and the relations between limits that *)
(* Configuration enforces before a process starts.                         *)
(***************************************************************************)
EXTENDS AgentLease, Configuration, FiniteSetTheorems, TLAPS

-----------------------------------------------------------------------------
(* Type correctness.                                                        *)

LEMMA InitType == Init => TypeOK
  BY RunsAssumption, LimitsAssumption DEF Init, TypeOK, PC

LEMMA KeyOfType ==
  ASSUME NEW S, NEW n \in 0..TTL
  PROVE  KeyOf(S, n) \in 0..TTL
  BY LimitsAssumption DEF KeyOf

LEMMA ScriptType ==
  ASSUME TypeOK, NEW r \in Runs, AcquireGrants(r) \/ AcquireRefuses(r) \/ ReleaseScript(r)
  PROVE  /\ globalSet' \in SUBSET Runs
         /\ userSet' \in SUBSET Runs
         /\ leaseLeft' \in [Runs -> 0..TTL]
         /\ globalKey' \in 0..TTL
         /\ userKey' \in [Users -> 0..TTL]
  <1> USE RunsAssumption, LimitsAssumption DEF TypeOK
  <1>1. CASE AcquireGrants(r)
    BY <1>1 DEF AcquireGrants, LiveGlobal, PrunedUserSet
  <1>2. CASE AcquireRefuses(r)
    BY <1>2, KeyOfType DEF AcquireRefuses, LiveGlobal, PrunedUserSet
  <1>3. CASE ReleaseScript(r)
    BY <1>3, KeyOfType DEF ReleaseScript
  <1>4. QED
    BY <1>1, <1>2, <1>3

LEMMA EndsType ==
  ASSUME TypeOK, NEW r \in Runs, Ends(r)
  PROVE  /\ pc' \in [Runs -> PC]
         /\ waitLeft' \in [Runs -> 0..WaitWindow]
         /\ runLeft' \in [Runs -> Nat]
         /\ depth' \in [Runs -> 0..MaxDepth]
  BY RunsAssumption, LimitsAssumption DEF TypeOK, Ends, PC

LEMMA NextType == TypeOK /\ [Next]_vars => TypeOK'
  <1> SUFFICES ASSUME TypeOK, [Next]_vars PROVE TypeOK'
    OBVIOUS
  <1> USE RunsAssumption, LimitsAssumption
  <1>1. CASE Tick
    BY <1>1 DEF TypeOK, Tick, Pred
  <1>2. ASSUME NEW r \in Runs, RunStep(r) PROVE TypeOK'
    <2>1. CASE Begin(r)
      BY <2>1 DEF TypeOK, Begin, redis, PC
    <2>2. CASE PollGranted(r)
      BY <2>2, ScriptType DEF TypeOK, PollGranted, PC
    <2>3. CASE PollBusy(r)
      BY <2>3, ScriptType, EndsType DEF TypeOK, PollBusy
    <2>4. CASE PollReplyLost(r)
      BY <2>4, ScriptType, EndsType DEF TypeOK, PollReplyLost
    <2>5. CASE PollUnavailable(r)
      BY <2>5, EndsType DEF TypeOK, PollUnavailable, redis
    <2>6. CASE EnterNested(r)
      BY <2>6 DEF TypeOK, EnterNested, redis
    <2>7. CASE ExitNested(r)
      BY <2>7 DEF TypeOK, ExitNested, redis
    <2>8. CASE Interrupt(r)
      BY <2>8 DEF TypeOK, Interrupt, redis, PC
    <2>9. CASE Finish(r)
      BY <2>9 DEF TypeOK, Finish, redis, PC
    <2>10. CASE Release(r)
      BY <2>10, ScriptType, EndsType DEF TypeOK, Release
    <2>11. CASE ReleaseDeferred(r)
      BY <2>11, EndsType DEF TypeOK, ReleaseDeferred, redis
    <2>12. CASE Crash(r)
      BY <2>12, EndsType DEF TypeOK, Crash, redis
    <2>13. QED
      BY <1>2, <2>1, <2>2, <2>3, <2>4, <2>5, <2>6, <2>7, <2>8, <2>9,
         <2>10, <2>11, <2>12 DEF RunStep, Poll
  <1>3. CASE UNCHANGED vars
    BY <1>3 DEF TypeOK, vars
  <1>4. QED
    BY <1>1, <1>2, <1>3 DEF Next

\* Every variable keeps its type in every behaviour of the leases, for any
\* set of runs and any limits config.py accepts.
THEOREM TypeCorrect == Spec => []TypeOK
  BY InitType, NextType, PTL DEF Spec
-----------------------------------------------------------------------------
(* The lease invariant.                                                     *)

LEMMA InitLease == Init => LeaseInv
  BY DEF Init, LeaseInv, HeldLeaseCounts, DeadlineFits, KeyCovers, ActiveRuns,
         Working

\* The scripts extend a key's TTL with the lease that goes into it.
LEMMA GrantKeys ==
  ASSUME TypeOK, KeyCovers, NEW r \in Runs, AcquireGrants(r)
  PROVE  KeyCovers'
  <1> USE RunsAssumption, LimitsAssumption
  <1>1. \A s \in globalSet' : leaseLeft'[s] <= globalKey'
    BY ScriptType DEF TypeOK, AcquireGrants, LiveGlobal
  <1>2. ASSUME NEW s \in userSet' PROVE leaseLeft'[s] <= userKey'[Owner[s]]
    <2>1. leaseLeft' = [leaseLeft EXCEPT ![r] = TTL]
          /\ userKey' = [userKey EXCEPT ![Owner[r]] = TTL]
          /\ (s = r \/ s \in userSet)
      BY DEF AcquireGrants, PrunedUserSet
    <2>2. CASE Owner[s] = Owner[r]
      BY <2>1, <2>2 DEF TypeOK
    <2>3. CASE Owner[s] # Owner[r]
      BY <2>1, <2>3 DEF TypeOK, KeyCovers
    <2>4. QED
      BY <2>2, <2>3
  <1>3. QED
    BY <1>1, <1>2 DEF KeyCovers

LEMMA RefuseKeys ==
  ASSUME TypeOK, KeyCovers, NEW r \in Runs, AcquireRefuses(r)
  PROVE  KeyCovers'
  <1> USE RunsAssumption, LimitsAssumption
  <1>1. \A s \in globalSet' : leaseLeft'[s] <= globalKey'
    BY DEF TypeOK, AcquireRefuses, LiveGlobal, KeyCovers, KeyOf
  <1>2. ASSUME NEW s \in userSet' PROVE leaseLeft'[s] <= userKey'[Owner[s]]
    <2>1. CASE Owner[s] = Owner[r]
      <3>1. s \in LiveUser(Owner[r])
        BY <1>2, <2>1 DEF AcquireRefuses, PrunedUserSet, LiveUser, OwnedBy
      <3>2. userKey'[Owner[s]] = userKey[Owner[s]]
        BY <2>1, <3>1 DEF TypeOK, AcquireRefuses, KeyOf
      <3>3. QED
        BY <3>2, <1>2 DEF TypeOK, AcquireRefuses, PrunedUserSet, KeyCovers
    <2>2. CASE Owner[s] # Owner[r]
      BY <1>2, <2>2 DEF TypeOK, AcquireRefuses, PrunedUserSet, KeyCovers
    <2>3. QED
      BY <2>1, <2>2
  <1>3. QED
    BY <1>1, <1>2 DEF KeyCovers

LEMMA ReleaseKeys ==
  ASSUME TypeOK, KeyCovers, NEW r \in Runs, ReleaseScript(r)
  PROVE  KeyCovers'
  <1> USE RunsAssumption, LimitsAssumption
  <1>1. \A s \in globalSet' : leaseLeft'[s] <= globalKey'
    BY DEF TypeOK, ReleaseScript, KeyCovers, KeyOf
  <1>2. ASSUME NEW s \in userSet' PROVE leaseLeft'[s] <= userKey'[Owner[s]]
    <2>0. s \in userSet /\ s # r /\ s \in Runs /\ leaseLeft'[s] = leaseLeft[s]
      BY <1>2 DEF TypeOK, ReleaseScript
    <2>1. CASE Owner[s] = Owner[r]
      <3>1. s \in OwnedBy(userSet, Owner[r]) \ {r}
        BY <2>0, <2>1 DEF OwnedBy
      <3>2. userKey'[Owner[s]] = userKey[Owner[s]]
        BY <2>1, <3>1 DEF TypeOK, ReleaseScript, KeyOf
      <3>3. QED
        BY <3>2, <2>0 DEF KeyCovers
    <2>2. CASE Owner[s] # Owner[r]
      BY <2>0, <2>2 DEF TypeOK, ReleaseScript, KeyCovers
    <2>3. QED
      BY <2>1, <2>2
  <1>3. QED
    BY <1>1, <1>2 DEF KeyCovers

LEMMA GrantLease ==
  ASSUME TypeOK, LeaseInv, NEW r \in Runs, AcquireGrants(r)
  PROVE  /\ r \in globalSet' /\ r \in userSet' /\ leaseLeft'[r] = TTL
         /\ \A s \in ActiveRuns \ {r} :
               s \in globalSet' /\ s \in userSet' /\ leaseLeft'[s] = leaseLeft[s]
         /\ KeyCovers'
  <1> USE RunsAssumption, LimitsAssumption
  <1>1. /\ r \in globalSet' /\ r \in userSet' /\ leaseLeft'[r] = TTL
        /\ \A s \in Runs \ {r} : leaseLeft'[s] = leaseLeft[s]
    BY DEF TypeOK, AcquireGrants
  <1>2. \A s \in ActiveRuns \ {r} : s \in globalSet' /\ s \in userSet'
    BY DEF TypeOK, AcquireGrants, LeaseInv, HeldLeaseCounts, ActiveRuns,
           LiveGlobal, PrunedUserSet, Due
  <1>3. KeyCovers'
    BY GrantKeys DEF LeaseInv
  <1>4. QED
    BY <1>1, <1>2, <1>3 DEF ActiveRuns

LEMMA RefuseLease ==
  ASSUME TypeOK, LeaseInv, NEW r \in Runs, AcquireRefuses(r)
  PROVE  /\ \A s \in ActiveRuns :
               s \in globalSet' /\ s \in userSet' /\ leaseLeft'[s] = leaseLeft[s]
         /\ KeyCovers'
  <1> USE RunsAssumption, LimitsAssumption
  <1>1. \A s \in ActiveRuns : s \in globalSet' /\ s \in userSet'
    BY DEF TypeOK, AcquireRefuses, LeaseInv, HeldLeaseCounts, ActiveRuns,
           LiveGlobal, PrunedUserSet, Due
  <1>2. KeyCovers'
    BY RefuseKeys DEF LeaseInv
  <1>3. QED
    BY <1>1, <1>2 DEF AcquireRefuses

LEMMA ReleaseLease ==
  ASSUME TypeOK, LeaseInv, NEW r \in Runs, pc[r] = "releasing", ReleaseScript(r)
  PROVE  /\ \A s \in ActiveRuns :
               s \in globalSet' /\ s \in userSet' /\ leaseLeft'[s] = leaseLeft[s]
         /\ KeyCovers'
  <1> USE RunsAssumption, LimitsAssumption
  <1>1. r \notin ActiveRuns
    BY DEF ActiveRuns, Working
  <1>2. \A s \in ActiveRuns :
           s \in globalSet' /\ s \in userSet' /\ leaseLeft'[s] = leaseLeft[s]
    BY <1>1 DEF TypeOK, ReleaseScript, LeaseInv, HeldLeaseCounts, ActiveRuns, LiveGlobal
  <1>3. KeyCovers'
    BY ReleaseKeys DEF LeaseInv
  <1>4. QED
    BY <1>2, <1>3

\* A step that ends r, or only touches Redis, keeps what holds of the others.
LEMMA OthersKeep ==
  ASSUME TypeOK, LeaseInv, TypeOK', KeyCovers',
         \A s \in Runs : pc'[s] \in Working \cup {"polling"} =>
             /\ pc'[s] = pc[s]
             /\ runLeft'[s] = runLeft[s],
         \A s \in ActiveRuns : pc'[s] \in Working =>
             /\ s \in globalSet' /\ s \in userSet'
             /\ leaseLeft'[s] = leaseLeft[s]
  PROVE  LeaseInv'
  <1>1. HeldLeaseCounts'
    BY DEF LeaseInv, HeldLeaseCounts, ActiveRuns, LiveGlobal, Due, TypeOK
  <1>2. DeadlineFits'
    BY DEF LeaseInv, DeadlineFits, ActiveRuns, Working, TypeOK
  <1>3. QED
    BY <1>1, <1>2 DEF LeaseInv

LEMMA EndsOthers ==
  ASSUME TypeOK, NEW r \in Runs, Ends(r)
  PROVE  \A s \in Runs : pc'[s] \in Working \cup {"polling"} =>
             /\ s # r
             /\ pc'[s] = pc[s]
             /\ runLeft'[s] = runLeft[s]
  BY DEF TypeOK, Ends, Working

LEMMA RedisUnchanged ==
  ASSUME LeaseInv, TypeOK, UNCHANGED redis
  PROVE  /\ KeyCovers'
         /\ \A s \in ActiveRuns :
               s \in globalSet' /\ s \in userSet' /\ leaseLeft'[s] = leaseLeft[s]
  BY DEF redis, LeaseInv, KeyCovers, HeldLeaseCounts, LiveGlobal

LEMMA TickKeys ==
  ASSUME TypeOK, KeyCovers, Tick
  PROVE  KeyCovers'
  <1> USE RunsAssumption, LimitsAssumption
  <1>1. \A s \in globalSet' : leaseLeft'[s] <= globalKey'
    BY DEF Tick, TypeOK, KeyCovers, Pred
  <1>2. ASSUME NEW s \in userSet' PROVE leaseLeft'[s] <= userKey'[Owner[s]]
    <2>1. s \in userSet /\ s \in Runs /\ Owner[s] \in Users
      BY <1>2 DEF Tick, TypeOK
    <2>2. leaseLeft'[s] = Pred(leaseLeft[s]) /\ userKey'[Owner[s]] = Pred(userKey[Owner[s]])
      BY <2>1 DEF Tick
    <2>3. leaseLeft[s] <= userKey[Owner[s]] /\ leaseLeft[s] \in Nat /\ userKey[Owner[s]] \in Nat
      BY <2>1 DEF KeyCovers, TypeOK
    <2>4. QED
      BY <2>2, <2>3 DEF Pred
  <1>3. QED
    BY <1>1, <1>2 DEF KeyCovers

LEMMA TickLease ==
  ASSUME TypeOK, LeaseInv, SyncRuns = {}, Tick
  PROVE  LeaseInv'
  <1> USE RunsAssumption, LimitsAssumption
  <1>1. \A s \in ActiveRuns : runLeft[s] > 0 /\ leaseLeft[s] >= 2
    BY DEF TypeOK, Tick, Overdue, ActiveRuns, Working, LeaseInv, DeadlineFits
  <1>2. ActiveRuns' = ActiveRuns
    BY DEF Tick, ActiveRuns
  <1>3. \A s \in ActiveRuns : s \in globalSet' /\ s \in userSet'
    <2> SUFFICES ASSUME NEW s \in ActiveRuns PROVE s \in globalSet' /\ s \in userSet'
      OBVIOUS
    <2>1. s \in globalSet /\ s \in userSet /\ s \in Runs
      BY DEF LeaseInv, HeldLeaseCounts, LiveGlobal, ActiveRuns
    <2>2. globalKey # 1 /\ userKey[Owner[s]] # 1
      BY <1>1, <2>1 DEF LeaseInv, KeyCovers, TypeOK
    <2>3. QED
      BY <2>1, <2>2 DEF Tick
  <1>4. HeldLeaseCounts'
    BY <1>1, <1>2, <1>3 DEF HeldLeaseCounts, LiveGlobal, Due, Tick, Pred, TypeOK, ActiveRuns
  <1>5. DeadlineFits'
    <2> SUFFICES ASSUME NEW s \in Runs
                 PROVE /\ pc[s] = "polling" => runLeft'[s] <= RunTimeout
                       /\ pc[s] = "executing" => leaseLeft'[s] > runLeft'[s] + CleanupGrace
                       /\ pc[s] = "cleanup" => leaseLeft'[s] > runLeft'[s]
      BY DEF DeadlineFits, Tick
    <2>1. leaseLeft'[s] = Pred(leaseLeft[s]) /\ runLeft'[s] = Pred(runLeft[s])
      BY DEF Tick
    <2>2. pc[s] \in Working => runLeft[s] > 0
      BY <1>1 DEF ActiveRuns
    <2>3. leaseLeft[s] \in Nat /\ runLeft[s] \in Nat
      BY DEF TypeOK
    <2>4. QED
      BY <2>1, <2>2, <2>3 DEF Pred, Working, LeaseInv, DeadlineFits
  <1>6. KeyCovers'
    BY TickKeys DEF LeaseInv
  <1>7. QED
    BY <1>4, <1>5, <1>6 DEF LeaseInv

LEMMA NextLease ==
  ASSUME TypeOK, LeaseInv, SyncRuns = {}, [Next]_vars
  PROVE  LeaseInv'
  <1> USE RunsAssumption, LimitsAssumption
  <1>0. TypeOK'
    BY NextType
  <1>1. CASE Tick
    BY <1>1, TickLease
  <1>2. ASSUME NEW r \in Runs, RunStep(r) PROVE LeaseInv'
    <2>1. CASE Begin(r)
      <3>1. UNCHANGED redis /\ KeyCovers'
        BY <2>1, RedisUnchanged DEF Begin
      <3>2. ActiveRuns' = ActiveRuns
        BY <2>1 DEF Begin, ActiveRuns, Working, TypeOK
      <3>3. HeldLeaseCounts'
        BY <3>1, <3>2 DEF redis, LeaseInv, HeldLeaseCounts, LiveGlobal, Due
      <3>4. DeadlineFits'
        BY <2>1, <3>1 DEF Begin, redis, TypeOK, LeaseInv, DeadlineFits
      <3>5. QED
        BY <3>1, <3>3, <3>4 DEF LeaseInv
    <2>2. CASE PollGranted(r)
      <3>1. AcquireGrants(r) /\ pc' = [pc EXCEPT ![r] = "executing"] /\ runLeft' = runLeft
        BY <2>2 DEF PollGranted
      <3>2. ActiveRuns' = ActiveRuns \cup {r}
        BY <3>1 DEF ActiveRuns, Working, TypeOK
      <3>3. HeldLeaseCounts'
        BY <3>1, <3>2, GrantLease
           DEF LeaseInv, HeldLeaseCounts, LiveGlobal, Due, ActiveRuns, TypeOK
      <3>4. DeadlineFits'
        BY <2>2, <3>1, GrantLease
           DEF PollGranted, TypeOK, LeaseInv, DeadlineFits, ActiveRuns, Working
      <3>5. QED
        BY <3>1, <3>3, <3>4, GrantLease DEF LeaseInv
    <2>3. CASE PollBusy(r)
      <3>1. CASE UNCHANGED <<pc, waitLeft, runLeft, depth>>
        BY <2>3, <3>1, <1>0, RefuseLease, OthersKeep DEF PollBusy
      <3>2. CASE Ends(r)
        BY <2>3, <3>2, <1>0, RefuseLease, EndsOthers, OthersKeep DEF PollBusy
      <3>3. QED
        BY <2>3, <3>1, <3>2 DEF PollBusy
    <2>4. CASE PollReplyLost(r)
      <3>1. CASE AcquireGrants(r)
        BY <2>4, <3>1, <1>0, GrantLease, EndsOthers, OthersKeep DEF PollReplyLost
      <3>2. CASE AcquireRefuses(r)
        BY <2>4, <3>2, <1>0, RefuseLease, EndsOthers, OthersKeep DEF PollReplyLost
      <3>3. QED
        BY <2>4, <3>1, <3>2 DEF PollReplyLost
    <2>5. CASE PollUnavailable(r)
      BY <2>5, <1>0, RedisUnchanged, EndsOthers, OthersKeep DEF PollUnavailable
    <2>6. CASE EnterNested(r)
      BY <2>6, <1>0, RedisUnchanged, OthersKeep DEF EnterNested
    <2>7. CASE ExitNested(r)
      BY <2>7, <1>0, RedisUnchanged, OthersKeep DEF ExitNested
    <2>8. CASE Interrupt(r)
      <3>1. UNCHANGED redis /\ KeyCovers'
        BY <2>8, RedisUnchanged DEF Interrupt
      <3>2. ActiveRuns' = ActiveRuns
        BY <2>8 DEF Interrupt, ActiveRuns, Working, TypeOK
      <3>3. HeldLeaseCounts'
        BY <3>1, <3>2 DEF redis, LeaseInv, HeldLeaseCounts, LiveGlobal, Due
      <3>4. DeadlineFits'
        BY <2>8, <3>1 DEF Interrupt, redis, TypeOK, LeaseInv, DeadlineFits
      <3>5. QED
        BY <3>1, <3>3, <3>4 DEF LeaseInv
    <2>9. CASE Finish(r)
      <3>1. UNCHANGED redis
        BY <2>9 DEF Finish
      <3>2. \A s \in Runs : pc'[s] \in Working \cup {"polling"} =>
                /\ pc'[s] = pc[s]
                /\ runLeft'[s] = runLeft[s]
        BY <2>9 DEF Finish, TypeOK, Working
      <3>3. QED
        BY <1>0, <3>1, <3>2, RedisUnchanged, OthersKeep
    <2>10. CASE Release(r)
      BY <2>10, <1>0, ReleaseLease, EndsOthers, OthersKeep DEF Release
    <2>11. CASE ReleaseDeferred(r)
      BY <2>11, <1>0, RedisUnchanged, EndsOthers, OthersKeep DEF ReleaseDeferred
    <2>12. CASE Crash(r)
      BY <2>12, <1>0, RedisUnchanged, EndsOthers, OthersKeep DEF Crash
    <2>13. QED
      BY <1>2, <2>1, <2>2, <2>3, <2>4, <2>5, <2>6, <2>7, <2>8, <2>9,
         <2>10, <2>11, <2>12 DEF RunStep, Poll
  <1>3. CASE UNCHANGED vars
    BY <1>3, <1>0, RedisUnchanged, OthersKeep DEF vars, redis
  <1>4. QED
    BY <1>1, <1>2, <1>3 DEF Next

\* While no run uses the sync stream and Redis keeps its data, a run at work
\* always has a live lease that outlasts its deadline and its unwinding.
THEOREM LeaseInvariant ==
  ASSUME SyncRuns = {}
  PROVE  Spec => []LeaseInv
  <1>1. TypeOK /\ LeaseInv /\ [Next]_vars => LeaseInv'
    BY NextLease
  <1>2. QED
    BY <1>1, InitLease, TypeCorrect, PTL DEF Spec
-----------------------------------------------------------------------------
(* Runs at work come and go as the abstract admission control allows.       *)

LEMMA ActiveFinite ==
  ASSUME NEW S \in SUBSET Runs
  PROVE  /\ IsFiniteSet(S)
         /\ Cardinality(S) \in Nat
         /\ \A T \in SUBSET S : IsFiniteSet(T) /\ Cardinality(T) <= Cardinality(S)
  BY RunsAssumption, FS_Subset, FS_CardinalityType

LEMMA AddOne ==
  ASSUME NEW S \in SUBSET Runs, NEW r, r \notin S, NEW n \in Nat, Cardinality(S) < n
  PROVE  Cardinality(S \cup {r}) <= n
  BY ActiveFinite, FS_AddElement

\* What a granted poll finds: fewer runs at work than either limit.
LEMMA GrantHasRoom ==
  ASSUME TypeOK, LeaseInv, NEW r \in Runs, PollGranted(r)
  PROVE  /\ r \notin ActiveRuns
         /\ Cardinality(ActiveRuns) < GlobalLimit
         /\ Cardinality(OwnedBy(ActiveRuns, Owner[r])) < UserLimit
         /\ ActiveRuns' = ActiveRuns \cup {r}
  <1> USE RunsAssumption, LimitsAssumption
  <1>1. r \notin ActiveRuns /\ ActiveRuns' = ActiveRuns \cup {r}
    BY DEF PollGranted, ActiveRuns, Working, TypeOK
  <1>2. HasRoom(Owner[r])
    BY DEF PollGranted, AcquireGrants
  <1>3. ActiveRuns \in SUBSET LiveGlobal /\ LiveGlobal \in SUBSET Runs
    BY DEF LeaseInv, HeldLeaseCounts, LiveGlobal, TypeOK
  <1>4. /\ OwnedBy(ActiveRuns, Owner[r]) \in SUBSET LiveUser(Owner[r])
        /\ LiveUser(Owner[r]) \in SUBSET Runs
    BY DEF LeaseInv, HeldLeaseCounts, LiveGlobal, LiveUser, OwnedBy, TypeOK
  <1>5. Cardinality(ActiveRuns) <= Cardinality(LiveGlobal)
    BY <1>3, ActiveFinite
  <1>6. Cardinality(OwnedBy(ActiveRuns, Owner[r])) <= Cardinality(LiveUser(Owner[r]))
    BY <1>4, ActiveFinite
  <1>7. /\ Cardinality(ActiveRuns) \in Nat /\ Cardinality(LiveGlobal) \in Nat
        /\ Cardinality(OwnedBy(ActiveRuns, Owner[r])) \in Nat
        /\ Cardinality(LiveUser(Owner[r])) \in Nat
    BY <1>3, <1>4, ActiveFinite DEF ActiveRuns, OwnedBy
  <1>8. QED
    BY <1>1, <1>2, <1>5, <1>6, <1>7 DEF HasRoom

\* Every other step leaves the runs at work alone or takes one away.
LEMMA OtherSteps ==
  ASSUME TypeOK, [Next]_vars
  PROVE  \/ \E r \in Runs : PollGranted(r)
         \/ ActiveRuns' = ActiveRuns
         \/ \E r \in ActiveRuns : ActiveRuns' = ActiveRuns \ {r}
  <1> USE DEF ActiveRuns, Working
  <1>1. CASE Tick \/ UNCHANGED vars
    BY <1>1 DEF Tick, vars
  <1>2. ASSUME NEW r \in Runs, RunStep(r), ~PollGranted(r)
        PROVE  \/ ActiveRuns' = ActiveRuns
               \/ r \in ActiveRuns /\ ActiveRuns' = ActiveRuns \ {r}
    <2>1. CASE pc' = pc
      BY <2>1
    <2>2. CASE Begin(r) \/ Interrupt(r)
      BY <2>2 DEF TypeOK, Begin, Interrupt
    <2>3. CASE Finish(r) \/ Ends(r)
      BY <2>3 DEF TypeOK, Finish, Ends
    <2>4. QED
      BY <1>2, <2>1, <2>2, <2>3 DEF RunStep, Poll, PollBusy, PollReplyLost,
         PollUnavailable, EnterNested, ExitNested, Release, ReleaseDeferred, Crash
  <1>3. QED
    BY <1>1, <1>2 DEF Next

\* The instance counts as this module does.
LEMMA SameCardinality == \A S : Admission!Cardinality(S) = Cardinality(S)
  BY Zenon DEF Admission!Cardinality, Cardinality

LEMMA AdmissionStep ==
  ASSUME TypeOK, LeaseInv, [Next]_vars
  PROVE  [Admission!Next]_ActiveRuns
  <1>1. ASSUME NEW r \in Runs, PollGranted(r)
        PROVE  Admission!Admit(r)
    BY <1>1, GrantHasRoom, SameCardinality DEF Admission!Admit, Admission!OwnedBy, OwnedBy
  <1>2. ASSUME NEW r \in ActiveRuns, ActiveRuns' = ActiveRuns \ {r}
        PROVE  r \in Runs /\ Admission!Leave(r)
    BY <1>2 DEF Admission!Leave, ActiveRuns
  <1>3. QED
    BY <1>1, <1>2, OtherSteps DEF Admission!Next

\* The leases implement the abstract admission control: every behaviour of
\* the detailed specification, seen through the runs at work, is one of
\* AdmissionControl.
THEOREM ImplementsAdmission ==
  ASSUME SyncRuns = {}
  PROVE  Spec => Admitted
  <1>1. Init => Admission!Init
    BY DEF Init, Admission!Init, ActiveRuns, Working
  <1>2. TypeOK /\ LeaseInv /\ [Next]_vars => [Admission!Next]_ActiveRuns
    BY AdmissionStep
  <1>3. QED
    BY <1>1, <1>2, TypeCorrect, LeaseInvariant, PTL
       DEF Spec, Admitted, Admission!Spec

\* No more runs are at work than the global limit, and no more of one user
\* than the user limit, in any number of runs and for any limits, timeouts
\* and TTL that satisfy the relations config.py enforces.
THEOREM BoundedConcurrency ==
  ASSUME SyncRuns = {}
  PROVE  Spec => []ConcurrencyBound
  <1> USE RunsAssumption, LimitsAssumption
  <1>1. Init => ConcurrencyBound
    <2> SUFFICES ASSUME Init PROVE ConcurrencyBound
      OBVIOUS
    <2>1. ActiveRuns = {} /\ \A u \in Users : OwnedBy(ActiveRuns, u) = {}
      BY DEF Init, ActiveRuns, Working, OwnedBy
    <2>2. QED
      BY <2>1, FS_EmptySet DEF ConcurrencyBound
  <1>2. TypeOK /\ LeaseInv /\ ConcurrencyBound /\ [Next]_vars => ConcurrencyBound'
    <2> SUFFICES ASSUME TypeOK, LeaseInv, ConcurrencyBound, [Next]_vars
                 PROVE  ConcurrencyBound'
      OBVIOUS
    <2>1. ASSUME NEW r \in Runs, PollGranted(r) PROVE ConcurrencyBound'
      <3>1. /\ r \notin ActiveRuns /\ ActiveRuns' = ActiveRuns \cup {r}
            /\ Cardinality(ActiveRuns) < GlobalLimit /\ Cardinality(OwnedBy(ActiveRuns, Owner[r])) < UserLimit
        BY <2>1, GrantHasRoom
      <3>2. ActiveRuns \in SUBSET Runs /\ OwnedBy(ActiveRuns, Owner[r]) \in SUBSET Runs
        BY DEF ActiveRuns, OwnedBy
      <3>3. Cardinality(ActiveRuns') <= GlobalLimit
        BY <3>1, <3>2, AddOne
      <3>4. ASSUME NEW u \in Users
            PROVE Cardinality(OwnedBy(ActiveRuns', u)) <= UserLimit
        <4>1. CASE u = Owner[r]
          <5>1. /\ OwnedBy(ActiveRuns', u) = OwnedBy(ActiveRuns, Owner[r]) \cup {r}
                /\ r \notin OwnedBy(ActiveRuns, Owner[r])
            BY <3>1, <4>1 DEF OwnedBy
          <5>2. UserLimit \in Nat
            OBVIOUS
          <5>3. Cardinality(OwnedBy(ActiveRuns, Owner[r]) \cup {r}) <= UserLimit
            BY <3>1, <3>2, <5>1, <5>2, AddOne
          <5>4. QED
            BY <5>1, <5>3
        <4>2. CASE u # Owner[r]
          <5>1. OwnedBy(ActiveRuns', u) = OwnedBy(ActiveRuns, u)
            BY <3>1, <4>2 DEF OwnedBy
          <5>2. QED
            BY <5>1 DEF ConcurrencyBound
        <4>3. QED
          BY <4>1, <4>2
      <3>5. QED
        BY <3>3, <3>4 DEF ConcurrencyBound, OwnedBy
    <2>2. ASSUME ActiveRuns' \in SUBSET ActiveRuns PROVE ConcurrencyBound'
      <3>1. ActiveRuns \in SUBSET Runs /\ ActiveRuns' \in SUBSET Runs
        BY <2>2 DEF ActiveRuns
      <3>2. Cardinality(ActiveRuns') <= GlobalLimit
        BY <2>2, <3>1, ActiveFinite DEF ConcurrencyBound
      <3>3. ASSUME NEW u \in Users
            PROVE Cardinality(OwnedBy(ActiveRuns', u)) <= UserLimit
        <4>1. /\ OwnedBy(ActiveRuns, u) \in SUBSET Runs
              /\ OwnedBy(ActiveRuns', u) \in SUBSET OwnedBy(ActiveRuns, u)
          BY <2>2, <3>1 DEF OwnedBy
        <4>2. /\ Cardinality(OwnedBy(ActiveRuns', u)) <= Cardinality(OwnedBy(ActiveRuns, u))
              /\ Cardinality(OwnedBy(ActiveRuns', u)) \in Nat
              /\ Cardinality(OwnedBy(ActiveRuns, u)) \in Nat
          BY <4>1, ActiveFinite
        <4>3. Cardinality(OwnedBy(ActiveRuns, u)) <= UserLimit
          BY DEF ConcurrencyBound
        <4>4. QED
          BY <4>2, <4>3
      <3>4. QED
        BY <3>2, <3>3 DEF ConcurrencyBound, OwnedBy
    <2>3. QED
      BY <2>1, <2>2, OtherSteps
  <1>3. QED
    BY <1>1, <1>2, TypeCorrect, LeaseInvariant, PTL DEF Spec
-----------------------------------------------------------------------------
(* What Redis counts, with sync runs and with its data lost at any time.    *)

\* KeyCovers is what makes the two sets lose a lease together: a key that goes on
\* its own takes only leases that are due.
RegisterInv == TypeOK /\ KeyCovers /\ RegisteredTogether

LEMMA LiveFinite ==
  ASSUME TypeOK
  PROVE  /\ LiveGlobal \in SUBSET Runs /\ Cardinality(LiveGlobal) \in Nat
         /\ \A u \in Users : LiveUser(u) \in SUBSET Runs /\ Cardinality(LiveUser(u)) \in Nat
  <1>1. LiveGlobal \in SUBSET Runs /\ \A u \in Users : LiveUser(u) \in SUBSET Runs
    BY DEF TypeOK, LiveGlobal, LiveUser, OwnedBy
  <1>2. QED
    BY <1>1, ActiveFinite

\* A lease that counts after the step counted before it and is in the same sets.
LEMMA FewerLeases ==
  ASSUME TypeOK, RegisteredTogether, TypeOK',
         \A s \in Runs : leaseLeft'[s] # 0 =>
             /\ leaseLeft[s] # 0
             /\ s \in globalSet' <=> s \in globalSet
             /\ s \in userSet' <=> s \in userSet
  PROVE  RegisteredTogether'
  <1> USE RunsAssumption, LimitsAssumption
  <1>1. LiveGlobal' \subseteq LiveGlobal /\ \A u \in Users : LiveUser(u)' \subseteq LiveUser(u)
    BY DEF TypeOK, LiveGlobal, LiveUser, OwnedBy, Due
  <1>2. Cardinality(LiveGlobal') <= Cardinality(LiveGlobal) /\ Cardinality(LiveGlobal') \in Nat
    BY <1>1, LiveFinite, ActiveFinite
  <1>3. Cardinality(LiveGlobal') <= GlobalLimit
    BY <1>2, LiveFinite DEF RegisteredTogether, RegisteredBound
  <1>4. ASSUME NEW u \in Users PROVE Cardinality(LiveUser(u)') <= UserLimit
    <2>1. Cardinality(LiveUser(u)') <= Cardinality(LiveUser(u)) /\ Cardinality(LiveUser(u)') \in Nat
      BY <1>1, LiveFinite, ActiveFinite
    <2>2. QED
      BY <2>1, LiveFinite DEF RegisteredTogether, RegisteredBound
  <1>5. SetsAgree'
    BY DEF RegisteredTogether, SetsAgree, Due
  <1>6. QED
    BY <1>3, <1>4, <1>5 DEF RegisteredTogether, RegisteredBound

LEMMA GrantRegisters ==
  ASSUME TypeOK, RegisteredTogether, NEW r \in Runs, AcquireGrants(r)
  PROVE  RegisteredTogether'
  <1> USE RunsAssumption, LimitsAssumption
  <1>1. /\ leaseLeft'[r] = TTL /\ TTL # 0
        /\ \A s \in Runs \ {r} : leaseLeft'[s] = leaseLeft[s]
        /\ globalSet' = LiveGlobal \cup {r}
        /\ userSet' = PrunedUserSet(Owner[r]) \cup {r}
    BY DEF AcquireGrants, TypeOK
  <1>2. /\ Cardinality(LiveGlobal) < GlobalLimit
        /\ Cardinality(LiveUser(Owner[r])) < UserLimit
        /\ Owner[r] \in Users
    BY DEF AcquireGrants, HasRoom
  <1>3. /\ Cardinality(LiveGlobal \cup {r}) <= GlobalLimit
        /\ Cardinality(LiveUser(Owner[r]) \cup {r}) <= UserLimit
    <2>1. ASSUME NEW S \in SUBSET Runs, NEW n \in Nat, Cardinality(S) < n
          PROVE  Cardinality(S \cup {r}) <= n
      BY <2>1, ActiveFinite, FS_AddElement
    <2>2. QED
      BY <2>1, <1>2, LiveFinite
  <1>4. LiveGlobal' = LiveGlobal \cup {r}
    BY <1>1 DEF LiveGlobal, Due, TypeOK
  <1>5. ASSUME NEW u \in Users PROVE Cardinality(LiveUser(u)') <= UserLimit
    <2>1. CASE u = Owner[r]
      <3>1. LiveUser(u)' = LiveUser(Owner[r]) \cup {r}
        BY <1>1, <2>1 DEF LiveUser, OwnedBy, PrunedUserSet, Due, TypeOK
      <3>2. QED
        BY <3>1, <1>3
    <2>2. CASE u # Owner[r]
      <3>1. LiveUser(u)' = LiveUser(u)
        BY <1>1, <2>2 DEF LiveUser, OwnedBy, PrunedUserSet, Due, TypeOK
      <3>2. QED
        BY <3>1 DEF RegisteredTogether, RegisteredBound
    <2>3. QED
      BY <2>1, <2>2
  <1>6. SetsAgree'
    BY <1>1 DEF RegisteredTogether, SetsAgree, Due, LiveGlobal, PrunedUserSet, TypeOK
  <1>7. QED
    BY <1>3, <1>4, <1>5, <1>6 DEF RegisteredTogether, RegisteredBound

LEMMA RegisterInvInit == Init => RegisterInv
  <1> SUFFICES ASSUME Init PROVE RegisterInv
    OBVIOUS
  <1>1. LiveGlobal = {} /\ \A u \in Users : LiveUser(u) = {}
    BY DEF Init, LiveGlobal, LiveUser, OwnedBy
  <1>2. RegisteredBound
    BY <1>1, FS_EmptySet, LimitsAssumption DEF RegisteredBound
  <1>3. KeyCovers /\ SetsAgree
    BY DEF Init, KeyCovers, SetsAgree
  <1>4. QED
    BY <1>2, <1>3, InitType DEF RegisterInv, RegisteredTogether

LEMMA ScriptRegisters ==
  ASSUME RegisterInv, TypeOK', NEW r \in Runs,
         AcquireGrants(r) \/ AcquireRefuses(r) \/ ReleaseScript(r)
  PROVE  RegisterInv'
  <1>1. CASE AcquireGrants(r)
    BY <1>1, GrantKeys, GrantRegisters DEF RegisterInv
  <1>2. CASE AcquireRefuses(r)
    BY <1>2, RefuseKeys, FewerLeases
       DEF RegisterInv, AcquireRefuses, LiveGlobal, PrunedUserSet, Due
  <1>3. CASE ReleaseScript(r)
    BY <1>3, ReleaseKeys, FewerLeases DEF RegisterInv, ReleaseScript, TypeOK
  <1>4. QED
    BY <1>1, <1>2, <1>3

LEMMA TickRegisters ==
  ASSUME RegisterInv, TypeOK', Tick
  PROVE  RegisterInv'
  <1> USE RunsAssumption, LimitsAssumption
  <1>1. ASSUME NEW s \in Runs, leaseLeft'[s] # 0
        PROVE  /\ leaseLeft[s] # 0
               /\ s \in globalSet' <=> s \in globalSet
               /\ s \in userSet' <=> s \in userSet
    <2>1. leaseLeft'[s] = Pred(leaseLeft[s]) /\ leaseLeft[s] \in Nat
      BY DEF Tick, RegisterInv, TypeOK
    <2>2. leaseLeft[s] >= 2
      BY <1>1, <2>1 DEF Pred
    <2>3. s \in globalSet => globalKey # 1
      BY <2>2 DEF RegisterInv, KeyCovers, TypeOK
    <2>4. s \in userSet => userKey[Owner[s]] # 1
      BY <2>2 DEF RegisterInv, KeyCovers, TypeOK
    <2>5. QED
      BY <2>2, <2>3, <2>4 DEF Tick
  <1>2. QED
    BY <1>1, TickKeys, FewerLeases DEF RegisterInv

LEMMA RegisterInvNext == RegisterInv /\ [Next \/ Flush]_vars => RegisterInv'
  <1> SUFFICES ASSUME RegisterInv, [Next \/ Flush]_vars PROVE RegisterInv'
    OBVIOUS
  <1>1. CASE Flush
    <2>1. TypeOK'
      BY <1>1, LimitsAssumption DEF Flush, RegisterInv, TypeOK
    <2>2. QED
      BY <1>1, <2>1, FewerLeases DEF Flush, RegisterInv, KeyCovers
  <1>2. CASE [Next]_vars
    <2>1. TypeOK'
      BY <1>2, NextType DEF RegisterInv
    <2>2. CASE Tick
      BY <2>1, <2>2, TickRegisters
    <2>3. CASE UNCHANGED redis
      BY <2>1, <2>3 DEF redis, RegisterInv, KeyCovers, RegisteredTogether, RegisteredBound,
         SetsAgree, LiveGlobal, LiveUser, OwnedBy, Due
    <2>4. ASSUME NEW r \in Runs, RunStep(r), ~UNCHANGED redis
          PROVE  AcquireGrants(r) \/ AcquireRefuses(r) \/ ReleaseScript(r)
      BY <2>4 DEF RunStep, Begin, Poll, PollGranted, PollBusy, PollReplyLost, PollUnavailable,
         EnterNested, ExitNested, Interrupt, Finish, Release, ReleaseDeferred, Crash
    <2>5. QED
      BY <1>2, <2>1, <2>2, <2>3, <2>4, ScriptRegisters DEF Next, vars, redis
  <1>3. QED
    BY <1>1, <1>2

\* Whatever is lost, flushed or left to expire, and with runs of the sync stream:
\* the leases Redis counts stay within both limits, and each of them is in both
\* sorted sets or in neither (agent_lease.py, the two scripts).
THEOREM LeasesStayTogether == FlushSpec => []RegisteredTogether
  <1>1. RegisterInv => RegisteredTogether
    BY DEF RegisterInv
  <1>2. QED
    BY RegisterInvInit, RegisterInvNext, <1>1, PTL DEF FlushSpec
-----------------------------------------------------------------------------
(* The limits a process starts with.                                        *)

\* Whatever the environment, a process that starts has the limits the leases,
\* the budget of a run, the recovery of Redis and uploads assume: a user's slots
\* are among all slots, a run waits less than it lasts and ends before its lease,
\* the first backoff is not above the last, and a file of the size allowed fits
\* into a request and into the quota of a user who has stored nothing.  No origin
\* it lets call with credentials is a wildcard.
THEOREM StartedIsConsistent ==
    ASSUME NEW env, Starts(env), NEW c, c = Settings(env)
    PROVE  /\ c.AGENT_GLOBAL_CONCURRENCY_LIMIT \in Nat \ {0}
           /\ c.AGENT_USER_CONCURRENCY_LIMIT \in 1..c.AGENT_GLOBAL_CONCURRENCY_LIMIT
           /\ c.AGENT_CONCURRENCY_WAIT_SECONDS \in 1..(c.AGENT_RUN_TIMEOUT_SECONDS - 1)
           /\ c.AGENT_RUN_TIMEOUT_SECONDS < c.AGENT_CONCURRENCY_LEASE_TTL_SECONDS
           /\ c.AGENT_MODEL_CALL_LIMIT \in Nat \ {0} /\ c.AGENT_TOOL_CALL_LIMIT \in Nat \ {0}
           /\ c.REDIS_RECOVERY_INITIAL_BACKOFF_SECONDS \in 1..c.REDIS_RECOVERY_MAX_BACKOFF_SECONDS
           /\ c.REDIS_RECOVERY_MAX_BACKOFF_SECONDS <= 30
           /\ c.REDIS_RECOVERY_JITTER_RATIO \in 1..100
           /\ c.FILE_UPLOAD_MAX_BYTES <= c.FILE_UPLOAD_REQUEST_MAX_BYTES
           /\ c.FILE_UPLOAD_MAX_BYTES <= c.FILE_USER_QUOTA_BYTES
           /\ "*" \notin Origins(env)
  <1>1. Accepted(c)
    BY DEF Starts
  <1>2. \A name \in Names : c[name] \in Int /\ c[name] > 0
    BY <1>1 DEF Accepted, Positive
  <1>3. /\ {"AGENT_GLOBAL_CONCURRENCY_LIMIT", "AGENT_USER_CONCURRENCY_LIMIT"} \subseteq Names
        /\ {"AGENT_CONCURRENCY_WAIT_SECONDS", "AGENT_RUN_TIMEOUT_SECONDS"} \subseteq Names
        /\ {"AGENT_CONCURRENCY_LEASE_TTL_SECONDS", "AGENT_MODEL_CALL_LIMIT",
            "AGENT_TOOL_CALL_LIMIT"} \subseteq Names
        /\ {"REDIS_RECOVERY_INITIAL_BACKOFF_SECONDS", "REDIS_RECOVERY_MAX_BACKOFF_SECONDS",
            "REDIS_RECOVERY_JITTER_RATIO"} \subseteq Names
        /\ {"FILE_UPLOAD_MAX_BYTES", "FILE_UPLOAD_BATCH_MAX_BYTES",
            "FILE_UPLOAD_REQUEST_MAX_BYTES", "FILE_USER_QUOTA_BYTES"} \subseteq Names
    BY DEF Names, Defaults
  <1>4. c.REDIS_RECOVERY_MAX_BACKOFF_SECONDS <= 30 /\ c.REDIS_RECOVERY_JITTER_RATIO <= 100
    BY <1>1 DEF Accepted, BelowCeilings, Ceiling
  <1>5. "*" \notin Origins(env)
    BY DEF Starts, OriginsAccepted
  <1>6. QED
    BY <1>1, <1>2, <1>3, <1>4, <1>5 DEF Accepted, FileRelations, RunRelations
=============================================================================
