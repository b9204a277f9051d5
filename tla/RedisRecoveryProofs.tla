-------------------------- MODULE RedisRecoveryProofs --------------------------
(***************************************************************************)
(* Proofs about RedisAccess.  First of threads, in RedisRecovery: the      *)
(* bounds of the delays, the type invariant, single flight, pacing, and    *)
(* that only real failures degrade; then of tasks, in AsyncRedisRecovery:  *)
(* its type invariant, the pacing of a queue, and who may take a client    *)
(* away; last of either class in its process.                              *)
(***************************************************************************)
EXTENDS RedisAccess, TLAPS

-----------------------------------------------------------------------------
(* The delays.                                                              *)

LEMMA PowerIsInt == ASSUME NEW k \in Nat PROVE 2^k \in Int
  OBVIOUS

LEMMA BaseIsInt == ASSUME NEW n \in 1..FailureCap PROVE Base(n) \in Int
  <1>1. Lesser(n - 1, 16) \in Nat
    BY RecoveryAssumption DEF Lesser
  <1>2. 2^Lesser(n - 1, 16) \in Int
    BY <1>1, PowerIsInt
  <1> DEFINE P == 2^Lesser(n - 1, 16)
  <1>3. P \in Int
    BY <1>2
  <1> HIDE DEF P
  <1>4. Initial * P \in Int
    BY <1>3, RecoveryAssumption
  <1>5. Lesser(Initial * P, Longest) \in Int
    BY <1>4, RecoveryAssumption DEF Lesser
  <1>6. QED
    BY <1>5 DEF Base, P

\* Whatever the jitter and the number of failures, a delay stays between the
\* initial and the longest backoff.
THEOREM DelayBounds == \A n \in 1..FailureCap : Delays(n) \subseteq Initial..Longest
  <1> SUFFICES ASSUME NEW n \in 1..FailureCap, NEW d \in Delays(n)
               PROVE  d \in Initial..Longest
    OBVIOUS
  <1>1. Base(n) \in Int
    BY BaseIsInt
  <1>2. PICK j \in -Spread(n)..Spread(n) :
              d = Lesser(Greater(Base(n) + j, Initial), Longest)
    BY DEF Delays
  <1>3. j \in Int
    BY <1>2
  <1>4. QED
    BY <1>1, <1>2, <1>3, RecoveryAssumption DEF Lesser, Greater
-----------------------------------------------------------------------------
(* Type correctness.                                                        *)

LEMMA FirstDelay == Delays(1) \subseteq Initial..Longest /\ 1 \in 0..FailureCap
  BY DelayBounds, RecoveryAssumption

\* The part of the type invariant RecordFailure decides.
StateType ==
    /\ available \in BOOLEAN
    /\ client \in Clients \cup {NoClient}
    /\ available <=> client # NoClient
    /\ failures \in 0..FailureCap
    /\ wait \in 0..Longest
    /\ sinceFailure \in 0..Longest

LEMMA Zero == 0 \in 0..Longest /\ 0 \in 0..FailureCap
  BY RecoveryAssumption

LEMMA RecoveryInitType == RecoveryInit => RecoveryTypeOK
  <1> SUFFICES ASSUME RecoveryInit PROVE RecoveryTypeOK
    OBVIOUS
  <1>1. StateType
    <2>1. CASE available = TRUE /\ client \in Clients /\ failures = 0 /\ wait = 0
      BY <2>1, Zero, RecoveryAssumption DEF RecoveryInit, StateType
    <2>2. CASE available = FALSE /\ client = NoClient /\ failures = 1 /\ wait \in Delays(1)
      <3>1. wait \in 0..Longest
        BY <2>2, FirstDelay, RecoveryAssumption
      <3>2. QED
        BY <2>2, <3>1, Zero, FirstDelay DEF RecoveryInit, StateType
    <2>3. QED
      BY <2>1, <2>2 DEF RecoveryInit
  <1>2. QED
    BY <1>1 DEF RecoveryInit, RecoveryTypeOK, StateType

LEMMA RecordType ==
  ASSUME failures \in 0..FailureCap, RecordFailure
  PROVE  /\ available' = FALSE /\ client' = NoClient /\ sinceFailure' = 0
         /\ failures' \in 0..FailureCap
         /\ wait' \in Initial..Longest
         /\ StateType'
  <1> DEFINE n == Lesser(failures + 1, FailureCap)
  <1>1. n \in 1..FailureCap
    BY RecoveryAssumption DEF Lesser
  <1>2. failures' = n /\ wait' \in Delays(n)
    BY DEF RecordFailure
  <1> HIDE DEF n
  <1>3. wait' \in Initial..Longest
    BY <1>1, <1>2, DelayBounds
  <1>4. wait' \in 0..Longest /\ failures' \in 0..FailureCap
    BY <1>1, <1>2, <1>3, RecoveryAssumption
  <1>5. QED
    BY <1>2, <1>3, <1>4, Zero DEF RecordFailure, StateType

LEMMA BecomesType ==
  ASSUME RecoveryTypeOK, NEW t \in Threads, NEW c \in Clients \cup {NoClient},
         NEW what \in {"idle", "probe", "pinged", "call", "failed"},
         Becomes(t, what, c)
  PROVE  /\ caller' \in [Threads -> {"idle", "probe", "pinged", "call", "failed"}]
         /\ handle' \in [Threads -> Clients \cup {NoClient}]
  BY DEF RecoveryTypeOK, Becomes

\* A thread that probes, has pinged or calls does it with a client.
Handled == \A t \in Threads : caller[t] # "idle" => handle[t] \in Clients

RInv == RecoveryTypeOK /\ Handled

LEMMA RInvInit == RecoveryInit => RInv
  BY RecoveryInitType DEF RInv, RecoveryInit, Handled

LEMMA RInvNext == RInv /\ [RecoveryNext]_recoveryVars => RInv'
  <1> SUFFICES ASSUME RInv, [RecoveryNext]_recoveryVars PROVE RInv'
    OBVIOUS
  <1> USE DEF RInv
  <1>1. ASSUME NEW t \in Threads, ThreadStep(t) PROVE RInv'
    <2>0. handle[t] \in Clients \cup {NoClient} /\ RecoveryTypeOK /\ Handled
      BY DEF RecoveryTypeOK
    <2>1. CASE UseClient(t)
      <3>1. client \in Clients
        BY <2>0, <2>1 DEF UseClient, RecoveryTypeOK
      <3>2. RecoveryTypeOK'
        BY <2>1, <3>1, BecomesType DEF UseClient, RecoveryTypeOK, state
      <3>3. Handled'
        BY <2>0, <2>1, <3>1 DEF UseClient, Becomes, Handled, RecoveryTypeOK
      <3>4. QED
        BY <3>2, <3>3
    <2>2. CASE BeginProbe(t)
      <3>1. PICK c \in Unreferenced : Becomes(t, "probe", c) /\ lost' = lost \ {c}
        BY <2>2 DEF BeginProbe
      <3>2. c \in Clients
        BY <3>1 DEF Unreferenced
      <3>3. RecoveryTypeOK'
        BY <2>2, <3>1, <3>2, BecomesType DEF BeginProbe, RecoveryTypeOK
      <3>4. Handled'
        BY <2>0, <3>1, <3>2 DEF Becomes, Handled, RecoveryTypeOK
      <3>5. QED
        BY <3>3, <3>4
    <2>3. CASE ProbeFails(t)
      <3>1. RecoveryTypeOK'
        BY <2>3, BecomesType, RecordType DEF ProbeFails, RecoveryTypeOK, StateType
      <3>2. Handled'
        BY <2>0, <2>3 DEF ProbeFails, Becomes, Handled, RecoveryTypeOK
      <3>3. QED
        BY <3>1, <3>2
    <2>4. CASE PingAnswered(t)
      <3>1. RecoveryTypeOK'
        BY <2>0, <2>4, BecomesType DEF PingAnswered, RecoveryTypeOK, state
      <3>2. Handled'
        BY <2>0, <2>4 DEF PingAnswered, Becomes, Handled, RecoveryTypeOK
      <3>3. QED
        BY <3>1, <3>2
    <2>5. CASE Publish(t)
      <3>0. handle[t] \in Clients
        BY <2>0, <2>5 DEF Publish, Handled
      <3>1. RecoveryTypeOK'
        <4>1. StateType'
          BY <2>0, <3>0, <2>5, Zero, RecoveryAssumption
          DEF Publish, RecoveryTypeOK, StateType
        <4>2. QED
          BY <4>1, <2>5, <3>0, BecomesType DEF Publish, RecoveryTypeOK, StateType
      <3>2. Handled'
        BY <2>0, <2>5 DEF Publish, Becomes, Handled, RecoveryTypeOK
      <3>3. QED
        BY <3>1, <3>2
    <2>6. CASE CallAnswered(t)
      <3>1. RecoveryTypeOK'
        BY <2>6, BecomesType DEF CallAnswered, RecoveryTypeOK, state
      <3>2. Handled'
        BY <2>0, <2>6 DEF CallAnswered, Becomes, Handled, RecoveryTypeOK
      <3>3. QED
        BY <3>1, <3>2
    <2>7. CASE CallFails(t)
      <3>0. handle[t] \in Clients
        BY <2>0, <2>7 DEF CallFails, Handled
      <3>1. RecoveryTypeOK'
        BY <3>0, <2>7, BecomesType DEF CallFails, RecoveryTypeOK, state
      <3>2. Handled'
        BY <2>0, <2>7 DEF CallFails, Becomes, Handled, RecoveryTypeOK
      <3>3. QED
        BY <3>1, <3>2
    <2>8. CASE MarkUnavailable(t)
      <3>1. RecoveryTypeOK'
        <4>1. CASE available /\ handle[t] = client
          BY <2>8, <4>1, BecomesType, RecordType
          DEF MarkUnavailable, RecoveryTypeOK, StateType
        <4>2. CASE ~(available /\ handle[t] = client)
          BY <2>8, <4>2, BecomesType DEF MarkUnavailable, RecoveryTypeOK
        <4>3. QED
          BY <4>1, <4>2
      <3>2. Handled'
        BY <2>0, <2>8 DEF MarkUnavailable, Becomes, Handled, RecoveryTypeOK
      <3>3. QED
        BY <3>1, <3>2
    <2>9. QED
      BY <1>1, <2>1, <2>2, <2>3, <2>4, <2>5, <2>6, <2>7, <2>8 DEF ThreadStep
  <1>2. CASE Toggle
    BY <1>2 DEF Toggle, RecoveryTypeOK, Handled, state
  <1>3. CASE RecoveryTick
    BY <1>3, RecoveryAssumption
    DEF RecoveryTick, RecoveryTypeOK, Handled, Lesser, Greater
  <1>4. CASE UNCHANGED recoveryVars
    BY <1>4 DEF recoveryVars, state, RecoveryTypeOK, Handled
  <1>5. QED
    BY <1>1, <1>2, <1>3, <1>4 DEF RecoveryNext

-----------------------------------------------------------------------------
(* Single flight.                                                           *)

LEMMA SingleFlightNext == RInv /\ SingleFlight /\ [RecoveryNext]_recoveryVars => SingleFlight'
  <1> SUFFICES ASSUME RInv, SingleFlight, [RecoveryNext]_recoveryVars PROVE SingleFlight'
    OBVIOUS
  <1>0. RecoveryTypeOK
    BY DEF RInv
  <1>1. ASSUME NEW t \in Threads, ThreadStep(t) PROVE SingleFlight'
    <2>a. ASSUME NEW what \in {"idle", "call", "failed"}, NEW c,
                 caller[t] \notin {"probe", "pinged"}, Becomes(t, what, c)
          PROVE  Probers' = Probers
      BY <1>0, <2>a DEF Probers, Becomes, RecoveryTypeOK
    <2>b. ASSUME NEW what \in {"idle", "call", "failed"}, NEW c,
                 caller[t] \in {"probe", "pinged"}, Becomes(t, what, c)
          PROVE  Probers' = {}
      <3>1. t \in Probers
        BY <2>b DEF Probers
      <3>2. Probers' = Probers \ {t}
        BY <1>0, <2>b DEF Probers, Becomes, RecoveryTypeOK
      <3>3. QED
        BY <3>1, <3>2 DEF SingleFlight
    <2>1. CASE UseClient(t)
      BY <2>1, <2>a DEF UseClient, SingleFlight, state
    <2>2. CASE BeginProbe(t)
      <3>1. Probers = {}
        BY <2>2 DEF BeginProbe, SingleFlight
      <3>2. Probers' = {t}
        BY <1>0, <2>2, <3>1 DEF BeginProbe, Probers, Becomes, RecoveryTypeOK
      <3>3. QED
        BY <2>2, <3>2 DEF BeginProbe, SingleFlight
    <2>3. CASE ProbeFails(t)
      BY <2>3, <2>b DEF ProbeFails, SingleFlight
    <2>4. CASE PingAnswered(t)
      <3>1. Probers' = Probers
        BY <1>0, <2>4 DEF PingAnswered, Probers, Becomes, RecoveryTypeOK
      <3>2. QED
        BY <2>4, <3>1 DEF PingAnswered, SingleFlight, state
    <2>5. CASE Publish(t)
      BY <2>5, <2>b DEF Publish, SingleFlight
    <2>6. CASE CallAnswered(t)
      BY <2>6, <2>a DEF CallAnswered, SingleFlight, state
    <2>7. CASE CallFails(t)
      BY <2>7, <2>a DEF CallFails, SingleFlight, state
    <2>8. CASE MarkUnavailable(t)
      <3>1. Probers' = Probers /\ probing' = probing
        BY <2>8, <2>a DEF MarkUnavailable
      <3>2. available' => available
        BY <2>8 DEF MarkUnavailable, RecordFailure
      <3>3. QED
        BY <3>1, <3>2 DEF SingleFlight
    <2>9. QED
      BY <1>1, <2>1, <2>2, <2>3, <2>4, <2>5, <2>6, <2>7, <2>8 DEF ThreadStep
  <1>2. CASE Toggle \/ RecoveryTick \/ UNCHANGED recoveryVars
    BY <1>2 DEF Toggle, RecoveryTick, recoveryVars, state, SingleFlight, Probers
  <1>3. QED
    BY <1>1, <1>2 DEF RecoveryNext

LEMMA SingleFlightInit == RecoveryInit => SingleFlight
  BY DEF RecoveryInit, SingleFlight, Probers
-----------------------------------------------------------------------------
(* Pacing and staleness.                                                    *)

\* The delay that is left and the time since the failure make up at least the
\* initial backoff.
Rested == ~available => wait + sinceFailure >= Initial

LEMMA RestedNext == RInv /\ Rested /\ [RecoveryNext]_recoveryVars => Rested'
  <1> SUFFICES ASSUME RInv, Rested, [RecoveryNext]_recoveryVars PROVE Rested'
    OBVIOUS
  <1>0. RecoveryTypeOK /\ Initial \in Nat /\ Longest \in Nat /\ Initial <= Longest
    BY RecoveryAssumption DEF RInv
  <1>a. failures \in 0..FailureCap
    BY <1>0 DEF RecoveryTypeOK
  <1>1. ASSUME NEW t \in Threads, ThreadStep(t) PROVE Rested'
    <2>1. CASE ProbeFails(t)
      BY <1>0, <1>a, <2>1, RecordType DEF ProbeFails, Rested
    <2>2. CASE MarkUnavailable(t)
      <3>1. CASE available /\ handle[t] = client
        BY <1>0, <1>a, <2>2, <3>1, RecordType DEF MarkUnavailable, Rested
      <3>2. CASE ~(available /\ handle[t] = client)
        BY <2>2, <3>2 DEF MarkUnavailable, Rested
      <3>3. QED
        BY <3>1, <3>2
    <2>3. CASE Publish(t)
      BY <2>3 DEF Publish, Rested
    <2>4. CASE UNCHANGED <<available, wait, sinceFailure>>
      BY <2>4 DEF Rested
    <2>5. QED
      BY <1>1, <2>1, <2>2, <2>3, <2>4
      DEF ThreadStep, UseClient, BeginProbe, PingAnswered, CallAnswered, CallFails, state
  <1>2. CASE RecoveryTick
    BY <1>0, <1>2 DEF RecoveryTick, Rested, RecoveryTypeOK, Lesser, Greater
  <1>3. CASE Toggle \/ UNCHANGED recoveryVars
    BY <1>3 DEF Toggle, recoveryVars, state, Rested
  <1>4. QED
    BY <1>1, <1>2, <1>3 DEF RecoveryNext

LEMMA RestedInit == RecoveryInit => Rested
  BY FirstDelay, RecoveryAssumption DEF RecoveryInit, Rested

LEMMA RestedPaces == RInv /\ Rested /\ RecoveryNext => ProbesAfterBackoff
  <1> SUFFICES ASSUME RInv, Rested, RecoveryNext, NEW t \in Threads,
                      caller[t] = "idle", caller'[t] = "probe"
               PROVE  sinceFailure >= Initial
    BY DEF ProbesAfterBackoff
  <1>1. PICK s \in Threads : ThreadStep(s)
    BY DEF RecoveryNext, Toggle, RecoveryTick
  <1>2. BeginProbe(s)
    BY <1>1 DEF RInv, RecoveryTypeOK, Becomes, ThreadStep, UseClient, ProbeFails,
       PingAnswered, Publish, CallAnswered, CallFails, MarkUnavailable
  <1>3. QED
    BY <1>2, RecoveryAssumption DEF BeginProbe, Rested, RInv, RecoveryTypeOK

\* A thread about to report a failure had a command fail on its client.
Reports == \A t \in Threads : caller[t] = "failed" => handle[t] \in lost

LEMMA ReportsNext == RInv /\ Reports /\ [RecoveryNext]_recoveryVars => Reports'
  <1> SUFFICES ASSUME RInv, Reports, [RecoveryNext]_recoveryVars PROVE Reports'
    OBVIOUS
  <1>0. RecoveryTypeOK
    BY DEF RInv
  <1>1. ASSUME NEW t \in Threads, ThreadStep(t) PROVE Reports'
    <2>1. CASE BeginProbe(t)
      <3>1. PICK c \in Unreferenced : Becomes(t, "probe", c) /\ lost' = lost \ {c}
        BY <2>1 DEF BeginProbe
      <3>2. \A s \in Threads : handle[s] # c
        BY <3>1 DEF Unreferenced
      <3>3. QED
        BY <1>0, <3>1, <3>2 DEF Reports, Becomes, RecoveryTypeOK
    <2>2. CASE CallFails(t)
      BY <1>0, <2>2 DEF CallFails, Reports, Becomes, RecoveryTypeOK
    <2>3. CASE lost' = lost /\ \E what \in {"idle", "pinged", "call"} : \E c : Becomes(t, what, c)
      BY <1>0, <2>3 DEF Reports, Becomes, RecoveryTypeOK
    <2>4. QED
      BY <1>1, <2>1, <2>2, <2>3 DEF ThreadStep, UseClient, ProbeFails, PingAnswered,
         Publish, CallAnswered, MarkUnavailable
  <1>2. CASE Toggle \/ RecoveryTick \/ UNCHANGED recoveryVars
    BY <1>2 DEF Toggle, RecoveryTick, recoveryVars, state, Reports
  <1>3. QED
    BY <1>1, <1>2 DEF RecoveryNext

LEMMA ReportsInit == RecoveryInit => Reports
  BY DEF RecoveryInit, Reports

LEMMA ReportsDegrade ==
  RInv /\ SingleFlight /\ Reports /\ RecoveryNext => DegradesForCause
  <1> SUFFICES ASSUME RInv, SingleFlight, Reports, RecoveryNext, available, ~available'
               PROVE  client \in lost
    BY DEF DegradesForCause
  <1>1. PICK t \in Threads : ThreadStep(t)
    BY DEF RecoveryNext, Toggle, RecoveryTick, state
  <1>2. ~ProbeFails(t)
    BY DEF ProbeFails, SingleFlight, Probers
  <1>3. MarkUnavailable(t)
    BY <1>1, <1>2 DEF ThreadStep, UseClient, BeginProbe, PingAnswered, Publish,
       CallAnswered, CallFails, state
  <1>4. QED
    BY <1>3 DEF MarkUnavailable, Reports
-----------------------------------------------------------------------------
(* Event loops.                                                             *)

\* A failure that is reported is recorded, or is not of the current client.
LEMMA MarkFacts ==
  ASSUME NEW t \in Threads, MarkUnavailable(t)
  PROVE  /\ caller[t] = "failed" /\ Becomes(t, "idle", NoClient)
         /\ UNCHANGED <<up, probing, lost>>
         /\ \/ available /\ handle[t] = client /\ RecordFailure
            \/ UNCHANGED <<available, client, failures, wait, sinceFailure>>
  BY DEF MarkUnavailable

\* What entering a probe does.
LEMMA PingFacts ==
  ASSUME NEW t \in Threads, Ping(t)
  PROVE  /\ \E c \in Unreferenced : Becomes(t, "probe", c) /\ lost' = lost \ {c}
         /\ UNCHANGED <<up, state, publisher>>
  BY DEF Ping

AsyncPlaces == Holding \cup {"idle", "waiting", "call", "failed"}

\* A task that pings, has pinged or calls does it with a client.
AsyncHandled == \A t \in Threads : caller[t] \notin {"idle", "waiting"} => handle[t] \in Clients

\* While a client is there, no task of the loop that published it is at a probe.
PublisherAtRest == available => \A t \in Threads : caller[t] \in Holding => Loop[t] # publisher

AsyncInv ==
    /\ AsyncTypeOK
    /\ AsyncHandled
    /\ PublisherAtRest
    /\ Rested
    /\ Reports

LEMMA AsyncInitInv == AsyncInit => AsyncInv
  <1> SUFFICES ASSUME AsyncInit PROVE AsyncInv
    OBVIOUS
  <1> USE DEF AsyncInit
  <1>1. wait \in 0..Longest /\ failures \in 0..FailureCap /\ sinceFailure \in 0..Longest
    BY Zero, RecoveryAssumption
  <1>2. AsyncTypeOK
    BY <1>1 DEF AsyncTypeOK, Holding
  <1>3. Rested
    BY RecoveryAssumption DEF Rested
  <1>4. AsyncHandled /\ PublisherAtRest /\ Reports
    BY DEF AsyncHandled, PublisherAtRest, Reports
  <1>5. QED
    BY <1>2, <1>3, <1>4 DEF AsyncInv

\* A step in which one task moves on, and nothing of the shared state but lost
\* changes.  The lock is taken only when it is free and only while no client is there.
LEMMA TaskMoves ==
  ASSUME AsyncInv, NEW t \in Threads, NEW what \in AsyncPlaces, NEW c \in Clients \cup {NoClient},
         Becomes(t, what, c),
         what \notin {"idle", "waiting"} => c \in Clients,
         what = "failed" => c \in lost',
         lost' \in SUBSET Clients,
         \A s \in Threads \ {t} : handle[s] \in lost => handle[s] \in lost',
         what \in Holding =>
             \/ caller[t] \in Holding
             \/ LockFree(Loop[t]) /\ ~available,
         UNCHANGED <<up, state, publisher>>
  PROVE  AsyncInv'
  <1> USE DEF AsyncInv, state
  <1>0. /\ caller \in [Threads -> AsyncPlaces] /\ handle \in [Threads -> Clients \cup {NoClient}]
        /\ caller'[t] = what /\ handle'[t] = c
        /\ \A s \in Threads \ {t} : caller'[s] = caller[s] /\ handle'[s] = handle[s]
        /\ caller' \in [Threads -> AsyncPlaces] /\ handle' \in [Threads -> Clients \cup {NoClient}]
    BY DEF AsyncTypeOK, AsyncPlaces, Becomes
  <1>1. AsyncTypeOK'
    <2>1. ASSUME NEW s \in Threads, NEW u \in Threads, Loop[s] = Loop[u],
                 caller'[s] \in Holding, caller'[u] \in Holding
          PROVE  s = u
      BY <1>0, <2>1 DEF AsyncTypeOK, LockFree
    <2>2. QED
      BY <1>0, <2>1 DEF AsyncTypeOK, AsyncPlaces
  <1>2. AsyncHandled'
    BY <1>0 DEF AsyncHandled
  <1>3. PublisherAtRest'
    BY <1>0 DEF PublisherAtRest
  <1>4. Rested' /\ Reports'
    BY <1>0 DEF Rested, Reports
  <1>5. QED
    BY <1>1, <1>2, <1>3, <1>4

\* A failure is recorded by a task that goes back to its caller.
LEMMA TaskRecords ==
  ASSUME AsyncInv, NEW t \in Threads, Becomes(t, "idle", NoClient), RecordFailure,
         UNCHANGED <<up, probing, lost, publisher>>
  PROVE  AsyncInv'
  <1> USE DEF AsyncInv
  <1>0. /\ caller'[t] = "idle"
        /\ \A s \in Threads \ {t} : caller'[s] = caller[s] /\ handle'[s] = handle[s]
        /\ caller' \in [Threads -> AsyncPlaces] /\ handle' \in [Threads -> Clients \cup {NoClient}]
    BY DEF AsyncTypeOK, AsyncPlaces, Becomes
  <1>1. /\ available' = FALSE /\ client' = NoClient /\ sinceFailure' = 0
        /\ failures' \in 0..FailureCap /\ wait' \in Initial..Longest
    BY RecordType DEF AsyncTypeOK
  <1>2. wait' \in 0..Longest /\ sinceFailure' \in 0..Longest
    BY <1>1, RecoveryAssumption
  <1>3. AsyncTypeOK'
    <2>1. ASSUME NEW s \in Threads, NEW u \in Threads, Loop[s] = Loop[u],
                 caller'[s] \in Holding, caller'[u] \in Holding
          PROVE  s = u
      BY <1>0, <2>1 DEF AsyncTypeOK, Holding
    <2>2. QED
      BY <1>0, <1>1, <1>2, <2>1 DEF AsyncTypeOK, AsyncPlaces
  <1>4. AsyncHandled' /\ PublisherAtRest' /\ Reports'
    BY <1>0, <1>1 DEF AsyncHandled, PublisherAtRest, Reports
  <1>5. Rested'
    <2>1. Initial \in Int /\ Longest \in Int
      BY RecoveryAssumption
    <2>2. \A w \in Initial..Longest : w + 0 >= Initial
      BY <2>1
    <2>3. QED
      BY <1>1, <2>2 DEF Rested
  <1>6. QED
    BY <1>3, <1>4, <1>5

LEMMA TaskPublishes ==
  ASSUME AsyncInv, NEW t \in Threads, AsyncPublish(t)
  PROVE  AsyncInv'
  <1> USE DEF AsyncInv
  <1>0. /\ caller[t] = "pinged" /\ Becomes(t, "call", handle[t]) /\ handle[t] \in Clients
        /\ client' = handle[t] /\ available' = TRUE /\ failures' = 0 /\ wait' = 0
        /\ publisher' = Loop[t] /\ UNCHANGED <<up, probing, lost, sinceFailure>>
    BY DEF AsyncPublish, AsyncHandled
  <1>1. /\ caller'[t] = "call" /\ handle'[t] = handle[t]
        /\ \A s \in Threads \ {t} : caller'[s] = caller[s] /\ handle'[s] = handle[s]
        /\ caller' \in [Threads -> AsyncPlaces] /\ handle' \in [Threads -> Clients \cup {NoClient}]
    BY <1>0 DEF AsyncTypeOK, AsyncPlaces, Becomes
  <1>2. AsyncTypeOK'
    <2>1. ASSUME NEW s \in Threads, NEW u \in Threads, Loop[s] = Loop[u],
                 caller'[s] \in Holding, caller'[u] \in Holding
          PROVE  s = u
      BY <1>1, <2>1 DEF AsyncTypeOK, Holding
    <2>2. client' # NoClient /\ publisher' \in Loops /\ wait' \in 0..Longest
          /\ failures' \in 0..FailureCap
      BY <1>0, Zero, RecoveryAssumption DEF Loops
    <2>3. QED
      BY <1>0, <1>1, <2>1, <2>2 DEF AsyncTypeOK, AsyncPlaces
  <1>3. PublisherAtRest'
    <2>1. ASSUME NEW s \in Threads, caller'[s] \in Holding PROVE Loop[s] # Loop[t]
      <3>1. s # t /\ caller[s] \in Holding
        BY <1>1, <2>1 DEF Holding
      <3>2. QED
        BY <1>0, <3>1 DEF AsyncTypeOK, Holding
    <2>2. QED
      BY <1>0, <2>1 DEF PublisherAtRest
  <1>4. AsyncHandled' /\ Reports' /\ Rested'
    BY <1>0, <1>1 DEF AsyncHandled, Reports, Rested
  <1>5. QED
    BY <1>2, <1>3, <1>4

LEMMA AsyncStepInv ==
  ASSUME AsyncInv, NEW t \in Threads, AsyncStep(t)
  PROVE  AsyncInv'
  <1>0. /\ client \in Clients \cup {NoClient} /\ (available <=> client # NoClient)
        /\ handle[t] \in Clients \cup {NoClient} /\ lost \in SUBSET Clients
        /\ caller[t] \notin {"idle", "waiting"} => handle[t] \in Clients
        /\ NoClient \in Clients \cup {NoClient}
    BY DEF AsyncInv, AsyncTypeOK, AsyncHandled
  <1> USE DEF Holding
  <1>1. CASE AsyncUseClient(t)
    <2>1. Becomes(t, "call", client) /\ client \in Clients /\ "call" \in AsyncPlaces
          /\ UNCHANGED <<up, state, lost, publisher>>
      BY <1>0, <1>1 DEF AsyncUseClient, UseClient, AsyncPlaces
    <2>2. QED
      BY <1>0, <2>1, TaskMoves
  <1>2. CASE QueueForProbe(t)
    <2>1. Becomes(t, "waiting", handle[t]) /\ "waiting" \in AsyncPlaces
      BY <1>2 DEF QueueForProbe, Becomes, AsyncInv, AsyncTypeOK, AsyncPlaces
    <2>2. UNCHANGED <<up, state, lost, publisher>>
      BY <1>2 DEF QueueForProbe
    <2>3. QED
      BY <1>0, <2>1, <2>2, TaskMoves
  <1>3. CASE EnterProbe(t)
    <2>1. CASE ~Due /\ Becomes(t, IF available THEN "call" ELSE "idle", client)
               /\ UNCHANGED <<up, state, lost, publisher>>
      <3>1. CASE available
        BY <1>0, <2>1, <3>1, TaskMoves DEF AsyncPlaces
      <3>2. CASE ~available
        BY <1>0, <2>1, <3>2, TaskMoves DEF AsyncPlaces
      <3>3. QED
        BY <3>1, <3>2
    <2>2. CASE Due /\ Ping(t)
      <3>1. PICK c \in Unreferenced : Becomes(t, "probe", c) /\ lost' = lost \ {c}
        BY <2>2, PingFacts
      <3>2. /\ UNCHANGED <<up, state, publisher>>
            /\ LockFree(Loop[t]) /\ ~available
        BY <1>3, <2>2, PingFacts DEF EnterProbe, Due
      <3>3. c \in Clients /\ \A s \in Threads : handle[s] # c
        BY DEF Unreferenced
      <3>4. "probe" \in AsyncPlaces
        BY DEF AsyncPlaces
      <3>5. QED
        BY <1>0, <3>1, <3>2, <3>3, <3>4, TaskMoves
    <2>3. QED
      BY <1>3, <2>1, <2>2 DEF EnterProbe
  <1>4. CASE PingReturns(t)
    <2>1. PICK what \in {"pinged", "refused"} : Becomes(t, what, handle[t])
      BY <1>4 DEF PingReturns
    <2>2. /\ UNCHANGED <<up, state, lost, publisher>>
          /\ caller[t] = "probe" /\ what \in AsyncPlaces
      BY <1>4 DEF PingReturns, AsyncPlaces
    <2>3. QED
      BY <1>0, <2>1, <2>2, TaskMoves
  <1>5. CASE ProbeRefused(t)
    BY <1>5, TaskRecords DEF ProbeRefused
  <1>6. CASE AsyncPublish(t)
    BY <1>6, TaskPublishes
  <1>7. CASE AsyncCallEnds(t)
    <2>1. CASE CallAnswered(t)
      BY <1>0, <1>7, <2>1, TaskMoves DEF AsyncCallEnds, CallAnswered, CallFails, AsyncPlaces
    <2>2. CASE CallFails(t)
      <3>1. /\ Becomes(t, "failed", handle[t]) /\ handle[t] \in Clients
            /\ lost' = lost \cup {handle[t]} /\ "failed" \in AsyncPlaces
            /\ UNCHANGED <<up, state, publisher>>
        BY <1>0, <1>7, <2>2 DEF AsyncCallEnds, CallAnswered, CallFails, AsyncPlaces
      <3>2. QED
        BY <1>0, <3>1, TaskMoves
    <2>3. QED
      BY <1>7, <2>1, <2>2 DEF AsyncCallEnds
  <1>8. CASE AsyncMarkUnavailable(t)
    <2>1. CASE RecordFailure
      BY <1>8, <2>1, MarkFacts, TaskRecords DEF AsyncMarkUnavailable
    <2>2. CASE UNCHANGED <<available, client, failures, wait, sinceFailure>>
      BY <1>0, <1>8, <2>2, MarkFacts, TaskMoves DEF AsyncMarkUnavailable, AsyncPlaces, state
    <2>3. QED
      BY <1>8, <2>1, <2>2, MarkFacts DEF AsyncMarkUnavailable
  <1>9. CASE Cancel(t)
    BY <1>0, <1>9, TaskMoves DEF Cancel, AsyncPlaces
  <1>10. QED
    BY <1>1, <1>2, <1>3, <1>4, <1>5, <1>6, <1>7, <1>8, <1>9 DEF AsyncStep

LEMMA AsyncNextInv == AsyncInv /\ [AsyncNext]_asyncVars => AsyncInv'
  <1> SUFFICES ASSUME AsyncInv, [AsyncNext]_asyncVars PROVE AsyncInv'
    OBVIOUS
  <1> USE DEF AsyncInv, AsyncTypeOK, AsyncHandled, PublisherAtRest, Rested, Reports
  <1>1. CASE \E t \in Threads : AsyncStep(t)
    BY <1>1, AsyncStepInv
  <1>2. CASE AsyncToggle
    BY <1>2 DEF AsyncToggle, Toggle, state
  <1>3. CASE AsyncTick
    <2>1. /\ wait' = Greater(wait - 1, 0) /\ sinceFailure' = Lesser(sinceFailure + 1, Longest)
          /\ UNCHANGED <<up, available, client, probing, failures, caller, handle, lost, publisher>>
      BY <1>3 DEF AsyncTick, RecoveryTick
    <2>2. wait' \in 0..Longest /\ sinceFailure' \in 0..Longest
      BY <2>1, RecoveryAssumption DEF Greater, Lesser
    <2>3. wait + sinceFailure >= Initial => wait' + sinceFailure' >= Initial
      BY <2>1, RecoveryAssumption DEF Greater, Lesser
    <2>4. QED
      BY <2>1, <2>2, <2>3
  <1>4. CASE UNCHANGED asyncVars
    BY <1>4 DEF asyncVars, recoveryVars, state
  <1>5. QED
    BY <1>1, <1>2, <1>3, <1>4 DEF AsyncNext

LEMMA QueueIsPaced == AsyncInv /\ AsyncNext => PingsAfterBackoff
  <1> SUFFICES ASSUME AsyncInv, AsyncNext, NEW t \in Threads,
                      caller[t] = "waiting", caller'[t] = "probe"
               PROVE  ~available /\ sinceFailure >= Initial
    BY DEF PingsAfterBackoff
  <1>0. caller \in [Threads -> AsyncPlaces]
    BY DEF AsyncInv, AsyncTypeOK, AsyncPlaces
  <1>1. ~AsyncToggle /\ ~AsyncTick
    BY DEF AsyncToggle, AsyncTick, Toggle, RecoveryTick
  <1>2. PICK s \in Threads : AsyncStep(s)
    BY <1>1 DEF AsyncNext
  <1>3. \A what, c : Becomes(s, what, c) => s = t /\ what = "probe"
    BY <1>0 DEF Becomes
  <1>4. ~QueueForProbe(s)
    BY <1>0 DEF QueueForProbe
  <1>5. EnterProbe(s)
    BY <1>2, <1>3, <1>4 DEF AsyncStep, AsyncUseClient, UseClient,
       PingReturns, ProbeRefused, AsyncPublish, AsyncCallEnds,
       CallAnswered, CallFails, AsyncMarkUnavailable,
       MarkUnavailable, Cancel
  <1>6. ~available /\ wait = 0
    BY <1>3, <1>5 DEF EnterProbe, Due
  <1>7. QED
    BY <1>6, RecoveryAssumption DEF AsyncInv, AsyncTypeOK, Rested

LEMMA OthersDrop == AsyncInv /\ AsyncNext => DropsForCause
  <1> SUFFICES ASSUME AsyncInv, AsyncNext, available, ~available', client \notin lost
               PROVE  \E t \in Threads :
                         caller[t] = "refused" /\ caller'[t] = "idle" /\ Loop[t] # publisher
    BY DEF DropsForCause
  <1>1. PICK t \in Threads : AsyncStep(t)
    BY DEF AsyncNext, AsyncToggle, AsyncTick, Toggle, RecoveryTick, state
  <1>2. ~AsyncMarkUnavailable(t)
    BY MarkFacts DEF AsyncMarkUnavailable, AsyncInv, Reports
  <1>3. ProbeRefused(t)
    BY <1>1, <1>2, PingFacts DEF AsyncStep, AsyncUseClient,
       QueueForProbe, EnterProbe, PingReturns, AsyncPublish,
       AsyncCallEnds, CallAnswered, CallFails, UseClient, Cancel, state
  <1>4. caller[t] = "refused" /\ caller'[t] = "idle"
    <2>1. caller[t] = "refused" /\ Becomes(t, "idle", NoClient)
      BY <1>3 DEF ProbeRefused
    <2>2. QED
      BY <2>1 DEF Becomes, AsyncInv, AsyncTypeOK
  <1>5. Loop[t] # publisher
    BY <1>4 DEF AsyncInv, PublisherAtRest, Holding
  <1>6. QED
    BY <1>4, <1>5
-----------------------------------------------------------------------------
(* Either class in its process.                                             *)

ThreadsInv == style = "threads" => RInv /\ SingleFlight /\ Rested /\ Reports
TasksInv == style = "tasks" => AsyncInv

LEMMA AccessInitInv == AccessInit => ThreadsInv /\ TasksInv
  BY RInvInit, SingleFlightInit, RestedInit, ReportsInit, AsyncInitInv
  DEF AccessInit, ThreadsInv, TasksInv

\* A step of the process is a step of the class it uses.
LEMMA StepOfStyle ==
  ASSUME [AccessNext]_accessVars
  PROVE  /\ style' = style
         /\ style = "threads" => [RecoveryNext]_recoveryVars
         /\ style = "tasks" => [AsyncNext]_asyncVars
  BY DEF AccessNext, ByThreads, ByTasks, accessVars, asyncVars

LEMMA AccessNextInv ==
  ThreadsInv /\ TasksInv /\ [AccessNext]_accessVars => ThreadsInv' /\ TasksInv'
  <1> SUFFICES ASSUME ThreadsInv, TasksInv, [AccessNext]_accessVars
               PROVE  ThreadsInv' /\ TasksInv'
    OBVIOUS
  <1>1. ThreadsInv'
    BY StepOfStyle, RInvNext, SingleFlightNext, RestedNext, ReportsNext DEF ThreadsInv
  <1>2. TasksInv'
    BY StepOfStyle, AsyncNextInv DEF TasksInv
  <1>3. QED
    BY <1>1, <1>2

\* What holds of every step: it is a step of the class in use.
LEMMA AccessSteps ==
  ThreadsInv /\ TasksInv /\ [AccessNext]_accessVars =>
      /\ [style = "threads" => ProbesAfterBackoff]_accessVars
      /\ [style = "threads" => DegradesForCause]_accessVars
      /\ [style = "tasks" => PingsAfterBackoff]_accessVars
      /\ [style = "tasks" => DropsForCause]_accessVars
  <1> SUFFICES ASSUME ThreadsInv, TasksInv, AccessNext
               PROVE  /\ style = "threads" => ProbesAfterBackoff /\ DegradesForCause
                      /\ style = "tasks" => PingsAfterBackoff /\ DropsForCause
    OBVIOUS
  <1>1. /\ style = "threads" => RecoveryNext
        /\ style = "tasks" => AsyncNext
    BY DEF AccessNext, ByThreads, ByTasks
  <1>2. QED
    BY <1>1, RestedPaces, ReportsDegrade, QueueIsPaced, OthersDrop DEF ThreadsInv, TasksInv

LEMMA AccessInv == AccessSpec => [](ThreadsInv /\ TasksInv)
  BY AccessInitInv, AccessNextInv, PTL DEF AccessSpec

\* Among threads every variable keeps its type, and a client is there exactly
\* when Redis is available.
THEOREM RecoveryTypeCorrect == AccessSpec => [](style = "threads" => RecoveryTypeOK)
  <1>1. ThreadsInv => (style = "threads" => RecoveryTypeOK)
    BY DEF ThreadsInv, RInv
  <1>2. QED
    BY <1>1, AccessInv, PTL

\* At most one thread reconnects at a time, for any number of threads.
THEOREM OneProbe == AccessSpec => [](style = "threads" => SingleFlight)
  <1>1. ThreadsInv => (style = "threads" => SingleFlight)
    BY DEF ThreadsInv
  <1>2. QED
    BY <1>1, AccessInv, PTL

\* Nor does one begin sooner after a recorded failure than the initial backoff,
\* for any number of threads and any delays.
THEOREM ProbesAreRationed == AccessSpec => ProbesRationed
  <1>1. AccessSpec => [][style = "threads" => ProbesAfterBackoff]_accessVars
    BY AccessInv, AccessSteps, PTL DEF AccessSpec
  <1>2. QED
    BY <1>1, OneProbe DEF ProbesRationed

\* A thread gives a client up only because a command failed on that very client.
THEOREM StaleFailuresIgnored == AccessSpec => NoStaleDegrade
  BY AccessInv, AccessSteps, PTL DEF AccessSpec, NoStaleDegrade

\* Among tasks every variable keeps its type, and a loop's probe lock is held by
\* one task at most, for any number of tasks and loops.
THEOREM AsyncTypeCorrect == AccessSpec => [](style = "tasks" => AsyncTypeOK)
  <1>1. TasksInv => (style = "tasks" => AsyncTypeOK)
    BY DEF TasksInv, AsyncInv
  <1>2. QED
    BY <1>1, AccessInv, PTL

\* However many tasks of however many loops queued while Redis was away, none pings
\* sooner after the last failure than the initial backoff.
THEOREM QueuesArePaced == AccessSpec => AsyncPaced
  BY AccessInv, AccessSteps, PTL DEF AccessSpec, AsyncPaced

\* Tasks give a client up because a command failed on it, or because a probe of
\* another loop than the one that published it failed.
THEOREM OnlyOtherLoopsDrop == AccessSpec => DroppedByCommandOrOtherLoop
  BY AccessInv, AccessSteps, PTL DEF AccessSpec, DroppedByCommandOrOtherLoop
=============================================================================
