---------------------------- MODULE RedisRecovery ----------------------------
(***************************************************************************)
(* RedisRecoveryState (data_agent/services/redis_recovery.py): how the     *)
(* threads of one process decide together whether Redis is usable, who     *)
(* tries to reconnect and when.  The lock guards the state only; the ping  *)
(* and the callers' commands run outside of it, so what a thread reports   *)
(* may be about a client that was replaced meanwhile.                      *)
(*                                                                         *)
(* A client is an identity.  Clients bounds how many are told apart: a     *)
(* reconnect takes one nobody refers to.  Time is counted in ticks.        *)
(***************************************************************************)
EXTENDS Integers, FiniteSets

CONSTANTS Threads, Clients, NoClient,
          Initial,        \* initial_backoff_seconds
          Longest,        \* max_backoff_seconds
          JitterPercent,  \* jitter_ratio
          FailureCap      \* bound: failures beyond it do not lengthen a delay

ASSUME RecoveryAssumption ==
    /\ NoClient \notin Clients
    /\ Initial \in Nat \ {0} /\ Longest \in Nat /\ Initial <= Longest
    /\ JitterPercent \in 0..100
    /\ FailureCap \in Nat \ {0}

VARIABLES
    up,           \* Redis answers
    available, client, probing, failures,
    wait,         \* ticks to _next_probe_at
    caller,       \* what each thread is doing
    handle,       \* the client it does it with
    lost,         \* clients a command or ping really failed on
    sinceFailure  \* ticks since a failure was recorded, up to Longest

state == <<available, client, probing, failures, wait, sinceFailure>>
recoveryVars == <<up, state, caller, handle, lost>>

RecoveryTypeOK ==
    /\ up \in BOOLEAN
    /\ available \in BOOLEAN
    /\ client \in Clients \cup {NoClient}
    /\ available <=> client # NoClient
    /\ probing \in BOOLEAN
    /\ failures \in 0..FailureCap
    /\ wait \in 0..Longest
    /\ caller \in [Threads -> {"idle", "probe", "pinged", "call", "failed"}]
    /\ handle \in [Threads -> Clients \cup {NoClient}]
    /\ lost \in SUBSET Clients
    /\ sinceFailure \in 0..Longest
-----------------------------------------------------------------------------
(* _next_delay_locked(): exponential, jittered, clamped at both ends.       *)

Lesser(a, b) == IF a <= b THEN a ELSE b
Greater(a, b) == IF a <= b THEN b ELSE a

Base(n) == Lesser(Initial * 2^Lesser(n - 1, 16), Longest)
Spread(n) == (Base(n) * JitterPercent) \div 100

\* Mutation: the jittered delay is not clamped at the lower end.
DelaysJittered(n) ==
    {Lesser(Greater(Base(n) + j, 0), Longest) : j \in -Spread(n)..Spread(n)}

Delays(n) ==
    {Lesser(Greater(Base(n) + j, Initial), Longest) : j \in -Spread(n)..Spread(n)}

RecordFailure ==
    LET n == Lesser(failures + 1, FailureCap)
    IN  /\ available' = FALSE
        /\ client' = NoClient
        /\ failures' = n
        /\ wait' \in Delays(n)
        /\ sinceFailure' = 0

\* _connect_initial()
RecoveryInit ==
    /\ up \in BOOLEAN
    /\ \/ /\ available = TRUE
          /\ client \in Clients
          /\ failures = 0
          /\ wait = 0
       \/ /\ available = FALSE
          /\ client = NoClient
          /\ failures = 1
          /\ wait \in Delays(1)
    /\ probing = FALSE
    /\ sinceFailure = 0
    /\ caller = [t \in Threads |-> "idle"]
    /\ handle = [t \in Threads |-> NoClient]
    /\ lost = {}
-----------------------------------------------------------------------------
(* get_client(), mark_unavailable() and what their callers do in between.   *)

Becomes(t, what, c) ==
    /\ caller' = [caller EXCEPT ![t] = what]
    /\ handle' = [handle EXCEPT ![t] = c]

UseClient(t) ==
    /\ caller[t] = "idle"
    /\ available
    /\ Becomes(t, "call", client)
    /\ UNCHANGED <<up, state, lost>>

Unreferenced == {c \in Clients : \A t \in Threads : handle[t] # c}

\* Mutation: every thread that finds the delay over probes.
BeginOwnProbe(t) ==
    /\ caller[t] = "idle"
    /\ ~available
    /\ wait = 0
    /\ probing' = TRUE
    /\ \E c \in Unreferenced : Becomes(t, "probe", c) /\ lost' = lost \ {c}
    /\ UNCHANGED <<up, available, client, failures, wait, sinceFailure>>

\* A due probe nobody else is at; every other caller goes without Redis.
BeginProbe(t) ==
    /\ caller[t] = "idle"
    /\ ~available
    /\ ~probing /\ wait = 0
    /\ probing' = TRUE
    /\ \E c \in Unreferenced : Becomes(t, "probe", c) /\ lost' = lost \ {c}
    /\ UNCHANGED <<up, available, client, failures, wait, sinceFailure>>

\* Mutation: the flag of a failed probe stays set.
ProbeFailsStuck(t) ==
    /\ caller[t] = "probe"
    /\ ~up
    /\ RecordFailure
    /\ Becomes(t, "idle", NoClient)
    /\ UNCHANGED <<up, probing, lost>>

ProbeFails(t) ==
    /\ caller[t] = "probe"
    /\ ~up
    /\ probing' = FALSE
    /\ RecordFailure
    /\ Becomes(t, "idle", NoClient)
    /\ UNCHANGED <<up, lost>>

PingAnswered(t) ==
    /\ caller[t] = "probe"
    /\ up
    /\ Becomes(t, "pinged", handle[t])
    /\ UNCHANGED <<up, state, lost>>

\* The candidate becomes the client, even if Redis has gone away since.
Publish(t) ==
    /\ caller[t] = "pinged"
    /\ client' = handle[t]
    /\ available' = TRUE
    /\ probing' = FALSE
    /\ failures' = 0
    /\ wait' = 0
    /\ Becomes(t, "call", handle[t])
    /\ UNCHANGED <<up, lost, sinceFailure>>

CallAnswered(t) ==
    /\ caller[t] = "call"
    /\ up
    /\ Becomes(t, "idle", NoClient)
    /\ UNCHANGED <<up, state, lost>>

CallFails(t) ==
    /\ caller[t] = "call"
    /\ ~up
    /\ lost' = lost \cup {handle[t]}
    /\ Becomes(t, "failed", handle[t])
    /\ UNCHANGED <<up, state>>

\* Mutation: a failure degrades whatever client is current.
MarkAnyUnavailable(t) ==
    /\ caller[t] = "failed"
    /\ IF available THEN RecordFailure ELSE UNCHANGED <<available, client, failures, wait, sinceFailure>>
    /\ Becomes(t, "idle", NoClient)
    /\ UNCHANGED <<up, probing, lost>>

\* mark_unavailable(): only a failure of the current client counts.
MarkUnavailable(t) ==
    /\ caller[t] = "failed"
    /\ IF available /\ handle[t] = client
       THEN RecordFailure
       ELSE UNCHANGED <<available, client, failures, wait, sinceFailure>>
    /\ Becomes(t, "idle", NoClient)
    /\ UNCHANGED <<up, probing, lost>>
-----------------------------------------------------------------------------
(* Redis and the clock.                                                     *)

Toggle ==
    /\ up' = ~up
    /\ UNCHANGED <<state, caller, handle, lost>>

RecoveryTick ==
    /\ wait > 0 \/ sinceFailure < Longest
    /\ wait' = Greater(wait - 1, 0)
    /\ sinceFailure' = Lesser(sinceFailure + 1, Longest)
    /\ UNCHANGED <<up, available, client, probing, failures, caller, handle, lost>>

ThreadStep(t) ==
    \/ UseClient(t) \/ BeginProbe(t) \/ ProbeFails(t) \/ PingAnswered(t)
    \/ Publish(t) \/ CallAnswered(t) \/ CallFails(t) \/ MarkUnavailable(t)

RecoveryNext == (\E t \in Threads : ThreadStep(t)) \/ Toggle \/ RecoveryTick

\* What a thread began and will finish.
Progress(t) ==
    \/ ProbeFails(t) \/ PingAnswered(t) \/ Publish(t) \/ CallAnswered(t)
    \/ CallFails(t) \/ MarkUnavailable(t)
-----------------------------------------------------------------------------
(* What RedisAccess checks of them.                                         *)

Probers == {t \in Threads : caller[t] \in {"probe", "pinged"}}

\* At most one thread is reconnecting, the flag says whether one is, and none is
\* while a client is available (spec.md:223: single flight).
SingleFlight ==
    /\ \A s, t \in Probers : s = t
    /\ probing <=> Probers # {}
    /\ available => ~probing

\* A step that gives a client up does so after a command failed on it.
DegradesForCause == available /\ ~available' => client \in lost

\* A step that begins a probe comes after the initial backoff.
ProbesAfterBackoff ==
    \A t \in Threads :
        caller[t] = "idle" /\ caller'[t] = "probe" => sinceFailure >= Initial
=============================================================================
