---------------------------- MODULE MCAgentLease ----------------------------
(* Three users ask for two slots and alice asks twice; the runs that check  *)
(* liveness or faults leave carol out.                                      *)
EXTENDS AgentLease, Configuration, TLC

CONSTANTS alice, bob, carol, a1, a2, b1, c1

MCUsers == {alice, bob, carol}
MCRuns == {a1, a2, b1, c1}
MCOwner == a1 :> alice @@ a2 :> alice @@ b1 :> bob @@ c1 :> carol

TwoUsers == {alice, bob}
ThreeRuns == {a1, a2, b1}
ThreeOwner == a1 :> alice @@ a2 :> alice @@ b1 :> bob

\* A process starts without an environment, and with a limit at its ceiling or
\* set to what another limit has to keep to, but not one beyond.
ASSUME LimitsOfTheEnvironment ==
    /\ Starts(<< >>)
    /\ \A name \in Names \cup (ServiceNames \ {"TRUSTED_PROXY_COUNT"}) :
          ~Starts(name :> << >>) /\ ~Starts(name :> <<-1>>) /\ ~Starts(name :> <<0>>)
    /\ Starts("TRUSTED_PROXY_COUNT" :> <<0>>) /\ ~Starts("TRUSTED_PROXY_COUNT" :> <<-1>>)
    /\ \A name \in DOMAIN Ceiling :
          Starts(name :> <<Ceiling[name]>>) /\ ~Starts(name :> <<Ceiling[name] + 1>>)
    /\ \A last \in 58..62 : \A ttl \in 58..62 :
          Starts("AGENT_RUN_TIMEOUT_SECONDS" :> <<last>> @@ "AGENT_CONCURRENCY_LEASE_TTL_SECONDS" :> <<ttl>>)
              <=> last < ttl
    /\ \A all \in 1..3, each \in 1..3 :
          Starts("AGENT_GLOBAL_CONCURRENCY_LIMIT" :> <<all>> @@ "AGENT_USER_CONCURRENCY_LIMIT" :> <<each>>)
              <=> each <= all
    /\ \A origins \in SUBSET {"absolute", "relative", "*"} :
          Starts("CORS_ALLOWED_ORIGINS" :> <<origins>>) <=> origins = {"absolute"}
    /\ Starts("RATE_LIMIT_ENABLED" :> <<FALSE>>) /\ ~Starts("RATE_LIMIT_ENABLED" :> << >>)

\* No key keeps a process from starting; with none, or with a placeholder, it can
\* neither ask the model nor search nor sign, and signing takes a long secret.
ASSUME KeysOfTheEnvironment ==
    \A kind \in KeyKinds :
        LET env == [name \in {"MOONSHOT_API_KEY", "TAVILY_API_KEY", "JWT_SECRET_KEY"} |-> <<kind>>] IN
        /\ Starts(env)
        /\ ModelConfigured(env) <=> kind \in {"short", "long"}
        /\ SearchConfigured(env) <=> ModelConfigured(env)
        /\ AuthConfigured(env) <=> kind = "long"
        /\ ~ModelConfigured("MODEL_NAME" :> <<"blank">> @@ env)
=============================================================================
