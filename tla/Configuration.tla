---------------------------- MODULE Configuration ----------------------------
(***************************************************************************)
(* Config (data_agent/config/config.py): every process reads its limits     *)
(* from the environment when the module is imported, and does not start     *)
(* with values that contradict each other.  An environment is a function of *)
(* the names it sets: of a limit to <<n>>, of the limiter's switch to a      *)
(* Boolean <<b>>, either to << >> where the text is not of its kind; of a    *)
(* list of origins to the <<set>> of their kinds, of a key to its <<kind>>. *)
(* Ratios are in percent.  Other names and addresses bound nothing and are  *)
(* left out.                                                                *)
(***************************************************************************)
EXTENDS Integers

Defaults ==
    [MODEL_REQUEST_TIMEOUT_SECONDS |-> 45, MODEL_MAX_RETRIES |-> 1, MODEL_MAX_OUTPUT_TOKENS |-> 4096,
     AGENT_QUERY_MAX_CHARS |-> 8000, AGENT_RESPONSE_MAX_CHARS |-> 32000,
     AGENT_RUN_TIMEOUT_SECONDS |-> 60, AGENT_RECURSION_LIMIT |-> 25,
     AGENT_MODEL_CALL_LIMIT |-> 8, AGENT_TOOL_CALL_LIMIT |-> 12,
     AGENT_GLOBAL_CONCURRENCY_LIMIT |-> 4, AGENT_USER_CONCURRENCY_LIMIT |-> 1,
     AGENT_CONCURRENCY_WAIT_SECONDS |-> 1, AGENT_CONCURRENCY_LEASE_TTL_SECONDS |-> 75,
     SEARCH_QUERY_MAX_CHARS |-> 2000, SEARCH_MAX_RESULTS |-> 5,
     SEARCH_TIMEOUT_SECONDS |-> 15, SEARCH_MAX_OUTPUT_BYTES |-> 65536,
     REDIS_RECOVERY_INITIAL_BACKOFF_SECONDS |-> 1, REDIS_RECOVERY_MAX_BACKOFF_SECONDS |-> 30,
     REDIS_RECOVERY_JITTER_RATIO |-> 20,
     FILE_UPLOAD_MAX_BYTES |-> 5242880, FILE_UPLOAD_BATCH_MAX_BYTES |-> 10485760,
     FILE_UPLOAD_REQUEST_MAX_BYTES |-> 11534336, FILE_UPLOAD_BATCH_MAX_COUNT |-> 5,
     FILE_USER_QUOTA_BYTES |-> 104857600, FILE_USER_MAX_COUNT |-> 100,
     FILE_RETENTION_HOURS |-> 168, FILE_ANALYSIS_MAX_CHARS |-> 20000]

\* The windows of the limiter and what is kept of tokens and logs; 0 proxies are
\* allowed.
ServiceDefaults ==
    [JWT_ACCESS_TOKEN_EXPIRE_MINUTES |-> 30, LOG_MAX_BYTES |-> 10485760, LOG_BACKUP_COUNT |-> 3,
     TRUSTED_PROXY_COUNT |-> 0,
     RATE_LIMIT_AUTH_MAX_REQUESTS |-> 10, RATE_LIMIT_AUTH_WINDOW_SECONDS |-> 60,
     RATE_LIMIT_QUERY_MAX_REQUESTS |-> 20, RATE_LIMIT_QUERY_WINDOW_SECONDS |-> 60,
     RATE_LIMIT_SESSION_MAX_REQUESTS |-> 60, RATE_LIMIT_SESSION_WINDOW_SECONDS |-> 60,
     RATE_LIMIT_DEFAULT_MAX_REQUESTS |-> 120, RATE_LIMIT_DEFAULT_WINDOW_SECONDS |-> 60]

Names == DOMAIN Defaults
ServiceNames == DOMAIN ServiceDefaults

\* What no deployment may raise.
Ceiling ==
    [MODEL_REQUEST_TIMEOUT_SECONDS |-> 45, MODEL_MAX_RETRIES |-> 1, MODEL_MAX_OUTPUT_TOKENS |-> 4096,
     SEARCH_QUERY_MAX_CHARS |-> 2000, SEARCH_MAX_RESULTS |-> 5, SEARCH_TIMEOUT_SECONDS |-> 15,
     SEARCH_MAX_OUTPUT_BYTES |-> 65536, FILE_ANALYSIS_MAX_CHARS |-> 20000,
     REDIS_RECOVERY_MAX_BACKOFF_SECONDS |-> 30, REDIS_RECOVERY_JITTER_RATIO |-> 100]

FileRelations(c) ==
    /\ c.FILE_UPLOAD_MAX_BYTES <= c.FILE_UPLOAD_BATCH_MAX_BYTES
    /\ c.FILE_UPLOAD_BATCH_MAX_BYTES <= c.FILE_UPLOAD_REQUEST_MAX_BYTES
    /\ c.FILE_UPLOAD_BATCH_MAX_BYTES <= c.FILE_USER_QUOTA_BYTES
    /\ c.FILE_UPLOAD_BATCH_MAX_COUNT <= c.FILE_USER_MAX_COUNT

RunRelations(c) ==
    /\ c.AGENT_USER_CONCURRENCY_LIMIT <= c.AGENT_GLOBAL_CONCURRENCY_LIMIT
    /\ c.AGENT_CONCURRENCY_WAIT_SECONDS < c.AGENT_RUN_TIMEOUT_SECONDS
    /\ c.AGENT_RUN_TIMEOUT_SECONDS < c.AGENT_CONCURRENCY_LEASE_TTL_SECONDS
    /\ c.MODEL_REQUEST_TIMEOUT_SECONDS <= c.AGENT_RUN_TIMEOUT_SECONDS
    /\ c.SEARCH_TIMEOUT_SECONDS <= c.AGENT_RUN_TIMEOUT_SECONDS
    /\ c.SEARCH_QUERY_MAX_CHARS <= c.AGENT_QUERY_MAX_CHARS
    /\ c.FILE_ANALYSIS_MAX_CHARS <= c.AGENT_RESPONSE_MAX_CHARS
    /\ c.REDIS_RECOVERY_INITIAL_BACKOFF_SECONDS <= c.REDIS_RECOVERY_MAX_BACKOFF_SECONDS

BelowCeilings(c) == \A name \in DOMAIN Ceiling : c[name] <= Ceiling[name]

\* _env_positive_int, _env_positive_float
Positive(value) == value \in Int /\ value > 0

Value(env, defaults, name) == IF name \in DOMAIN env THEN env[name][1] ELSE defaults[name]
Settings(env) == [name \in Names |-> Value(env, Defaults, name)]

Accepted(c) ==
    /\ \A name \in Names : Positive(c[name])
    /\ FileRelations(c) /\ BelowCeilings(c) /\ RunRelations(c)

ServicesAccepted(env) ==
    \A name \in ServiceNames :
        LET value == Value(env, ServiceDefaults, name) IN
        IF name = "TRUSTED_PROXY_COUNT" THEN value \in Nat ELSE Positive(value)

\* _env_bool: the names of truth and of falsehood, in any case, and nothing else.
RateLimitEnabled(env) ==
    IF "RATE_LIMIT_ENABLED" \in DOMAIN env THEN env["RATE_LIMIT_ENABLED"][1] ELSE TRUE

\* _env_origins: what may call with credentials is a list of absolute origins.
Origins(env) ==
    IF "CORS_ALLOWED_ORIGINS" \in DOMAIN env THEN env["CORS_ALLOWED_ORIGINS"][1] ELSE {"absolute"}
OriginsAccepted(env) == Origins(env) # {} /\ \A origin \in Origins(env) : origin = "absolute"

\* The module is imported without a ConfigurationError.
Starts(env) ==
    /\ \A name \in DOMAIN env : env[name] # << >>
    /\ Accepted(Settings(env))
    /\ OriginsAccepted(env)
    /\ RateLimitEnabled(env) \in BOOLEAN
    /\ ServicesAccepted(env)
-----------------------------------------------------------------------------
(* Keys: a process starts without them and fails when it needs one.         *)

KeyKinds == {"blank", "placeholder", "short", "long"}

\* _optional_env
Present(env, name) == name \in DOMAIN env /\ env[name][1] \in {"short", "long"}

\* A model without a name or an address has been set to nothing on purpose.
ModelConfigured(env) ==
    /\ Present(env, "MOONSHOT_API_KEY")
    /\ \A name \in {"MODEL_NAME", "MODEL_BASE_URL"} \cap DOMAIN env : env[name][1] # "blank"
SearchConfigured(env) == Present(env, "TAVILY_API_KEY")

\* A secret under 32 characters is none.
AuthConfigured(env) == Present(env, "JWT_SECRET_KEY") /\ env["JWT_SECRET_KEY"][1] = "long"
=============================================================================
