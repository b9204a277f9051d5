------------------------------ MODULE GraphRuns ------------------------------
(***************************************************************************)
(* A run of the agent graph, from the request to the answer: on a thread of *)
(* the LangGraph server (TenantAccess) or inside POST /api/query, which      *)
(* holds the lease already.  ResourceBoundedAgentGraph.astream makes its    *)
(* own configuration out of what it is given, _prepare_run_config, and      *)
(* pumps the graph (StreamPump); model and tools act in an identity.        *)
(* The server works on one run at a time (N_JOBS_PER_WORKER = 1).           *)
(***************************************************************************)
EXTENDS StreamPump, TenantAccess

VARIABLES
    run,      \* the run at work
    config,   \* the RunnableConfig it works with
    acted     \* identities model and tools acted in

runVars == <<run, config, acted>>
graphVars == <<pumpVars, tenantVars, runVars>>

NoRun == << >>
NoConfig == << >>
Query == 0    \* where a run of /api/query has its thread

\* auth: langgraph_auth_user and its permissions, placed by the server;
\* claims: langgraph_auth_user_id; budget: whose limits are in the config.
GivenConfig(q, claims) ==
    [auth |-> IF q.op = "query" THEN Nobody ELSE q.as,
     permissions |-> IF q.op = "query" THEN {} ELSE Permissions(q.as),
     claims |-> claims,
     budget |-> "client"]

RunsTypeOK ==
    /\ PumpTypeOK /\ TenantTypeOK
    /\ run # NoRun =>
          /\ run \in [client : Clients, user : Users, thread : Nat, active : People,
                      background : BOOLEAN, waits : BOOLEAN, cancelled : BOOLEAN]
          /\ config \in [auth : People, permissions : SUBSET (SessionPermissions \cup AdminPermissions),
                         claims : People, budget : {"client", "server"}]
    /\ acted \subseteq People

RunsInit == PumpInit /\ TenantInit /\ run = NoRun /\ config = NoConfig /\ acted = {}

\* _bounded_run_config
Bounded(cfg) == [cfg EXCEPT !.claims = Nobody, !.budget = "server"]

\* _authenticated_subject: the lease the caller holds speaks first.
Subject(cfg, active) ==
    CASE active # Nobody -> active
      [] active = Nobody /\ cfg.auth # Nobody /\ "agent_invoke_own" \in cfg.permissions -> cfg.auth
      [] OTHER -> Nobody

\* Mutation: an identity in the configuration is taken for the caller's.
PreparedAsClaimed(cfg, active) ==
    [Bounded(cfg) EXCEPT !.claims = IF cfg.claims # Nobody THEN cfg.claims ELSE Subject(cfg, active)]
\* _prepare_run_config
Prepared(cfg, active) == [Bounded(cfg) EXCEPT !.claims = Subject(Bounded(cfg), active)]

\* get_active_agent_subject, in the producer's context
ActiveSubject == IF held THEN config.claims ELSE run.active

\* What tools go by: analyze_document by the configuration, the statistics by
\* the lease; a sub-agent inherits the configuration or is given it bounded.
Identities == {config.claims, Bounded(config).claims, ActiveSubject} \ {Nobody}
-----------------------------------------------------------------------------
\* A waiting client hears when the run is over; the API may strip what a client
\* claims to be, and does not have to.
BeginRun(c) ==
    /\ run = NoRun
    /\ \/ Phase(c, "authorized") /\ call[c].op \in {"run", "background"}
          /\ call[c].on \in Visible(call[c])
       \/ Phase(c, "sent") /\ call[c].op = "query" /\ call[c].as # Nobody
    /\ LET q == call[c] IN
       /\ run' = [client |-> c, user |-> q.as, thread |-> IF q.op = "query" THEN Query ELSE q.on,
                  active |-> IF q.op = "query" THEN q.as ELSE Nobody,
                  background |-> q.op = "background", waits |-> q.waits, cancelled |-> FALSE]
       /\ \E claims \in {q.claims, Nobody} : config' = GivenConfig(q, claims)
       /\ IF q.op = "background"
          THEN Answer(c, "ok", {q.on})
          ELSE call' = [call EXCEPT ![c].phase = "running", ![c].claims = Nobody] /\ UNCHANGED told
    /\ acted' = {}
    /\ UNCHANGED <<pumpVars, admins, threads, made, files, body, handed>>

QueryRejected(c) ==
    /\ Phase(c, "sent") /\ call[c].op = "query" /\ call[c].as = Nobody
    /\ Answer(c, "unauthorized", {})
    /\ UNCHANGED <<pumpVars, runVars, admins, threads, made, files, body, handed>>

\* The first chunk is asked for: astream prepares its configuration.
StartRun ==
    /\ run # NoRun /\ Start
    /\ Subject(Bounded(config), run.active) # Nobody
    /\ config' = Prepared(config, run.active)
    /\ UNCHANGED <<tenantVars, run, acted>>

PumpStep(A) == run # NoRun /\ A /\ UNCHANGED <<tenantVars, runVars>>

\* A call of the model or of a tool while the graph computes its next step.
Act ==
    /\ run # NoRun /\ At("source")
    /\ \E identity \in Identities : acted' = acted \cup {identity}
    /\ acted' # acted
    /\ UNCHANGED <<pumpVars, tenantVars, run, config>>

\* POST .../runs/{id}/cancel?wait=1
AskCancel(c) ==
    /\ Phase(c, "authorized") /\ call[c].op = "cancel" /\ call[c].on \in Visible(call[c])
    /\ IF run # NoRun /\ run.thread = call[c].on
       THEN /\ run' = [run EXCEPT !.cancelled = TRUE]
            /\ call' = [call EXCEPT ![c].phase = "cancelling"] /\ UNCHANGED told
       ELSE Answer(c, "conflict", {}) /\ UNCHANGED run
    /\ UNCHANGED <<pumpVars, config, acted, admins, threads, made, files, body, handed>>

Cancelling(t) == run # NoRun /\ run.thread = t /\ run.cancelled

\* Mutation: the cancel request is answered when it was passed on.
CancelAnsweredEarly(c) ==
    /\ Phase(c, "cancelling")
    /\ Answer(c, "ok", {call[c].on})
    /\ UNCHANGED <<pumpVars, runVars, admins, threads, made, files, body, handed>>

CancelAnswered(c) ==
    /\ Phase(c, "cancelling")
    /\ ~Cancelling(call[c].on)
    /\ Answer(c, "ok", {call[c].on})
    /\ UNCHANGED <<pumpVars, runVars, admins, threads, made, files, body, handed>>

Outcome ==
    CASE answer = "ok" -> "answered"
      [] answer \in {"cancelled", "closed"} -> "interrupted"
      [] OTHER -> answer

\* The stream is over: the server keeps the result and answers who waits.
RunReturns ==
    /\ run # NoRun /\ cons = "over"
    /\ threads' = IF run.thread # Query /\ threads[run.thread].owner # Nobody
                  THEN [threads EXCEPT ![run.thread].status = Outcome] ELSE threads
    /\ IF run.background THEN UNCHANGED <<call, told>>
       ELSE Answer(run.client, Outcome, IF run.thread = Query THEN {} ELSE {run.thread})
    /\ run' = NoRun /\ config' = NoConfig
    /\ prod' = "none" /\ due' = FALSE /\ requests' = {} /\ raising' = "none"
    /\ result' = "none" /\ held' = FALSE
    /\ queue' = <<>> /\ produced' = 0 /\ accepted' = 0
    /\ cons' = "fresh" /\ again' = FALSE /\ answer' = "none" /\ delivered' = <<>>
    /\ UNCHANGED <<admins, made, files, body, handed, acted>>

Busy == IF run = NoRun THEN {} ELSE {run.thread}
-----------------------------------------------------------------------------
(* Properties.                                                              *)

\* Safety.  Model and tools only ever act as the caller of the run, the lease
\* counts against the same user and the server's limits apply, whatever the
\* client put into the configuration and however the graph passes it on; and the
\* run works on a thread of that user.
RunsAsItsCaller ==
    run # NoRun =>
        /\ acted \subseteq {run.user}
        /\ prod # "none" => config.claims = run.user /\ config.budget = "server"
        /\ run.thread # Query => made[run.thread] = run.user

\* Safety.  Nobody gets at what belongs to somebody else, neither directly nor by
\* what a run does for them.
TenantsApart == OwnersKeepTheirs /\ RunsAsItsCaller
=============================================================================
