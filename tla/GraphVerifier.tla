----------------------------- MODULE GraphVerifier -----------------------------
(***************************************************************************)
(* GraphRuns with its clients: either the scripts that verify a deployment, *)
(* scripts/verify_agent_graph_http.py against a server with an offline      *)
(* model and verify_tenant_isolation of scripts/verify_container_smoke.py,   *)
(* or clients that ask for anything in any order.                           *)
(***************************************************************************)
EXTENDS GraphRuns

CONSTANTS
    Tokens,    \* the users of the scripts: <<first, second, administrator>>
    script,    \* the script's client
    Guests,        \* bound: users that ask without a script
    GuestThreads   \* bound: threads they ask about

ASSUME VerifierAssumption ==
    /\ Tokens \in Seq(Users) /\ Len(Tokens) = 3 /\ script \in Clients
    /\ \A i, j \in 1..3 : Tokens[i] = Tokens[j] => i = j
    /\ Guests \subseteq Users /\ GuestThreads \subseteq Ids

VARIABLES
    plan,      \* the script that runs, or what clients without one ask about
    at,        \* its next step
    verdict,   \* how it ended
    late,      \* a deadline passed that the script does not wait for
    leases     \* what the server of the script recorded

scriptVars == <<plan, at, verdict, late, leases>>
verifierVars == <<graphVars, scriptVars>>

A == Tokens[1]
B == Tokens[2]
D == Tokens[3]
Denied == {"forbidden", "absent"}
Over == {"passed", "failed"}

\* A request and the answers the script goes on after.
Step(as, op, on, wanted) ==
    [kind |-> "request", request |-> Request(as, op, on, as), wanted |-> wanted, sees |-> {}]
Forging(step, as) == [step EXCEPT !.request.owner = as, !.request.claims = as]
Waiting(step) == [step EXCEPT !.request.waits = TRUE]
Seeing(step, seen) == [step EXCEPT !.sees = seen]
\* A look at the counters, once or until they are so.
Leases(kind, acquired, released) == [kind |-> kind, acquired |-> acquired, released |-> released]
File(as, size, intact, wanted) ==
    [kind |-> "upload", as |-> as, wanted |-> wanted, sees |-> {}, body |-> Upload(size, size, intact)]

\* _verify: strangers are refused and two runs are answered,
AnsweredPlan == <<
    Step(Nobody, "search", 0, {"unauthorized", "forbidden"}),
    Step(A, "create", 0, {"ok"}),
    Step(B, "read", 1, Denied), Step(D, "read", 1, Denied),
    Step(B, "run", 1, Denied), Step(D, "run", 1, Denied),
    Forging(Step(A, "run", 1, {"answered"}), B), Leases("look", 1, {1}),
    Step(A, "state", 1, {"answered"}),
    Step(B, "create", 0, {"ok"}),
    Step(B, "run", 2, {"answered"}), Leases("look", 2, {2}) >>
\* one is cancelled,
CancelledPlan == <<
    Step(A, "create", 0, {"ok"}),
    Waiting(Step(A, "background", 3, {"ok"})), Leases("poll", 3, {2, 3}),
    Step(A, "cancel", 3, {"ok"}), Leases("poll", 3, {3}),
    Step(A, "read", 3, {"interrupted"}) >>
\* one meets its deadline; then the identities all of them had.
TimeoutPlan == <<
    Step(B, "create", 0, {"ok"}),
    Waiting(Step(B, "run", 4, {"timeout"})), Leases("look", 4, {4}),
    [kind |-> "subjects", users |-> {A, B}] >>

\* verify_tenant_isolation: files,
FilePlan == <<
    Step(Nobody, "query", 0, {"unauthorized"}), Step(Nobody, "search", 0, {"unauthorized"}),
    File(A, 1, TRUE, {"ok"}), Seeing(Step(A, "file_list", A, {"ok"}), {A}), Step(A, "file_read", A, {"ok"}),
    File(B, 1, TRUE, {"ok"}), Seeing(Step(B, "file_list", B, {"ok"}), {B}), Step(B, "file_read", B, {"ok"}),
    Step(B, "file_read", A, {"absent"}), Step(B, "file_delete", A, {"absent"}),
    File(A, 1, FALSE, {"invalid"}), File(A, FileMax + 1, TRUE, {"too_large"}),
    Step(A, "tool_read", A, {"ok"}), Step(B, "tool_read", A, {"absent"}) >>
\* threads,
ThreadPlan == <<
    Step(A, "assistant_search", 0, {"ok"}), Step(A, "assistant_read", 0, {"ok"}),
    Step(A, "assistant_create", 0, {"forbidden"}),
    Seeing(Forging(Step(A, "create", 0, {"ok"}), B), {1}), Seeing(Forging(Step(B, "create", 0, {"ok"}), A), {2}),
    Seeing(Step(A, "search", 0, {"ok"}), {1}), Seeing(Step(B, "search", 0, {"ok"}), {2}),
    Seeing(Step(A, "search", 0, {"ok"}), {1}), Seeing(Step(B, "search", 0, {"ok"}), {2}),
    Step(B, "read", 1, Denied), Step(B, "state", 1, Denied), Step(B, "write", 1, Denied),
    Step(B, "patch", 1, Denied), Step(B, "copy", 1, Denied \cup {"conflict"}), Step(B, "delete", 1, Denied),
    Step(B, "run", 1, Denied) >>
\* and the administrator.
AdminPlan == <<
    [kind |-> "promote", user |-> B],
    Step(B, "read", 1, Denied), Step(B, "file_read", A, {"absent"}),
    Step(A, "read", 1, {"idle"}), [kind |-> "unchanged", thread |-> 1, owner |-> A],
    Step(A, "file_delete", A, {"ok"}),
    [kind |-> "files", owners |-> {B}] >>

Plan(p) == CASE p = "http" -> AnsweredPlan \o CancelledPlan \o TimeoutPlan
             [] p = "smoke" -> FilePlan \o ThreadPlan \o AdminPlan
             [] OTHER -> << >>

VerifierInit ==
    /\ RunsInit
    /\ plan \in {"http", "smoke", "threads", "files"}
    /\ admins = IF plan \in {"http", "smoke"} THEN {D} ELSE {}
    /\ at = 1 /\ verdict = "none" /\ late = FALSE
    /\ leases = [acquired |-> 0, released |-> 0, subjects |-> {}, models |-> {}]
-----------------------------------------------------------------------------
(* The script.                                                              *)

Scripted == plan \in {"http", "smoke"}
Working == Scripted /\ verdict = "none" /\ at <= Len(Plan(plan))
Now == Plan(plan)[at]
Passes == at' = at + 1 /\ verdict' = IF at = Len(Plan(plan)) THEN "passed" ELSE verdict
Fails == verdict' = "failed" /\ UNCHANGED at
Judged(good) == IF good THEN Passes ELSE Fails
Heard == told[script].status # "none"

ScriptSends ==
    /\ Working /\ call[script] = NoCall /\ ~Heard
    /\ \/ Now.kind = "request" /\ Send(script, Now.request)
          /\ UNCHANGED <<admins, threads, made, files, body, handed>>
       \/ Now.kind = "upload" /\ SendUpload(script, Now.as, Now.body)
    /\ UNCHANGED <<pumpVars, runVars, scriptVars>>

\* A connection that breaks or times out fails the script.
ScriptHears ==
    /\ Working /\ call[script] = NoCall /\ Heard
    /\ Judged(told[script].status \in Now.wanted
              /\ (Now.sees = {} \/ told[script].seen = Now.sees))
    /\ told' = [told EXCEPT ![script] = Untold]
    /\ UNCHANGED <<pumpVars, runVars, admins, threads, made, files, call, body, handed, plan, late, leases>>

CountersAgree == leases.acquired = Now.acquired /\ leases.released \in Now.released

ScriptLooks ==
    /\ Working /\ call[script] = NoCall
    /\ \/ Now.kind = "look" /\ Judged(CountersAgree /\ ~held)
       \/ Now.kind = "poll" /\ CountersAgree /\ Passes
       \/ Now.kind = "subjects" /\ Judged(leases.subjects = Now.users /\ leases.models = Now.users)
       \/ Now.kind = "unchanged"
          /\ Judged(threads[Now.thread].owner = Now.owner /\ ~threads[Now.thread].changed)
       \/ Now.kind = "files" /\ Judged(files = Now.owners)
    /\ UNCHANGED <<graphVars, plan, late, leases>>

\* UPDATE users SET role = 'admin'
ScriptPromotes ==
    /\ Working /\ Now.kind = "promote"
    /\ admins' = admins \cup {Now.user}
    /\ Passes
    /\ UNCHANGED <<pumpVars, runVars, threads, made, files, call, told, body, handed, plan, late, leases>>

\* A request is not answered within thirty seconds; the answer is not waited for.
ScriptTimesOut ==
    /\ Working /\ call[script] # NoCall
    /\ Fails /\ late' = TRUE
    /\ UNCHANGED <<graphVars, plan, leases>>

\* Ten seconds of polling are over.
ScriptGivesUp ==
    /\ Working /\ Now.kind = "poll" /\ ~CountersAgree
    /\ Fails /\ late' = TRUE
    /\ UNCHANGED <<graphVars, plan, leases>>
-----------------------------------------------------------------------------
(* The server of the script: leases are recorded as they are acquired and   *)
(* released, a nested hold is neither; the model either answers or waits.   *)

Recorded ==
    leases' = IF plan # "http" \/ run = NoRun THEN leases
              ELSE [acquired |-> leases.acquired + (IF ~held /\ held' THEN 1 ELSE 0),
                    released |-> leases.released + (IF held /\ ~held' THEN 1 ELSE 0),
                    subjects |-> leases.subjects \cup (IF ~held /\ held' THEN {config.claims} ELSE {}),
                    models |-> leases.models \cup acted']

Unscripted == plan # "http"
OfflineChunk == run # NoRun /\ (plan = "http" => ~run.waits)
Asked == run # NoRun /\ (plan = "http" => run.cancelled)

Runs(step) == step /\ Recorded /\ UNCHANGED <<plan, at, verdict, late>>
Pumps(step) == Runs(PumpStep(step))

DeadlinePasses ==
    /\ PumpStep(Deadline) /\ Recorded
    /\ late' = (late \/ (plan = "http" /\ ~(run.waits /\ ~run.background /\ held)))
    /\ UNCHANGED <<plan, at, verdict>>

GraphSteps ==
    \/ Pumps(LeaseGranted)
    \/ Unscripted /\ Pumps(LeaseRefused)
    \/ OfflineChunk /\ Pumps(Chunk)
    \/ Unscripted /\ Pumps(ChunkRefused)
    \/ Pumps(Put)
    \/ OfflineChunk /\ (plan = "http" => acted # {}) /\ Pumps(Exhausted)
    \/ Unscripted /\ Pumps(SourceFails)
    \/ DeadlinePasses \/ Pumps(Interrupted)
    \/ Pumps(Closed) /\ (plan = "http" => result' # "error")
    \/ Pumps(Resume) \/ Pumps(GetChunk) \/ Pumps(GetFinished) \/ Pumps(Cleaned)
    \/ Asked /\ (Pumps(CallerCancels) \/ Pumps(CallerCancelsAgain) \/ Pumps(CallerCloses)
                 \/ Pumps(CallerClosesUnstarted))
    \/ Runs(StartRun) \/ Runs(Act) \/ Runs(RunReturns)

ServerSteps ==
    \E c \in Clients :
        \/ TenantStep(c, Busy) /\ UNCHANGED <<pumpVars, runVars, scriptVars>>
        \/ ~Scripted /\ UploadBreaks(c) /\ UNCHANGED <<pumpVars, runVars, scriptVars>>
        \/ Runs(BeginRun(c)) \/ Runs(QueryRejected(c)) \/ Runs(AskCancel(c)) \/ Runs(CancelAnswered(c))
-----------------------------------------------------------------------------
(* Without a script: any client, any request.  An answer is read before     *)
(* anything else happens; nothing in the system looks at it.                *)

Quiet == Scripted \/ \A c \in Clients : told[c] = Untold

ClientHears ==
    /\ ~Quiet
    /\ told' = [c \in Clients |-> Untold]
    /\ handed' = [c \in Clients |-> NoBody]
    /\ UNCHANGED <<pumpVars, runVars, scriptVars, admins, threads, made, files, call, body>>

AskAboutThreads(c, as) ==
    \/ \E op \in ThreadOps \ {"search", "create", "run", "patch"}, t \in GuestThreads : Send(c, Request(as, op, t, as))
    \/ \E op \in AssistantOps \cup {"search", "query"} : Send(c, Request(as, op, 0, as))
    \/ \E owner \in Guests : Send(c, Request(as, "create", 0, owner))
    \/ \E owner \in Guests, t \in GuestThreads : Send(c, Request(as, "patch", t, owner))
    \/ \E claims \in Guests, t \in GuestThreads :
          Send(c, [Request(as, "run", t, as) EXCEPT !.claims = claims])

\* Bound: what guests ask while a run is at work.
Meanwhile == {"cancel", "delete"}

AskAboutFiles(c, as) ==
    \/ /\ \E op \in FileOps, f \in Guests : Send(c, Request(as, op, f, as))
       /\ UNCHANGED <<admins, threads, made, files, body, handed>>
    \/ \E size \in 0..SizeMax, intact \in BOOLEAN : \E declared \in {Absent, Unreadable, size} :
          SendUpload(c, as, Upload(size, declared, intact))

ClientSteps ==
    /\ \/ /\ plan = "threads"
          /\ \E c \in Clients, as \in Guests \cup {Nobody} : 
                AskAboutThreads(c, as) /\ (run # NoRun => call'[c].op \in Meanwhile)
          /\ UNCHANGED <<admins, threads, made, files, body, handed>>
       \/ /\ plan = "files"
          /\ \E c \in Clients, as \in Guests \cup {Nobody} : AskAboutFiles(c, as)
       \/ ~Scripted /\ RoleChanges
    /\ UNCHANGED <<pumpVars, runVars, scriptVars>>

VerifierNext ==
    \/ ClientHears
    \/ Quiet /\ (GraphSteps \/ ServerSteps \/ ClientSteps)
    \/ ScriptSends \/ ScriptHears \/ ScriptLooks \/ ScriptPromotes
    \/ ScriptTimesOut \/ ScriptGivesUp

\* The fairness of StreamPump, and an answer is read.
VerifierFairness ==
    /\ WF_verifierVars(ClientHears)
    /\ WF_verifierVars(DeadlinePasses)
    /\ WF_verifierVars(Pumps(Interrupted))
    /\ WF_verifierVars(Pumps(Closed))
    /\ WF_verifierVars(Pumps(Put))
    /\ WF_verifierVars(Pumps(GetChunk))
    /\ WF_verifierVars(Pumps(GetFinished))
    /\ WF_verifierVars(Pumps(Cleaned))

VerifierSpec == VerifierInit /\ [][VerifierNext]_verifierVars /\ VerifierFairness
-----------------------------------------------------------------------------
\* Safety.  Both scripts say of a server that works what they are for: neither
\* fails unless a run was slower than its deadline or the script's own.  So a
\* run is answered, and a cancellation too, only after its lease was released
\* and its result kept.
ScriptsSatisfied == verdict = "failed" => late
=============================================================================
