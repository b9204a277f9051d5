# Deep Data Agent: specifications, model checking and proofs

TLA+ specifications of the parts of Deep Data Agent whose correctness depends
on order: what happens when requests, threads, workers, containers, browser
tabs, Redis, MySQL and the disk interleave, fail or stop between two steps.
Every module is translated from the source; the comment at its head names the
file. TLC checks each component on a small instance, alone or composed with
those it interacts with; TLAPS proves nearly every safety property the runs
check, for every value of the constants. Source paths below are relative to
`data_agent/` unless they begin with another directory of the repository.

    tlc -workers 2 -config AgentLease.cfg MCAgentLease    # one run
    tlapm AgentLeaseProofs.tla                            # one module of proofs

`PROJECT.json` lists components, runs, the source lines every definition
stands for, a mutation for every checked property, the findings, and the
hazards of the code with the properties that watch each one.

## 1. Inventory of the system

A FastAPI service (several worker processes), a LangGraph agent server and a
Next.js client share MySQL, Redis and a volume of uploaded files; docker
compose starts them, scripts back them up, restore and verify them.

| component | state | what makes it hard |
|---|---|---|
| concurrency leases (`services/agent_lease.py`) | per agent one global and per user one sorted set in Redis, their TTLs; the lease held by the current context | many processes, lost replies, crashes, three clocks (deadline, lease, key) |
| run budget (`services/agent_budget.py`) | one ledger per run: counts, first failure, evidence for caching | parallel branches, SDK retries, middleware that swallows exceptions |
| graph runs and their stream (`services/agent_service.py`) | a producer task, a queue of one place, a generator; the configuration and identity of a run | cancellation at every await, also by the deletion of the thread |
| LangGraph authorization (`security/langgraph_auth.py`) | the owner in the metadata of a thread | a filter per resource and action, checked by a server that is not in the repository |
| upload limit (`security/upload_limit_middleware.py`) | the buffered body of each upload | lengths that lie, connections that break |
| Redis recovery (`services/redis_recovery.py`) | current client, failures, next probe; one lock per process (threads), one probe lock per event loop (async) | commands fail late, on clients already replaced |
| managed files (`services/managed_file_service.py`) | rows in MySQL, bytes on a volume | two systems and no common transaction; a row lock against snapshot reads; readers that lock nothing |
| column statistics (`services/file_statistics.py`) | none | one pass that stops at the first fault |
| query endpoint (`agent_server.py`, `AgentService.ainvoke`) | the answer cache in Redis | what may enter the cache, and who finds it: its keys leave the response limit out; deadline and cancellation at every await |
| rate limits (`services/rate_limit_service.py`) | a counter per scope, subject and window | INCR, EXPIRE and TTL are separate calls, a TTL is rounded to seconds; open or closed by scope when Redis is away |
| search and statistics tools (`tools/`) | a cached search; four worker slots | wider limits of another release; a thread outlives the call that gave up on it |
| schema (`config/database.py`, `migrations/`) | tables and the recorded revision | several processes, DDL that commits statement by statement |
| backup, restore, transport (`scripts/data_recovery.py`, `scripts/verify_backup_transport.py`) | a bundle of three domains; snapshots in a restic repository | a stop between two domains; services that come back meanwhile; damaged copies |
| accounts, roles, chat sessions (`services/auth_service.py`, `services/admin_service.py`, `services/session_service.py`, `scripts/bootstrap_admin.py`) | rows in MySQL | a role is checked at authentication only; unique keys and gap locks decide races |
| web client (`agent_chatui/src/`) | a token, two pages, attachments, a statistics card | answers that arrive after what asked for them was replaced |
| configuration (`config/config.py`) | constants of a process | limits that must fit one another |
| readiness (`readiness.py`) | none: it asks MySQL, Redis, the storage and the settings | one probe that raises must not hide the others |
| observability, verification scripts, utility library | none, or not of the running system | |

**How they interact.** A request passes the *rate limiter*; `POST /api/query`
then enters `asyncio.timeout`, holds a *lease*, looks into the answer *cache*
and runs the graph, whose *tools* share slots and caches with other requests.
The graph is wrapped (`ResourceBoundedAgentGraph`): its `stream`/`astream` hold
the lease (a nested hold when the caller already has it), open the *ledger* and,
in `astream`, run the graph in the *pump*'s producer task; behind the LangGraph
server the same wrapper serves threads that *authorization* filters by owner.
The HTTP clients and the tool middleware reserve from the ledger. Leases, cache
and rate limits ask *recovery* for a client and report failures back to it. File
routes share the session that authenticated the request with *managed files*.
Services and the bootstrap script prepare the *schema* when they start; *backup*
needs the writers stopped and the schema at its head.

**What correctness means.** Leases: never more runs at work than the limits, no
slot lost for ever, every waiter answered. Ledger: the limits hold on the wire,
a refusal is final and visible, only a clean answer may be cached. Pump: no
chunk or error lost or reordered, nothing left running, nobody waiting for ever.
Tenants: nobody sees a thread or a file of somebody else, tools act for the
caller. Recovery: one probe at a time, paced, not misled by late failures, back
when Redis is. Files: a row has its bytes, bytes have a row, the quota holds,
an error before the commit leaves nothing stored, what is read is what was
stored. Query: who passes was counted, who is refused had to be, cached answers
go only where they belong. Schema: a crash outside an upgrade leaves a state the
next start can identify, and who is up works on the head. Recovery of data: one
moment of all three domains, into empty ones only. Accounts: nobody gives up the
last administrator alone, rows stay consistent. Client: what it shows belongs to
the token it holds. Where the code keeps less than that, section 3 says so
(findings and exceptions).

## 2. Modules

| module | models | extends or instantiates | run |
|---|---|---|---|
| `AdmissionControl` | the promise of the concurrency boundary: runs are admitted while both limits leave room | | refined by `AgentLease`, used by `QueryApi` |
| `AgentLease` | `agent_lease.py` and the run deadlines of `agent_service.py` | `AdmissionControl` | `AgentLease`, `AgentLeaseFaults`, `AgentLeaseSyncStream` |
| `Configuration` | every limit of `config.py`, its ceiling, the relations a process insists on | | evaluated by `MCAgentLease` |
| `RunBudget` | `agent_budget.py` and the checkpoints of `stream` | | `RunBudget` |
| `StreamPump` | `ResourceBoundedAgentGraph.astream` | | in `GraphVerifier` |
| `UploadBody`, `TenantAccess` | the body limit; the LangGraph server with `langgraph_auth.py` | | in `GraphVerifier` |
| `GraphRuns` | one run of the graph: configuration, identity, lease, answer | `StreamPump`, `TenantAccess` | in `GraphVerifier` |
| `GraphVerifier` | its clients: two verification scripts, or anybody | `GraphRuns` | `GraphVerifier` |
| `RedisRecovery` | `RedisRecoveryState` | | in `RedisAccess` |
| `AsyncRedisRecovery` | `AsyncRedisRecoveryState` | `RedisRecovery` | in `RedisAccess` |
| `RedisAccess` | either of them, with the fairness each is given | `AsyncRedisRecovery` | `RedisAccess` |
| `ManagedFiles` | the operations of `ManagedFileService` that change rows or bytes | | `ManagedFiles`, `ManagedFilesQuota`, `ManagedFilesFailure` |
| `ColumnStatistics`, `FileAnalysis` | the sum of a column; the operations that read a file | `ManagedFiles` | `ManagedFiles` |
| `HttpRequests`, `RateLimit`, `AnswerCache`, `SearchTool`, `StatisticsSlots` | what one request meets on its way | | in `QueryApi` |
| `QueryApi` | `POST /api/query` as a whole | all five, and an instance of `AdmissionControl` | `QueryApi` |
| `SchemaStartup` | `_prepare_database` by several processes | | in `Deployment` |
| `DataRecovery`, `BundleTransport` | backup and restore; publish, retrieve, promote | | in `Deployment` |
| `Deployment` | docker compose, readiness, the operator | `SchemaStartup`, `BundleTransport` | `Deployment` |
| `Accounts` | registration, roles, the bootstrap script, chat sessions | | in `WebConsole` |
| `WebClient` | one browser tab | | in `WebConsole` |
| `WebConsole` | the tab against the server | `Accounts`, `WebClient` | `WebConsole` |

`MC…` modules give the constants of a run their values and its bounds their
definitions; `…Proofs` modules hold theorems. Definitions carry the names of the
source where they can. Definitions whose comment begins with *Mutation* are
plausible bugs that nothing in a specification uses: TLC finds the named
property violated when one of them replaces the definition it mutates.

### AgentLease

`globalSet`, `userSet`, `leaseLeft`, `globalKey`, `userKey` are what Redis keeps
(members, scores minus the Redis clock, key TTLs); `pc`, `waitLeft`, `runLeft`,
`depth` are what each run keeps. `AcquireGrants`/`AcquireRefuses` are the two
outcomes of the acquire script, pruning included: a refusal prunes and stores as
well. `PollReplyLost` is a script that ran and whose reply was lost;
`ReleaseDeferred` a release that found no client; `Crash` a dead worker; `Flush`
the loss of the Redis data. `Tick` decrements all countdowns; a key that reaches
zero takes its members along. Whether Redis can be reached is a free choice
here: `RedisRecovery` models how a process decides that.

An async run is driven by `asyncio.timeout`: time does not pass for it beyond
its deadline (`Overdue`). A run of the sync `stream()` compares the clock only
when a chunk arrives (`agent_service.py:276`), so nothing stops time for a
member of `SyncRuns`. Without `SyncRuns` the limits hold; with them they do not
(finding 1).

### Configuration

`Settings(env)` is what a process reads, `Starts(env)` that it does not
raise. `MCAgentLease` evaluates it at the defaults, at every ceiling and one
beyond, along the two relations the leases rest on, and for every kind of key
(`KeyKinds`): a key that is missing or a placeholder lets a process start and
only says it is not configured. `Origins` are what CORS may be told, of which a
wildcard is refused; `RateLimitEnabled` is the limiter's switch. A theorem
covers every environment. Two remarks on the code: `MODEL_MAX_RETRIES` must be positive and
at most 1, so it can only be 1; a jitter that is not a number passes `Config`
and is refused by the constructor of the recovery state instead.

### RunBudget

`ledger` is the `RunBudget` object, one critical section per action. `branch`
says where each task or thread of the graph is; `sent`, `ran` and `blemish`
record what really happened outside, so that the properties compare the ledger
with the world and not with itself. `Retry` and `AttemptFails` are the model
SDK, `Swallow` any fallback of the graph that eats an exception: both are
external and do whatever they may. `Return` is the check at the end of
`hold_run_budget` that a swallowed refusal still meets.

### StreamPump, TenantAccess, GraphRuns, GraphVerifier

In `StreamPump` code between two awaits is one step. `prod` and `cons` name the
await each side is suspended in; a cancellation (`due`, with `requests` saying
whose) is delivered when the task runs next, as asyncio does. The sentinel is
put only by a producer that is done, with `put_nowait` and only into an empty
queue (`Ends`); `CallerCancelsAgain` is a second cancellation during clean-up.

`TenantAccess` holds the threads with the owner in their metadata, the stored
files, and for every client the request it made (`call`) and the answer it got
(`told`). The LangGraph server is not in the repository: it calls
`authenticate`, then the handler for resource and action, and applies the filter
that the handler returns. `UploadBody` counts the bytes of a body against what
its header declares.

`GraphRuns` adds the run at work: `config` is what `_prepare_run_config` makes
of what it was given, `acted` the identities model and tools acted in. The
server works on one run at a time (`N_JOBS_PER_WORKER=1`). `GraphVerifier` is
driven by `scripts/verify_agent_graph_http.py`, by `verify_tenant_isolation` of
`scripts/verify_container_smoke.py`, or by clients that ask for anything. A
subagent is started without `langgraph_auth_user_id`, so the identity its
tools read is any the configuration still holds.

### RedisRecovery, AsyncRedisRecovery, RedisAccess

`available`, `client`, `probing`, `failures`, `wait` are the fields the lock
guards; `caller` and `handle` what each thread does outside the lock and with
which client. `BeginProbe` to `Publish` is the reconnect, `CallFails` and
`MarkUnavailable` are a command that fails and its later report: in between
another thread may have replaced the client. `Delays(n)` is the set of values
`_next_delay_locked` can return. `lost` and `sinceFailure` are history.

The async state has no flag (`probing` stays FALSE): the tasks of a loop queue
for the loop's probe lock and look again once they hold it; two loops may ping at
once. A task may be cancelled at any await. `publisher` is history: the loop whose
probe published the client. `RedisAccess` chooses at the start which of the two
classes the callers use (`style`); a service that has both keeps two states which
share nothing but Redis, so each goes its way as it would alone.

### ManagedFiles, ColumnStatistics, FileAnalysis

One user, since every query filters by owner. `rows` are the committed rows,
`disk` the bytes, `lock` the row lock of `SELECT ... FOR UPDATE`. A request's
transaction begins with the query that authenticates it
(`services/auth_service.py:128-180`), so at REPEATABLE READ its plain reads see
`snapshot` until a commit or rollback makes it `fresh`. `repeatable` chooses the
isolation level of the whole database once. Every statement and every disk
operation may fail, and a worker may die between any two. A commit may happen
and its answer be lost, which the handlers take for a failed commit: an upload
then unlinks the bytes of rows that exist (`CommitUnanswered`, phases "doubting"
and "doubted"), a removal leaves bytes without a row (`RemovalUnanswered`). A
batch that was committed and cannot be read back ends as "unread". To its caller
both are errors like "failed" (`Errors`), which is finding 3.
`orphans` is history: bytes abandoned by a crash, by an unlink that failed or by
such a removal.

`FileAnalysis` adds the requests that read: they look a file up in the snapshot
and then read bytes nothing locks, while others remove it and while somebody
alters the volume (`spoilt`). What statistics requests get is computed by
`ColumnStatistics`, the one pass of `calculate_statistics` with its limits on
rows, columns and cells, and compared with a definition of the exact sum over
the whole table (`Exact`). `IsTable` is what a file can say: rows of one width,
cells of a CSV always text.

Abstractions: a file is (request, content) because ids are UUIDs and `sha256`
identifies content; the byte quota is checked beside the count quota and in the
same way; every validation error is `Reject`; a temporary file left by a crash
inside `_write_file` is not told apart from a crash before it.

### QueryApi

One request is one element of `Requests`, with the gate it passes (`RateLimit`),
the run it becomes (`AnswerCache`) and the calls its graph makes (`SearchTool`,
`StatisticsSlots`). Redis may fail before or after applying any call of the
limiter, and may drop any entry. Time is counted in ticks, several to a second,
because a refusal passes Redis' `TTL` on, which is whole seconds and rounded to
the nearest (`Rounded`): a caller told to come back may be up to half a second
early, and one with less than that left is told a whole window, since a TTL of 0
is taken for none. No text of the repository promises that `Retry-After` reaches
the next window, so `RefusalIsHonest` allows that half second and no more.
Processes of any number of releases share the caches. An entry's key names user,
query and what `Policy` stands for (model, base URL, temperature, tools), but not
`AGENT_RESPONSE_MAX_CHARS` (`ResponseLimit`): an answer kept by a release that
allows more is found by one that allows less, and only `Lookup`, which measures
what it finds, keeps it from going out.
The lease is the specification that `AgentLease` is shown to implement,
`AdmissionControl`, with the limits of the endpoint; what a run's ledger allows
is a free choice here and the subject of `RunBudget`. `Abandon` is a deadline
or a cancellation at any await: it cancels a future that no thread has picked up
and leaves the others running with their slots. `Results` are the ways a graph
can end as far as `CompleteAnswer` looks at them; a run may report to several
ledgers, and `AllowsCache` asks all of them.

### Deployment

`SchemaStartup` counts the DDL statements that are `applied`; `versioned` and
`versions` are the table of versions and its rows. Identifying, stamping and
every statement of an upgrade are steps of their own, by `fastapi` and
`bootstrap_admin` at once, cut short anywhere. `disturbed` notes that two starts
overlapped or one was cut short, `known` whether the schema was recognisable.
`DataRecovery` walks through the docker commands of backup and restore; `data`
and `copies` are what each domain and the bundle hold, a number that grows with
every write, and the manifest names what the files held when it was written.
`BundleTransport` adds the repository, the anchor an operator keeps of the last
publication, and the staging directory of a retrieval. `Deployment` says who
calls what: docker restarts what crashed, the frontend waits for health, and
somebody may start a service by hand, or alter the bundle, at the wrong moment
(`meddled`). Health is
readiness, a probe for each of five components (`IsReady`), of which only the
migration's looks at what the modules hold. A database may be replaced under a start that is under way
(`StartUnderWay`), and who was started by hand may still write when the next
script begins (`StillThere`).

Abstractions: a manifest stands for its hash and a content for the bytes of a
file; sizes, counts, ages and incomplete snapshots only refuse more
(`TransferStops`).

### WebConsole

`Accounts` takes the statements of a handler one by one under REPEATABLE READ,
with the snapshot of the query that authenticates, the unique keys of the tables
and the row and gap locks that InnoDB takes for what the statements touch.
`WebClient` takes event handlers and effects of React as steps; `flight` is what
the tab has asked and nobody has answered; `synced` is `contentBlocksRef`, which
an effect updates one step after the state (`hasty` notes that a file was
dropped in between). `auth-client` does not compare the token its request was
made with, so a late sign-in may give a page another identity (`mixed`) and
a late 401 may end a newer session: both are stated as exceptions in
`IdentityShown` and `SessionSurvivesLateAnswers` and listed as hazards.

## 3. Runs

| run | instance | distinct states | shows |
|---|---|---|---|
| `AgentLease` | 3 users, 4 async runs, limits 2 and 1, TTL 4, deadline 2, wait 1, clean-up 1, one nested hold | 173 577 | limits and the refinement of `AdmissionControl` under lost replies, deferred releases and crashes |
| `AgentLeaseFaults` | 2 users, 3 runs, one sync, data loss at any time | 15 997 | what Redis counts stays within the limits and both sets agree; every slot is reclaimed, every waiter answered |
| `AgentLeaseSyncStream` | as above, no data loss | violation | finding 1 |
| `RunBudget` | 2 branches, 3 model requests, 2 tools, 2 tries | 104 847 | the limits on the wire, visibility of a refusal, evidence for the cache |
| `GraphVerifier` | 3 users, 2 clients, 4 threads, 3 chunks, bodies of up to 4 units | 245 215 | streams complete and in order, nothing left behind, both sides end; tenants apart; uploads whole or refused; the scripts fail only on a run that was too slow |
| `RedisAccess` | 3 threads, or 3 tasks of 2 loops; 4 clients, backoff 1 to 2, jitter 100 % | 206 244 | threads: single flight and pacing, immunity to late failures; tasks: a queue is no burst of pings, who may take a client away; both: recovery |
| `ManagedFiles` | 3 requests, 3 contents, batch 2, quota 2, some hundred tables | 1 249 791 | rows have bytes, nothing leaks, quota where reads are fresh, answers of readers are true |
| `ManagedFilesQuota` | same, no readers | violation | finding 2 |
| `ManagedFilesFailure` | same, no readers | violation | finding 3 |
| `QueryApi` | 4 requests, 2 users, 2 windows, 3 releases of 2 policies and 2 response limits | 585 436 | metering, honest refusals, both caches, worker slots |
| `Deployment` | 2 revisions of 2 statements, 2 processes, one write, 2 snapshots | 1 490 389 | schemas stay identifiable, up means head, a restore is the backup, nothing is overwritten, foreign schemas untouched |
| `WebConsole` | 2 requests in use beside the tab, 2 tokens, 2 answers in flight, 2 files | 298 389 | rows consistent, the last administrator, the identity shown, sessions, attachments and the card under late answers |

**Why these bounds.** *Leases*: two runs of one user exercise the user limit,
three users against two slots the global one; TTL 4 is the least that satisfies
`RunTimeout + CleanupGrace < TTL` with a deadline of 2, which is the least that
leaves a wait window of 1; leases of different age then share a key. *Budget*:
two tries of two branches exceed three requests, so refusals happen in the
middle of a retry, beside a tool and after one. *RedisAccess*: two threads with
stale failures and one that probes; four clients tell all handles and the
current client apart; with jitter 100 % both clamps of the delay matter; two
tasks queue on one loop's lock while another loop probes.

*GraphVerifier*: three chunks are one in the queue, one in `put()` and one to
come. The constraint `Small` splits what unscripted clients do into worlds that
share no state: files without threads; threads without a run, one request at a
time; a run of one chunk beside cancellation and deletion by another client; a
stream of three chunks alone. Guests of a world are interchangeable, so one of
them owns the run. Scripts run to their end with everything the server may do
meanwhile; connections that break under a script are left out, since the script
then stops. A constraint only cuts behaviours off, so `BothEnd` is checked on
every behaviour inside the worlds.

*ManagedFiles*: two uploads race and a third request removes or reads what they
store; a batch of two against two places may fit or not. A reader sees nothing
of what others store except the file it reads, so `ReadsApart` lets one request
read what one other has stored alone, with the third listing or deleting, and
computes sums when nobody else is at work. After a commit taken for failed one
other request goes on (`OneDoubt`): it sees the rows and the bytes that are left,
and a third would see the same. Requests and contents are
interchangeable and the run checks safety only, so symmetry is sound. The tables
lie on both sides of every limit of `calculate_statistics`, with every kind of
cell in every position.

*QueryApi*: runs read nothing of the limiter but that it let them through, and
the limiter nothing of theirs; `LimiterFirst` explores all interleavings of the
limiter before a run begins and those of the runs from one of its outcomes. A
second has three ticks, so a `TTL` is rounded up and down, and a limit of one
makes the second request of a window a refusal; two windows of two seconds let a
lost EXPIRE, and an expiry between two calls, matter. `OneOfItsReleases` sends
each request to one or two of the releases: the two of one user meet under one
policy with either response limit asking first, and under two policies.
`ToolsApart` lets one kind of tool work at a time, for they share nothing.
*Deployment*: databases of every kind and overlapping starts are explored while
nothing is stored; data is stored, backed up and restored over a schema whose
starts went well. A bundle travels while the services stand still, since the
transport reads neither schema nor data, but beside the beginning of a backup. A
state in which somebody meddled is checked and not continued; what follows from
one is covered by the theorems only. One earlier snapshot and one published are
two that a retrieval can confuse. *WebConsole*: the server alone with everything
it does, then the tab against registrations by others; files only while nobody
registers. Two tokens, one of which may expire, and two answers in flight are
what a late answer needs. States after a hasty drop are checked and not
continued.

`CHECK_DEADLOCK FALSE` stands where the system really stops: every run is over,
every request was handled. The other runs check deadlock.

**Fairness.** `AgentLease`: time passes; polls are made and answered; an async
run's deadline, its unwinding and its release are driven by the event loop.
Nothing is assumed of the work itself, nor of a sync run. `RedisAccess`:
threads finish the commands they began (the socket timeout), the clock runs, and
requests keep coming, so a probe that stays due is made by some thread
(`ThreadsFair`); the same of the tasks of all loops together; a probe that
can begin again and again is in the end not cancelled, which is strong fairness
because a cancellation disables it (`TasksFair`). `GraphVerifier`: the loop runs what is ready,
the deadline passes, the graph's own clean-up ends and clients read their
answers; neither the graph nor the caller need ever move. All other runs check
safety only and assume none.

### Findings

1. **A sync stream outlives its lease** (`agent_service.py:276`, run
   `AgentLeaseSyncStream`). The deadline is compared when a chunk arrives; a run
   blocked in one long step outlives its 75 s lease and the next run of the same
   user is admitted beside it. `.trae/specs/bound-agent-resource-use/spec.md:147`
   and `:173-174` promise one run per user with a TTL that covers the deadline.
2. **The quota is counted in an old snapshot** (`managed_file_service.py:391`,
   run `ManagedFilesQuota`). At InnoDB's default isolation the count inside the
   row lock is as old as the authentication of the request unless the sweep of
   expired files committed in between, so concurrent uploads exceed
   `FILE_USER_MAX_COUNT`. `QuotaWithFreshReads` shows that the lock is enough
   where reads are fresh.

3. **A failed upload may have stored its batch** (`managed_file_service.py:465`,
   run `ManagedFilesFailure`). The rows are read back after the commit (`:464-465`);
   when that fails the caller is answered 503 `file_storage_unavailable` and rows
   and bytes stay. When the answer to the commit is lost, the caller is answered
   503 `file_database_error`, the rows exist and their bytes are unlinked
   (`:453-457`). `.trae/specs/isolate-file-ingestion/spec.md:112-115` and
   `checklist.md:12` promise that an upload which fails at any step, the database
   included, leaves neither metadata nor files (`FailureLeavesNothing`). What the
   code keeps instead is the theorem `FailedUploads`.

Exceptions that properties name because the code allows them: an upload whose
commit was taken for failed destroys the bytes of its rows (`RowsHaveBytes`, part
of finding 3); a `TTL` rounded down (`RefusalIsHonest`); an operator who starts a
service or alters the bundle while a script works (`RestoredIsTheBackup`,
`NothingOverwritten`, `UpMeansHead`); files dropped before an effect has run
(`AttachmentsFit`); a late sign-in under another page (`IdentityShown`); two
administrators who demote each other leave none (`AdminLostOnlyByRace`); the
bootstrap script may report an administrator who lost the role meanwhile; a late
answer of `auth-client` (above); a probe of one loop that fails late drops the
client of another (`DroppedByCommandOrOtherLoop`); a start
that was cut short, or that overlapped with another, may leave a schema that no
later start recognises (`StaysIdentifiable`), or tables at the head with a
version that readiness refuses (`UpMeansHead`).

## 4. Proofs

Every theorem below is checked by TLAPS for all values of the constants that
satisfy the named `ASSUME`s of its modules; TLC evaluates those assumptions in
the runs. Where a run composes modules, the theorem is about the composed
specification of that run, without its bounds (constraints, symmetry, the
number of requests, chunks, threads or names). `PROJECT.json` lists 59 theorems;
between them they state every property of the passing runs but the liveness.

* **`AgentLeaseProofs`** — `TypeCorrect`, `LeaseInvariant`,
  `BoundedConcurrency`, `ImplementsAdmission`. `ConcurrencyBound` is not
  inductive: that a slot is free in Redis says nothing unless every run at work
  still counts there. `LeaseInv` adds that: a run at work is in both sets with
  time left (`HeldLeaseCounts`), its deadline and unwinding end before its lease
  (`DeadlineFits`), and no key expires before its members (`KeyCovers`). The runs
  at work are then a subset of the live members, which the script bounds. These
  theorems assume `SyncRuns = {}` and speak of `Spec`, without loss of data; the
  module's assumption `RunTimeout + CleanupGrace < TTL` is what `config.py:305`
  enforces plus the deployment's duty that unwinding fits in the margin. The
  refinement theorem covers initial states and steps; `AdmissionControl` has no
  fairness, so that is all of it. `LeasesStayTogether` needs neither assumption:
  under `FlushSpec`, with sync runs and any loss of data, what Redis counts stays
  within the limits and agrees in both sets, because a key that expires takes
  only members that are due (`RegisterInv`). `StartedIsConsistent` is about
  `Configuration`: in whatever environment a process starts, its limits keep to
  the relations the other modules assume.
* **`RunBudgetProofs`** — `BudgetTypeCorrect`, `LedgerInvariant`, `BudgetHolds`,
  `RefusalNeverHidden`, `CacheIsEvidenced`, `RefusalFinal`. The invariant has
  three parts per run: what was sent plus what branches hold reserved is at most
  what is charged, and that at most the limit (`Accounted`); a run not
  begun has touched nothing, a run that succeeded has no branch at work and no
  refusal, and only such a run is completed (`Settled`); whatever happened that
  forbids caching shows in the ledger (`Evident`). The counting lemmas about
  branches that move in and out of a place need `Branches` finite and nothing
  else.
* **`GraphVerifierProofs`** — first `StreamPump` alone: `PumpInvariant`,
  `NothingLeftBehind`, `SentinelAfterEnd`, `ChunksDelivered`, `ErrorsReported`,
  `StreamIsFaithful`, for any number of chunks. `PumpInv` says where the two sides
  can be together (`Together`), that every accepted chunk is delivered or in the
  queue (`Counted`), and that the generator's answer is the producer's result or
  the caller's doing (`Reported`). Then the system of the run, `VerifierSpec`:
  every step of it is a step of the pump, a reset of the pump or leaves it alone
  (`GraphCases`), so `RunsEndClean` and `RunsStreamFaithfully` follow;
  `UploadsAreWhole` and `TenantsAreApart` rest on `VerifierInv`. Its parts are
  that a thread is made once and its owner is nobody else (`Owned`), that every
  request under way asks in its caller's name (`Asks`), that whoever was told was
  told of what is his (`Told`), and that configuration, acts and thread of a run
  are those of the user who asked for it (`RunInv`, `OnItsBehalf`).
  `ScriptsKept` states `ScriptsSatisfied`: neither script fails a server that
  works, unless a run was too slow (`late`). Nothing about a verdict is inductive:
  a script fails because of an answer, and the answer depends on every step
  before it. `ScriptInv` therefore says where a script is as a function of the
  steps that are `Done`: who asks what and was told what (`Talking`), which
  threads and files the steps have made and how the runs on them ended (`World`),
  which run is at work and on whose account (`AtWork`), what may happen to it
  (`Course`: a run that answers is `LeftAlone`, the one in the background is
  `Cancelled`, the slow one meets its deadline with its lease, `Overdue`), and
  what the server counted (`Counters`). `Births`, `Maker`, `Stored`, `Ended` and
  `End` are its tables; no variable is added. The proof goes through the steps of
  both scripts: what the server answers in that world is what the step wants
  and sees, and the answer leads to the world of the next step; then through the
  server's own steps, none of which leaves the course. A deadline that passes
  elsewhere makes the run `late`, and nothing is claimed after it. The scripts
  are fixed, with three different accounts; chunks, clients, users, threads and
  limits are arbitrary, and so is the order of what the server does.
* **`RedisRecoveryProofs`** — `DelayBounds`, `RecoveryTypeCorrect`, `OneProbe`,
  `ProbesAreRationed`, `StaleFailuresIgnored`, of the threads in `AccessSpec`,
  the specification the run checks. Pacing rests on `Rested` (what is left to
  wait plus what has passed since the failure is never less than the initial
  backoff), and that on `DelayBounds`; that stale failures take nothing on
  `Reports` (a thread about to report a failure holds a client in `lost`). For
  the event loops, with any number of tasks and loops: `AsyncTypeCorrect`,
  `QueuesArePaced` and `OnlyOtherLoopsDrop`, from `AsyncInv` (who is at a probe
  holds its loop's lock, and none of the loop that published the client is while
  that client is there: `PublisherAtRest`).
* **`ManagedFilesProofs`** — `FilesTypeCorrect`, `BytesOfEveryRow`, `NoLeak`,
  `FailedUploads`, `QuotaHolds`. `FailedUploads` says what each of the three
  kinds of error leaves: nothing where the commit did not happen, rows with
  their bytes where they could not be read back, rows without bytes where the
  commit was taken for failed; bytes of a crash or a failed unlink apart.
  `BytesInv` adds why no request destroys what another is about to commit: until
  a request commits, no row, no snapshot and no removal of another request names
  its files (`Untouched`), what it wrote is part of its batch and on the disk
  (`Booked`), and files about to be unlinked have no row unless their upload
  took its commit for failed (`Cleared`). `QuotaInv` says that only the holder
  of the lock counts or writes (`Locked`) and that what it will commit fits
  beside the rows (`Roomy`). `ReadersAreRequests` is a refinement: seen through
  its own variables `AnalysisSpec` is `FilesSpec`, so all of this holds with
  readers at work (`FilesStaySound`). `ReadersAreToldTheTruth` needs that a file
  somebody asks for is of an upload that has ended, and once gone is never
  stored again (`Sought`).
  `StatisticsAreExact` is induction over data, for tables of every length and
  width: the one pass with its early exits ends with the exact sum, or with the
  refusal the whole table deserves. The library's induction theorems cannot be
  instantiated here, so the module proves what it needs with sets: a set of
  naturals that contains 0 and with every `i < n` also `i + 1` contains `0..n`
  (`UpTo`, from the pigeonhole theorem of finite sets: adding 1 would inject the
  rest of it into a smaller set), and the same for the subsets of a finite set
  (`Subsets`). On these rest that a fold over a set is what it says whatever
  order it takes its elements in (`SumOfOneAndRest`), that the recursive
  function of the pass exists (`ScanDefined`), and that after each row its
  account is that of the rows so far (`LoopPasses`). `AnswersHold` combines both.
* **`QueryApiProofs`** — of `QuerySpec`, the five modules together.
  `CachesStayHonest`: `CacheInv` (an entry was made for its very key, clean and
  complete, by whoever still had to store it) and `SearchInv`.
  `SlotsAreConserved`: what is inductive here is the property itself, with the
  types of `SlotsInv`; the proof is the counting of slots as calls come and go.
  That a found answer fits holds for any response limits, since none of them is
  part of a key. `RequestsAreMetered` and `RefusalsAreHonest`: a counter
  says during its window exactly how many were counted in it, and never more
  than were (`CounterInv`), because clock, stamps and expiries keep their order
  (`ClockInv`); who was refused had `Limit` others before him (`DecisionInv`). The told delay is
  a rounded one: `RoundingIsShort` bounds what is lost by `HalfSecond`, and
  `RetryMeetsLaterWindow` adds it to the expiry, which is never before the end of
  the window.
  The count goes through increments, expiries and losses as a cardinality of a
  set of requests.
* **`DeploymentProofs`** — `InvariantHolds` for any chain of revisions and any
  set of repeatable statements, and from it `AlwaysIdentifiable`, `ReadyMeansHead`,
  `RestoresAreFaithful`, `ForeignKept`, `NothingIsOverwritten`. `DeploymentInv`
  says what a start may find: exactly what it takes the schema for while starts
  do not overlap (`ExactInv`), at least what the version claims when they do
  (`RacingInv`), nothing written where nothing is recognised (`ForeignInv`).
  A backup copies what was there when it began, command by command
  (`BackupInv`), what was validated is still what a restore reads unless somebody
  altered it (`RestoreInv`), a manifest never names other contents than its holder has
  (`HeldInv`: bundle, anchor, transfer), and a restore fills one empty domain
  after the other (`RestoreInv`).
* **`WebConsoleProofs`** — `RowsStayConsistent` and `LastAdminLostByRace` with
  any number of requests: who touched a row holds its lock, and who clears a
  session has seen all its messages since the gap is locked (`AccountsInv`).
  `CardNeverStuck`, `AttachmentsAlwaysFit`, `ShownIsTheTokens`,
  `LateAnswersEndNoSession` rest on `TabInv`: which answers can still come on
  which page (`PlaceInv`), one verification at a time (`VerifyInv`) and of the
  token that is held (`IdentityInv`), one upload whose files fit beside the
  blocks (`UploadInv`), a download in flight of the token that is held
  (`CardInv`).

**What the proofs changed.** Attempts that failed showed where the models were
wrong outside the bounds of the runs. A database replaced under a start, and
writers left over from an earlier meddling, had been taken for sound
(`StartUnderWay`, `StillThere` in `Deployment`). `CASE` with guards that overlap
chooses any of them: `TenantAccess`, `UploadBody` and `ColumnStatistics` now
have disjoint alternatives. A ping in `AsyncRedisRecovery` needs a client to
ping. The scripts have no answer to wait for if no body may be uploaded, or if
two of the three accounts they sign in with are the same: `UploadBody` now
assumes the positive limit that `config.py:210` enforces, `GraphVerifier` three
different tokens. Assumptions that had been implicit are stated: requests are finitely many,
limits are numbers, users are no threads, tables are tables
(`RequestsAssumption`, `SlotsAssumption`, `TenantAssumption`,
`StatisticsAssumption`, `TablesAssumption` and the like).

**Only model-checked.** All liveness (`SlotReclaimed`, `WaiterAnswered`,
`BothEnd`, `Recovers`): fairness and ENABLED are beyond the prover.
Type invariants are proved where they are not part of the invariants above and
were checked by TLC before; runs list the properties that could fail for another
reason.

## 5. Not modelled, and what is left

Not modelled: validation of names and contents and the decimal arithmetic of
the statistics (pure, sequential functions); logging, redaction and reports;
rendering, the thread list, the agent inbox and the stream library of the
client; building the graph, and the model itself; tokens and password hashing
(libraries); CI, release checks and the smoke scripts that compare texts and
configurations; the utility library, which the service does not import. The
collector that joins the ledgers of one invocation is represented by the set of
ledgers `AllowsCache` is given.

What TLAPS can state of the runs is proved; the liveness properties would need
a prover for ENABLED and fairness. Models that could be added: the drill of
`scripts/verify_data_recovery.py` over `Deployment`, and
`scripts/verify_agent_budget_http.py` over `RunBudget`.
