----------------------------- MODULE TenantAccess -----------------------------
(***************************************************************************)
(* Who sees and changes what.  The LangGraph server, which is not in the    *)
(* repository, calls authenticate and then the handler for resource and     *)
(* action of security/langgraph_auth.py, and does what was asked to the     *)
(* threads the handler's filter leaves.  Every query over managed files     *)
(* filters by the owner itself.                                             *)
(***************************************************************************)
EXTENDS UploadBody, FiniteSets

CONSTANTS
    Users,        \* the rows of table users
    Nobody,       \* no user: a request without a token
    MaxThreads    \* bound: threads ever created

ASSUME TenantAssumption ==
    /\ Nobody \notin Users
    /\ MaxThreads \in Nat
    /\ Users \cap (0..MaxThreads) = {}    \* a user is not mistaken for a thread

VARIABLES
    admins,    \* users whose role is admin
    threads,   \* the threads of the server
    made,      \* history: who created each
    files,     \* users with a stored file, one each
    call,      \* the request of each client
    told       \* its last answer

tenantVars == <<admins, threads, made, files, call, told, body, handed>>

Ids == 1..MaxThreads
Unborn == [owner |-> Nobody, changed |-> FALSE, status |-> "unborn"]
Deleted == [Unborn EXCEPT !.status = "deleted"]
Fresh(owner) == [owner |-> owner, changed |-> FALSE, status |-> "idle"]

NoCall == << >>
Untold == [as |-> Nobody, status |-> "none", seen |-> {}]

\* The actions of the API.  "state" also stands for "history".
Reads == {"search", "read", "state"}
Changes == {"patch", "write", "copy", "delete"}
ThreadOps == Reads \cup Changes \cup {"create", "run", "background", "cancel"}
AssistantOps == {"assistant_search", "assistant_read", "assistant_create"}
FileOps == {"file_list", "file_read", "file_delete", "tool_read"}

People == Users \cup {Nobody}
Statuses == {"unborn", "idle", "deleted", "answered", "interrupted", "error", "timeout", "none"}

Replies == Statuses \cup
    {"ok", "unauthorized", "forbidden", "absent", "conflict", "invalid", "too_large"}

\* on: a thread or the user whose file it is; owner: metadata.owner of the body.
Calls(phases) ==
    [as : People, op : ThreadOps \cup AssistantOps \cup FileOps \cup {"query", "upload"},
     on : People \cup Nat, owner : People, claims : People, waits : BOOLEAN, phase : phases]

TenantTypeOK ==
    /\ UploadTypeOK
    /\ admins \subseteq Users /\ files \subseteq Users
    /\ threads \in [Ids -> [owner : People, changed : BOOLEAN, status : Statuses]]
    /\ made \in [Ids -> People]
    /\ call \in [Clients ->
          Calls({"sent", "authorized", "running", "cancelling", "uploading"}) \cup {NoCall}]
    /\ told \in [Clients -> [as : People, status : Replies, seen : SUBSET (Ids \cup Users)]]

TenantInit ==
    /\ UploadInit
    /\ admins \in SUBSET Users
    /\ threads = [t \in Ids |-> Unborn] /\ made = [t \in Ids |-> Nobody]
    /\ files = {}
    /\ call = [c \in Clients |-> NoCall] /\ told = [c \in Clients |-> Untold]

SessionPermissions == {"agent_invoke_own", "session_own", "file_own"}
AdminPermissions == {"users_list", "roles_write"}
\* ROLE_PERMISSIONS
Permissions(user) ==
    SessionPermissions \cup IF user \in admins THEN AdminPermissions ELSE {}

Request(as, op, on, owner) ==
    [as |-> as, op |-> op, on |-> on, owner |-> owner, claims |-> Nobody, waits |-> FALSE,
     phase |-> "sent"]

Send(c, request) ==
    /\ call[c] = NoCall
    /\ call' = [call EXCEPT ![c] = request]
    /\ told' = [told EXCEPT ![c] = Untold]

Phase(c, phase) == call[c] # NoCall /\ call[c].phase = phase
Answer(c, status, seen) ==
    /\ told' = [told EXCEPT ![c] = [as |-> call[c].as, status |-> status, seen |-> seen]]
    /\ call' = [call EXCEPT ![c] = NoCall]
-----------------------------------------------------------------------------
(* langgraph_auth.py                                                        *)

\* deny_unhandled answers for what has no handler of its own.
Handled(op) == op \in ThreadOps \cup {"assistant_search", "assistant_read"}

\* Mutation: the owner a client names is kept.
OwnerKept(q) == q.owner
\* authorize_thread_owner: metadata.owner is the caller, whatever the body says.
OwnerForced(q) == q.as

Authorized(q) == [q EXCEPT !.owner = OwnerForced(q), !.phase = "authorized"]

\* authenticate, then the handler.
Authorize(c) ==
    /\ Phase(c, "sent") /\ call[c].op \in ThreadOps \cup AssistantOps
    /\ \/ call[c].as = Nobody /\ Answer(c, "unauthorized", {})
       \/ call[c].as # Nobody /\ ~Handled(call[c].op) /\ Answer(c, "forbidden", {})
       \/ /\ call[c].as # Nobody /\ Handled(call[c].op)
          /\ call' = [call EXCEPT ![c] = Authorized(call[c])]
          /\ UNCHANGED told
    /\ UNCHANGED <<admins, threads, made, files, body, handed>>
-----------------------------------------------------------------------------
(* The server.                                                              *)

\* The filter {"owner": caller} that authorize_thread_owner returned.
Visible(q) == {t \in Ids : threads[t].owner = q.as}
\* Ids are given in order.
IsNext(t) == threads[t] = Unborn /\ \A s \in 1..(t - 1) : threads[s] # Unborn

Searched(c) ==
    /\ Phase(c, "authorized") /\ call[c].op = "search"
    /\ Answer(c, "ok", Visible(call[c]))
    /\ UNCHANGED <<admins, threads, made, files, body, handed>>

Created(c) ==
    /\ Phase(c, "authorized") /\ call[c].op = "create"
    /\ \E t \in Ids :
          /\ IsNext(t)
          /\ threads' = [threads EXCEPT ![t] = Fresh(call[c].owner)]
          /\ made' = [made EXCEPT ![t] = call[c].as]
          /\ Answer(c, "ok", {t})
    /\ UNCHANGED <<admins, files, body, handed>>

NotVisible(c) ==
    /\ Phase(c, "authorized") /\ call[c].op \in ThreadOps \ {"search", "create"}
    /\ call[c].on \notin Visible(call[c])
    /\ Answer(c, "absent", {})
    /\ UNCHANGED <<admins, threads, made, files, body, handed>>

\* "answered" is a state that holds the result of a run.
ReadThread(c) ==
    /\ Phase(c, "authorized") /\ call[c].op \in {"read", "state"}
    /\ call[c].on \in Visible(call[c])
    /\ Answer(c, threads[call[c].on].status, {call[c].on})
    /\ UNCHANGED <<admins, threads, made, files, body, handed>>

\* A thread a run is at work on may be refused.
ChangeThread(c, busy) ==
    /\ Phase(c, "authorized") /\ call[c].op \in Changes
    /\ call[c].on \in Visible(call[c])
    /\ LET t == call[c].on IN
       \/ /\ t \in busy /\ Answer(c, "conflict", {})
          /\ UNCHANGED <<threads, made>>
       \/ /\ call[c].op \in {"patch", "write"}
          /\ threads' = [threads EXCEPT ![t].changed = TRUE, ![t].owner = call[c].owner]
          /\ UNCHANGED made
          /\ Answer(c, "ok", {t})
       \/ /\ call[c].op = "delete"
          /\ threads' = [threads EXCEPT ![t] = Deleted]
          /\ UNCHANGED made
          /\ Answer(c, "ok", {t})
       \/ \E new \in Ids :
             /\ call[c].op = "copy" /\ IsNext(new)
             /\ threads' = [threads EXCEPT ![new] = threads[t]]
             /\ made' = [made EXCEPT ![new] = call[c].as]
             /\ Answer(c, "ok", {new})
    /\ UNCHANGED <<admins, files, body, handed>>

\* The filter {"graph_id": "agent"}: there is one assistant and anyone reads it.
ReadAssistant(c) ==
    /\ Phase(c, "authorized") /\ call[c].op \in AssistantOps
    /\ Answer(c, "ok", {})
    /\ UNCHANGED <<admins, threads, made, files, body, handed>>
-----------------------------------------------------------------------------
(* Managed files.                                                           *)

\* Mutation: the query is by file_id alone.
FoundById(as, f) == f \in files
\* get_file and the reads of both tools: file_id and user_id.
OwnFile(as, f) == f \in files /\ f = as

FileCall(c) ==
    /\ Phase(c, "sent") /\ call[c].op \in FileOps
    /\ LET as == call[c].as  f == call[c].on IN
       \/ as = Nobody /\ Answer(c, "unauthorized", {}) /\ UNCHANGED files
       \/ /\ as # Nobody /\ call[c].op = "file_list"
          /\ Answer(c, "ok", {g \in files : OwnFile(as, g)}) /\ UNCHANGED files
       \/ /\ as # Nobody /\ call[c].op # "file_list" /\ ~OwnFile(as, f)
          /\ Answer(c, "absent", {}) /\ UNCHANGED files
       \/ /\ as # Nobody /\ call[c].op # "file_list" /\ OwnFile(as, f)
          /\ Answer(c, "ok", {f})
          /\ files' = IF call[c].op = "file_delete" THEN files \ {f} ELSE files
    /\ UNCHANGED <<admins, threads, made, body, handed>>

SendUpload(c, as, b) ==
    /\ Send(c, [Request(as, "upload", as, as) EXCEPT !.phase = "uploading"])
    /\ body' = [body EXCEPT ![c] = b]
    /\ handed' = [handed EXCEPT ![c] = NoBody]
    /\ UNCHANGED <<admins, threads, made, files>>

\* The same bytes are a duplicate while they are stored.
UploadEnds(c) ==
    /\ Phase(c, "uploading")
    /\ \/ BodyRefused(c) /\ Answer(c, Refusal(body[c]), {}) /\ UNCHANGED files
       \/ /\ Replay(c)
          /\ LET verdict == FileVerdict(body[c]) as == call[c].as IN
             \/ as = Nobody /\ Answer(c, "unauthorized", {}) /\ UNCHANGED files
             \/ /\ as # Nobody /\ verdict # "stored"
                /\ Answer(c, verdict, {}) /\ UNCHANGED files
             \/ /\ as \in files /\ verdict = "stored"
                /\ Answer(c, "conflict", {}) /\ UNCHANGED files
             \/ /\ as \notin files \cup {Nobody} /\ verdict = "stored"
                /\ Answer(c, "ok", {as}) /\ files' = files \cup {as}
    /\ UNCHANGED <<admins, threads, made>>

UploadBreaks(c) ==
    /\ Phase(c, "uploading")
    /\ Disconnect(c) /\ Answer(c, "invalid", {})
    /\ UNCHANGED <<admins, threads, made, files>>

UploadContinues(c) == Receive(c) /\ UNCHANGED <<admins, threads, made, files, call, told>>

RoleChanges ==
    /\ \E user \in Users : admins' = (admins \ {user}) \cup ({user} \ admins)
    /\ UNCHANGED <<threads, made, files, call, told, body, handed>>

TenantStep(c, busy) ==
    \/ Authorize(c) \/ Searched(c) \/ Created(c) \/ NotVisible(c) \/ ReadThread(c)
    \/ ChangeThread(c, busy) \/ ReadAssistant(c) \/ FileCall(c)
    \/ UploadEnds(c) \/ UploadContinues(c)
-----------------------------------------------------------------------------
\* A thread belongs to whoever created it as long as it lives, and nobody is
\* told of a thread or a file of somebody else, an administrator no more than
\* others.
OwnersKeepTheirs ==
    /\ \A t \in Ids : threads[t].owner \in {Nobody, made[t]}
    /\ \A c \in Clients : \A x \in told[c].seen :
           (IF x \in Ids THEN made[x] ELSE x) = told[c].as
=============================================================================
