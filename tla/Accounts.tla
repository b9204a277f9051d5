------------------------------ MODULE Accounts ------------------------------
(***************************************************************************)
(* What the tables users, sessions and messages go through: registration,  *)
(* role changes and the bootstrap script, chat sessions and their          *)
(* messages.  A handler is several statements of one MySQL transaction in  *)
(* REPEATABLE READ whose snapshot is taken by its first query, which       *)
(* authenticates the request; another replica or the script may commit     *)
(* between two of them.  One request is one element of Requests.           *)
(*                                                                         *)
(* An account is a pair of a user name and an address: accounts are never  *)
(* changed or removed.  Passwords, titles and the text of messages are     *)
(* left out; a message is the request that adds it.                        *)
(***************************************************************************)
EXTENDS FiniteSets, Naturals

CONSTANTS Names, Emails, Chats, Requests

VARIABLES
    accounts,     \* rows of users
    admins,       \* the rows whose role is admin
    usurped,      \* history: a role was changed by one who no longer was admin
    owner,        \* rows of sessions: the owner, Nobody before and after
    fresh,        \* session ids that were not given out yet
    lines,        \* rows of messages, by session
    acked,        \* history: messages whose request was answered
    work,         \* what each request has done so far
    reply         \* what it was answered

usersVars == <<accounts, admins, usurped>>
chatVars == <<owner, fresh, lines, acked>>
accountVars == <<usersVars, chatVars, work, reply>>

Nobody == <<>>
Account == Names \X Emails
Waiting == [op |-> "none"]
Over == [op |-> "over"]

Apart(S) == \A a \in S : \A b \in S \ {a} : a[1] # b[1] /\ a[2] # b[2]

\* Accounts, administrators and empty sessions may be there already.
AccountsInit ==
    /\ accounts \in {S \in SUBSET Account : Apart(S)}
    /\ admins \in SUBSET accounts
    /\ usurped = FALSE
    /\ owner \in [Chats -> accounts \cup {Nobody}]
    /\ fresh = {c \in Chats : owner[c] = Nobody}
    /\ lines = [c \in Chats |-> {}]
    /\ acked = [c \in Chats |-> {}]
    /\ work = [r \in Requests |-> Waiting]
    /\ reply = [r \in Requests |-> "none"]

Idle(r) == work[r] = Waiting
At(r, op) == work[r].op = op
Goes(r, w) == work' = [work EXCEPT ![r] = w] /\ UNCHANGED reply
Answers(r, a) == work' = [work EXCEPT ![r] = Over] /\ reply' = [reply EXCEPT ![r] = a]

-----------------------------------------------------------------------------
(* Registration. *)

Taken(who) == \E a \in accounts : a[1] = who[1] \/ a[2] = who[2]

\* Mutation: the unique key on email is missing.
ViolatesName(who) == \E a \in accounts : a[1] = who[1]
\* The two unique keys of the table.
Violates(who) == Taken(who)

RegisterLooksUp(r, who) ==
    /\ Idle(r)
    /\ IF Taken(who) THEN Answers(r, "conflict")
                     ELSE Goes(r, [op |-> "register", who |-> who])
    /\ UNCHANGED <<usersVars, chatVars>>

CreateUser(r) ==
    /\ At(r, "register")
    /\ IF Violates(work[r].who)
          THEN Answers(r, "conflict") /\ UNCHANGED accounts
          ELSE Answers(r, "created") /\ accounts' = accounts \cup {work[r].who}
    /\ UNCHANGED <<admins, usurped, chatVars>>

-----------------------------------------------------------------------------
(* Roles. *)

\* The dependencies of the route: get_current_user loads the caller, which
\* opens the snapshot, and require_permission looks at the role it found.
\* known and was are what the handler will read of its target.
RoleChangeAuthorized(r, by) ==
    /\ Idle(r) /\ by \in accounts
    /\ IF by \in admins
          THEN \E on \in Account, admin \in BOOLEAN :
                  Goes(r, [op |-> "role", by |-> by, on |-> on, admin |-> admin,
                           known |-> on \in accounts, was |-> on \in admins])
          ELSE Answers(r, "forbidden")
    /\ UNCHANGED <<usersVars, chatVars>>

\* Mutation: an administrator may change its own role.
NoOwnRole(w) == FALSE
OwnRole(w) == w.by = w.on

ChangeUserRole(r) ==
    /\ At(r, "role")
    /\ LET w == work[r]
           writes == ~OwnRole(w) /\ w.known /\ w.was # w.admin
       IN /\ Answers(r, IF OwnRole(w) THEN "self"
                        ELSE IF w.known THEN "changed" ELSE "missing")
          /\ admins' = IF ~writes THEN admins
                       ELSE IF w.admin THEN admins \cup {w.on} ELSE admins \ {w.on}
          /\ usurped' = (usurped \/ (writes /\ w.by \notin admins))
    /\ UNCHANGED <<accounts, chatVars>>

BootstrapReads(r, who) ==
    /\ Idle(r)
    /\ IF who \in accounts
          THEN Goes(r, [op |-> "bootstrap", who |-> who, was |-> who \in admins])
          ELSE Answers(r, "missing")
    /\ UNCHANGED <<usersVars, chatVars>>

BootstrapPromotes(r) ==
    /\ At(r, "bootstrap")
    /\ Answers(r, "changed")
    /\ admins' = IF work[r].was THEN admins ELSE admins \cup {work[r].who}
    /\ UNCHANGED <<accounts, usurped, chatVars>>

-----------------------------------------------------------------------------
(* Chat sessions.  The UPDATE of a session takes the lock of its row; the  *)
(* DELETE of its messages locks them and the gaps between them, so that no *)
(* other transaction inserts one before it ends.                           *)

Exists(c) == owner[c] # Nobody

CreateSession(r, by, c) ==
    /\ Idle(r) /\ by \in accounts
    /\ c \in fresh
    /\ fresh' = fresh \ {c}
    /\ owner' = [owner EXCEPT ![c] = by]
    /\ Answers(r, "created")
    /\ UNCHANGED <<usersVars, lines, acked>>

\* Authentication and get_session, in one snapshot.
Finds(r, by, c, op) ==
    /\ Idle(r) /\ by \in accounts
    /\ IF owner[c] = by THEN Goes(r, [op |-> op, chat |-> c, cleared |-> {}])
                        ELSE Answers(r, "missing")
    /\ UNCHANGED <<usersVars, chatVars>>

RowLocked(c, r) ==
    \E s \in Requests \ {r} : At(s, "touched") /\ work[s].chat = c
GapLocked(c, r) ==
    \E s \in Requests \ {r} : At(s, "clearing") /\ work[s].chat = c
LinesLocked(c, r) ==
    \E s \in Requests \ {r} :
        At(s, "clearing") /\ work[s].chat = c /\ work[s].cleared # {}

AddMessageFinds(r, by, c) == Finds(r, by, c, "add")

\* The flush updates the parent first: a row that is gone is a
\* StaleDataError, answered as an error.
AddMessageTouches(r) ==
    /\ At(r, "add")
    /\ LET c == work[r].chat IN
       /\ ~RowLocked(c, r)
       /\ IF Exists(c) THEN Goes(r, [work[r] EXCEPT !.op = "touched"])
                       ELSE Answers(r, "failed")
    /\ UNCHANGED <<usersVars, chatVars>>

AddMessageInserts(r) ==
    /\ At(r, "touched")
    /\ LET c == work[r].chat IN
       /\ ~GapLocked(c, r)
       /\ lines' = [lines EXCEPT ![c] = @ \cup {r}]
    /\ Goes(r, [work[r] EXCEPT !.op = "added"])
    /\ UNCHANGED <<usersVars, owner, fresh, acked>>

\* db.refresh reads the row again, in a transaction of its own.
AddMessageAnswers(r) ==
    /\ At(r, "added")
    /\ LET c == work[r].chat IN
       IF r \in lines[c]
          THEN Answers(r, "created") /\ acked' = [acked EXCEPT ![c] = @ \cup {r}]
          ELSE Answers(r, "failed") /\ UNCHANGED acked
    /\ UNCHANGED <<usersVars, owner, fresh, lines>>

DeleteSessionFinds(r, by, c) == Finds(r, by, c, "delete")

\* Mutation: the messages are deleted in a commit of their own.
DeleteSessionClearsAndCommits(r) ==
    /\ At(r, "delete")
    /\ Goes(r, [work[r] EXCEPT !.op = "clearing"])
    /\ lines' = [lines EXCEPT ![work[r].chat] = {}]
    /\ UNCHANGED <<usersVars, owner, fresh, acked>>

DeleteSessionClears(r) ==
    /\ At(r, "delete")
    /\ ~LinesLocked(work[r].chat, r)
    /\ Goes(r, [work[r] EXCEPT !.op = "clearing", !.cleared = lines[work[r].chat]])
    /\ UNCHANGED <<usersVars, chatVars>>

\* Deleting the row and the commit.  Of two deletions the later one matches no
\* row, which is only a warning.
DeleteSessionCommits(r) ==
    /\ At(r, "clearing")
    /\ LET c == work[r].chat IN
       /\ ~RowLocked(c, r)
       /\ lines' = [lines EXCEPT ![c] = @ \ work[r].cleared]
       /\ owner' = [owner EXCEPT ![c] = Nobody]
    /\ Answers(r, "deleted")
    /\ UNCHANGED <<usersVars, fresh, acked>>

\* A lost connection, the victim of a deadlock or the end of the process:
\* the transaction is rolled back.
RequestFails(r) ==
    /\ work[r] \notin {Waiting, Over}
    /\ Answers(r, "failed")
    /\ UNCHANGED <<usersVars, chatVars>>

-----------------------------------------------------------------------------
UserStep(r) ==
    \/ \E who \in Account : RegisterLooksUp(r, who)
    \/ CreateUser(r)
    \/ \E by \in accounts : RoleChangeAuthorized(r, by)
    \/ ChangeUserRole(r)
    \/ \E who \in Account : BootstrapReads(r, who)
    \/ BootstrapPromotes(r)

ChatStep(r) ==
    \/ \E by \in accounts, c \in Chats :
          \/ CreateSession(r, by, c)
          \/ AddMessageFinds(r, by, c)
          \/ DeleteSessionFinds(r, by, c)
    \/ AddMessageTouches(r)
    \/ AddMessageInserts(r)
    \/ AddMessageAnswers(r)
    \/ DeleteSessionClears(r)
    \/ DeleteSessionCommits(r)

AccountsNext == \E r \in Requests : UserStep(r) \/ ChatStep(r) \/ RequestFails(r)

-----------------------------------------------------------------------------
(* The last administrator is lost only by a change whose author had lost   *)
(* the role between its authentication and its commit (admin_service.py    *)
(* refuses changing one's own role for this purpose).                      *)
AdminLostOnlyByRace ==
    [][admins # {} /\ admins' = {} => usurped']_accountVars

(* No two accounts share a name or an address, however the lookups and     *)
(* inserts of registrations interleave; a session keeps every message      *)
(* whose request was answered, and one that is gone leaves none behind     *)
(* (auth_service.py: the unique keys decide; session_service.py: one       *)
(* commit for both deletions, and the gap lock keeps a message out).       *)
SessionsWhole ==
    \A c \in Chats : IF Exists(c) THEN acked[c] \subseteq lines[c] ELSE lines[c] = {}

RowsConsistent == Apart(accounts) /\ SessionsWhole
=============================================================================
