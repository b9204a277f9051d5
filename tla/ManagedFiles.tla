----------------------------- MODULE ManagedFiles -----------------------------
(***************************************************************************)
(* ManagedFileService (data_agent/services/managed_file_service.py) for    *)
(* one user: every query of the service filters by the owner, so the files *)
(* of other users take no part.  A file is a row of managed_files plus     *)
(* bytes below the storage root.  Nothing joins the two: the service       *)
(* orders its commits and its unlinks so that rows do not lack their bytes. *)
(*                                                                         *)
(* Requests run in several workers over one MySQL database.  The query     *)
(* that authenticates a request opens the transaction of its session, and  *)
(* under InnoDB's default isolation the plain reads that follow see the    *)
(* rows of that moment.  A step is what happens between two statements of  *)
(* the database or two operations on the disk.                             *)
(***************************************************************************)
EXTENDS Naturals, FiniteSets

CONSTANTS
    Requests,       \* the requests of the user, each handled once
    Contents,       \* what files can hold, told apart by their sha256
    BatchMax,       \* FILE_UPLOAD_BATCH_MAX_COUNT
    MaxCount        \* FILE_USER_MAX_COUNT; the byte quota is checked beside it

ASSUME FilesAssumption ==
    /\ IsFiniteSet(Requests) /\ IsFiniteSet(Contents)
    /\ BatchMax \in Nat \ {0}
    /\ MaxCount \in Nat \ {0}

VARIABLES
    repeatable,  \* the database reads at REPEATABLE READ, not READ COMMITTED
    rows,        \* committed rows of managed_files
    expired,     \* files whose expires_at has passed
    disk,        \* files whose bytes are below the storage root
    lock,        \* holders of the lock on the row of the user
    phase,       \* where each request is
    batch,       \* contents an upload brings; {} for every other request
    written,     \* contents an upload wrote that no row refers to yet
    doomed,      \* files a request is about to unlink
    fresh,       \* requests whose transaction has read nothing yet
    snapshot,    \* the rows a request's transaction sees
    orphans      \* history: bytes abandoned by a crash, a failed unlink or a
                 \* removal that was taken for failed

database == <<rows, expired, lock>>
reading == <<fresh, snapshot>>
filesVars == <<repeatable, database, disk, phase, batch, written, doomed,
               reading, orphans>>

Files == Requests \X Contents   \* a file_id belongs to one item of one upload

\* "doubted": answered with an error although its batch was committed.
Ended == {"created", "unread", "failed", "doubted", "done", "lost"}
Phase == Ended \cup {"idle", "reading", "cleaning", "sweeping", "locking",
                     "counting", "writing", "undoing", "doubting", "refreshing", "finding"}

FilesTypeOK ==
    /\ repeatable \in BOOLEAN
    /\ rows \subseteq Files /\ expired \subseteq Files /\ disk \subseteq Files
    /\ lock \subseteq Requests /\ \A q, s \in lock : q = s
    /\ phase \in [Requests -> Phase]
    /\ batch \in [Requests -> SUBSET Contents]
    /\ written \in [Requests -> SUBSET Contents]
    /\ doomed \in [Requests -> SUBSET Files]
    /\ fresh \subseteq Requests
    /\ snapshot \in [Requests -> SUBSET Files]
    /\ orphans \subseteq Files

FilesInit ==
    /\ repeatable \in BOOLEAN
    /\ rows = {} /\ expired = {} /\ disk = {} /\ lock = {}
    /\ phase = [r \in Requests |-> "idle"]
    /\ batch = [r \in Requests |-> {}]
    /\ written = [r \in Requests |-> {}]
    /\ doomed = [r \in Requests |-> {}]
    /\ fresh = {}
    /\ snapshot = [r \in Requests |-> {}]
    /\ orphans = {}

At(r, p) == phase[r] = p
Goto(r, p) == phase' = [phase EXCEPT ![r] = p]

Uploading(r) == batch[r] # {}
Written(r) == {r} \X written[r]

\* What a plain SELECT of the request returns.
Seen(r) == IF repeatable /\ r \notin fresh THEN snapshot[r] ELSE rows

Duplicate(r, table) == \E f \in table : f[2] \in batch[r]

-----------------------------------------------------------------------------
(* Every request: authentication, then the expired files are swept.         *)

\* get_current_user reads the user through the session of the request.
Authenticate(r, next, items) ==
    /\ At(r, "idle")
    /\ Goto(r, next)
    /\ batch' = [batch EXCEPT ![r] = items]
    /\ snapshot' = [snapshot EXCEPT ![r] = IF repeatable THEN rows ELSE {}]
    /\ UNCHANGED <<repeatable, database, disk, written, doomed, fresh, orphans>>

ListFiles(r) == Authenticate(r, "cleaning", {})
DeleteFile(r) == Authenticate(r, "finding", {})
UploadFiles(r) ==
    \E items \in SUBSET Contents \ {{}} : Authenticate(r, "reading", items)

\* After a commit or a rollback the next plain read sees the rows anew.
EndTransaction(r) ==
    /\ fresh' = fresh \cup {r}
    /\ snapshot' = [snapshot EXCEPT ![r] = {}]

CommitRemoval(r, removed) ==
    /\ EndTransaction(r)
    /\ rows' = rows \ removed
    /\ doomed' = [doomed EXCEPT ![r] = removed]
    /\ Goto(r, "sweeping")
    /\ UNCHANGED <<repeatable, expired, disk, lock, batch, written, orphans>>

\* The answer to the commit is lost after the server has committed: the handler
\* takes it for a failure, and nobody unlinks the bytes of what was removed.
RemovalUnanswered(r, removed) ==
    /\ EndTransaction(r)
    /\ rows' = rows \ removed
    /\ orphans' = orphans \cup (removed \cap disk)
    /\ Goto(r, "undoing")
    /\ UNCHANGED <<repeatable, expired, disk, lock, batch, written, doomed>>

\* A row another request deleted first is deleted without effect.
CleanupExpired(r) ==
    /\ At(r, "cleaning")
    /\ Seen(r) \cap expired # {}
    /\ CommitRemoval(r, Seen(r) \cap expired)

CleanupUnanswered(r) ==
    /\ At(r, "cleaning")
    /\ Seen(r) \cap expired # {}
    /\ RemovalUnanswered(r, Seen(r) \cap expired)

AfterSweep(r) == IF Uploading(r) THEN "locking" ELSE "done"

NothingExpired(r) ==
    /\ At(r, "cleaning")
    /\ Seen(r) \cap expired = {}
    /\ Goto(r, AfterSweep(r))
    /\ UNCHANGED <<repeatable, database, disk, batch, written, doomed, reading, orphans>>

\* _unlink_record logs an OSError and goes on: those bytes stay.
Unlink(r, kept) ==
    /\ disk' = disk \ (doomed[r] \ kept)
    /\ orphans' = orphans \cup kept
    /\ doomed' = [doomed EXCEPT ![r] = {}]
    /\ UNCHANGED <<repeatable, database, batch, written, reading>>

Sweep(r) ==
    /\ At(r, "sweeping")
    /\ \E kept \in SUBSET doomed[r] : Unlink(r, kept)
    /\ Goto(r, AfterSweep(r))

\* delete_file: the row goes first, then the bytes.
DeleteFound(r) ==
    /\ At(r, "finding")
    /\ \E f \in Seen(r) \ expired : CommitRemoval(r, {f})

DeleteUnanswered(r) ==
    /\ At(r, "finding")
    /\ \E f \in Seen(r) \ expired : RemovalUnanswered(r, {f})

DeleteMissing(r) ==
    /\ At(r, "finding")
    /\ Goto(r, "cleaning")
    /\ UNCHANGED <<repeatable, database, disk, batch, written, doomed, reading, orphans>>

-----------------------------------------------------------------------------
(* upload_files.                                                            *)

\* The items are read, validated and told apart before anything is stored.
Prepare(r) ==
    /\ At(r, "reading")
    /\ Cardinality(batch[r]) <= BatchMax
    /\ Goto(r, "cleaning")
    /\ UNCHANGED <<repeatable, database, disk, batch, written, doomed, reading, orphans>>

Reject(r) ==
    /\ At(r, "reading")
    /\ Goto(r, "failed")
    /\ UNCHANGED <<repeatable, database, disk, batch, written, doomed, reading, orphans>>

\* Mutant: the user is read without FOR UPDATE.
LockUserShared(r) ==
    /\ At(r, "locking")
    /\ lock' = lock \cup {r}
    /\ Goto(r, "counting")
    /\ UNCHANGED <<repeatable, rows, expired, disk, batch, written, doomed, reading, orphans>>

\* SELECT ... FOR UPDATE of the user: a locking read leaves the snapshot alone.
LockUser(r) ==
    /\ At(r, "locking")
    /\ lock = {}
    /\ lock' = {r}
    /\ Goto(r, "counting")
    /\ UNCHANGED <<repeatable, rows, expired, disk, batch, written, doomed, reading, orphans>>

Fits(r) == Cardinality(Seen(r)) + Cardinality(batch[r]) <= MaxCount

WithinQuota(r) ==
    /\ At(r, "counting")
    /\ Fits(r)
    /\ ~Duplicate(r, Seen(r))
    /\ Goto(r, "writing")
    /\ UNCHANGED <<repeatable, database, disk, batch, written, doomed, reading, orphans>>

\* _write_file: fsync of a temporary file, then os.replace.
WriteFile(r, c) ==
    /\ At(r, "writing")
    /\ c \in batch[r] \ written[r]
    /\ written' = [written EXCEPT ![r] = @ \cup {c}]
    /\ disk' = disk \cup {<<r, c>>}
    /\ UNCHANGED <<repeatable, database, phase, batch, doomed, reading, orphans>>

\* Mutant: what was written stays.
RollbackKeeps(r) ==
    /\ EndTransaction(r)
    /\ lock' = lock \ {r}
    /\ written' = [written EXCEPT ![r] = {}]
    /\ Goto(r, "undoing")
    /\ UNCHANGED <<repeatable, rows, expired, disk, batch, doomed, orphans>>

\* A rollback gives the lock back and what was written is unlinked.
Rollback(r) ==
    /\ EndTransaction(r)
    /\ lock' = lock \ {r}
    /\ doomed' = [doomed EXCEPT ![r] = Written(r)]
    /\ written' = [written EXCEPT ![r] = {}]
    /\ Goto(r, "undoing")
    /\ UNCHANGED <<repeatable, rows, expired, disk, batch, orphans>>

OverQuota(r) ==
    /\ At(r, "counting")
    /\ ~Fits(r) \/ Duplicate(r, Seen(r))
    /\ Rollback(r)

\* A statement of the database or a write to the disk fails.
StorageFails(r) ==
    /\ phase[r] \in {"cleaning", "finding", "locking", "counting", "writing"}
    /\ Rollback(r)

ReadyToCommit(r) == At(r, "writing") /\ written[r] = batch[r]

\* The unique key (user_id, sha256) is checked against the committed rows.
Conflict(r) ==
    /\ ReadyToCommit(r)
    /\ Duplicate(r, rows)
    /\ Rollback(r)

CommitUpload(r) ==
    /\ ReadyToCommit(r)
    /\ ~Duplicate(r, rows)
    /\ EndTransaction(r)
    /\ rows' = rows \cup Written(r)
    /\ written' = [written EXCEPT ![r] = {}]
    /\ lock' = lock \ {r}
    /\ Goto(r, "refreshing")
    /\ UNCHANGED <<repeatable, expired, disk, batch, doomed, orphans>>

\* The same of a batch: the lock is gone with the transaction, and what is
\* undone are the bytes of rows that exist.
CommitUnanswered(r) ==
    /\ ReadyToCommit(r)
    /\ ~Duplicate(r, rows)
    /\ EndTransaction(r)
    /\ rows' = rows \cup Written(r)
    /\ doomed' = [doomed EXCEPT ![r] = Written(r)]
    /\ written' = [written EXCEPT ![r] = {}]
    /\ lock' = lock \ {r}
    /\ Goto(r, "doubting")
    /\ UNCHANGED <<repeatable, expired, disk, batch, orphans>>

Undo(r) ==
    /\ \/ At(r, "undoing") /\ Goto(r, "failed")
       \/ At(r, "doubting") /\ Goto(r, "doubted")
    /\ \E kept \in SUBSET doomed[r] : Unlink(r, kept)

\* Mutant: a failed refresh is handled like a failed commit.
RefreshUndoes(r) ==
    /\ At(r, "refreshing")
    /\ doomed' = [doomed EXCEPT ![r] = {r} \X batch[r]]
    /\ Goto(r, "undoing")
    /\ UNCHANGED <<repeatable, database, disk, batch, written, reading, orphans>>

\* db.refresh reads every row back before the caller is answered; a batch that
\* cannot be read back is answered with an error and stays stored.
Refresh(r) ==
    /\ At(r, "refreshing")
    /\ \E answer \in {"created", "unread"} : Goto(r, answer)
    /\ UNCHANGED <<repeatable, database, disk, batch, written, doomed, reading, orphans>>

-----------------------------------------------------------------------------
(* The environment.                                                         *)

Expire(f) ==
    /\ f \in rows \ expired
    /\ expired' = expired \cup {f}
    /\ UNCHANGED <<repeatable, rows, lock, disk, phase, batch, written, doomed,
                   reading, orphans>>

\* What only the request itself would still remove or commit.
Held(r) == doomed[r] \cup Written(r)

\* The worker dies; the database rolls its transaction back.
Crash(r) ==
    /\ phase[r] \notin Ended \cup {"idle"}
    /\ EndTransaction(r)
    /\ Goto(r, "lost")
    /\ lock' = lock \ {r}
    /\ orphans' = orphans \cup (Held(r) \cap disk)
    /\ doomed' = [doomed EXCEPT ![r] = {}]
    /\ written' = [written EXCEPT ![r] = {}]
    /\ UNCHANGED <<repeatable, rows, expired, disk, batch>>

RequestStep(r) ==
    \/ ListFiles(r) \/ DeleteFile(r) \/ UploadFiles(r)
    \/ CleanupExpired(r) \/ NothingExpired(r) \/ Sweep(r)
    \/ DeleteFound(r) \/ DeleteMissing(r)
    \/ CleanupUnanswered(r) \/ DeleteUnanswered(r) \/ CommitUnanswered(r)
    \/ Prepare(r) \/ Reject(r) \/ LockUser(r)
    \/ WithinQuota(r) \/ OverQuota(r)
    \/ (\E c \in Contents : WriteFile(r, c))
    \/ StorageFails(r) \/ Conflict(r) \/ CommitUpload(r)
    \/ Undo(r) \/ Refresh(r) \/ Crash(r)

FilesNext ==
    \/ \E r \in Requests : RequestStep(r)
    \/ \E f \in Files : Expire(f)

FilesSpec == FilesInit /\ [][FilesNext]_filesVars

-----------------------------------------------------------------------------
(* Properties.                                                              *)

\* Whoever finds a row finds its bytes: uploads write before they commit,
\* removals commit before they unlink, whatever fails in between.  Only an upload
\* that took a commit for failed which had happened destroys them.
RowsHaveBytes == \A f \in rows : f \in disk \/ At(f[1], "doubted")

\* Bytes without a row belong to a request at work, unless a crash, a failed
\* unlink or a removal whose commit was not answered left them: no other error
\* leaks storage.
NothingLeftBehind ==
    disk \subseteq rows \cup orphans \cup UNION {Held(r) : r \in Requests}

\* FILE_USER_MAX_COUNT bounds the rows of the user.
QuotaRespected == Cardinality(rows) <= MaxCount

\* The lock on the user is enough for that where a read inside the lock sees
\* what was committed before it.
QuotaWithFreshReads == ~repeatable => QuotaRespected

\* Whoever is answered with an error: a caller cannot tell the three apart.
Errors == {"failed", "unread", "doubted"}
Left(r) == ({r} \X Contents) \cap (rows \cup disk)

\* Safety.  What isolate-file-ingestion/spec.md:112-115 and checklist.md:12 promise
\* of the code: an upload answered with an error has left neither row nor bytes,
\* whichever validation, quota, write or statement it failed at.  It does not hold
\* of a batch that was committed and not read back ("unread"), nor of one whose
\* commit was answered with an error ("doubted").
FailureLeavesNothing == \A r \in Requests : phase[r] \in Errors => Left(r) \subseteq orphans
=============================================================================
