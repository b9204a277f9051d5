-------------------------- MODULE ManagedFilesProofs --------------------------
(***************************************************************************)
(* Proofs about ManagedFiles and FileAnalysis: the type invariant, the      *)
(* inductive BytesInv and QuotaInv with what follows from them for rows,    *)
(* bytes and quota; that readers only take steps of ManagedFiles, with what *)
(* they are told; and that the pass of ColumnStatistics computes what it    *)
(* should, by an induction over the rows of a table.                        *)
(***************************************************************************)
EXTENDS FileAnalysis, FiniteSetTheorems, TLAPS

\* Requests that have committed no batch, and never will if they failed: nobody
\* else knows their files.
Early == {"idle", "reading", "cleaning", "sweeping", "locking", "counting",
          "writing", "undoing", "finding", "failed"}

Untouched ==
    \A r \in Requests : phase[r] \in Early =>
        /\ \A f \in rows : f[1] # r
        /\ \A s \in Requests : \A f \in snapshot[s] : f[1] # r
        /\ \A s \in Requests : \A f \in doomed[s] :
              f[1] = r => s = r /\ phase[r] = "undoing"

\* Bytes without a row are written by an upload before its commit.
Booked ==
    \A r \in Requests :
        /\ written[r] # {} => phase[r] = "writing"
        /\ written[r] \subseteq batch[r]
        /\ Written(r) \subseteq disk

\* Only what has no row any more is unlinked, or what an upload wrote that takes
\* its commit for failed.
Cleared ==
    \A r \in Requests :
        /\ doomed[r] # {} => phase[r] \in {"sweeping", "undoing", "doubting"}
        /\ \A f \in doomed[r] : f \notin rows \/ (phase[r] = "doubting" /\ f[1] = r)

BytesInv == Untouched /\ Booked /\ Cleared /\ RowsHaveBytes /\ NothingLeftBehind

\* The lock on the user is held from the count to the commit.
Locked == \A r \in Requests : phase[r] \in {"counting", "writing"} => r \in lock

Roomy ==
    /\ IsFiniteSet(rows)
    /\ ~repeatable => Cardinality(rows) <= MaxCount
    /\ ~repeatable => \A r \in Requests :
          At(r, "writing") => Cardinality(rows) + Cardinality(batch[r]) <= MaxCount

QuotaInv == Locked /\ Roomy

-----------------------------------------------------------------------------
(* Type correctness.                                                        *)

LEMMA GotoType ==
  ASSUME FilesTypeOK, NEW r \in Requests, NEW p \in Phase, Goto(r, p)
  PROVE  phase' \in [Requests -> Phase]
  BY DEF FilesTypeOK, Goto

LEMMA SeenType ==
  ASSUME FilesTypeOK, NEW r \in Requests
  PROVE  Seen(r) \subseteq Files
  BY DEF FilesTypeOK, Seen

LEMMA EndType ==
  ASSUME FilesTypeOK, NEW r \in Requests, EndTransaction(r)
  PROVE  fresh' \subseteq Requests /\ snapshot' \in [Requests -> SUBSET Files]
  BY DEF FilesTypeOK, EndTransaction

LEMMA WrittenType ==
  ASSUME FilesTypeOK, NEW r \in Requests
  PROVE  Written(r) \subseteq Files /\ Held(r) \subseteq Files
  BY DEF FilesTypeOK, Written, Held, Files

LEMMA RemovalType ==
  ASSUME FilesTypeOK, NEW r \in Requests, NEW removed \in SUBSET Files,
         CommitRemoval(r, removed)
  PROVE  FilesTypeOK'
  <1>1. phase' \in [Requests -> Phase]
    BY GotoType DEF CommitRemoval, Phase
  <1>2. fresh' \subseteq Requests /\ snapshot' \in [Requests -> SUBSET Files]
    BY EndType DEF CommitRemoval
  <1>3. QED
    BY <1>1, <1>2 DEF CommitRemoval, FilesTypeOK

LEMMA UnansweredType ==
  ASSUME FilesTypeOK, NEW r \in Requests, NEW removed \in SUBSET Files,
         RemovalUnanswered(r, removed)
  PROVE  FilesTypeOK'
  <1>1. phase' \in [Requests -> Phase]
    BY GotoType DEF RemovalUnanswered, Phase
  <1>2. fresh' \subseteq Requests /\ snapshot' \in [Requests -> SUBSET Files]
    BY EndType DEF RemovalUnanswered
  <1>3. QED
    BY <1>1, <1>2 DEF RemovalUnanswered, FilesTypeOK

LEMMA UnlinkType ==
  ASSUME FilesTypeOK, NEW r \in Requests, NEW kept \in SUBSET doomed[r],
         Unlink(r, kept), phase' \in [Requests -> Phase]
  PROVE  FilesTypeOK'
  BY DEF Unlink, FilesTypeOK, database, reading

LEMMA RollbackType ==
  ASSUME FilesTypeOK, NEW r \in Requests, Rollback(r)
  PROVE  FilesTypeOK'
  <1>1. phase' \in [Requests -> Phase]
    BY GotoType DEF Rollback, Phase
  <1>2. fresh' \subseteq Requests /\ snapshot' \in [Requests -> SUBSET Files]
    BY EndType DEF Rollback
  <1>3. doomed' \in [Requests -> SUBSET Files]
    BY WrittenType DEF Rollback, FilesTypeOK
  <1>4. QED
    BY <1>1, <1>2, <1>3 DEF Rollback, FilesTypeOK

LEMMA AuthenticateType ==
  ASSUME FilesTypeOK, NEW r \in Requests, NEW next \in Phase,
         NEW items \in SUBSET Contents, Authenticate(r, next, items)
  PROVE  FilesTypeOK'
  <1>1. phase' \in [Requests -> Phase]
    BY GotoType DEF Authenticate
  <1>2. snapshot' \in [Requests -> SUBSET Files]
    BY DEF Authenticate, FilesTypeOK
  <1>3. QED
    BY <1>1, <1>2 DEF Authenticate, FilesTypeOK, database

\* A step of r that only moves it on to p.
Moves(r, p) ==
    /\ Goto(r, p)
    /\ UNCHANGED <<repeatable, rows, expired, disk, batch, written, doomed, reading, orphans>>

LEMMA MovesType ==
  ASSUME FilesTypeOK, NEW r \in Requests, NEW p \in Phase, Moves(r, p),
         lock' = lock \/ lock' = {r}
  PROVE  FilesTypeOK'
  <1>1. phase' \in [Requests -> Phase]
    BY GotoType DEF Moves
  <1>2. QED
    BY <1>1 DEF Moves, FilesTypeOK, reading

\* The steps that only move a request on.
LEMMA MovingSteps ==
  ASSUME NEW r \in Requests
  PROVE  /\ NothingExpired(r) => Moves(r, AfterSweep(r)) /\ lock' = lock
         /\ DeleteMissing(r) => Moves(r, "cleaning") /\ lock' = lock
         /\ Prepare(r) => Moves(r, "cleaning") /\ lock' = lock
         /\ Reject(r) => Moves(r, "failed") /\ lock' = lock
         /\ WithinQuota(r) => Moves(r, "writing") /\ lock' = lock
         /\ LockUser(r) => Moves(r, "counting") /\ lock' = {r}
         /\ Refresh(r) => /\ \E p \in {"created", "unread"} : Moves(r, p)
                          /\ lock' = lock
  BY DEF NothingExpired, DeleteMissing, Prepare, Reject, WithinQuota, LockUser,
         Refresh, Moves, database

LEMMA AfterSweepType ==
  ASSUME NEW r PROVE AfterSweep(r) \in {"locking", "done"}
  BY DEF AfterSweep

LEMMA FilesNextType == FilesTypeOK /\ [FilesNext]_filesVars => FilesTypeOK'
  <1> SUFFICES ASSUME FilesTypeOK, [FilesNext]_filesVars PROVE FilesTypeOK'
    OBVIOUS
  <1>0. {"locking", "done", "cleaning", "failed", "writing", "counting", "created", "unread",
         "finding", "reading", "lost", "refreshing", "doubting", "doubted"} \subseteq Phase
    BY DEF Phase, Ended
  <1>1. ASSUME NEW r \in Requests,
               \/ NothingExpired(r) \/ DeleteMissing(r) \/ Prepare(r) \/ Reject(r)
               \/ WithinQuota(r) \/ LockUser(r) \/ Refresh(r)
        PROVE  FilesTypeOK'
    BY <1>0, <1>1, MovingSteps, MovesType, AfterSweepType
  <1>2. ASSUME NEW r \in Requests,
               \/ ListFiles(r) \/ DeleteFile(r) \/ UploadFiles(r)
        PROVE  FilesTypeOK'
    BY <1>0, <1>2, AuthenticateType DEF ListFiles, DeleteFile, UploadFiles
  <1>3. ASSUME NEW r \in Requests, CleanupExpired(r) \/ CleanupUnanswered(r)
        PROVE  FilesTypeOK'
    <2>1. Seen(r) \cap expired \in SUBSET Files
      BY SeenType
    <2>2. QED
      BY <1>3, <2>1, RemovalType, UnansweredType DEF CleanupExpired, CleanupUnanswered
  <1>4. ASSUME NEW r \in Requests, DeleteFound(r) \/ DeleteUnanswered(r)
        PROVE  FilesTypeOK'
    <2>1. PICK f \in Seen(r) : CommitRemoval(r, {f}) \/ RemovalUnanswered(r, {f})
      BY <1>4 DEF DeleteFound, DeleteUnanswered
    <2>2. {f} \in SUBSET Files
      BY SeenType
    <2>3. QED
      BY <2>1, <2>2, RemovalType, UnansweredType
  <1>5. ASSUME NEW r \in Requests, Sweep(r) PROVE FilesTypeOK'
    <2>1. phase' \in [Requests -> Phase]
      BY <1>0, <1>5, GotoType, AfterSweepType DEF Sweep
    <2>2. QED
      BY <2>1, <1>5, UnlinkType DEF Sweep
  <1>6. ASSUME NEW r \in Requests, Undo(r) PROVE FilesTypeOK'
    <2>1. phase' \in [Requests -> Phase]
      BY <1>0, <1>6, GotoType DEF Undo
    <2>2. QED
      BY <2>1, <1>6, UnlinkType DEF Undo
  <1>7. ASSUME NEW r \in Requests, OverQuota(r) \/ StorageFails(r) \/ Conflict(r)
        PROVE  FilesTypeOK'
    BY <1>7, RollbackType DEF OverQuota, StorageFails, Conflict
  <1>8. ASSUME NEW r \in Requests, NEW c \in Contents, WriteFile(r, c)
        PROVE  FilesTypeOK'
    BY <1>8 DEF WriteFile, FilesTypeOK, database, reading, Files
  <1>9. ASSUME NEW r \in Requests, CommitUpload(r) PROVE FilesTypeOK'
    <2>1. phase' \in [Requests -> Phase]
      BY <1>0, <1>9, GotoType DEF CommitUpload
    <2>2. fresh' \subseteq Requests /\ snapshot' \in [Requests -> SUBSET Files]
      BY <1>9, EndType DEF CommitUpload
    <2>3. rows' \subseteq Files
      BY <1>9, WrittenType DEF CommitUpload, FilesTypeOK
    <2>4. QED
      BY <1>9, <2>1, <2>2, <2>3 DEF CommitUpload, FilesTypeOK
  <1>10. ASSUME NEW r \in Requests, Crash(r) PROVE FilesTypeOK'
    <2>1. phase' \in [Requests -> Phase]
      BY <1>0, <1>10, GotoType DEF Crash
    <2>2. fresh' \subseteq Requests /\ snapshot' \in [Requests -> SUBSET Files]
      BY <1>10, EndType DEF Crash
    <2>3. orphans' \subseteq Files
      BY <1>10, WrittenType DEF Crash, FilesTypeOK
    <2>4. QED
      BY <1>10, <2>1, <2>2, <2>3 DEF Crash, FilesTypeOK
  <1>11. ASSUME NEW f \in Files, Expire(f) PROVE FilesTypeOK'
    BY <1>11 DEF Expire, FilesTypeOK, reading
  <1>12. CASE UNCHANGED filesVars
    BY <1>12 DEF filesVars, database, reading, FilesTypeOK
  <1>13. ASSUME NEW r \in Requests, CommitUnanswered(r) PROVE FilesTypeOK'
    <2>1. phase' \in [Requests -> Phase]
      BY <1>0, <1>13, GotoType DEF CommitUnanswered
    <2>2. fresh' \subseteq Requests /\ snapshot' \in [Requests -> SUBSET Files]
      BY <1>13, EndType DEF CommitUnanswered
    <2>3. rows' \subseteq Files /\ doomed' \in [Requests -> SUBSET Files]
      BY <1>13, WrittenType DEF CommitUnanswered, FilesTypeOK
    <2>4. QED
      BY <1>13, <2>1, <2>2, <2>3 DEF CommitUnanswered, FilesTypeOK
  <1>14. QED
    BY <1>1, <1>2, <1>3, <1>4, <1>5, <1>6, <1>7, <1>8, <1>9, <1>10, <1>11, <1>12, <1>13
       DEF FilesNext, RequestStep

\* Every variable keeps its type, and the row of a user has one locker.
THEOREM FilesTypeCorrect == FilesSpec => []FilesTypeOK
  <1>1. FilesInit => FilesTypeOK
    BY DEF FilesInit, FilesTypeOK, Phase
  <1>2. QED
    BY <1>1, FilesNextType, PTL DEF FilesSpec

-----------------------------------------------------------------------------
(* Rows and bytes.                                                          *)

LEMMA MovesBytes ==
  ASSUME FilesTypeOK, BytesInv, NEW r \in Requests, NEW p, Moves(r, p),
         \/ phase[r] \in Early \ {"writing", "sweeping", "undoing"}
         \/ phase[r] = "refreshing" /\ p \notin Early
  PROVE  BytesInv'
  <1> USE DEF FilesTypeOK, BytesInv, Moves, Goto, reading
  <1>1. Untouched'
    BY DEF Untouched, Early
  <1>2. Booked'
    BY DEF Booked, Written, Early
  <1>3. Cleared'
    BY DEF Cleared, Early
  <1>4. RowsHaveBytes'
    BY DEF RowsHaveBytes, At, Files, Early
  <1>5. NothingLeftBehind'
    BY DEF NothingLeftBehind, Held, Written
  <1>6. QED
    BY <1>1, <1>2, <1>3, <1>4, <1>5

LEMMA AuthenticateBytes ==
  ASSUME FilesTypeOK, BytesInv, NEW r \in Requests, NEW next \in Early,
         NEW items \in SUBSET Contents, Authenticate(r, next, items)
  PROVE  BytesInv'
  <1> USE DEF FilesTypeOK, BytesInv, Authenticate, Goto, At, database
  <1>1. Untouched'
    BY DEF Untouched, Early
  <1>2. Booked'
    BY DEF Booked, Written, Early
  <1>3. Cleared'
    BY DEF Cleared, Early
  <1>4. RowsHaveBytes'
    BY DEF RowsHaveBytes, At, Files
  <1>5. NothingLeftBehind'
    BY DEF NothingLeftBehind, Held, Written
  <1>6. QED
    BY <1>1, <1>2, <1>3, <1>4, <1>5

LEMMA RemovalBytes ==
  ASSUME FilesTypeOK, BytesInv, NEW r \in Requests, phase[r] \in {"cleaning", "finding"},
         NEW removed \in SUBSET Seen(r), CommitRemoval(r, removed)
  PROVE  BytesInv'
  <1> USE DEF FilesTypeOK, BytesInv, CommitRemoval, EndTransaction, Goto
  <1>1. \A f \in removed : f[1] \in Requests => phase[f[1]] \notin Early
    BY DEF Untouched, Seen
  <1>2. removed \subseteq Files
    BY SeenType
  <1>3. Untouched'
    BY <1>1, <1>2 DEF Untouched, Early, Files
  <1>4. Booked'
    BY DEF Booked, Written
  <1>5. Cleared'
    BY DEF Cleared
  <1>6. RowsHaveBytes'
    BY DEF RowsHaveBytes, At, Files
  <1>7. doomed[r] = {}
    BY DEF Cleared
  <1>8. \A s \in Requests : Held(s) \subseteq Held(s)'
    BY <1>7 DEF Held, Written
  <1>9. rows \subseteq rows' \cup Held(r)'
    BY DEF Held
  <1>10. NothingLeftBehind'
    BY <1>8, <1>9 DEF NothingLeftBehind
  <1>11. QED
    BY <1>3, <1>4, <1>5, <1>6, <1>10

LEMMA UnansweredBytes ==
  ASSUME FilesTypeOK, BytesInv, NEW r \in Requests, phase[r] \in {"cleaning", "finding"},
         NEW removed \in SUBSET Seen(r), RemovalUnanswered(r, removed)
  PROVE  BytesInv'
  <1> USE DEF FilesTypeOK, BytesInv, RemovalUnanswered, EndTransaction, Goto
  <1>1. Untouched'
    BY DEF Untouched, Early
  <1>2. Booked'
    BY DEF Booked, Written
  <1>3. Cleared'
    BY DEF Cleared
  <1>4. RowsHaveBytes'
    BY DEF RowsHaveBytes, At, Files
  <1>5. \A s \in Requests : Held(s)' = Held(s)
    BY DEF Held, Written
  <1>6. disk \cap rows \subseteq rows' \cup orphans'
    OBVIOUS
  <1>7. NothingLeftBehind'
    BY <1>5, <1>6 DEF NothingLeftBehind
  <1>8. QED
    BY <1>1, <1>2, <1>3, <1>4, <1>7

LEMMA UnlinkBytes ==
  ASSUME FilesTypeOK, BytesInv, NEW r \in Requests, NEW kept \in SUBSET doomed[r],
         NEW p, Unlink(r, kept), Goto(r, p),
         \/ phase[r] \in {"sweeping", "undoing"}
         \/ phase[r] = "doubting" /\ p = "doubted"
  PROVE  BytesInv'
  <1> USE DEF FilesTypeOK, BytesInv, Unlink, Goto, database, reading
  <1>1. Untouched'
    BY DEF Untouched, Early
  <1>2. ASSUME NEW s \in Requests PROVE Written(s) \cap doomed[r] = {}
    BY DEF Untouched, Booked, Written, Early
  <1>3. Booked'
    BY <1>2 DEF Booked, Written
  <1>4. Cleared'
    BY DEF Cleared
  <1>5. RowsHaveBytes'
    BY DEF RowsHaveBytes, Cleared, At, Files
  <1>6. \A s \in Requests : Held(s) \ doomed[r] \subseteq Held(s)'
    BY DEF Held, Written
  <1>7. NothingLeftBehind'
    BY <1>6 DEF NothingLeftBehind
  <1>8. QED
    BY <1>1, <1>3, <1>4, <1>5, <1>7

LEMMA RollbackBytes ==
  ASSUME FilesTypeOK, BytesInv, NEW r \in Requests,
         phase[r] \in {"cleaning", "finding", "locking", "counting", "writing"},
         Rollback(r)
  PROVE  BytesInv'
  <1> USE DEF FilesTypeOK, BytesInv, Rollback, EndTransaction, Goto
  <1>1. \A f \in Written(r) : f[1] = r
    BY DEF Written
  <1>2. Untouched'
    BY <1>1 DEF Untouched, Early
  <1>3. Booked'
    BY DEF Booked, Written
  <1>4. Cleared'
    BY <1>1 DEF Cleared, Untouched, Early
  <1>5. RowsHaveBytes'
    BY DEF RowsHaveBytes, At, Files
  <1>6. doomed[r] = {}
    BY DEF Cleared
  <1>7. \A s \in Requests : Held(s) \subseteq Held(s)'
    BY <1>6 DEF Held, Written
  <1>8. NothingLeftBehind'
    BY <1>7 DEF NothingLeftBehind
  <1>9. QED
    BY <1>2, <1>3, <1>4, <1>5, <1>8

LEMMA CommitBytes ==
  ASSUME FilesTypeOK, BytesInv, NEW r \in Requests, CommitUpload(r)
  PROVE  BytesInv'
  <1> USE DEF FilesTypeOK, BytesInv, CommitUpload, ReadyToCommit, At, EndTransaction, Goto
  <1>1. \A f \in Written(r) : f[1] = r
    BY DEF Written
  <1>2. Untouched'
    BY <1>1 DEF Untouched, Early
  <1>3. Booked'
    BY DEF Booked, Written
  <1>4. Cleared'
    BY <1>1 DEF Cleared, Untouched, Early
  <1>5. RowsHaveBytes'
    BY DEF RowsHaveBytes, Booked, At, Files
  <1>6. \A s \in Requests : Held(s) \subseteq Held(s)' \cup rows'
    BY DEF Held, Written
  <1>7. NothingLeftBehind'
    BY <1>6 DEF NothingLeftBehind
  <1>8. QED
    BY <1>2, <1>3, <1>4, <1>5, <1>7

\* Its rows have their bytes as long as they are not undone.
LEMMA DoubtBytes ==
  ASSUME FilesTypeOK, BytesInv, NEW r \in Requests, CommitUnanswered(r)
  PROVE  BytesInv'
  <1> USE DEF FilesTypeOK, BytesInv, CommitUnanswered, ReadyToCommit, At, EndTransaction, Goto
  <1>1. \A f \in Written(r) : f[1] = r
    BY DEF Written
  <1>2. Untouched'
    BY <1>1 DEF Untouched, Early
  <1>3. Booked'
    BY DEF Booked, Written
  <1>4. Cleared'
    BY <1>1 DEF Cleared, Untouched, Early
  <1>5. RowsHaveBytes'
    BY DEF RowsHaveBytes, Booked, Files
  <1>6. doomed[r] = {}
    BY DEF Cleared
  <1>7. \A s \in Requests : Held(s) \subseteq Held(s)'
    BY <1>6 DEF Held, Written
  <1>8. NothingLeftBehind'
    BY <1>7 DEF NothingLeftBehind
  <1>9. QED
    BY <1>2, <1>3, <1>4, <1>5, <1>8

LEMMA WriteBytes ==
  ASSUME FilesTypeOK, BytesInv, NEW r \in Requests, NEW c \in Contents, WriteFile(r, c)
  PROVE  BytesInv'
  <1> USE DEF FilesTypeOK, BytesInv, WriteFile, At, database, reading
  <1>1. Untouched'
    BY DEF Untouched
  <1>2. Booked'
    BY DEF Booked, Written
  <1>3. Cleared'
    BY DEF Cleared
  <1>4. RowsHaveBytes'
    BY DEF RowsHaveBytes, At, Files
  <1>5. (\A s \in Requests : Held(s) \subseteq Held(s)') /\ <<r, c>> \in Held(r)'
    BY DEF Held, Written
  <1>6. NothingLeftBehind'
    BY <1>5 DEF NothingLeftBehind
  <1>7. QED
    BY <1>1, <1>2, <1>3, <1>4, <1>6

LEMMA CrashBytes ==
  ASSUME FilesTypeOK, BytesInv, NEW r \in Requests, Crash(r)
  PROVE  BytesInv'
  <1> USE DEF FilesTypeOK, BytesInv, Crash, EndTransaction, Goto
  <1>1. Untouched'
    BY DEF Untouched, Early
  <1>2. Booked'
    BY DEF Booked, Written
  <1>3. Cleared'
    BY DEF Cleared
  <1>4. RowsHaveBytes'
    BY DEF RowsHaveBytes, At, Files, Ended
  <1>5. \A s \in Requests : Held(s) \cap disk \subseteq Held(s)' \cup orphans'
    BY DEF Held, Written
  <1>6. NothingLeftBehind'
    BY <1>5 DEF NothingLeftBehind
  <1>7. QED
    BY <1>1, <1>2, <1>3, <1>4, <1>6

LEMMA StutterBytes ==
  ASSUME BytesInv,
         UNCHANGED <<rows, snapshot, doomed, phase, written, batch, disk, orphans>>
  PROVE  BytesInv'
  BY DEF BytesInv, Untouched, Booked, Cleared, RowsHaveBytes, NothingLeftBehind,
         Held, Written, At

LEMMA FilesNextBytes == FilesTypeOK /\ BytesInv /\ [FilesNext]_filesVars => BytesInv'
  <1> SUFFICES ASSUME FilesTypeOK, BytesInv, [FilesNext]_filesVars PROVE BytesInv'
    OBVIOUS
  <1>1. ASSUME NEW r \in Requests,
               \/ NothingExpired(r) \/ DeleteMissing(r) \/ Prepare(r) \/ Reject(r)
               \/ WithinQuota(r) \/ LockUser(r)
        PROVE  BytesInv'
    <2>1. phase[r] \in Early \ {"writing", "sweeping", "undoing"}
      BY <1>1 DEF NothingExpired, DeleteMissing, Prepare, Reject, WithinQuota,
                  LockUser, At, Early
    <2>2. \E p : Moves(r, p)
      BY <1>1, MovingSteps
    <2>3. QED
      BY <2>1, <2>2, MovesBytes
  <1>2. ASSUME NEW r \in Requests, Refresh(r) PROVE BytesInv'
    <2>1. phase[r] = "refreshing"
      BY <1>2 DEF Refresh, At
    <2>2. PICK p \in {"created", "unread"} : Moves(r, p)
      BY <1>2, MovingSteps
    <2>3. p \notin Early
      BY DEF Early
    <2>4. QED
      BY <2>1, <2>2, <2>3, MovesBytes
  <1>3. ASSUME NEW r \in Requests, ListFiles(r) \/ DeleteFile(r) \/ UploadFiles(r)
        PROVE  BytesInv'
    <2>1. {"cleaning", "finding", "reading"} \subseteq Early
      BY DEF Early
    <2>2. QED
      BY <1>3, <2>1, AuthenticateBytes DEF ListFiles, DeleteFile, UploadFiles
  <1>4. ASSUME NEW r \in Requests, CleanupExpired(r) \/ CleanupUnanswered(r)
        PROVE  BytesInv'
    BY <1>4, RemovalBytes, UnansweredBytes DEF CleanupExpired, CleanupUnanswered, At
  <1>5. ASSUME NEW r \in Requests, DeleteFound(r) \/ DeleteUnanswered(r)
        PROVE  BytesInv'
    <2>1. PICK f \in Seen(r) : CommitRemoval(r, {f}) \/ RemovalUnanswered(r, {f})
      BY <1>5 DEF DeleteFound, DeleteUnanswered
    <2>2. {f} \in SUBSET Seen(r) /\ phase[r] = "finding"
      BY <1>5 DEF DeleteFound, DeleteUnanswered, At
    <2>3. QED
      BY <2>1, <2>2, RemovalBytes, UnansweredBytes
  <1>6. ASSUME NEW r \in Requests, Sweep(r) PROVE BytesInv'
    <2>1. phase[r] = "sweeping"
      BY <1>6 DEF Sweep, At
    <2>2. PICK kept \in SUBSET doomed[r] : Unlink(r, kept)
      BY <1>6 DEF Sweep
    <2>3. PICK p : Goto(r, p)
      BY <1>6 DEF Sweep
    <2>4. QED
      BY <2>1, <2>2, <2>3, UnlinkBytes
  <1>7. ASSUME NEW r \in Requests, Undo(r) PROVE BytesInv'
    <2>1. PICK kept \in SUBSET doomed[r] : Unlink(r, kept)
      BY <1>7 DEF Undo
    <2>2. \/ phase[r] = "undoing" /\ Goto(r, "failed")
          \/ phase[r] = "doubting" /\ Goto(r, "doubted")
      BY <1>7 DEF Undo, At
    <2>3. QED
      BY <2>1, <2>2, UnlinkBytes
  <1>8. ASSUME NEW r \in Requests, OverQuota(r) \/ StorageFails(r) \/ Conflict(r)
        PROVE  BytesInv'
    BY <1>8, RollbackBytes DEF OverQuota, StorageFails, Conflict, ReadyToCommit, At
  <1>9. ASSUME NEW f \in Files, Expire(f) PROVE BytesInv'
    BY <1>9, StutterBytes DEF Expire, reading
  <1>10. CASE UNCHANGED filesVars
    BY <1>10, StutterBytes DEF filesVars, database, reading
  <1>11. QED
    BY <1>1, <1>2, <1>3, <1>4, <1>5, <1>6, <1>7, <1>8, <1>9, <1>10,
       WriteBytes, CommitBytes, DoubtBytes, CrashBytes DEF FilesNext, RequestStep

LEMMA BytesInitially == FilesInit => BytesInv
  BY DEF FilesInit, BytesInv, Untouched, Booked, Cleared, RowsHaveBytes,
         NothingLeftBehind, Written

THEOREM BytesCorrect == FilesSpec => [](FilesTypeOK /\ BytesInv)
  <1>1. FilesInit => FilesTypeOK /\ BytesInv
    BY BytesInitially DEF FilesInit, FilesTypeOK, Phase
  <1>2. QED
    BY <1>1, FilesNextType, FilesNextBytes, PTL DEF FilesSpec

\* What a request whose commit did not happen could have left is neither a row
\* nor held by anyone, so only a crash or a failed unlink accounts for it.
LEMMA NotCommitted ==
  ASSUME FilesTypeOK, BytesInv, NEW r \in Requests, phase[r] \in Early \ {"undoing"},
         NEW f \in Left(r)
  PROVE  f \in orphans \cup Written(r)
  <1>1. f[1] = r /\ f \in rows \cup disk
    BY DEF Left
  <1>2. f \notin rows
    BY <1>1 DEF BytesInv, Untouched
  <1>3. ASSUME NEW s \in Requests PROVE f \notin doomed[s]
    BY <1>1 DEF BytesInv, Untouched
  <1>4. ASSUME NEW s \in Requests, f \in Written(s) PROVE s = r
    BY <1>1, <1>4 DEF Written
  <1>5. QED
    BY <1>1, <1>2, <1>3, <1>4 DEF BytesInv, NothingLeftBehind, Held

\* An upload that took its commit for failed undoes all it wrote.
Doubtful == {"doubting", "doubted"}
Undone ==
    \A r \in Requests : phase[r] \in Doubtful =>
        ({r} \X Contents) \cap disk \subseteq doomed[r] \cup orphans

LEMMA UndoneElsewhere ==
  ASSUME Undone, NEW q \in Requests, phase'[q] \notin Doubtful,
         \A s \in Requests \ {q} : phase'[s] = phase[s] /\ doomed'[s] = doomed[s],
         \A f \in disk' \ disk : f[1] = q, orphans \subseteq orphans'
  PROVE  Undone'
  BY DEF Undone

LEMMA UndoneNext == FilesTypeOK /\ BytesInv /\ Undone /\ [FilesNext]_filesVars => Undone'
  <1> SUFFICES ASSUME FilesTypeOK, BytesInv, Undone, [FilesNext]_filesVars PROVE Undone'
    OBVIOUS
  <1> USE DEF Doubtful
  <1>0. phase \in [Requests -> Phase] /\ doomed \in [Requests -> SUBSET Files]
    BY DEF FilesTypeOK
  <1>1. ASSUME NEW q \in Requests, CommitUnanswered(q) PROVE Undone'
    <2>1. /\ phase[q] = "writing" /\ phase'[q] = "doubting" /\ doomed'[q] = Written(q)
          /\ UNCHANGED <<disk, orphans>>
          /\ \A s \in Requests \ {q} : phase'[s] = phase[s] /\ doomed'[s] = doomed[s]
      BY <1>0, <1>1 DEF CommitUnanswered, ReadyToCommit, At, Goto
    <2>2. ({q} \X Contents) \cap disk \subseteq orphans \cup Written(q)
      BY <2>1, NotCommitted DEF Left, Early
    <2>3. QED
      BY <2>1, <2>2 DEF Undone
  <1>2. ASSUME NEW q \in Requests, Undo(q) PROVE Undone'
    <2>1. PICK kept \in SUBSET doomed[q] : Unlink(q, kept)
      BY <1>2 DEF Undo
    <2>2. /\ disk' = disk \ (doomed[q] \ kept) /\ orphans' = orphans \cup kept
          /\ \A s \in Requests \ {q} : doomed'[s] = doomed[s]
      BY <1>0, <2>1 DEF Unlink
    <2>3. /\ \A s \in Requests \ {q} : phase'[s] = phase[s]
          /\ (phase[q] = "undoing" /\ phase'[q] = "failed") \/ phase[q] = "doubting"
      BY <1>0, <1>2 DEF Undo, At, Goto
    <2>4. QED
      BY <2>2, <2>3 DEF Undone
  <1>3. ASSUME NEW q \in Requests, NEW c \in Contents, WriteFile(q, c) PROVE Undone'
    <2>1. phase' = phase /\ phase[q] = "writing" /\ doomed' = doomed
          /\ orphans' = orphans /\ disk' = disk \cup {<<q, c>>}
      BY <1>3 DEF WriteFile, At
    <2>2. QED
      BY <2>1, UndoneElsewhere
  <1>4. ASSUME NEW q \in Requests, Sweep(q) PROVE Undone'
    <2>1. PICK kept \in SUBSET doomed[q] : Unlink(q, kept)
      BY <1>4 DEF Sweep
    <2>2. /\ disk' \subseteq disk /\ orphans \subseteq orphans'
          /\ \A s \in Requests \ {q} : doomed'[s] = doomed[s] /\ phase'[s] = phase[s]
          /\ phase'[q] \notin Doubtful
      BY <1>0, <1>4, <2>1 DEF Unlink, Sweep, Goto, AfterSweep
    <2>3. QED
      BY <2>2, UndoneElsewhere
  <1>5. ASSUME NEW q \in Requests, ListFiles(q) \/ DeleteFile(q) \/ UploadFiles(q) PROVE Undone'
    BY <1>0, <1>5, UndoneElsewhere
    DEF ListFiles, DeleteFile, UploadFiles, Authenticate, Goto, database
  <1>6. ASSUME NEW q \in Requests, OverQuota(q) \/ StorageFails(q) \/ Conflict(q) PROVE Undone'
    BY <1>0, <1>6, UndoneElsewhere DEF OverQuota, StorageFails, Conflict, Rollback, Goto
  <1>7. ASSUME NEW q \in Requests, CleanupExpired(q) \/ DeleteFound(q) PROVE Undone'
    BY <1>0, <1>7, UndoneElsewhere DEF CleanupExpired, DeleteFound, CommitRemoval, Goto
  <1>8. ASSUME NEW q \in Requests, CleanupUnanswered(q) \/ DeleteUnanswered(q) PROVE Undone'
    BY <1>0, <1>8, UndoneElsewhere
    DEF CleanupUnanswered, DeleteUnanswered, RemovalUnanswered, Goto
  <1>9. ASSUME NEW q \in Requests,
               \/ NothingExpired(q) \/ DeleteMissing(q) \/ Prepare(q) \/ Reject(q)
               \/ LockUser(q) \/ WithinQuota(q) \/ CommitUpload(q) \/ Refresh(q) \/ Crash(q)
        PROVE  Undone'
    <2>1. /\ disk' = disk /\ orphans \subseteq orphans'
          /\ \A s \in Requests \ {q} : phase'[s] = phase[s] /\ doomed'[s] = doomed[s]
          /\ phase'[q] \notin Doubtful
      BY <1>0, <1>9 DEF NothingExpired, DeleteMissing, Prepare, Reject, LockUser, WithinQuota,
         CommitUpload, Refresh, Crash, Goto, AfterSweep
    <2>2. QED
      BY <2>1, UndoneElsewhere
  <1>10. CASE UNCHANGED <<phase, doomed, disk, orphans>>
    BY <1>10 DEF Undone
  <1>11. QED
    BY <1>1, <1>2, <1>3, <1>4, <1>5, <1>6, <1>7, <1>8, <1>9, <1>10
    DEF FilesNext, RequestStep, Expire, filesVars

\* What an upload answered with an error has left depends on its commit alone.
ErrorsAndCommits ==
    \A r \in Requests :
        /\ phase[r] = "failed" => Left(r) \subseteq orphans
        /\ phase[r] = "unread" => rows \cap Left(r) \subseteq disk
        /\ phase[r] = "doubted" => disk \cap Left(r) \subseteq orphans

\* An upload is answered with an error in three cases.  Where its commit did not
\* happen, it has left neither row nor bytes; where it happened and only the rows
\* could not be read back, those rows have their bytes; where its answer was taken
\* for a failure, no bytes are left and the rows lack them (managed_file_service.py
\* upload_files).  Bytes a crash or a failed unlink left are apart.
THEOREM FailedUploads == FilesSpec => []ErrorsAndCommits
  <1>1. FilesInit => Undone
    BY DEF FilesInit, Undone, Doubtful
  <1>2. FilesSpec => []Undone
    BY <1>1, BytesCorrect, UndoneNext, PTL DEF FilesSpec
  <1>3. FilesTypeOK /\ BytesInv /\ Undone => ErrorsAndCommits
    <2> SUFFICES ASSUME FilesTypeOK, BytesInv, Undone, NEW r \in Requests
                 PROVE  /\ phase[r] = "failed" => Left(r) \subseteq orphans
                        /\ phase[r] = "unread" => rows \cap Left(r) \subseteq disk
                        /\ phase[r] = "doubted" => disk \cap Left(r) \subseteq orphans
      BY DEF ErrorsAndCommits
    <2>1. ASSUME phase[r] = "failed" PROVE Left(r) \subseteq orphans
      <3>1. Written(r) = {}
        BY <2>1 DEF BytesInv, Booked, Written
      <3>2. QED
        BY <2>1, <3>1, NotCommitted DEF Early
    <2>2. ASSUME phase[r] = "unread" PROVE rows \cap Left(r) \subseteq disk
      BY <2>2 DEF BytesInv, RowsHaveBytes, Left, At
    <2>3. ASSUME phase[r] = "doubted" PROVE disk \cap Left(r) \subseteq orphans
      <3>1. doomed[r] = {}
        BY <2>3 DEF BytesInv, Cleared
      <3>2. QED
        BY <2>3, <3>1 DEF Undone, Doubtful, Left
    <2>4. QED
      BY <2>1, <2>2, <2>3
  <1>4. QED
    BY <1>2, <1>3, BytesCorrect, PTL

\* Whatever interleaves or fails, a row has its bytes on the disk, unless its
\* upload took for failed a commit that had happened.
THEOREM BytesOfEveryRow == FilesSpec => []RowsHaveBytes
  <1>1. BytesInv => RowsHaveBytes
    BY DEF BytesInv
  <1>2. QED
    BY <1>1, BytesCorrect, PTL

\* Bytes without a row are in a request's hands or were left by a fault.
THEOREM NoLeak == FilesSpec => []NothingLeftBehind
  <1>1. BytesInv => NothingLeftBehind
    BY DEF BytesInv
  <1>2. QED
    BY <1>1, BytesCorrect, PTL

-----------------------------------------------------------------------------
(* The quota.                                                               *)

LEMMA RowOfBatch ==
  ASSUME NEW r, NEW S, IsFiniteSet(S)
  PROVE  IsFiniteSet({r} \X S) /\ Cardinality({r} \X S) <= Cardinality(S)
  <1> DEFINE f == [c \in S |-> <<r, c>>]
  <1>1. f \in Surjection(S, {r} \X S)
    <2>1. f \in [S -> {r} \X S]
      OBVIOUS
    <2>2. \A t \in {r} \X S : \E c \in S : f[c] = t
      <3>1. ASSUME NEW t \in {r} \X S PROVE t[2] \in S /\ t = <<r, t[2]>>
        OBVIOUS
      <3>2. QED
        BY <3>1
    <2>3. QED
      BY <2>1, <2>2 DEF Surjection
  <1>2. QED
    BY <1>1, FS_Surjection

LEMMA BatchFinite ==
  ASSUME FilesTypeOK, NEW r \in Requests
  PROVE  /\ IsFiniteSet(batch[r]) /\ Cardinality(batch[r]) \in Nat
         /\ IsFiniteSet(written[r])
  BY FilesAssumption, FS_Subset, FS_CardinalityType DEF FilesTypeOK

\* A step that adds no row and lets nobody start to write keeps the quota.
LEMMA NoRowAdded ==
  ASSUME FilesTypeOK, Roomy, repeatable' = repeatable, rows' \subseteq rows,
         \A r \in Requests : At(r, "writing")' => At(r, "writing") /\ batch'[r] = batch[r]
  PROVE  Roomy'
  <1>1. IsFiniteSet(rows') /\ Cardinality(rows') <= Cardinality(rows)
    BY FS_Subset DEF Roomy
  <1>2. Cardinality(rows') \in Nat /\ Cardinality(rows) \in Nat
    BY <1>1, FS_CardinalityType DEF Roomy
  <1>3. ~repeatable' => Cardinality(rows') <= MaxCount
    BY <1>1, <1>2, FilesAssumption DEF Roomy
  <1>4. ASSUME ~repeatable', NEW r \in Requests, At(r, "writing")'
        PROVE  Cardinality(rows') + Cardinality(batch'[r]) <= MaxCount
    <2>1. Cardinality(rows) + Cardinality(batch[r]) <= MaxCount /\ batch'[r] = batch[r]
      BY <1>4 DEF Roomy
    <2>2. Cardinality(batch[r]) \in Nat
      BY BatchFinite
    <2>3. QED
      BY <1>1, <1>2, <2>1, <2>2, FilesAssumption
  <1>5. QED
    BY <1>1, <1>3, <1>4 DEF Roomy

\* Room found by the count is room for the batch.
LEMMA RoomFound ==
  ASSUME FilesTypeOK, Roomy, NEW r \in Requests, WithinQuota(r)
  PROVE  Roomy'
  <1>1. rows' = rows /\ batch' = batch /\ repeatable' = repeatable
    BY DEF WithinQuota, database
  <1>2. \A s \in Requests : At(s, "writing")' => At(s, "writing") \/ s = r
    BY DEF WithinQuota, Goto, At, FilesTypeOK
  <1>3. ~repeatable => Cardinality(rows) + Cardinality(batch[r]) <= MaxCount
    BY DEF WithinQuota, Fits, Seen
  <1>4. QED
    BY <1>1, <1>2, <1>3 DEF Roomy

\* The commit uses the room that was found: nobody else held the lock.
LEMMA RoomUsed ==
  ASSUME FilesTypeOK, BytesInv, QuotaInv, NEW r \in Requests,
         ReadyToCommit(r), rows' = rows \cup Written(r), repeatable' = repeatable,
         batch' = batch, NEW p, p # "writing", Goto(r, p)
  PROVE  Roomy'
  <1>1. IsFiniteSet(Written(r)) /\ Cardinality(Written(r)) <= Cardinality(batch[r])
    <2>1. written[r] = batch[r]
      BY DEF ReadyToCommit
    <2>2. QED
      BY <2>1, BatchFinite, RowOfBatch DEF Written
  <1>2. /\ IsFiniteSet(rows')
        /\ Cardinality(rows') = Cardinality(rows) + Cardinality(Written(r))
                                  - Cardinality(rows \cap Written(r))
    BY <1>1, FS_Union DEF QuotaInv, Roomy
  <1>3. IsFiniteSet(rows \cap Written(r))
    BY <1>1, FS_Subset
  <1>4. /\ Cardinality(rows) \in Nat /\ Cardinality(Written(r)) \in Nat
        /\ Cardinality(rows \cap Written(r)) \in Nat /\ Cardinality(rows') \in Nat
        /\ Cardinality(batch[r]) \in Nat
    BY <1>1, <1>2, <1>3, FS_CardinalityType, BatchFinite DEF QuotaInv, Roomy
  <1>5. ~repeatable => Cardinality(rows) + Cardinality(batch[r]) <= MaxCount
    BY DEF ReadyToCommit, QuotaInv, Roomy
  <1>6. ~repeatable => Cardinality(rows') <= MaxCount
    BY <1>1, <1>2, <1>4, <1>5, FilesAssumption
  <1>7. ASSUME NEW s \in Requests PROVE ~At(s, "writing")'
    <2>1. r \in lock
      BY DEF ReadyToCommit, At, QuotaInv, Locked
    <2>2. CASE s = r
      BY <2>2 DEF Goto, At, FilesTypeOK
    <2>3. CASE s # r
      BY <2>1, <2>3 DEF Goto, At, FilesTypeOK, QuotaInv, Locked
    <2>4. QED
      BY <2>2, <2>3
  <1>8. QED
    BY <1>2, <1>6, <1>7 DEF Roomy

\* A step of r that takes nobody else's lock and does not enter the section.
LEMMA KeepsLocked ==
  ASSUME FilesTypeOK, Locked, NEW r \in Requests, NEW p, Goto(r, p),
         lock \ {r} \subseteq lock',
         p \in {"counting", "writing"} => r \in lock'
  PROVE  Locked'
  BY DEF FilesTypeOK, Locked, Goto

LEMMA FilesNextQuota ==
  FilesTypeOK /\ BytesInv /\ QuotaInv /\ [FilesNext]_filesVars => QuotaInv'
  <1> SUFFICES ASSUME FilesTypeOK, BytesInv, QuotaInv, [FilesNext]_filesVars
               PROVE  QuotaInv'
    OBVIOUS
  <1> USE DEF QuotaInv
  <1>1. ASSUME NEW r \in Requests,
               NothingExpired(r) \/ DeleteMissing(r) \/ Prepare(r) \/ Reject(r) \/ Refresh(r)
        PROVE  QuotaInv'
    <2>1. PICK p \in {"locking", "done", "cleaning", "failed", "created", "unread"} :
             Moves(r, p) /\ lock' = lock
      BY <1>1, MovingSteps, AfterSweepType
    <2>2. Locked'
      BY <2>1, KeepsLocked DEF Moves
    <2>3. Roomy'
      BY <2>1, NoRowAdded DEF Moves, Goto, At, FilesTypeOK
    <2>4. QED
      BY <2>2, <2>3
  <1>2. ASSUME NEW r \in Requests, LockUser(r) PROVE QuotaInv'
    <2>1. Moves(r, "counting") /\ lock' = {r} /\ lock = {}
      BY <1>2, MovingSteps DEF LockUser
    <2>2. Locked'
      BY <2>1, KeepsLocked DEF Moves
    <2>3. Roomy'
      BY <2>1, NoRowAdded DEF Moves, Goto, At, FilesTypeOK
    <2>4. QED
      BY <2>2, <2>3
  <1>3. ASSUME NEW r \in Requests, WithinQuota(r) PROVE QuotaInv'
    <2>1. Goto(r, "writing") /\ lock' = lock /\ r \in lock
      BY <1>3 DEF WithinQuota, database, At, Locked
    <2>2. Locked'
      BY <2>1, KeepsLocked
    <2>3. QED
      BY <1>3, <2>2, RoomFound
  <1>4. ASSUME NEW r \in Requests, ListFiles(r) \/ DeleteFile(r) \/ UploadFiles(r)
        PROVE  QuotaInv'
    <2>1. PICK p \in {"cleaning", "finding", "reading"}, items \in SUBSET Contents :
             Authenticate(r, p, items)
      BY <1>4 DEF ListFiles, DeleteFile, UploadFiles
    <2>2. Locked'
      BY <2>1, KeepsLocked DEF Authenticate, database
    <2>3. Roomy'
      BY <2>1, NoRowAdded DEF Authenticate, database, Goto, At, FilesTypeOK
    <2>4. QED
      BY <2>2, <2>3
  <1>5. ASSUME NEW r \in Requests,
               \/ CleanupExpired(r) \/ DeleteFound(r)
               \/ CleanupUnanswered(r) \/ DeleteUnanswered(r)
        PROVE  QuotaInv'
    <2>1. PICK removed, p : /\ p \in {"sweeping", "undoing"} /\ Goto(r, p)
                            /\ rows' = rows \ removed
                            /\ UNCHANGED <<repeatable, lock, batch>>
      BY <1>5 DEF CleanupExpired, DeleteFound, CommitRemoval,
                  CleanupUnanswered, DeleteUnanswered, RemovalUnanswered
    <2>2. Locked'
      BY <2>1, KeepsLocked
    <2>3. Roomy'
      BY <2>1, NoRowAdded DEF Goto, At, FilesTypeOK
    <2>4. QED
      BY <2>2, <2>3
  <1>6. ASSUME NEW r \in Requests, Sweep(r) \/ Undo(r) PROVE QuotaInv'
    <2>1. PICK p, kept : /\ p \in {"locking", "done", "failed", "doubted"}
                         /\ Goto(r, p) /\ Unlink(r, kept)
      BY <1>6, AfterSweepType DEF Sweep, Undo
    <2>2. Locked'
      BY <2>1, KeepsLocked DEF Unlink, database
    <2>3. Roomy'
      BY <2>1, NoRowAdded DEF Unlink, database, Goto, At, FilesTypeOK
    <2>4. QED
      BY <2>2, <2>3
  <1>7. ASSUME NEW r \in Requests, OverQuota(r) \/ StorageFails(r) \/ Conflict(r)
        PROVE  QuotaInv'
    <2>1. Rollback(r)
      BY <1>7 DEF OverQuota, StorageFails, Conflict
    <2>2. Locked'
      BY <2>1, KeepsLocked DEF Rollback
    <2>3. Roomy'
      BY <2>1, NoRowAdded DEF Rollback, Goto, At, FilesTypeOK
    <2>4. QED
      BY <2>2, <2>3
  <1>8. ASSUME NEW r \in Requests, NEW c \in Contents, WriteFile(r, c) PROVE QuotaInv'
    <2>1. Locked'
      BY <1>8 DEF WriteFile, database, Locked
    <2>2. Roomy'
      BY <1>8, NoRowAdded DEF WriteFile, database, At
    <2>3. QED
      BY <2>1, <2>2
  <1>9. ASSUME NEW r \in Requests, CommitUpload(r) \/ CommitUnanswered(r)
        PROVE  QuotaInv'
    <2>1. PICK p \in {"refreshing", "doubting"} :
             /\ ReadyToCommit(r) /\ rows' = rows \cup Written(r) /\ lock' = lock \ {r}
             /\ Goto(r, p) /\ repeatable' = repeatable /\ batch' = batch
      BY <1>9 DEF CommitUpload, CommitUnanswered
    <2>2. Locked'
      BY <2>1, KeepsLocked
    <2>3. Roomy'
      BY <2>1, RoomUsed
    <2>4. QED
      BY <2>2, <2>3
  <1>10. ASSUME NEW r \in Requests, Crash(r) PROVE QuotaInv'
    <2>1. Locked'
      BY <1>10, KeepsLocked DEF Crash
    <2>2. Roomy'
      BY <1>10, NoRowAdded DEF Crash, Goto, At, FilesTypeOK
    <2>3. QED
      BY <2>1, <2>2
  <1>11. ASSUME UNCHANGED <<rows, lock, phase, batch, repeatable>> PROVE QuotaInv'
    BY <1>11 DEF Locked, Roomy, At
  <1>12. ASSUME NEW f \in Files, Expire(f) PROVE QuotaInv'
    BY <1>11, <1>12 DEF Expire
  <1>13. CASE UNCHANGED filesVars
    BY <1>11, <1>13 DEF filesVars, database
  <1>14. QED
    BY <1>1, <1>2, <1>3, <1>4, <1>5, <1>6, <1>7, <1>8, <1>9, <1>10, <1>12, <1>13
       DEF FilesNext, RequestStep

LEMMA QuotaInitially == FilesInit => QuotaInv
  BY FS_EmptySet, FilesAssumption DEF FilesInit, QuotaInv, Locked, Roomy, At

\* With fresh reads inside the lock the quota bounds the rows of the user.
THEOREM QuotaHolds == FilesSpec => []QuotaWithFreshReads
  <1>1. FilesInit => FilesTypeOK /\ BytesInv /\ QuotaInv
    BY BytesInitially, QuotaInitially DEF FilesInit, FilesTypeOK, Phase
  <1>2. /\ FilesTypeOK /\ BytesInv /\ QuotaInv /\ [FilesNext]_filesVars
        => FilesTypeOK' /\ BytesInv' /\ QuotaInv'
    BY FilesNextType, FilesNextBytes, FilesNextQuota
  <1>3. QuotaInv => QuotaWithFreshReads
    BY DEF QuotaInv, Roomy, QuotaWithFreshReads, QuotaRespected
  <1>4. QED
    BY <1>1, <1>2, <1>3, PTL DEF FilesSpec

-----------------------------------------------------------------------------
(* The readers of FileAnalysis.                                             *)

\* A reader is a request of ManagedFiles that looks for a file: every step of
\* it that touches rows, bytes or phases is a step of that module.
LEMMA ReadersStep == [AnalysisNext]_analysisVars => [FilesNext]_filesVars
  <1> SUFFICES ASSUME [AnalysisNext]_analysisVars PROVE [FilesNext]_filesVars
    OBVIOUS
  <1>1. CASE FilesStep
    BY <1>1 DEF FilesStep, FilesNext
  <1>2. ASSUME NEW r \in Requests, GetFile(r) \/ AnalyzeFile(r) \/ FileStatistics(r)
        PROVE  FilesNext
    BY <1>2 DEF GetFile, AnalyzeFile, FileStatistics, Ask, FilesNext, RequestStep
  <1>3. ASSUME NEW r \in Requests, ToolRefuses(r) \/ Find(r) \/ ReadBytes(r) \/ Compute(r)
        PROVE  UNCHANGED filesVars
    BY <1>3 DEF ToolRefuses, Find, ReadBytes, Compute
  <1>4. ASSUME NEW r \in Requests, FindNothing(r) PROVE FilesNext \/ UNCHANGED filesVars
    BY <1>4 DEF FindNothing, FilesNext, RequestStep
  <1>5. ASSUME NEW r \in Requests, FindFails(r) \/ Below(r) \/ Dies(r) PROVE FilesNext
    BY <1>5 DEF FindFails, Below, Dies, FilesNext, RequestStep
  <1>6. ASSUME NEW f \in Files, Spoil(f) PROVE UNCHANGED filesVars
    BY <1>6 DEF Spoil
  <1>7. CASE UNCHANGED analysisVars
    BY <1>7 DEF analysisVars
  <1>8. QED
    BY <1>1, <1>2, <1>3, <1>4, <1>5, <1>6, <1>7 DEF AnalysisNext, ReadStep

THEOREM ReadersAreRequests == AnalysisSpec => FilesSpec
  <1>1. AnalysisInit => FilesInit
    BY DEF AnalysisInit
  <1>2. QED
    BY <1>1, ReadersStep, PTL DEF AnalysisSpec, FilesSpec

\* Hence whatever is asked of the files, and however the answer fails, what the
\* service promises of rows, bytes and quota holds.
THEOREM FilesStaySound ==
    AnalysisSpec => [](RowsHaveBytes /\ NothingLeftBehind /\ ErrorsAndCommits
                       /\ QuotaWithFreshReads)
  BY ReadersAreRequests, BytesOfEveryRow, NoLeak, FailedUploads, QuotaHolds, PTL

\* An id is handed out when its upload has ended or is about to.
Known == {"created", "doubting", "doubted", "lost"}

ReadsType ==
    /\ target \in [Requests -> {<< >>} \cup (Files \X Asked \X BOOLEAN)]
    /\ reply \in [Requests -> Replies]
    /\ spoilt \subseteq Files

\* A file a reader asks for is of an ended upload, so that it is never stored
\* again; one that was gone when the reader was authenticated is out of its sight.
Sought ==
    \A r \in Requests : Reads(r) =>
        /\ phase[r] # "idle" /\ phase[File(r)[1]] \in Known
        /\ ~WasLive(r) => \/ File(r) \in expired
                          \/ File(r) \notin rows /\ File(r) \notin snapshot[r]

Unasked == \A r \in Requests : ~Reads(r) => reply[r] \in {"none", "refused"}

ReadsInv == ReadsType /\ Sought /\ Unasked /\ ReadsAreHonest

LEMMA ReadsInitially == AnalysisInit => ReadsInv
  BY DEF AnalysisInit, ReadsInv, ReadsType, Sought, Unasked, ReadsAreHonest, Reads, Replies

\* What no step of ManagedFiles does to the file of a reader.
LEMMA FilesFrame ==
    ASSUME FilesTypeOK, BytesInv, [FilesNext]_filesVars
    PROVE  /\ expired \subseteq expired'
           /\ \A q \in Requests :
                 /\ phase[q] # "idle" =>
                       phase'[q] # "idle" /\ snapshot'[q] \subseteq snapshot[q]
                 /\ phase[q] \in Known => phase'[q] \in Known
                 /\ phase[q] = "doubted" => phase'[q] = "doubted"
           /\ \A f \in Files : phase[f[1]] \in Known /\ f \notin rows => f \notin rows'
  <1> DEFINE Framed ==
        /\ expired \subseteq expired'
        /\ \A q \in Requests :
              /\ phase[q] # "idle" =>
                    phase'[q] # "idle" /\ snapshot'[q] \subseteq snapshot[q]
              /\ phase[q] \in Known => phase'[q] \in Known
              /\ phase[q] = "doubted" => phase'[q] = "doubted"
        /\ \A f \in Files : phase[f[1]] \in Known /\ f \notin rows => f \notin rows'
  <1>1. ASSUME NEW r \in Requests, ListFiles(r) \/ DeleteFile(r) \/ UploadFiles(r)
        PROVE  Framed
    BY <1>1 DEF ListFiles, DeleteFile, UploadFiles, Authenticate, At, Goto, FilesTypeOK,
                database, Known
  <1>2. ASSUME NEW r \in Requests, NEW removed, CommitRemoval(r, removed),
               phase[r] \in {"cleaning", "finding"}
        PROVE  Framed
    BY <1>2 DEF CommitRemoval, EndTransaction, Goto, FilesTypeOK, Known
  <1>3. ASSUME NEW r \in Requests, NEW removed, RemovalUnanswered(r, removed),
               phase[r] \in {"cleaning", "finding"}
        PROVE  Framed
    BY <1>3 DEF RemovalUnanswered, EndTransaction, Goto, FilesTypeOK, Known
  <1>4. ASSUME NEW r \in Requests,
               \/ CleanupExpired(r) \/ CleanupUnanswered(r)
               \/ DeleteFound(r) \/ DeleteUnanswered(r)
        PROVE  Framed
    BY <1>2, <1>3, <1>4 DEF CleanupExpired, CleanupUnanswered, DeleteFound,
                            DeleteUnanswered, At
  <1>5. ASSUME NEW r \in Requests,
               \/ NothingExpired(r) \/ DeleteMissing(r) \/ Prepare(r) \/ Reject(r)
               \/ WithinQuota(r) \/ LockUser(r) \/ Refresh(r)
        PROVE  Framed
    BY <1>5 DEF NothingExpired, DeleteMissing, Prepare, Reject, WithinQuota, LockUser,
                Refresh, AfterSweep, At, Goto, FilesTypeOK, database, reading, Known
  <1>6. ASSUME NEW r \in Requests, Sweep(r) \/ Undo(r) PROVE Framed
    BY <1>6 DEF Sweep, Undo, Unlink, AfterSweep, At, Goto, FilesTypeOK, database,
                reading, Known
  <1>7. ASSUME NEW r \in Requests, NEW c \in Contents, WriteFile(r, c) PROVE Framed
    BY <1>7 DEF WriteFile, FilesTypeOK, database, reading
  <1>8. ASSUME NEW r \in Requests, OverQuota(r) \/ StorageFails(r) \/ Conflict(r)
        PROVE  Framed
    BY <1>8 DEF OverQuota, StorageFails, Conflict, ReadyToCommit, Rollback,
                EndTransaction, At, Goto, FilesTypeOK, Known
  <1>9. ASSUME NEW r \in Requests, CommitUpload(r) \/ CommitUnanswered(r) PROVE Framed
    BY <1>9 DEF CommitUpload, CommitUnanswered, ReadyToCommit, EndTransaction, Written,
                At, Goto, FilesTypeOK, Known
  <1>10. ASSUME NEW r \in Requests, Crash(r) PROVE Framed
    BY <1>10 DEF Crash, EndTransaction, Goto, Ended, FilesTypeOK, Known
  <1>11. ASSUME NEW f \in Files, Expire(f) PROVE Framed
    BY <1>11 DEF Expire, reading
  <1>12. CASE UNCHANGED filesVars
    BY <1>12 DEF filesVars, database, reading
  <1>13. QED
    BY <1>1, <1>4, <1>5, <1>6, <1>7, <1>8, <1>9, <1>10, <1>11, <1>12
       DEF FilesNext, RequestStep

\* What a reader was told stays true while others work.
LEMMA ReadsFramed ==
    ASSUME FilesTypeOK, BytesInv, ReadsInv, [FilesNext]_filesVars,
           NEW r \in Requests, target'[r] = target[r], reply'[r] = reply[r],
           spoilt \subseteq spoilt', Reads(r)
    PROVE  /\ target[r] \in Files \X Asked \X BOOLEAN
           /\ Reads(r)' /\ File(r)' = File(r) /\ WasLive(r)' = WasLive(r)
           /\ phase'[r] # "idle" /\ phase'[File(r)[1]] \in Known
           /\ ~WasLive(r) => \/ File(r) \in expired'
                             \/ File(r) \notin rows' /\ File(r) \notin snapshot'[r]
           /\ reply[r] \in {"found", "read", "served"} => WasLive(r)
           /\ reply[r] = "unavailable" =>
                 \/ File(r) \in spoilt' \/ File(r) \notin rows'
                 \/ phase'[File(r)[1]] = "doubted"
  <1>1. target[r] \in Files \X Asked \X BOOLEAN
    BY DEF ReadsInv, ReadsType, Reads
  <1>2. File(r) \in Files /\ File(r)[1] \in Requests
    BY <1>1 DEF File, Files
  <1>3. Reads(r)' /\ File(r)' = File(r) /\ WasLive(r)' = WasLive(r)
    BY DEF Reads, File, WasLive
  <1>4. phase[r] # "idle" /\ phase[File(r)[1]] \in Known
    BY DEF ReadsInv, Sought
  <1>5. expired \subseteq expired' /\ phase'[r] # "idle" /\ snapshot'[r] \subseteq snapshot[r]
    BY <1>4, FilesFrame
  <1>6. /\ phase'[File(r)[1]] \in Known
        /\ phase[File(r)[1]] = "doubted" => phase'[File(r)[1]] = "doubted"
        /\ File(r) \notin rows => File(r) \notin rows'
    BY <1>2, <1>4, FilesFrame
  <1>7. ~WasLive(r) => \/ File(r) \in expired
                       \/ File(r) \notin rows /\ File(r) \notin snapshot[r]
    BY DEF ReadsInv, Sought
  <1>8. /\ reply[r] \in {"found", "read", "served"} => WasLive(r)
        /\ reply[r] = "unavailable" =>
              File(r) \in spoilt \/ File(r) \notin rows \/ phase[File(r)[1]] = "doubted"
    BY DEF ReadsInv, ReadsAreHonest, At
  <1>9. QED
    BY <1>1, <1>3, <1>5, <1>6, <1>7, <1>8

\* A step that tells no reader anything.
LEMMA ReadsUndisturbed ==
    ASSUME FilesTypeOK, BytesInv, ReadsInv, [FilesNext]_filesVars,
           UNCHANGED <<target, reply>>, spoilt \subseteq spoilt', spoilt' \subseteq Files
    PROVE  ReadsInv'
  <1>1. ReadsType'
    BY DEF ReadsInv, ReadsType
  <1>2. Unasked'
    BY DEF ReadsInv, Unasked, Reads
  <1>3. ASSUME NEW r \in Requests, Reads(r)'
        PROVE  /\ phase'[r] # "idle" /\ phase'[File(r)'[1]] \in Known
               /\ ~WasLive(r)' =>
                     \/ File(r)' \in expired'
                     \/ File(r)' \notin rows' /\ File(r)' \notin snapshot'[r]
               /\ reply'[r] \in {"found", "read", "served"} => WasLive(r)'
               /\ reply'[r] = "unavailable" =>
                     \/ File(r)' \in spoilt' \/ File(r)' \notin rows'
                     \/ phase'[File(r)'[1]] = "doubted"
    <2>1. Reads(r) /\ target'[r] = target[r] /\ reply'[r] = reply[r]
      BY <1>3 DEF Reads
    <2>2. QED
      BY <2>1, ReadsFramed
  <1>4. Sought' /\ ReadsAreHonest'
    BY <1>3 DEF Sought, ReadsAreHonest, At
  <1>5. QED
    BY <1>1, <1>2, <1>4 DEF ReadsInv

\* A step that answers one reader, and leaves the files alone or goes on to sweep.
LEMMA ReaderAnswered ==
    ASSUME FilesTypeOK, BytesInv, ReadsInv, [FilesNext]_filesVars, UNCHANGED <<target, spoilt>>,
           NEW r \in Requests, Reads(r), NEW a \in Replies, Answer(r, a),
           a \in {"found", "read", "served"} => WasLive(r),
           a = "unavailable" =>
              \/ File(r) \in spoilt \/ File(r) \notin rows
              \/ phase[File(r)[1]] = "doubted"
    PROVE  ReadsInv'
  <1>1. reply' = [reply EXCEPT ![r] = a] /\ reply \in [Requests -> Replies]
    BY DEF Answer, ReadsInv, ReadsType
  <1>2. ReadsType'
    BY <1>1 DEF ReadsInv, ReadsType
  <1>3. Unasked'
    BY <1>1 DEF ReadsInv, Unasked, Reads
  <1>4. ASSUME NEW s \in Requests, Reads(s)'
        PROVE  /\ phase'[s] # "idle" /\ phase'[File(s)'[1]] \in Known
               /\ ~WasLive(s)' =>
                     \/ File(s)' \in expired'
                     \/ File(s)' \notin rows' /\ File(s)' \notin snapshot'[s]
               /\ reply'[s] \in {"found", "read", "served"} => WasLive(s)'
               /\ reply'[s] = "unavailable" =>
                     \/ File(s)' \in spoilt' \/ File(s)' \notin rows'
                     \/ phase'[File(s)'[1]] = "doubted"
    <2>1. Reads(s) /\ File(s)' = File(s) /\ WasLive(s)' = WasLive(s)
      BY <1>4 DEF Reads, File, WasLive
    <2>2. phase[s] # "idle" /\ phase[File(s)[1]] \in Known
      BY <2>1 DEF ReadsInv, Sought
    <2>3. target[s] \in Files \X Asked \X BOOLEAN
      BY <2>1 DEF ReadsInv, ReadsType, Reads
    <2>4. File(s) \in Files /\ File(s)[1] \in Requests
      BY <2>3 DEF File, Files
    <2>5. /\ phase'[s] # "idle" /\ snapshot'[s] \subseteq snapshot[s] /\ expired \subseteq expired'
          /\ phase'[File(s)[1]] \in Known
          /\ phase[File(s)[1]] = "doubted" => phase'[File(s)[1]] = "doubted"
          /\ File(s) \notin rows => File(s) \notin rows'
      BY <2>2, <2>4, FilesFrame
    <2>6. ~WasLive(s) => \/ File(s) \in expired
                         \/ File(s) \notin rows /\ File(s) \notin snapshot[s]
      BY <2>1 DEF ReadsInv, Sought
    <2>7. /\ reply'[s] \in {"found", "read", "served"} => WasLive(s)
          /\ reply'[s] = "unavailable" =>
                File(s) \in spoilt \/ File(s) \notin rows \/ phase[File(s)[1]] = "doubted"
      <3>1. CASE s = r
        BY <1>1, <3>1
      <3>2. CASE s # r
        BY <1>1, <2>1, <3>2 DEF ReadsInv, ReadsAreHonest, At
      <3>3. QED
        BY <3>1, <3>2
    <2>8. QED
      BY <2>1, <2>5, <2>6, <2>7
  <1>5. Sought' /\ ReadsAreHonest'
    BY <1>4 DEF Sought, ReadsAreHonest, At
  <1>6. QED
    BY <1>2, <1>3, <1>5 DEF ReadsInv

\* A request that asks for a file is at work from then on.
LEMMA ReaderAsks ==
    ASSUME FilesTypeOK, BytesInv, ReadsInv, [FilesNext]_filesVars,
           NEW r \in Requests, NEW what \in Asked, Ask(r, what)
    PROVE  ReadsInv'
  <1>1. PICK f \in Files :
          /\ phase[f[1]] \in {"created", "doubting", "doubted"}
          /\ target' = [target EXCEPT ![r] = <<f, what, f \in Live>>]
    BY DEF Ask
  <1>2. /\ phase[r] = "idle" /\ reply[r] = "none" /\ UNCHANGED <<rows, expired, reply, spoilt>>
        /\ phase' = [phase EXCEPT ![r] = "finding"]
        /\ snapshot' = [snapshot EXCEPT ![r] = IF repeatable THEN rows ELSE {}]
    BY DEF Ask, DeleteFile, Authenticate, At, Goto, database
  <1>3. (f \in Live) \in BOOLEAN /\ target \in [Requests -> {<< >>} \cup (Files \X Asked \X BOOLEAN)]
    BY DEF ReadsInv, ReadsType
  <1>4. <<f, what, f \in Live>> \in Files \X Asked \X BOOLEAN
    BY <1>3
  <1>5. ReadsType'
    BY <1>1, <1>2, <1>3, <1>4 DEF ReadsInv, ReadsType
  <1>6. target'[r] = <<f, what, f \in Live>> /\ target'[r] # << >>
    BY <1>1, <1>3
  <1>7. File(r)' = f /\ (WasLive(r)' <=> f \in Live)
    <2>1. File(r)' = f
      BY <1>6 DEF File
    <2>2. WasLive(r)' = (f \in Live)
      BY <1>6 DEF WasLive
    <2>3. QED
      BY <2>1, <2>2
  <1>8. Unasked'
    BY <1>1, <1>2, <1>3, <1>6 DEF ReadsInv, Unasked, Reads
  <1>9. f[1] \in Requests /\ f[1] # r
    BY <1>1, <1>2 DEF Files
  <1>10. /\ phase'[r] # "idle" /\ phase'[f[1]] \in Known
         /\ f \notin Live => f \in expired' \/ (f \notin rows' /\ f \notin snapshot'[r])
         /\ reply'[r] = "none"
    BY <1>1, <1>2, <1>9 DEF Live, Known, FilesTypeOK
  <1>11. ASSUME NEW s \in Requests, s # r, Reads(s)'
         PROVE  /\ phase'[s] # "idle" /\ phase'[File(s)'[1]] \in Known
                /\ ~WasLive(s)' =>
                      \/ File(s)' \in expired'
                      \/ File(s)' \notin rows' /\ File(s)' \notin snapshot'[s]
                /\ reply'[s] \in {"found", "read", "served"} => WasLive(s)'
                /\ reply'[s] = "unavailable" =>
                      \/ File(s)' \in spoilt' \/ File(s)' \notin rows'
                      \/ phase'[File(s)'[1]] = "doubted"
    <2>1. Reads(s) /\ target'[s] = target[s] /\ reply'[s] = reply[s] /\ spoilt \subseteq spoilt'
      BY <1>1, <1>2, <1>3, <1>11 DEF Reads
    <2>2. QED
      BY <2>1, ReadsFramed
  <1>12. Sought' /\ ReadsAreHonest'
    <2> SUFFICES ASSUME NEW s \in Requests, Reads(s)'
                 PROVE  /\ phase'[s] # "idle" /\ phase'[File(s)'[1]] \in Known
                        /\ ~WasLive(s)' =>
                              \/ File(s)' \in expired'
                              \/ File(s)' \notin rows' /\ File(s)' \notin snapshot'[s]
                        /\ reply'[s] \in {"found", "read", "served"} => WasLive(s)'
                        /\ reply'[s] = "unavailable" =>
                              \/ File(s)' \in spoilt' \/ File(s)' \notin rows'
                              \/ phase'[File(s)'[1]] = "doubted"
      BY DEF Sought, ReadsAreHonest, At
    <2>1. CASE s = r
      BY <1>7, <1>10, <2>1
    <2>2. QED
      BY <1>11, <2>1
  <1>13. QED
    BY <1>5, <1>8, <1>12 DEF ReadsInv

LEMMA ReadsNext ==
    FilesTypeOK /\ BytesInv /\ ReadsInv /\ [AnalysisNext]_analysisVars => ReadsInv'
  <1> SUFFICES ASSUME FilesTypeOK, BytesInv, ReadsInv, [AnalysisNext]_analysisVars
               PROVE  ReadsInv'
    OBVIOUS
  <1>1. [FilesNext]_filesVars
    BY ReadersStep
  <1>2. spoilt \subseteq Files
    BY DEF ReadsInv, ReadsType
  <1>3. CASE FilesStep
    BY <1>1, <1>2, <1>3, ReadsUndisturbed DEF FilesStep, readVars
  <1>4. ASSUME NEW r \in Requests, GetFile(r) \/ AnalyzeFile(r) \/ FileStatistics(r)
        PROVE  ReadsInv'
    <2>1. "metadata" \in Asked /\ "analysis" \in Asked /\ "statistics" \in Asked
      BY DEF Asked
    <2>2. QED
      BY <1>1, <1>4, <2>1, ReaderAsks DEF GetFile, AnalyzeFile, FileStatistics
  <1>5. ASSUME NEW r \in Requests, ToolRefuses(r) PROVE ReadsInv'
    <2>1. /\ ~Reads(r) /\ UNCHANGED <<filesVars, target, spoilt>>
          /\ reply' = [reply EXCEPT ![r] = "refused"]
          /\ reply \in [Requests -> Replies]
      BY <1>5 DEF ToolRefuses, Answer, ReadsInv, ReadsType
    <2>2. UNCHANGED <<rows, expired, phase, snapshot>>
      BY <2>1 DEF filesVars, database, reading
    <2>3. ReadsType' /\ Unasked'
      BY <2>1 DEF ReadsInv, ReadsType, Unasked, Reads, Replies
    <2>4. \A s \in Requests : Reads(s)' => Reads(s) /\ reply'[s] = reply[s]
      BY <2>1 DEF Reads
    <2>5. Sought'
      BY <2>1, <2>2, <2>4 DEF ReadsInv, Sought, File, WasLive
    <2>6. ReadsAreHonest'
      BY <2>1, <2>2, <2>4 DEF ReadsInv, ReadsAreHonest, File, WasLive, At
    <2>7. QED
      BY <2>3, <2>5, <2>6 DEF ReadsInv
  <1>6. ASSUME NEW r \in Requests, Find(r) PROVE ReadsInv'
    <2>1. /\ Reads(r) /\ UNCHANGED <<target, spoilt>>
          /\ File(r) \in Seen(r) \ expired
          /\ \E a \in {"served", "found"} : Answer(r, a)
      BY <1>6 DEF Find, Finding, Found
    <2>2. WasLive(r)
      BY <2>1 DEF ReadsInv, Sought, Seen
    <2>3. QED
      BY <1>1, <2>1, <2>2, ReaderAnswered DEF Replies
  <1>7. ASSUME NEW r \in Requests, FindNothing(r) PROVE ReadsInv'
    <2>1. /\ Reads(r) /\ UNCHANGED <<target, spoilt>> /\ Answer(r, "missing")
      BY <1>7 DEF FindNothing, Finding
    <2>2. QED
      BY <1>1, <2>1, ReaderAnswered DEF Replies
  <1>8. ASSUME NEW r \in Requests, ReadBytes(r) PROVE ReadsInv'
    <2>1. /\ Reads(r) /\ UNCHANGED <<target, spoilt>> /\ reply[r] = "found"
      BY <1>8 DEF ReadBytes
    <2>2. WasLive(r)
      BY <2>1 DEF ReadsInv, ReadsAreHonest
    <2>3. CASE \E a \in {"served", "read"} : Answer(r, a)
      BY <1>1, <2>1, <2>2, <2>3, ReaderAnswered DEF Replies
    <2>4. CASE Answer(r, "unavailable") /\ (File(r) \notin disk \/ File(r) \in spoilt)
      <3>1. File(r) \in spoilt \/ File(r) \notin rows \/ phase[File(r)[1]] = "doubted"
        BY <2>4 DEF BytesInv, RowsHaveBytes, At
      <3>2. QED
        BY <1>1, <2>1, <2>4, <3>1, ReaderAnswered DEF Replies
    <2>5. QED
      BY <1>8, <2>3, <2>4 DEF ReadBytes, Stored
  <1>9. ASSUME NEW r \in Requests, Compute(r) PROVE ReadsInv'
    <2>1. /\ Reads(r) /\ UNCHANGED <<target, spoilt>> /\ reply[r] = "read"
          /\ \E a \in {"served", "refused"} : Answer(r, a)
      BY <1>9 DEF Compute
    <2>2. WasLive(r)
      BY <2>1 DEF ReadsInv, ReadsAreHonest
    <2>3. QED
      BY <1>1, <2>1, <2>2, ReaderAnswered DEF Replies
  <1>10. ASSUME NEW r \in Requests, FindFails(r) \/ Below(r) \/ Dies(r) PROVE ReadsInv'
    BY <1>1, <1>2, <1>10, ReadsUndisturbed DEF FindFails, Below, Dies, readVars
  <1>11. ASSUME NEW f \in Files, Spoil(f) PROVE ReadsInv'
    BY <1>1, <1>2, <1>11, ReadsUndisturbed DEF Spoil
  <1>12. CASE UNCHANGED analysisVars
    BY <1>1, <1>2, <1>12, ReadsUndisturbed DEF analysisVars, readVars
  <1>13. QED
    BY <1>3, <1>4, <1>5, <1>6, <1>7, <1>8, <1>9, <1>10, <1>11, <1>12
       DEF AnalysisNext, ReadStep

\* No reader is answered with a file that was gone before it was authenticated,
\* nor told that storage failed while the bytes of its file are sound.
THEOREM ReadersAreToldTheTruth == AnalysisSpec => []ReadsAreHonest
  <1>1. FilesTypeOK /\ BytesInv /\ ReadsInv /\ [AnalysisNext]_analysisVars => ReadsInv'
    BY ReadsNext
  <1>2. ReadsInv => ReadsAreHonest
    BY DEF ReadsInv
  <1>3. QED
    BY <1>1, <1>2, ReadsInitially, ReadersAreRequests, BytesCorrect, PTL DEF AnalysisSpec

-----------------------------------------------------------------------------
(* Induction.  The theorems of the library that state it take the formula   *)
(* as an operator; for sets it follows from the pigeonhole principle.       *)

\* A set of numbers with 0 and with the successors of its members, as far as n,
\* has n: otherwise to add 1 would map it into itself without 0.
LEMMA UpTo ==
    ASSUME NEW n \in Nat, NEW T \in SUBSET (0..n), 0 \in T,
           \A k \in T : k < n => k + 1 \in T
    PROVE  n \in T
  <1> SUFFICES ASSUME n \notin T PROVE FALSE
    OBVIOUS
  <1> DEFINE next == [k \in T |-> k + 1]
  <1>1. IsFiniteSet(T)
    BY FS_Interval, FS_Subset, 0 \in Int, n \in Int
  <1>2. next \in [T -> T \ {0}]
    OBVIOUS
  <1>3. IsFiniteSet(T \ {0}) /\ Cardinality(T \ {0}) = Cardinality(T) - 1
    BY <1>1, FS_RemoveElement
  <1>4. Cardinality(T) \in Nat
    BY <1>1, FS_CardinalityType
  <1>5. \E x, y \in T : x # y /\ next[x] = next[y]
    <2>1. Cardinality(T \ {0}) < Cardinality(T)
      BY <1>3, <1>4
    <2> HIDE DEF next
    <2> QED
      BY <1>1, <1>2, <1>3, <2>1, FS_PigeonHole
  <1> QED
    BY <1>5

\* A set of subsets that holds a subset as soon as it holds the smaller ones
\* holds them all.
LEMMA Subsets ==
    ASSUME NEW S, IsFiniteSet(S), NEW T,
           \A V \in SUBSET S : (\A W \in SUBSET V : W # V => W \in T) => V \in T
    PROVE  S \in T
  <1> DEFINE n == Cardinality(S)
             K == {k \in 0..n : \A V \in SUBSET S : Cardinality(V) <= k => V \in T}
  <1>1. n \in Nat
    BY FS_CardinalityType
  <1>2. ASSUME NEW V \in SUBSET S
        PROVE  /\ IsFiniteSet(V) /\ Cardinality(V) \in Nat
               /\ \A W \in SUBSET V : W # V => Cardinality(W) \in Nat /\ Cardinality(W) < Cardinality(V)
    <2>1. IsFiniteSet(V)
      BY FS_Subset
    <2>2. \A W \in SUBSET V : IsFiniteSet(W) /\ Cardinality(W) \in Nat
      BY <2>1, FS_Subset, FS_CardinalityType
    <2>3. Cardinality(V) \in Nat
      BY <2>1, FS_CardinalityType
    <2>4. \A W \in SUBSET V : Cardinality(W) <= Cardinality(V) /\ (Cardinality(W) = Cardinality(V) => W = V)
      BY <2>1, FS_Subset
    <2>5. QED
      BY <2>1, <2>2, <2>3, <2>4
  <1>3. 0 \in K
    <2>1. ASSUME NEW V \in SUBSET S, Cardinality(V) <= 0 PROVE V \in T
      <3>1. \A W \in SUBSET V : W # V => FALSE
        BY <1>2, <2>1
      <3>2. QED
        BY <3>1
    <2>2. QED
      BY <1>1, <2>1
  <1>4. ASSUME NEW k \in K, k < n PROVE k + 1 \in K
    <2>1. k \in Nat /\ \A V \in SUBSET S : Cardinality(V) <= k => V \in T
      BY <1>1
    <2>2. ASSUME NEW V \in SUBSET S, Cardinality(V) <= k + 1 PROVE V \in T
      <3>1. ASSUME NEW W \in SUBSET V, W # V PROVE W \in T
        <4>1. Cardinality(W) \in Nat /\ Cardinality(W) <= k
          BY <1>2, <2>1, <2>2, <3>1
        <4>2. W \in SUBSET S
          OBVIOUS
        <4>3. QED
          BY <2>1, <4>1, <4>2
      <3>2. QED
        BY <3>1
    <2>3. QED
      BY <1>1, <1>4, <2>1, <2>2
  <1>5. n \in K
    <2> HIDE DEF K
    <2>1. K \in SUBSET (0..n)
      BY DEF K
    <2>2. QED
      BY <1>1, <1>3, <1>4, <2>1, UpTo
  <1>6. QED
    BY <1>1, <1>5

-----------------------------------------------------------------------------
(* Sums: what FoldFunctionOnSet adds up.                                    *)

Sum(f, S) == FoldFunctionOnSet(+, 0, f, S)

Pick(V) == CHOOSE x \in V : TRUE
Rest(V) == V \ {Pick(V)}

\* g holds the sums of f over the sets in D.
Sums(g, f, D) == g = [V \in D |-> IF V = {} THEN 0 ELSE f[Pick(V)] + g[Rest(V)]]

LEMMA PickOne == \A V : V # {} => Pick(V) \in V /\ Rest(V) \in SUBSET V /\ Rest(V) # V
  BY DEF Pick, Rest

LEMMA SumDefined ==
    ASSUME NEW S, IsFiniteSet(S), NEW f
    PROVE  \E g : Sums(g, f, SUBSET S)
  <1> DEFINE n == Cardinality(S)
             Small(k) == {V \in SUBSET S : Cardinality(V) <= k}
             K == {k \in 0..n : \E g : Sums(g, f, Small(k))}
  <1>1. n \in Nat
    BY FS_CardinalityType
  <1>2. ASSUME NEW V \in SUBSET S
        PROVE  /\ Cardinality(V) \in Nat
               /\ Cardinality(V) = 0 => V = {}
               /\ V # {} => Rest(V) \in SUBSET S /\ Cardinality(Rest(V)) = Cardinality(V) - 1
    <2>1. IsFiniteSet(V)
      BY FS_Subset
    <2>2. QED
      BY <2>1, PickOne, FS_CardinalityType, FS_EmptySet, FS_RemoveElement DEF Rest
  <1>3. 0 \in K
    <2> DEFINE g == [V \in Small(0) |-> 0]
    <2>1. \A V \in Small(0) : V = {}
      BY <1>2
    <2>2. Sums(g, f, Small(0))
      BY <2>1 DEF Sums
    <2>3. \E x : Sums(x, f, Small(0))
      <3> HIDE DEF g, Small
      <3>1. QED
        BY <2>2
    <2> HIDE DEF Small
    <2>4. QED
      BY <1>1, <2>3
  <1>4. ASSUME NEW k \in K, k < n PROVE k + 1 \in K
    <2>1. PICK g : Sums(g, f, Small(k))
      OBVIOUS
    <2> DEFINE h == [V \in Small(k + 1) |-> IF V = {} THEN 0 ELSE f[Pick(V)] + g[Rest(V)]]
    <2>2. \A W \in Small(k) : W \in Small(k + 1) /\ h[W] = g[W]
      BY <1>1, <1>2, <2>1 DEF Sums
    <2>3. \A V \in Small(k + 1) : V # {} => Rest(V) \in Small(k)
      BY <1>1, <1>2
    <2>4. h = [V \in Small(k + 1) |-> IF V = {} THEN 0 ELSE f[Pick(V)] + h[Rest(V)]]
      <3>1. \A V \in Small(k + 1) : V # {} => h[Rest(V)] = g[Rest(V)]
        BY <2>2, <2>3
      <3> HIDE DEF Small
      <3>2. QED
        BY <3>1
    <2>5. Sums(h, f, Small(k + 1))
      <3> HIDE DEF h
      <3>1. QED
        BY <2>4 DEF Sums
    <2>6. \E x : Sums(x, f, Small(k + 1))
      <3> HIDE DEF h, Small
      <3>1. QED
        BY <2>5
    <2> HIDE DEF Small
    <2>7. QED
      BY <1>1, <1>4, <2>6
  <1>5. n \in K
    <2> HIDE DEF K
    <2>1. K \in SUBSET (0..n)
      BY DEF K
    <2>2. QED
      BY <1>1, <1>3, <1>4, <2>1, UpTo
  <1>6. Small(n) = SUBSET S
    BY FS_Subset
  <1>7. QED
    BY <1>5, <1>6

LEMMA SumIsFold ==
    ASSUME NEW S, IsFiniteSet(S), NEW f
    PROVE  \E g : Sums(g, f, SUBSET S) /\ Sum(f, S) = g[S]
  <1> DEFINE g == CHOOSE g : Sums(g, f, SUBSET S)
  <1>1. Sums(g, f, SUBSET S)
    BY SumDefined
  <1>2. Sum(f, S) = g[S]
    BY DEF Sum, FoldFunctionOnSet, MapThenFoldSet, Sums, Pick, Rest
  <1>3. QED
    BY <1>1, <1>2

\* The sum over a set is that of one member, and of the rest.
LEMMA SumStep ==
    ASSUME NEW S, IsFiniteSet(S), NEW f
    PROVE  Sum(f, S) = IF S = {} THEN 0 ELSE f[Pick(S)] + Sum(f, Rest(S))
  <1>1. PICK g : Sums(g, f, SUBSET S) /\ Sum(f, S) = g[S]
    BY SumIsFold
  <1>2. CASE S = {}
    BY <1>1, <1>2 DEF Sums
  <1>3. CASE S # {}
    <2>1. Rest(S) \in SUBSET S /\ IsFiniteSet(Rest(S))
      BY <1>3, PickOne, FS_Subset
    <2>2. PICK h : Sums(h, f, SUBSET Rest(S)) /\ Sum(f, Rest(S)) = h[Rest(S)]
      BY <2>1, SumIsFold
    <2> DEFINE T == {V \in SUBSET Rest(S) : g[V] = h[V]}
    <2>3. ASSUME NEW V \in SUBSET Rest(S), \A W \in SUBSET V : W # V => W \in T
          PROVE  V \in T
      <3>1. V \in SUBSET S
        BY <2>1
      <3>2. /\ g[V] = IF V = {} THEN 0 ELSE f[Pick(V)] + g[Rest(V)]
            /\ h[V] = IF V = {} THEN 0 ELSE f[Pick(V)] + h[Rest(V)]
        BY <1>1, <2>2, <3>1 DEF Sums
      <3>3. V # {} => g[Rest(V)] = h[Rest(V)]
        BY <2>3, PickOne
      <3>4. QED
        BY <3>2, <3>3
    <2>4. Rest(S) \in T
      <3> HIDE DEF T
      <3>1. QED
        BY <2>1, <2>3, Subsets
    <2>5. g[S] = f[Pick(S)] + g[Rest(S)]
      BY <1>1, <1>3 DEF Sums
    <2>6. QED
      BY <1>1, <1>3, <2>2, <2>4, <2>5
  <1>4. QED
    BY <1>2, <1>3

LEMMA SumType ==
    ASSUME NEW S, IsFiniteSet(S), NEW f, \A x \in S : f[x] \in Int
    PROVE  Sum(f, S) \in Int
  <1> DEFINE T == {V \in SUBSET S : Sum(f, V) \in Int}
  <1>1. ASSUME NEW V \in SUBSET S, \A W \in SUBSET V : W # V => W \in T
        PROVE  V \in T
    <2>1. Sum(f, V) = IF V = {} THEN 0 ELSE f[Pick(V)] + Sum(f, Rest(V))
      BY FS_Subset, SumStep
    <2>2. V # {} => f[Pick(V)] \in Int /\ Sum(f, Rest(V)) \in Int
      BY <1>1, PickOne
    <2>3. QED
      BY <2>1, <2>2
  <1>2. S \in T
    <2> HIDE DEF T
    <2>1. QED
      BY <1>1, Subsets
  <1>3. QED
    BY <1>2

\* Whichever member is taken first, the sum is the same.
LEMMA SumOfOneAndRest ==
    ASSUME NEW S, IsFiniteSet(S), NEW f, \A x \in S : f[x] \in Int, NEW a \in S
    PROVE  Sum(f, S) = f[a] + Sum(f, S \ {a})
  <1> DEFINE T == {V \in SUBSET S : \A x \in V : Sum(f, V) = f[x] + Sum(f, V \ {x})}
  <1>1. ASSUME NEW V \in SUBSET S, \A W \in SUBSET V : W # V => W \in T, NEW x \in V
        PROVE  Sum(f, V) = f[x] + Sum(f, V \ {x})
    <2> DEFINE p == Pick(V)
    <2>1. IsFiniteSet(V) /\ p \in V
      BY FS_Subset, PickOne
    <2>2. Sum(f, V) = f[p] + Sum(f, V \ {p})
      BY <2>1, SumStep DEF Rest
    <2>3. CASE x = p
      BY <2>2, <2>3
    <2>4. CASE x # p
      <3>1. V \ {p} \in T /\ V \ {x} \in T
        BY <1>1, <2>1
      <3>2. /\ Sum(f, V \ {p}) = f[x] + Sum(f, (V \ {p}) \ {x})
            /\ Sum(f, V \ {x}) = f[p] + Sum(f, (V \ {x}) \ {p})
        BY <2>1, <2>4, <3>1
      <3>3. (V \ {p}) \ {x} = (V \ {x}) \ {p}
        OBVIOUS
      <3>4. f[x] \in Int /\ f[p] \in Int /\ Sum(f, (V \ {x}) \ {p}) \in Int
        <4>1. IsFiniteSet((V \ {x}) \ {p})
          BY <2>1, FS_RemoveElement
        <4>2. QED
          BY <2>1, <4>1, SumType
      <3>5. PICK z \in Int : z = Sum(f, (V \ {x}) \ {p})
        BY <3>4
      <3>6. Sum(f, V \ {p}) = f[x] + z /\ Sum(f, V \ {x}) = f[p] + z
        BY <3>2, <3>3, <3>5
      <3>7. Sum(f, V) = f[p] + (f[x] + z)
        BY <2>2, <3>6
      <3>8. f[p] + (f[x] + z) = f[x] + (f[p] + z)
        BY <3>4
      <3>9. QED
        BY <3>6, <3>7, <3>8
    <2>5. QED
      BY <2>3, <2>4
  <1>2. S \in T
    <2>1. \A V \in SUBSET S : (\A W \in SUBSET V : W # V => W \in T) => V \in T
      BY <1>1
    <2> HIDE DEF T
    <2>2. QED
      BY <2>1, Subsets
  <1>3. QED
    BY <1>2

-----------------------------------------------------------------------------
(* The pass over the rows of a table.                                       *)

\* What the loop makes of row n.
LoopStep(acc, table, c, n) ==
    IF ~acc.ok THEN acc
    ELSE IF RowFault(table, c, n) # "" THEN Fault(RowFault(table, c, n))
    ELSE AddRow(acc, table.rows[n], c)

\* g holds what the loop holds after n rows, for every n in D.
Passes(g, table, c, D) ==
    g = [n \in D |-> IF n = 0 THEN Start(table) ELSE LoopStep(g[n - 1], table, c, n)]

LEMMA ScanDefined ==
    ASSUME NEW table, NEW c, NEW m \in Nat
    PROVE  \E g : Passes(g, table, c, 0..m)
  <1> DEFINE K == {k \in 0..m : \E g : Passes(g, table, c, 0..k)}
  <1>1. 0 \in K
    <2> DEFINE g == [n \in 0..0 |-> Start(table)]
    <2>1. Passes(g, table, c, 0..0)
      BY DEF Passes
    <2>2. \E x : Passes(x, table, c, 0..0)
      <3> HIDE DEF g
      <3>1. QED
        BY <2>1
    <2>3. QED
      BY <2>2
  <1>2. ASSUME NEW k \in K, k < m PROVE k + 1 \in K
    <2>1. PICK g : Passes(g, table, c, 0..k)
      OBVIOUS
    <2> DEFINE h == [n \in 0..(k + 1) |-> IF n = 0 THEN Start(table) ELSE LoopStep(g[n - 1], table, c, n)]
    <2>2. ASSUME NEW n \in 0..k PROVE h[n] = g[n]
      <3>1. g[n] = IF n = 0 THEN Start(table) ELSE LoopStep(g[n - 1], table, c, n)
        BY <2>1 DEF Passes
      <3>2. QED
        BY <3>1
    <2>3. \A n \in 0..(k + 1) : n # 0 => n - 1 \in 0..k
      OBVIOUS
    <2>4. \A n \in 0..(k + 1) : n # 0 => h[n - 1] = g[n - 1]
      BY <2>2, <2>3
    <2>5. h = [n \in 0..(k + 1) |-> IF n = 0 THEN Start(table) ELSE LoopStep(h[n - 1], table, c, n)]
      BY <2>4
    <2>6. \E x : Passes(x, table, c, 0..(k + 1))
      <3>1. Passes(h, table, c, 0..(k + 1))
        <4> HIDE DEF h
        <4>1. QED
          BY <2>5 DEF Passes
      <3> HIDE DEF h
      <3>2. QED
        BY <3>1
    <2>7. k + 1 \in 0..m
      BY <1>2
    <2>8. QED
      BY <2>6, <2>7
  <1>3. m \in K
    <2> HIDE DEF K
    <2>1. K \in SUBSET (0..m)
      BY DEF K
    <2>2. QED
      BY <1>1, <1>2, <2>1, UpTo
  <1>4. QED
    BY <1>3

LEMMA ScanIsLoop ==
    ASSUME NEW table, NEW c, Len(table.rows) \in Nat
    PROVE  \E g : Passes(g, table, c, 0..Len(table.rows)) /\ Scan(table, c) = g[Len(table.rows)]
  <1> DEFINE g == CHOOSE g : Passes(g, table, c, 0..Len(table.rows))
  <1>1. Passes(g, table, c, 0..Len(table.rows))
    BY ScanDefined
  <1>2. Scan(table, c) = g[Len(table.rows)]
    BY DEF Scan, Passes, LoopStep
  <1>3. QED
    BY <1>1, <1>2

Cells == [kind : Scalars, value : Int]
Numbers(table, c, n) == {i \in 1..n : table.rows[i][c].kind = "number"}

NoCode == {""}

Accs(table) ==
    [ok : BOOLEAN, code : NoCode, rows : Int, valid : Int, duplicates : Int,
     seen : SUBSET Seq(Cells), total : Int, least : Int, most : Int,
     missing : [DOMAIN table.names -> Int], kinds : [DOMAIN table.names -> SUBSET Scalars]]

\* The loop finds nothing wrong with row n.
Faultless(table, c, n) == RowFault(table, c, n) = ""

\* What is opened has no literal: neither a JSON table, which is refused, nor a CSV one.
Opened(table) ==
    /\ IsTable(table) /\ table.media \in {"csv", "json"}
    /\ \A i \in DOMAIN table.rows : \A j \in DOMAIN table.rows[i] :
          table.rows[i][j].kind # "literal"

\* The accumulator accounts for the first n rows: it describes them,
Described(acc, table, n) ==
    /\ acc.ok /\ acc.rows = n
    /\ acc.seen = {table.rows[i] : i \in 1..n} /\ IsFiniteSet(acc.seen)
    /\ acc.duplicates = n - Cardinality(acc.seen)
    /\ \A j \in DOMAIN table.names :
          acc.kinds[j] = {KindOf(table.rows[i][j]) : i \in 1..n} \ {"missing"}

\* it has added the numbers of the column among them,
Summed(acc, table, c, n) ==
    /\ acc.valid = Cardinality(Numbers(table, c, n))
    /\ acc.total = SumOver(table, c, Numbers(table, c, n))
    /\ acc.valid + acc.missing[c] = n

\* and it holds the least and the greatest of these numbers.
Bounded(acc, table, c, n) ==
    /\ \A i \in Numbers(table, c, n) :
          acc.least <= table.rows[i][c].value /\ table.rows[i][c].value <= acc.most
    /\ Numbers(table, c, n) # {} =>
          /\ \E i \in Numbers(table, c, n) : acc.least = table.rows[i][c].value
          /\ \E i \in Numbers(table, c, n) : acc.most = table.rows[i][c].value

Accounts(acc, table, c, n) ==
    /\ acc \in Accs(table)
    /\ Described(acc, table, n) /\ Summed(acc, table, c, n) /\ Bounded(acc, table, c, n)

LEMMA TableShape ==
    ASSUME NEW table, IsTable(table)
    PROVE  /\ Len(table.rows) \in Nat /\ DOMAIN table.rows = 1..Len(table.rows)
           /\ Len(table.names) \in Nat /\ DOMAIN table.names = 1..Len(table.names)
           /\ \A i \in DOMAIN table.rows :
                 /\ table.rows[i] \in Seq(Cells)
                 /\ Len(table.rows[i]) \in Nat /\ DOMAIN table.rows[i] = 1..Len(table.rows[i])
                 /\ \A j \in DOMAIN table.rows[i] : table.rows[i][j] \in Cells
  <1>1. table.rows \in Seq(Seq(Cells)) /\ table.names \in Seq(STRING)
    BY DEF IsTable, Cells
  <1>2. ASSUME NEW S, NEW s \in Seq(S)
        PROVE  Len(s) \in Nat /\ DOMAIN s = 1..Len(s) /\ \A j \in DOMAIN s : s[j] \in S
    OBVIOUS
  <1>3. \A i \in DOMAIN table.rows : table.rows[i] \in Seq(Cells)
    BY <1>1, <1>2
  <1>4. QED
    BY <1>1, <1>2, <1>3

LEMMA Products ==
    ASSUME NEW a \in Nat, NEW b \in Nat, NEW l \in Nat, a <= b
    PROVE  a * l \in Nat /\ b * l \in Nat /\ a * l <= b * l
  OBVIOUS

LEMMA SoundRow ==
    ASSUME NEW table, Opened(table), NEW c \in DOMAIN table.names,
           NEW n \in DOMAIN table.rows, Faultless(table, c, n)
    PROVE  /\ n <= MaxRows /\ n * Len(table.names) <= MaxCells
           /\ Len(table.rows[n]) = Len(table.names)
           /\ DOMAIN table.rows[n] = DOMAIN table.names
           /\ \A j \in DOMAIN table.names : table.rows[n][j] \in Cells
           /\ table.rows[n][c].kind \in {"number", "missing"}
  <1>1. IsTable(table)
    BY DEF Opened
  <1>2. /\ ~(n > MaxRows \/ n * Len(table.names) > MaxCells)
        /\ Len(table.rows[n]) = Len(table.names)
        /\ ~\E j \in DOMAIN table.rows[n] : table.rows[n][j].kind = "nested"
        /\ table.rows[n][c].kind \notin {"string", "boolean", "formula"}
        /\ table.rows[n][c].kind # "digits"
    BY DEF Faultless, RowFault
  <1>3. n \in Nat /\ Len(table.names) \in Nat /\ n * Len(table.names) \in Nat
    <2>1. n \in Nat /\ Len(table.names) \in Nat
      BY <1>1, TableShape
    <2>2. QED
      BY <2>1, Products
  <1>4. DOMAIN table.rows[n] = DOMAIN table.names
    BY <1>1, <1>2, TableShape
  <1>5. \A j \in DOMAIN table.names : table.rows[n][j] \in Cells
    BY <1>1, <1>4, TableShape
  <1>6. table.rows[n][c].kind \in Scalars /\ table.rows[n][c].kind # "literal"
        /\ table.rows[n][c].kind # "nested"
    BY <1>2, <1>4, <1>5 DEF Cells, Opened
  <1>7. table.rows[n][c].kind \in {"number", "missing"}
    BY <1>2, <1>6 DEF Scalars
  <1>8. n <= MaxRows /\ n * Len(table.names) <= MaxCells
    <2>1. ASSUME NEW x \in Nat, NEW y \in Nat, ~(x > y) PROVE x <= y
      BY <2>1
    <2>2. QED
      BY <1>2, <1>3, <2>1, StatisticsAssumption
  <1>9. QED
    BY <1>2, <1>4, <1>5, <1>7, <1>8

LEMMA StartAccounts ==
    ASSUME NEW table, Opened(table), NEW c \in DOMAIN table.names
    PROVE  Accounts(Start(table), table, c, 0)
  <1>1. Numbers(table, c, 0) = {} /\ 1..0 = {}
    BY DEF Numbers
  <1>2. SumOver(table, c, {}) = 0
    BY FS_EmptySet, SumStep DEF SumOver, Sum
  <1>3. Start(table) \in Accs(table)
    BY DEF Start, Accs, NoCode
  <1>4. /\ Start(table).ok /\ Start(table).rows = 0 /\ Start(table).valid = 0
        /\ Start(table).total = 0 /\ Start(table).missing[c] = 0 /\ Start(table).seen = {}
        /\ Start(table).duplicates = 0
        /\ \A j \in DOMAIN table.names : Start(table).kinds[j] = {}
    BY DEF Start
  <1>5. {table.rows[i] : i \in 1..0} = {}
    BY <1>1
  <1>6. \A j \in DOMAIN table.names :
           {KindOf(table.rows[i][j]) : i \in 1..0} \ {"missing"} = {}
    BY <1>1
  <1>7. Described(Start(table), table, 0)
    <2>1. IsFiniteSet({}) /\ Cardinality({}) = 0
      BY FS_EmptySet
    <2>2. \A j \in DOMAIN table.names :
             Start(table).kinds[j] = {KindOf(table.rows[i][j]) : i \in 1..0} \ {"missing"}
      BY <1>4, <1>6
    <2>3. QED
      BY <1>4, <1>5, <2>1, <2>2 DEF Described
  <1>8. Summed(Start(table), table, c, 0)
    BY <1>1, <1>2, <1>4, FS_EmptySet DEF Summed
  <1>9. Bounded(Start(table), table, c, 0)
    BY <1>1 DEF Bounded
  <1>10. QED
    BY <1>3, <1>7, <1>8, <1>9 DEF Accounts

\* The fields of the accumulator after a row, before its number is added.
Counted(acc, row) ==
    [acc EXCEPT
        !.rows = @ + 1,
        !.missing = [j \in DOMAIN @ |-> @[j] + (IF row[j].kind = "missing" THEN 1 ELSE 0)],
        !.kinds = [j \in DOMAIN @ |-> @[j] \cup ({KindOf(row[j])} \ {"missing"})],
        !.duplicates = @ + (IF row \in acc.seen THEN 1 ELSE 0),
        !.seen = @ \cup {row}]

LEMMA CountedFields ==
    ASSUME NEW table, NEW acc \in Accs(table), NEW row \in Seq(Cells),
           \A j \in DOMAIN table.names : row[j] \in Cells
    PROVE  /\ Counted(acc, row) \in Accs(table)
           /\ Counted(acc, row).missing = [j \in DOMAIN table.names |->
                  acc.missing[j] + (IF row[j].kind = "missing" THEN 1 ELSE 0)]
           /\ Counted(acc, row).kinds = [j \in DOMAIN table.names |->
                  acc.kinds[j] \cup ({KindOf(row[j])} \ {"missing"})]
           /\ Counted(acc, row).ok = acc.ok /\ Counted(acc, row).rows = acc.rows + 1
           /\ Counted(acc, row).valid = acc.valid /\ Counted(acc, row).total = acc.total
           /\ Counted(acc, row).least = acc.least /\ Counted(acc, row).most = acc.most
           /\ Counted(acc, row).duplicates =
                  acc.duplicates + (IF row \in acc.seen THEN 1 ELSE 0)
           /\ Counted(acc, row).seen = acc.seen \cup {row}
  <1>1. ASSUME NEW j \in DOMAIN table.names
        PROVE  acc.kinds[j] \cup ({KindOf(row[j])} \ {"missing"}) \in SUBSET Scalars
    <2>1. row[j].kind \in Scalars /\ acc.kinds[j] \in SUBSET Scalars
      BY DEF Cells, Accs
    <2>2. KindOf(row[j]) \in Scalars
      BY <2>1 DEF KindOf, Scalars
    <2>3. QED
      BY <2>1, <2>2
  <1>2. ASSUME NEW j \in DOMAIN table.names
        PROVE  acc.missing[j] + (IF row[j].kind = "missing" THEN 1 ELSE 0) \in Int
    <2>1. acc.missing[j] \in Int
      BY DEF Accs
    <2>2. QED
      BY <2>1
  <1>3. /\ Counted(acc, row).missing = [j \in DOMAIN table.names |->
               acc.missing[j] + (IF row[j].kind = "missing" THEN 1 ELSE 0)]
        /\ Counted(acc, row).kinds = [j \in DOMAIN table.names |->
               acc.kinds[j] \cup ({KindOf(row[j])} \ {"missing"})]
        /\ Counted(acc, row).ok = acc.ok /\ Counted(acc, row).rows = acc.rows + 1
        /\ Counted(acc, row).valid = acc.valid /\ Counted(acc, row).total = acc.total
        /\ Counted(acc, row).least = acc.least /\ Counted(acc, row).most = acc.most
        /\ Counted(acc, row).duplicates =
               acc.duplicates + (IF row \in acc.seen THEN 1 ELSE 0)
        /\ Counted(acc, row).seen = acc.seen \cup {row}
        /\ Counted(acc, row).code = acc.code
    BY DEF Counted, Accs
  <1>4. /\ Counted(acc, row).missing \in [DOMAIN table.names -> Int]
        /\ Counted(acc, row).kinds \in [DOMAIN table.names -> SUBSET Scalars]
    BY <1>1, <1>2, <1>3
  <1>5. /\ acc.duplicates \in Int /\ acc.seen \in SUBSET Seq(Cells)
        /\ acc.ok \in BOOLEAN /\ acc.code \in NoCode /\ acc.rows \in Int /\ acc.valid \in Int
        /\ acc.total \in Int /\ acc.least \in Int /\ acc.most \in Int
    BY DEF Accs
  <1>6. Counted(acc, row).duplicates \in Int
    BY <1>3, <1>5
  <1>7. Counted(acc, row) \in Accs(table)
    <2>1. Counted(acc, row).seen \in SUBSET Seq(Cells)
      BY <1>3, <1>5
    <2>2. acc.rows + 1 \in Int
      BY <1>5
    <2> DEFINE m == [j \in DOMAIN acc.missing |-> acc.missing[j] + (IF row[j].kind = "missing" THEN 1 ELSE 0)]
               k == [j \in DOMAIN acc.kinds |-> acc.kinds[j] \cup ({KindOf(row[j])} \ {"missing"})]
               d == acc.duplicates + (IF row \in acc.seen THEN 1 ELSE 0)
               s == acc.seen \cup {row}
    <2>3. Counted(acc, row) = [acc EXCEPT !.rows = acc.rows + 1, !.missing = m, !.kinds = k,
                                 !.duplicates = d, !.seen = s]
      BY DEF Counted
    <2>4. m \in [DOMAIN table.names -> Int] /\ k \in [DOMAIN table.names -> SUBSET Scalars]
          /\ d \in Int /\ s \in SUBSET Seq(Cells)
      BY <1>1, <1>2, <1>5 DEF Accs
    <2> HIDE DEF m, k, d, s
    <2>5. QED
      BY <2>2, <2>3, <2>4 DEF Accs
  <1>8. QED
    BY <1>3, <1>7

LEMMA AddNumberFields ==
    ASSUME NEW table, NEW acc \in Accs(table), NEW cell \in Cells, cell.kind # "missing"
    PROVE  /\ AddNumber(acc, cell) \in Accs(table)
           /\ AddNumber(acc, cell).ok = acc.ok /\ AddNumber(acc, cell).rows = acc.rows
           /\ AddNumber(acc, cell).missing = acc.missing
           /\ AddNumber(acc, cell).kinds = acc.kinds
           /\ AddNumber(acc, cell).duplicates = acc.duplicates
           /\ AddNumber(acc, cell).seen = acc.seen
           /\ AddNumber(acc, cell).valid = acc.valid + 1
           /\ AddNumber(acc, cell).total = acc.total + cell.value
           /\ AddNumber(acc, cell).least = IF acc.valid = 0 THEN cell.value
                                           ELSE Smaller(acc.least, cell.value)
           /\ AddNumber(acc, cell).most = IF acc.valid = 0 THEN cell.value
                                          ELSE Greater(acc.most, cell.value)
  <1>1. cell.value \in Int /\ acc.least \in Int /\ acc.most \in Int
    BY DEF Cells, Accs
  <1>2. Smaller(acc.least, cell.value) \in Int /\ Greater(acc.most, cell.value) \in Int
    BY <1>1 DEF Smaller, Greater
  <1>3. AddNumber(acc, cell) =
            [acc EXCEPT
                !.valid = @ + 1,
                !.total = @ + cell.value,
                !.least = IF acc.valid = 0 THEN cell.value ELSE Smaller(@, cell.value),
                !.most = IF acc.valid = 0 THEN cell.value ELSE Greater(@, cell.value)]
    BY DEF AddNumber
  <1> DEFINE l == IF acc.valid = 0 THEN cell.value ELSE Smaller(acc.least, cell.value)
             m == IF acc.valid = 0 THEN cell.value ELSE Greater(acc.most, cell.value)
  <1>4. l \in Int /\ m \in Int /\ acc.valid + 1 \in Int /\ acc.total + cell.value \in Int
    BY <1>1, <1>2 DEF Accs
  <1>5. AddNumber(acc, cell) = [acc EXCEPT !.valid = acc.valid + 1,
                                   !.total = acc.total + cell.value, !.least = l, !.most = m]
    BY <1>3
  <1>6. AddNumber(acc, cell).least = l /\ AddNumber(acc, cell).most = m
    <2> HIDE DEF l, m
    <2>1. QED
      BY <1>5 DEF Accs
  <1>7. /\ AddNumber(acc, cell) \in Accs(table)
        /\ AddNumber(acc, cell).ok = acc.ok /\ AddNumber(acc, cell).rows = acc.rows
        /\ AddNumber(acc, cell).missing = acc.missing
        /\ AddNumber(acc, cell).kinds = acc.kinds
        /\ AddNumber(acc, cell).duplicates = acc.duplicates
        /\ AddNumber(acc, cell).seen = acc.seen
        /\ AddNumber(acc, cell).valid = acc.valid + 1
        /\ AddNumber(acc, cell).total = acc.total + cell.value
    <2> HIDE DEF l, m
    <2>1. QED
      BY <1>4, <1>5 DEF Accs
  <1>8. QED
    BY <1>6, <1>7

LEMMA AddRowIs == \A acc, row, c : AddRow(acc, row, c) = AddNumber(Counted(acc, row), row[c])
  BY DEF AddRow, Counted

LEMMA NumbersNext ==
    ASSUME NEW table, NEW c, NEW n \in Nat
    PROVE  /\ Numbers(table, c, n + 1) =
                 IF table.rows[n + 1][c].kind = "number"
                 THEN Numbers(table, c, n) \cup {n + 1} ELSE Numbers(table, c, n)
           /\ n + 1 \notin Numbers(table, c, n)
           /\ IsFiniteSet(Numbers(table, c, n)) /\ Cardinality(Numbers(table, c, n)) \in Nat
  <1>1. IsFiniteSet(1..n) /\ Numbers(table, c, n) \in SUBSET (1..n)
    BY FS_Interval, 1 \in Int, n \in Int DEF Numbers
  <1>2. IsFiniteSet(Numbers(table, c, n))
    BY <1>1, FS_Subset
  <1>3. QED
    BY <1>1, <1>2, FS_CardinalityType DEF Numbers

\* A number of the column that is not added yet is the difference of two sums.
LEMMA SumOfNext ==
    ASSUME NEW table, IsTable(table), NEW c \in DOMAIN table.names, NEW R \in SUBSET (DOMAIN table.rows),
           IsFiniteSet(R), NEW n \in (DOMAIN table.rows) \ R,
           \A i \in R \cup {n} : table.rows[i][c] \in Cells
    PROVE  SumOver(table, c, R \cup {n}) = SumOver(table, c, R) + table.rows[n][c].value
  <1> DEFINE f == [i \in DOMAIN table.rows |-> table.rows[i][c].value]
  <1>1. \A S : SumOver(table, c, S) = Sum(f, S)
    BY DEF SumOver, Sum
  <1>2. IsFiniteSet(R \cup {n}) /\ (R \cup {n}) \ {n} = R /\ n \in R \cup {n}
    BY FS_AddElement
  <1>3. \A i \in R \cup {n} : f[i] \in Int
    BY DEF Cells
  <1>4. f[n] = table.rows[n][c].value
    OBVIOUS
  <1> HIDE DEF f
  <1>5. Sum(f, R) \in Int
    BY <1>3, SumType
  <1>6. Sum(f, R \cup {n}) = f[n] + Sum(f, R)
    BY <1>2, <1>3, SumOfOneAndRest
  <1>7. f[n] + Sum(f, R) = Sum(f, R) + f[n]
    BY <1>3, <1>5
  <1>8. QED
    BY <1>1, <1>4, <1>6, <1>7

\* The pass accounts for one row more with every sound row.
LEMMA RowAccounts ==
    ASSUME NEW table, Opened(table), NEW c \in DOMAIN table.names,
           NEW n \in Nat, n + 1 \in DOMAIN table.rows,
           \A i \in 1..(n + 1) : Faultless(table, c, i),
           NEW acc, Accounts(acc, table, c, n)
    PROVE  Accounts(AddRow(acc, table.rows[n + 1], c), table, c, n + 1)
  <1> DEFINE row == table.rows[n + 1]
             base == Counted(acc, row)
             last == AddRow(acc, row, c)
             N == Numbers(table, c, n)
             M == Numbers(table, c, n + 1)
  <1>1. IsTable(table) /\ acc \in Accs(table)
    BY DEF Opened, Accounts
  <1>2. 1..(n + 1) \in SUBSET DOMAIN table.rows
    BY <1>1, TableShape
  <1>3. \A i \in 1..(n + 1) :
           /\ i \in DOMAIN table.rows
           /\ table.rows[i] \in Seq(Cells)
           /\ \A j \in DOMAIN table.names : table.rows[i][j] \in Cells
           /\ table.rows[i][c].kind \in {"number", "missing"}
    BY <1>1, <1>2, SoundRow, TableShape
  <1>4. n + 1 \in 1..(n + 1) /\ \A i \in 1..n : i \in 1..(n + 1)
    OBVIOUS
  <1>5. row \in Seq(Cells) /\ (\A j \in DOMAIN table.names : row[j] \in Cells)
        /\ row[c].kind \in {"number", "missing"} /\ row[c] \in Cells
    BY <1>3, <1>4
  <1>6. /\ base \in Accs(table)
        /\ base.missing = [j \in DOMAIN table.names |->
               acc.missing[j] + (IF row[j].kind = "missing" THEN 1 ELSE 0)]
        /\ base.kinds = [j \in DOMAIN table.names |->
               acc.kinds[j] \cup ({KindOf(row[j])} \ {"missing"})]
        /\ base.ok = acc.ok /\ base.rows = acc.rows + 1
        /\ base.valid = acc.valid /\ base.total = acc.total
        /\ base.least = acc.least /\ base.most = acc.most
        /\ base.duplicates = acc.duplicates + (IF row \in acc.seen THEN 1 ELSE 0)
        /\ base.seen = acc.seen \cup {row}
    BY <1>1, <1>5, CountedFields
  <1>7. last = AddNumber(base, row[c])
    BY AddRowIs
  <1>8. ASSUME NEW next, next.rows = base.rows, next.seen = base.seen,
               next.duplicates = base.duplicates, next.kinds = base.kinds, next.ok = base.ok
        PROVE  Described(next, table, n + 1)
    <2>1. next.ok /\ next.rows = n + 1
      BY <1>6, <1>8 DEF Accounts, Described
    <2>2. acc.seen = {table.rows[i] : i \in 1..n} /\ IsFiniteSet(acc.seen)
          /\ acc.duplicates = n - Cardinality(acc.seen)
      BY DEF Accounts, Described
    <2>3. next.seen = {table.rows[i] : i \in 1..(n + 1)}
      BY <1>6, <1>8, <2>2
    <2>4. /\ IsFiniteSet(next.seen) /\ Cardinality(acc.seen) \in Nat
          /\ Cardinality(next.seen) =
                IF row \in acc.seen THEN Cardinality(acc.seen) ELSE Cardinality(acc.seen) + 1
      <3>1. next.seen = acc.seen \cup {row}
        BY <1>6, <1>8
      <3>2. /\ IsFiniteSet(acc.seen \cup {row})
            /\ Cardinality(acc.seen \cup {row}) =
                  IF row \in acc.seen THEN Cardinality(acc.seen) ELSE Cardinality(acc.seen) + 1
        BY <2>2, FS_AddElement
      <3>3. Cardinality(acc.seen) \in Nat
        BY <2>2, FS_CardinalityType
      <3>4. QED
        BY <3>1, <3>2, <3>3
    <2>5. next.duplicates = n + 1 - Cardinality(next.seen)
      BY <1>6, <1>8, <2>2, <2>4
    <2>6. ASSUME NEW j \in DOMAIN table.names
          PROVE  next.kinds[j] = {KindOf(table.rows[i][j]) : i \in 1..(n + 1)} \ {"missing"}
      <3>1. acc.kinds[j] = {KindOf(table.rows[i][j]) : i \in 1..n} \ {"missing"}
        BY DEF Accounts, Described
      <3>2. next.kinds[j] = acc.kinds[j] \cup ({KindOf(row[j])} \ {"missing"})
        BY <1>6, <1>8
      <3>3. {KindOf(table.rows[i][j]) : i \in 1..(n + 1)} =
               {KindOf(table.rows[i][j]) : i \in 1..n} \cup {KindOf(row[j])}
        OBVIOUS
      <3>4. QED
        BY <3>1, <3>2, <3>3
    <2>7. QED
      BY <2>1, <2>3, <2>4, <2>5, <2>6 DEF Described
  <1>9. CASE row[c].kind = "missing"
    <2>1. last = base
      BY <1>7, <1>9 DEF AddNumber
    <2>2. M = N
      BY <1>9, NumbersNext
    <2>3. base.valid + base.missing[c] = n + 1
      <3>1. acc.valid + acc.missing[c] = n /\ acc.valid \in Int /\ acc.missing[c] \in Int
        BY <1>1 DEF Accounts, Summed, Accs
      <3>2. base.missing[c] = acc.missing[c] + 1
        BY <1>6, <1>9
      <3>3. QED
        BY <1>6, <3>1, <3>2
    <2>4. Summed(base, table, c, n + 1) /\ Bounded(base, table, c, n + 1)
      BY <1>6, <2>2, <2>3 DEF Accounts, Summed, Bounded
    <2> HIDE DEF base
    <2>5. Described(base, table, n + 1)
      BY <1>8
    <2>6. QED
      BY <1>6, <2>1, <2>4, <2>5 DEF Accounts, last, row
  <1>10. CASE row[c].kind = "number"
    <2>1. row[c].kind # "missing"
      BY <1>10
    <2>2. /\ last \in Accs(table)
          /\ last.ok = base.ok /\ last.rows = base.rows
          /\ last.missing = base.missing /\ last.kinds = base.kinds
          /\ last.duplicates = base.duplicates /\ last.seen = base.seen
          /\ last.valid = acc.valid + 1 /\ last.total = acc.total + row[c].value
          /\ last.least = IF acc.valid = 0 THEN row[c].value ELSE Smaller(acc.least, row[c].value)
          /\ last.most = IF acc.valid = 0 THEN row[c].value ELSE Greater(acc.most, row[c].value)
      BY <1>5, <1>6, <1>7, <2>1, AddNumberFields
    <2>3. M = N \cup {n + 1} /\ n + 1 \notin N /\ IsFiniteSet(N) /\ Cardinality(N) \in Nat
      BY <1>10, NumbersNext
    <2>4. acc.valid = Cardinality(N) /\ acc.total = SumOver(table, c, N)
      BY DEF Accounts, Summed
    <2>5. last.valid = Cardinality(M)
      BY <2>2, <2>3, <2>4, FS_AddElement
    <2>6. last.total = SumOver(table, c, M)
      <3>1. N \in SUBSET DOMAIN table.rows /\ n + 1 \in (DOMAIN table.rows) \ N
        BY <1>2, <1>4, <2>3 DEF Numbers
      <3>2. \A i \in N \cup {n + 1} : table.rows[i][c] \in Cells
        BY <1>3, <1>4 DEF Numbers
      <3>3. SumOver(table, c, N \cup {n + 1}) = SumOver(table, c, N) + table.rows[n + 1][c].value
        BY <1>1, <2>3, <3>1, <3>2, SumOfNext
      <3>4. QED
        BY <2>2, <2>3, <2>4, <3>3
    <2>7. last.valid + last.missing[c] = n + 1
      <3>1. acc.valid + acc.missing[c] = n /\ acc.valid \in Int /\ acc.missing[c] \in Int
        BY <1>1 DEF Accounts, Summed, Accs
      <3>2. last.missing[c] = acc.missing[c] + 0
        BY <1>6, <2>1, <2>2
      <3>3. QED
        BY <2>2, <3>1, <3>2
    <2>8. /\ \A i \in M : last.least <= table.rows[i][c].value /\ table.rows[i][c].value <= last.most
          /\ \E i \in M : last.least = table.rows[i][c].value
          /\ \E i \in M : last.most = table.rows[i][c].value
      <3>1. /\ row[c].value \in Int /\ acc.least \in Int /\ acc.most \in Int
            /\ \A i \in N : table.rows[i][c].value \in Int
        <4>1. row[c].value \in Int
          BY <1>5 DEF Cells
        <4>2. acc.least \in Int /\ acc.most \in Int
          BY <1>1 DEF Accs
        <4>3. \A i \in N : table.rows[i][c] \in Cells
          BY <1>3, <1>4 DEF Numbers
        <4>4. QED
          BY <4>1, <4>2, <4>3 DEF Cells
      <3>2. /\ \A i \in N : acc.least <= table.rows[i][c].value /\ table.rows[i][c].value <= acc.most
            /\ N # {} => /\ \E i \in N : acc.least = table.rows[i][c].value
                         /\ \E i \in N : acc.most = table.rows[i][c].value
        BY DEF Accounts, Bounded
      <3>3. acc.valid = 0 <=> N = {}
        BY <2>3, <2>4, FS_EmptySet
      <3>4. CASE N = {}
        BY <2>2, <2>3, <3>1, <3>3, <3>4
      <3>5. CASE N # {}
        <4>1. last.least = Smaller(acc.least, row[c].value) /\ last.most = Greater(acc.most, row[c].value)
          BY <2>2, <3>3, <3>5
        <4>2. /\ last.least <= acc.least /\ last.least <= row[c].value
              /\ last.least \in {acc.least, row[c].value}
              /\ acc.most <= last.most /\ row[c].value <= last.most
              /\ last.most \in {acc.most, row[c].value}
          BY <3>1, <4>1 DEF Smaller, Greater
        <4>3. last.least \in Int /\ last.most \in Int
          BY <3>1, <4>2
        <4>4. QED
          BY <2>3, <3>1, <3>2, <3>5, <4>2, <4>3
      <3>6. QED
        BY <3>4, <3>5
    <2>9. Summed(last, table, c, n + 1) /\ Bounded(last, table, c, n + 1)
      BY <2>5, <2>6, <2>7, <2>8 DEF Summed, Bounded
    <2> HIDE DEF base, last
    <2>10. Described(last, table, n + 1)
      BY <1>8, <2>2
    <2>11. QED
      BY <2>2, <2>9, <2>10 DEF Accounts, last, row
  <1>11. QED
    BY <1>5, <1>9, <1>10

\* What the loop holds after n rows: the account of them, or a fault in one.
Passed(acc, table, c, n) ==
    \/ Accounts(acc, table, c, n) /\ \A i \in 1..n : Faultless(table, c, i)
    \/ ~acc.ok /\ \E i \in 1..n : ~Faultless(table, c, i)

LEMMA FaultFails == \A code : ~Fault(code).ok
  BY DEF Fault

LEMMA LoopPasses ==
    ASSUME NEW table, Opened(table), NEW c \in DOMAIN table.names,
           NEW g, Passes(g, table, c, 0..Len(table.rows))
    PROVE  Passed(g[Len(table.rows)], table, c, Len(table.rows))
  <1> DEFINE m == Len(table.rows)
             K == {n \in 0..m : Passed(g[n], table, c, n)}
  <1>1. IsTable(table) /\ m \in Nat /\ DOMAIN table.rows = 1..m
    BY TableShape DEF Opened
  <1>2. \A n \in 0..m : g[n] = IF n = 0 THEN Start(table) ELSE LoopStep(g[n - 1], table, c, n)
    BY DEF Passes
  <1> HIDE DEF m
  <1>3. 0 \in K
    <2>1. g[0] = Start(table) /\ 0 \in 0..m
      BY <1>1, <1>2
    <2>2. \A i \in 1..0 : Faultless(table, c, i)
      OBVIOUS
    <2>3. QED
      BY <2>1, <2>2, StartAccounts DEF Passed
  <1>4. ASSUME NEW n \in K, n < m PROVE n + 1 \in K
    <2>1. n \in Nat /\ n + 1 \in 0..m /\ n + 1 \in DOMAIN table.rows /\ Passed(g[n], table, c, n)
      BY <1>1, <1>4
    <2>2. g[n + 1] = LoopStep(g[n], table, c, n + 1)
      BY <1>2, <2>1
    <2>3. n + 1 \in 1..(n + 1) /\ \A i \in 1..n : i \in 1..(n + 1)
      BY <2>1
    <2>4. CASE ~g[n].ok
      <3>1. \E i \in 1..n : ~Faultless(table, c, i)
        BY <2>1, <2>4 DEF Passed, Accounts, Described
      <3>2. g[n + 1] = g[n]
        BY <2>2, <2>4 DEF LoopStep
      <3>3. QED
        BY <2>1, <2>3, <2>4, <3>1, <3>2 DEF Passed
    <2>5. CASE g[n].ok /\ ~Faultless(table, c, n + 1)
      <3>1. ~g[n + 1].ok
        <4>1. g[n + 1] = Fault(RowFault(table, c, n + 1))
          BY <2>2, <2>5, Zenon DEF LoopStep, Faultless
        <4>2. QED
          BY <4>1, FaultFails
      <3>2. QED
        BY <2>1, <2>3, <2>5, <3>1 DEF Passed
    <2>6. CASE g[n].ok /\ Faultless(table, c, n + 1)
      <3>1. Accounts(g[n], table, c, n) /\ \A i \in 1..n : Faultless(table, c, i)
        BY <2>1, <2>6 DEF Passed
      <3>2. \A i \in 1..(n + 1) : Faultless(table, c, i)
        BY <2>1, <2>6, <3>1
      <3>3. g[n + 1] = AddRow(g[n], table.rows[n + 1], c)
        BY <2>2, <2>6 DEF LoopStep, Faultless
      <3>4. Accounts(g[n + 1], table, c, n + 1)
        BY <2>1, <3>1, <3>2, <3>3, RowAccounts
      <3>5. QED
        BY <2>1, <3>2, <3>4 DEF Passed
    <2>7. QED
      BY <2>4, <2>5, <2>6
  <1>5. m \in K
    <2> HIDE DEF K
    <2>1. K \in SUBSET (0..m)
      BY DEF K
    <2>2. QED
      BY <1>1, <1>3, <1>4, <2>1, UpTo
  <1>6. QED
    BY <1>5 DEF m

LEMMA ScanPasses ==
    ASSUME NEW table, Opened(table), NEW c \in DOMAIN table.names
    PROVE  Passed(Scan(table, c), table, c, Len(table.rows))
  <1>1. Len(table.rows) \in Nat
    BY TableShape DEF Opened
  <1>2. QED
    BY <1>1, ScanIsLoop, LoopPasses

\* The column of this name.
Selected(table, column) == CHOOSE i \in DOMAIN table.names : table.names[i] = column

\* A table that passes the loop is answered exactly.
LEMMA PassedIsExact ==
    ASSUME NEW table, Opened(table), NEW column,
           \E i \in DOMAIN table.names : table.names[i] = column,
           NEW c, c = Selected(table, column),
           NEW acc, Accounts(acc, table, c, Len(table.rows)),
           \A i \in 1..Len(table.rows) : Faultless(table, c, i),
           acc.rows # 0, acc.valid # 0
    PROVE  AnswerExact(table, column, acc)
  <1> DEFINE m == Len(table.rows)
             good == NumberRows(table, c)
             values == {table.rows[i][c].value : i \in good}
             distinct == {table.rows[i] : i \in DOMAIN table.rows}
  <1>1. IsTable(table) /\ m \in Nat /\ DOMAIN table.rows = 1..m
    BY TableShape DEF Opened
  <1>2. c \in DOMAIN table.names
    BY DEF Selected
  <1>3. good = Numbers(table, c, m)
    BY <1>1 DEF NumberRows, Numbers
  <1>4. \A i \in 1..m : i <= MaxRows /\ Len(table.rows[i]) = Len(table.names)
    BY <1>1, <1>2, SoundRow
  <1>5. acc.rows = m /\ m # 0
    BY DEF Accounts, Described
  <1>6. m <= MaxRows
    BY <1>1, <1>4, <1>5
  <1>7. /\ acc.valid = Cardinality(good) /\ acc.total = SumOver(table, c, good)
        /\ acc.valid + acc.missing[c] = acc.rows
    BY <1>3, <1>5 DEF Accounts, Summed
  <1>8. good # {}
    BY <1>7, FS_EmptySet
  <1>9. acc.duplicates = acc.rows - Cardinality(distinct)
    BY <1>1, <1>5 DEF Accounts, Described
  <1>10. /\ acc.least \in values /\ acc.most \in values
         /\ \A v \in values : acc.least <= v /\ v <= acc.most
    <2>1. /\ \A i \in good : acc.least <= table.rows[i][c].value
                             /\ table.rows[i][c].value <= acc.most
          /\ \E i \in good : acc.least = table.rows[i][c].value
          /\ \E i \in good : acc.most = table.rows[i][c].value
      BY <1>3, <1>8 DEF Accounts, Bounded
    <2> HIDE DEF good
    <2>2. QED
      BY <2>1
  <1>11. \A j \in DOMAIN table.names : acc.kinds[j] =
            {KindOf(table.rows[i][j]) : i \in DOMAIN table.rows} \ {"missing"}
    BY <1>1 DEF Accounts, Described
  <1>12. QED
    BY <1>1, <1>4, <1>5, <1>6, <1>7, <1>8, <1>9, <1>10, <1>11
       DEF AnswerExact, Selected

\* What Summable says of the one column of this name.
LEMMA SummableColumn ==
    ASSUME NEW table, NEW column, Summable(table, column),
           NEW c, c = Selected(table, column)
    PROVE  /\ c \in DOMAIN table.names
           /\ \A i \in DOMAIN table.rows :
                 /\ Len(table.rows[i]) = Len(table.names)
                 /\ table.rows[i][c].kind \in {"number", "missing"}
                 /\ \A j \in DOMAIN table.names :
                       /\ table.rows[i][j].kind # "nested"
                       /\ table.media = "json" => table.rows[i][j].kind # "literal"
                       /\ table.media # "json" => table.rows[i][j].kind # "formula"
           /\ \E i \in DOMAIN table.rows : table.rows[i][c].kind = "number"
  <1>1. PICK d \in DOMAIN table.names :
          /\ table.names[d] = column
          /\ \A i \in DOMAIN table.rows :
                /\ Len(table.rows[i]) = Len(table.names)
                /\ table.rows[i][d].kind \in {"number", "missing"}
                /\ \A j \in DOMAIN table.names : table.rows[i][j].kind \notin
                      {"nested", IF table.media = "json" THEN "literal" ELSE "formula"}
          /\ \E i \in DOMAIN table.rows : table.rows[i][d].kind = "number"
    BY DEF Summable
  <1>2. c \in DOMAIN table.names /\ table.names[c] = column
    BY <1>1 DEF Selected
  <1>3. c = d
    BY <1>1, <1>2 DEF Summable, IsInjective
  <1>4. QED
    BY <1>1, <1>2, <1>3

\* A table that can be summed is opened, and no row of it is at fault.
LEMMA SummableIsFaultless ==
    ASSUME NEW table, IsTable(table), NEW column, Summable(table, column),
           NEW c, c = Selected(table, column)
    PROVE  \A i \in 1..Len(table.rows) : Faultless(table, c, i)
  <1> SUFFICES ASSUME NEW n \in 1..Len(table.rows) PROVE Faultless(table, c, n)
    OBVIOUS
  <1>1. /\ Len(table.rows) \in Nat /\ n \in DOMAIN table.rows /\ n \in Nat
        /\ Len(table.names) \in Nat /\ DOMAIN table.names = 1..Len(table.names)
        /\ DOMAIN table.rows[n] = 1..Len(table.rows[n])
    BY TableShape
  <1>2. /\ Len(table.rows) <= MaxRows /\ Len(table.rows) * Len(table.names) <= MaxCells
        /\ table.media \in {"csv", "json"}
    BY DEF Summable
  <1>3. n <= MaxRows /\ n * Len(table.names) <= MaxCells
    <2>1. /\ n * Len(table.names) \in Nat /\ Len(table.rows) * Len(table.names) \in Nat
          /\ n * Len(table.names) <= Len(table.rows) * Len(table.names)
      <3>1. n <= Len(table.rows)
        BY <1>1
      <3>2. QED
        BY <1>1, <3>1, Products, Zenon
    <2> DEFINE p == n * Len(table.names)
               q == Len(table.rows) * Len(table.names)
    <2>2. p \in Nat /\ q \in Nat /\ p <= q /\ q <= MaxCells
      BY <1>2, <2>1
    <2> HIDE DEF p, q
    <2>3. p <= MaxCells
      BY <2>2, StatisticsAssumption
    <2>4. QED
      BY <1>1, <1>2, <2>3, StatisticsAssumption DEF p
  <1>4. ~(n > MaxRows \/ n * Len(table.names) > MaxCells)
    <2>1. n * Len(table.names) \in Nat
      BY <1>1, Products
    <2>2. \A x, y \in Nat : x <= y => ~(x > y)
      OBVIOUS
    <2>3. QED
      BY <1>1, <1>3, <2>1, <2>2, StatisticsAssumption
  <1>5. /\ Len(table.rows[n]) = Len(table.names)
        /\ table.rows[n][c].kind \in {"number", "missing"}
        /\ \A j \in DOMAIN table.rows[n] :
              /\ table.rows[n][j].kind # "nested"
              /\ table.media # "json" => table.rows[n][j].kind # "formula"
    <2>1. /\ Len(table.rows[n]) = Len(table.names)
          /\ table.rows[n][c].kind \in {"number", "missing"}
          /\ \A j \in DOMAIN table.names :
                /\ table.rows[n][j].kind # "nested"
                /\ table.media # "json" => table.rows[n][j].kind # "formula"
      BY <1>1, SummableColumn
    <2>2. DOMAIN table.rows[n] = DOMAIN table.names
      BY <1>1, <2>1
    <2>3. QED
      BY <2>1, <2>2
  <1>6. /\ ~(table.media = "csv" /\ \E j \in DOMAIN table.rows[n] : table.rows[n][j].kind = "formula")
        /\ ~\E j \in DOMAIN table.rows[n] : table.rows[n][j].kind = "nested"
        /\ table.rows[n][c].kind \notin {"string", "boolean", "formula"}
        /\ table.rows[n][c].kind # "digits"
    BY <1>5
  <1>7. RowFault(table, c, n) = ""
    BY <1>4, <1>5, <1>6, Zenon DEF RowFault
  <1>8. QED
    BY <1>7 DEF Faultless

-----------------------------------------------------------------------------
(* Exact answers.                                                           *)

\* The table is read.
Readable(table) == OpenFault(table) = ""

LEMMA ReadableIsOpened ==
    ASSUME NEW table, IsTable(table), Readable(table)
    PROVE  Opened(table)
  <1>1. table.media \in {"csv", "json"}
    BY DEF Readable, OpenFault
  <1>2. CASE table.media = "csv"
    BY <1>2, Zenon DEF IsTable, Opened
  <1>3. CASE table.media = "json"
    <2>1. table.media # "csv"
      BY <1>3
    <2>2. ~\E i \in DOMAIN table.rows : \E j \in DOMAIN table.rows[i] :
             table.rows[i][j].kind = "literal"
      BY <1>1, <2>1 DEF Readable, OpenFault
    <2>3. QED
      BY <1>1, <2>2, Zenon DEF Opened
  <1>4. QED
    BY <1>1, <1>2, <1>3

LEMMA SummableIsReadable ==
    ASSUME NEW table, IsTable(table), NEW column, Summable(table, column)
    PROVE  Readable(table)
  <1>1. /\ table.media \in {"csv", "json"} /\ ~FormulaHeader(table)
        /\ table.names # << >> /\ IsInjective(table.names)
        /\ Len(table.names) <= MaxColumns /\ Len(table.rows) <= MaxRows
    BY DEF Summable
  <1>2. /\ Len(table.names) \in Nat /\ Len(table.rows) \in Nat
        /\ DOMAIN table.rows = 1..Len(table.rows)
        /\ DOMAIN table.names = 1..Len(table.names)
        /\ \A i \in DOMAIN table.rows : DOMAIN table.rows[i] = 1..Len(table.rows[i])
    BY TableShape
  <1>3. ~(Len(table.names) > MaxColumns) /\ ~(Len(table.rows) > MaxRows)
    BY <1>1, <1>2, StatisticsAssumption
  <1>4. ~(table.names = << >> \/ Len(table.names) > MaxColumns)
    BY <1>1, <1>3
  <1>5. NamesFault(table) = ""
    BY <1>1, <1>4, Zenon DEF NamesFault
  <1> DEFINE c == Selected(table, column)
  <1>6. /\ \A i \in DOMAIN table.rows :
              /\ Len(table.rows[i]) = Len(table.names)
              /\ \A j \in DOMAIN table.names :
                    table.media = "json" => table.rows[i][j].kind # "literal"
        /\ \E i \in DOMAIN table.rows : table.rows[i][c].kind = "number"
    BY SummableColumn
  <1>7. table.rows # << >>
    BY <1>6
  <1>8. table.media = "json" =>
           ~\E i \in DOMAIN table.rows : \E j \in DOMAIN table.rows[i] :
               table.rows[i][j].kind = "literal"
    BY <1>2, <1>6
  <1>9. OpenFault(table) = ""
    BY <1>1, <1>3, <1>5, <1>7, <1>8, Zenon DEF OpenFault
  <1>10. QED
    BY <1>9 DEF Readable

\* Whatever a table says and whatever column is asked for, the answer is the
\* exact one of the whole table, and a refusal is given to none that has one.
LEMMA CalculateIsExact ==
    ASSUME NEW table, IsTable(table), NEW column
    PROVE  Exact(table, column, Calculate(table, column))
  <1> DEFINE found == \E i \in DOMAIN table.names : table.names[i] = column
             c == Selected(table, column)
             end == Scan(table, c)
             answer == Calculate(table, column)
  <1>1. CASE ~Readable(table)
    <2>1. answer = Fault(OpenFault(table))
      BY <1>1, Zenon DEF Calculate, Readable
    <2>2. QED
      BY <1>1, <2>1, FaultFails, SummableIsReadable, Zenon DEF Exact
  <1>2. CASE Readable(table) /\ ~found
    <2>1. answer = Fault("analysis_column_not_found")
      BY <1>2, Zenon DEF Calculate, Readable
    <2>2. ~Summable(table, column)
      BY <1>2, Zenon DEF Summable
    <2>3. QED
      BY <2>1, <2>2, FaultFails, Zenon DEF Exact
  <1>3. CASE Readable(table) /\ found
    <2>1. Opened(table) /\ c \in DOMAIN table.names
      BY <1>3, ReadableIsOpened DEF Selected
    <2>2. Passed(end, table, c, Len(table.rows))
      BY <2>1, ScanPasses
    <2>3. answer = IF ~end.ok THEN end
                   ELSE IF end.rows = 0 THEN Fault("analysis_invalid_table")
                   ELSE IF end.valid = 0 THEN Fault("analysis_no_numeric_values")
                   ELSE end
      BY <1>3, Zenon DEF Calculate, Readable, Selected
    <2> HIDE DEF end, answer
    <2>4. CASE ~end.ok
      <3>1. ~Summable(table, column)
        BY <2>2, <2>4, SummableIsFaultless DEF Passed, Accounts, Described
      <3>2. QED
        BY <2>3, <2>4, <3>1, Zenon DEF Exact, answer
    <2>5. CASE end.ok /\ (end.rows = 0 \/ end.valid = 0)
      <3>1. Accounts(end, table, c, Len(table.rows))
        BY <2>2, <2>5 DEF Passed
      <3>2. ASSUME Summable(table, column) PROVE FALSE
        <4>1. PICK i \in DOMAIN table.rows : table.rows[i][c].kind = "number"
          BY <3>2, SummableColumn
        <4>2. Len(table.rows) \in Nat /\ i \in 1..Len(table.rows)
          BY TableShape
        <4>3. i \in Numbers(table, c, Len(table.rows))
          BY <4>1, <4>2 DEF Numbers
        <4>4. /\ IsFiniteSet(Numbers(table, c, Len(table.rows)))
          BY <4>2, NumbersNext
        <4>5. end.rows = Len(table.rows) /\ end.valid = Cardinality(Numbers(table, c, Len(table.rows)))
          BY <3>1 DEF Accounts, Described, Summed
        <4>6. end.rows # 0
          BY <4>2, <4>5
        <4>7. end.valid # 0
          BY <4>3, <4>4, <4>5, FS_EmptySet
        <4>8. QED
          BY <2>5, <4>6, <4>7
      <3>3. ~answer.ok
        BY <2>3, <2>5, FaultFails
      <3>4. QED
        BY <3>2, <3>3, Zenon DEF Exact, answer
    <2>6. CASE end.ok /\ end.rows # 0 /\ end.valid # 0
      <3>1. /\ Accounts(end, table, c, Len(table.rows))
            /\ \A i \in 1..Len(table.rows) : Faultless(table, c, i)
        BY <2>2, <2>6 DEF Passed
      <3>2. answer = end
        BY <2>3, <2>6
      <3>3. AnswerExact(table, column, end)
        BY <1>3, <2>1, <2>6, <3>1, PassedIsExact
      <3>4. QED
        BY <2>6, <3>2, <3>3, Zenon DEF Exact, answer
    <2>7. QED
      BY <2>4, <2>5, <2>6
  <1>4. QED
    BY <1>1, <1>2, <1>3


\* A statistics request holds what the calculation made of one table.
SheetInv ==
    /\ DOMAIN sheet = Requests
    /\ \A r \in Requests : sheet[r] # << >> =>
          \E table \in Tables : sheet[r] = <<table, Calculate(table, Column)>>

LEMMA SheetNext == SheetInv /\ [AnalysisNext]_analysisVars => SheetInv'
  <1> SUFFICES ASSUME SheetInv, [AnalysisNext]_analysisVars PROVE SheetInv'
    OBVIOUS
  <1>1. CASE UNCHANGED sheet
    BY <1>1 DEF SheetInv
  <1>2. ASSUME NEW r \in Requests, Compute(r) PROVE SheetInv'
    <2>1. CASE \E table \in Tables :
                  sheet' = [sheet EXCEPT ![r] = <<table, Calculate(table, Column)>>]
      BY <2>1 DEF SheetInv
    <2>2. QED
      BY <1>1, <1>2, <2>1 DEF Compute
  <1>3. ASSUME NEW r \in Requests, ReadStep(r), ~Compute(r) PROVE UNCHANGED sheet
    BY <1>3 DEF ReadStep, GetFile, AnalyzeFile, FileStatistics, Ask, ToolRefuses, Find,
                FindNothing, FindFails, ReadBytes, Below, Dies, readVars
  <1>4. QED
    BY <1>1, <1>2, <1>3 DEF AnalysisNext, FilesStep, Spoil, analysisVars, readVars

\* The statistics that are served are exact for the whole table, whatever it says
\* and however long it is, and none that has them is refused.
THEOREM StatisticsAreExact == AnalysisSpec => []StatisticsExact
  <1>1. AnalysisInit => SheetInv
    BY DEF AnalysisInit, SheetInv
  <1>2. SheetInv => StatisticsExact
    <2> SUFFICES ASSUME SheetInv, NEW r \in Requests, sheet[r] # << >>
                 PROVE  Exact(sheet[r][1], Column, sheet[r][2])
      BY DEF StatisticsExact
    <2>1. PICK table \in Tables : sheet[r] = <<table, Calculate(table, Column)>>
      BY DEF SheetInv
    <2>2. Exact(table, Column, Calculate(table, Column))
      BY CalculateIsExact, TablesAssumption
    <2>3. QED
      BY <2>1, <2>2
  <1>3. QED
    BY <1>1, <1>2, SheetNext, PTL DEF AnalysisSpec

\* What readers are told of a file and of what is in it is true.
THEOREM AnswersHold == AnalysisSpec => []AnswersAreTrue
  <1>1. ReadsAreHonest /\ StatisticsExact => AnswersAreTrue
    BY DEF AnswersAreTrue
  <1>2. QED
    BY <1>1, ReadersAreToldTheTruth, StatisticsAreExact, PTL
=============================================================================
