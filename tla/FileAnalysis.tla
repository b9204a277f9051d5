----------------------------- MODULE FileAnalysis -----------------------------
(***************************************************************************)
(* The operations of ManagedFileService that read what is stored: the      *)
(* metadata, the text and the column statistics of one file, asked over    *)
(* HTTP (routes/managed_file.py) or by a tool of the agent.  They look a   *)
(* file up as delete_file does and then read bytes that nothing locks,     *)
(* while the requests of ManagedFiles store and remove files.              *)
(***************************************************************************)
EXTENDS ManagedFiles, ColumnStatistics

CONSTANTS
    Tables,      \* what the bytes of a file may say
    Column       \* the column that is asked for

ASSUME TablesAssumption == \A table \in Tables : IsTable(table)

VARIABLES
    target,      \* the file each request reads, what is asked of it, and
                 \* whether it was there when the request was authenticated
    reply,       \* how far its answer is
    sheet,       \* the table a statistics request has summed, with the result
    spoilt       \* files whose bytes were altered behind the service's back

readVars == <<target, reply, sheet, spoilt>>
analysisVars == <<filesVars, readVars>>

Asked == {"metadata", "analysis", "statistics"}
Replies == {"none", "found", "read", "served", "missing", "refused", "unavailable"}

AnalysisInit ==
    /\ FilesInit
    /\ target = [r \in Requests |-> << >>]
    /\ reply = [r \in Requests |-> "none"]
    /\ sheet = [r \in Requests |-> << >>]
    /\ spoilt = {}

Answer(r, a) == reply' = [reply EXCEPT ![r] = a]
Reads(r) == target[r] # << >>
File(r) == target[r][1]
What(r) == target[r][2]
WasLive(r) == target[r][3]
Live == rows \ expired
-----------------------------------------------------------------------------
\* The session of the request opens its transaction with the query of its user.
\* The id is one an upload was answered with, or one that a list shows although
\* its upload was answered with an error; the file may be gone since.
Ask(r, what) ==
    /\ DeleteFile(r) /\ reply[r] = "none"
    /\ \E f \in Files :
          /\ phase[f[1]] \in {"created", "doubting", "doubted"}
          /\ target' = [target EXCEPT ![r] =
                <<f, what, f \in Live>>]
    /\ UNCHANGED <<reply, sheet, spoilt>>

GetFile(r) == Ask(r, "metadata")
AnalyzeFile(r) == Ask(r, "analysis")
FileStatistics(r) == Ask(r, "statistics")

\* The tools of the agent take the user from the run they serve; without one
\* they answer before they open a session.
ToolRefuses(r) ==
    /\ At(r, "idle") /\ ~Reads(r) /\ reply[r] = "none"
    /\ Answer(r, "refused")
    /\ UNCHANGED <<filesVars, target, sheet, spoilt>>

Finding(r) == Reads(r) /\ At(r, "finding") /\ reply[r] = "none"

\* Mutation: the bytes are looked for instead of the row.
FoundOnDisk(r) == File(r) \in disk

\* get_file
Found(r) == File(r) \in Seen(r) \ expired

Find(r) ==
    /\ Finding(r)
    /\ Found(r)
    /\ Answer(r, IF What(r) = "metadata" THEN "served" ELSE "found")
    /\ UNCHANGED <<filesVars, target, sheet, spoilt>>

FindNothing(r) ==
    /\ Finding(r)
    /\ ~Found(r)
    /\ Answer(r, "missing")
    /\ UNCHANGED <<target, sheet, spoilt>>
    \* Only an analysis sweeps the expired files before it answers.
    /\ IF What(r) = "analysis" THEN DeleteMissing(r) ELSE UNCHANGED filesVars

\* _record_path: the bytes are where the row says, below the user's directory.
Stored(f) == f \in disk

\* _read_bytes: an open file stays readable when it is unlinked, and its size
\* and its sha256 are compared with the row's.
ReadBytes(r) ==
    /\ Reads(r) /\ At(r, "finding") /\ reply[r] = "found"
    /\ IF Stored(File(r)) /\ File(r) \notin spoilt
       THEN Answer(r, IF What(r) = "analysis" THEN "served" ELSE "read")
       ELSE Answer(r, "unavailable")
    /\ UNCHANGED <<filesVars, target, sheet, spoilt>>

\* calculate_statistics, unless its deadline ends it between two rows.
Compute(r) ==
    /\ Reads(r) /\ At(r, "finding") /\ reply[r] = "read"
    /\ \/ \E table \in Tables :
             LET result == Calculate(table, Column) IN
             /\ sheet' = [sheet EXCEPT ![r] = <<table, result>>]
             /\ Answer(r, IF result.ok THEN "served" ELSE "refused")
       \/ Answer(r, "refused") /\ UNCHANGED sheet
    /\ UNCHANGED <<filesVars, target, spoilt>>

\* What goes on below an analysis that found nothing, and failures anywhere.
Below(r) ==
    /\ \/ CleanupExpired(r) \/ CleanupUnanswered(r) \/ NothingExpired(r) \/ Sweep(r)
       \/ Undo(r)
       \/ (At(r, "cleaning") /\ StorageFails(r))
    /\ UNCHANGED readVars

\* The query of get_file fails: the route answers 500, the tool with an error.
FindFails(r) ==
    /\ Finding(r)
    /\ StorageFails(r)
    /\ UNCHANGED readVars

Dies(r) == Crash(r) /\ UNCHANGED readVars

\* An operator, a backup or a failing disk changes the bytes of a file; of a
\* file that nobody is about to read it need not be said.
Spoil(f) ==
    /\ f \in disk \ spoilt
    /\ \E r \in Requests : Reads(r) /\ File(r) = f
    /\ spoilt' = spoilt \cup {f}
    /\ UNCHANGED <<filesVars, target, reply, sheet>>

ReadStep(r) ==
    \/ GetFile(r) \/ AnalyzeFile(r) \/ FileStatistics(r) \/ ToolRefuses(r)
    \/ Find(r) \/ FindNothing(r) \/ FindFails(r) \/ ReadBytes(r) \/ Compute(r)
    \/ (Reads(r) /\ (Below(r) \/ Dies(r)))

FilesStep ==
    \/ \E r \in Requests :
          ~Reads(r) /\ reply[r] = "none" /\ RequestStep(r) /\ UNCHANGED readVars
    \/ \E f \in Files : Expire(f) /\ UNCHANGED readVars

AnalysisNext == FilesStep \/ (\E r \in Requests : ReadStep(r)) \/ (\E f \in Files : Spoil(f))

AnalysisSpec == AnalysisInit /\ [][AnalysisNext]_analysisVars
-----------------------------------------------------------------------------
(* Properties.                                                              *)

\* A reader never gets at a file that was removed or had expired before it was
\* authenticated; and it is told that storage failed only where the bytes were
\* altered from outside, another request removed the file while it read, or an
\* upload that took its commit for failed had unlinked them.
ReadsAreHonest ==
    \A r \in Requests : Reads(r) =>
        /\ reply[r] \in {"found", "read", "served"} => WasLive(r)
        /\ reply[r] = "unavailable" =>
              File(r) \in spoilt \/ File(r) \notin rows \/ At(File(r)[1], "doubted")

\* The statistics that are served are exact for the whole table, and no table
\* that has them is refused; the deadline leaves no result behind.
StatisticsExact ==
    \A r \in Requests : sheet[r] # << >> => Exact(sheet[r][1], Column, sheet[r][2])

\* What readers are told is true, of the file and of what is in it.
AnswersAreTrue == ReadsAreHonest /\ StatisticsExact
=============================================================================
