---------------------------- MODULE DataRecovery ----------------------------
(***************************************************************************)
(* scripts/data_recovery.py: a backup copies the database and two volumes  *)
(* into a bundle whose manifest is written last, and a restore puts them   *)
(* into empty ones.  Each is a sequence of docker commands, between which  *)
(* the services may stop, be restarted by docker or be started by someone. *)
(*                                                                         *)
(* What a domain holds is a number that grows with every write; 0 is       *)
(* nothing.  The tables of the database belong to SchemaStartup, which a   *)
(* composition connects to the two restoring steps on them.                *)
(***************************************************************************)
EXTENDS Naturals

CONSTANT MaxWrites    \* bound: writes to each domain

ASSUME RecoveryAssumption == MaxWrites \in Nat

Volumes == {"langgraph", "managed"}
Domains == Volumes \cup {"mysql"}
Contents == [Domains -> 0..MaxWrites + 1]
Damaged == MaxWrites + 1      \* part of a domain, or of its copy

VARIABLES
    data,       \* what each domain holds
    copies,     \* what the bundle holds of each; << >> when there is no bundle
    manifest,   \* whose digests it lists: [files, release], or << >>
    job,        \* where the script is
    began,      \* history: what the domains held when the backup under way began
    saved,      \* history: the same, of the backup that completed the bundle
    meddled,    \* history: a service was started by hand, or the bundle altered,
                \* while a script ran
    restored    \* history: what the bundle of the last restore promised, while
                \* nothing has changed since and nobody meddled; else << >>

recoveryVars == <<data, copies, manifest, job, began, saved, meddled, restored>>

Backing == {"runtime", "destination", "revision", "dump", "tar_langgraph",
            "tar_managed", "manifest", "validate"}
Restoring == {"writers", "empty", "load", "extract_langgraph", "extract_managed"}

RecoveryTypeOK ==
    /\ data \in Contents
    /\ copies = << >> \/ copies \in Contents
    /\ manifest = << >> \/ manifest \in [files : Contents, release : {"ours", "theirs"}]
    /\ job \in {"none"} \cup Backing \cup Restoring
    /\ began = << >> \/ began \in Contents
    /\ saved = << >> \/ saved \in Contents
    /\ restored = << >> \/ restored \in Contents
    /\ meddled \in BOOLEAN

RecoveryInit ==
    /\ data = [d \in Domains |-> 0]
    /\ copies = << >> /\ manifest = << >>
    /\ job = "none"
    /\ began = << >> /\ saved = << >>
    /\ restored = << >> /\ meddled = FALSE

Bundle == <<copies, manifest>>
Notes == <<began, saved, meddled>>

JobTo(next) ==
    /\ job' = next
    /\ began' = IF next = "none" THEN << >> ELSE began
Noted == <<saved, meddled>>

\* A service that runs changes what it holds, beside whatever script.
WriteData(d) ==
    /\ data[d] < MaxWrites
    /\ data' = [data EXCEPT ![d] = @ + 1]
    /\ restored' = << >>
    /\ UNCHANGED <<Bundle, job, Notes>>

\* The bundle is damaged in storage, removed, or one of another release.  A script
\* at work on it does not notice: it was validated once, before anything else.
AlterBundle ==
    /\ copies # << >>
    /\ \/ \E d \in Domains : copies' = [copies EXCEPT ![d] = Damaged] /\ UNCHANGED manifest
       \/ copies' = << >> /\ manifest' = << >>
       \/ /\ manifest # << >>
          /\ manifest' = [manifest EXCEPT !.release = "theirs"]
          /\ UNCHANGED copies
    /\ meddled' = (meddled \/ job # "none")
    /\ UNCHANGED <<data, job, began, saved, restored>>

\* parse_manifest and validate_bundle: every file is there, in its size and with
\* its digest, and the locks of the two releases agree.
Valid ==
    /\ manifest # << >> /\ manifest.release = "ours"
    /\ copies = manifest.files

\* Any command may fail or run into its timeout, and the script may be killed:
\* it leaves what it has done, and part of what it was doing.
JobStops ==
    /\ job # "none"
    /\ JobTo("none")
    /\ UNCHANGED <<data, Bundle, Noted, restored>>

-----------------------------------------------------------------------------
(* backup                                                                   *)

\* A script of another kind that runs already counts as started by hand.
BackupBegins(stopped, scripts) ==
    /\ job = "none" /\ stopped
    /\ job' = "runtime"
    /\ began' = data /\ meddled' = scripts
    /\ UNCHANGED <<data, Bundle, saved, restored>>

\* _source_runtime: the images are built from these sources, which only a
\* failing job tells from others.
CheckRuntime ==
    /\ job = "runtime" /\ JobTo("destination")
    /\ UNCHANGED <<data, Bundle, Noted, restored>>

MakeBundle ==
    /\ job = "destination"
    /\ IF copies = << >>
       THEN JobTo("revision") /\ copies' = [d \in Domains |-> 0]
       ELSE JobTo("none") /\ UNCHANGED copies
    /\ UNCHANGED <<data, manifest, Noted, restored>>

CheckRevision(atHead) ==
    /\ job = "revision"
    /\ JobTo(IF atHead THEN "dump" ELSE "none")
    /\ UNCHANGED <<data, Bundle, Noted, restored>>

\* Where the directory is gone no file is written, nor read by a restore.
Copy(from, d, next) ==
    /\ job = from /\ copies # << >>
    /\ \/ copies' = [copies EXCEPT ![d] = data[d]] /\ JobTo(next)
       \/ copies' = [copies EXCEPT ![d] = Damaged] /\ JobTo("none")
    /\ UNCHANGED <<data, manifest, Noted, restored>>

CopyDomain ==
    \/ Copy("dump", "mysql", "tar_langgraph")
    \/ Copy("tar_langgraph", "langgraph", "tar_managed")
    \/ Copy("tar_managed", "managed", "manifest")

WriteManifest ==
    /\ job = "manifest" /\ copies # << >>
    /\ manifest' = [files |-> copies, release |-> "ours"]
    /\ saved' = IF meddled THEN << >> ELSE began
    /\ JobTo("validate")
    /\ UNCHANGED <<data, copies, meddled, restored>>

ValidateBackup ==
    /\ job = "validate" /\ Valid /\ JobTo("none")
    /\ UNCHANGED <<data, Bundle, Noted, restored>>
-----------------------------------------------------------------------------
(* restore                                                                  *)

RestoreBegins(scripts) ==
    /\ job = "none" /\ Valid
    /\ JobTo("writers")
    /\ meddled' = scripts
    /\ UNCHANGED <<data, Bundle, saved, restored>>

CheckWriters(stopped) ==
    /\ job = "writers"
    /\ JobTo(IF stopped THEN "empty" ELSE "none")
    /\ UNCHANGED <<data, Bundle, Noted, restored>>

\* Mutation: the volumes are not looked into.
CheckDatabaseEmpty(noTables) ==
    /\ job = "empty"
    /\ JobTo(IF noTables THEN "load" ELSE "none")
    /\ UNCHANGED <<data, Bundle, Noted, restored>>

\* SHOW TABLES, and find in each volume; then the runtime of the target.
CheckEmpty(noTables) ==
    /\ job = "empty"
    /\ JobTo(IF noTables /\ \A d \in Volumes : data[d] = 0 THEN "load" ELSE "none")
    /\ UNCHANGED <<data, Bundle, Noted, restored>>

\* mysql reads the dump, or stops in the middle of it.
LoadDatabase ==
    /\ job = "load" /\ copies # << >>
    /\ data' = [data EXCEPT !["mysql"] = copies["mysql"]]
    /\ JobTo("extract_langgraph")
    /\ UNCHANGED <<Bundle, Noted, restored>>

LoadPart ==
    /\ job = "load" /\ copies # << >>
    /\ data' = [data EXCEPT !["mysql"] = Damaged]
    /\ JobTo("none")
    /\ UNCHANGED <<Bundle, Noted, restored>>

Extract(from, d, next) ==
    /\ job = from /\ copies # << >>
    /\ \/ /\ data' = [data EXCEPT ![d] = copies[d]] /\ JobTo(next)
          /\ restored' = IF next = "none" /\ ~meddled THEN saved ELSE << >>
       \/ data' = [data EXCEPT ![d] = Damaged] /\ JobTo("none") /\ restored' = << >>
    /\ UNCHANGED <<Bundle, Noted>>

ExtractVolume ==
    \/ Extract("extract_langgraph", "langgraph", "extract_managed")
    \/ Extract("extract_managed", "managed", "none")
=============================================================================
