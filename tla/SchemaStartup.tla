---------------------------- MODULE SchemaStartup ----------------------------
(***************************************************************************)
(* _prepare_database (data_agent/config/database.py): a process that       *)
(* starts identifies the schema it finds, stamps one that is older than    *)
(* the version table, and upgrades it to the head.  The processes are the  *)
(* containers and scripts that start over one MySQL database; the lock of  *)
(* the module only keeps the threads of one of them apart.                 *)
(*                                                                         *)
(* The migrations are one sequence of DDL statements, of which the schema  *)
(* has a prefix; MySQL commits every one of them by itself, and the row of *)
(* alembic_version is written when the statements of a revision are done.  *)
(***************************************************************************)
EXTENDS Naturals, Sequences, FiniteSets

CONSTANTS
    Processes,
    EndOf,        \* statements up to and including each revision
    Repeatable    \* statements that succeed on a schema that has them

Newest == Len(EndOf)
Revisions == 1..Newest
Last == EndOf[Newest]

ASSUME SchemaAssumption ==
    /\ EndOf \in Seq(Nat \ {0}) /\ EndOf # << >>
    /\ \A i, j \in Revisions : i < j => EndOf[i] < EndOf[j]
    /\ Repeatable \subseteq 1..Last

Other == Last + 1     \* tables, views or triggers no prefix explains
Unknown == Newest + 1   \* a revision this release does not know
End(k) == IF k = 0 THEN 0 ELSE EndOf[k]

VARIABLES
    applied,     \* statements the schema has, or Other
    versioned,   \* the table alembic_version exists
    versions,    \* its rows
    pc,          \* where each process is
    revision,    \* the revision it has read or reached; 0 is none
    done,        \* the last statement it has executed or found done
    known,       \* history: the schema was identifiable when it was last set up,
                 \* or was set up under a start
    disturbed    \* history: a start was cut short, or overlapped with another or
                 \* with what set the schema up

schema == <<applied, versioned, versions>>
schemaVars == <<schema, pc, revision, done, known, disturbed>>

\* What a start makes of the database as it is.
Identifiable ==
    \/ ~versioned /\ applied \in {0, EndOf[1]}
    \/ versioned /\ \E k \in Revisions : versions = {k} /\ applied = EndOf[k]

Identifying == {"listing", "versions", "comparing", "legacy"}
Writing == {"stamping", "stamp_table", "stamp_row", "upgrading", "upgrade_table", "running"}

SchemaTypeOK ==
    /\ applied \in 0..Other /\ versioned \in BOOLEAN
    /\ versions \subseteq 1..Unknown /\ (versions # {} => versioned)
    /\ pc \in [Processes -> {"down", "ready"} \cup Identifying \cup Writing]
    /\ revision \in [Processes -> 0..Newest]
    /\ done \in [Processes -> 0..Last]

\* Databases an operator may point the service at: empty, of some release, left
\* behind by an interrupted start, or of something else.
SchemaInit ==
    /\ applied \in 0..Other
    /\ versioned \in BOOLEAN
    /\ versions \in {{}} \cup {{k} : k \in 1..Unknown}
    /\ versions # {} => versioned
    /\ pc = [p \in Processes |-> "down"]
    /\ revision = [p \in Processes |-> 0]
    /\ done = [p \in Processes |-> 0]
    /\ known = Identifiable
    /\ disturbed = FALSE

Starting(p) == pc[p] \in Identifying \cup Writing

To(p, next) ==
    /\ pc' = [pc EXCEPT ![p] = next]
    /\ disturbed' = (disturbed \/ \E q \in Processes \ {p} : Starting(q))
    /\ UNCHANGED known

Keep == UNCHANGED <<revision, done>>

\* The process ends and what it had read is gone.
Exit(p) ==
    /\ pc' = [pc EXCEPT ![p] = "down"]
    /\ revision' = [revision EXCEPT ![p] = 0]
    /\ done' = [done EXCEPT ![p] = 0]
    /\ UNCHANGED <<schema, known>>
-----------------------------------------------------------------------------
(* Identification.                                                          *)

Begin(p) ==
    /\ pc[p] = "down"
    /\ To(p, "listing") /\ Keep /\ UNCHANGED schema

\* UnknownDatabaseSchemaError: the process exits and has written nothing.
Refuse(p) == Exit(p) /\ UNCHANGED disturbed

ListTables(p) ==
    /\ pc[p] = "listing"
    /\ To(p, IF versioned THEN "versions"
             ELSE IF applied > 0 THEN "legacy" ELSE "upgrading")
    /\ Keep /\ UNCHANGED schema

ReadVersions(p) ==
    /\ pc[p] = "versions"
    /\ \/ \E k \in Revisions :
             /\ versions = {k}
             /\ revision' = [revision EXCEPT ![p] = k]
             /\ To(p, "comparing")
             /\ UNCHANGED <<schema, done>>
       \/ (\A k \in Revisions : versions # {k}) /\ Refuse(p)

\* Mutation: the version row is believed.
CompareNothing(p) ==
    /\ pc[p] = "comparing"
    /\ To(p, "upgrading") /\ Keep /\ UNCHANGED schema

\* ensure_revision_schema: the tables against those the migrations up to the
\* revision create in an empty database.
Compare(p) ==
    /\ pc[p] = "comparing"
    /\ IF applied = EndOf[revision[p]]
       THEN To(p, "upgrading") /\ Keep /\ UNCHANGED schema
       ELSE Refuse(p)

\* Mutation: tables without a version are taken for the first release.
CompareAnyLegacy(p) ==
    /\ pc[p] = "legacy"
    /\ To(p, "stamping") /\ Keep /\ UNCHANGED schema

CompareLegacy(p) ==
    /\ pc[p] = "legacy"
    /\ IF applied = EndOf[1]
       THEN To(p, "stamping") /\ Keep /\ UNCHANGED schema
       ELSE Refuse(p)
-----------------------------------------------------------------------------
(* command.stamp and command.upgrade, as Alembic runs them over MySQL.      *)

\* The version row is read when the command starts; two rows are an error.
ReadHeads(p) ==
    /\ pc[p] \in {"stamping", "upgrading"}
    /\ Cardinality(versions) <= 1
    /\ LET k == IF versions = {} THEN 0 ELSE CHOOSE v \in versions : TRUE IN
       /\ k <= Newest
       /\ revision' = [revision EXCEPT ![p] = k]
       /\ done' = [done EXCEPT ![p] = End(k)]
       /\ To(p, CASE pc[p] = "stamping" /\ k = 0 -> "stamp_table"
                  [] pc[p] = "stamping" /\ k # 0 -> "stamp_row"
                  [] pc[p] = "upgrading" /\ k = 0 -> "upgrade_table"
                  [] OTHER -> "running")
    /\ UNCHANGED schema

CreateVersionTable(p) ==
    /\ pc[p] \in {"stamp_table", "upgrade_table"}
    /\ versioned' = TRUE
    /\ To(p, IF pc[p] = "stamp_table" THEN "stamp_row" ELSE "running")
    /\ Keep /\ UNCHANGED <<applied, versions>>

\* An INSERT, or an UPDATE of the row that was read; either may no longer fit.
RowFits(p) == IF revision[p] = 0 THEN 1 \notin versions ELSE revision[p] \in versions

StampRow(p) ==
    /\ pc[p] = "stamp_row" /\ RowFits(p)
    /\ versions' = (versions \ {revision[p]}) \cup {1}
    /\ To(p, "upgrading")
    /\ Keep /\ UNCHANGED <<applied, versioned>>

Following(p) == done[p] + 1

\* A statement another start has executed fails, unless it can be repeated.
Execute(p) ==
    /\ pc[p] = "running" /\ revision[p] < Newest
    /\ Following(p) <= EndOf[revision[p] + 1]
    /\ \/ applied = done[p] /\ applied' = Following(p)
       \/ applied >= Following(p) /\ Following(p) \in Repeatable /\ UNCHANGED applied
    /\ done' = [done EXCEPT ![p] = Following(p)]
    /\ To(p, "running")
    /\ UNCHANGED <<versioned, versions, revision>>

RevisionDone(p) ==
    pc[p] = "running" /\ revision[p] < Newest /\ done[p] = EndOf[revision[p] + 1]

\* Mutation: the last revision is not recorded.
SetVersionButLast(p) ==
    /\ RevisionDone(p) /\ RowFits(p)
    /\ versions' = IF revision[p] + 1 = Newest THEN versions
                   ELSE (versions \ {revision[p]}) \cup {revision[p] + 1}
    /\ revision' = [revision EXCEPT ![p] = @ + 1]
    /\ To(p, "running")
    /\ UNCHANGED <<applied, versioned, done>>

SetVersion(p) ==
    /\ RevisionDone(p) /\ RowFits(p)
    /\ versions' = (versions \ {revision[p]}) \cup {revision[p] + 1}
    /\ revision' = [revision EXCEPT ![p] = @ + 1]
    /\ To(p, "running")
    /\ UNCHANGED <<applied, versioned, done>>

Ready(p) ==
    /\ pc[p] = "running" /\ revision[p] = Newest
    /\ To(p, "ready") /\ Keep /\ UNCHANGED schema

\* The process is killed, loses the database or gets an error from it: what was
\* committed stays.  Whoever only reads leaves nothing to be found.
Die(p) ==
    /\ Starting(p)
    /\ Exit(p)
    /\ disturbed' = (disturbed \/ pc[p] \in Writing)

\* A service that is up is stopped, or a script has finished.
Stop(p) == pc[p] = "ready" /\ Exit(p) /\ UNCHANGED disturbed

StartStep(p) ==
    \/ Begin(p) \/ ListTables(p) \/ ReadVersions(p) \/ Compare(p) \/ CompareLegacy(p)
    \/ ReadHeads(p) \/ CreateVersionTable(p) \/ StampRow(p)
    \/ Execute(p) \/ SetVersion(p) \/ Ready(p) \/ Die(p) \/ Stop(p)

SchemaNext == \E p \in Processes : StartStep(p)

SchemaSpec == SchemaInit /\ [][SchemaNext]_schemaVars
-----------------------------------------------------------------------------
(* Properties.                                                              *)

\* A database that could be identified can be identified again whenever no start
\* is under way, unless one was cut short while it wrote or two overlapped.
StaysIdentifiable ==
    known /\ ~disturbed /\ (\A p \in Processes : ~Starting(p)) => Identifiable
=============================================================================
