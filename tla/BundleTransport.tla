--------------------------- MODULE BundleTransport ---------------------------
(***************************************************************************)
(* scripts/verify_backup_transport.py: publish puts a bundle that a backup *)
(* completed into a restic repository and reads it back; retrieve brings a *)
(* snapshot to a place where there is no bundle, for a restore.  Both are  *)
(* given the hash of the manifest they may take, the anchor.               *)
(*                                                                         *)
(* A manifest stands for its hash, and a content of DataRecovery for the   *)
(* bytes of a file.  The repository keeps what it was given; commands on   *)
(* it fail or bring part of a file.  Limits on size and number only refuse *)
(* more, as does the age of a bundle, and are left to TransferStops.       *)
(***************************************************************************)
EXTENDS DataRecovery, FiniteSets

CONSTANT MaxSnapshots    \* bound: snapshots in the repository

VARIABLES
    repository,   \* its snapshots, each with the files and the manifest
    anchor,       \* of the last publication that passed: whose manifest, and
                  \* (history) what the domains held then; << >> before
    transfer      \* the script that runs, or << >>

transportVars == <<repository, anchor, transfer>>

Manifests == [files : Contents, release : {"ours", "theirs"}]
Snapshots == [copies : Contents, manifest : Manifests]
Anchors == [manifest : Manifests, held : Contents \cup {<< >>}]

TransportTypeOK ==
    /\ repository \subseteq Snapshots /\ Cardinality(repository) <= MaxSnapshots
    /\ anchor = << >> \/ anchor \in Anchors
    /\ transfer = << >> \/
       transfer \in [purpose : {"publish", "retrieve"},
                     step : {"upload", "list", "manifest", "fetch", "validate", "promote"},
                     expected : Anchors,
                     snapshot : Snapshots \cup {<< >>},
                     stage : Contents \cup {<< >>}]

\* An empty deployment was published once, and its anchor is forgotten.
Earlier ==
    LET nothing == [d \in Domains |-> 0] IN
    [copies |-> nothing, manifest |-> [files |-> nothing, release |-> "ours"]]

TransportInit == repository = {Earlier} /\ anchor = << >> /\ transfer = << >>

Doing(step) == transfer # << >> /\ transfer.step = step
ContinueAt(step) == transfer' = [transfer EXCEPT !.step = step]

\* A command fails, or runs past its output or its time; or the script is killed.
\* Its staging directory is never taken for a bundle.
TransferStops ==
    /\ transfer # << >> /\ transfer' = << >>
    /\ UNCHANGED <<recoveryVars, repository, anchor>>
-----------------------------------------------------------------------------
(* publish                                                                  *)

\* validate: the manifest is the one named, and validate_bundle agrees.
PublishBegins ==
    /\ transfer = << >> /\ Valid
    /\ transfer' = [purpose |-> "publish", step |-> "upload",
                    expected |-> [manifest |-> manifest, held |-> saved],
                    snapshot |-> << >>, stage |-> << >>]
    /\ UNCHANGED <<recoveryVars, repository, anchor>>

\* restic reads the files as they are by now.
Upload ==
    /\ Doing("upload") /\ manifest # << >>
    /\ LET snapshot == [copies |-> copies, manifest |-> manifest] IN
       /\ repository' = repository \cup {snapshot}
       /\ Cardinality(repository') <= MaxSnapshots
       /\ transfer' = [transfer EXCEPT !.snapshot = snapshot, !.step = "list"]
    /\ UNCHANGED <<recoveryVars, anchor>>
-----------------------------------------------------------------------------
(* retrieve, which publish runs as well, into a directory of its own.       *)

\* The snapshot is whichever the operator names.
RetrieveBegins ==
    /\ transfer = << >> /\ copies = << >> /\ anchor # << >>
    /\ \E snapshot \in repository :
           transfer' = [purpose |-> "retrieve", step |-> "list", expected |-> anchor,
                        snapshot |-> snapshot, stage |-> << >>]
    /\ UNCHANGED <<recoveryVars, repository, anchor>>

\* The four files, nothing else, and sizes that add up.
ListSnapshot ==
    /\ Doing("list") /\ ContinueAt("manifest")
    /\ UNCHANGED <<recoveryVars, repository, anchor>>

\* Mutation: the manifest of the snapshot is believed.
BelieveManifest ==
    /\ Doing("manifest")
    /\ IF transfer.snapshot.manifest.release = "ours" THEN ContinueAt("fetch") ELSE transfer' = << >>
    /\ UNCHANGED <<recoveryVars, repository, anchor>>

\* The manifest is dumped by itself and has to be the one of the anchor.
CheckManifest ==
    /\ Doing("manifest")
    /\ IF transfer.snapshot.manifest = transfer.expected.manifest
       THEN ContinueAt("fetch") ELSE transfer' = << >>
    /\ UNCHANGED <<recoveryVars, repository, anchor>>

\* Each file is dumped into a staging directory beside the target; what arrives
\* may be damaged without an error.
Fetch ==
    /\ Doing("fetch")
    /\ LET files == transfer.snapshot.copies IN
       \E arrived \in {files} \cup {[files EXCEPT ![d] = Damaged] : d \in Domains} :
           transfer' = [transfer EXCEPT !.stage = arrived, !.step = "validate"]
    /\ UNCHANGED <<recoveryVars, repository, anchor>>

\* validate, on the staging directory.
ValidateStage ==
    /\ Doing("validate")
    /\ IF transfer.stage = transfer.snapshot.manifest.files
       THEN ContinueAt("promote") ELSE transfer' = << >>
    /\ UNCHANGED <<recoveryVars, repository, anchor>>

Place ==
    /\ copies' = transfer.stage /\ manifest' = transfer.snapshot.manifest
    /\ saved' = anchor.held

\* Mutation: a rename that replaces what is there.
PromoteOver ==
    /\ Doing("promote") /\ transfer.purpose = "retrieve"
    /\ transfer' = << >>
    /\ Place
    /\ UNCHANGED <<data, job, began, meddled, restored, repository, anchor>>

\* _promote: the rename fails if something has appeared at the target.
Promote ==
    /\ Doing("promote") /\ transfer.purpose = "retrieve"
    /\ transfer' = << >>
    /\ IF copies = << >> THEN Place ELSE UNCHANGED <<copies, manifest, saved>>
    /\ UNCHANGED <<data, job, began, meddled, restored, repository, anchor>>

\* The directory is the script's own; what came back is compared with what was sent.
PublishEnds ==
    /\ Doing("promote") /\ transfer.purpose = "publish"
    /\ transfer' = << >>
    /\ anchor' = transfer.expected
    /\ UNCHANGED <<recoveryVars, repository>>

TransportStep ==
    \/ PublishBegins \/ Upload \/ RetrieveBegins \/ ListSnapshot \/ CheckManifest
    \/ Fetch \/ ValidateStage \/ Promote \/ PublishEnds \/ TransferStops
=============================================================================
