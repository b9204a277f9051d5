----------------------------- MODULE Deployment -----------------------------
(***************************************************************************)
(* The services of docker-config/docker-compose.yml over one database and  *)
(* two volumes: fastapi and the script bootstrap_admin prepare the schema  *)
(* when they start (SchemaStartup), langgraph only uses it, the frontend   *)
(* waits until both are healthy, docker restarts what died by itself, and  *)
(* an operator backs up and restores (DataRecovery) and takes the bundle   *)
(* through a repository (BundleTransport).                                 *)
(***************************************************************************)
EXTENDS SchemaStartup, BundleTransport

CONSTANTS fastapi, bootstrap

ASSUME DeploymentAssumption == Processes = {fastapi, bootstrap} /\ fastapi # bootstrap

Services == {"fastapi", "langgraph", "frontend"}

VARIABLE service      \* how docker inspects each container

deploymentVars == <<schemaVars, recoveryVars, transportVars, service>>

\* "stopped" has exit code 0, the others not; only "crashed" is restarted.
States == {"up", "stopped", "killed", "crashed"}

DeploymentTypeOK ==
    /\ SchemaTypeOK /\ RecoveryTypeOK /\ TransportTypeOK
    /\ service \in [Services -> States]
    /\ (service["fastapi"] = "up") = (pc[fastapi] # "down")

\* A database the deployment is pointed at may hold rows of users already.
DeploymentInit ==
    /\ SchemaInit /\ RecoveryInit /\ TransportInit
    /\ service = [s \in Services |-> "stopped"]

Enter(s, state) == service' = [service EXCEPT ![s] = state]
Scripts == pc[bootstrap] # "down"
StartUnderWay == \E p \in Processes : Starting(p)

\* Whoever was started by hand while a script ran is still there.
StillThere == meddled /\ \E p \in Processes : pc[p] # "down"
NoTables == applied = 0 /\ ~versioned

\* Mutation: the exit code is not looked at.
NoneRunning == \A s \in Services : service[s] # "up"

\* _require_writers_stopped
WritersStopped == \A s \in Services : service[s] = "stopped"
-----------------------------------------------------------------------------
(* readiness.py and the health checks of the containers.                    *)

\* _check_migration, once it is connected
AtHead == versions = {Newest}

Components == {"model", "database", "migration", "redis", "managed_files"}

\* A probe that raises makes its own component unavailable and no other.  All but
\* one look at what is not in the model and end as they like.
Results ==
    {result \in [Components -> {"ready", "unavailable"}] : result["migration"] = "ready" => AtHead}

IsReady(result) == \A c \in Components : result[c] = "ready"

Healthy(s) ==
    /\ service[s] = "up"
    /\ s = "fastapi" => pc[fastapi] = "ready"
    /\ \E result \in Results : IsReady(result)
-----------------------------------------------------------------------------
(* Services.                                                                *)

\* Docker restarts what crashed; an operator starts what is not up.
ByHand(s) == meddled' = (meddled \/ (service[s] # "crashed" /\ job # "none"))

FastapiBegins ==
    /\ Begin(fastapi)
    /\ Enter("fastapi", "up")
    /\ ByHand("fastapi")
    /\ UNCHANGED <<data, Bundle, job, began, saved, restored, transportVars>>

\* uvicorn stops when init_db raises; a request to stop may end in a kill.
FastapiStep ==
    /\ StartStep(fastapi) /\ pc[fastapi] # "down"
    /\ \/ pc'[fastapi] # "down" /\ UNCHANGED service
       \/ pc'[fastapi] = "down" /\ \E state \in {"killed", "crashed"} : Enter("fastapi", state)
       \/ Stop(fastapi) /\ Enter("fastapi", "stopped")
    /\ UNCHANGED <<recoveryVars, transportVars>>

BootstrapStep ==
    /\ StartStep(bootstrap)
    /\ meddled' = (meddled \/ job # "none")
    /\ UNCHANGED <<service, data, Bundle, job, began, saved, restored, transportVars>>

\* depends_on does not hold langgraph back until the schema is there.
OtherStarts(s) ==
    /\ s # "fastapi" /\ service[s] # "up"
    /\ s = "frontend" /\ service[s] # "crashed" => Healthy("fastapi") /\ Healthy("langgraph")
    /\ Enter(s, "up")
    /\ ByHand(s)
    /\ UNCHANGED <<schemaVars, data, Bundle, job, began, saved, restored, transportVars>>

OtherStops(s) ==
    /\ s # "fastapi" /\ service[s] = "up"
    /\ \E state \in States \ {"up"} : Enter(s, state)
    /\ UNCHANGED <<schemaVars, recoveryVars, transportVars>>

\* fastapi serves when it is ready; langgraph as soon as it is up.
ServiceWrites ==
    /\ \/ pc[fastapi] = "ready" /\ applied = Last /\ \E d \in {"mysql", "managed"} : WriteData(d)
       \/ service["langgraph"] = "up" /\ WriteData("langgraph")
    /\ UNCHANGED <<schemaVars, transportVars, service>>

BootstrapWrites ==
    /\ pc[bootstrap] = "ready" /\ applied = Last /\ WriteData("mysql")
    /\ UNCHANGED <<schemaVars, transportVars, service>>
-----------------------------------------------------------------------------
(* The operator.                                                            *)

RecoveryStep ==
    /\ \/ BackupBegins(WritersStopped, Scripts) \/ CheckRuntime \/ MakeBundle
       \/ CheckRevision(AtHead) \/ CopyDomain \/ WriteManifest \/ ValidateBackup
       \/ RestoreBegins(Scripts \/ StillThere) \/ CheckWriters(WritersStopped) \/ CheckEmpty(NoTables)
       \/ ExtractVolume \/ JobStops \/ AlterBundle
    /\ UNCHANGED <<schemaVars, transportVars, service>>

\* The dump drops and creates the tables of the head, version table first.
RestoreDatabase ==
    /\ LoadDatabase
    /\ applied' = Last /\ versioned' = TRUE /\ versions' = {Newest}
    /\ known' = TRUE /\ disturbed' = (disturbed \/ StartUnderWay)
    /\ UNCHANGED <<pc, revision, done, transportVars, service>>

RestorePart ==
    /\ LoadPart
    /\ applied' \in {applied, Last, Other}
    /\ versioned' = TRUE /\ versions' \in {{}, {Newest}}
    /\ known' = (Identifiable' \/ StartUnderWay) /\ disturbed' = (disturbed \/ StartUnderWay)
    /\ UNCHANGED <<pc, revision, done, transportVars, service>>

\* A new project: an empty database and empty volumes, the containers created.
NewTarget ==
    /\ job = "none"
    /\ service = [s \in Services |-> "stopped"] /\ pc[bootstrap] = "down"
    /\ data' = [d \in Domains |-> 0] /\ restored' = << >>
    /\ applied' = 0 /\ versioned' = FALSE /\ versions' = {}
    /\ known' = TRUE /\ disturbed' = FALSE
    /\ UNCHANGED <<pc, revision, done, service, Bundle, job, Notes, transportVars>>

Transport == TransportStep /\ UNCHANGED <<schemaVars, service>>

DeploymentNext ==
    \/ FastapiBegins \/ FastapiStep \/ BootstrapStep
    \/ \E s \in Services : OtherStarts(s) \/ OtherStops(s)
    \/ ServiceWrites \/ BootstrapWrites
    \/ RecoveryStep \/ RestoreDatabase \/ RestorePart \/ NewTarget
    \/ Transport

DeploymentSpec == DeploymentInit /\ [][DeploymentNext]_deploymentVars
-----------------------------------------------------------------------------
(* Properties.                                                              *)

\* A restore that completes leaves what the services held when the backup began:
\* one moment of all three domains, however the services died or were restarted
\* meanwhile, what became of the bundle in storage, in the repository and on its
\* way, and how often either was interrupted, if nobody started a service by hand
\* or altered the bundle during either: a restore reads what it validated first.
RestoredIsTheBackup ==
    restored # << >> => data = restored

\* From its look at the containers on, a restore and whatever else still happens
\* change no domain that holds something: neither what was there nor what the
\* restore has already put back is written over.  Nor is a bundle that appears
\* where a retrieval is about to put one.
NothingOverwritten ==
    [][/\ (job \in Restoring \ {"writers"} /\ ~meddled') =>
             \A d \in Domains : data[d] # 0 => data'[d] = data[d]
       /\ (Transport /\ copies # << >>) => UNCHANGED Bundle]_deploymentVars

\* A database that no start recognises keeps its tables and its version until
\* the target is replaced: no start stamps, upgrades or repairs it, however many
\* there are at once, and no restore loads into it.
ForeignUntouched == [][~known => UNCHANGED schema \/ NewTarget]_deploymentVars

\* Whoever is up works on the tables of the head, even when two starts raced to
\* it; and readiness agrees, unless they did or one was cut short.
UpMeansHead ==
    ~meddled => \A p \in Processes : pc[p] = "ready" =>
        applied = Last /\ (~disturbed => AtHead)
=============================================================================
