CONSTANTS
    fastapi = fastapi
    bootstrap = bootstrap
    Processes = {fastapi, bootstrap}
    EndOf <- MCEndOf
    Repeatable <- MCRepeatable
    MaxWrites = 1
    MaxSnapshots = 2
SPECIFICATION DeploymentSpec
CONSTRAINT StartsOrRecovery
INVARIANTS
    StaysIdentifiable
    UpMeansHead
    RestoredIsTheBackup
PROPERTIES
    ForeignUntouched
    NothingOverwritten

