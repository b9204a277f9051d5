SPECIFICATION FlushSpec
CONSTANTS
    alice = alice
    bob = bob
    carol = carol
    a1 = a1
    a2 = a2
    b1 = b1
    c1 = c1
    Users <- TwoUsers
    Runs <- ThreeRuns
    Owner <- ThreeOwner
    SyncRuns = {a1}
    GlobalLimit = 2
    UserLimit = 1
    TTL = 4
    RunTimeout = 2
    WaitWindow = 1
    CleanupGrace = 1
    MaxDepth = 0
INVARIANTS
    RegisteredTogether
PROPERTIES
    SlotReclaimed
    WaiterAnswered
