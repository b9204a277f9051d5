SPECIFICATION VerifierSpec
CONSTANTS
    u1 = u1
    u2 = u2
    u3 = u3
    c1 = c1
    c2 = c2
    Nobody = Nobody
    Users <- MCUsers
    Tokens <- MCTokens
    Clients <- MCClients
    script = c1
    Guests <- MCGuests
    GuestThreads <- MCGuestThreads
    MaxThreads <- MCThreads
    MaxChunks <- MCChunks
    RequestMax <- MCRequestMax
    FileMax <- MCFileMax
    ChunkMax <- MCChunkMax
    SizeMax <- MCSizeMax
CONSTRAINT Small
INVARIANTS
    CleanEnd
    StreamFaithful
    TenantsApart
    UploadsWhole
    ScriptsSatisfied
PROPERTIES
    BothEnd
CHECK_DEADLOCK FALSE
