SPECIFICATION FairSpec
CONSTANTS
    bulk = bulk
    Helpers = {"groupKey"}
    Endpoints <- MCEndpoints
    Tasks = {"MM", "ME"}
    ChunkCap = 1
    AckCap = 1
    MaxCommands = 2
    MaxStrays = 1
INVARIANT TypeOK
INVARIANT PumpsQuiesced
INVARIANT AcksSound
PROPERTY WriteEnds
PROPERTY CloseReturns
CHECK_DEADLOCK FALSE
