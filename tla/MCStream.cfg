SPECIFICATION FairSpec
CONSTANTS
    Requests = {r1, r2}
    RequestSizes <- MCRequestSizes
    ChunkSizes <- MCChunkSizes
    ErrorSizes <- MCErrorSizes
    MaxChunks = 2
    MaxLost = 1
    Nobody = Nobody
INVARIANTS
    TypeOK
    UnsharedResponse
    ChunksOnceInOrder
    ForwarderStopsWithConn
PROPERTY
    EveryRequestReturns
