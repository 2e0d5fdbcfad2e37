CONSTANTS
    MaxCidrs = 8
    MaxWorkers = 3
    MaxRate = 3
    Host = {1, 2}
    Port = {443, 8443}
    BatchSize = 2
    ChanSize = 1
    MaxFails = 1
    MaxChunk = 2
SPECIFICATION Spec
CHECK_DEADLOCK FALSE
INVARIANT TypeOK
INVARIANT ChunksPartition
INVARIANT NearShare
INVARIANT FoundIsStored
INVARIANT OneRowPerAddress
PROPERTY ChunkIsReported
ACTION_CONSTRAINT FoundInOrder
