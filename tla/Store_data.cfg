SPECIFICATION Spec
CONSTANTS
    NoEntry = NoEntry
    NoData = NoData
    None = None
    worker = worker
    otherWorker = otherWorker
    handler = handler
    Writers <- OneWorker
    Readers <- OneHandler
    Keys = {"k"}
    Fields = {"config", "jwks"}
    Contents = {0, 1}
    Zero = 0
    Buffers <- TenBuffers
    FirstOwn <- OwnDocuments
INVARIANT
    TypeOK
PROPERTY
    IsAtomicMap
