SPECIFICATION Spec
CONSTANTS
    NoEntry = NoEntry
    NoData = NoData
    None = None
    worker = worker
    otherWorker = otherWorker
    handler = handler
    Writers <- OneWorker
    Readers <- OneHandler
    Keys = {"k", "l"}
    Fields = {"config", "jwks"}
    Contents = {0}
    Zero = 0
    Buffers <- TwelveBuffers
    FirstOwn <- OwnDocuments
INVARIANT
    Isolated
