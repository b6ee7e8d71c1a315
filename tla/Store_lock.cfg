SPECIFICATION FairSpec
CONSTANTS
    NoEntry = NoEntry
    NoData = NoData
    None = None
    worker = worker
    otherWorker = otherWorker
    handler = handler
    Writers <- TwoWorkers
    Readers <- OneHandler
    Keys = {"k"}
    Fields = {"bundle"}
    Contents = {0}
    Zero = 0
    Buffers <- SevenBuffers
    FirstOwn <- OwnBundles
INVARIANTS
    MapAccessExclusive
    WaitsEnd
PROPERTY
    CallsReturn
