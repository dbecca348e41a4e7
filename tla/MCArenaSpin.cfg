SPECIFICATION FairSpec
CONSTANTS
    kMinAllocationSize = 2
    kNumBins = 3
    kMaxInternalFragmentation = 8
    kInitialRegion = 8
    memory_limit = 80
    SizeMod = 65536
    AddrSpace = 8
    DeviceBases = {0}
    AllocSizes = {1, 5}
    ReserveSizes = {}
PROPERTY ExtendReturns
