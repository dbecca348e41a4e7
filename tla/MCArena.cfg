SPECIFICATION FairSpec
CONSTANTS
    kMinAllocationSize = 2
    kNumBins = 5
    kMaxInternalFragmentation = 14
    kInitialRegion = 18
    memory_limit = 54
    SizeMod = 65536
    AddrSpace = 62
    DeviceBases = {0, 38}
    AllocSizes = {11, 19}
    ReserveSizes = {7}
INVARIANTS TypeOK ListsTileRegions Coalesced IndexesExact StatsExact BestFit
PROPERTIES ImplementsAllocator ExtendReturns
