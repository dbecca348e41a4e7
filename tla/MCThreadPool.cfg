SPECIFICATION FairSpec
CONSTANTS
    Clients = {c1, c2}
    Threads = {t1, t2}
    Calls <- LoopCalls
    IntMod = 32
    NoTask = NoTask
INVARIANTS NothingLeftBehind EachIndexOnce
PROPERTY CallsReturn
