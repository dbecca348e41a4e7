SPECIFICATION Spec
CONSTANTS
    a = a
    b = b
    c = c
    d = d
    r = r
    t1 = t1
    t2 = t2
    t3 = t3
    NoNode = NoNode
    NoThread = NoThread
    Nodes <- MCNodes
    Edges <- MCEdges
    Threads <- MCThreads
INVARIANT NotifyFindsExecutor
