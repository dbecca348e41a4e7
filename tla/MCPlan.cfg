SPECIFICATION Spec
CONSTANTS
    Graphs <- AllGraphs
    NoValue = NoValue
INVARIANTS InputsIntact CallerDataIntact OutputsApart BuffersLive LaterDeathsReleased
