SPECIFICATION Spec
CONSTANTS
    Threads = {t1, t2}
    Values <- MCValues
    Locations <- MCLocations
    Location <- MCLocation
    AllocKind <- MCAllocKind
    ReusedBuffer <- MCReusedBuffer
    ExecPlan <- MCExecPlan
    Inputs <- MCInputs
    Shapes <- MCShapes
    AllTensors <- MCAllTensors
    Strings <- MCStrings
    SizeOf <- MCSizeOf
    Providers <- MCProviders
    Contexts = {1, 2}
    Events = {1, 2, 3}
    Buffers = {1, 2, 3}
    MaxRuns = 3
    PinnedNodes = {1}
    Invalid = Invalid
    Empty = Empty
INVARIANTS
    RunsOnlyWhenReady RunsCounted UnrecordedExplained
    InFlightHeld ContextsExclusive BlocksApart PatternServesItsInput
SYMMETRY ThreadSymmetry
CHECK_DEADLOCK FALSE
