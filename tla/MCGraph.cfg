SPECIFICATION Spec
CONSTANTS
    Models <- MCModels
    Level1 <- MCLevel1
    Claimable <- MCClaimable
    Steps = 10
INVARIANTS SortDecidesAcyclicity OrdersRespectEdges EdgesFollowDefs NothingThrows
    OutputsPreserved MemoryPlacement PlacedWhereItRuns
CHECK_DEADLOCK FALSE
