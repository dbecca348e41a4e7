SPECIFICATION Spec
CONSTANTS
    Values = {v1, v2, v3, v4, v5}
    Sizes = {0, 1, 2, 3}
SYMMETRY Symmetry
INVARIANTS TypeOK BlocksSorted PatternKeepsApart PatternFitsPeak
CHECK_DEADLOCK FALSE
