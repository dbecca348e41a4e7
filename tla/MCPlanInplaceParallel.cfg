SPECIFICATION Spec
CONSTANTS
    Graphs <- TwoReaders
    NoValue = NoValue
INVARIANT InputsIntact
