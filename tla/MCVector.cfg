CONSTANTS
    Items = {a, b}
    NULL = NULL
    JUNK = JUNK
    INIT_CAPACITY = 1
    Dims = {0, 3}
    MaxTotal = 7
    Indices <- AllIndices
SPECIFICATION Spec
SYMMETRY Symmetry
INVARIANT TypeOK OverrunOnlyWithoutMemory
PROPERTY ResizeLeavesRoom ImplementsSequence
