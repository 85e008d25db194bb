SPECIFICATION Spec
CONSTANTS
    Threads = {t1, t2}
    Keys = {1, 2, 3}
    d1 = d1
    d2 = d2
    Data = {d1, d2}
    Blocks <- MCBlocks
    Ptrs = {p1, p2, p3}
    NULL = NULL
    ABSENT = ABSENT
    LowBits <- MCLowBits
    TopByte <- MCTopByte
    BUCKET_SIZE = 1
    SIZE_LIMIT_SINGLE_MUTEX = 1
    Width = 4
    Dims = {2}
    Calls = {"insert", "insertlock", "search", "searchlock", "del", "enum", "clean", "destroy", "setattr"}
    Guarded = TRUE
SYMMETRY Symmetry
CONSTRAINT WithinMemory
INVARIANTS TypeOK ChainsSound ElementsCounted StringsOwned DerefSafe EnumExact HashSizeBounds
PROPERTIES ImplementsMap
