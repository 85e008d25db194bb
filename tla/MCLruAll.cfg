CONSTANTS
    Dim = 2
    Threads = {t1, t2, t3}
    Keys = {1, 2, 3}
    Calls = {"add", "check", "clear", "destroy"}
    Locks = {0, 1}
    LockOf <- TwoLocks
    MemoryFails = TRUE
SPECIFICATION Spec
SYMMETRY ThreadSymmetry
INVARIANT SlotsSound HashAgreesWithList RightPayload
PROPERTY UsesHashMap
