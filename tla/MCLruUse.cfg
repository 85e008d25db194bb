CONSTANTS
    Dim = 3
    Threads = {t1, t2, t3}
    Keys = {k1, k2, k3}
    Calls = {"add", "check"}
    Locks = {0}
    LockOf <- OneLock
    MemoryFails = FALSE
SPECIFICATION Spec
SYMMETRY OneLockSymmetry
INVARIANT EvictionFinds RecencyList
