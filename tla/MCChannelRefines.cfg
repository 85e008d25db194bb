CONSTANTS
    EOT = EOT
    NULL = NULL
    Threads = {t1, t2, t3}
    Elements = {e1, e2, e3}
    Blocks = {b1, b2}
    Calls = {"put", "put_head", "get", "peek", "getattr", "clean", "destroy"}
    Payloads = {b1, b2}
    Modes = {1, 0}
    Sizes = {0, 1, 2}
    CopyBlocks = TRUE
    JoinFirst = TRUE
SPECIFICATION Spec
SYMMETRY Symmetry
PROPERTY ImplementsQueue
INVARIANT CapacityRespected NoLostGetWakeup
