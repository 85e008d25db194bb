CONSTANTS
    EOT = EOT
    NULL = NULL
    Threads = {t1, t2, t3}
    Elements = {e1, e2, e3}
    Blocks = {b1}
    Calls = {"put", "put_head", "get", "peek", "setattr", "getattr", "clean", "destroy"}
    Payloads = {b1}
    Modes = {1, 0}
    Sizes = {0, 1}
    CopyBlocks = FALSE
    JoinFirst = FALSE
SPECIFICATION Spec
SYMMETRY Symmetry
INVARIANT TypeOK MutualExclusion ListShape Ownership NoLeak WaitCounters
