CONSTANTS
    EOT = EOT
    NULL = NULL
    Threads = {t1, t2, t3}
    Elements = {e1, e2, e3}
    Blocks = {b1}
    Calls = {"put", "put_head", "get", "peek"}
    Payloads = {b1, EOT}
    Modes = {1, 0}
    Sizes = {0, 1, 2}
    CopyBlocks = FALSE
    JoinFirst = TRUE
SPECIFICATION Spec
SYMMETRY Symmetry
INVARIANT DerefSafe
