CONSTANTS
    EOT = EOT
    NULL = NULL
    Threads = {w1, w2, r1, r2}
    Writers = {w1, w2}
    Readers = {r1, r2}
    Elements = {e1, e2, e3, e4, e5, e6}
    Blocks <- MCBlocks
    Calls = {"put", "get"}
    Payloads <- MCPayloads
    Modes = {1}
    Sizes = {0, 2}
    CopyBlocks = FALSE
    JoinFirst = TRUE
    Messages = 2
    MaxSpurious = 1
SPECIFICATION CSpec
ACTION_CONSTRAINT FirstFree
INVARIANT AllDelivered NoLostPutWakeup
PROPERTY EveryoneReturns
