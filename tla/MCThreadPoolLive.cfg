CONSTANTS
    EOT = EOT
    NULL = NULL
    Clients = {c1, c2}
    Workers = {w1, w2}
    Jobs = {j1, j2, j3}
    Adders = {}
    MemoryFails = FALSE
SPECIFICATION FairSpec
INVARIANT DestroyedClean
PROPERTY CallsReturn EveryJobRuns
