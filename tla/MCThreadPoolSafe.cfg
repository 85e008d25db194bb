CONSTANTS
    EOT = EOT
    NULL = NULL
    Clients = {c1, c2}
    Workers = {w1, w2}
    Jobs = {j1, j2, j3, j4}
    Adders = {j1}
    MemoryFails = TRUE
SPECIFICATION Spec
SYMMETRY Symmetry
INVARIANT JobsSound Accounting StuckOnlyThere
PROPERTY WaitDrains
CHECK_DEADLOCK FALSE
