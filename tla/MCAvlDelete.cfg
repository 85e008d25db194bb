CONSTANTS
    Keys = {1, 2, 3}
    a = a
    b = b
    Values <- MCValues
    NULL = NULL
SPECIFICATION Spec
INVARIANT KeysStay
