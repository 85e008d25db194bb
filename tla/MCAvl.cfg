CONSTANTS
    Keys = {1, 2, 3, 4, 5, 6, 7}
    a = a
    b = b
    Values <- MCValues
    NULL = NULL
SPECIFICATION Spec
INVARIANT IsAvlTree
PROPERTY ActsAsMap
