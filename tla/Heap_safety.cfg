SPECIFICATION Spec
CONSTANTS
    Nodes = {n1, n2, n3, n4, n5, n6, n7}
    Keys = {0, 1, 2}
    NULL = NULL
    Stale = Stale
SYMMETRY Symmetry
INVARIANTS
    Shape
    HeapOrder
PROPERTIES
    MembersExact
