SPECIFICATION Spec
CONSTANTS
    MaxStale = 40
    ExplicitHeap = 168
    ExplicitIds = {1, 2, 3, 4, 5}
    ExplicitSizes = {16, 32}
    ImplicitHeap = 104
    ImplicitIds = {1, 2, 3, 4}
    ImplicitSizes = {8, 40}
CHECK_DEADLOCK FALSE
INVARIANTS HeapTiled FreeListExact StaleNeverRead
PROPERTIES DriverSatisfied ImplementsBlockHeap
