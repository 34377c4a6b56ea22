\* Two places in the tables for three objects, and four descriptors: every
\* allocation of a constructor is in turn the one that fails.
CONSTANTS
    MAX_TASKS = 2
    Process = {p1, p2, p3}
    NoProcess = NoProcess
    Selector = {80, 88, 96, 104}
    KERNEL_TSS = 72
    Pools <- MCPools
    V86_PRIVATE_PAGES = 2
    USER_HEAP_PAGES = 2
SYMMETRY Symmetry
SPECIFICATION PSpec
INVARIANTS
    NothingLeaks
    TablesAreExact
PROPERTIES
    GraphicsNotInherited
    ImplementsScheduler
CHECK_DEADLOCK FALSE
