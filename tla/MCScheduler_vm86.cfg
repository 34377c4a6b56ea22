\* A VM86 process faults.
CONSTANTS
    MAX_TASKS = 2
    Process = {p1, p2}
    NoProcess = NoProcess
    Selector = {s1, s2}
    KERNEL_TSS = KERNEL_TSS
SPECIFICATION Spec
INVARIANT UserFaultIsContained
CHECK_DEADLOCK FALSE
