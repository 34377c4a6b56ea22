\* A table that three processes fill; the timer is fair.
CONSTANTS
    MAX_TASKS = 3
    Process = {p1, p2, p3}
    NoProcess = NoProcess
    Selector = {s1, s2, s3}
    KERNEL_TSS = KERNEL_TSS
SPECIFICATION FairSpec
INVARIANTS NoBadSwitch IInv
PROPERTIES RunningTaskIsNotFreed FaultedProcessIsReaped EveryTaskRuns
CHECK_DEADLOCK FALSE
