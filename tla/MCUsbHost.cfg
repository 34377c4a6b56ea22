\* Two devices in turn, one failing transfer, an interrupt line of its own that one
\* unclaimed interrupt masks; the kernel task is fair.
CONSTANTS
    SharedLine = FALSE
    UNCLAIMED_LIMIT = 1
    MAX_PLUGS = 2
    MAX_FAULTS = 1
SPECIFICATION FairSpec
INVARIANTS TogglesAgree StreamIsArmed
PROPERTIES ReportIsFromDevice MouseEventuallyStreams
