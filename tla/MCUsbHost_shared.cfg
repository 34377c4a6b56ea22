\* Another device uses the same interrupt line.
CONSTANTS
    SharedLine = TRUE
    UNCLAIMED_LIMIT = 2
    MAX_PLUGS = 1
    MAX_FAULTS = 1
SPECIFICATION Spec
INVARIANT StreamIsArmed
