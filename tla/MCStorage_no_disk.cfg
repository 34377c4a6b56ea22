\* No USB disk: a mouse in one of two ports, the kernel loaded from an IDE drive;
\* the mouse may be unplugged and plugged in again.
CONSTANTS
    PORTS = 2
    Plugged <- NoDisk
    Pluggable <- MCPluggable
    Drives <- OneDrive
    READY_ATTEMPTS = 2
    CONFIGURATIONS = 1
    BLOCKS_PER_READ = 2
    IMAGE <- MCImage
    MAX_PLUGS = 2
    CAPACITY = 2
    STORAGE_MAX_BLOCKS = 2
    Request <- NoRequest
SPECIFICATION FairSpec
PROPERTIES MouseComesBack
CHECK_DEADLOCK FALSE
