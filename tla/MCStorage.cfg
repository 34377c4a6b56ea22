\* Two ports, two IDE drives of one channel; disks of two blocks, reads of up to
\* two; two changes of the devices.  The loader and the kernel may halt.
CONSTANTS
    PORTS = 2
    Plugged <- MCPlugged
    Pluggable <- MCPluggable
    Drives <- MCDrives
    READY_ATTEMPTS = 2
    CONFIGURATIONS = 2
    BLOCKS_PER_READ = 2
    IMAGE <- MCImage
    MAX_PLUGS = 2
    CAPACITY = 2
    STORAGE_MAX_BLOCKS = 2
    Request <- MCRequest
SPECIFICATION FairSpec
INVARIANTS KernelStartsClean NoLiveReuse OneResponder TogglesAgree ReadIsExact

PROPERTIES DiscoveryIsSealed StorageReturns PortsComeBack
CHECK_DEADLOCK FALSE
