\* Pages of 8 units; two frames below the RAM and the kernel's image in it; a
\* search over six frames.
CONSTANTS
    MAIN_RAM_START = 2
    MAIN_RAM_END = 11
    Reserved = {4}
    PAGE_SIZE = 8
    KHEAP_MAX_PAGES = 3
    Load <- MCLoad
    CURSOR_PAGES = 6
SPECIFICATION MSpec
INVARIANTS HeapIsExact RetrySucceeds FramesAreAccounted
PROPERTY ImplementsAllocator
