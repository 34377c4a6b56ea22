\* Twelve states of the firmware, the desktop and another process.  Without
\* the device the running system may have nothing left to do, and a panic ends.
CONSTANTS
    WORD <- MCWord
    Process = {8, 16}
    Firmware <- MCFirmware
    Motion <- MCMotion
    PANIC_BACKTRACE_DEPTH = 3
    Frame <- MCFrame
    Mapped <- MCMapped
    Reload <- MCReload
    MAX_NESTED = 1
SPECIFICATION FairSpec
INVARIANTS PanicReturnsToText TakeoverIsEarned EngineIsIdle DesktopIsShown CursorMatches
           PanicReadsMapped
PROPERTIES ServiceReturns
CHECK_DEADLOCK FALSE
