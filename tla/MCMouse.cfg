\* Two mice, an event ring of two packets, a cursor ring of three.
CONSTANTS
    Caller = {c1, c2}
    MOUSE_CONTROLLER_COUNT = 2
    MOUSE_QUEUE_SIZE = 3
    MOUSE_CURSOR_QUEUE_SIZE = 4
    I915_CURSOR_BATCH = 3
    Machine <- MCMachine
SYMMETRY Symmetry
SPECIFICATION Spec
INVARIANTS PacketIsStable NoStuckButton CursorOwesExactly
PROPERTY DeliveredIsCurrent
CHECK_DEADLOCK FALSE
