\* Two callers and a ring of three, which is full at two bytes.  Input never ends.
CONSTANTS
    Caller = {c1, c2}
    Typist <- MCTypist
    KEYBOARD_QUEUE_SIZE = 3
SPECIFICATION FairSpec
INVARIANTS QueueIsFifo NoStuckKey DecodedIsTrue
PROPERTY LockIsReleased
