\* One caller, and a key that has an E0 prefix.
CONSTANTS
    Caller = {c1}
    Typist <- MCPrefix
    KEYBOARD_QUEUE_SIZE = 4
SPECIFICATION Spec
INVARIANT NoStuckKey
