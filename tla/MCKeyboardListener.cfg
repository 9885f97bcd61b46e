\* One paddle with its two keys: the two paddles share nothing but the order of
\* the queues.
SPECIFICATION Spec
CONSTANTS
    Paddles = {dit}
    MaxPosted = 3
    MaxEvents = 3
INVARIANTS
    Inv
    KeyInStep
    TypedKeyComesUp
