\* The next sequence is scheduled as soon as the last handler has run.
SPECIFICATION Spec
CONSTANTS
    Sizes <- MCSizes
    PeerBytes = 9
    Eager = TRUE
INVARIANT NullHandlerNeverCalled
CHECK_DEADLOCK FALSE
