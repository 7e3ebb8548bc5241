\* One attempt.
SPECIFICATION Spec
CONSTANTS
    Clients = {c}
    MaxAttempts = 1
    MaxOpen = 1
INVARIANT NoSessionAfterTimeout
CHECK_DEADLOCK FALSE
