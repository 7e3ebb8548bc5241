\* Both acceptors started once.
SPECIFICATION Spec
CONSTANTS
    v4 = v4
    v6 = v6
    c1 = c1
    c2 = c2
    c3 = c3
    Empty = Empty
    Garbled = Garbled
    None = None
    Acceptors <- MCAcceptors
    Conns <- MCConns
    Trusted <- MCTrusted
    Broken <- MCBroken
    MaxStarts = 1
    MaxAcceptErrors = 1
INVARIANT RequestIsOwn
\* The server may be destroyed, or have served every client.
CHECK_DEADLOCK FALSE
