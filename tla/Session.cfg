\* Two writes, one monitoring and one close() of one session.
SPECIFICATION FairSpec
CONSTANTS
    MaxWrites = 2
    MayMissCancel = {"read", "write", "pong", "close"}
INVARIANTS
    TypeOK
    HeartbeatGoesOn
    
PROPERTIES
    CloseAnswered
    
    OnlyReaderStays
\* A session may be destroyed and its connection gone.
CHECK_DEADLOCK FALSE
