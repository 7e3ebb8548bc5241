\* Three attempts of one client, two of which may be under way at once.
SPECIFICATION FairSpec
CONSTANTS
    Clients = {c}
    MaxAttempts = 3
    MaxOpen = 2
INVARIANTS
    TypeOK
    AnsweredOnce
    TimerEndsWithAttempt
    GuardedUntilTimeout
    SessionNeverCut
 
\* All attempts made, or the client destroyed.
CHECK_DEADLOCK FALSE
