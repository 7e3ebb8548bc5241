\* One io thread, as the tests run the library.
SPECIFICATION FairSpec
CONSTANTS
    b1 = b1
    b2 = b2
    b3 = b3
    t1 = t1
    t2 = t2
    None = None
    Batches <- MCBatches
    WithDeadline <- MCWithDeadline
    Threads <- MCThreads1
INVARIANTS
    TypeOK
    SentAsScheduled
    TimeoutReportedOnce
PROPERTIES
    TimeoutIsFinal
    DeadlineAnswered
\* Once every batch is answered nothing is left to do.
CHECK_DEADLOCK FALSE
