\* Two threads run the io_context and two deadlines are missed.
SPECIFICATION Spec
CONSTANTS
    b1 = b1
    b2 = b2
    b3 = b3
    t1 = t1
    t2 = t2
    None = None
    Batches <- MCBatches
    WithDeadline <- MCWithDeadline
    Threads <- MCThreads2
INVARIANT TimeoutReportedOnce
CHECK_DEADLOCK FALSE
