\* Two threads run the io_context; the peer keeps reading or disconnects.
SPECIFICATION FairNetworkSpec
CONSTANTS
    b1 = b1
    b2 = b2
    b3 = b3
    t1 = t1
    t2 = t2
    None = None
    Batches <- MCBatches
    WithDeadline <- MCWithDeadline
    Threads <- MCThreads2
INVARIANTS
    InFlightIsFront
    ReleasedAfterWrite
    SentInOrder
    NeverStuck
PROPERTIES
    ImplementsChannel
    EveryBatchAnswered
CHECK_DEADLOCK FALSE
