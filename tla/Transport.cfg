\* Every sequence is scheduled from the io thread; the batches are what they read,
\* and the first does not fit on the wire.
SPECIFICATION TransportSpec
CONSTANTS
    Sizes <- MCSizes
    PeerBytes = 9
    Eager = FALSE
    Capacity = 3
INVARIANTS
    TypeOK
    HandlersSeeTheStream
    HandlersFollowTheChain
    OneDriver
    SequenceReadsItsBatch
PROPERTY BatchesArrive
\* All batches read, or the stream failed.
CHECK_DEADLOCK FALSE
