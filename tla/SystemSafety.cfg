\* Two clients, two calls that use the ring more than once; a packet may be lost.
\* Nothing is ever sent again, so the system stops after a loss.
SPECIFICATION SystemSpec
CONSTANTS
    c1 = c1
    c2 = c2
    Clients = {c1, c2}
    PipeOf <- MCOnePipe
    Slots = 4
    MaxPsn = 8
    Window = 2
    PktsPerChunk = 2
    Calls <- MCCalls
    MaxLosses = 1
INVARIANTS
    SystemTypeOK
    QueuesFit
    StatusCounts
    ReceivePosted
    ReturnedExact
PROPERTIES
    ImplementsFabric
CHECK_DEADLOCK FALSE
