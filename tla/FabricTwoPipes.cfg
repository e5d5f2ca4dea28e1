\* Three clients on two pipes; three slots, five packets each: the slots wrap.
SPECIFICATION FairFabricSpec
CONSTANTS
    c1 = c1
    c2 = c2
    c3 = c3
    Clients = {c1, c2, c3}
    PipeOf <- MCTwoPipes
    Slots = 3
    MaxPsn = 5
INVARIANTS
    TypeOK
    ResultsExact
    SlotIntegrity
    FullIffRecirculating
    QueuesBounded
    QuiescentRegistersZero
PROPERTIES
    NoPartialWipe
    ImplementsAllreduce
    AllComplete
