\* Two clients on two pipes, two calls, no loss, everything fair.
SPECIFICATION FairSystemSpec
CONSTANTS
    c1 = c1
    c2 = c2
    Clients = {c1, c2}
    PipeOf <- MCTwoPipes
    Slots = 2
    MaxPsn = 4
    Window = 2
    PktsPerChunk = 1
    Calls <- MCCalls
    MaxLosses = 0
PROPERTIES
    CallsReturn
