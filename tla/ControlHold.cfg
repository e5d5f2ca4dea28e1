\* The first of two jobs may be killed: are responses held long enough?
SPECIFICATION ControlSpec
CONSTANTS
    n1 = n1
    n2 = n2
    Clients = {0, 1, 2}
    Nodes = {n1, n2}
    NodeOf <- MCNodeOf
    PortOf <- MCPortOf
    Program <- MCOneChannel
    MaxRuns = 2
    Aborts = {1}
    Discovered = {n1, n2}
    MaxUnits = 2
    MaxCommon = 2
PROPERTIES
    HoldsReplies
CHECK_DEADLOCK FALSE
