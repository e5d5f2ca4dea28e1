\* The first of two jobs may be killed; node 2 may find the switch late.  A job
\* that is not answered, or whose daemons are gone, waits for ever.
SPECIFICATION ControlSpec
CONSTANTS
    n1 = n1
    n2 = n2
    Clients = {0, 1, 2}
    Nodes = {n1, n2}
    NodeOf <- MCNodeOf
    PortOf <- MCPortOf
    Program <- MCOneChannel
    MaxRuns = 2
    Aborts = {1}
    Discovered = {n1}
    MaxUnits = 2
    MaxCommon = 2
INVARIANTS
    OwnersMatchUsers
    NothingLeftBehind
CHECK_DEADLOCK FALSE
