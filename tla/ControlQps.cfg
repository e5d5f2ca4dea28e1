\* A job whose processes destroy their group and create it again: are QP numbers
\* different on every node?
SPECIFICATION ControlSpec
CONSTANTS
    n1 = n1
    n2 = n2
    Clients = {0, 1, 2}
    Nodes = {n1, n2}
    NodeOf <- MCNodeOf
    PortOf <- MCPortOf
    Program <- MCRegroup
    MaxRuns = 1
    Aborts = {}
    Discovered = {n1, n2}
    MaxUnits = 2
    MaxCommon = 2
INVARIANTS
    DistinctFabricQps
