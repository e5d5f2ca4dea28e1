\* Do results of concurrent applications go where they belong?
SPECIFICATION TablesSpec
CONSTANTS
    n1 = n1
    n2 = n2
    n3 = n3
    PortOf <- MCPortOf
    Group <- MCGroup
    MaxUnits = 2
    MaxCommon = 3
INVARIANTS
    ChannelsDistribute
