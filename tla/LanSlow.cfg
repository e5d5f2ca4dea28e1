\* Two nodes, three ports, one move of a node that has been silent long enough.
SPECIFICATION FairLanSpec
CONSTANTS
    h1 = h1
    h2 = h2
    p1 = p1
    p2 = p2
    p3 = p3
    Host = {h1, h2}
    Port = {p1, p2, p3}
    OwnMac = own
    Strange = {own}
    MaxDigests = 1
    MaxMoves = 1
    QuickMoves = FALSE
    MaxRequests = 1
INVARIANTS
    LanTypeOK
    NodesReachable
    TablesAgree
    ModuleReachable
    DeletesSucceed
PROPERTIES
    AdoptsOwnPort
    EchoesAnswered
    SwitchDiscovered
