\* A node is moved to another port before its old entry has aged out.
SPECIFICATION LanSpec
CONSTANTS
    h1 = h1
    h2 = h2
    p1 = p1
    p2 = p2
    p3 = p3
    Host = {h1, h2}
    Port = {p1, p2, p3}
    OwnMac = own
    Strange = {own}
    MaxDigests = 2
    MaxMoves = 1
    QuickMoves = TRUE
    MaxRequests = 1
INVARIANTS
    DeletesSucceed
