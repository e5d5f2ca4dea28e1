\* Two jobs, one after the other, that end in an orderly way; one of their channels
\* is created a second time.
SPECIFICATION FairControlSpec
CONSTANTS
    n1 = n1
    n2 = n2
    Clients = {0, 1, 2}
    Nodes = {n1, n2}
    NodeOf <- MCNodeOf
    PortOf <- MCPortOf
    Program <- MCRegroupTwoChannels
    MaxRuns = 2
    Aborts = {}
    Discovered = {n1, n2}
    MaxUnits = 2
    MaxCommon = 2
INVARIANTS
    ControlTypeOK
    HeldChannelsWork
    SdSurvives
    RepliesAreCurrent
    NodeDaemonsSurvive
PROPERTIES
    HoldsReplies
    RequestsAnswered
