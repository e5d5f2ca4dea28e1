\* Three applications whose channels come and go; two units: the third
\* must wait.  Every update of the switch is taken table by table.
SPECIFICATION UpdatesSpec
CONSTANTS
    n1 = n1
    n2 = n2
    n3 = n3
    PortOf <- MCPortOf
    Group <- MCGroup
    MaxUnits = 2
    MaxCommon = 3
INVARIANTS
    TablesTypeOK
    ServiceUndisturbed
    NothingAfterClear
PROPERTIES
    ImplementsTables
