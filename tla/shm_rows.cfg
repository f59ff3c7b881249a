CONSTANTS
    Configs <- MCConfigs
    UInt32 = 4000
    Ports = {0, 1, 2, 3, 4}
    MaxSlots = 6
    MaxOpens = 2
SPECIFICATION Spec
INVARIANTS
    AcceptedOpens
    WritesInsideRows
    RowIntact
    NoStaleIq
CHECK_DEADLOCK FALSE
