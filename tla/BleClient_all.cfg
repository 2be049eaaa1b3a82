SPECIFICATION FairSpec
CONSTANTS
    StackMayFail = TRUE
    MaxConns = 3
    MaxResults = 2
INVARIANTS
    BleInv
    UsesOwnHandles
PROPERTIES
    OneConnection
    OnlyFailureBars
    NotifyEnabled
