SPECIFICATION FairSpec
CONSTANTS
    StackMayFail = FALSE
    MaxConns = 1
    MaxResults = 1
PROPERTIES
    AutoConnects
