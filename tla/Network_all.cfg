\* The code's ten retries, an access point that comes and goes, a udp server
\* that may end by itself, an update that restarts the device once.
SPECIFICATION FairSpec
CONSTANTS
    MaximumRetry = 10
    PromptMain = TRUE
    SocketMayFail = TRUE
    MaxBoots = 1
INVARIANTS
    GivesUpAfterRetries
    GivenUpStaysDown
    OneStopper
    NoOrphans
    NetworkInv
PROPERTIES
    BootDecides
    LossStopsNetwork
\* The station may be given up and the device left without a network.
CHECK_DEADLOCK FALSE
