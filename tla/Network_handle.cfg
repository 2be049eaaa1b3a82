\* The udp server may fail to get a socket.
SPECIFICATION Spec
CONSTANTS
    MaximumRetry = 2
    PromptMain = TRUE
    SocketMayFail = TRUE
    MaxBoots = 0
INVARIANT StopsRunningTasks
\* The station may be given up and the device left without a network.
CHECK_DEADLOCK FALSE
