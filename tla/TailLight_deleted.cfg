\* As TailLight_live, but the network monitor may delete the udp task.
SPECIFICATION FairSpec
CONSTANTS
    UdpLetters = {"L", "R", "B", "N", "O", "S"}
    BleLetters = {"L", "R", "N"}
    BusMayFail = FALSE
    StorageMayFail = FALSE
    NetworkMayStop = TRUE
    MaxResets = 0
PROPERTY BrakeLights
\* The tasks may all wait for a mutex whose owner was deleted.
CHECK_DEADLOCK FALSE
