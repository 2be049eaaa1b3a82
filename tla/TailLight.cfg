\* Transfers fail, the network is lost and the udp task deleted, the chip
\* restarts once: a second boot meets what the first life left behind.  The
\* flash works; with one that may fail, nothing is said of it.
SPECIFICATION Spec
CONSTANTS
    UdpLetters = {"L", "O", "S"}
    BleLetters = {"R", "N"}
    BusMayFail = TRUE
    StorageMayFail = FALSE
    NetworkMayStop = TRUE
    MaxResets = 1
INVARIANTS
    TransmitsOwnCommand
    LampFollowsLastCommand
    AcknowledgedIsDurable
    BootShowsChoice
    IndInv
PROPERTIES
    HoldEndsOnlyByCommand
    ImplementsRegister
\* The tasks may all wait for a mutex whose owner was deleted.
CHECK_DEADLOCK FALSE
