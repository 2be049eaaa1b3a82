\* One letter that goes to the flash, one retry, one restart.
SPECIFICATION FairSpec
CONSTANTS
    UdpLetters = {"O"}
    BleLetters = {}
    BusMayFail = FALSE
    StorageMayFail = FALSE
    MaximumRetry = 1
    PromptMain = TRUE
    MaxResets = 1
INVARIANTS
    DeviceInv
    LostOnlyByStop
    QuietAfterStop
PROPERTIES
    DetectorStarts
    BrakeLights
    LossStopsUdp
\* The tasks may all wait for a mutex whose owner was deleted.
CHECK_DEADLOCK FALSE
