\* The bus works and no task is deleted; the flash may still fail.
SPECIFICATION FairSpec
CONSTANTS
    UdpLetters = {"L", "R", "B", "N", "O", "S"}
    BleLetters = {"L", "R", "N"}
    BusMayFail = FALSE
    StorageMayFail = TRUE
    NetworkMayStop = FALSE
    MaxResets = 0
PROPERTIES
    BrakeLights
    EpisodeEnds
