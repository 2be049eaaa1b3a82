\* The detector keeps up with a sensor that never stalls.
SPECIFICATION Spec
CONSTANTS
    QueueLength = 3
    Window = 3
    HoldPeriods = 7
    TimeoutPeriods = 2
    SensorMayStall = FALSE
    MaxSeq = 20
INVARIANT FreshWindow
