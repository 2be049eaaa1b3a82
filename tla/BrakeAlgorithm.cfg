\* The code's window, threshold and count; the acceleration changes twice and
\* one read fails, at any three moments.
SPECIFICATION Spec
CONSTANTS
    Levels <- LevelsOf
    Threshold <- ThresholdOf
    Hard <- HardOf
    BadReads <- BadReadsOf
    DecelMin = 4
    MaxChanges = 2
    MaxBadReads = 1
INVARIANTS
    NoFalseAlarm
    StepIsDetected
    ReleaseEndsBraking
