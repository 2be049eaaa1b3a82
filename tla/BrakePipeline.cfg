\* Any schedule: every task may be late by any number of periods, and the
\* sensor may fall silent.  Two episodes fit in, chained or with a window
\* between them.
SPECIFICATION FairSpec
CONSTANTS
    QueueLength = 2
    Window = 2
    HoldPeriods = 2
    TimeoutPeriods = 1
    SensorMayStall = TRUE
    MaxSeq = 7
INVARIANTS
    SamplesInOrder
    WindowContiguous
    NoOverrun
    LagBounded
    PipelineInv
PROPERTIES
    UploadsInOrder
    SamplingGoesOn
    SamplesAreJudged
