\* Edges every 3 ticks, a dead time of 2, a clock that wraps after 11; two
\* faults.
SPECIFICATION FairSpec
CONSTANTS
    Wrap = 11
    Debounce = 2
    PeriodTicks = 3
    Timeout = 7
    MaxFaults = 2
PROPERTIES
    EdgesAreCounted
    StreamsAgain
