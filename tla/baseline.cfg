\* two hours, one turn, steps of a fortieth of an error instead of 1/2000
CONSTANTS
    HourOfWeek = {0, 1}
    Counter = {0, 12}
    PerCount = 40
    MinSamples = 3
    Threshold <- MCThreshold
    None = None
    MaxMoves = 2
    MaxTurns = 1
    MaxFaults = 1
SPECIFICATION FairSpec
INVARIANTS
    TypeOK
    EstimatesWithinSeen
    NormalNeverFlagged
    LargeAlwaysFlagged
PROPERTIES
    FallsSilent
