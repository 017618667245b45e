\* one hour, one move, and the code's own ALPHA
CONSTANTS
    HourOfWeek = {0}
    Counter = {0, 6}
    PerCount = 2000
    MinSamples = 3
    Threshold <- MCThreshold
    None = None
    MaxMoves = 1
    MaxTurns = 0
    MaxFaults = 0
SPECIFICATION FairSpec
INVARIANTS
    EstimatesOrdered
