CONSTANTS
    s1 = s1
    s2 = s2

    Scanners = {s1}
    Manual = {}
    MinIDs = {4}
    Count = 2
    ChunkSize = 2
    MaxUint = 7
    Initial = {3}
    Population = {3, 5, 7}
    MaxFailures = 1
SPECIFICATION GapFairSpec
PROPERTY GapsRevisited
CHECK_DEADLOCK FALSE
