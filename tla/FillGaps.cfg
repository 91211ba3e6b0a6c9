CONSTANTS
    s1 = s1
    s2 = s2
    m1 = m1
    Scanners = {s1, s2}
    Manual = {m1}
    MinIDs = {4}
    Count = 2
    ChunkSize = 2
    MaxUint = 7
    Initial = {3}
    Population = {3, 5, 7}
    MaxFailures = 1
SPECIFICATION GapFairSpec
INVARIANTS WrapIsStale GapsExact GapNoSkip
PROPERTY GapsQueued
CHECK_DEADLOCK FALSE
