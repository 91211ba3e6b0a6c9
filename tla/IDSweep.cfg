CONSTANTS
    d1 = d1
    d2 = d2
    o1 = o1
    Daemons = {d1, d2}
    Operators = {o1}
    Counts = {1, 3}
    ChunkSize = 2
    Flags = {0, 7}
    MaxUint = 7
    Initial = {1}
    Population = {1, 4}
    MaxFailures = 1
SPECIFICATION FairSpec
INVARIANTS NoSkip
PROPERTIES BatchEnds EventuallySwept
CHECK_DEADLOCK FALSE
