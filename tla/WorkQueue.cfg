\* Instance of WorkQueue; the model values are those the sets below use.
CONSTANTS
    j1 = j1
    j2 = j2
    s1 = s1
    s2 = s2
    s3 = s3
    s4 = s4
    w1 = w1
    w2 = w2
    r1 = r1
    Jobs = {j1, j2}
    Poison = {j2}
    Legacy = {}
    Slots = {s1, s2, s3, s4}
    Workers = {w1, w2}
    Retriers = {r1}
    Sources = {"main"}
    MaxAttempts = 3
    AttemptCap = 2
    MaxDisruptions = 1
SPECIFICATION FairSpec
INVARIANTS NoLoss DuplicationBudget AttemptAccounting
PROPERTIES Refines Settles
CHECK_DEADLOCK FALSE
