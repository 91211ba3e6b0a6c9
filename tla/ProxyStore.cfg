CONSTANTS
    c1 = c1
    c2 = c2
    NoOne = NoOne
    Consumers = {c1, c2}
    LeaseDuration = 2
    LockTTL = 2
    FreshnessTTL = 4
    RecoveryHorizon = 4
    VerifyInterval = 2
    MinRepeat = 1
    InconclusiveRetry = 2
    DeadAfter = 3
    RetryAfters = {0, 3}
    Cooldowns = {1, 2}
    RecoveryDelays <- Delays
    StepBound = 2
    FailThreshold = 2
    MaxLockWait = 1
    MaxTime = 7
    MaxClaims = 4
SPECIFICATION Spec
SYMMETRY Sym
INVARIANTS LockHeld CooldownFence
PROPERTIES NoStaleEvidence
CHECK_DEADLOCK FALSE
