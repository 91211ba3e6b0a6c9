SPECIFICATION FairSpec
CONSTANTS
    worldDatacenters <- Hierarchy
    datacenterRegion <- Regions
    Window = 2
    Lookback = 4
    Ids = {"c1", "c2"}
    Profiles <- Known
    Refreshers = {"cron", "manual"}
    Requests = {"q1", "q2"}
    Today = 10
    MaxRefreshes = 2
    MaxChanges = 2
    MaxFaults = 1
INVARIANTS OneMoment WindowsExact
PROPERTIES NeverOlder ReloadPaced Answered CatchesUp
CHECK_DEADLOCK FALSE
