CONSTANTS
    Requests = {r1, r2}
    Channels = {ch1}
    MaxConcurrent = 1
    DailyLimit = 1
    Estimate = 1
    Cost = {1}
    SlotTTL = 1
    DayTTL = 1
    Faults = TRUE
    MaxLoad = 2
SPECIFICATION Spec
INVARIANTS SlotsCover LoadTracksCalls
PROPERTIES LockoutHeals LimitBites
