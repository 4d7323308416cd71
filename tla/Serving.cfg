SPECIFICATION Spec
CONSTANTS
    None = None
    NoLimit = NoLimit
    Weighted = Weighted
    Standby = Standby
    Keys <- MCKeys
    Weight <- MCWeight
    DailyLimit <- MCDailyLimit
    Rules = {Weighted, Standby}
    Sequential = {Standby}
    TargetOrder <- MCTargetOrder
    MaxPools = 2
    Outages <- MCOutages
    Requests = {r1, r2}
    TokenCounts <- MCTokenCounts
    DayLength = 1
    MaxClock = 1
ACTION_CONSTRAINT QuietNextDay
SYMMETRY RequestSymmetry
INVARIANTS TypeOK FairShare UsageAddsUp OvershootBounded StatsAddUp
CHECK_DEADLOCK FALSE
