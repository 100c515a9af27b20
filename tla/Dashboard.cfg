SPECIFICATION DashFairSpec
CONSTANTS
    good = good  bad = bad
    r1 = r1  r2 = r2
    Source = {good, bad}
    Bad = {bad}
    Pending = Pending
    Failed = Failed
    MaxCalls = 3
    Run = {r1, r2}
    DotOf <- Graphs
    Live = {r1}
    Over = 1
    Unknown = Unknown
    MaxViews = 2
    MaxRequests = 2
INVARIANTS DashTypeOK ListenersMatchMessages PaneInStep
PROPERTIES RendersAsPromised EveryCallSettles
CHECK_DEADLOCK FALSE
