SPECIFICATION HFairSpec
CONSTANTS
    begin = begin  build = build  verify = verify  leave = leave
    left = left  right = right  merge = merge  split = split  upper = upper  lower = lower
    Node = {begin, build, verify, leave}
    NoNode = NoNode
    NoLabel = NoLabel
    NoOutcome = NoOutcome
    NoCheckpoint = NoCheckpoint
    Rank <- GateRank
    Graph <- SelfGateGraph
    Start = begin
    Terminal = {leave}
    Outcomes <- GateOutcomes
    Canceled <- CanceledOutcome
    VisitLimit = 4
    SignatureLimit = 3
    MaxRestarts = 0
    FreshGit = {TRUE}
    ResumeGit = {FALSE}
    ResumeFrom = "cxdb"
    MaxCrashes = 1
    MaxResumes = 1
    MaxCancels = 1
INVARIANTS GateMustPass
CHECK_DEADLOCK FALSE
