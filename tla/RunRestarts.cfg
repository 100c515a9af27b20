SPECIFICATION HFairSpec
CONSTANTS
    begin = begin  build = build  verify = verify  leave = leave
    left = left  right = right  merge = merge  split = split  upper = upper  lower = lower
    Node = {begin, build, verify, leave}
    NoNode = NoNode
    NoLabel = NoLabel
    NoOutcome = NoOutcome
    NoCheckpoint = NoCheckpoint
    Rank <- GateRank
    Graph <- RestartGraph
    Start = begin
    Terminal = {leave}
    Outcomes <- RestartOutcomes
    Canceled <- CanceledOutcome
    VisitLimit = 4
    SignatureLimit = 4
    MaxRestarts = 2
    FreshGit = {TRUE}
    ResumeGit = {FALSE, TRUE}
    ResumeFrom = "cxdb"
    MaxCrashes = 2
    MaxResumes = 2
    MaxCancels = 1
INVARIANTS TypeOK RestartsCounted BreakerNeverForgets
PROPERTIES WalkSpec
CHECK_DEADLOCK FALSE
