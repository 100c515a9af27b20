SPECIFICATION HFairSpec
CONSTANTS
    begin = begin  build = build  verify = verify  leave = leave
    left = left  right = right  merge = merge  split = split  upper = upper  lower = lower
    Node = {begin, left, right, merge, split, upper, lower, leave}
    NoNode = NoNode
    NoLabel = NoLabel
    NoOutcome = NoOutcome
    NoCheckpoint = NoCheckpoint
    Rank <- FanRank
    Graph <- FanGraph
    Start = begin
    Terminal = {leave}
    Outcomes <- FanOutcomes
    Canceled <- CanceledOutcome
    VisitLimit = 3
    SignatureLimit = 3
    MaxRestarts = 0
    FreshGit = {TRUE, FALSE}
    ResumeGit = {FALSE}
    ResumeFrom = "cxdb"
    MaxCrashes = 2
    MaxResumes = 2
    MaxCancels = 1
INVARIANTS CommittedCode SuccessIsFinal
PROPERTIES WalkSpec
CHECK_DEADLOCK FALSE
