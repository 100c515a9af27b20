SPECIFICATION FairSpec
CONSTANTS
    s1 = s1  s2 = s2  s3 = s3
    Stage = {s1, s2, s3}
    MaxRetries <- Retries
    IsTool <- Tools
    AllowsPartial <- Partials
    Escalations <- Models
    RBE = 1
    Chain <- Chains
    Splits <- Every
    Carried <- Visits
    StallTimeout = TRUE
    MayHang = {s2, s3}
INVARIANTS TypeOK StatusIsOutcome EscalationEarned RetriesCounted CancelHasCause JoinedMeansAll
PROPERTY RegionReturns
CHECK_DEADLOCK FALSE
