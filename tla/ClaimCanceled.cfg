SPECIFICATION Spec
CONSTANTS
    s1 = s1  s2 = s2  s3 = s3
    Stage = {s1, s2, s3}
    MaxRetries <- Retries
    IsTool <- Tools
    AllowsPartial <- Partials
    Escalations <- Models
    RBE = 1
    Chain <- Chains
    Splits <- Every
    Carried <- Visits
    StallTimeout = TRUE
    MayHang = {s2, s3}
INVARIANT CanceledIsRecorded
CHECK_DEADLOCK FALSE
