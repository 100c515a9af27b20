SPECIFICATION FairSpec
CONSTANTS
    r1 = r1  r2 = r2  r3 = r3
    p1 = p1  p2 = p2
    Runner = {r1, r2, r3}
    Pid = {p1, p2}
    PidOf <- TwoProcesses
    MaxAttempts = 2
    ProcFS = TRUE
    MaxStart = 2
    MaxFaults = 1
    NoFile = NoFile
INVARIANT MutualExclusion
CHECK_DEADLOCK FALSE
