CONSTANTS
    Keys = {k1}
    Values = {v1}
    Lifetimes = {1}
    None = None
    MaxTime = 2
    MaxRecords = 3
    MaxRewrites = 0
    MaxFaults = 1
SPECIFICATION Spec
INVARIANT CrashCostsTheBuffer
CHECK_DEADLOCK FALSE
