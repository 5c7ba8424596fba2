CONSTANTS
    u1 = u1
    s1 = s1
    s2 = s2
    s3 = s3
    None = None
    Users <- MCUsers
    Submits <- MCSubmits
    UserOf <- MCUserOf
    RedisMayFail = FALSE
    SlowJudge = FALSE
SPECIFICATION LockSpec
CHECK_DEADLOCK FALSE
INVARIANTS
    OneSubmissionAtATime
