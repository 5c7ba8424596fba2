CONSTANTS
    p1 = p1
    p2 = p2
    sa = sa
    sa2 = sa2
    sb = sb
    fa = fa
    fb = fb
    gb = gb
    ra = ra
    None = None
    Player1 = p1
    Player2 = p2
    Users <- MCUsers
    UserOf <- MCUserOf
    Submits = {sa, sb}
    Forfeits = {}
    Graces = {}
    Readies = {}
    InitialHp = 2
    Damages = {0, 2}
    TimeLimitTicks = 1
    TestCasesColumn = "json"
    DbMayFail = TRUE
    RedisMayFail = FALSE
    SlowJudge = FALSE
    StaleHeartbeats = {FALSE, TRUE}
    MaxCrashes = 0
SPECIFICATION BattleSpec
CHECK_DEADLOCK FALSE
PROPERTIES
    JudgingEnds
    RoomIsReclaimed
