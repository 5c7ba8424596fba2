SPECIFICATION Spec
CONSTANTS
    ann = ann
    bob = bob
    cyd = cyd
    dan = dan
    Users = {ann, bob, cyd, dan}
    Elo <- MCElo
    InitialWindow = 1
    ExpandRate = 1
    MaxWindow = 2
    Period = 1
    MaxEntries = 4
    Ticks = {t1, t2}
INVARIANTS
    MatchmakingTypeOK
    OnlyRacingPairs
    PairsAreDisjoint
    NobodyOverlooked
    BothAccepted
PROPERTY
    NobodyWaitsForever
