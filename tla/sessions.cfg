SPECIFICATION Spec
CONSTANTS
    tab1 = tab1
    tab2 = tab2
    tab3 = tab3
    Tabs = {tab1, tab2, tab3}
    GracePeriod = 1
    MaxTime = 1
    MaxCalls = 2
    None = None
INVARIANTS
    SessionsTypeOK
    UncontestedTabIsThePlayers
    RegisteredIsOpenOrCutOff
    NoGhostInQueue
SYMMETRY TabSymmetry
