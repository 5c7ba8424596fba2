CONSTANTS
    Keys = {k1}
    Values = {v1}
    Lifetimes = {1}
    None = None
    MaxTime = 2
    MaxRecords = 2
    MaxRewrites = 1
    MaxFaults = 2
SPECIFICATION Spec
INVARIANT AofTypeOK LogRebuildsDataset AcknowledgedIsKept SyncedInOrder
CHECK_DEADLOCK FALSE
PROPERTY ImplementsLedger RefusesOnlyAfterPowerLoss EverythingIsSynced RefusalIsTemporary
