SPECIFICATION Spec
CONSTANTS
    MaxStoreBytes = 3
    CopyBytes = 3
    TrailingLogs = 1
    MaxIndex = 5
    MaxSnapshots = 2
    MaxStarts = 2
CHECK_DEADLOCK FALSE
INVARIANTS
    TypeOK
    SnapshotFaithful
    SnapshotBounded
    EntriesKept
    ServesAllApplied
