SPECIFICATION Spec
CONSTANTS
    a = a
    main = main
    NoThread = NoThread
    Appenders = {main}
    Truncators = {main}
    Records = {a}
    MaxStoreBytes = 4
    MaxIndexBytes = 3
    InitialOffset = 0
    TrailingLogs = 1
    SpillSizes = {0, 1, 3}
    MaxOffset = 4
    MaxOpened = 9
    MaxCrashes = 2
    MaxCloses = 0
    MaxFaults = 0
INVARIANTS
    ReadsNeverLie
    SegmentsOrdered
