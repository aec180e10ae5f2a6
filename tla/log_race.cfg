SPECIFICATION FairSpec
CONSTANTS
    a = a
    compactor = compactor
    main = main
    NoThread = NoThread
    Appenders = {main}
    Truncators = {compactor}
    Records = {a}
    MaxStoreBytes = 9
    MaxIndexBytes = 2
    InitialOffset = 1
    TrailingLogs = 1
    SpillSizes = {0}
    MaxOffset = 4
    MaxOpened = 5
    MaxCrashes = 0
    MaxCloses = 1
    MaxFaults = 1
INVARIANTS
    SegmentsOrdered
    ActiveNeverRemoved
PROPERTIES
    CallsReturn
