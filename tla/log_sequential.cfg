SPECIFICATION Spec
CONSTANTS
    a = a
    main = main
    NoThread = NoThread
    Appenders = {main}
    Truncators = {main}
    Records = {a}
    MaxStoreBytes = 3
    MaxIndexBytes = 3
    InitialOffset = 0
    TrailingLogs = 0
    SpillSizes = {0}
    MaxOffset = 5
    MaxOpened = 9
    MaxCrashes = 0
    MaxCloses = 1
    MaxFaults = 0
INVARIANTS
    TypeOK
    AckedReadable
PROPERTIES
    Implements
