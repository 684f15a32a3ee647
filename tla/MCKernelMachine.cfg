\* A machine without disk and keyboard, or at the end of its bounded reads and
\* reports, has nothing more to do.
SPECIFICATION MCSpec
CONSTANTS
    Units = 14
    Requests = {1, 2, 3, 5}
    Device = 50
    QueueDepth = 3
    DiskBlocks = 2
    AhciPorts = 2
    MaxDrives = 2
    MaxLate = 1
    MaxReads = 3
    Trbs = 6
    EvTrbs = 14
    IntTrbs = 3
    UsbPorts = 2
    Usages = {1, 2}
    MappedUsages = {1}
    MaxReports = 2
    MaxFails = 1
    None = None
INVARIANTS Tiling StretchServed DriversSound 
PROPERTY ImplementsCut
CHECK_DEADLOCK FALSE
