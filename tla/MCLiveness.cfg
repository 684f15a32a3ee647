SPECIFICATION MCSpec
CONSTANTS
    MaxTasks = 4
    HangTicks = 1
    SwitchDivider = 2
    MaxSleep = 1
    MaxFaults = 1
    EventLen = 1
    Rips = {r1}
    Regs = {g1}
    NoRip = NoRip
    None = None
    Static = Static
    A = A
    B = B
PROPERTIES
    TasksRotate AllSettle
