\* Two ring-3 tasks. A pause of HangTicks fits into a sleep, and the budget is
\* small enough to be passed by both tasks.
SPECIFICATION Spec
CONSTANTS
    MaxTasks = 4
    HangTicks = 2
    SwitchDivider = 1
    MaxSleep = 2
    MaxFaults = 1
    EventLen = 1
    Rips = {r1, r2}
    Regs = {g1}
    NoRip = NoRip
INVARIANTS TypeOK CurrentIsRunnable QueueSound
PROPERTIES ThawRestoresSnapshot BudgetLocks
