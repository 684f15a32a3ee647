\* After the last of the bounded sends an empty transport has nothing to do.
SPECIFICATION MCSpec
CONSTANTS
    Capacity = 4
    Byte = {0, 1}
INVARIANTS
    NoSharedCell PacketsKept TableSound
PROPERTIES
    IsFifo 
CHECK_DEADLOCK FALSE
