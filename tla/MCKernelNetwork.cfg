\* A TCP connection that is closed on both sides, or the last of the bounded
\* calls, leaves nothing to do.
SPECIFICATION MCSpec
CONSTANTS
    None = None
    Static = Static
    A = A
    B = B
INVARIANTS
    JoinedAsGranted StreamSound FramesInOrder
CHECK_DEADLOCK FALSE
