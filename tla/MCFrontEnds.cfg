\* Off, or at the end of its bounded inputs, a front end has nothing to do.
SPECIFICATION MCSpec
CONSTANTS
    u1 = u1
    u2 = u2
    None = None
INVARIANTS OneAtATime  
PROPERTIES ActsOnShown 
CHECK_DEADLOCK FALSE
