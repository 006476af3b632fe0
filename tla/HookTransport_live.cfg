SPECIFICATION FairSpec
CONSTANTS
    t1 = t1
    t2 = t2
    d1 = d1
    d2 = d2
    None = None
    Thread <- MCThread
    Drain <- MCDrain
    RingCap = 1
    Uses <- LiveUses
PROPERTIES EventuallySettled
CHECK_DEADLOCK FALSE
