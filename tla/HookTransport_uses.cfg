SPECIFICATION Spec
CONSTANTS
    t1 = t1
    t2 = t2
    d1 = d1
    d2 = d2
    None = None
    Thread <- MCThread
    Drain <- MCDrain
    RingCap = 1
    Uses <- SafetyUses
SYMMETRY Symmetry
INVARIANTS Accounting PerThreadOrder ShutdownSettles ChildClean
CHECK_DEADLOCK FALSE
