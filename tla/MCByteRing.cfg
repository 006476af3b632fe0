SPECIFICATION Spec
CONSTANTS
    a = a
    b = b
    NoRec = NoRec
    Rec <- MCRec
    LenOf <- MCLenOf
    Hdr = 2
    Cap = 8
    MaxPush = 5
INVARIANTS Intact RaceFree
PROPERTIES QueueSpec
CHECK_DEADLOCK FALSE
