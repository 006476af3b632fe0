SPECIFICATION FairSpec
CONSTANTS
    c1 = c1
    c2 = c2
    k1 = k1
    k2 = k2
    None = None
    Conn <- MCConn
    Key <- MCKey
    Captures <- SoundCaptures
INVARIANTS ParsedAsWritten CleanMeansComplete
PROPERTIES FinishTerminates
CHECK_DEADLOCK FALSE
